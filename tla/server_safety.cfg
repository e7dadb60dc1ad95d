CONSTANTS
  NoConn = NoConn
  NoFd = NoFd
  NoReq = NoReq
  NoEntry = NoEntry
  EmptyName = EmptyName
  Conn = {c1, c2, c3}
  Fd = {f1, f2}
  Req = {r1, r2}
  Account = {a1}
  SendCap = 1
  Kinds <- MCBoth
  Endings = {"fin", "reset"}
SPECIFICATION Spec
SYMMETRY ConnSymmetry
PROPERTY ImplementsService
INVARIANT TypeOK
INVARIANT ReplyRouting
INVARIANT FrameIntegrity
INVARIANT LoginPromise
INVARIANT SessionProvenance
INVARIANT StatisticsConserved
CHECK_DEADLOCK FALSE
