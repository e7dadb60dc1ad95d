CONSTANTS
  NoConn = NoConn
  NoFd = NoFd
  NoReq = NoReq
  NoEntry = NoEntry
  EmptyName = EmptyName
  Conn = {c1, c2}
  Fd = {f1, f2}
  Req = {r1}
  Account = {a1}
  SendCap = 1
  Kinds <- MCQueries
  Endings = {"fin", "reset"}
SPECIFICATION Spec
SYMMETRY ConnSymmetry
INVARIANT NeverWaitsForAClosedLaptop
CHECK_DEADLOCK FALSE
