CONSTANTS
  NoConn = NoConn
  NoFd = NoFd
  NoReq = NoReq
  NoEntry = NoEntry
  EmptyName = EmptyName
  Conn = {c1}
  Fd = {f1}
  Req = {r1}
  Account = {a1}
  SendCap = 1
  Kinds <- MCQueries
  Endings = {"fin", "reset"}
SPECIFICATION Spec
SYMMETRY ConnSymmetry
INVARIANT ThreadNumIsThreadCount
CHECK_DEADLOCK FALSE
