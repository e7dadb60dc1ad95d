CONSTANTS
  NoConn = NoConn
  NoFd = NoFd
  NoReq = NoReq
  NoEntry = NoEntry
  EmptyName = EmptyName
  Conn = {c1, c2}
  Fd = {f1, f2}
  Req = {r1, r2}
  Account = {a1}
  SendCap = 1
  Kinds <- MCMixed
  Endings = {"fin", "reset", "early"}
SPECIFICATION FairSpec
INVARIANT ThreadAccounting
PROPERTY RequestServed
PROPERTY DeadPortClosed
CHECK_DEADLOCK FALSE
