CONSTANTS
  NoPort = NoPort
  NoMsg = NoMsg
  NoCred = NoCred
  Port = {p1, p2}
  Plate = {l1}
  MaxRetry = 0
  MaxLoss = 1
  MaxFail = 1
  MaxFaults = 2
SPECIFICATION Spec
INVARIANT ServerOutlivesRecovery
SYMMETRY PortSymmetry
CHECK_DEADLOCK FALSE
