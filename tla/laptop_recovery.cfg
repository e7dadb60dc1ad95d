CONSTANTS
  NoPort = NoPort
  NoMsg = NoMsg
  NoCred = NoCred
  Port = {p1, p2}
  Plate = {l1}
  MaxRetry = 0
  MaxLoss = 2
  MaxFail = 1
  MaxFaults = 2
SPECIFICATION FairSpec
INVARIANT TypeOK
INVARIANT FirstConnectionWhole
INVARIANT LoginGate
INVARIANT NeverAwaitsInVain
INVARIANT SessionFollowsConnection
INVARIANT OnlyFaultsHarm
PROPERTY QueriedOnce
PROPERTY LossRepaired
PROPERTY PlateAnswered
CHECK_DEADLOCK FALSE
