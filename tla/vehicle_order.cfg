SPECIFICATION Spec
CONSTANTS
  Plate = {p1, p2}
  Panes = {{"normal"}, {"alert"}}
  Second = 1
  Patience = 5
  MaxTrack = 1
  MaxCount = 1
  MaxClock = 0
  MaxLosses = 0
INVARIANT AnswerFindsImage
CHECK_DEADLOCK FALSE
