SPECIFICATION Spec
CONSTANTS
  Plate = {p1}
  Panes = {{"normal"}}
  Second = 2
  Patience = 1
  MaxTrack = 1
  MaxCount = 1
  MaxClock = 12
  MaxLosses = 2
INVARIANT LossShown
CHECK_DEADLOCK FALSE
