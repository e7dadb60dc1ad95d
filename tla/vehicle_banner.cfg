SPECIFICATION Spec
CONSTANTS
  Plate = {p1}
  Panes = {{"normal"}}
  Second = 2
  Patience = 5
  MaxTrack = 1
  MaxCount = 1
  MaxClock = 16
  MaxLosses = 1
INVARIANT BannerFollowsReception
CHECK_DEADLOCK FALSE
