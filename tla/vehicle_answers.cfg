SPECIFICATION Spec
CONSTANTS
  Plate = {p1, p2}
  Panes = {{"normal"}, {"alert"}}
  Second = 1
  Patience = 1
  MaxTrack = 2
  MaxCount = 1
  MaxClock = 2
  MaxLosses = 1
INVARIANTS TypeOK PaneShowsOneTrack OneMatchPerTrack LossShown ImageOnlyLate
PROPERTY NeverCoarser
SYMMETRY PlateSymmetry
CHECK_DEADLOCK FALSE
