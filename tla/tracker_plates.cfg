SPECIFICATION Spec
CONSTANTS
  Text = {"A", "B"}
  Corner <- MCCorner
  Confidence = {1, 2}
  Stray <- MCStray
  NUMBEROFPREVIOUSPLATES = 2
  Near = 100
  PerFrame = 2
  MaxPlates = 5
INVARIANTS TypeOK RingHoldsLatest TracksBeginWithImage TrackFollowsCar FewImages
CHECK_DEADLOCK FALSE
