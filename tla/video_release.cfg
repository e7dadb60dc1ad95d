SPECIFICATION Spec
CONSTANTS
  SaveMode = {"vNoSave", "vSave", "vSaveWithNoALPR"}
  Height = {480}
  VI_HEIGHT = 480
  MaxFrames = 2
INVARIANT ReleasedWhenDone
CHECK_DEADLOCK FALSE
