SPECIFICATION Spec
CONSTANTS
  SaveMode = {"vNoSave", "vSave", "vSaveWithNoALPR"}
  Height = {480, 720}
  VI_HEIGHT = 480
  MaxFrames = 2
INVARIANT FrameIsDisplayed
CHECK_DEADLOCK FALSE
