SPECIFICATION FairSpec
CONSTANTS
  SaveMode = {"vNoSave", "vSave", "vSaveWithNoALPR"}
  Height = {480}
  VI_HEIGHT = 480
  MaxFrames = 3
INVARIANTS TypeOK SavedNotOlder PlaysToItsEnd
PROPERTY EndsWithLogout
CHECK_DEADLOCK FALSE
