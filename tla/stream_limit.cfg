CONSTANTS
  Lengths = {4080, 4081, 4096}
  Chunks = {2000}
  Window = 5000
  SEND_DATA_SIZE = 4096
  RECEIVE_DATA_SIZE = 4096
  Limit = 4096
  MaxFrames = 1
SPECIFICATION Spec
INVARIANT AcceptedTextFits
CHECK_DEADLOCK FALSE
