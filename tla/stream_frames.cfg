CONSTANTS
  Lengths = {1, 16, 17, 32, 33, 49}
  Chunks = {1, 5}
  Window = 20
  SEND_DATA_SIZE = 48
  RECEIVE_DATA_SIZE = 48
  Limit = 48
  MaxFrames = 2
SPECIFICATION FairSpec
INVARIANT TypeOK
PROPERTY ImplementsChannel
INVARIANT ReadsAtBoundaries
PROPERTY DeliversLikeChannel
CHECK_DEADLOCK FALSE
