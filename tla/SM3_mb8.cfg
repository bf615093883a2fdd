SPECIFICATION MbSpec
CONSTANTS
  MB16 = FALSE
  LANES = 2
  SM3_MSG_BLOCK_SIZE = 4
  SM3_MSG_LEN_REPR = 1
  Lens = {0, 1, 2, 3, 5}
  Takings = {{1,2}}
  MAX_LANE = 10
INVARIANT LanesIndependent
CHECK_DEADLOCK FALSE
