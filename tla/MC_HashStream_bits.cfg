SPECIFICATION StreamSpec
CONSTANTS
  Methods <- MCMethods
  LO_MOD = 16
  RMF = FALSE
  BUFF_SIZE = 4
  StreamAddrs = {a1}
  StreamCallLens <- MCStreamCallLens
  STREAM_MAX_MSG = 40
INVARIANT LengthFieldIsBits
