SPECIFICATION MCSpec
CONSTANTS
  BLOCK_SIZE = 4
  KeyLens = {16, 32, 17}
  GoodKeyLens = {16, 24, 32}
  CallLens <- MCCallLens
  MdLens = {0, 1, 4, 5}
  MAX_MSG = 17
  Methods <- MCMethods
  LO_MOD = 1024
  BUFF_SIZE = 4
  RMF = TRUE
  StreamAddrs = {a1, a2}
  StreamCallLens <- MCStreamCallLens
  STREAM_MAX_MSG = 5
  HmacMethods <- MCHmacMethods
  HmacAddrs = {a1, a2}
  HmacCallLens <- MCHmacCallLens
  HmacKeyLens <- MCHmacKeyLens
  HmacMdLens = {0, 1, 2}
  HMAC_MAX_MSG = 2
  MB16 = TRUE
  LANES = 2
  SM3_MSG_BLOCK_SIZE = 4
  SM3_MSG_LEN_REPR = 1
  Lens = {0, 1, 3, 4, 6, 9}
  Takings <- MCTakings
  MAX_LANE = 10
  SIV_BLOCK = 2
  MASKED = {2}
  SivStrings <- MCStrings
  SivKeyLens = {16, 17}
  MAX_AD = 2
INVARIANTS
  InStep
  CipherTextStandard
  TextRecovered
  SivBinds
  StreamInStep
  InStepPastCarry
  PadAbsorbed
  LanesIndependent
PROPERTIES
  ImplementsCMAC
  ImplementsHashMessages
  ImplementsHMAC
SYMMETRY AddrSymmetry
