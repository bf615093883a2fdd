SPECIFICATION MCSpec
CONSTANTS
  CPU <- Icelake
  Merged = TRUE
  OneCpu = "M7"
  Choices <- IcelakeChoices
  Ops = {"Init", "Set", "GetCpu", "AESInit", "ECB"}
  Threads = {t1, t2}
  Chooser = t1
  CHUNK_BITS = 3
  RsaKeys <- MCRsaKeys
  SoundKeys <- MCSoundKeys
  RsaTexts = {0, 7, 34, 60, 64, 142, 143}
  RsaRooms = {2, 3}
  PubSizes <- MCPubSizes
  Prv1Sizes <- MCPrv1Sizes
  Prv2Sizes <- MCPrv2Sizes
  EXP_WINDOW = 2
INVARIANTS
  ReadyWhenPublished
  CipherFitsKeys
  UserChoiceKept
  WellSizedRecovered
  KeysJudged
PROPERTIES
  CallsReturn
