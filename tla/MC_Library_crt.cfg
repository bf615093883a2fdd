\* Every cipher text below the modulus, also one shorter than a factor; the dispatcher is at rest.
SPECIFICATION MCSpec
CONSTANTS
  CPU <- Icelake
  Merged = TRUE
  OneCpu = "M7"
  Choices <- IcelakeChoices
  Ops = {}
  Threads = {t1, t2}
  Chooser = t1
  CHUNK_BITS = 3
  RsaKeys <- MCMixedKeys
  SoundKeys <- MCMixedKeys
  RsaTexts = {0, 7, 34, 64, 142, 143}
  RsaRooms = {2, 3}
  PubSizes <- MCPubSizes
  Prv1Sizes <- MCPrv1Sizes
  Prv2Sizes <- MCPrv2Sizes
  EXP_WINDOW = 2
INVARIANT RsaRecovered
