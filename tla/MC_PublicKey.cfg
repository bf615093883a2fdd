SPECIFICATION MCSpec
CONSTANTS
  Methods <- MCMethods
  SM3 <- MCSM3
  LO_MOD = 1024
  BUFF_SIZE = 4
  ELEM_LEN = 1
  CTR_MOD = 8
  Secrets <- MCSecrets
  ZeroBytes <- MCZeroBytes
  CallLens <- MCCallLens
  TagLens <- MCTagLens
  MAX_MSG = 5
  CHUNK_BITS = 3
  InvModuli = {3, 5, 7, 9, 15, 31, 37, 45, 63}
  Curves <- MCCurves
  BaseWindows = {5, 7}
  MulCurves <- MCMulCurves
  PairCurves <- MCPairCurves
  KeyCurves <- MCKeyCurves
  VerifyCurves <- MCKeyCurves
  SecretCurves <- MCSecretCurves
  SignSchemes = {"DSA", "NR", "SM2"}
  SignMessages = {0, 1, 11, 13, 15}
  KECurves <- MCKECurves
  StaticKey <- MCStaticKey
  EphemeralKeys <- MCEphemeralKeys
INVARIANTS
  InStep
  AlmostInverse
  Inverted
  ScalarProduct
  SignaturesMatch
  SecretsAgree
  KeysTold
  KeysAgree
  ConfirmedAgree
  WithinPools
  CallsBalance
  HeldWhenUsed
  LmsValidIffSigned
  XmssValidIffSigned
PROPERTY
  ImplementsSM2
