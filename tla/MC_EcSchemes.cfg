SPECIFICATION EcSpec
CONSTANTS
  CHUNK_BITS = 3
  Curves <- MCSchemeCurves
  BaseWindows = {5}
  KeyCurves <- MCKeyCurves
  VerifyCurves <- MCKeyCurves
  SecretCurves = {}
  SignSchemes = {"DSA", "NR", "SM2"}
  SignMessages = {0, 1, 11, 13, 15}
INVARIANT SignaturesExact
