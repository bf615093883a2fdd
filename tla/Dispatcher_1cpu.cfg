SPECIFICATION Spec
CONSTANTS
  CPU = {"MMX", "SSE", "SSE2", "SSE3", "SSE42", "AES", "AVX", "AVX2", "OS"}
  Merged = FALSE
  OneCpu = "L9"
  Choices = {}
  Ops = {"AESInit", "ECB"}
  Threads = {t1, t2}
INVARIANTS
  CipherFitsKeys
