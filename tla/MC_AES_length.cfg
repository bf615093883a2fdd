\* Every call, also one that goes beyond the length of the message.
SPECIFICATION MCSpec
CONSTANTS
  BLOCK_SIZE = 3
  CTR_POS = 2
  CTR_MOD = 4
  LEN_MOD = 16
  BYTESIZE = 8
  Addrs = {a1, a2}
  CallLens <- MCCallLens
  MAX_IV = 4
  MAX_AAD = 4
  MBS = 4
  AD_HDR = 2
  Ivs <- MCIvs
  CcmCallLens <- MCCcmCallLens
  MsgLens = {5}
  TagLens = {3, 4}
  AdLens <- MCAdLens
  MIN_TAG = 2
  CALLER_FITS = FALSE
  MAX_CTR = 3
  MAX_STARTS = 2
PROPERTY WithinMessageLen
