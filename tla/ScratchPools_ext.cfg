SPECIFICATION Spec
CONSTANTS
  MAX_LEVEL = 1
  GFP_POOL_SIZE = 16
  GFPX_POOL_SIZE = 14
  MONT_POOL_SIZE = 6
  EC_POOL_SIZE = 10
  DEGREES = {2, 3}
  CURVE_LEVELS = {0, 1}
  CURVE_DEGREES = {2, 3}
INVARIANTS
  WithinPools
