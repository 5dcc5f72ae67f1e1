CONSTANTS
  NPROC = 2
  NFRAME = 4
  NSLOT = 2
  Vals = {v1, v2}
SPECIFICATION SSpec
CHECK_DEADLOCK FALSE
INVARIANT SwapRoundTrip
