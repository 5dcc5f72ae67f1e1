CONSTANTS
  BufSize = 3
  HdrSize = 1
  MaxN = 2
  MaxBytes = 5
SPECIFICATION Spec
CHECK_DEADLOCK FALSE
INVARIANT HeaderIntact
