CONSTANTS
  NPROC = 3
  NFRAME = 6
  Vals = {v1, v2}
SPECIFICATION Spec
CHECK_DEADLOCK FALSE
INVARIANT TypeOK CowRefs SharedReadOnly Isolation
