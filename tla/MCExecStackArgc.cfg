\* The instance of MCExecStack.cfg, checking argc against the user's argv.
CONSTANTS
  Chars = {1, 2}
  MaxArgs = 2
  MaxLen = 2
  Va0s <- MCVa0s
  Top = 16
  StackBytes = 12
  PtrSize = 2
SPECIFICATION Spec
INVARIANT ArgcMatches
\* exec returns, or panics the kernel, after finitely many steps.
CHECK_DEADLOCK FALSE
