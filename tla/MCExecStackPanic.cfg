\* The instance of MCExecStack.cfg, checking that exec never panics.
CONSTANTS
  Chars = {1, 2}
  MaxArgs = 2
  MaxLen = 2
  Va0s <- MCVa0s
  Top = 16
  StackBytes = 12
  PtrSize = 2
SPECIFICATION Spec
INVARIANT ExecNeverPanics
\* exec returns, or panics the kernel, after finitely many steps.
CHECK_DEADLOCK FALSE
