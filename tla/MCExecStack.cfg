\* Two byte values, up to two arguments of up to two bytes, 2-byte
\* pointers and a 12-byte stack page: the longest argv needs 14 bytes, so
\* both of exec's writes can run off the page.
CONSTANTS
  Chars = {1, 2}
  MaxArgs = 2
  MaxLen = 2
  Va0s <- MCVa0s
  Top = 16
  StackBytes = 12
  PtrSize = 2
SPECIFICATION Spec
INVARIANT TypeOK ArgvCopied
\* exec returns, or panics the kernel, after finitely many steps.
CHECK_DEADLOCK FALSE
