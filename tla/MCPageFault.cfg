\* Pages of 2 bytes in a 12-byte user space (pages 0-5).  The stack's
\* va_base is byte 12 and exec maps its first page, page 5; a fault above
\* byte 12 - 3 * 2 = 6 grows it, down to page 3.  The heap starts at
\* byte 2 (page 1) and sbrk may grow it to 4 bytes (2 pages).
CONSTANTS
  PGSIZE = 2
  VaTop = 12
  StackMax = 3
  HeapBase = 2
  HeapMax = 4
  SbrkArgs <- MCSbrkArgs
  AddrBits = 5
SPECIFICATION Spec
INVARIANT TypeOK RegionsMatchPages KillOnlyInvalid
PROPERTY UserAccessCompletes
\* A killed process has exited and a panic halts the kernel.
CHECK_DEADLOCK FALSE
