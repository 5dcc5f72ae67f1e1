\* The instance of MCPageFault.cfg, checking that a system call's access
\* to a page of the process's regions returns.
CONSTANTS
  PGSIZE = 2
  VaTop = 12
  StackMax = 3
  HeapBase = 2
  HeapMax = 4
  SbrkArgs <- MCSbrkArgs
  AddrBits = 5
SPECIFICATION Spec
PROPERTY KernelAccessReturns
CHECK_DEADLOCK FALSE
