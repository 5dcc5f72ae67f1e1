\* A process opens "/a" and calls fstat on it: namei hands fileopen an
\* inode no one has locked yet, and sys_fstat reads it as it is.
CONSTANTS
  Procs = {p1, p2}
  NINODE = 2
  Names = {a, b}
  InitName = a
  MaxInum = 3
  MaxSize = 1
  NoProc = NoProc
SPECIFICATION Spec
INVARIANT FstatSeesInode
CHECK_DEADLOCK FALSE
