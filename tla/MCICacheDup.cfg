\* Two processes open "/b" with O_CREATE at the same time; two inodes
\* addfile may create, so both may create it.
CONSTANTS
  Procs = {p1, p2}
  NINODE = 2
  Names = {a, b}
  InitName = a
  MaxInum = 4
  MaxSize = 1
  NoProc = NoProc
SPECIFICATION Spec
INVARIANT UniqueNames
CHECK_DEADLOCK FALSE
