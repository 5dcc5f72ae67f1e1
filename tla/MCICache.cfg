\* Two processes and two cache entries, so that a process holding an open
\* file and another inside namex fill the cache; names a (on the disk at
\* boot) and b; one inode addfile may create; files of at most 1 byte.
CONSTANTS
  Procs = {p1, p2}
  NINODE = 2
  Names = {a, b}
  InitName = a
  MaxInum = 3
  MaxSize = 1
  NoProc = NoProc
SPECIFICATION Spec
INVARIANT TypeOK RefsMatchHolders CacheMatchesDisk CreatedFileFound
PROPERTY AllCallsReturn FileStoreRefined
\* "iget: no inodes" panics and halts the kernel.  A call stuck otherwise
\* is caught by AllCallsReturn.
CHECK_DEADLOCK FALSE
