\* A write through a descriptor open on "/" and a file creation: the write
\* holds the root inode lock and waits for loglock, addfile holds loglock
\* and waits for the root inode lock.  The stuck state has no successor,
\* so deadlock is left to AllCallsReturn to report.
CONSTANTS
  RootWriters = {r1}
  FileWriters = {}
  Creators = {a1}
  NoCall = NoCall
SPECIFICATION Spec
PROPERTY AllCallsReturn
CHECK_DEADLOCK FALSE
