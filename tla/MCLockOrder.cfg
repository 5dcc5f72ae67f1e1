\* Two writers of a regular file and a file creation: the lock order of
\* writei, locki's dinode read and addfile has no cycle.
CONSTANTS
  RootWriters = {}
  FileWriters = {w1, w2}
  Creators = {a1}
  NoCall = NoCall
SPECIFICATION Spec
INVARIANT TypeOK
PROPERTY AllCallsReturn
