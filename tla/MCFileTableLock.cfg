CONSTANTS
  Parent = Parent
  Child = Child
  NOFILE = 2
  NFILE = 2
  MaxSize = 1
  Openers = {Parent}
  MaxIref = 3
SPECIFICATION Spec
CHECK_DEADLOCK FALSE
INVARIANT NoLockHeldOnReturn
VIEW LiveView
