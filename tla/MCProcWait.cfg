CONSTANTS
  NPROC = 3
  MaxPid = 4
  SleepArgs = {}
  TickBits = 1
SPECIFICATION Spec
PROPERTY WaitReaps
