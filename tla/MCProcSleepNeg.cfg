\* sys_sleep(-1): the int n is compared with the uint ticks - ticks0, so
\* the process sleeps for 2^32 - 1 ticks (3 on the 2-bit counter).
CONSTANTS
  NPROC = 2
  MaxPid = 2
  SleepArgs <- NegativeSleep
  TickBits = 2
SPECIFICATION Spec
INVARIANT SleepBounded
