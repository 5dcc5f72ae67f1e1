\* Three slots and four pids: initproc, a child and a grandchild alive at
\* once, and a slot reused after wait frees it.  Sleeps of 2 ticks on
\* a 2-bit tick counter: the first tick wakes a sleeper that must sleep again.
CONSTANTS
  NPROC = 3
  MaxPid = 4
  SleepArgs = {2}
  TickBits = 2
SPECIFICATION Spec
INVARIANT TypeOK ParentValid
PROPERTY ExitWakesSleepingParent SleepReturns
