--------------------------- MODULE MCProcSleepNeg ---------------------------
(* Constant values for Proc that a .cfg file cannot write.                 *)
EXTENDS Proc

\* A user program's sleep(-1).
NegativeSleep == {-1}
=============================================================================
