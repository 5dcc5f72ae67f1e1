------------------------------- MODULE Proc --------------------------------
(***************************************************************************)
(* The process table of src/kernel/proc.c: fork, exit, wait and kill, with *)
(* sleep/wakeup on pid channels, each process's kernel steps interleaved   *)
(* with every other's as on several CPUs.                                  *)
(*                                                                         *)
(* A slot's state is the code's p->state; RUNNABLE stands for RUNNABLE and *)
(* RUNNING alike (every runnable process may be on a CPU).  pc records     *)
(* where a process is in its system call; a slot whose process has left   *)
(* the CPU for the last time in exit has pc "dead".  ptable.lock sections  *)
(* are single steps; the unlocked code between them is where other         *)
(* processes interleave.  The user part of each process chooses freely    *)
(* among fork, exit, wait and kill; a killed process exits on its next     *)
(* return to user space (trap.c:36-43, 168-169).  initproc (slot 1) does   *)
(* not exit and is not killed.  sys_sleep waits on &ticks, which the      *)
(* timer interrupt advances; only ticks - ticks0 is ever read, so each     *)
(* process in sys_sleep keeps that uint difference, TickBits wide.         *)
(***************************************************************************)
EXTENDS Integers, FiniteSets

CONSTANTS NPROC,     \* slots in ptable
          MaxPid,    \* bound: fork stops once nextpid passes MaxPid
          SleepArgs, \* the int arguments a process may pass to sys_sleep
          TickBits   \* width of the uint ticks

ASSUME NPROC \in Nat \ {0} /\ MaxPid \in Nat \ {0}
ASSUME SleepArgs \subseteq Int /\ TickBits \in Nat \ {0}

Wrap == 2^TickBits
TicksChan == MaxPid + 1   \* &ticks: a kernel address, never a pid

Slots == 1..NPROC
Nil == 0             \* a NULL parent pointer; also "no channel"
InitSlot == 1
States == {"UNUSED", "EMBRYO", "SLEEPING", "RUNNABLE", "ZOMBIE"}
WaitPcs == {"wait_scan", "wait_sleep", "wait_woken"}

VARIABLES
  state,     \* p->state
  pid,       \* p->pid (kept by freeproc)
  parent,    \* p->parent: a slot or Nil
  chan,      \* p->chan: a pid while sleeping in wait, Nil otherwise
  killed,    \* p->killed
  pc,        \* where the process is
  fchild,    \* the slot a process in fork has allocated
  nextpid,
  ppid,      \* history: the pid of the process that should be p's parent
  elapsed,   \* ticks - ticks0 of a process inside sys_sleep
  sleepn     \* sys_sleep's n of a process inside it

sleepvars == <<elapsed, sleepn>>
vars == <<state, pid, parent, chan, killed, pc, fchild, nextpid, ppid,
          sleepvars>>

\* userinit (proc.c:94-119) has made initproc RUNNABLE in slot 1.
Init ==
  /\ state = [s \in Slots |-> IF s = InitSlot THEN "RUNNABLE" ELSE "UNUSED"]
  /\ pid = [s \in Slots |-> IF s = InitSlot THEN 1 ELSE 0]
  /\ parent = [s \in Slots |-> Nil]
  /\ chan = [s \in Slots |-> Nil]
  /\ killed = [s \in Slots |-> FALSE]
  /\ pc = [s \in Slots |-> IF s = InitSlot THEN "user" ELSE "dead"]
  /\ fchild = [s \in Slots |-> Nil]
  /\ nextpid = 2
  /\ ppid = [s \in Slots |-> 0]
  /\ elapsed = [s \in Slots |-> 0]
  /\ sleepn = [s \in Slots |-> 0]

\* A process executes kernel code at label l while it is on a CPU.
At(s, l) == pc[s] = l /\ state[s] = "RUNNABLE"
Goto(s, l) == pc' = [pc EXCEPT ![s] = l]

\* wakeup1(c) under ptable.lock (proc.c:373-379).
WakeChan(c) ==
  state' = [q \in Slots |-> IF state[q] = "SLEEPING" /\ chan[q] = c
                           THEN "RUNNABLE" ELSE state[q]]

\* A user process may make a system call.
InUser(s) == At(s, "user") /\ ~killed[s]

-----------------------------------------------------------------------------
(* fork (proc.c:124-161).                                                  *)

\* Mutant: allocproc's scan runs one entry past the end of the table.
ForkAlloc_offbyone(s) ==
  LET free == {q \in Slots : state[q] = "UNUSED"} \cup {NPROC + 1}
      c == CHOOSE q \in free : \A r \in free : q <= r
  IN /\ InUser(s)
     /\ nextpid <= MaxPid
     /\ state' = [state EXCEPT ![c] = "EMBRYO"]
     /\ pid' = [pid EXCEPT ![c] = nextpid]
     /\ killed' = [killed EXCEPT ![c] = FALSE]
     /\ nextpid' = nextpid + 1
     /\ fchild' = [fchild EXCEPT ![s] = c]
     /\ Goto(s, "fork_kstack")
     /\ UNCHANGED <<sleepvars, parent, chan, ppid>>

\* allocproc under ptable.lock (proc.c:53-67): the first UNUSED slot
\* becomes EMBRYO with the next pid.  With no UNUSED slot fork returns -1
\* and nothing changes.
ForkAlloc(s) ==
  LET free == {q \in Slots : state[q] = "UNUSED"}
      c == CHOOSE q \in free : \A r \in free : q <= r
  IN /\ InUser(s)
     /\ nextpid <= MaxPid
     /\ free /= {}
     /\ state' = [state EXCEPT ![c] = "EMBRYO"]
     /\ pid' = [pid EXCEPT ![c] = nextpid]
     /\ killed' = [killed EXCEPT ![c] = FALSE]
     /\ nextpid' = nextpid + 1
     /\ fchild' = [fchild EXCEPT ![s] = c]
     /\ Goto(s, "fork_kstack")
     /\ UNCHANGED <<sleepvars, parent, chan, ppid>>

\* kalloc of the kernel stack (proc.c:69-73); on failure the slot is set
\* back to UNUSED without the lock and fork returns -1.
ForkKstack(s) ==
  /\ At(s, "fork_kstack")
  /\ \/ /\ Goto(s, "fork_copy")
        /\ UNCHANGED state
     \/ /\ state' = [state EXCEPT ![fchild[s]] = "UNUSED"]
        /\ Goto(s, "user")
  /\ UNCHANGED <<sleepvars, pid, parent, chan, killed, fchild, nextpid, ppid>>

\* vspacecopy_cow and the trap frame under ptable.lock; ftablecopy; then,
\* under ptable.lock again, the parent and RUNNABLE (proc.c:131-160).  If
\* vspacecopy_cow fails fork returns -1 and the EMBRYO slot stays as it is.
ForkCopy(s) ==
  LET c == fchild[s] IN
  /\ At(s, "fork_copy")
  /\ \/ /\ parent' = [parent EXCEPT ![c] = s]
        /\ ppid' = [ppid EXCEPT ![c] = pid[s]]
        /\ state' = [state EXCEPT ![c] = "RUNNABLE"]
        /\ pc' = [pc EXCEPT ![s] = "user", ![c] = "user"]
     \/ /\ Goto(s, "user")
        /\ UNCHANGED <<parent, ppid, state>>
  /\ UNCHANGED <<sleepvars, pid, chan, killed, fchild, nextpid>>

-----------------------------------------------------------------------------
(* exit (proc.c:166-194); the file closing at its start is FileTable's.    *)

\* Mutant: exit does not hand its children to initproc.
Exit_noreparent(s) ==
  /\ At(s, "user") /\ s /= InitSlot
  /\ state' = [state EXCEPT ![s] = "ZOMBIE"]
  /\ Goto(s, "exit_wakeup")
  /\ UNCHANGED <<sleepvars, parent, ppid, pid, chan, killed, fchild, nextpid>>

\* The user calls exit, or trap() exits a killed process on its way back
\* to user space.  Under ptable.lock: ZOMBIE, and every slot whose
\* parent's pid is the caller's gets initproc as parent.  The loop also
\* dereferences the NULL parent of UNUSED and EMBRYO slots; whatever it
\* reads there can at most give initproc a phantom child, which wait's
\* unassigned haschild already lets it act on, so those reads are taken
\* as not matching.
Exit(s) ==
  LET orphan(q) == parent[q] /= Nil /\ pid[parent[q]] = pid[s]
  IN /\ At(s, "user") /\ s /= InitSlot
     /\ parent' = [q \in Slots |-> IF orphan(q) THEN InitSlot ELSE parent[q]]
     /\ ppid' = [q \in Slots |-> IF orphan(q) THEN 1 ELSE ppid[q]]
     /\ state' = [state EXCEPT ![s] = "ZOMBIE"]
     /\ Goto(s, "exit_wakeup")
     /\ UNCHANGED <<sleepvars, pid, chan, killed, fchild, nextpid>>

\* Mutant: exit wakes its own pid's channel.
ExitWakeup_self(s) ==
  /\ pc[s] = "exit_wakeup"
  /\ WakeChan(pid[s])
  /\ Goto(s, "exit_sched")
  /\ UNCHANGED <<sleepvars, pid, parent, chan, killed, fchild, nextpid, ppid>>

\* After release: wakeup(myproc()->parent->pid).  If the slot has been
\* freed meanwhile the parent pointer is NULL and the channel is whatever
\* is read there.
ExitWakeup(s) ==
  /\ pc[s] = "exit_wakeup"
  /\ \E c \in IF parent[s] /= Nil THEN {pid[parent[s]]} ELSE 1..MaxPid :
       WakeChan(c)
  /\ Goto(s, "exit_sched")
  /\ UNCHANGED <<sleepvars, pid, parent, chan, killed, fchild, nextpid, ppid>>

\* acquire(&ptable.lock); sched(): the process leaves the CPU for good.
ExitSched(s) ==
  /\ pc[s] = "exit_sched"
  /\ Goto(s, "dead")
  /\ UNCHANGED <<sleepvars, state, pid, parent, chan, killed, fchild, nextpid, ppid>>

-----------------------------------------------------------------------------
(* wait (proc.c:197-242).                                                  *)

WaitCall(s) ==
  /\ InUser(s)
  /\ Goto(s, "wait_scan")
  /\ UNCHANGED <<sleepvars, state, pid, parent, chan, killed, fchild, nextpid, ppid>>

\* Back from sleep, chan is cleared (proc.c:362); then
\* findzombiechild without ptable.lock, and freeproc under it: the first
\* ZOMBIE child in table order becomes UNUSED with a NULL parent and wait
\* returns its pid.  With children but no zombie, wait goes on to sleep.
\* With no child, haschild was never assigned: wait returns -1 or sleeps.
WaitScan(s) ==
  LET kids == {q \in Slots : parent[q] = s}
      zombies == {q \in kids : state[q] = "ZOMBIE"}
      z == CHOOSE q \in zombies : \A r \in zombies : q <= r
  IN /\ pc[s] \in {"wait_scan", "wait_woken"} /\ state[s] = "RUNNABLE"
     /\ IF zombies /= {}
        THEN /\ state' = [state EXCEPT ![z] = "UNUSED"]
             /\ parent' = [parent EXCEPT ![z] = Nil]
             /\ Goto(s, "user")
        ELSE /\ \/ Goto(s, "wait_sleep")
                \/ kids = {} /\ Goto(s, "user")
             /\ UNCHANGED <<state, parent>>
     /\ chan' = [chan EXCEPT ![s] = Nil]
     /\ UNCHANGED <<sleepvars, pid, killed, fchild, nextpid, ppid>>

\* acquire(&ptable.lock); sleep(myproc()->pid, &ptable.lock).
WaitSleep(s) ==
  /\ At(s, "wait_sleep")
  /\ state' = [state EXCEPT ![s] = "SLEEPING"]
  /\ chan' = [chan EXCEPT ![s] = pid[s]]
  /\ Goto(s, "wait_woken")
  /\ UNCHANGED <<sleepvars, pid, parent, killed, fchild, nextpid, ppid>>

-----------------------------------------------------------------------------
(* kill (proc.c:391-407): the first slot, in table order, holding the pid. *)

Kill(s, k) ==
  LET hits == {q \in Slots : pid[q] = k}
      t == CHOOSE q \in hits : \A r \in hits : q <= r
  IN /\ InUser(s)
     /\ hits /= {}
     /\ killed' = [killed EXCEPT ![t] = TRUE]
     /\ state' = IF state[t] = "SLEEPING"
                 THEN [state EXCEPT ![t] = "RUNNABLE"] ELSE state
     /\ UNCHANGED <<sleepvars, pid, parent, chan, pc, fchild, nextpid, ppid>>

-----------------------------------------------------------------------------
(* sys_sleep (sysproc.c:74-91) and the timer interrupt (trap.c:46-54).     *)

\* ticks - ticks0 is uint arithmetic, and the comparison with int n
\* converts n to uint.
Unsigned(n) == n % Wrap

\* sys_sleep returns, past sleep's chan = 0; its locals are dead.
Return(s) ==
  /\ chan' = [chan EXCEPT ![s] = Nil]
  /\ elapsed' = [elapsed EXCEPT ![s] = 0]
  /\ sleepn' = [sleepn EXCEPT ![s] = 0]
  /\ UNCHANGED state

\* Mutant: ticks0 = ticks is taken again on every pass of the loop.
SleepLoop_restart(s) ==
  IF elapsed[s] < Unsigned(sleepn[s])
  THEN IF killed[s]
       THEN /\ Goto(s, "user") /\ Return(s)
       ELSE /\ state' = [state EXCEPT ![s] = "SLEEPING"]
            /\ chan' = [chan EXCEPT ![s] = TicksChan]
            /\ Goto(s, "sleep_woken")
            /\ elapsed' = [elapsed EXCEPT ![s] = 0]
            /\ UNCHANGED sleepn
  ELSE /\ Goto(s, "user") /\ Return(s)

\* The while loop under tickslock: with ticks - ticks0 < n, a killed
\* process returns -1 and any other sleeps on &ticks (sleep takes
\* ptable.lock before it releases tickslock, so no tick is missed);
\* otherwise sys_sleep returns 0.
SleepLoop(s) ==
  IF elapsed[s] < Unsigned(sleepn[s])
  THEN IF killed[s]
       THEN /\ Goto(s, "user") /\ Return(s)
       ELSE /\ state' = [state EXCEPT ![s] = "SLEEPING"]
            /\ chan' = [chan EXCEPT ![s] = TicksChan]
            /\ Goto(s, "sleep_woken")
            /\ UNCHANGED <<elapsed, sleepn>>
  ELSE /\ Goto(s, "user") /\ Return(s)

\* acquire(&tickslock); ticks0 = ticks; the first pass of the loop, where
\* ticks - ticks0 is 0 and the caller, in user space, is not killed.
SleepCall(s, n) ==
  /\ InUser(s)
  /\ IF 0 < Unsigned(n)
     THEN /\ state' = [state EXCEPT ![s] = "SLEEPING"]
          /\ chan' = [chan EXCEPT ![s] = TicksChan]
          /\ elapsed' = [elapsed EXCEPT ![s] = 0]
          /\ sleepn' = [sleepn EXCEPT ![s] = n]
          /\ Goto(s, "sleep_woken")
     ELSE UNCHANGED <<state, chan, elapsed, sleepn, pc>>
  /\ UNCHANGED <<pid, parent, killed, fchild, nextpid, ppid>>

\* Back from sched: chan = 0, ptable.lock released, tickslock taken
\* again; the loop tests once more.
SleepWoken(s) ==
  /\ At(s, "sleep_woken")
  /\ SleepLoop(s)
  /\ UNCHANGED <<pid, parent, killed, fchild, nextpid, ppid>>

\* ticks is 32 bits wide in the code: no process stays inside one
\* sys_sleep for 2^32 ticks.  The narrow counter keeps that bound.
NoWrapInSleep == \A s \in Slots : pc[s] = "sleep_woken" => elapsed[s] < Wrap - 1

\* ticks++ as every process inside sys_sleep sees it.
Advance == [s \in Slots |-> IF pc[s] = "sleep_woken"
                            THEN (elapsed[s] + 1) % Wrap ELSE elapsed[s]]

\* CPU 0's timer interrupt: ticks++ and wakeup(&ticks) under tickslock.
Tick ==
  /\ NoWrapInSleep
  /\ elapsed' = Advance
  /\ WakeChan(TicksChan)
  /\ UNCHANGED <<sleepn, pid, parent, chan, killed, pc, fchild, nextpid, ppid>>

\* A trap the kernel does not handle from user space ("Assume process
\* misbehaved", trap.c:157-162) kills the process; trap() then exits it.
UserFault(s) ==
  /\ InUser(s) /\ s /= InitSlot
  /\ killed' = [killed EXCEPT ![s] = TRUE]
  /\ UNCHANGED <<sleepvars, state, pid, parent, chan, pc, fchild, nextpid, ppid>>

Next ==
  \/ Tick
  \/ \E s \in Slots :
       \/ ForkAlloc(s) \/ ForkKstack(s) \/ ForkCopy(s)
       \/ Exit(s) \/ ExitWakeup(s) \/ ExitSched(s)
       \/ WaitCall(s) \/ WaitScan(s) \/ WaitSleep(s)
       \/ \E k \in 2..MaxPid : Kill(s, k)
       \/ \E n \in SleepArgs : SleepCall(s, n)
       \/ SleepWoken(s)
       \/ UserFault(s)

\* Kernel steps of a process run while it is RUNNABLE: scheduler() scans
\* the table round-robin and every CPU runs it.  A killed process in user
\* space is made to exit by the next trap.  The timer interrupt keeps
\* coming, so Tick is weakly fair.  User choices are not fair.
Fairness ==
  /\ \A s \in Slots :
       /\ WF_vars(ForkKstack(s)) /\ WF_vars(ForkCopy(s))
       /\ WF_vars(ExitWakeup(s)) /\ WF_vars(ExitSched(s))
       /\ WF_vars(WaitScan(s)) /\ WF_vars(WaitSleep(s))
       /\ WF_vars(killed[s] /\ Exit(s)) /\ WF_vars(SleepWoken(s))
  /\ WF_vars(Tick)

Spec == Init /\ [][Next]_vars /\ Fairness

-----------------------------------------------------------------------------

TypeOK ==
  /\ state \in [Slots -> States]
  /\ pid \in [Slots -> 0..MaxPid]
  /\ parent \in [Slots -> Slots \cup {Nil}]
  /\ chan \in [Slots -> 0..TicksChan]
  /\ killed \in [Slots -> BOOLEAN]
  /\ pc \in [Slots -> {"user", "dead", "fork_kstack", "fork_copy",
                       "exit_wakeup", "exit_sched", "sleep_woken"} \cup WaitPcs]
  /\ fchild \in [Slots -> Slots \cup {Nil}]
  /\ nextpid \in 2..MaxPid + 1
  /\ elapsed \in [Slots -> 0..Wrap - 1]
  /\ sleepn \in [Slots -> SleepArgs \cup {0}]

Live(s) == state[s] \in {"RUNNABLE", "SLEEPING", "ZOMBIE"}

\* Every live process other than initproc has as parent the live process
\* that forked it or, once that one has exited, initproc: exit's
\* reparenting under ptable.lock never leaves a parent pointer to a slot
\* that wait has freed and fork may have handed to another process.
ParentValid ==
  \A s \in Slots \ {InitSlot} :
    Live(s) => /\ parent[s] /= Nil
              /\ state[parent[s]] /= "UNUSED"
              /\ pid[parent[s]] = ppid[s]

\* A child that reaches exit's wakeup while its parent is already asleep
\* in wait gets the parent out of wait: exit wakes the parent's pid
\* channel and the parent's re-scan finds a ZOMBIE child to reap.
ExitWakesSleepingParent ==
  \A c, p \in Slots :
    (/\ pc[c] = "exit_wakeup" /\ state[c] = "ZOMBIE" /\ parent[c] = p
     /\ pc[p] = "wait_woken" /\ state[p] = "SLEEPING")
      ~> pc[p] = "user"

\* A process in wait that has a ZOMBIE child eventually returns (spec.md
\* 4.10: wait sleeps only while a non-zombie child exists, and the
\* sleep/wakeup convention loses no wakeup).
WaitReaps ==
  \A s \in Slots :
    (pc[s] \in WaitPcs /\ \E c \in Slots : parent[c] = s /\ state[c] = "ZOMBIE")
      ~> pc[s] = "user"

\* A slot is not freed while its process still runs exit's code on the
\* slot's kernel stack.
NoFreeWhileRunning ==
  \A s \in Slots : pc[s] \in {"exit_wakeup", "exit_sched"} => state[s] = "ZOMBIE"

\* sys_sleep(n) keeps a process asleep on &ticks only while fewer than n
\* ticks have passed since the call, n read as the int the caller gave:
\* the loop test and the timer's wakeup together never let a sleeper miss
\* the tick that ends its sleep, nor sleep for a negative n.
SleepBounded ==
  \A s \in Slots :
    state[s] = "SLEEPING" /\ chan[s] = TicksChan => elapsed[s] < sleepn[s]

\* Every process that has gone to sleep in sys_sleep comes back to user
\* space: the timer keeps ticking and wakes it, and it is not lost to a
\* wakeup meant for a pid channel or to the killed check.
SleepReturns ==
  \A s \in Slots : pc[s] = "sleep_woken" ~> pc[s] = "user"

\* Every EMBRYO slot belongs to a fork in progress.
EmbryoOwned ==
  \A c \in Slots :
    state[c] = "EMBRYO" =>
      \E s \in Slots : pc[s] \in {"fork_kstack", "fork_copy"} /\ fchild[s] = c
=============================================================================
