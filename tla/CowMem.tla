------------------------------ MODULE CowMem ------------------------------
(***************************************************************************)
(* The core map of src/kernel/kalloc.c under copy-on-write fork, the CoW  *)
(* write fault of trap.c, process teardown, and the kernel's own page      *)
(* allocations (kernel stacks, pipe pages).                                *)
(*                                                                         *)
(* Each process has one user page (the same virtual address in every      *)
(* process) and a kernel stack; it may also hold one pipe page.  Every     *)
(* core-map update runs under kmem.lock and every vpage_info update is     *)
(* made by the process that owns it, so each operation is one step.        *)
(* The frame's bytes are abstracted to one value; mine[p] is the value p   *)
(* last stored (or inherited at fork), which its page must show.           *)
(* vspace.c is not in src/: the CoW clone and the vspace teardown follow   *)
(* spec.md 4.4, and present[p] is always TRUE here (module Swap evicts).   *)
(***************************************************************************)
EXTENDS Naturals, FiniteSets

CONSTANTS NPROC,    \* process slots
          NFRAME,   \* physical frames
          Vals      \* values a user store may write (model values)

Pids == 1..NPROC
Frames == 1..NFRAME          \* frame 0 is below the kernel's end, never free
NoFrame == 0
Junk == "junk"               \* kfree's memset(v, 2, PGSIZE)
InitVal == CHOOSE v \in Vals : TRUE

VARIABLES
  avail,    \* core_map[f].available
  ref,      \* core_map[f].ref
  uva,      \* core_map[f].va != 0: the frame backs a user page
  data,     \* the frame's contents
  cow_ppn,  \* the frame of the last CoW copy, skipped by the evictor
  alive,    \* the slot holds a process with memory (not yet freeproc'd)
  present,  \* vpage_info.present of the process's page
  ppn,      \* vpage_info.ppn
  cow,      \* vpage_info.is_cow
  writable, \* vpage_info.writable
  kstack,   \* the process's kernel stack frame
  kpage,    \* a pipe page the process allocated, or NoFrame
  mine,     \* the value the process's page must hold
  panicked  \* the kernel panicked

memvars == <<avail, ref, uva, data, cow_ppn>>
procvars == <<alive, present, ppn, cow, writable, kstack, kpage, mine>>
vars == <<memvars, procvars, panicked>>

MinOf(S) == CHOOSE x \in S : \A y \in S : x <= y
Free == {f \in Frames : avail[f]}

\* Process 1 runs with its user page in frame 1 and its stack in frame 2;
\* every other frame went through freerange's kfree.
Init ==
  /\ avail = [f \in Frames |-> f > 2]
  /\ ref = [f \in Frames |-> IF f <= 2 THEN 1 ELSE 0]
  /\ uva = [f \in Frames |-> f = 1]
  /\ data = [f \in Frames |-> IF f = 1 THEN InitVal ELSE Junk]
  /\ cow_ppn = NoFrame
  /\ alive = [p \in Pids |-> p = 1]
  /\ present = [p \in Pids |-> TRUE]
  /\ ppn = [p \in Pids |-> IF p = 1 THEN 1 ELSE NoFrame]
  /\ cow = [p \in Pids |-> FALSE]
  /\ writable = [p \in Pids |-> p = 1]
  /\ kstack = [p \in Pids |-> IF p = 1 THEN 2 ELSE NoFrame]
  /\ kpage = [p \in Pids |-> NoFrame]
  /\ mine = [p \in Pids |-> InitVal]
  /\ panicked = FALSE

\* kalloc's scan: the first available frame.
KallocFrame == MinOf(Free)

\* Mutant: kfree decrements twice.
Kfree_twice(S) ==
  LET freed == {f \in S : ref[f] - 2 = 0} IN
  /\ ref' = [f \in Frames |-> IF f \in S THEN ref[f] - 2 ELSE ref[f]]
  /\ avail' = [f \in Frames |-> avail[f] \/ f \in freed]
  /\ uva' = [f \in Frames |-> uva[f] /\ f \notin freed]
  /\ data' = [f \in Frames |-> IF f \in freed THEN Junk ELSE data[f]]

\* kfree (kalloc.c:107-134) of distinct frames S: ref--; a frame reaching
\* zero is poisoned, its user and va cleared, and put back.
Kfree(S) ==
  LET freed == {f \in S : ref[f] - 1 = 0} IN
  /\ ref' = [f \in Frames |-> IF f \in S THEN ref[f] - 1 ELSE ref[f]]
  /\ avail' = [f \in Frames |-> avail[f] \/ f \in freed]
  /\ uva' = [f \in Frames |-> uva[f] /\ f \notin freed]
  /\ data' = [f \in Frames |-> IF f \in freed THEN Junk ELSE data[f]]

\* With no frame free, kalloc calls evictpage(1), which panics: from
\* ppage_copy and swappage_copy it re-acquires the held kmem.lock, and
\* otherwise its assert(cme->available = 0) is an assignment of 0.
OutOfFrames ==
  /\ Free = {}
  /\ panicked' = TRUE
  /\ UNCHANGED <<memvars, procvars>>

-----------------------------------------------------------------------------

\* A user store to a present, writable page.
Store(p, v) ==
  /\ alive[p] /\ present[p] /\ writable[p]
  /\ data' = [data EXCEPT ![ppn[p]] = v]
  /\ mine' = [mine EXCEPT ![p] = v]
  /\ UNCHANGED <<avail, ref, uva, cow_ppn, alive, present, ppn, cow, writable,
                 kstack, kpage, panicked>>

\* Mutant: ppage_copy's memmove with source and destination swapped.
CowFault_swapcopy(p) ==
  LET old == ppn[p] IN
  /\ alive[p] /\ present[p] /\ ~writable[p] /\ cow[p]
  /\ \/ /\ ref[old] > 1 /\ Free /= {}
        /\ LET f == KallocFrame IN
             /\ avail' = [avail EXCEPT ![f] = FALSE]
             /\ ref' = [ref EXCEPT ![f] = 1, ![old] = ref[old] - 1]
             /\ data' = [data EXCEPT ![old] = data[f]]
             /\ ppn' = [ppn EXCEPT ![p] = f]
             /\ UNCHANGED uva
        /\ cow_ppn' = old
     \/ /\ ref[old] = 1
        /\ UNCHANGED <<avail, ref, uva, data, cow_ppn, ppn>>
  /\ writable' = [writable EXCEPT ![p] = TRUE]
  /\ cow' = [cow EXCEPT ![p] = FALSE]
  /\ UNCHANGED <<alive, present, kstack, kpage, mine, panicked>>

\* A write-protection fault on a CoW page (trap.c:120-146): ppage_copy
\* (kalloc.c:296-324) copies the frame into a new one and drops the old
\* frame's ref when it is shared, else keeps it; the page becomes writable
\* and not CoW.  The new frame keeps kalloc's va = 0.
CowFault(p) ==
  LET old == ppn[p] IN
  /\ alive[p] /\ present[p] /\ ~writable[p] /\ cow[p]
  /\ \/ /\ ref[old] > 1 /\ Free /= {}
        /\ LET f == KallocFrame IN
             /\ avail' = [avail EXCEPT ![f] = FALSE]
             /\ ref' = [ref EXCEPT ![f] = 1, ![old] = ref[old] - 1]
             /\ data' = [data EXCEPT ![f] = data[old]]
             /\ ppn' = [ppn EXCEPT ![p] = f]
             /\ UNCHANGED uva
        /\ cow_ppn' = old
     \/ /\ ref[old] = 1
        /\ UNCHANGED <<avail, ref, uva, data, cow_ppn, ppn>>
  /\ writable' = [writable EXCEPT ![p] = TRUE]
  /\ cow' = [cow EXCEPT ![p] = FALSE]
  /\ UNCHANGED <<alive, present, kstack, kpage, mine, panicked>>

\* ppage_copy finding no free frame panics (OutOfFrames).
CowFaultNoFrame(p) ==
  /\ alive[p] /\ present[p] /\ ~writable[p] /\ cow[p]
  /\ ref[ppn[p]] > 1
  /\ OutOfFrames

\* Mutant: the clone leaves the parent's mapping writable.
Fork_srcwritable(p, q) ==
  LET f == KallocFrame IN
  /\ alive[p] /\ present[p] /\ ~alive[q]
  /\ Free /= {}
  /\ avail' = [avail EXCEPT ![f] = FALSE]
  /\ ref' = [ref EXCEPT ![f] = 1, ![ppn[p]] = ref[ppn[p]] + 1]
  /\ alive' = [alive EXCEPT ![q] = TRUE]
  /\ kstack' = [kstack EXCEPT ![q] = f]
  /\ ppn' = [ppn EXCEPT ![q] = ppn[p]]
  /\ present' = [present EXCEPT ![q] = TRUE]
  /\ cow' = [cow EXCEPT ![q] = TRUE]
  /\ writable' = [writable EXCEPT ![q] = FALSE]
  /\ mine' = [mine EXCEPT ![q] = mine[p]]
  /\ UNCHANGED <<uva, data, cow_ppn, kpage, panicked>>

\* fork (proc.c:124-161): allocproc's kalloc of the kernel stack, then the
\* CoW clone (spec.md 4.4): increment_cme_ref (kalloc.c:250-260) on the
\* parent's frame, and both mappings read-only and CoW.
Fork(p, q) ==
  LET f == KallocFrame IN
  /\ alive[p] /\ present[p] /\ ~alive[q]
  /\ Free /= {}
  /\ avail' = [avail EXCEPT ![f] = FALSE]
  /\ ref' = [ref EXCEPT ![f] = 1, ![ppn[p]] = ref[ppn[p]] + 1]
  /\ alive' = [alive EXCEPT ![q] = TRUE]
  /\ kstack' = [kstack EXCEPT ![q] = f]
  /\ ppn' = [ppn EXCEPT ![q] = ppn[p]]
  /\ present' = [present EXCEPT ![q] = TRUE]
  /\ cow' = [cow EXCEPT ![p] = TRUE, ![q] = TRUE]
  /\ writable' = [writable EXCEPT ![p] = FALSE, ![q] = FALSE]
  /\ mine' = [mine EXCEPT ![q] = mine[p]]
  /\ UNCHANGED <<uva, data, cow_ppn, kpage, panicked>>

ForkNoFrame(p, q) ==
  /\ alive[p] /\ ~alive[q]
  /\ OutOfFrames

\* Mutant: freeproc without kfree(p->kstack).
Reap_nokstack(p) ==
  /\ alive[p] /\ present[p] /\ p /= 1
  /\ Kfree({ppn[p]} \cup ({kpage[p]} \ {NoFrame}))
  /\ alive' = [alive EXCEPT ![p] = FALSE]
  /\ ppn' = [ppn EXCEPT ![p] = NoFrame]
  /\ kstack' = [kstack EXCEPT ![p] = NoFrame]
  /\ kpage' = [kpage EXCEPT ![p] = NoFrame]
  /\ cow' = [cow EXCEPT ![p] = FALSE]
  /\ writable' = [writable EXCEPT ![p] = FALSE]
  /\ UNCHANGED <<cow_ppn, present, mine, panicked>>

\* freeproc (proc.c:216-224) after exit: kfree of the kernel stack and
\* vspacefree's kfree of the page; exit's fileclose has closed both ends
\* of the process's pipe, so pipeclose kfrees its page (file.c:316-318).
Reap(p) ==
  /\ alive[p] /\ present[p] /\ p /= 1
  /\ Kfree({kstack[p], ppn[p]} \cup ({kpage[p]} \ {NoFrame}))
  /\ alive' = [alive EXCEPT ![p] = FALSE]
  /\ ppn' = [ppn EXCEPT ![p] = NoFrame]
  /\ kstack' = [kstack EXCEPT ![p] = NoFrame]
  /\ kpage' = [kpage EXCEPT ![p] = NoFrame]
  /\ cow' = [cow EXCEPT ![p] = FALSE]
  /\ writable' = [writable EXCEPT ![p] = FALSE]
  /\ UNCHANGED <<cow_ppn, present, mine, panicked>>

\* sys_pipe's kalloc of the pipe page (sysfile.c:229-231).
PipeAlloc(p) ==
  LET f == KallocFrame IN
  /\ alive[p] /\ kpage[p] = NoFrame
  /\ Free /= {}
  /\ avail' = [avail EXCEPT ![f] = FALSE]
  /\ ref' = [ref EXCEPT ![f] = 1]
  /\ kpage' = [kpage EXCEPT ![p] = f]
  /\ UNCHANGED <<uva, data, cow_ppn, alive, present, ppn, cow, writable,
                 kstack, mine, panicked>>

PipeAllocNoFrame(p) ==
  /\ alive[p] /\ kpage[p] = NoFrame
  /\ OutOfFrames

\* Mutant: the page is freed but the pointer to it kept.
PipeFree_keepptr(p) ==
  /\ alive[p] /\ kpage[p] /= NoFrame
  /\ Kfree({kpage[p]})
  /\ UNCHANGED <<cow_ppn, alive, present, ppn, cow, writable, kstack, kpage, mine, panicked>>

\* pipeclose of the pipe's last end: kfree of its page (file.c:316-318).
PipeFree(p) ==
  /\ alive[p] /\ kpage[p] /= NoFrame
  /\ Kfree({kpage[p]})
  /\ kpage' = [kpage EXCEPT ![p] = NoFrame]
  /\ UNCHANGED <<cow_ppn, alive, present, ppn, cow, writable, kstack, mine, panicked>>

Step(p) ==
  \/ \E v \in Vals : Store(p, v)
  \/ CowFault(p) \/ CowFaultNoFrame(p)
  \/ \E q \in Pids : Fork(p, q) \/ ForkNoFrame(p, q)
  \/ Reap(p)
  \/ PipeAlloc(p) \/ PipeAllocNoFrame(p) \/ PipeFree(p)

Next == ~panicked /\ \E p \in Pids : Step(p)

Spec == Init /\ [][Next]_vars

-----------------------------------------------------------------------------
(* Properties.                                                             *)

TypeOK ==
  /\ avail \in [Frames -> BOOLEAN] /\ ref \in [Frames -> Nat]
  /\ uva \in [Frames -> BOOLEAN] /\ data \in [Frames -> Vals \cup {Junk}]
  /\ cow_ppn \in Frames \cup {NoFrame}
  /\ alive \in [Pids -> BOOLEAN] /\ present \in [Pids -> BOOLEAN]
  /\ ppn \in [Pids -> Frames \cup {NoFrame}]
  /\ kstack \in [Pids -> Frames \cup {NoFrame}]
  /\ kpage \in [Pids -> Frames \cup {NoFrame}]
  /\ cow \in [Pids -> BOOLEAN] /\ writable \in [Pids -> BOOLEAN]
  /\ mine \in [Pids -> Vals]

Users(f) == {p \in Pids : alive[p] /\ present[p] /\ ppn[p] = f}
KernelUses(f) == {p \in Pids : alive[p] /\ (kstack[p] = f \/ kpage[p] = f)}

\* spec.md 3 and 8: a frame's ref is the number of mappings and kernel
\* uses of it, and ref = 0 exactly when it is available; kalloc, kfree,
\* increment_cme_ref and ppage_copy must keep this across forks, CoW
\* faults and teardown, or a frame is freed while mapped or never freed.
CowRefs ==
  \A f \in Frames :
    /\ avail[f] <=> ref[f] = 0
    /\ ~avail[f] => ref[f] = Cardinality(Users(f)) + Cardinality(KernelUses(f))

\* spec.md 3: a frame shared by several mappings is writable through none.
SharedReadOnly ==
  \A p \in Pids : alive[p] /\ present[p] /\ ref[ppn[p]] > 1 => ~writable[p]

\* Memory isolation: every process's page holds what that process last
\* stored (or inherited at fork), whatever the others store, fork, fault
\* and free.
Isolation ==
  \A p \in Pids : alive[p] /\ present[p] => data[ppn[p]] = mine[p]
=============================================================================
