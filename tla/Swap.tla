------------------------------- MODULE Swap -------------------------------
(***************************************************************************)
(* Eviction to swap and swap-in, composed with CowMem.  evictpage(0)      *)
(* (kalloc.c:156-217), as ensure_n_free_pages (kalloc.c:372-377) calls it, *)
(* and the not-present fault on a swapped page (trap.c:82-97) with         *)
(* swappage_copy (kalloc.c:326-370).  Both release kmem.lock in the        *)
(* middle: evictpage before swapwrite and markswapped, swappage_copy       *)
(* before swapread and updatecowreferences; the rest of each is one step.  *)
(* CowMem's operations run between them, for processes not inside one.     *)
(* No caller of ensure_n_free_pages is in src/; spec.md 4.3 has eviction   *)
(* place the frame on the free list, and EvictStart stands for any caller. *)
(* vspacemarkswapped, vspaceupdatecow and the clone of a swapped page are  *)
(* in vspace.c, not in src/, and follow spec.md 4.2 and 4.4.               *)
(***************************************************************************)
EXTENDS CowMem

CONSTANTS NSLOT     \* swap slots; at least NPROC, as SWAPPAGES never fills

Slots == 1..NSLOT
NoSlot == 0

ASSUME NSLOT >= NPROC

VARIABLES
  used,     \* swap_map[s].used
  sref,     \* swap_map[s].ref
  sdata,    \* the slot's contents on disk
  sidx,     \* vpage_info.swap_index of a process's swapped page
  pc,       \* where the process is in evictpage or swappage_copy
  frame,    \* the frame the current one works on
  slot      \* the slot the current one works on

swapvars == <<used, sref, sdata, sidx, pc, frame, slot>>
allvars == <<vars, swapvars>>

SInit ==
  /\ Init
  /\ used = [s \in Slots |-> FALSE]
  /\ sref = [s \in Slots |-> 0]
  /\ sdata = [s \in Slots |-> Junk]
  /\ sidx = [p \in Pids |-> NoSlot]
  /\ pc = [p \in Pids |-> "idle"]
  /\ frame = [p \in Pids |-> NoFrame]
  /\ slot = [p \in Pids |-> NoSlot]

Panic ==
  /\ panicked' = TRUE
  /\ UNCHANGED <<memvars, procvars, swapvars>>

Busy(p) == alive[p] /\ pc[p] /= "idle"

\* A CowMem operation of a process not inside evictpage or swappage_copy.
MemStep(p) ==
  /\ pc[p] = "idle"
  /\ Step(p)
  /\ UNCHANGED swapvars

-----------------------------------------------------------------------------

\* evictpage(0) under kmem.lock: a random user frame that is not free, not
\* frame 0 and not cow_ppn; the first unused swap slot takes its ref; the
\* frame goes back on the free list; the lock is released.  With no such
\* frame get_random_user_page panics; with no slot ensure_n_free_pages does.
EvictStart(p) ==
  LET victims == {f \in Frames : ~avail[f] /\ uva[f] /\ f /= cow_ppn}
      slots == {s \in Slots : ~used[s]}
  IN /\ alive[p] /\ pc[p] = "idle"
     /\ IF victims = {} \/ slots = {}
        THEN Panic
        ELSE \E f \in victims :
               LET s == MinOf(slots) IN
               /\ used' = [used EXCEPT ![s] = TRUE]
               /\ sref' = [sref EXCEPT ![s] = ref[f]]
               /\ avail' = [avail EXCEPT ![f] = TRUE]
               /\ ref' = [ref EXCEPT ![f] = 0]
               /\ uva' = [uva EXCEPT ![f] = FALSE]
               /\ pc' = [pc EXCEPT ![p] = "evict_write"]
               /\ frame' = [frame EXCEPT ![p] = f]
               /\ slot' = [slot EXCEPT ![p] = s]
               /\ UNCHANGED <<data, cow_ppn, procvars, panicked, sdata, sidx>>

\* swapwrite(ROOTDEV, swap_idx, addr): the frame's current bytes to disk.
EvictWrite(p) ==
  /\ alive[p] /\ pc[p] = "evict_write"
  /\ sdata' = [sdata EXCEPT ![slot[p]] = data[frame[p]]]
  /\ pc' = [pc EXCEPT ![p] = "evict_mark"]
  /\ UNCHANGED <<memvars, procvars, panicked, used, sref, sidx, frame, slot>>

\* markswapped (proc.c:464-473): every process's page in that frame is
\* now swapped at the slot.
EvictMark(p) ==
  LET marked == {q \in Pids : alive[q] /\ present[q] /\ ppn[q] = frame[p]} IN
  /\ alive[p] /\ pc[p] = "evict_mark"
  /\ present' = [q \in Pids |-> present[q] /\ q \notin marked]
  /\ sidx' = [q \in Pids |-> IF q \in marked THEN slot[p] ELSE sidx[q]]
  /\ pc' = [pc EXCEPT ![p] = "idle"]
  /\ UNCHANGED <<memvars, alive, ppn, cow, writable, kstack, kpage, mine,
                 panicked, used, sref, sdata, frame, slot>>

\* A not-present fault on a swapped page: swappage_copy under kmem.lock
\* kallocs a frame (none: evictpage re-acquires the lock and panics),
\* asserts the slot is in use, gives the frame the slot's ref and va,
\* frees the slot and releases the lock.
SwapFault(p) ==
  LET s == sidx[p] IN
  /\ alive[p] /\ ~present[p] /\ pc[p] = "idle"
  /\ IF Free = {} \/ ~used[s] \/ sref[s] = 0
     THEN Panic
     ELSE LET f == KallocFrame IN
          /\ avail' = [avail EXCEPT ![f] = FALSE]
          /\ ref' = [ref EXCEPT ![f] = sref[s]]
          /\ uva' = [uva EXCEPT ![f] = TRUE]
          /\ used' = [used EXCEPT ![s] = FALSE]
          /\ sref' = [sref EXCEPT ![s] = 0]
          /\ pc' = [pc EXCEPT ![p] = "swapin_read"]
          /\ frame' = [frame EXCEPT ![p] = f]
          /\ slot' = [slot EXCEPT ![p] = s]
          /\ UNCHANGED <<data, cow_ppn, procvars, panicked, sdata, sidx>>

\* swapread(ROOTDEV, swap_idx, mem): the slot's bytes into the frame.
SwapRead(p) ==
  /\ alive[p] /\ pc[p] = "swapin_read"
  /\ data' = [data EXCEPT ![frame[p]] = sdata[slot[p]]]
  /\ pc' = [pc EXCEPT ![p] = "swapin_upd"]
  /\ UNCHANGED <<avail, ref, uva, cow_ppn, procvars, panicked, used, sref,
                 sdata, sidx, frame, slot>>

\* updatecowreferences (proc.c:475-484): every page swapped at the slot,
\* the faulting one included, is present in the new frame, whose ref
\* swappage_copy already set from the slot's.
SwapUpd(p) ==
  LET back == {q \in Pids : alive[q] /\ ~present[q] /\ sidx[q] = slot[p]} IN
  /\ alive[p] /\ pc[p] = "swapin_upd"
  /\ present' = [q \in Pids |-> present[q] \/ q \in back]
  /\ ppn' = [q \in Pids |-> IF q \in back THEN frame[p] ELSE ppn[q]]
  /\ sidx' = [q \in Pids |-> IF q \in back THEN NoSlot ELSE sidx[q]]
  /\ pc' = [pc EXCEPT ![p] = "idle"]
  /\ UNCHANGED <<memvars, alive, cow, writable, kstack, kpage, mine, panicked,
                 used, sref, sdata, frame, slot>>

\* fork of a process whose page is swapped: the kernel stack, then
\* increment_sme_ref (kalloc.c:263-273), which asserts the slot is in use;
\* both mappings are CoW and read-only.
ForkSwapped(p, q) ==
  LET s == sidx[p]
      f == KallocFrame
  IN /\ alive[p] /\ ~present[p] /\ ~alive[q] /\ pc[p] = "idle"
     /\ Free /= {}
     /\ IF ~used[s] \/ sref[s] = 0
        THEN Panic
        ELSE /\ avail' = [avail EXCEPT ![f] = FALSE]
             /\ ref' = [ref EXCEPT ![f] = 1]
             /\ sref' = [sref EXCEPT ![s] = sref[s] + 1]
             /\ alive' = [alive EXCEPT ![q] = TRUE]
             /\ kstack' = [kstack EXCEPT ![q] = f]
             /\ present' = [present EXCEPT ![q] = FALSE]
             /\ sidx' = [sidx EXCEPT ![q] = s]
             /\ cow' = [cow EXCEPT ![p] = TRUE, ![q] = TRUE]
             /\ writable' = [writable EXCEPT ![p] = FALSE, ![q] = FALSE]
             /\ mine' = [mine EXCEPT ![q] = mine[p]]
             /\ UNCHANGED <<uva, data, cow_ppn, ppn, kpage, panicked, used,
                            sdata, pc, frame, slot>>

\* freeproc of a process whose page is swapped: kfree of the kernel stack
\* (and the pipe page), and swapfree (kalloc.c:276-293) of the slot.
ReapSwapped(p) ==
  LET s == sidx[p] IN
  /\ alive[p] /\ ~present[p] /\ p /= 1 /\ pc[p] = "idle"
  /\ IF ~used[s] \/ sref[s] = 0
     THEN Panic
     ELSE /\ Kfree({kstack[p]} \cup ({kpage[p]} \ {NoFrame}))
          /\ sref' = [sref EXCEPT ![s] = sref[s] - 1]
          /\ used' = [used EXCEPT ![s] = sref[s] - 1 > 0]
          /\ alive' = [alive EXCEPT ![p] = FALSE]
          /\ kstack' = [kstack EXCEPT ![p] = NoFrame]
          /\ kpage' = [kpage EXCEPT ![p] = NoFrame]
          /\ present' = [present EXCEPT ![p] = TRUE]
          /\ sidx' = [sidx EXCEPT ![p] = NoSlot]
          /\ cow' = [cow EXCEPT ![p] = FALSE]
          /\ writable' = [writable EXCEPT ![p] = FALSE]
          /\ UNCHANGED <<cow_ppn, ppn, mine, panicked, sdata, pc, frame, slot>>

SNext ==
  /\ ~panicked
  /\ \E p \in Pids :
       \/ MemStep(p)
       \/ EvictStart(p) \/ EvictWrite(p) \/ EvictMark(p)
       \/ SwapFault(p) \/ SwapRead(p) \/ SwapUpd(p)
       \/ \E q \in Pids : ForkSwapped(p, q)
       \/ ReapSwapped(p)

SSpec == SInit /\ [][SNext]_allvars

-----------------------------------------------------------------------------

\* spec.md 6, the eviction round trip: a page evicted and read back holds
\* what its process last stored.  Every process outside evictpage and
\* swappage_copy finds its value in its frame, or in its slot when swapped.
SwapRoundTrip ==
  \A p \in Pids :
    alive[p] /\ ~Busy(p) =>
      IF present[p] THEN data[ppn[p]] = mine[p] ELSE sdata[sidx[p]] = mine[p]
=============================================================================
