------------------------------ MODULE PageFault ------------------------------
(***************************************************************************)
(* The page-fault path of trap() (src/kernel/trap.c:76-169) for one       *)
(* process, with the calls that change the pages it decides on: sys_sbrk  *)
(* (sysproc.c:47-72), fork's CoW clone of the process's own pages, exec's *)
(* fresh address space, and evictpage taking one of its frames.           *)
(*                                                                         *)
(* An access is made by the process in user mode or by the kernel on its  *)
(* behalf (a system call copying to or from a user buffer).  The MMU       *)
(* either allows it or raises a page fault whose error code has bit 0 set *)
(* for a present page, bit 1 for a write and bit 2 for user mode; trap()  *)
(* then swaps the page in, grows the stack, copies a CoW page, panics or  *)
(* kills the process, and the access is retried.                          *)
(*                                                                         *)
(* Addresses are bytes of a small user space [0, VaTop); VaTop stands for *)
(* SZ_2G, the stack region's va_base.  The stack region covers            *)
(* [VaTop - ssize, VaTop) and the heap [HeapBase, HeapBase + hsize).      *)
(* Frames and swap slots are left out (CowMem and Swap model them): a     *)
(* swap-in, a CoW copy and vregionaddmap get a frame.                     *)
(***************************************************************************)
EXTENDS Integers, Bitwise

CONSTANTS
  PGSIZE,     \* bytes per page
  VaTop,      \* the stack's va_base, SZ_2G
  StackMax,   \* the stack window of trap.c:103, 10 pages
  HeapBase,   \* the heap region's va_base
  HeapMax,    \* bound: sbrk grows the heap to at most this many bytes
  SbrkArgs,   \* sizes passed to sbrk
  AddrBits    \* width of uint64_t, narrowed

ASSUME VaTop % PGSIZE = 0 /\ HeapBase % PGSIZE = 0
ASSUME HeapBase + HeapMax <= VaTop - StackMax * PGSIZE
ASSUME VaTop < 2^AddrBits

Addrs == 0..VaTop - 1
Pages == 0..VaTop \div PGSIZE - 1
PageOf(a) == a \div PGSIZE
PGROUNDDOWN(a) == PageOf(a) * PGSIZE

\* vpage_info: present or swapped, writable, is_cow.
Unmapped == [map |-> "none", writable |-> FALSE, cow |-> FALSE]
Fresh == [map |-> "present", writable |-> TRUE, cow |-> FALSE]
VPages == [map : {"none", "present", "swapped"}, writable : BOOLEAN, cow : BOOLEAN]

NoAcc == [addr |-> 0, write |-> FALSE, user |-> FALSE, on |-> FALSE]
Accesses == [addr : Addrs, write : BOOLEAN, user : BOOLEAN, on : BOOLEAN]

VARIABLES
  vpage,     \* the vpage_info of each page of the process
  hsize,     \* regions[VR_HEAP].size
  ssize,     \* regions[VR_USTACK].size
  acc,       \* the access being made, retried after each fault; the
             \* one the process was killed for once it is killed
  killed,    \* myproc()->killed
  panicked

vars == <<vpage, hsize, ssize, acc, killed, panicked>>

Alive == ~killed /\ ~panicked

\* The address space exec leaves: vspaceinitstack(SZ_2G) maps one page
\* below VaTop in a new vspace vs, and vspacecopy_cow clones vs into the
\* process, which marks that page read-only and CoW; the heap is empty.
ExecPages == [v \in Pages |-> IF v = PageOf(VaTop - 1)
                              THEN [Fresh EXCEPT !.writable = FALSE, !.cow = TRUE]
                              ELSE Unmapped]

Init ==
  /\ vpage = ExecPages
  /\ hsize = 0
  /\ ssize = PGSIZE
  /\ acc = NoAcc
  /\ killed = FALSE
  /\ panicked = FALSE

\* va2vregion: the heap or the stack region holds a.
InHeap(a) == HeapBase <= a /\ a < HeapBase + hsize
InStack(a) == VaTop - ssize <= a /\ a < VaTop
va2vregion(a) == InHeap(a) \/ InStack(a)

\* vregionaddmap(region, base, size, 1, 1): maps [base, base + size) with
\* fresh writable frames and returns size; a range reaching past the user
\* space exhausts frames and swap, which is fatal.
AddMapOK(base, size) == base + size <= VaTop
AddMap(base, size) ==
  [v \in Pages |-> IF base <= v * PGSIZE /\ v * PGSIZE < base + size
                   THEN Fresh ELSE vpage[v]]

-----------------------------------------------------------------------------
(* Calls of the process, made between accesses.                           *)

\* Mutant: the size <= 0 early return dropped.
Sbrk_noret(n) ==
  LET old == HeapBase + hsize IN
  /\ Alive /\ ~acc.on
  /\ n > 0 => hsize + n <= HeapMax
  /\ AddMapOK(old, n)
  /\ vpage' = AddMap(old, n)
  /\ hsize' = hsize + n
  /\ UNCHANGED <<ssize, acc, killed, panicked>>

\* Mutant: the heap mapped from one page past the old limit.
Sbrk_skip(n) ==
  LET old == HeapBase + hsize IN
  /\ Alive /\ ~acc.on
  /\ n > 0 => hsize + n <= HeapMax
  /\ IF n <= 0
     THEN UNCHANGED <<vpage, hsize>>
     ELSE /\ AddMapOK(old + PGSIZE, n)
          /\ vpage' = AddMap(old + PGSIZE, n)
          /\ hsize' = hsize + n
  /\ UNCHANGED <<ssize, acc, killed, panicked>>

\* sys_sbrk(size): size <= 0 returns the old limit; otherwise the heap is
\* mapped from the old limit and grows by size.
Sbrk(n) ==
  LET old == HeapBase + hsize IN
  /\ Alive /\ ~acc.on
  /\ n > 0 => hsize + n <= HeapMax
  /\ IF n <= 0
     THEN UNCHANGED <<vpage, hsize>>
     ELSE /\ AddMapOK(old, n)
          /\ vpage' = AddMap(old, n)
          /\ hsize' = hsize + n
  /\ UNCHANGED <<ssize, acc, killed, panicked>>

\* fork's vspacecopy_cow marks every present page of the parent read-only
\* and CoW. A swapped page is shared by reference (spec.md 4.4); it is
\* marked the same way, as Swap's ForkSwapped does, since swap-in's
\* updatecowreferences later maps every sharer to one frame.
Fork ==
  /\ Alive /\ ~acc.on
  /\ vpage' = [v \in Pages |->
                 IF vpage[v].map /= "none"
                 THEN [vpage[v] EXCEPT !.writable = FALSE, !.cow = TRUE]
                 ELSE vpage[v]]
  /\ UNCHANGED <<hsize, ssize, acc, killed, panicked>>

\* exec: the new address space replaces the old one (its failure paths
\* return before they touch the process's vspace, or on allocation
\* failure, which is not modelled).
Exec ==
  /\ Alive /\ ~acc.on
  /\ vpage' = ExecPages /\ hsize' = 0 /\ ssize' = PGSIZE
  /\ UNCHANGED <<acc, killed, panicked>>

\* evictpage, on any CPU, takes a frame of a present page: markswapped.
Evict(v) ==
  /\ ~panicked /\ vpage[v].map = "present"
  /\ vpage' = [vpage EXCEPT ![v].map = "swapped"]
  /\ UNCHANGED <<hsize, ssize, acc, killed, panicked>>

-----------------------------------------------------------------------------
(* An access, and trap()'s page-fault handling of it.                      *)

\* The process touches a in user mode, or a system call touches a user
\* buffer at a; the system-call layer has checked that the buffer lies in
\* a region of the process.
Access(a, w, u) ==
  /\ Alive /\ ~acc.on
  /\ ~u => va2vregion(a)
  /\ acc' = [addr |-> a, write |-> w, user |-> u, on |-> TRUE]
  /\ UNCHANGED <<vpage, hsize, ssize, killed, panicked>>

\* The MMU allows a present page, and a write only to a writable one.
Allowed == vpage[PageOf(acc.addr)].map = "present"
           /\ (acc.write => vpage[PageOf(acc.addr)].writable)

\* The page-fault error code.
Err == (IF vpage[PageOf(acc.addr)].map = "present" THEN 1 ELSE 0)
       + (IF acc.write THEN 2 ELSE 0) + (IF acc.user THEN 4 ELSE 0)

Complete ==
  /\ Alive /\ acc.on /\ Allowed
  /\ acc' = NoAcc
  /\ UNCHANGED <<vpage, hsize, ssize, killed, panicked>>

Fault == Alive /\ acc.on /\ ~Allowed

\* Mutant: the swap-in rule tests the present bit instead of ignoring it.
IsSwapFault_present == (Err & 5) = 5 /\ va2vregion(acc.addr)
                       /\ vpage[PageOf(acc.addr)].map = "swapped"

\* trap.c:82-97: a user-mode not-present fault on a swapped page of a
\* region is swapped in (swappage_copy, updatecowreferences).
IsSwapFault == (Err & 5) = 4 /\ va2vregion(acc.addr)
               /\ vpage[PageOf(acc.addr)].map = "swapped"

\* trap.c:101-103: a not-present fault strictly inside the 10 pages below
\* the stack's va_base.
IsStackFault == (Err & 1) = 0 /\ acc.addr < VaTop
                /\ acc.addr > VaTop - StackMax * PGSIZE

\* trap.c:120-132: a write to a present CoW page.
IsCowFault == (Err & 3) = 3 /\ vpage[PageOf(acc.addr)].cow

SwapIn ==
  /\ Fault /\ IsSwapFault
  /\ vpage' = [vpage EXCEPT ![PageOf(acc.addr)].map = "present"]
  /\ UNCHANGED <<hsize, ssize, acc, killed, panicked>>

\* Mutant: the stack grown to one page above the faulting one.
StackGrow_short ==
  LET base == PGROUNDDOWN(acc.addr) + PGSIZE
      size == (VaTop - ssize - base) % 2^AddrBits
  IN
  /\ Fault /\ ~IsSwapFault /\ IsStackFault
  /\ IF AddMapOK(base, size)
     THEN /\ vpage' = AddMap(base, size)
          /\ ssize' = ssize + size
          /\ UNCHANGED panicked
     ELSE /\ panicked' = TRUE
          /\ UNCHANGED <<vpage, ssize>>
  /\ UNCHANGED <<hsize, acc, killed>>

\* trap.c:104-117: base = PGROUNDDOWN(addr), size = va_base - stack->size
\* - base in uint64_t; vregionaddmap must map all of it or the kernel
\* panics.
StackGrow ==
  LET base == PGROUNDDOWN(acc.addr)
      size == (VaTop - ssize - base) % 2^AddrBits
  IN
  /\ Fault /\ ~IsSwapFault /\ IsStackFault
  /\ IF AddMapOK(base, size)
     THEN /\ vpage' = AddMap(base, size)
          /\ ssize' = ssize + size
          /\ UNCHANGED panicked
     ELSE /\ panicked' = TRUE
          /\ UNCHANGED <<vpage, ssize>>
  /\ UNCHANGED <<hsize, acc, killed>>

\* trap.c:132-145: ppage_copy, then writable = 1 and is_cow = 0.
CowFault ==
  /\ Fault /\ ~IsSwapFault /\ ~IsStackFault /\ IsCowFault
  /\ vpage' = [vpage EXCEPT ![PageOf(acc.addr)].writable = TRUE,
                            ![PageOf(acc.addr)].cow = FALSE]
  /\ UNCHANGED <<hsize, ssize, acc, killed, panicked>>

Unhandled == Fault /\ ~IsSwapFault /\ ~IsStackFault /\ ~IsCowFault

\* trap.c:149-154: a fault taken in kernel mode panics.
KernelPanic ==
  /\ Unhandled /\ ~acc.user
  /\ panicked' = TRUE
  /\ UNCHANGED <<vpage, hsize, ssize, acc, killed>>

\* trap.c:162-169: the process is killed and exits on the way back to
\* user space.
Kill ==
  /\ Unhandled /\ acc.user
  /\ killed' = TRUE
  /\ UNCHANGED <<vpage, hsize, ssize, acc, panicked>>

\* The process's own next step: its access completes or traps.
Step == Complete \/ SwapIn \/ StackGrow \/ CowFault \/ KernelPanic \/ Kill

Next ==
  \/ \E n \in SbrkArgs : Sbrk(n)
  \/ Fork \/ Exec
  \/ \E v \in Pages : Evict(v)
  \/ \E a \in Addrs, w, u \in BOOLEAN : Access(a, w, u)
  \/ Step

\* The process's step is weakly fair: the scheduler runs it, and a fault
\* once raised stays raised until trap() handles it.  The retry that
\* completes the access, and the CoW copy a write needs after a swap-in,
\* are strongly fair: eviction can take the page between a swap-in and
\* the retry, but it picks its victim at random, so a page the process
\* keeps faulting in is not taken every time.  Calls, accesses and
\* eviction are not forced to happen.
Spec == Init /\ [][Next]_vars /\ WF_vars(Step)
          /\ SF_vars(Complete) /\ SF_vars(CowFault)

-----------------------------------------------------------------------------

TypeOK ==
  /\ vpage \in [Pages -> VPages]
  /\ hsize \in 0..HeapMax
  /\ ssize \in 0..VaTop
  /\ acc \in Accesses
  /\ killed \in BOOLEAN /\ panicked \in BOOLEAN

\* The pages mapped are exactly those of the heap and stack regions: sbrk,
\* stack growth and exec change a region's size and its pages together,
\* and eviction, swap-in and CoW copies never unmap a page.
RegionsMatchPages ==
  \A v \in Pages : vpage[v].map /= "none" <=> va2vregion(v * PGSIZE)

\* What spec.md 4.12 lets a user access do: touch a page of a region
\* (writing only a writable or CoW one), or write below the stack within
\* the window trap() grows it into.
ValidUser(x) ==
  \/ va2vregion(x.addr)
     /\ (x.write => vpage[PageOf(x.addr)].writable \/ vpage[PageOf(x.addr)].cow)
  \/ x.write /\ x.addr > VaTop - StackMax * PGSIZE /\ ~InStack(x.addr)

\* trap() kills a process only for a fault its access deserved: a swapped
\* page is swapped in before any other rule, a CoW page is copied even
\* after eviction and swap-in, and the stack grows instead.
KillOnlyInvalid == killed => ~ValidUser(acc)

\* A valid user access always completes, however often eviction takes its
\* page and however many faults (swap-in, then CoW) it takes.
UserAccessCompletes ==
  (acc.on /\ acc.user /\ ValidUser(acc)) ~> ~acc.on

\* A system call's access to a page of the process's regions completes:
\* trap() handles it without panicking or faulting forever.
KernelAccessReturns == (acc.on /\ ~acc.user) ~> ~acc.on

=============================================================================
