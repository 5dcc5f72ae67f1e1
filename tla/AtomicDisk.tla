----------------------------- MODULE AtomicDisk -----------------------------
(***************************************************************************)
(* What the redo log of fs.c promises its callers (spec.md, section 4.8):  *)
(* a disk whose blocks change only when a whole group of block updates is  *)
(* committed.  Updates made inside an open group sit in memory (the buffer *)
(* cache) and are remembered as pending; Commit applies all of them in one *)
(* step; a crash forgets the pending group and the memory, never a part of *)
(* the durable disk.                                                       *)
(*                                                                         *)
(* FsLog is shown to implement this module twice: once with a group being  *)
(* one begin_tx..commit_tx transaction, and once with a group being one    *)
(* whole writei or addfile call.                                           *)
(***************************************************************************)
CONSTANTS Blocks,     \* home block numbers
          Contents    \* the values a block can hold

VARIABLES adisk,      \* the durable contents, as seen after recovery
          pending,    \* updates of the open group: a function on the blocks it wrote
          open,       \* is a group open?
          mem         \* the in-memory copy of every block

avars == <<adisk, pending, open, mem>>

NoUpdates == [b \in {} |-> adisk[b]]

\* pending overridden at block b by content c
Record(p, b, c) == [x \in DOMAIN p \cup {b} |-> IF x = b THEN c ELSE p[x]]

AInit ==
  /\ adisk \in [Blocks -> Contents]
  /\ mem = adisk
  /\ pending = NoUpdates
  /\ open = FALSE

\* The program changes the in-memory copy of a block.
Modify(b, c) ==
  /\ mem' = [mem EXCEPT ![b] = c]
  /\ UNCHANGED <<adisk, pending, open>>

Begin ==
  /\ ~open
  /\ open' = TRUE
  /\ pending' = NoUpdates
  /\ UNCHANGED <<adisk, mem>>

\* A block's current in-memory contents join the open group.
Write(b) ==
  /\ open
  /\ pending' = Record(pending, b, mem[b])
  /\ UNCHANGED <<adisk, open, mem>>

\* The whole group becomes durable at once.
Commit ==
  /\ open
  /\ adisk' = [b \in Blocks |-> IF b \in DOMAIN pending THEN pending[b] ELSE adisk[b]]
  /\ pending' = NoUpdates
  /\ open' = FALSE
  /\ UNCHANGED mem

\* Memory is lost; the open group, if any, is abandoned.
Crash ==
  /\ open' = FALSE
  /\ pending' = NoUpdates
  /\ mem' \in [Blocks -> Contents]
  /\ UNCHANGED adisk

ANext ==
  \/ \E b \in Blocks, c \in Contents : Modify(b, c)
  \/ Begin
  \/ \E b \in Blocks : Write(b)
  \/ Commit
  \/ Crash

ASpec == AInit /\ [][ANext]_avars
=============================================================================
