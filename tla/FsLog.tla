------------------------------- MODULE FsLog -------------------------------
(***************************************************************************)
(* The single-writer redo log of src/kernel/fs.c and the file-system       *)
(* operations that write through it, at the granularity of block writes    *)
(* to the disk, with a crash possible between any two of them.             *)
(*                                                                         *)
(*  - begin_tx   writes an empty log header;                               *)
(*  - log_write  copies a modified cached block into the next shadow slot, *)
(*               then appends its number to the header (two disk writes);  *)
(*  - commit_tx  sets the committed flag, copies every shadow block to its *)
(*               home block through the buffer cache, then clears the      *)
(*               header;                                                   *)
(*  - iinit      (boot) replays a committed log and clears the header.     *)
(*                                                                         *)
(* loglock makes the holder the only writer, so the model has one writer.  *)
(* The callers are the transactions writei and addfile really issue; the   *)
(* blocks they touch are named by the disk region they lie in.  A block's  *)
(* contents are split into its first sizeof(struct log_meta) = 84 bytes    *)
(* ("hd") and the rest ("tl"), because commit_tx copies only the first 84  *)
(* bytes of a shadow block into the cached home block (fs.c:700).  A value *)
(* is the number of the operation that last wrote that part.               *)
(***************************************************************************)
EXTENDS Naturals, Sequences, SequencesExt

CONSTANTS LogSize,     \* shadow slots after the header (19 in fs.h)
          MaxOps,      \* bound: distinct values written; the operation
                       \* counter wraps around after MaxOps
          MaxCrashes,  \* bound: crashes (reboots) in a behaviour
          WriteParts   \* the byte ranges a write into a data, bitmap or
                       \* directory block may cover: a set of subsets of Parts

\* Home blocks: the inode file's first block (holding the inode file's own
\* dinode at byte 0, the root's at 64, regular files' from 128), the free
\* bitmap, the root directory's data block, and two data blocks of a file.
Blocks == {"inodestart", "bitmap", "rootdata", "data1", "data2"}
Parts == {"hd", "tl"}
Hd == {"hd"}
Tl == {"tl"}
Both == {"hd", "tl"}
Content == [Parts -> 0..MaxOps]

\* One log_write of a transaction: the block and the parts the caller changed
\* in the cached buffer just before it.
Entry == Blocks \X SUBSET Parts

\* The log_writes of one block step of writei(ip, ...) for a regular file
\* (fs.c:411-456): the data block, then the file's dinode rewritten into the
\* inode file by the nested writei (inum >= 2: past byte 84), then the inode
\* file's own dinode at inodestart (fs.c:449-452).  A step that reaches an
\* empty extent first logs balloc's bitmap word (fs.c:415-421, 353): the
\* prefix a is that write or nothing.
WriteiStep(a, d, p) ==
  a \o << <<d, p>>, <<"inodestart", Tl>>, <<"inodestart", Hd>> >>

\* A write reaches an empty extent only when the last one is full, so its
\* block step starts at byte 0 of the new extent's first block.
AllocStep(pb, d, p) == WriteiStep(<< <<"bitmap", pb>> >>, d, p)

\* addfile (fs.c:613-658): balloc's bitmap word, the new dinode appended to
\* the inode file and the inode file's own dinode, the new dirent appended
\* to the root directory, then the root's dinode (inum 1: bytes 64-127,
\* across the 84-byte boundary) and again the inode file's dinode.  The
\* dirent's writei allocates a new extent for the root (g) when its last one
\* is full: balloc's next word, beside the one it took for the dinode, and
\* the dirent then lies at byte 0 of the new block.
AddfileTx(pb, pd, g) ==
  << <<"bitmap", pb>>, <<"inodestart", Tl>>, <<"inodestart", Hd>> >>
  \o (IF g THEN << <<"bitmap", pb>> >> ELSE << >>)
  \o << <<"rootdata", pd>>, <<"inodestart", Both>>, <<"inodestart", Hd>> >>

\* An operation is the sequence of transactions it runs.  A block step that
\* follows another, or that opens a new extent, starts at byte 0 of its
\* block, so the parts it writes include the header part.  writei opens and
\* commits one transaction per block step when the caller holds no
\* transaction (fs.c:412-413, 455-456); addfile runs one.
Ops ==
  {<<AddfileTx(pb, pd, FALSE)>> : pb, pd \in WriteParts}
  \cup {<<AddfileTx(pb, Hd, TRUE)>> : pb \in WriteParts}
  \cup {<<WriteiStep(<< >>, "data1", p)>> : p \in WriteParts}
  \cup {<<AllocStep(pb, "data1", p)>> : pb \in WriteParts, p \in {q \in WriteParts : Hd \subseteq q}}
  \cup {<<WriteiStep(<< >>, "data1", p), WriteiStep(<< >>, "data2", q)>> :
          p \in WriteParts, q \in {r \in WriteParts : Hd \subseteq r}}

ASSUME LogSize >= 7 /\ MaxOps >= 1
ASSUME WriteParts \subseteq {Hd, Tl, Both} /\ WriteParts /= {}

VARIABLES
  disk,      \* home blocks on disk
  cache,     \* buffer cache copy of each home block (lost on a crash)
  meta,      \* on-disk struct log_meta: [committed, blocknos (nchanges = Len)]
  shadow,    \* on-disk shadow blocks logstart+1 .. logstart+LogSize
  pc,        \* where the writer (or the booting kernel) is
  todo,      \* log_writes left in the open transaction
  txs,       \* transactions left in the current operation
  idx,       \* loop index of commit_tx's install loop and of iinit's replay
  nops,      \* number of the current operation (mod MaxOps): the value it writes
  crashes,   \* crashes so far
  opWrites   \* history: every block update logged by the current operation

vars == <<disk, cache, meta, shadow, pc, todo, txs, idx, nops, crashes, opWrites>>

EmptyMeta == [committed |-> FALSE, blocknos |-> <<>>]
NoUpdates == [b \in {} |-> disk[b]]
Record(p, b, c) == [x \in DOMAIN p \cup {b} |-> IF x = b THEN c ELSE p[x]]

Init ==
  /\ disk = [b \in Blocks |-> [p \in Parts |-> 0]]
  /\ cache = disk
  /\ meta = EmptyMeta
  /\ shadow = [i \in 1..LogSize |-> [p \in Parts |-> 0]]
  /\ pc = "boot"
  /\ todo = <<>>
  /\ txs = <<>>
  /\ idx = 1
  /\ nops = 0
  /\ crashes = 0
  /\ opWrites = NoUpdates

-----------------------------------------------------------------------------
(* The writer.                                                             *)

\* A system call enters writei or addfile; nothing reaches the disk yet.
StartOp ==
  /\ pc = "idle"
  /\ \E op \in Ops : txs' = op
  /\ nops' = IF nops = MaxOps THEN 1 ELSE nops + 1
  /\ pc' = "next"
  /\ opWrites' = NoUpdates
  /\ UNCHANGED <<disk, cache, meta, shadow, todo, idx, crashes>>

\* Mutant: begin_tx that keeps the header it finds on disk.
begin_tx_keepheader ==
  /\ pc = "next"
  /\ txs /= <<>>
  /\ todo' = Head(txs)
  /\ txs' = Tail(txs)
  /\ pc' = "open"
  /\ UNCHANGED <<disk, cache, meta, shadow, idx, nops, crashes, opWrites>>

\* begin_tx: take loglock, write an empty header (fs.c:660-674).
begin_tx ==
  /\ pc = "next"
  /\ txs /= <<>>
  /\ todo' = Head(txs)
  /\ txs' = Tail(txs)
  /\ meta' = EmptyMeta
  /\ pc' = "open"
  /\ UNCHANGED <<disk, cache, shadow, idx, nops, crashes, opWrites>>

\* The caller changes parts of a cached block (bread + memmove), and
\* log_write copies the whole buffer into shadow slot nchanges+1 and writes
\* it (fs.c:726-739).  blocknos[] is indexed without a bound check.
log_write_shadow ==
  LET b == Head(todo)[1]
      n == Len(meta.blocknos) + 1
      c == [p \in Parts |-> IF p \in Head(todo)[2] THEN nops ELSE cache[b][p]]
  IN /\ pc = "open"
     /\ todo /= <<>>
     /\ cache' = [cache EXCEPT ![b] = c]
     /\ shadow' = [shadow EXCEPT ![n] = c]
     /\ pc' = "logmeta"
     /\ UNCHANGED <<disk, meta, todo, txs, idx, nops, crashes, opWrites>>

\* log_write then writes the header with the block appended (fs.c:741-744).
log_write_meta ==
  LET b == Head(todo)[1]
  IN /\ pc = "logmeta"
     /\ meta' = [meta EXCEPT !.blocknos = Append(@, b)]
     /\ todo' = Tail(todo)
     /\ opWrites' = Record(opWrites, b, cache[b])
     /\ pc' = "open"
     /\ UNCHANGED <<disk, cache, shadow, txs, idx, nops, crashes>>

\* commit_tx: the committed flag reaches the disk (fs.c:684-691).
commit_flag ==
  /\ pc = "open"
  /\ todo = <<>>
  /\ meta' = [meta EXCEPT !.committed = TRUE]
  /\ idx' = 1
  /\ pc' = "install"
  /\ UNCHANGED <<disk, cache, shadow, todo, txs, nops, crashes, opWrites>>

\* Mutant: the home block is re-read from disk instead of the cached buffer.
commit_install_fromdisk ==
  LET b == meta.blocknos[idx]
      c == [disk[b] EXCEPT !.hd = shadow[idx].hd]
  IN /\ pc = "install"
     /\ idx <= Len(meta.blocknos)
     /\ cache' = [cache EXCEPT ![b] = c]
     /\ disk' = [disk EXCEPT ![b] = c]
     /\ idx' = idx + 1
     /\ UNCHANGED <<meta, shadow, pc, todo, txs, nops, crashes, opWrites>>

\* One iteration of commit_tx's install loop (fs.c:694-706): bread the home
\* block (the cached buffer), copy the first sizeof(struct log_meta) bytes
\* of the shadow block over it, bwrite it.
commit_install ==
  LET b == meta.blocknos[idx]
      c == [cache[b] EXCEPT !.hd = shadow[idx].hd]
  IN /\ pc = "install"
     /\ idx <= Len(meta.blocknos)
     /\ cache' = [cache EXCEPT ![b] = c]
     /\ disk' = [disk EXCEPT ![b] = c]
     /\ idx' = idx + 1
     /\ UNCHANGED <<meta, shadow, pc, todo, txs, nops, crashes, opWrites>>

\* commit_tx writes an empty header and releases loglock (fs.c:708-715);
\* writei goes on with its next block step, if any.
commit_reset ==
  /\ pc = "install"
  /\ idx > Len(meta.blocknos)
  /\ meta' = EmptyMeta
  /\ pc' = IF txs = <<>> THEN "idle" ELSE "next"
  /\ UNCHANGED <<disk, cache, shadow, todo, txs, idx, nops, crashes, opWrites>>

-----------------------------------------------------------------------------
(* Crash and recovery.                                                     *)

\* The machine stops between two disk writes (the crashn hook of
\* sysproc.c:13-21 arms exactly this); memory, and with it the buffer cache
\* and the writer, is lost.
Crash ==
  /\ crashes < MaxCrashes
  /\ crashes' = crashes + 1
  /\ cache' = disk
  /\ pc' = "boot"
  /\ todo' = <<>>
  /\ txs' = <<>>
  /\ idx' = 1
  /\ opWrites' = NoUpdates
  /\ UNCHANGED <<disk, meta, shadow, nops>>

\* iinit reads the header: a committed log is replayed, an uncommitted one
\* is left on disk untouched (fs.c:123-128).
iinit_read_log ==
  /\ pc = "boot"
  /\ pc' = IF meta.committed THEN "replay" ELSE "idle"
  /\ idx' = 1
  /\ UNCHANGED <<disk, cache, meta, shadow, todo, txs, nops, crashes, opWrites>>

\* One replay iteration: the whole shadow block over its home (fs.c:130-139).
iinit_replay ==
  LET b == meta.blocknos[idx]
  IN /\ pc = "replay"
     /\ idx <= Len(meta.blocknos)
     /\ disk' = [disk EXCEPT ![b] = shadow[idx]]
     /\ cache' = [cache EXCEPT ![b] = shadow[idx]]
     /\ idx' = idx + 1
     /\ UNCHANGED <<meta, shadow, pc, todo, txs, nops, crashes, opWrites>>

\* The header is cleared once every block is home (fs.c:141-146).
iinit_clear ==
  /\ pc = "replay"
  /\ idx > Len(meta.blocknos)
  /\ meta' = EmptyMeta
  /\ pc' = "idle"
  /\ UNCHANGED <<disk, cache, shadow, todo, txs, idx, nops, crashes, opWrites>>

Next ==
  \/ StartOp \/ begin_tx \/ log_write_shadow \/ log_write_meta
  \/ commit_flag \/ commit_install \/ commit_reset
  \/ Crash \/ iinit_read_log \/ iinit_replay \/ iinit_clear

Spec == Init /\ [][Next]_vars

-----------------------------------------------------------------------------
(* Views used by the properties.                                           *)

\* The disk as the next boot will leave it: a committed log replayed over
\* the home blocks in log order.
RecoveredDisk ==
  IF meta.committed
  THEN FoldLeft(LAMBDA d, i : [d EXCEPT ![meta.blocknos[i]] = shadow[i]],
                disk, [i \in 1..Len(meta.blocknos) |-> i])
  ELSE disk

\* The last logged contents of every block of the open transaction.
LoggedUpdates ==
  FoldLeft(LAMBDA p, i : Record(p, meta.blocknos[i], shadow[i]),
           NoUpdates, [i \in 1..Len(meta.blocknos) |-> i])

TxOpen == pc \in {"open", "logmeta"}

\* The operation still has work that is not committed.
OpOpen == pc \in {"next", "open", "logmeta"} \/ (pc = "install" /\ txs /= <<>>)

TypeOK ==
  /\ disk \in [Blocks -> Content]
  /\ cache \in [Blocks -> Content]
  /\ meta \in [committed : BOOLEAN, blocknos : Seq(Blocks)]
  /\ Len(meta.blocknos) <= LogSize
  /\ shadow \in [1..LogSize -> Content]
  /\ pc \in {"boot", "replay", "idle", "next", "open", "logmeta", "install"}
  /\ todo \in Seq(Entry)
  /\ idx \in 1..(LogSize + 1)
  /\ nops \in 0..MaxOps
  /\ crashes \in 0..MaxCrashes

\* Each begin_tx..commit_tx transaction is all-or-nothing across crashes:
\* the disk as recovery will leave it changes only at the step that writes
\* the committed flag, and then by exactly the block contents the
\* transaction logged (spec.md 4.8, "the commit record's single-block write
\* is the linearization point").
TxAtomic == INSTANCE AtomicDisk WITH
  Contents <- Content,
  adisk <- RecoveredDisk,
  pending <- IF TxOpen THEN LoggedUpdates ELSE NoUpdates,
  open <- TxOpen,
  mem <- cache

TxAtomicity == TxAtomic!ASpec

\* writei and addfile are each atomic: the disk as recovery leaves it shows
\* all of one call's block updates or none of them (spec.md 4.7: "a single
\* writei call is atomic"; section 7: "every writei is atomic by virtue of a
\* surrounding transaction").
OpAtomic == INSTANCE AtomicDisk WITH
  Contents <- Content,
  adisk <- RecoveredDisk,
  pending <- IF OpOpen THEN opWrites ELSE NoUpdates,
  open <- OpOpen,
  mem <- cache

WriteiAtomicity == OpAtomic!ASpec
=============================================================================
