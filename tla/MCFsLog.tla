------------------------------ MODULE MCFsLog ------------------------------
(***************************************************************************)
(* Model-checking instance of FsLog.  The header has room for 19 block     *)
(* numbers; the largest transaction the code issues (addfile growing the   *)
(* root) logs 7, so 7 slots cover every transaction.  Two operations and   *)
(* one crash reach a crash at every disk-write boundary of two            *)
(* overlapping transactions and of a two-block writei.                     *)
(***************************************************************************)
EXTENDS FsLog

MCLogSize == 7
MCMaxOps == 2
MCMaxCrashes == 1
MCWriteParts == {Tl, Both}

\* Shadow slots past the header's count are never read before log_write
\* overwrites them (fs.c:736-738 writes the slot before the header names
\* it), and opWrites is only a history for WriteiAtomicity: states that
\* differ only there have the same futures, so TLC may identify them.
LiveSlots == 1..LogSize \cap 1..(Len(meta.blocknos) + IF pc = "logmeta" THEN 1 ELSE 0)
MCView == <<disk, cache, meta, [i \in LiveSlots |-> shadow[i]], pc, todo, txs,
            idx, nops, crashes>>
=============================================================================
