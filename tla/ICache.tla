------------------------------- MODULE ICache -------------------------------
(***************************************************************************)
(* The inode cache of src/kernel/fs.c with the calls that use it: open     *)
(* (fileopen's namei, and addfile when O_CREATE finds no such file), a    *)
(* write and a read of the opened file, and its close.                     *)
(*                                                                         *)
(* icache.inode[] entries hold ref, inum, valid, type and size; each has a *)
(* sleeplock, as do the inode file and the log (loglock).  icache.lock    *)
(* sections (iget, irelease) are single steps.  The disk is the dinode of  *)
(* each inum and the root directory's dirents; the buffer cache is left    *)
(* out, since every block write is seen by the next read.  Paths are      *)
(* absolute names in the root directory ("/a"): namex holds one inode lock *)
(* at a time.  The file table is left out: an open that finds the inode    *)
(* keeps its reference until the close.                                     *)
(* sys_fstat, which changes no kernel state, is the operator FstatResult.  *)
(***************************************************************************)
EXTENDS Naturals, Sequences, FiniteSets

CONSTANTS
  Procs,    \* processes making file-system calls
  NINODE,   \* entries in icache.inode[]
  Names,    \* file names in the root directory
  InitName, \* the name of the one file on the disk at boot (inum 2)
  MaxInum,  \* bound: addfile stops creating inodes past this inum
  MaxSize,  \* bound: the largest file size a write makes
  NoProc    \* no process holds the lock

ASSUME InitName \in Names /\ MaxInum >= 2

ROOTINO == 1
Ents == 1..NINODE
None == 0
Inums == 1..MaxInum
Types == {"none", "dir", "file"}  \* dinode type 0, T_DIR, T_FILE
IFILE == NINODE + 1  \* the sleeplock of icache.inodefile
LOG == NINODE + 2    \* loglock
LockIds == Ents \cup {IFILE, LOG}

VARIABLES
  eref, einum, evalid, etype, esize,  \* icache.inode[e]
  lk,        \* the holder of each sleeplock
  dtype,     \* the on-disk dinode of each inum: type
  dsize,     \*   and size (the root's counts dirents)
  dir,       \* the root directory's dirents, in offset order
  nextinum,  \* the inum addfile gives the next inode
  pc,        \* where a process is
  name,      \* the name of an open in progress
  create,    \* its mode has O_CREATE
  again,     \* fileopen's namei after addfile
  ent,       \* the root entry namex or addfile holds
  nxt,       \* dirlookup's result
  held,      \* the entry of the process's open file
  newinum,   \* addfile's inum
  panicked

cache == <<eref, einum, evalid, etype, esize>>
disk == <<dtype, dsize, dir, nextinum>>
locals == <<pc, name, create, again, ent, nxt, held, newinum>>
vars == <<cache, lk, disk, locals, panicked>>

Init ==
  /\ eref = [e \in Ents |-> 0]
  /\ einum = [e \in Ents |-> 0]
  /\ evalid = [e \in Ents |-> FALSE]
  /\ etype = [e \in Ents |-> "none"]
  /\ esize = [e \in Ents |-> 0]
  /\ lk = [l \in LockIds |-> NoProc]
  /\ dtype = [i \in Inums |-> CASE i = ROOTINO -> "dir"
                                [] i = 2 -> "file"
                                [] OTHER -> "none"]
  /\ dir = <<[name |-> InitName, inum |-> 2]>>
  /\ dsize = [i \in Inums |-> IF i = ROOTINO THEN 1 ELSE 0]
  /\ nextinum = 3
  /\ pc = [p \in Procs |-> "idle"]
  /\ name = [p \in Procs |-> InitName]
  /\ create = [p \in Procs |-> FALSE]
  /\ again = [p \in Procs |-> FALSE]
  /\ ent = [p \in Procs |-> None]
  /\ nxt = [p \in Procs |-> None]
  /\ held = [p \in Procs |-> None]
  /\ newinum = [p \in Procs |-> 0]
  /\ panicked = FALSE

Goto(p, l) == pc' = [pc EXCEPT ![p] = l]
Least(S) == CHOOSE x \in S : \A y \in S : x <= y

-----------------------------------------------------------------------------
(* iget, irelease and locki's dinode read.                                 *)

\* iget's scan: the first entry in use for inum i, else the first free one.
Cached(i) == {e \in Ents : eref[e] > 0 /\ einum[e] = i}
FreeEnts == {e \in Ents : eref[e] = 0}
IGetEntry(i) == IF Cached(i) /= {} THEN Least(Cached(i)) ELSE Least(FreeEnts)
CanIGet(i) == Cached(i) /= {} \/ FreeEnts /= {}

\* Mutant: the recycled entry keeps ip->valid.
IGet_keepvalid(i) ==
  LET e == IGetEntry(i) IN
  IF Cached(i) /= {}
  THEN /\ eref' = [eref EXCEPT ![e] = @ + 1]
       /\ UNCHANGED <<einum, evalid, etype, esize>>
  ELSE /\ eref' = [eref EXCEPT ![e] = 1]
       /\ einum' = [einum EXCEPT ![e] = i]
       /\ UNCHANGED <<evalid, etype, esize>>

\* iget(dev, i) under icache.lock: a cached entry gets ref + 1; otherwise
\* a free entry is recycled with ref 1 and valid 0.
IGet(i) ==
  LET e == IGetEntry(i) IN
  IF Cached(i) /= {}
  THEN /\ eref' = [eref EXCEPT ![e] = @ + 1]
       /\ UNCHANGED <<einum, evalid, etype, esize>>
  ELSE /\ eref' = [eref EXCEPT ![e] = 1]
       /\ einum' = [einum EXCEPT ![e] = i]
       /\ evalid' = [evalid EXCEPT ![e] = FALSE]
       /\ UNCHANGED <<etype, esize>>

\* irelease under icache.lock: the last reference sets type to 0.
IRelease(e) ==
  /\ etype' = IF eref[e] = 1 THEN [etype EXCEPT ![e] = "none"] ELSE etype
  /\ eref' = [eref EXCEPT ![e] = @ - 1]
  /\ UNCHANGED <<einum, evalid, esize>>

\* The rest of locki, after acquiresleep(&ip->lock): an entry not valid
\* reads its dinode under the inode file's lock (locki(&icache.inodefile),
\* read_dinode, unlocki); a valid one reads nothing.
Load(e) ==
  /\ \/ evalid[e] /\ UNCHANGED cache
     \/ /\ ~evalid[e] /\ lk[IFILE] = NoProc
        /\ evalid' = [evalid EXCEPT ![e] = TRUE]
        /\ etype' = [etype EXCEPT ![e] = dtype[einum[e]]]
        /\ esize' = [esize EXCEPT ![e] = dsize[einum[e]]]
        /\ UNCHANGED <<eref, einum>>
  /\ UNCHANGED <<lk, disk, panicked>>

Acquire(p, l) == lk[l] = NoProc /\ lk' = [lk EXCEPT ![l] = p]
Release(l) == lk' = [lk EXCEPT ![l] = NoProc]

-----------------------------------------------------------------------------
(* fileopen (file.c:79-87): namei(path), namex (fs.c:564-602) for "/name". *)

\* Creating calls that may still reach addfile's append.
Creating == {q \in Procs : pc[q] /= "idle" /\ create[q] /\ ~again[q] /\ newinum[q] = 0}

\* Bound: an O_CREATE open starts only while every creating call, itself
\* included, can still have an inum up to MaxInum.
CreateBound(c) == c => nextinum + Cardinality(Creating) <= MaxInum

OpenCall(p, n, c) ==
  /\ pc[p] = "idle" /\ held[p] = None /\ CreateBound(c)
  /\ name' = [name EXCEPT ![p] = n]
  /\ create' = [create EXCEPT ![p] = c]
  /\ again' = [again EXCEPT ![p] = FALSE]
  /\ Goto(p, "nx_iget")
  /\ UNCHANGED <<cache, lk, disk, ent, nxt, held, newinum, panicked>>

\* ip = iget(ROOTDEV, ROOTINO).
NxIget(p) ==
  /\ pc[p] = "nx_iget"
  /\ CanIGet(ROOTINO) /\ IGet(ROOTINO)
  /\ ent' = [ent EXCEPT ![p] = IGetEntry(ROOTINO)]
  /\ Goto(p, "nx_lock")
  /\ UNCHANGED <<lk, disk, name, create, again, nxt, held, newinum, panicked>>

\* locki(ip): acquiresleep.
NxLock(p) ==
  /\ pc[p] = "nx_lock" /\ Acquire(p, ent[p])
  /\ Goto(p, "nx_load")
  /\ UNCHANGED <<cache, disk, name, create, again, ent, nxt, held, newinum, panicked>>

NxLoad(p) ==
  /\ pc[p] = "nx_load" /\ Load(ent[p])
  /\ Goto(p, "nx_lookup")
  /\ UNCHANGED <<name, create, again, ent, nxt, held, newinum>>

\* dirlookup (fs.c:472-494): the dirents at offsets below the root's cached
\* size, in order; the first with the name gives iget(dev, inum).  Blocks
\* past the last dirent read as zero, whose inum 0 is skipped.
Matches(p) == {k \in 1..Len(dir) : k <= esize[ent[p]] /\ dir[k].name = name[p]}

NxLookup(p) ==
  LET i == dir[Least(Matches(p))].inum IN
  /\ pc[p] = "nx_lookup"
  /\ \/ /\ Matches(p) = {}
        /\ nxt' = [nxt EXCEPT ![p] = None]
        /\ Goto(p, "nx_unlock")
        /\ UNCHANGED <<cache, panicked>>
     \/ /\ Matches(p) /= {} /\ CanIGet(i) /\ IGet(i)
        /\ nxt' = [nxt EXCEPT ![p] = IGetEntry(i)]
        /\ Goto(p, "nx_unlock")
        /\ UNCHANGED panicked
  /\ UNCHANGED <<lk, disk, name, create, again, ent, held, newinum>>

\* unlocki(ip).
NxUnlock(p) ==
  /\ pc[p] = "nx_unlock" /\ Release(ent[p])
  /\ Goto(p, "nx_release")
  /\ UNCHANGED <<cache, disk, name, create, again, ent, nxt, held, newinum, panicked>>

\* Mutant: namex moves on to next without irelease(ip).
NxRelease_noirelease(p) ==
  /\ pc[p] = "nx_release"
  /\ ent' = [ent EXCEPT ![p] = None]
  /\ nxt' = [nxt EXCEPT ![p] = None]
  /\ \/ /\ nxt[p] /= None /\ UNCHANGED cache
        /\ held' = [held EXCEPT ![p] = nxt[p]]
        /\ Goto(p, "idle") /\ UNCHANGED panicked
     \/ /\ nxt[p] = None /\ ~again[p] /\ IRelease(ent[p])
        /\ Goto(p, IF create[p] THEN "af_begin" ELSE "idle")
        /\ UNCHANGED <<held, panicked>>
  /\ UNCHANGED <<lk, disk, name, create, again, newinum>>

\* irelease(ip); namex returns next.  fileopen keeps a found inode; with
\* none it fails, or calls addfile under O_CREATE.  After addfile it
\* asserts that namei found the new file: CreatedFileFound.
NxRelease(p) ==
  /\ pc[p] = "nx_release"
  /\ IRelease(ent[p])
  /\ ent' = [ent EXCEPT ![p] = None]
  /\ nxt' = [nxt EXCEPT ![p] = None]
  /\ \/ /\ nxt[p] /= None
        /\ held' = [held EXCEPT ![p] = nxt[p]]
        /\ Goto(p, "idle") /\ UNCHANGED panicked
     \/ /\ nxt[p] = None /\ ~again[p]
        /\ Goto(p, IF create[p] THEN "af_begin" ELSE "idle")
        /\ UNCHANGED <<held, panicked>>
  /\ UNCHANGED <<lk, disk, name, create, again, newinum>>
-----------------------------------------------------------------------------
(* addfile (fs.c:613-658).  Its writei calls run inside its transaction,   *)
(* so they take no loglock (log_started, fs.c:401).                        *)

AfUnchanged == UNCHANGED <<name, create, again, nxt, held, panicked>>

\* begin_tx: acquiresleep(&loglock).
AfBegin(p) ==
  /\ pc[p] = "af_begin" /\ Acquire(p, LOG)
  /\ Goto(p, "af_ilock")
  /\ UNCHANGED <<cache, disk, ent, newinum>> /\ AfUnchanged

\* locki(&icache.inodefile).
AfILock(p) ==
  /\ pc[p] = "af_ilock" /\ Acquire(p, IFILE)
  /\ Goto(p, "af_append")
  /\ UNCHANGED <<cache, disk, ent, newinum>> /\ AfUnchanged

\* Mutant: inum = inodefile.size / sizeof(struct dinode), without the - 1.
AfAppend_inum(p) ==
  /\ pc[p] = "af_append"
  /\ dtype' = [dtype EXCEPT ![nextinum] = "file"]
  /\ dsize' = [dsize EXCEPT ![nextinum] = 0]
  /\ newinum' = [newinum EXCEPT ![p] = nextinum + 1]
  /\ nextinum' = nextinum + 1
  /\ Goto(p, "af_iunlock")
  /\ UNCHANGED <<cache, lk, dir, ent>> /\ AfUnchanged

\* writei of a T_FILE dinode of size 0 at the end of the inode file; inum
\* is the new last one.
AfAppend(p) ==
  /\ pc[p] = "af_append"
  /\ dtype' = [dtype EXCEPT ![nextinum] = "file"]
  /\ dsize' = [dsize EXCEPT ![nextinum] = 0]
  /\ newinum' = [newinum EXCEPT ![p] = nextinum]
  /\ nextinum' = nextinum + 1
  /\ Goto(p, "af_iunlock")
  /\ UNCHANGED <<cache, lk, dir, ent>> /\ AfUnchanged

\* unlocki(&icache.inodefile).
AfIUnlock(p) ==
  /\ pc[p] = "af_iunlock" /\ Release(IFILE)
  /\ Goto(p, "af_iget")
  /\ UNCHANGED <<cache, disk, ent, newinum>> /\ AfUnchanged

\* rootdev = iget(ROOTDEV, ROOTINO).
AfIget(p) ==
  /\ pc[p] = "af_iget"
  /\ CanIGet(ROOTINO) /\ IGet(ROOTINO)
  /\ ent' = [ent EXCEPT ![p] = IGetEntry(ROOTINO)]
  /\ Goto(p, "af_lock")
  /\ UNCHANGED <<lk, disk, newinum>> /\ AfUnchanged

\* locki(rootdev): acquiresleep, then the dinode read if not valid.
AfLock(p) ==
  /\ pc[p] = "af_lock" /\ Acquire(p, ent[p])
  /\ Goto(p, "af_load")
  /\ UNCHANGED <<cache, disk, ent, newinum>> /\ AfUnchanged

AfLoad(p) ==
  /\ pc[p] = "af_load" /\ Load(ent[p])
  /\ Goto(p, "af_write")
  /\ UNCHANGED <<ent, newinum>> /\ AfUnchanged

\* The dirent at the offset of the cached size, in the root's own block.
PutDirent(k, d) == IF k <= Len(dir) THEN [dir EXCEPT ![k] = d] ELSE Append(dir, d)

\* Mutant: writei does not grow ip->size past the old end.
AfWrite_nogrow(p) ==
  LET r == ent[p] IN
  /\ pc[p] = "af_write" /\ lk[IFILE] = NoProc
  /\ dir' = PutDirent(esize[r] + 1, [name |-> name[p], inum |-> newinum[p]])
  /\ dsize' = [dsize EXCEPT ![ROOTINO] = esize[r]]
  /\ dtype' = [dtype EXCEPT ![ROOTINO] = etype[r]]
  /\ Goto(p, "af_unlock")
  /\ UNCHANGED <<cache, lk, nextinum, ent, newinum>>
  /\ AfUnchanged

\* writei(rootdev, &dirent, rootdev->size, ...): the dirent, then
\* ip->size grows, then the dinode through concurrent_writei(&inodefile),
\* which waits for the inode file's lock.
AfWrite(p) ==
  LET r == ent[p] IN
  /\ pc[p] = "af_write" /\ lk[IFILE] = NoProc
  /\ dir' = PutDirent(esize[r] + 1, [name |-> name[p], inum |-> newinum[p]])
  /\ esize' = [esize EXCEPT ![r] = @ + 1]
  /\ dsize' = [dsize EXCEPT ![ROOTINO] = esize[r] + 1]
  /\ dtype' = [dtype EXCEPT ![ROOTINO] = etype[r]]
  /\ Goto(p, "af_unlock")
  /\ UNCHANGED <<eref, einum, evalid, etype, lk, nextinum, ent, newinum>>
  /\ AfUnchanged

\* unlocki(rootdev).
AfUnlock(p) ==
  /\ pc[p] = "af_unlock" /\ Release(ent[p])
  /\ Goto(p, "af_release")
  /\ UNCHANGED <<cache, disk, ent, newinum>> /\ AfUnchanged

\* irelease(rootdev).
AfRelease(p) ==
  /\ pc[p] = "af_release" /\ IRelease(ent[p])
  /\ ent' = [ent EXCEPT ![p] = None]
  /\ Goto(p, "af_commit")
  /\ UNCHANGED <<lk, disk, newinum>> /\ AfUnchanged

\* Mutant: commit_tx leaves loglock held.
AfCommit_nolog(p) ==
  /\ pc[p] = "af_commit"
  /\ again' = [again EXCEPT ![p] = TRUE]
  /\ newinum' = [newinum EXCEPT ![p] = 0]
  /\ Goto(p, "nx_iget")
  /\ UNCHANGED <<cache, lk, disk, name, create, ent, nxt, held, panicked>>

\* commit_tx releases loglock; fileopen calls namei(path) again.
AfCommit(p) ==
  /\ pc[p] = "af_commit" /\ Release(LOG)
  /\ again' = [again EXCEPT ![p] = TRUE]
  /\ newinum' = [newinum EXCEPT ![p] = 0]
  /\ Goto(p, "nx_iget")
  /\ UNCHANGED <<cache, disk, name, create, ent, nxt, held, panicked>>
-----------------------------------------------------------------------------
(* filewrite and fileread of a regular file (file.c:35-73) through         *)
(* concurrent_writei and concurrent_readi (fs.c:283-291, 369-376), one     *)
(* block each; and fileclose's irelease (file.c:116-130).                  *)

RwUnchanged == UNCHANGED <<name, create, again, ent, nxt, held, newinum, panicked>>

WriteCall(p) ==
  /\ pc[p] = "idle" /\ held[p] /= None
  /\ Goto(p, "wr_lock")
  /\ UNCHANGED <<cache, lk, disk>> /\ RwUnchanged

\* locki(ip): acquiresleep.
WrLock(p) ==
  /\ pc[p] = "wr_lock" /\ Acquire(p, held[p])
  /\ Goto(p, "wr_load")
  /\ UNCHANGED <<cache, disk>> /\ RwUnchanged

WrLoad(p) ==
  /\ pc[p] = "wr_load" /\ Load(held[p])
  /\ Goto(p, "wr_begin")
  /\ RwUnchanged

\* writei without loglock held: begin_tx for the block.
WrBegin(p) ==
  /\ pc[p] = "wr_begin" /\ Acquire(p, LOG)
  /\ Goto(p, "wr_data")
  /\ UNCHANGED <<cache, disk>> /\ RwUnchanged

\* Mutant: ip->size set to off + n, shrinking the file on a write inside it.
WrData_shrink(p) ==
  LET h == held[p] IN
  /\ pc[p] = "wr_data" /\ lk[IFILE] = NoProc
  /\ \E sz \in 0..MaxSize :
       /\ esize' = [esize EXCEPT ![h] = sz]
       /\ dsize' = [dsize EXCEPT ![einum[h]] = sz]
  /\ dtype' = [dtype EXCEPT ![einum[h]] = etype[h]]
  /\ Goto(p, "wr_commit")
  /\ UNCHANGED <<eref, einum, evalid, etype, lk, dir, nextinum>> /\ RwUnchanged

\* The block, ip->size = max(size, off + n) for an offset at most the size,
\* and the dinode from the cached type and size through
\* concurrent_writei(&inodefile).
WrData(p) ==
  LET h == held[p] IN
  /\ pc[p] = "wr_data" /\ lk[IFILE] = NoProc
  /\ \E sz \in esize[h]..MaxSize :
       /\ esize' = [esize EXCEPT ![h] = sz]
       /\ dsize' = [dsize EXCEPT ![einum[h]] = sz]
  /\ dtype' = [dtype EXCEPT ![einum[h]] = etype[h]]
  /\ Goto(p, "wr_commit")
  /\ UNCHANGED <<eref, einum, evalid, etype, lk, dir, nextinum>> /\ RwUnchanged

\* commit_tx.
WrCommit(p) ==
  /\ pc[p] = "wr_commit" /\ Release(LOG)
  /\ Goto(p, "wr_unlock")
  /\ UNCHANGED <<cache, disk>> /\ RwUnchanged

\* unlocki(ip).
WrUnlock(p) ==
  /\ pc[p] = "wr_unlock" /\ Release(held[p])
  /\ Goto(p, "idle")
  /\ UNCHANGED <<cache, disk>> /\ RwUnchanged

ReadCall(p) ==
  /\ pc[p] = "idle" /\ held[p] /= None
  /\ Goto(p, "rd_lock")
  /\ UNCHANGED <<cache, lk, disk>> /\ RwUnchanged

\* concurrent_readi: locki, readi (which changes nothing), unlocki.
RdLock(p) ==
  /\ pc[p] = "rd_lock" /\ Acquire(p, held[p])
  /\ Goto(p, "rd_load")
  /\ UNCHANGED <<cache, disk>> /\ RwUnchanged

RdLoad(p) ==
  /\ pc[p] = "rd_load" /\ Load(held[p])
  /\ Goto(p, "rd_unlock")
  /\ RwUnchanged

RdUnlock(p) ==
  /\ pc[p] = "rd_unlock" /\ Release(held[p])
  /\ Goto(p, "idle")
  /\ UNCHANGED <<cache, disk>> /\ RwUnchanged

\* fileclose of the last reference: irelease(fp->ip).
Close(p) ==
  /\ pc[p] = "idle" /\ held[p] /= None
  /\ IRelease(held[p])
  /\ held' = [held EXCEPT ![p] = None]
  /\ UNCHANGED <<lk, disk, pc, name, create, again, ent, nxt, newinum, panicked>>

\* sys_fstat (sysfile.c:139-172) on the open file: type and size copied
\* straight from fp->ip, with neither fp->lock nor locki, so from an entry
\* whose dinode may never have been read.
FstatResult(p) == [type |-> etype[held[p]], size |-> esize[held[p]]]

\* The inum a process at an iget asks for: the root in namex and addfile,
\* dirlookup's match in namex.
IGetWant(p) == IF pc[p] = "nx_lookup" THEN dir[Least(Matches(p))].inum ELSE ROOTINO

\* iget with no entry for the inum and none free panics ("iget: no
\* inodes"), which halts the kernel.
IGetPanic(p) ==
  /\ \/ pc[p] \in {"nx_iget", "af_iget"}
     \/ pc[p] = "nx_lookup" /\ Matches(p) /= {}
  /\ ~CanIGet(IGetWant(p))
  /\ panicked' = TRUE
  /\ UNCHANGED <<cache, lk, disk, locals>>

\* The kernel's steps of a call in progress.
KernelStep(p) ==
  \/ NxIget(p) \/ NxLock(p) \/ NxLoad(p) \/ NxLookup(p)
  \/ NxUnlock(p) \/ NxRelease(p)
  \/ AfBegin(p) \/ AfILock(p) \/ AfAppend(p) \/ AfIUnlock(p)
  \/ AfIget(p) \/ AfLock(p) \/ AfLoad(p) \/ AfWrite(p)
  \/ AfUnlock(p) \/ AfRelease(p) \/ AfCommit(p)
  \/ WrLock(p) \/ WrLoad(p) \/ WrBegin(p) \/ WrData(p) \/ WrCommit(p)
  \/ WrUnlock(p) \/ RdLock(p) \/ RdLoad(p) \/ RdUnlock(p)
  \/ IGetPanic(p)

Next ==
  /\ ~panicked
  /\ \E p \in Procs :
       \/ \E n \in Names, c \in BOOLEAN : OpenCall(p, n, c)
       \/ WriteCall(p) \/ ReadCall(p) \/ Close(p)
       \/ KernelStep(p)

\* A process inside a call has one step enabled at a time.  Steps that
\* wait for a sleeplock (acquiresleep, and locki's or writei's use of the
\* inode file) are taken once the lock is free infinitely often, since
\* releasesleep wakes every sleeper and the round-robin scheduler runs
\* each; the other steps are always enabled and are taken.  Calls are user
\* choices and get no fairness.
Fairness == \A p \in Procs : SF_vars(KernelStep(p))

Spec == Init /\ [][Next]_vars /\ Fairness

-----------------------------------------------------------------------------

TypeOK ==
  /\ eref \in [Ents -> 0..Cardinality(Procs) * 2]
  /\ einum \in [Ents -> 0..MaxInum]
  /\ evalid \in [Ents -> BOOLEAN]
  /\ etype \in [Ents -> Types]
  /\ esize \in [Ents -> Nat]
  /\ lk \in [LockIds -> Procs \cup {NoProc}]
  /\ dtype \in [Inums -> Types]
  /\ dir \in Seq([name : Names, inum : Inums])
  /\ nextinum \in 3..MaxInum + 1
  /\ held \in [Procs -> Ents \cup {None}]

\* Every reference an entry counts is one a process holds: the root that
\* namex or addfile works in, namex's result, or an open file's inode.
\* iget, irelease and fileclose keep ref equal to the pointers in use, so
\* an entry is recycled only when no one can still use it.
RefsMatchHolders ==
  \A e \in Ents :
    eref[e] = Cardinality({p \in Procs : ent[p] = e})
              + Cardinality({p \in Procs : nxt[p] = e})
              + Cardinality({p \in Procs : held[p] = e})

\* An entry in use that is valid and unlocked holds its inode's dinode:
\* recycling an entry clears valid, locki reloads it, and a write updates
\* the cached copy and the dinode under the inode's lock.
CacheMatchesDisk ==
  \A e \in Ents :
    eref[e] > 0 /\ evalid[e] /\ lk[e] = NoProc =>
      etype[e] = dtype[einum[e]] /\ esize[e] = dsize[einum[e]]

\* fileopen's assertion after addfile (file.c:86): the second namei finds
\* the file, through whichever root entry is cached by then.
CreatedFileFound ==
  \A p \in Procs : pc[p] = "nx_release" /\ again[p] => nxt[p] /= None

\* Two dirents of the root directory never carry the same name: dirlookup
\* returns the first, so a later one is a file no open reaches.
UniqueNames ==
  \A j, k \in 1..Len(dir) :
    j /= k /\ j <= dsize[ROOTINO] /\ k <= dsize[ROOTINO] => dir[j].name /= dir[k].name

\* fstat of an open file reports its inode's type and size (spec.md 4.11:
\* filestat copies them out of the inode; stati requires ip->lock).  The
\* process is between calls, so no lock of its own is held, and any
\* write in progress elsewhere has not yet touched the inode.
FstatSeesInode ==
  \A p \in Procs :
    pc[p] = "idle" /\ held[p] /= None =>
      FstatResult(p) = [type |-> dtype[einum[held[p]]], size |-> dsize[einum[held[p]]]]

\* The file a name of / stands for: the first of its dirents below the
\* root's size, as dirlookup finds it, and that inode's dinode.
Named(n) == {k \in 1..Len(dir) : k <= dsize[ROOTINO] /\ dir[k].name = n}
NameFile(n) ==
  IF Named(n) = {} THEN [in |-> FALSE, type |-> "none", size |-> 0]
  ELSE LET i == dir[Least(Named(n))].inum
       IN [in |-> TRUE, type |-> dtype[i], size |-> dsize[i]]

\* The disk refines FileStore: every step of namex, addfile, writei and
\* close either creates an empty regular file under an absent name, grows
\* one named file, or leaves every name's file unchanged.  addfile must
\* write the new dinode before the dirent that names it, and writei must
\* start from the inode's current size.
FS == INSTANCE FileStore WITH files <- [n \in Names |-> NameFile(n)]

FileStoreRefined == FS!FSpec

\* Every call that has started returns, unless the kernel panics: no two
\* calls wait on each other's sleeplocks among namex, addfile, writes and
\* reads of regular files, and none waits forever for a lock.
AllCallsReturn == \A p \in Procs : pc[p] /= "idle" ~> (pc[p] = "idle" \/ panicked)
=============================================================================
