----------------------------- MODULE FileTable -----------------------------
(***************************************************************************)
(* The global open-file table files_global of src/kernel/file.c and the   *)
(* per-process descriptor tables, under the system calls that change them: *)
(* open, pipe, dup, close, read, write, fork (ftablecopy) and exit.        *)
(*                                                                         *)
(* A slot holds an inode pointer (here the one regular file, or none), a   *)
(* pipe flag (pp != NULL), ref and offset; its sleep lock is lock[i].      *)
(* Each process runs one call at a time; calls of different processes      *)
(* interleave at the points where the code holds no lock, as with several  *)
(* CPUs or a timer preemption in the kernel.  The file's bytes are         *)
(* abstracted to its size; the pipe behind a pipe slot is the Pipe module's.*)
(* The parent process Parent lives throughout; fork makes Child, which     *)
(* exits by closing every descriptor it holds.                             *)
(***************************************************************************)
EXTENDS Naturals, FiniteSets

CONSTANTS Parent, Child,  \* the two processes (model values)
          NOFILE,         \* descriptors per process
          NFILE,          \* slots in files_global
          MaxSize,        \* bound: bytes the file may grow to
          Openers,        \* the processes whose user code calls open and pipe
          MaxIref         \* bound: the inode's reference count

Procs == {Parent, Child}
Fds == 0..(NOFILE - 1)
FileSlots == 1..NFILE
NoSlot == 0                 \* a NULL descriptor
NoLock == "free"
Kinds == {"file", "pipe_r", "pipe_w"}
Perms == {"O_RDONLY", "O_WRONLY", "O_RDWR"}
CanRead == {"O_RDONLY", "O_RDWR"}
CanWrite == {"O_WRONLY", "O_RDWR"}

ASSUME Openers \subseteq Procs /\ NOFILE >= 2 /\ NFILE >= 2 /\ MaxSize >= 1

VARIABLES
  files,    \* files[p][fd]: the slot a descriptor names, or NoSlot
  ip,       \* ip[i]: does slot i point to the file's inode?
  pp,       \* pp[i]: is slot i's pipe pointer set?
  ref,      \* ref[i]
  off,      \* off[i]: the slot's offset
  perm,     \* perm[i]: the mode the slot was opened with
  lock,     \* lock[i]: holder of the slot's sleep lock
  size,     \* the file's size
  iref,     \* the inode's reference count in the inode cache
  alive,    \* alive[p]
  pc,       \* where each process is in its call
  fd,       \* the descriptor the current call works on
  sl,       \* the slot the current call works on
  kind,     \* what open or pipeopen is filling a slot with
  mode,     \* the mode open was called with
  nb        \* bytes readi returned to the current fileread

vars == <<files, ip, pp, ref, off, perm, mode, lock, size, iref, alive, pc, fd, sl, kind, nb>>

FreeFds(p) == {d \in Fds : files[p][d] = NoSlot}
MinOf(S) == CHOOSE x \in S : \A y \in S : x <= y
SlotFree(i) == ~ip[i] /\ ~pp[i]

\* Parent runs with its descriptors closed and the file (size 1) on disk.
Init ==
  /\ files = [p \in Procs |-> [d \in Fds |-> NoSlot]]
  /\ ip = [i \in FileSlots |-> FALSE]
  /\ pp = [i \in FileSlots |-> FALSE]
  /\ ref = [i \in FileSlots |-> 0]
  /\ off = [i \in FileSlots |-> 0]
  /\ perm = [i \in FileSlots |-> "O_RDONLY"]
  /\ mode = [p \in Procs |-> "O_RDONLY"]
  /\ lock = [i \in FileSlots |-> NoLock]
  /\ size = 1
  /\ iref = 0
  /\ alive = [p \in Procs |-> p = Parent]
  /\ pc = [p \in Procs |-> "idle"]
  /\ fd = [p \in Procs |-> 0]
  /\ sl = [p \in Procs |-> NoSlot]
  /\ kind = [p \in Procs |-> "file"]
  /\ nb = [p \in Procs |-> 0]

Idle(p) == alive[p] /\ pc[p] = "idle"

-----------------------------------------------------------------------------
(* open and pipe: a descriptor, then an unlocked scan, then the fill.      *)

\* sys_open (sysfile.c:174-200): the first NULL descriptor (none: -1), then
\* fileopen's namei, which finds the file and takes an inode reference.
OpenCall(p, m) ==
  /\ Idle(p) /\ p \in Openers
  /\ iref < MaxIref
  /\ mode' = [mode EXCEPT ![p] = m]
  /\ FreeFds(p) /= {}
  /\ fd' = [fd EXCEPT ![p] = MinOf(FreeFds(p))]
  /\ kind' = [kind EXCEPT ![p] = "file"]
  /\ iref' = iref + 1
  /\ pc' = [pc EXCEPT ![p] = "scan"]
  /\ UNCHANGED <<perm, files, ip, pp, ref, off, lock, size, alive, sl, nb>>

\* sys_pipe (sysfile.c:219-245) has its page; pipeopen(O_RDONLY) and later
\* pipeopen(O_WRONLY) each take the first NULL descriptor (none: -1).
PipeFd(p) ==
  /\ alive[p]
  /\ \/ Idle(p) /\ p \in Openers /\ kind' = [kind EXCEPT ![p] = "pipe_r"]
     \/ pc[p] = "pipe_fd_w" /\ kind' = [kind EXCEPT ![p] = "pipe_w"]
  /\ IF FreeFds(p) /= {}
     THEN /\ fd' = [fd EXCEPT ![p] = MinOf(FreeFds(p))]
          /\ pc' = [pc EXCEPT ![p] = "scan"]
     ELSE /\ pc' = [pc EXCEPT ![p] = "idle"]
          /\ UNCHANGED fd
  /\ UNCHANGED <<perm, mode, files, ip, pp, ref, off, lock, size, iref, alive, sl, nb>>

\* Mutant: the scan runs i <= NFILE; the word past the array is zeroed
\* memory and reads as a free slot.
Scan_offbyone(p) ==
  LET free == {i \in 1..(NFILE + 1) : i > NFILE \/ SlotFree(i)} IN
  /\ alive[p] /\ pc[p] = "scan"
  /\ sl' = [sl EXCEPT ![p] = MinOf(free)]
  /\ pc' = [pc EXCEPT ![p] = "fill"]
  /\ UNCHANGED <<perm, mode, files, ip, pp, ref, off, lock, size, iref, alive, fd, kind, nb>>

\* The scan of files_global for a slot with ip == NULL and pp == NULL,
\* with no lock held (file.c:92-93, 163-164).  With none free, fileopen
\* returns NULL keeping namei's inode reference; pipeopen returns -1.
Scan(p) ==
  LET free == {i \in FileSlots : SlotFree(i)} IN
  /\ alive[p] /\ pc[p] = "scan"
  /\ IF free /= {}
     THEN /\ sl' = [sl EXCEPT ![p] = MinOf(free)]
          /\ pc' = [pc EXCEPT ![p] = "fill"]
     ELSE /\ pc' = [pc EXCEPT ![p] = "idle"]
          /\ UNCHANGED sl
  /\ UNCHANGED <<perm, mode, files, ip, pp, ref, off, lock, size, iref, alive, fd, kind, nb>>

\* files_global[i] = finfo: the whole struct, its sleep lock included, is
\* overwritten with ref 1 and offset 0, then the lock is released.
\* pipeopen installs its descriptor before the release (file.c:165-180);
\* fileopen returns and sys_open installs it afterwards (Install).
Fill(p) ==
  LET i == sl[p] IN
  /\ alive[p] /\ pc[p] = "fill"
  /\ ip' = [ip EXCEPT ![i] = (kind[p] = "file")]
  /\ pp' = [pp EXCEPT ![i] = (kind[p] /= "file")]
  /\ ref' = [ref EXCEPT ![i] = 1]
  /\ off' = [off EXCEPT ![i] = 0]
  /\ lock' = [lock EXCEPT ![i] = NoLock]
  /\ perm' = [perm EXCEPT ![i] = CASE kind[p] = "file"   -> mode[p]
                                    [] kind[p] = "pipe_r" -> "O_RDONLY"
                                    [] OTHER              -> "O_WRONLY"]
  /\ files' = IF kind[p] = "file" THEN files ELSE [files EXCEPT ![p][fd[p]] = i]
  /\ pc' = [pc EXCEPT ![p] = CASE kind[p] = "file"   -> "install"
                                [] kind[p] = "pipe_r" -> "pipe_fd_w"
                                [] OTHER              -> "idle"]
  /\ UNCHANGED <<mode, size, iref, alive, fd, sl, kind, nb>>

\* sys_open: myproc()->files[fd] = fp (sysfile.c:196-199).
Install(p) ==
  /\ alive[p] /\ pc[p] = "install"
  /\ files' = [files EXCEPT ![p][fd[p]] = sl[p]]
  /\ pc' = [pc EXCEPT ![p] = "idle"]
  /\ UNCHANGED <<perm, mode, ip, pp, ref, off, lock, size, iref, alive, fd, sl, kind, nb>>

-----------------------------------------------------------------------------
(* dup, close and exit.                                                    *)

\* sys_dup (sysfile.c:20-52): the first NULL descriptor gets the slot, then
\* filedup takes the slot lock and increments ref (file.c:25-29).
DupCall(p, d) ==
  /\ Idle(p)
  /\ files[p][d] /= NoSlot
  /\ FreeFds(p) /= {}
  /\ files' = [files EXCEPT ![p][MinOf(FreeFds(p))] = files[p][d]]
  /\ sl' = [sl EXCEPT ![p] = files[p][d]]
  /\ pc' = [pc EXCEPT ![p] = "dup_inc"]
  /\ UNCHANGED <<perm, mode, ip, pp, ref, off, lock, size, iref, alive, fd, kind, nb>>

DupInc(p) ==
  LET i == sl[p] IN
  /\ alive[p] /\ pc[p] = "dup_inc"
  /\ lock[i] = NoLock
  /\ ref' = [ref EXCEPT ![i] = ref[i] + 1]
  /\ pc' = [pc EXCEPT ![p] = "idle"]
  /\ UNCHANGED <<perm, mode, files, ip, pp, off, lock, size, iref, alive, fd, sl, kind, nb>>

\* sys_close (sysfile.c:115-137), or exit closing the lowest open
\* descriptor (proc.c:171-177).
CloseCall(p, d) ==
  /\ alive[p]
  /\ pc[p] \in {"idle", "exiting"}
  /\ files[p][d] /= NoSlot
  /\ pc[p] = "exiting" => d = MinOf({e \in Fds : files[p][e] /= NoSlot})
  /\ fd' = [fd EXCEPT ![p] = d]
  /\ sl' = [sl EXCEPT ![p] = files[p][d]]
  /\ pc' = [pc EXCEPT ![p] = IF pc[p] = "exiting" THEN "close_lock_x"
                                                  ELSE "close_lock"]
  /\ UNCHANGED <<perm, mode, files, ip, pp, ref, off, lock, size, iref, alive, kind, nb>>

\* fileclose (file.c:117-129): take the slot lock, decrement ref; at zero
\* a pipe end goes to pipeclose (pp stays set), an inode is released and
\* ip and offset cleared.
CloseLock(p) ==
  LET i == sl[p]
      last == ref[i] - 1 = 0
  IN /\ alive[p] /\ pc[p] \in {"close_lock", "close_lock_x"}
     /\ lock[i] = NoLock
     /\ lock' = [lock EXCEPT ![i] = p]
     /\ ref' = [ref EXCEPT ![i] = ref[i] - 1]
     /\ IF last /\ ~pp[i]
        THEN /\ iref' = iref - 1
             /\ ip' = [ip EXCEPT ![i] = FALSE]
             /\ off' = [off EXCEPT ![i] = 0]
        ELSE UNCHANGED <<iref, ip, off>>
     /\ pc' = [pc EXCEPT ![p] = IF pc[p] = "close_lock_x" THEN "close_rel_x"
                                                         ELSE "close_rel"]
     /\ UNCHANGED <<perm, mode, files, pp, size, alive, fd, sl, kind, nb>>

\* releasesleep (file.c:130), then the descriptor is cleared.
CloseRel(p) ==
  /\ alive[p] /\ pc[p] \in {"close_rel", "close_rel_x"}
  /\ lock' = [lock EXCEPT ![sl[p]] = NoLock]
  /\ files' = [files EXCEPT ![p][fd[p]] = NoSlot]
  /\ pc' = [pc EXCEPT ![p] = IF pc[p] = "close_rel_x" THEN "exiting" ELSE "idle"]
  /\ UNCHANGED <<perm, mode, ip, pp, ref, off, size, iref, alive, fd, sl, kind, nb>>

\* The child calls exit: it closes its descriptors, then is gone.
ExitCall(p) ==
  /\ Idle(p) /\ p = Child
  /\ pc' = [pc EXCEPT ![p] = "exiting"]
  /\ UNCHANGED <<perm, mode, files, ip, pp, ref, off, lock, size, iref, alive, fd, sl, kind, nb>>

ExitDone(p) ==
  /\ alive[p] /\ pc[p] = "exiting"
  /\ \A d \in Fds : files[p][d] = NoSlot
  /\ alive' = [alive EXCEPT ![p] = FALSE]
  /\ pc' = [pc EXCEPT ![p] = "idle"]
  /\ UNCHANGED <<perm, mode, files, ip, pp, ref, off, lock, size, iref, fd, sl, kind, nb>>

\* Mutant: ftablecopy without dst->files[fd]->ref++.
ForkCopy_noref(p) ==
  /\ Idle(p) /\ p = Parent /\ ~alive[Child]
  /\ \A i \in {files[p][d] : d \in Fds} \ {NoSlot} : lock[i] = NoLock
  /\ files' = [files EXCEPT ![Child] = files[p]]
  /\ alive' = [alive EXCEPT ![Child] = TRUE]
  /\ pc' = [pc EXCEPT ![Child] = "idle"]
  /\ UNCHANGED <<perm, mode, ip, pp, ref, off, lock, size, iref, fd, sl, kind, nb>>

\* fork's ftablecopy (proc.c:447-462): every descriptor is copied and its
\* slot's ref incremented under the slot lock.
ForkCopy(p) ==
  LET used == {files[p][d] : d \in Fds} \ {NoSlot}
      cnt(i) == Cardinality({d \in Fds : files[p][d] = i})
  IN /\ Idle(p) /\ p = Parent /\ ~alive[Child]
     /\ \A i \in used : lock[i] = NoLock
     /\ files' = [files EXCEPT ![Child] = files[p]]
     /\ ref' = [i \in FileSlots |-> ref[i] + cnt(i)]
     /\ alive' = [alive EXCEPT ![Child] = TRUE]
     /\ pc' = [pc EXCEPT ![Child] = "idle"]
     /\ UNCHANGED <<perm, mode, ip, pp, off, lock, size, iref, fd, sl, kind, nb>>

-----------------------------------------------------------------------------
(* read and write on a regular-file slot (file.c:35-73).                   *)

\* fileread: fp->offset is read without the slot lock and readi runs under
\* the inode lock alone: -1 past the end of the file, else up to n bytes.
ReadCall(p, d, n) ==
  LET i == files[p][d] IN
  /\ Idle(p)
  /\ i /= NoSlot /\ ip[i] /\ ~pp[i] /\ perm[i] \in CanRead
  /\ IF off[i] > size
     THEN UNCHANGED <<pc, sl, nb>>
     ELSE /\ nb' = [nb EXCEPT ![p] = IF off[i] + n > size THEN size - off[i] ELSE n]
          /\ sl' = [sl EXCEPT ![p] = i]
          /\ pc' = [pc EXCEPT ![p] = "read_upd"]
  /\ UNCHANGED <<perm, mode, files, ip, pp, ref, off, lock, size, iref, alive, fd, kind>>

\* Then, under the slot lock, offset += bytes read.
ReadUpd(p) ==
  LET i == sl[p] IN
  /\ alive[p] /\ pc[p] = "read_upd"
  /\ lock[i] = NoLock
  /\ off' = [off EXCEPT ![i] = off[i] + nb[p]]
  /\ pc' = [pc EXCEPT ![p] = "idle"]
  /\ UNCHANGED <<perm, mode, files, ip, pp, ref, lock, size, iref, alive, fd, sl, kind, nb>>

\* filewrite: take the slot lock, writei at the offset; -1 (offset past
\* the end of the file) returns without releasing the lock; otherwise the
\* file grows to cover the write, offset += n, and the lock is released.
WriteCall(p, d, n) ==
  LET i == files[p][d] IN
  /\ Idle(p)
  /\ i /= NoSlot /\ ip[i] /\ ~pp[i] /\ perm[i] \in CanWrite
  /\ lock[i] = NoLock
  /\ off[i] > size \/ off[i] + n <= MaxSize
  /\ IF off[i] > size
     THEN /\ lock' = [lock EXCEPT ![i] = p]
          /\ UNCHANGED <<off, size>>
     ELSE /\ size' = IF off[i] + n > size THEN off[i] + n ELSE size
          /\ off' = [off EXCEPT ![i] = off[i] + n]
          /\ UNCHANGED lock
  /\ UNCHANGED <<perm, mode, files, ip, pp, ref, iref, alive, pc, fd, sl, kind, nb>>

Next ==
  \E p \in Procs :
    \/ \E m \in Perms : OpenCall(p, m)
    \/ PipeFd(p) \/ Scan(p) \/ Fill(p) \/ Install(p)
    \/ \E d \in Fds : DupCall(p, d) \/ CloseCall(p, d)
    \/ DupInc(p) \/ CloseLock(p) \/ CloseRel(p)
    \/ ExitCall(p) \/ ExitDone(p) \/ ForkCopy(p)
    \/ \E d \in Fds, n \in 1..MaxSize : ReadCall(p, d, n) \/ WriteCall(p, d, n)
    \/ ReadUpd(p)

Spec == Init /\ [][Next]_vars

\* The state with the dead locals masked: a process's call locals between
\* calls, and the perm and offset of a free slot, which the next fill
\* overwrites before anything reads them.
LiveView ==
  LET busy(p) == alive[p] /\ pc[p] /= "idle"
      live(i) == ~SlotFree(i) \/ ref[i] > 0
  IN <<files, ip, pp, ref, lock, size, iref, alive, pc,
       [p \in Procs |-> IF busy(p) THEN <<fd[p], sl[p], kind[p], mode[p], nb[p]>>
                                   ELSE <<>>],
       [i \in FileSlots |-> IF live(i) THEN <<off[i], perm[i]>> ELSE <<>>]>>

-----------------------------------------------------------------------------
(* Properties.                                                             *)

TypeOK ==
  /\ files \in [Procs -> [Fds -> FileSlots \cup {NoSlot}]]
  /\ ip \in [FileSlots -> BOOLEAN] /\ pp \in [FileSlots -> BOOLEAN]
  /\ ref \in [FileSlots -> Nat] /\ off \in [FileSlots -> Nat]
  /\ perm \in [FileSlots -> Perms] /\ mode \in [Procs -> Perms]
  /\ lock \in [FileSlots -> Procs \cup {NoLock}]
  /\ size \in 0..MaxSize /\ iref \in Nat
  /\ alive \in [Procs -> BOOLEAN] /\ alive[Parent]
  /\ sl \in [Procs -> FileSlots \cup {NoSlot}]
  /\ kind \in [Procs -> Kinds] /\ nb \in [Procs -> 0..MaxSize]

FdCount(i) == Cardinality({pd \in Procs \X Fds : files[pd[1]][pd[2]] = i})
InCall(i, pcs) == Cardinality({p \in Procs : alive[p] /\ pc[p] \in pcs /\ sl[p] = i})

\* spec.md 8: a slot's ref is the number of descriptors naming it.  It is
\* exact between calls; inside one, sys_dup has installed the descriptor
\* before filedup counts it, sys_close uncounts it before clearing it, and
\* sys_open counts it before installing it.  This is what filedup,
\* fileclose, ftablecopy and exit's closing loop must keep, under any
\* interleaving of the processes sharing the slots.
RefMatchesFds ==
  \A i \in FileSlots :
    ref[i] = FdCount(i) - InCall(i, {"dup_inc", "close_rel", "close_rel_x"})
                        + InCall(i, {"install"})

\* A slot whose last reference is gone (fileclose done) can be found by
\* the next fileopen or pipeopen scan, which wants ip and pp both NULL.
SlotReusable ==
  \A i \in FileSlots :
    ref[i] = 0 /\ InCall(i, {"close_rel", "close_rel_x"}) = 0 => SlotFree(i)

\* The inode's cache reference count is the number of slots naming it plus
\* the opens that hold namei's reference and have no slot yet; otherwise
\* the inode can never leave icache (iget panics once icache is full).
InodeRefsMatch ==
  iref = Cardinality({i \in FileSlots : ip[i]})
         + Cardinality({p \in Procs : alive[p] /\ pc[p] \in {"scan", "fill"}
                                      /\ kind[p] = "file"})

\* An open file's offset never passes the end of the file: every
\* fileread advances it by what readi returned from that offset.
OffsetWithinFile == \A i \in FileSlots : ip[i] => off[i] <= size

\* A slot's sleep lock is held only inside fileclose: no system call
\* returns to user space holding it, since every later filedup, filewrite,
\* fileread, fileclose and fork on the slot would block for ever.
NoLockHeldOnReturn ==
  \A i \in FileSlots :
    lock[i] /= NoLock => pc[lock[i]] \in {"close_rel", "close_rel_x"}
=============================================================================
