----------------------------- MODULE LockOrder -----------------------------
(***************************************************************************)
(* The order in which file-system calls take the sleeplocks of the log     *)
(* (loglock), the inode file, the root directory and a regular file.       *)
(* Each call is its program of lock steps; the work between them touches   *)
(* no lock and is left out.                                                *)
(*   filewrite -> concurrent_writei(ip) (file.c:41-48, fs.c:369-376):      *)
(*     locki(ip), then per block writei's begin_tx (fs.c:412-413),         *)
(*     concurrent_writei(&inodefile) for the dinode (fs.c:447), commit_tx  *)
(*     (fs.c:455-456), then unlocki(ip).                                   *)
(*   fileopen(path, O_CREATE) -> addfile (file.c:82, fs.c:613-658):         *)
(*     begin_tx, locki/unlocki(inodefile), locki/unlocki(root), commit_tx. *)
(*   locki (fs.c:223-253) of an inode not yet valid locks the inode file   *)
(*     while it holds ip->lock, to read the dinode.                        *)
(* One block per write: each block repeats the same lock steps.  The      *)
(* file_info lock filewrite holds around it is private to one open file    *)
(* and is left out.  A call that returns is called again.                  *)
(***************************************************************************)
EXTENDS Naturals, Sequences

CONSTANTS
  RootWriters,  \* calls writing through a descriptor open on "/"
  FileWriters,  \* calls writing a regular file
  Creators,     \* calls creating a file: fileopen with O_CREATE
  NoCall        \* no call holds the lock

Calls == RootWriters \cup FileWriters \cup Creators
Locks == {"log", "ifile", "root", "file"}

VARIABLES
  holder,  \* the call holding each sleeplock
  valid,   \* inode.valid of the root directory and the regular file
  pc       \* the next lock step of each call; 1 is between calls

vars == <<holder, valid, pc>>

Acq(l) == <<"acq", l>>
Rel(l) == <<"rel", l>>

\* locki(x): acquiresleep, then the dinode read under the inode file's lock
\* when x is not valid; locki of the inode file itself reads no dinode.
Locki(x) ==
  IF x = "ifile" THEN <<Acq(x)>> ELSE <<Acq(x), <<"load", x>>, <<"loaded", x>>>>

\* writei of one block of x, x not the inode file, called without loglock.
Writei(x) == <<Acq("log")>> \o Locki("ifile") \o <<Rel("ifile"), Rel("log")>>

concurrent_writei(x) == Locki(x) \o Writei(x) \o <<Rel(x)>>

\* addfile: writei of the inode file and of the root directory run inside
\* addfile's transaction, so they take no loglock (log_started, fs.c:401).
addfile ==
  <<Acq("log")>> \o Locki("ifile") \o <<Rel("ifile")>>
    \o Locki("root") \o <<Rel("root"), Rel("log")>>

Prog(c) ==
  IF c \in RootWriters THEN concurrent_writei("root")
  ELSE IF c \in FileWriters THEN concurrent_writei("file")
  ELSE addfile

Op(c) == Prog(c)[pc[c]]

Init ==
  /\ holder = [l \in Locks |-> NoCall]
  /\ valid \in [{"root", "file"} -> BOOLEAN]
  /\ pc = [c \in Calls |-> 1]

Step(c) == pc' = [pc EXCEPT ![c] = pc[c] + 1]

\* acquiresleep: sleeps while the lock is held, then takes it.
Acquire(c) ==
  /\ pc[c] <= Len(Prog(c)) /\ Op(c)[1] = "acq"
  /\ holder[Op(c)[2]] = NoCall
  /\ holder' = [holder EXCEPT ![Op(c)[2]] = c]
  /\ Step(c)
  /\ UNCHANGED valid

\* releasesleep, and wakeup of its sleepers.
Release(c) ==
  /\ pc[c] <= Len(Prog(c)) /\ Op(c)[1] = "rel"
  /\ holder' = [holder EXCEPT ![Op(c)[2]] = NoCall]
  /\ Step(c)
  /\ UNCHANGED valid

\* locki of a valid inode reads nothing.
LoadSkip(c) ==
  /\ pc[c] <= Len(Prog(c)) /\ Op(c)[1] = "load"
  /\ valid[Op(c)[2]]
  /\ pc' = [pc EXCEPT ![c] = pc[c] + 2]
  /\ UNCHANGED <<holder, valid>>

\* locki of an invalid inode: locki(&icache.inodefile) while holding ip.
LoadStart(c) ==
  /\ pc[c] <= Len(Prog(c)) /\ Op(c)[1] = "load"
  /\ ~valid[Op(c)[2]]
  /\ holder["ifile"] = NoCall
  /\ holder' = [holder EXCEPT !["ifile"] = c]
  /\ Step(c)
  /\ UNCHANGED valid

\* read_dinode, unlocki(&icache.inodefile), ip->valid = 1.
LoadEnd(c) ==
  /\ pc[c] <= Len(Prog(c)) /\ Op(c)[1] = "loaded"
  /\ holder' = [holder EXCEPT !["ifile"] = NoCall]
  /\ valid' = [valid EXCEPT ![Op(c)[2]] = TRUE]
  /\ Step(c)

\* The call returns; the process makes it again.
Return(c) ==
  /\ pc[c] = Len(Prog(c)) + 1
  /\ pc' = [pc EXCEPT ![c] = 1]
  /\ UNCHANGED <<holder, valid>>

Next ==
  \E c \in Calls :
    Acquire(c) \/ Release(c) \/ LoadSkip(c) \/ LoadStart(c) \/ LoadEnd(c)
    \/ Return(c)

\* Sleeplocks wake every sleeper on release and the scheduler runs each in
\* turn, so a waiter that finds the lock free infinitely often gets it.
Fairness ==
  \A c \in Calls :
    /\ SF_vars(Acquire(c)) /\ SF_vars(LoadStart(c))
    /\ WF_vars(Release(c)) /\ WF_vars(LoadSkip(c)) /\ WF_vars(LoadEnd(c))
    /\ WF_vars(Return(c))

Spec == Init /\ [][Next]_vars /\ Fairness

-----------------------------------------------------------------------------

TypeOK ==
  /\ holder \in [Locks -> Calls \cup {NoCall}]
  /\ valid \in [{"root", "file"} -> BOOLEAN]
  /\ \A c \in Calls : pc[c] \in 1..Len(Prog(c)) + 1

InCall(c) == pc[c] > 1

\* Every write and every file creation that has started returns: no set of
\* calls waits on each other's sleeplocks, whatever order writei, addfile
\* and locki's dinode read take loglock and the inode locks in.
AllCallsReturn == \A c \in Calls : InCall(c) ~> ~InCall(c)
=============================================================================
