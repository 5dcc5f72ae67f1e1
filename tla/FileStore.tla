------------------------------ MODULE FileStore ------------------------------
(***************************************************************************)
(* What the root directory and the inode layer promise the file calls      *)
(* (spec.md 4.7, 4.9, 4.11): each name in / is absent or names one regular *)
(* file.  fileopen with O_CREATE of an absent name makes it name an empty  *)
(* file, and a name never moves to another file or disappears (there is no *)
(* unlink).  A write changes one file's size and never shrinks it (writei  *)
(* sets size to max(size, off + n)).                                       *)
(*                                                                         *)
(* ICache is shown to implement this module: each step of the detailed     *)
(* calls is one of these steps or leaves every name's file as it was.      *)
(***************************************************************************)
EXTENDS Naturals

CONSTANTS
  Names,     \* file names in /
  InitName,  \* the file on the disk at boot
  MaxSize    \* the largest file size

VARIABLE files  \* for each name: whether it is in /, its type and its size

NoFile == [in |-> FALSE, type |-> "none", size |-> 0]
EmptyFile == [in |-> TRUE, type |-> "file", size |-> 0]

FInit == files = [n \in Names |-> IF n = InitName THEN EmptyFile ELSE NoFile]

\* The call that creates n: it was absent and is now an empty regular file.
Create(n) ==
  /\ ~files[n].in
  /\ files' = [files EXCEPT ![n] = EmptyFile]

\* A write to the file n: its size grows or stays.
Write(n) ==
  /\ files[n].in
  /\ \E sz \in files[n].size..MaxSize : files' = [files EXCEPT ![n].size = sz]

FNext == \E n \in Names : Create(n) \/ Write(n)

FSpec == FInit /\ [][FNext]_files
=============================================================================
