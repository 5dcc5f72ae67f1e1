------------------------------ MODULE ExecStack ------------------------------
(***************************************************************************)
(* exec(path, argv) (src/kernel/exec.c:11-85): the loop that counts and   *)
(* checks the user's argv, and the construction of the new user stack     *)
(* (the pointer array argv_new at the top, each string copied below it,   *)
(* a return-address slot below them all) and of rdi, rsi and rsp.         *)
(*                                                                         *)
(* args is the user's argv: its strings, then a NULL entry.  A NULL entry  *)
(* is the address 0, so fetchstr and the terminator test                  *)
(* strncmp(str, 0, 1) both read user memory at address 0, which holds the *)
(* first bytes of the program (va0) or is not mapped.  Bytes are small     *)
(* integers with 0 the NUL; addresses are bytes below Top (SZ_2G), and    *)
(* the one stack page vspaceinitstack maps is [Top - StackBytes, Top).    *)
(* The ELF load and the address-space swap are PageFault's Exec.           *)
(***************************************************************************)
EXTENDS Integers, Sequences, SequencesExt

CONSTANTS
  Chars,      \* the non-NUL byte values of argument strings
  MaxArgs,    \* bound: at most this many arguments
  MaxLen,     \* bound: arguments of at most this many bytes
  Va0s,       \* what address 0 can hold: [mapped, str]
  Top,        \* SZ_2G, the stack's va_base
  StackBytes, \* PGSIZE: the stack page vspaceinitstack maps
  PtrSize     \* sizeof(char*)

Strings == BoundedSeq(Chars, MaxLen)
StackAddrs == Top - StackBytes .. Top - 1

\* A byte of the new stack page: never written, a string byte, or byte
\* `part` of a pointer whose value is v.
Junk == [k |-> "junk", v |-> 0, part |-> 0]
Cells == [k : {"junk"}, v : {0}, part : {0}]
         \cup [k : {"byte"}, v : {0} \cup Chars, part : {0}]
         \cup [k : {"ptr"}, v : StackAddrs, part : 0..PtrSize - 1]

VARIABLES
  args,   \* the strings of the user's argv, before its NULL entry
  va0,    \* user memory at address 0
  pc,     \* "count", "layout", "copy", "done", "failed" (returned -1), "panic"
  size,   \* exec's size
  i,      \* the copy loop's i
  rsp,    \* tf.rsp
  rsi,    \* tf.rsi, the address of argv_new
  rdi,    \* tf.rdi, argc
  stack   \* the bytes of the new stack page

vars == <<args, va0, pc, size, i, rsp, rsi, rdi, stack>>

\* fetchstr((uint64_t)argv[k], &str): a string of the argv, or, for the
\* NULL entry, whatever string address 0 holds, if it is mapped.
Fetch(k) == IF k < Len(args) THEN [ok |-> TRUE, s |-> args[k + 1]]
            ELSE [ok |-> va0.mapped, s |-> va0.str]

\* The first byte of a NUL-terminated string: what strncmp(., ., 1) compares.
FirstByte(s) == IF s = <<>> THEN 0 ELSE s[1]

\* vspacewritetova succeeds only inside the mapped stack page.
Fits(a, n) == Top - StackBytes <= a /\ a + n <= Top

\* The string s and its NUL written at a.
PutStr(m, a, s) ==
  [x \in StackAddrs |-> IF a <= x /\ x < a + Len(s)
                        THEN [k |-> "byte", v |-> s[x - a + 1], part |-> 0]
                        ELSE IF x = a + Len(s)
                        THEN [k |-> "byte", v |-> 0, part |-> 0]
                        ELSE m[x]]

\* The PtrSize bytes of the pointer p written at a.
PutPtr(m, a, p) ==
  [x \in StackAddrs |-> IF a <= x /\ x < a + PtrSize
                        THEN [k |-> "ptr", v |-> p, part |-> x - a]
                        ELSE m[x]]

Init ==
  /\ args \in BoundedSeq(Strings, MaxArgs)
  /\ va0 \in Va0s
  /\ pc = "count"
  /\ size = 0 /\ i = 0
  /\ rsp = 0 /\ rsi = 0 /\ rdi = 0
  /\ stack = [x \in StackAddrs |-> Junk]

-----------------------------------------------------------------------------
(* The argv loop (exec.c:21-31): fetch argv[size], count it, stop on a bad *)
(* pointer or when its first byte equals the byte at address 0.           *)

\* Mutant: the terminator test inverted.
CountStep_inverted ==
  LET f == Fetch(size) IN
  /\ pc = "count"
  /\ size' = size + 1
  /\ \/ ~f.ok /\ pc' = "failed"
     \/ f.ok /\ ~va0.mapped /\ pc' = "panic"
     \/ f.ok /\ va0.mapped /\ FirstByte(f.s) /= FirstByte(va0.str) /\ pc' = "layout"
     \/ f.ok /\ va0.mapped /\ FirstByte(f.s) = FirstByte(va0.str) /\ pc' = "count"
  /\ UNCHANGED <<args, va0, i, rsp, rsi, rdi, stack>>

CountStep ==
  LET f == Fetch(size) IN
  /\ pc = "count"
  /\ size' = size + 1
  /\ \/ ~f.ok /\ pc' = "failed"
     \* strncmp dereferences address 0 from the kernel: a kernel-mode
     \* fault on an unmapped page is trap()'s panic.
     \/ f.ok /\ ~va0.mapped /\ pc' = "panic"
     \/ f.ok /\ va0.mapped /\ FirstByte(f.s) = FirstByte(va0.str) /\ pc' = "layout"
     \/ f.ok /\ va0.mapped /\ FirstByte(f.s) /= FirstByte(va0.str) /\ pc' = "count"
  /\ UNCHANGED <<args, va0, i, rsp, rsi, rdi, stack>>

\* vspaceinit, vspaceinitstack or vspaceloadcode fails (exec.c:34-41).
LoadFail ==
  /\ pc = "layout"
  /\ pc' = "failed"
  /\ UNCHANGED <<args, va0, size, i, rsp, rsi, rdi, stack>>

\* Mutant: argv_new sized for the strings only, not the terminator's entry.
Layout_short ==
  /\ pc = "layout"
  /\ rsp' = Top - PtrSize * (size - 1)
  /\ rsi' = Top - PtrSize * size
  /\ rdi' = size - 1
  /\ i' = 0
  /\ pc' = "copy"
  /\ UNCHANGED <<args, va0, size, stack>>

\* exec.c:43-49: rsp = SZ_2G, argc = size - 1, and size pointers below
\* the top for argv_new.
Layout ==
  /\ pc = "layout"
  /\ rsp' = Top - PtrSize * size
  /\ rsi' = Top - PtrSize * size
  /\ rdi' = size - 1
  /\ i' = 0
  /\ pc' = "copy"
  /\ UNCHANGED <<args, va0, size, stack>>

\* Mutant: the string's NUL not counted in the space taken below rsp.
CopyStep_nonul ==
  LET s == Fetch(i).s
      sp == rsp - Len(s)
      slot == rsi + i * PtrSize
  IN
  /\ pc = "copy" /\ i < size
  /\ rsp' = sp
  /\ \/ /\ Fits(sp, Len(s) + 1)
        /\ stack' = PutPtr(PutStr(stack, sp, s), slot, sp)
        /\ i' = i + 1
        /\ UNCHANGED pc
     \/ /\ ~Fits(sp, Len(s) + 1)
        /\ pc' = "failed"
        /\ UNCHANGED <<i, stack>>
  /\ UNCHANGED <<args, va0, size, rsi, rdi>>

\* exec.c:51-64, one iteration: the string i goes len + 1 bytes below rsp,
\* then its address into argv_new[i].  The string's write fails when it
\* runs off the page; argv_new lies above every string, so once the
\* string fits the pointer's write (exec.c:62) cannot fail.
CopyStep ==
  LET s == Fetch(i).s
      sp == rsp - (Len(s) + 1)
      slot == rsi + i * PtrSize
  IN
  /\ pc = "copy" /\ i < size
  /\ rsp' = sp
  /\ \/ /\ Fits(sp, Len(s) + 1)
        /\ stack' = PutPtr(PutStr(stack, sp, s), slot, sp)
        /\ i' = i + 1
        /\ UNCHANGED pc
     \/ /\ ~Fits(sp, Len(s) + 1)
        /\ pc' = "failed"
        /\ UNCHANGED <<i, stack>>
  /\ UNCHANGED <<args, va0, size, rsi, rdi>>

\* exec.c:65-84: room for the return address, then the new vspace is
\* installed and the trap frame set.
Finish ==
  /\ pc = "copy" /\ i = size
  /\ rsp' = rsp - PtrSize
  /\ pc' = "done"
  /\ UNCHANGED <<args, va0, size, i, rsi, rdi, stack>>

Next == CountStep \/ LoadFail \/ Layout \/ CopyStep \/ Finish

Spec == Init /\ [][Next]_vars

-----------------------------------------------------------------------------

TypeOK ==
  /\ args \in BoundedSeq(Strings, MaxArgs) /\ va0 \in Va0s
  /\ pc \in {"count", "layout", "copy", "done", "failed", "panic"}
  /\ size \in 0..MaxArgs + 1 /\ i \in 0..size
  /\ stack \in [StackAddrs -> Cells]

\* The pointer stored at a, or -1 if the PtrSize bytes there are not the
\* bytes of one pointer.
PtrAt(a) ==
  IF /\ Fits(a, PtrSize)
     /\ \A j \in 0..PtrSize - 1 : /\ stack[a + j].k = "ptr"
                                  /\ stack[a + j].part = j
                                  /\ stack[a + j].v = stack[a].v
  THEN stack[a].v ELSE -1

\* The NUL-terminated string user code reads at a; -1 stands for a byte
\* that is not a string byte.
RECURSIVE CStr(_)
CStr(a) ==
  IF a < Top - StackBytes \/ a >= Top \/ stack[a].k /= "byte" THEN <<-1>>
  ELSE IF stack[a].v = 0 THEN <<>>
  ELSE <<stack[a].v>> \o CStr(a + 1)

\* When exec returns 0, each of the rdi + 1 entries of argv_new points
\* above the return-address slot at rsp to an intact NUL-terminated copy
\* of the string the argv loop fetched for it: the strings, the pointer
\* array and the slot do not overlap however long the strings are.
ArgvCopied ==
  pc = "done" =>
    \A j \in 0..rdi : LET p == PtrAt(rsi + j * PtrSize) IN
                       /\ p >= rsp + PtrSize
                       /\ CStr(p) = Fetch(j).s

\* spec.md 8 (scenario 6): after exec, argc is the number of argv strings
\* and argv[j] is the j-th of them.
ArgcMatches ==
  pc = "done" =>
    /\ rdi = Len(args)
    /\ \A j \in 1..Len(args) : CStr(PtrAt(rsi + (j - 1) * PtrSize)) = args[j]

\* exec never panics the kernel, whatever argv the user passes.
ExecNeverPanics == pc /= "panic"

=============================================================================
