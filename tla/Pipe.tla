------------------------------- MODULE Pipe -------------------------------
(***************************************************************************)
(* One pipe of src/kernel/file.c: a reader process holding the read end    *)
(* and a writer process holding the write end, each calling piperead /     *)
(* pipewrite repeatedly and finally closing its end (fileclose ->          *)
(* pipeclose), interleaved arbitrarily as on several CPUs.                 *)
(*                                                                         *)
(* The pipe spinlock is a variable; sleep(chan, &pipe->lock) and wakeup    *)
(* (proc.c) are atomic steps, as both run under ptable.lock.  A sleeping   *)
(* process is one whose chan is set; wakeup clears it (RUNNABLE); it then  *)
(* re-acquires the pipe lock and re-runs its loop test.  kill (proc.c:391) *)
(* wakes a sleeper and makes it exit, closing its end, once it is back at  *)
(* user level.                                                             *)
(*                                                                         *)
(* sys_pipe puts struct pipe at the start of a kalloc'd page and uses the  *)
(* whole page as the ring: buf = page, buf_size = PGSIZE - sizeof(struct   *)
(* pipe).  Ring position i is page byte i, so positions below HdrSize are  *)
(* the bytes of struct pipe itself.  head and tail are never set, only     *)
(* incremented by sizeof(struct pipe), on a page kalloc does not clear, so *)
(* they start at the same unknown value: the model starts them at any ring *)
(* position.  Bytes are numbered by their position in the writer's stream. *)
(***************************************************************************)
EXTENDS Integers, Sequences

CONSTANTS BufSize,   \* buf_size = PGSIZE - sizeof(struct pipe)
          HdrSize,   \* bytes of struct pipe aliased by the first ring positions
          MaxN,      \* bound: bytes asked for by one read or write call
          MaxBytes   \* bound: bytes the writer sends over the pipe's life

ASSUME BufSize \in Nat \ {0} /\ HdrSize \in 0..(BufSize - 1)
ASSUME MaxN \in Nat \ {0} /\ MaxBytes \in Nat \ {0}

Reader == "reader"
Writer == "writer"
Procs == {Reader, Writer}

\* Wait channels: &pipe->hasopenread, &pipe->hasopenwrite, and the address
\* 0 that pipeclose passes by handing wakeup the flag's value (false).
ChanRd == "&hasopenread"
ChanWr == "&hasopenwrite"
ChanFalse == "(void*)false"
NoChan == "none"
Junk == -1        \* a byte nobody wrote (kfree fills pages with 2s)
NoLock == "free"

PageSize == BufSize + HdrSize
Positions == 0..(PageSize - 1)

VARIABLES
  head, tail,      \* pipe->head, pipe->tail
  page,            \* the ring bytes: page position -> stream number or Junk
  hasopenread, hasopenwrite,
  lock,            \* pipe->lock holder
  pc,              \* each process's place in its call
  n,               \* the byte count of the current call
  chan,            \* wait channel while SLEEPING, NoChan otherwise
  killed,          \* p->killed
  sent,            \* bytes pipewrite has reported written
  got,             \* bytes piperead has handed to the reader, in order
  hdrHit,          \* a ring write landed on struct pipe's own bytes
  frees            \* kfree calls on the pipe page

vars == <<head, tail, page, hasopenread, hasopenwrite, lock, pc, n, chan,
          killed, sent, got, hdrHit, frees>>

\* sys_pipe (sysfile.c:227-245): a fresh page of junk, head = tail, both
\* ends open; pipeopen gives the reader the read end, the writer the write end.
Init ==
  /\ \E x \in 0..(BufSize - 1) : head = x /\ tail = x
  /\ page = [i \in Positions |-> Junk]
  /\ hasopenread = TRUE
  /\ hasopenwrite = TRUE
  /\ lock = NoLock
  /\ pc = [p \in Procs |-> "idle"]
  /\ n = [p \in Procs |-> 0]
  /\ chan = [p \in Procs |-> NoChan]
  /\ killed = [p \in Procs |-> FALSE]
  /\ sent = 0
  /\ got = <<>>
  /\ hdrHit = FALSE
  /\ frees = 0

Goto(p, l) == pc' = [pc EXCEPT ![p] = l]

\* sleep(c, &pipe->lock): the caller releases the pipe lock and sleeps on c
\* in one step under ptable.lock (proc.c:338-359).
Sleep(p, c, l) ==
  /\ lock' = NoLock
  /\ chan' = [chan EXCEPT ![p] = c]
  /\ Goto(p, l)

\* wakeup(c) (proc.c:382-386): every process sleeping on c becomes RUNNABLE.
Wakeup(c) == chan' = [q \in Procs |-> IF chan[q] = c THEN NoChan ELSE chan[q]]

-----------------------------------------------------------------------------
(* System calls start: the user decides what to call.                      *)

\* read(fd, buf, n) on the read end (sys_read -> fileread -> piperead).
CallRead ==
  /\ pc[Reader] = "idle" /\ ~killed[Reader] /\ hasopenread
  /\ \E k \in 1..MaxN : n' = [n EXCEPT ![Reader] = k]
  /\ Goto(Reader, "r_acquire")
  /\ UNCHANGED <<head, tail, page, hasopenread, hasopenwrite, lock, chan,
                 killed, sent, got, hdrHit, frees>>

\* write(fd, buf, n) on the write end (sys_write -> filewrite -> pipewrite).
CallWrite ==
  /\ pc[Writer] = "idle" /\ ~killed[Writer] /\ hasopenwrite
  /\ sent < MaxBytes
  /\ \E k \in 1..MaxN : n' = [n EXCEPT ![Writer] = k]
  /\ Goto(Writer, "w_acquire")
  /\ UNCHANGED <<head, tail, page, hasopenread, hasopenwrite, lock, chan,
                 killed, sent, got, hdrHit, frees>>

\* close(fd), or exit() of a killed process closing its files
\* (sysfile.c:115-137, proc.c:171-177): fileclose drops the only reference.
CallClose(p) ==
  /\ pc[p] = "idle"
  /\ IF p = Reader THEN hasopenread ELSE hasopenwrite
  /\ Goto(p, "c_acquire")
  /\ UNCHANGED <<head, tail, page, hasopenread, hasopenwrite, lock, n, chan,
                 killed, sent, got, hdrHit, frees>>

\* kill(pid) (proc.c:391-407): sets killed and wakes the process if asleep.
Kill(p) ==
  /\ ~killed[p]
  /\ killed' = [killed EXCEPT ![p] = TRUE]
  /\ chan' = [chan EXCEPT ![p] = NoChan]
  /\ UNCHANGED <<head, tail, page, hasopenread, hasopenwrite, lock, pc, n,
                 sent, got, hdrHit, frees>>

-----------------------------------------------------------------------------
(* piperead (file.c:189-228).                                              *)

\* acquire(&pipe->lock), on the first pass or after waking up.
ReadAcquire ==
  /\ pc[Reader] \in {"r_acquire", "r_sleep"}
  /\ chan[Reader] = NoChan
  /\ lock = NoLock
  /\ lock' = Reader
  /\ Goto(Reader, "r_loop")
  /\ UNCHANGED <<head, tail, page, hasopenread, hasopenwrite, n, chan, killed,
                 sent, got, hdrHit, frees>>

\* while (head == tail): sleep while the write end is open, else EOF.
ReadEmpty ==
  /\ pc[Reader] = "r_loop"
  /\ head = tail
  /\ IF hasopenwrite
     THEN Sleep(Reader, ChanWr, "r_sleep")
     ELSE /\ lock' = NoLock
          /\ Goto(Reader, "idle")
          /\ UNCHANGED chan
  /\ UNCHANGED <<head, tail, page, hasopenread, hasopenwrite, n, killed, sent,
                 got, hdrHit, frees>>

\* Mutant: the count is not clipped to the bytes in the pipe.
ReadCopy_noclip ==
  LET h == head % BufSize
      byte(i) == IF h + i < PageSize THEN page[h + i] ELSE Junk
  IN /\ pc[Reader] = "r_loop"
     /\ head /= tail
     /\ got' = got \o [i \in 1..n[Reader] |-> byte(i - 1)]
     /\ head' = head + n[Reader]
     /\ lock' = NoLock
     /\ Goto(Reader, "r_wakeup")
     /\ UNCHANGED <<tail, page, hasopenread, hasopenwrite, n, chan, killed,
                    sent, hdrHit, frees>>

\* Copy min(n, tail - head) bytes starting at buf + head % buf_size, in one
\* memmove that does not wrap, advance head, release the lock.
ReadCopy ==
  LET h == head % BufSize
      cnt == IF tail - head < n[Reader] THEN tail - head ELSE n[Reader]
      byte(i) == IF h + i < PageSize THEN page[h + i] ELSE Junk
  IN /\ pc[Reader] = "r_loop"
     /\ head /= tail
     /\ got' = got \o [i \in 1..cnt |-> byte(i - 1)]
     /\ head' = head + cnt
     /\ lock' = NoLock
     /\ Goto(Reader, "r_wakeup")
     /\ UNCHANGED <<tail, page, hasopenread, hasopenwrite, n, chan, killed,
                    sent, hdrHit, frees>>

\* Mutant: the reader wakes its own channel.
ReadWakeup_ownchan ==
  /\ pc[Reader] = "r_wakeup"
  /\ Wakeup(ChanWr)
  /\ Goto(Reader, "idle")
  /\ UNCHANGED <<head, tail, page, hasopenread, hasopenwrite, lock, n, killed,
                 sent, got, hdrHit, frees>>

\* wakeup(&pipe->hasopenread) after the lock is released.
ReadWakeup ==
  /\ pc[Reader] = "r_wakeup"
  /\ Wakeup(ChanRd)
  /\ Goto(Reader, "idle")
  /\ UNCHANGED <<head, tail, page, hasopenread, hasopenwrite, lock, n, killed,
                 sent, got, hdrHit, frees>>

-----------------------------------------------------------------------------
(* pipewrite (file.c:233-296).                                             *)

\* acquire(&pipe->lock); return -1 when no read end is open.
WriteAcquire ==
  /\ pc[Writer] = "w_acquire"
  /\ lock = NoLock
  /\ IF hasopenread
     THEN /\ lock' = Writer
          /\ Goto(Writer, "w_loop")
     ELSE /\ Goto(Writer, "idle")
          /\ UNCHANGED lock
  /\ UNCHANGED <<head, tail, page, hasopenread, hasopenwrite, n, chan, killed,
                 sent, got, hdrHit, frees>>

\* Back from sleep: re-acquire the lock and re-test only the loop condition.
WriteReacquire ==
  /\ pc[Writer] = "w_sleep"
  /\ chan[Writer] = NoChan
  /\ lock = NoLock
  /\ lock' = Writer
  /\ Goto(Writer, "w_loop")
  /\ UNCHANGED <<head, tail, page, hasopenread, hasopenwrite, n, chan, killed,
                 sent, got, hdrHit, frees>>

\* while (tail - head == buf_size) sleep(&pipe->hasopenread, ...).
WriteFull ==
  /\ pc[Writer] = "w_loop"
  /\ tail - head = BufSize
  /\ Sleep(Writer, ChanRd, "w_sleep")
  /\ UNCHANGED <<head, tail, page, hasopenread, hasopenwrite, n, killed, sent,
                 got, hdrHit, frees>>

\* The copy (file.c:252-289).  If the bytes from tail to the end of the
\* ring are fewer than n, that many are written, then from the ring's start
\* min(remaining, head % buf_size) bytes, copied again from the start of the
\* user buffer; otherwise n bytes at tail.  Nothing bounds either by the
\* free space.  Byte k of the user buffer is stream byte sent + k.
WriteCopy ==
  LET t == tail % BufSize
      wrap == BufSize - t < n[Writer]
      tailToEnd == BufSize - t
      remaining == n[Writer] - tailToEnd
      second == IF remaining < head % BufSize THEN remaining ELSE head % BufSize
      first == IF wrap THEN t..(BufSize - 1) ELSE t..(t + n[Writer] - 1)
      front == IF wrap THEN 0..(second - 1) ELSE {}
      num == IF wrap THEN tailToEnd + second ELSE n[Writer]
  IN /\ pc[Writer] = "w_loop"
     /\ tail - head /= BufSize
     /\ page' = [i \in Positions |->
                   IF i \in first THEN sent + (i - t)
                   ELSE IF i \in front THEN sent + i
                   ELSE page[i]]
     /\ hdrHit' = (hdrHit \/ \E i \in first \cup front : i < HdrSize)
     /\ tail' = tail + num
     /\ sent' = sent + num
     /\ lock' = NoLock
     /\ Goto(Writer, "w_wakeup")
     /\ UNCHANGED <<head, hasopenread, hasopenwrite, n, chan, killed, got, frees>>

\* Mutant: the writer wakes its own channel.
WriteWakeup_ownchan ==
  /\ pc[Writer] = "w_wakeup"
  /\ Wakeup(ChanRd)
  /\ Goto(Writer, "idle")
  /\ UNCHANGED <<head, tail, page, hasopenread, hasopenwrite, lock, n, killed,
                 sent, got, hdrHit, frees>>

\* wakeup(&pipe->hasopenwrite) after the lock is released.
WriteWakeup ==
  /\ pc[Writer] = "w_wakeup"
  /\ Wakeup(ChanWr)
  /\ Goto(Writer, "idle")
  /\ UNCHANGED <<head, tail, page, hasopenread, hasopenwrite, lock, n, killed,
                 sent, got, hdrHit, frees>>

-----------------------------------------------------------------------------
(* pipeclose (file.c:302-320).                                             *)

\* Under the lock: clear this end's flag and wakeup((void*)flag), which is
\* wakeup(0) since the flag was just set to false.
CloseEnd(p) ==
  /\ pc[p] = "c_acquire"
  /\ lock = NoLock
  /\ IF p = Reader
     THEN /\ hasopenread' = FALSE /\ UNCHANGED hasopenwrite
     ELSE /\ hasopenwrite' = FALSE /\ UNCHANGED hasopenread
  /\ Wakeup(ChanFalse)
  /\ Goto(p, "c_free")
  /\ UNCHANGED <<head, tail, page, lock, n, killed, sent, got, hdrHit, frees>>

\* After release: if both flags are clear, kfree(pipe->buf).
CloseFree(p) ==
  /\ pc[p] = "c_free"
  /\ frees' = IF ~hasopenread /\ ~hasopenwrite THEN frees + 1 ELSE frees
  /\ Goto(p, "closed")
  /\ UNCHANGED <<head, tail, page, hasopenread, hasopenwrite, lock, n, chan,
                 killed, sent, got, hdrHit>>

Next ==
  \/ CallRead \/ CallWrite
  \/ \E p \in Procs : CallClose(p) \/ Kill(p) \/ CloseEnd(p) \/ CloseFree(p)
  \/ ReadAcquire \/ ReadEmpty \/ ReadCopy \/ ReadWakeup
  \/ WriteAcquire \/ WriteReacquire \/ WriteFull \/ WriteCopy \/ WriteWakeup

\* Kernel steps of a process that has entered a call run whenever the
\* scheduler runs it (scheduler() in proc.c scans the table round-robin);
\* a spinning acquire eventually gets a lock that is released infinitely
\* often.  The user's choice to call read, write, close or kill is not fair.
Fairness ==
  /\ WF_vars(ReadEmpty) /\ WF_vars(ReadCopy) /\ WF_vars(ReadWakeup)
  /\ WF_vars(WriteFull) /\ WF_vars(WriteCopy) /\ WF_vars(WriteWakeup)
  /\ SF_vars(ReadAcquire) /\ SF_vars(WriteAcquire) /\ SF_vars(WriteReacquire)
  /\ \A p \in Procs : SF_vars(CloseEnd(p)) /\ WF_vars(CloseFree(p))

Spec == Init /\ [][Next]_vars /\ Fairness

-----------------------------------------------------------------------------

Sleeping(p) == chan[p] /= NoChan

TypeOK ==
  /\ head \in Nat /\ tail \in Nat /\ head <= tail
  /\ page \in [Positions -> Nat \cup {Junk}]
  /\ hasopenread \in BOOLEAN /\ hasopenwrite \in BOOLEAN
  /\ lock \in Procs \cup {NoLock}
  /\ chan \in [Procs -> {ChanRd, ChanWr, ChanFalse, NoChan}]
  /\ killed \in [Procs -> BOOLEAN]
  /\ sent \in 0..MaxBytes + MaxN
  /\ got \in Seq(Nat \cup {Junk})
  /\ frees \in 0..2

\* A reader asleep in piperead while bytes are in the pipe is eventually
\* woken: the writer's wakeup(&hasopenwrite) after it advances tail reaches
\* it, because sleep gives up the pipe lock only under ptable.lock.
ReaderWakes ==
  (pc[Reader] = "r_sleep" /\ Sleeping(Reader) /\ head /= tail)
    ~> ~Sleeping(Reader)

\* A writer asleep in pipewrite while the ring has room is eventually woken
\* by the reader's wakeup(&hasopenread).
WriterWakes ==
  (pc[Writer] = "w_sleep" /\ Sleeping(Writer) /\ tail - head < BufSize)
    ~> ~Sleeping(Writer)

\* Closing one end wakes a process asleep on the other (spec.md 4.11: pipe
\* close "wakes both sides"; scenario 4: a blocked reader sees EOF once the
\* writer closes).
CloseWakesSleeper ==
  \A p \in Procs :
    (Sleeping(p) /\ ~(hasopenread /\ hasopenwrite)) ~> ~Sleeping(p)

\* The pipe holds between 0 and buf_size unread bytes (spec.md 3, Pipe:
\* "tail - head in [0, bufsize]").
PipeCountBound == tail - head <= BufSize

\* The reader receives exactly the writer's bytes, in order, each once.
PipeFIFO == \A i \in 1..Len(got) : got[i] = i - 1

\* No byte written into the ring lands on struct pipe itself.
HeaderIntact == ~hdrHit

\* The pipe page is freed at most once.
PipeFreedOnce == frees <= 1
=============================================================================
