# TLA+ models of the xv6 kernel (xk variant) in `src/`

This directory holds TLA+ models of the concurrent and crash-sensitive parts of
the kernel in `src/kernel`. Each model comes with TLC configurations that check
it. `PROJECT.json` records four things:

- which module models which source lines (`map`);
- every run and what it checks (`runs`);
- one code mutant per checked property (`mutants`): a plausible bug that TLC
  must catch;
- what the runs found (`findings`) and the hazards of the code (`hazards`).

## The system

| Part | Source | State | Operations | Interacts with |
|---|---|---|---|---|
| Redo log and recovery | `fs.c` 103-148, 660-745 | on-disk `log_meta` (committed, nchanges, blocknos[19]); shadow blocks; home blocks; buffer cache | `begin_tx`, `log_write`, `commit_tx`, `iinit` replay; a reboot (`reboot`, armed by `sys_crashn`) between any two disk writes | `writei`, `addfile`, `balloc` |
| Inode layer | `fs.c` 150-658 | inode cache (`icache`, refs, sleep locks, lazily loaded dinodes); the inode file; the free bitmap; the root directory | `iget`, `irelease`, `locki`, `readi`, `writei` (one transaction per block), `balloc`, `dirlookup`, `namex`, `addfile` | the log; the file layer |
| File layer | `file.c` 1-144, `sysfile.c` | `files_global[NFILE]` (ref, offset, perm, ip/pp, sleep lock); per-process `files[NOFILE]` | `fileopen`, `filedup`, `fileclose`, `fileread`, `filewrite`, `filestat`, and `sys_open`, `sys_dup`, `sys_close`, `sys_read`, `sys_write`, `sys_fstat` | inodes; pipes; `fork` (`ftablecopy`); `exit` |
| Pipes | `file.c` 146-320, `sysfile.c` 219-265 | one page holding `struct pipe` and the ring; head, tail, two open flags, a spinlock | `sys_pipe`/`pipeopen`, `piperead`, `pipewrite`, `pipeclose` | sleep/wakeup; kill; `kfree` |
| Processes | `proc.c`, `sysproc.c`, `trap.c` 36-43, 165-179 | `ptable` (state, pid, parent, killed, chan) | `allocproc`, `fork`, `exit`, `wait`/`findzombiechild`/`freeproc`, `scheduler`, `sleep`, `wakeup`, `kill`, `sys_sleep` | every blocking call |
| Physical memory, CoW, swap | `kalloc.c`, `trap.c` 79-147, `proc.c` 447-484 | core map (available, ref, user, va); swap map (used, ref, va); `cow_ppn` | `kalloc`, `kfree`, `evictpage`, `ppage_copy`, `swappage_copy`, `swapfree`, the page-fault handler's swap-in, stack-growth and CoW paths | `vspace.c`, which is not in `src/` |
| Page faults and `sbrk` | `trap.c` 76-169, `sysproc.c` 47-72 | per-page present/swapped, writable, `is_cow`; heap and stack region sizes; `killed` | the page-fault rules (swap-in, stack growth, CoW copy, panic, kill); `sys_sbrk` | eviction; fork; exec; system calls touching user buffers |
| exec | `exec.c` | the new vspace's stack page; the trap frame's `rsp`, `rdi`, `rsi` | counts and checks argv, copies it onto a new stack, installs the new vspace through `vspacecopy_cow` | vspace; user memory at address 0 |

Several behaviours make the system hard to get right:

- Crashes can hit between the disk writes of the log.
- Several CPUs can interleave on one pipe, one open file or the process table.
- Sleep and wakeup handshake on channels.
- `kill` wakes a sleeper.
- Two ends of a pipe can be closed concurrently.
- Eviction races page faults and copy-on-write.
- A system call touches user memory that eviction may have swapped out.

## Modules

### `AtomicDisk` (abstract)

This module states what the log promises (spec.md 4.8): block updates are
grouped, and each group becomes durable all at once at commit. A crash drops
the open group and the memory, and never part of the durable disk.

### `FileStore` (abstract)

This module states what the root directory and the inode layer promise the
file calls (spec.md 4.7, 4.9, 4.11). Each name in `/` is either absent or
names one regular file. An `O_CREATE` open of an absent name makes it name an
empty file. A name never moves to another file and never goes away, since
there is no unlink. A write changes one file's size and never shrinks it.

### `FsLog` and `MCFsLog` (redo log, crash and recovery)

- **Writer.** There is one writer, because `loglock` serialises all writers.
  `pc` follows it through its steps:
  - `StartOp`: a writei or addfile call begins;
  - `begin_tx` (fs.c:660-674);
  - `log_write_shadow`, then `log_write_meta` (fs.c:718-745): two disk writes;
  - `commit_flag`, then one `commit_install` per logged block, then
    `commit_reset` (fs.c:676-716);
  - `Crash`, which reboots;
  - `iinit_read_log`, `iinit_replay` and `iinit_clear` (fs.c:121-147).
- **Transactions.** The model uses the sequences of `log_write`s that `writei`
  and `addfile` really issue:
  - in `writei`, each block step writes the data block, the file's dinode
    inside the inode file, and the inode file's own dinode. When the write
    reaches an empty extent, `balloc` first writes the free bitmap
    (fs.c:415-421, 353; `AllocStep`);
  - a block step after the first, or one in a new extent, starts at byte 0
    of its block, so it always writes the block's header part;
  - `addfile` writes the bitmap, the dinode, the directory block, the root's
    dinode and the inode file's dinode. When the root's extent is full, it
    writes the bitmap again to grow it.
- **Block contents.** Each block is split into a header part and a tail part,
  at `sizeof(struct log_meta)` = 84 bytes. The split exists because
  `commit_tx` copies only that many bytes of a shadow block into the cached
  home block (fs.c:700). A part holds the number of the operation that last
  wrote it.
- **Refinement.** `RecoveredDisk` is what `iinit` would make of the disk
  now. `FsLog` is checked to implement `AtomicDisk` in two ways:
  - `TxAtomicity`: a group is one transaction;
  - `WriteiAtomicity`: a group is one whole `writei`/`addfile` call.

### `Pipe` (one pipe, a reader and a writer process)

- **Processes.** The reader loops in `piperead` and the writer in `pipewrite`.
  Each eventually closes its end (`pipeclose`). `kill` may wake either one.
- **Locks and sleep.**
  - The pipe spinlock is the variable `lock`.
  - `sleep` and `wakeup` are atomic steps, because both run under
    `ptable.lock`. A sleeper is a process whose `chan` is set.
  - A woken process re-acquires the lock and re-tests its loop condition.
- **Memory layout.** The ring is the page that also holds `struct pipe`, as
  `sys_pipe` lays it out.
  - `BufSize` is `PGSIZE - sizeof(struct pipe)`.
  - The first `HdrSize` ring positions alias the struct.
  - `head` and `tail` start equal at an arbitrary ring position. They are
    computed from uninitialised kalloc memory, and only their value modulo
    `buf_size` matters.
- **Bytes.** The bytes carry their position in the writer's stream. `got` is
  what the reader has received.

### `Proc` (the process table)

- **Slots.** `NPROC` slots of `ptable`, with `state`, `pid`, `parent`, `chan`
  and `killed`. `pc` is where a process is inside `fork`, `exit` or `wait`, and
  `"user"` between system calls. `ppid` is a history variable: the pid of the
  parent when the child was made, or 1 after reparenting.
- **fork** is split where the code releases `ptable.lock`:
  - `ForkAlloc`: `allocproc` takes the first UNUSED slot;
  - `ForkKstack`: the kernel stack is allocated, or `kalloc` fails and the slot
    goes back to UNUSED;
  - `ForkCopy`: the address-space copy succeeds (RUNNABLE child), or fails
    and returns -1 with the slot left EMBRYO.
- **exit** is three steps:
  - `Exit` reparents the children and becomes ZOMBIE under `ptable.lock`;
  - `ExitWakeup` runs after the lock is released (proc.c:186-189);
  - `ExitSched` leaves the CPU for good.
- **wait** is two steps:
  - `WaitScan` is `findzombiechild` without the lock: reap a zombie, or decide
    to sleep;
  - `WaitSleep` sleeps on the process's own pid.
  - `haschild` is uninitialised when there are no children, so a childless
    `wait` either sleeps or returns.
- **kill** sets `killed` and wakes a sleeper, also when the process was
  already killed (a second kill wakes it again). A killed process exits when it
  next returns to user space (trap.c:36-43). `UserFault` is a trap the
  kernel does not handle from user space, which kills the process
  (trap.c:157-169).
- **sys_sleep** (sysproc.c:74-91):
  - `SleepCall` takes `ticks0` and makes the loop's first test;
  - `SleepWoken` makes the later tests after a wakeup. Each test either
    sleeps on `&ticks`, returns -1 for a killed process, or returns 0.
  - `Tick` is CPU 0's timer interrupt (trap.c:46-54): `ticks++` and
    `wakeup(&ticks)`.
  - The code only reads `ticks - ticks0`, so each sleeping process keeps
    that uint difference (`elapsed`), `TickBits` wide. `n` is converted to
    uint for the comparison, as in C.
  - `Tick` is not taken when a process has been inside one `sys_sleep` for
    a full wrap of the counter. With 32 bits that is 2^32 ticks.

### `FileTable` (the global file table and descriptors)

- **State.** Slots of `files_global` (`ip` to the one regular file, `pp`,
  `ref`, `off`, `perm`, and the sleep lock `lock`), the descriptor tables of
  two processes, the file's size and the inode's cache reference count `iref`.
  The parent lives throughout; `ForkCopy` (`ftablecopy`) makes the child,
  which exits by closing all its descriptors (`ExitCall`, `CloseCall` in exit
  mode, `ExitDone`).
- **Steps.** A call is split wherever the code runs without the slot lock:
  - open: `OpenCall` (sys_open's descriptor search, `namei`), `Scan` (the
    unlocked search for a free slot), `Fill` (the struct copy that also
    overwrites the slot's lock), `Install` (sys_open stores the descriptor);
  - pipe: `PipeFd`, `Scan` and `Fill` twice, once per end;
  - dup: `DupCall` installs the descriptor, `DupInc` is `filedup`;
  - close: `CloseCall`, `CloseLock` (acquire, `ref--`, release of the inode
    at zero), `CloseRel` (release, clear the descriptor);
  - read: `ReadCall` reads the offset unlocked and runs `readi`, `ReadUpd`
    adds the bytes under the lock;
  - write: `WriteCall` runs under the lock; when `writei` returns -1 the lock
    is kept, as `filewrite` does.
- **Data.** The bytes of the file are abstracted to its size; `readi` and
  `writei` are modelled by their offset checks and the bytes they move.
- **Workload.** `Openers` names the processes whose user code opens files.
  The pass run lets only the parent open; the open race has its own run.

### `CowMem` (core map, copy-on-write, kernel pages)

- **State.** Per frame: `available`, `ref`, whether it backs a user page
  (`va != 0`), and its contents. Per process: one user page (`present`,
  `ppn`, `is_cow`, `writable`), a kernel stack, possibly a pipe page, and
  `mine`, the value its page must hold. `cow_ppn` is kept for the evictor.
- **Steps.** Every core-map update runs under `kmem.lock`, and only the owner
  changes a page's mapping, so each operation is one step:
  - `Store`: a user store to a writable page;
  - `CowFault`: the write fault on a CoW page (trap.c:120-146) with
    `ppage_copy`;
  - `Fork`: the kernel stack's `kalloc`, then the CoW clone with
    `increment_cme_ref`;
  - `Reap`: `freeproc`'s `kfree`s;
  - `PipeAlloc` and `PipeFree`: `sys_pipe`'s `kalloc` and `pipeclose`'s
    `kfree`.
- **Out of frames.** `kalloc` calls `evictpage(1)` when no frame is free,
  and that always panics (`OutOfFrames`). From `ppage_copy` it re-acquires
  the held `kmem.lock`. Otherwise `assert(cme->available = 0)` assigns 0 and
  fails.
- **Spec-modelled.** `vspace.c` is not in `src/`. The clone (both mappings
  read-only and CoW) and the teardown follow spec.md 4.4.

### `Swap` (eviction and swap-in, extending `CowMem`)

- `evictpage(0)` runs as `ensure_n_free_pages` calls it: `EvictStart` under
  the lock, then `EvictWrite` (`swapwrite`) and `EvictMark` (`markswapped`)
  after the release.
- A not-present fault runs `swappage_copy`: `SwapFault` under the lock, then
  `SwapRead` (`swapread`) and `SwapUpd` (`updatecowreferences`).
- `ForkSwapped` and `ReapSwapped` handle a swapped page with
  `increment_sme_ref` and `swapfree`.
- `CowMem`'s operations interleave for processes outside these calls.
- No caller of `ensure_n_free_pages` is in `src/`. `EvictStart` stands for
  the one spec.md 4.3 describes.

### `ICache` (the inode cache, path lookup and file creation)

- State:
  - `icache.inode[]` as `eref`, `einum`, `evalid`, `etype` and `esize` per
    entry;
  - the holder of each sleeplock (`lk`): the entries, the inode file and
    `loglock`;
  - the disk: each inum's dinode type and size, the root directory's dirents
    (`dir`), and the next inum the inode file gives (`nextinum`);
  - each process's step (`pc`) and the pointers it holds: the root entry in
    `namex` or `addfile` (`ent`), `dirlookup`'s result (`nxt`), and the
    inode of its open file (`held`).
- Actions, one per lock section or sleeplock step:
  - `IGet` (fs.c:168-198) and `IRelease` (fs.c:212-219) are single
    `icache.lock` sections;
  - `Load` is `locki`'s dinode read under the inode file's lock
    (fs.c:231-248);
  - `fileopen` (file.c:79-87) is `Nx*` for `namex` of `/name`, then `Af*` for
    `addfile` (fs.c:613-658) when `O_CREATE` misses, then `namex` again;
  - a write is `WrLock` .. `WrUnlock`: `concurrent_writei` with one block of
    `writei` in its own transaction;
  - a read is `RdLock`, `RdLoad` and `RdUnlock`: `concurrent_readi`;
  - `Close` is `fileclose`'s `irelease`;
  - `IGetPanic` is `iget`'s "no inodes" panic, at any of its three call
    sites.
- Paths are absolute names in `/`, so `namex` holds one inode lock at a
  time. The file table is left out: the process keeps the inode until it
  closes it. A process holds one open file at a time.
- `RefsMatchHolders`: each entry's `ref` equals the pointers processes hold
  to it.
- `CacheMatchesDisk`: a valid, unlocked entry in use equals its dinode.
- `CreatedFileFound`: the assertion at file.c:86, that the `namei` after
  `addfile` finds the file.
- `AllCallsReturn`: every call returns unless the kernel panics.
- `FileStoreRefined`: the disk implements `FileStore`. The refinement
  mapping `NameFile` gives each name the dinode of the first dirent that
  names it below the root's size, which is the one `dirlookup` finds. Every
  step is then an atomic create, a growing write of one file, or leaves
  every name's file as it was. This holds only if `addfile` writes the
  `T_FILE` dinode before the dirent that names it, and if `writei` starts
  from the inode's current size.
- `UniqueNames` (no two dirents carry one name) is violated under
  `MCICacheDup.cfg`. Two `O_CREATE` opens of one absent name both miss in
  `namei` and both append a dirent (file.c:82). spec.md leaves
  create-existing undefined.
- `sys_fstat` (sysfile.c:139-172) changes no kernel state, so it is the
  operator `FstatResult`: the type and size it copies from `fp->ip`, read
  with neither `fp->lock` nor `locki`. `FstatSeesInode` says that an idle
  process's `fstat` reports its inode's dinode type and size. spec.md 4.11
  says `filestat` copies them out of the inode, and `stati` requires
  `ip->lock` (fs.c:271). TLC finds it violated in 8 states under
  `MCICacheStat.cfg`: `/a` is opened, `namex` returns the entry from
  `dirlookup`'s `iget` without ever locking it, and `fstat` reports type 0
  and size 0 for a file whose dinode says `T_FILE`. A recycled entry would
  report the size of the inode that used the entry before. `filestat`
  (file.c:136-144) locks the inode and would read the right values, but
  nothing calls it.

### `LockOrder` (the order of loglock and the inode locks)

- Each call is its program of sleeplock steps:
  - `concurrent_writei` (reached from `filewrite`) does `locki(ip)`, then
    writei's `begin_tx`, the dinode write through
    `concurrent_writei(&inodefile)`, `commit_tx`, and `unlocki(ip)`;
  - `addfile` (reached from `fileopen` with `O_CREATE`) does `begin_tx`,
    then locks the inode file and the root directory in turn, then
    `commit_tx`.
  - `locki` of an inode that is not yet valid locks the inode file while
    holding the inode, to read the dinode (`LoadStart`, `LoadEnd`).
- The work between lock steps touches no lock and is left out. A call that
  returns is made again.
- `AllCallsReturn` says every started call returns.
- Under `MCLockOrder.cfg`, two writers of a regular file and one `addfile`
  never block each other for good. The run reaches 324 states.
- Under `MCLockOrderRoot.cfg`, a write through a descriptor open on `/` (a
  directory opens for writing, since `sys_open` only refuses a bare
  `O_CREATE`) deadlocks with `addfile` in 6 states. The write holds the root
  lock and waits in `begin_tx`, while `addfile` holds `loglock` and waits in
  `locki(rootdev)` (fs.c:646).
- Neither config is among the runs in `PROJECT.json`. The table below lists
  them with the others.

### `PageFault` and `MCPageFault` (trap()'s page-fault rules for one process)

- State, per page of a small user space `[0, VaTop)`: `vpage` holds
  `map` (none, present or swapped), `writable` and `cow` of the page's
  `vpage_info`. `hsize` and `ssize` are the heap and stack regions' sizes.
  `acc` is the access being made, retried after each fault. `killed` and
  `panicked` end the process or the machine. Frames and swap slots are left
  to `CowMem` and `Swap`.
- Calls between accesses:
  - `Sbrk(n)` is `sys_sbrk`: `n <= 0` returns; otherwise `vregionaddmap`
    maps from the old limit and the heap grows.
  - `Fork` is the parent's side of `vspacecopy_cow`: present and swapped
    pages become read-only and CoW. spec.md 4.4 does not say which bits a
    swapped page gets. Both `PageFault` and `Swap` (`ForkSwapped`) mark it
    CoW, because swap-in's `updatecowreferences` maps every sharer to one
    frame.
  - `Exec` installs exec's address space: one stack page below `SZ_2G`
    that `vspacecopy_cow` (exec.c:71) leaves read-only and CoW, and an empty
    heap. `Init` is that state.
  - `Evict(v)` is `markswapped` of the process's page, by any CPU.
- An access (`Access`) is a user-mode load or store, or a system call's
  copy to or from a buffer the syscall layer has checked lies in a region.
  `Complete` is the access succeeding. Otherwise the fault's error code
  `Err` (present, write and user bits) selects, in trap.c's order:
  - `SwapIn` when `(err & 5) == 4` on a swapped page of a region;
  - `StackGrow` for a not-present fault strictly above `va_base - 10`
    pages. The size is `va_base - size - PGROUNDDOWN(addr)` in uint64
    (`% 2^AddrBits`). A size `vregionaddmap` cannot map panics.
  - `CowFault` when `(err & 3) == 3` on a CoW page;
  - `KernelPanic` for any other fault in kernel mode, and `Kill` for any
    other fault in user mode.
- Properties:
  - `RegionsMatchPages`: the mapped pages are exactly those of the heap and
    stack regions.
  - `KillOnlyInvalid`: a killed process's access was outside its regions,
    or a write to a page neither writable nor CoW, and not a write in the
    stack-growth window.
  - `UserAccessCompletes`: every such valid user access completes.
  - `KernelAccessReturns`: a system call's access to its checked buffer
    returns. It fails: a kernel-mode fault on a swapped page skips the
    swap-in rule, which tests the user bit (trap.c:82), and reaches
    `panic("trap")`. On a swapped stack page it instead reaches the stack
    rule with a wrapped size, and panics in `vregionaddmap`.
- `vregionaddmap`, `va2vregion` and the argument checks are in `vspace.c`
  and `syscall.c`, which are not in `src/`; they follow spec.md 3 and 4.12.

### `ExecStack` and `MCExecStack` (exec's argv and new user stack)

- `Init` picks the user's argv (`args`: up to `MaxArgs` strings of up to
  `MaxLen` bytes, then NULL) and what user address 0 holds (`va0`: not
  mapped, or the start of the program).
- `CountStep` is one turn of the argv loop (exec.c:21-31): `fetchstr` of
  `argv[size]` (`Fetch`), `size++`, return -1 on a bad pointer, and stop
  when `strncmp(str, 0, 1) == 0`. That test compares the string's first
  byte with the byte at address 0 (`FirstByte`). The NULL entry is address
  0 itself, so it always stops the loop, but so does any argument that
  starts with that byte. With address 0 unmapped, the kernel-mode read
  faults and trap() panics.
- `LoadFail` is a failing `vspaceinit`, `vspaceinitstack` or
  `vspaceloadcode`. `Layout` sets `rsp` and `rsi` to `SZ_2G - 8*size` and
  `rdi` to `size - 1`.
- `CopyStep` is one turn of the copy loop (exec.c:51-64): the string and
  its NUL go `len + 1` bytes below `rsp` (`PutStr`), and its address into
  `argv_new[i]` (`PutPtr`). `vspacewritetova` fails (`Fits`) when the
  string runs off the one stack page. The pointer write cannot fail once
  the string fits, since `argv_new` lies above it.
- `Finish` leaves 8 bytes for the return address (exec.c:65).
- The stack page is a function from byte addresses to cells. A cell holds
  junk, a string byte, or one byte of a pointer, so an overlap of two writes
  shows in what is read back (`PtrAt`, and `CStr`, which is `RECURSIVE`).
- Properties:
  - `ArgvCopied`: after a successful exec, each of the `argc + 1`
    entries points above the return slot to an intact copy of the string
    the loop fetched for it.
  - `ArgcMatches` (spec.md 8, scenario 6): `argc` is the number of argv
    strings. It fails under `MCExecStackArgc.cfg`: argv `[""]`, with a 0
    byte at address 0, gives argc 0.
  - `ExecNeverPanics` fails under `MCExecStackPanic.cfg` when address 0 is
    unmapped.
- spec.md 4.10 lists the stack as `[argv strings][argv pointer
  array][return-address slot]`. The code puts `argv_new` at the top and the
  strings below it. No property depends on the order.

## Runs

| Run | Config | Expect | Checks |
|---|---|---|---|
| `fslog_tx` | `MCFsLog.cfg` | pass | `TypeOK` (including: the header never holds more than `LogSize` entries), `TxAtomicity` |
| `pipe_wakeups` | `MCPipe.cfg` | pass | `ReaderWakes`, `WriterWakes`: no lost wakeup between a reader and a writer |
| `proc_lifecycle` | `MCProc.cfg` | pass | `TypeOK`, `ParentValid` (a parent pointer always names the live parent the child was made by, or init after reparenting), `ExitWakesSleepingParent`, `SleepReturns` (every process in `sys_sleep` returns to user space) |
| `proc_wait_lost_wakeup` | `MCProcWait.cfg` | violation | `WaitReaps`: `wait` checks for zombies without `ptable.lock` (proc.c:231), so the child's wakeup is lost |
| `ftable_refs` | `MCFileTable.cfg` | pass | `TypeOK`, `RefMatchesFds`: dup, close, `ftablecopy` and exit keep every slot's ref equal to the descriptors naming it |
| `ftable_write_lock_leak` | `MCFileTableLock.cfg` | violation | `NoLockHeldOnReturn`: a read racing a write pushes the offset past the end (file.c:63), then `filewrite` returns -1 holding the slot lock (file.c:44) |
| `cow_memory` | `MCCowMem.cfg` | pass | `TypeOK`, `CowRefs` (a frame's ref counts its mappings and kernel uses), `SharedReadOnly`, `Isolation` (each process reads only its own stores) |
| `icache` | `MCICache.cfg` | pass | `TypeOK`, `RefsMatchHolders`, `CacheMatchesDisk`, `CreatedFileFound`, `AllCallsReturn`, `FileStoreRefined`: concurrent opens, creates, writes, reads and closes keep the cache's refs and contents right, every call returns, and the names of `/` change only as `FileStore`'s atomic creates and growing writes |
| `swap_round_trip` | `MCSwap.cfg` | violation | `SwapRoundTrip`: `evictpage` frees the frame before `swapwrite` and `markswapped` (kalloc.c:197), so it is reallocated while still mapped |
| `page_fault` | `MCPageFault.cfg` | pass | `TypeOK`, `RegionsMatchPages`, `KillOnlyInvalid`, `UserAccessCompletes`: across sbrk, fork, exec, eviction and accesses, regions and mapped pages agree, a process is killed only for a bad access, and every valid user access completes |
| `exec_argv` | `MCExecStack.cfg` | pass | `TypeOK`, `ArgvCopied`: strings, pointer array and return slot never overlap, and each entry reads back the string it counted |
| `kernel_fault_swapped` | `MCPageFaultKernel.cfg` | violation | `KernelAccessReturns`: a system call that reads or writes a swapped-out heap page panics the kernel (trap.c:82), where spec.md 4.12 swaps it in |

Further configurations are kept beside the runs. Each checks one property
that TLC finds violated, for a code bug listed under the hazards in
`PROJECT.json`:

| Config | Property | Bug |
|---|---|---|
| `MCFsLogWritei.cfg` (module `MCFsLog`) | `WriteiAtomicity` | a crash between the per-block transactions of a 2-block `writei` leaves the first block durable (fs.c:412); spec.md 4.7 and 7 say a `writei` call is atomic |
| `MCPipeClose.cfg` | `CloseWakesSleeper` | `pipeclose` wakes channel 0 (file.c:308, 311), so a reader blocked on an empty pipe never sees EOF |
| `MCExecStackArgc.cfg` (module `MCExecStack`) | `ArgcMatches` | the argv loop stops at an argument whose first byte equals the byte at address 0 (exec.c:29) |
| `MCExecStackPanic.cfg` (module `MCExecStack`) | `ExecNeverPanics` | with address 0 unmapped, `strncmp(str, 0, 1)` faults in the kernel (exec.c:29) |
| `MCPipeFree.cfg` | `PipeFreedOnce` | two closers both `kfree` the page (file.c:317) |
| `MCProcFree.cfg` | `NoFreeWhileRunning` | `exit` drops `ptable.lock` before `sched` (proc.c:186), so the parent frees a slot still running |
| `MCICacheDup.cfg` | `UniqueNames` | two concurrent `O_CREATE` opens of one name both add a dirent (file.c:82) |
| `MCICacheStat.cfg` | `FstatSeesInode` | `fstat` right after `open` reads an inode no one has locked: type 0, size 0 (sysfile.c:167) |
| `MCPipeBound.cfg` | `PipeCountBound` | a non-wrapping write overwrites unread bytes (file.c:285) |
| `MCPipeFIFO.cfg` | `PipeFIFO` | the wrap branch re-copies the user buffer's start (file.c:271), and reads do not wrap (file.c:210) |
| `MCPipeHeader.cfg` | `HeaderIntact` | a wrapping write lands on `struct pipe` (sysfile.c:238) |
| `MCProcEmbryo.cfg` | `EmbryoOwned` | fork's failure path leaves the slot EMBRYO (proc.c:135) |
| `MCProcSleepNeg.cfg` (module `MCProcSleepNeg`) | `SleepBounded` | `sys_sleep(-1)` compares the uint tick difference with `(uint)-1` and sleeps for 2^32 - 1 ticks (sysproc.c:82) |
| `MCFileTableOpenRace.cfg` | `RefMatchesFds` | two processes opening at once claim the same free slot (file.c:93) |
| `MCFileTablePipeSlot.cfg` | `SlotReusable` | a closed pipe end's slot keeps `pp` set (file.c:122) |
| `MCFileTableInode.cfg` | `InodeRefsMatch` | `fileopen` on a full table keeps `namei`'s reference (file.c:111) |
| `MCFileTableOffset.cfg` | `OffsetWithinFile` | the unlocked read of the offset in `fileread` (file.c:63) |
| `MCLockOrderRoot.cfg` | `AllCallsReturn` | a write on `/` and `addfile` take the root lock and `loglock` in opposite orders (fs.c:646) |

`MCLockOrder.cfg`, also kept beside the runs, passes: without a writer on
`/` the lock order has no cycle.

### Bounds

- **`MCFsLog`**:
  - `LogSize` is 7. The longest transaction is `addfile` growing the root's
    extent, at 7 entries.
  - There is 1 crash, which may fall at any disk write.
  - Values wrap after 2 operations. That is enough to tell the last write from
    the one before it.
  - A data write covers the tail part, or the whole block. The header-only
    case adds nothing that the dinode writes do not already cover.
  - A `VIEW` drops the shadow slots past `nchanges`. The code never reads
    those slots before overwriting them.
- **`Pipe`**:
  - The ring holds 3 bytes, a call moves 1-2 bytes, and 5 bytes flow over the
    pipe's life. The ring therefore fills, wraps and drains, from every
    starting offset.
  - The pass run keeps `struct pipe` off the ring (`HdrSize = 0`). Once the
    header has been overwritten, the real code's lock and counters are
    garbage, so `pipe_header` checks the aliasing on its own.
  - `CHECK_DEADLOCK` is off for the pipe runs, for two reasons:
    - a pipe whose ends are both closed is finished;
    - a writer asleep on a full pipe whose reader has closed never runs again
      (`CloseWakesSleeper` reports this).

- **`Proc`**: 3 slots and pids up to 4. That is enough for init, a child and
  a grandchild, so reparenting, reaping and slot reuse by a later fork all
  happen. The timer keeps ticking, so no state is a deadlock.
  - `sys_sleep(2)` on a 2-bit counter: the first tick wakes the sleeper,
    which finds 1 tick elapsed and sleeps again, and the second ends the
    sleep. Longer sleeps only repeat this. A wider counter adds nothing as
    long as `n` is below its wrap.
- **`FileTable`**: 2 descriptors per process, 2 slots, a file of at most 1
  byte, and at most 3 inode references. A pipe then fills the table, a dup
  fills a descriptor table, and one byte is enough for a read to reach the
  end of the file and a racing one to pass it. A `VIEW` masks a process's
  call locals between calls and a free slot's offset and mode, which the next
  call or fill overwrites before reading. `CHECK_DEADLOCK` is off because a
  leaked slot lock stops both processes for good, which
  `ftable_write_lock_leak` reports.
- **`CowMem`**: 3 process slots and 6 frames. That covers a grandchild
  sharing a frame three ways, the CoW copies that follow, and a full memory
  that makes `kalloc` panic. Two store values tell a process's bytes from
  another's.
- **`Swap`**: 2 processes, 4 frames and 2 swap slots. There are at least as
  many slots as pages, as with `SWAPPAGES` = 2048.
- `CHECK_DEADLOCK` is off for both, since a panic stops the machine.
- **`ICache`**: 2 processes and 2 cache entries. A process holding its open
  file and another inside `namex` then fill the cache, so every entry is
  recycled and `iget` can panic. The names are `a` (on the disk at boot) and
  `b`. One inode can be created, so `b` is created once and then opened,
  written and read by both processes. Files hold at most 1 byte.
  - A create starts only while an inum up to `MaxInum` is left for every
    create in progress (`CreateBound`), so no create stops at the bound.
  - `MCICacheDup.cfg` allows two creates, enough for both processes to
    create `b` at once.
  - `CHECK_DEADLOCK` is off because the panic halts the kernel. A call stuck
    in any other way violates `AllCallsReturn`.
- **`PageFault`**: pages of 2 bytes in a 12-byte space (6 pages). The stack
  starts at page 5 and may grow to page 3 (`StackMax` 3 pages); the heap
  starts at page 1 and `sbrk` (of -2, 0 or 2 bytes) grows it to at most 2
  pages. Every access to every byte, read or write, user or kernel, is
  tried. Two bytes per page tell the window's strict bound (the first byte
  of page 3 is outside it, the second inside) and `PGROUNDDOWN` from the
  identity. A 5-bit `uint64_t` wraps the stack size as the real one does.
  `CHECK_DEADLOCK` is off: a killed process has exited and a panic halts
  the machine. The run reaches 98,700 states in under a minute.
- **`ExecStack`**: byte values 1 and 2, up to two arguments of up to two
  bytes, 2-byte pointers and a 12-byte stack page. The longest argv needs
  14 bytes, so a string runs off the page. Address 0 is unmapped, or holds
  a program starting with byte 1 or with 0, so that both a non-empty and an
  empty argument can match it. Every argv is an initial state: 1,038
  states. `CHECK_DEADLOCK` is off because exec returns (or panics).
- **`LockOrder`**: one or two writers and one `addfile`, each writing one
  block, with the root and the file valid or not at the start. Every block
  repeats the same lock steps, so more blocks add no new order.

### Fairness

- **Kernel steps.** The kernel steps of a process that is inside a call are
  weakly fair, because `scheduler()` scans the process table round-robin.
- **Timer.** `Tick` is weakly fair: the timer interrupt keeps coming.
- **Locks.** Spinlock acquisition is strongly fair: a spinning CPU eventually
  wins a lock that is released infinitely often.
- **User choices.** Calling read, write or close, and `kill`, are user
  choices and get no fairness. In `Proc`, a killed process's `Exit` is weakly
  fair: trap.c exits it on its next return to user space.
- **Sleeplocks.** In `LockOrder` and `ICache`, acquiring a sleeplock is
  strongly fair: `releasesleep` wakes every sleeper, and the round-robin
  scheduler runs each one in turn. `ICache` puts one strong fairness
  condition on each process's kernel steps. A process inside a call has one
  step enabled at a time, and only the steps that wait on a sleeplock can be
  disabled.
- **Page faults.** In `PageFault` the process's own step (the access's
  retry and trap()'s handling) is weakly fair: a raised fault stays raised
  until handled. The retry that completes the access, and the CoW copy a
  write needs after a swap-in, are strongly fair: eviction may take the
  page between the handler's return and the retry, but `evictpage` picks a
  random victim, so it does not take that page every time. Eviction,
  calls and accesses get no fairness.
- `FileTable`, `CowMem` and `Swap` check only safety properties and assume
  no fairness.

## Not modelled

- **Relative paths** (fs.c:570). `namex` takes `idup(namei("/"))` and
  releases only one of the two references, so each relative open leaks a
  root reference. The leaked reference only pins the root entry, which
  every `namex` holds anyway, until `ref` overflows. Modelling the `idup`
  step in `ICache` would leave `RefsMatchHolders` false in every run that
  lets it fire, and the leak is plain from the code.
- **`locki`'s "no type" panic** (fs.c:250). No dirent names an inum before
  `addfile` has written its dinode, so the panic cannot happen. The
  `icache` run checks this: under `FileStoreRefined`, a name that reaches
  a dinode of type 0 is not a `FileStore` state.

- **`addfile`'s -1 returns** (fs.c:637, 650), which would keep `loglock`
  held. They cannot happen: `writei` fails only on an offset past the size,
  and `addfile` writes at the size.
- **`exec`'s ELF load** (`vspaceloadcode`, in `vspace.c`). `LoadFail` stands
  for its failure. The frames of the new vspace that exec's error returns
  leak are not tracked. `vspaceinit` failing after it cleared the process's vspace
  (exec.c:68) needs a frame shortage that `PageFault` leaves out.
- **The page-fault handler's own panics on a missing region or
  `vpage_info`** (trap.c:127-131). They can fire. A user write to a present
  page outside every region, such as the kernel half of the address space,
  faults with err = 7. That passes the `(err & 3) == 3` test,
  `va2vregion` returns NULL, and the kernel panics where it should kill the
  process. `PageFault`'s addresses are the user half below `VaTop` only, so
  `IsCowFault` leaves these panics out. The hazard is listed in
  `PROJECT.json`.
- **Devices, trap dispatch and the buffer cache.** They are pure I/O, and
  `bio.c` is not in `src/`. In `FsLog`, the cache is one cached copy per
  block.
- **Integer overflow of the pipe counters.** It needs 2^31 bytes.
- **`pages_in_use` and `free_pages`.** `kalloc` updates them outside the lock,
  but nothing in `src/` reads them except `ensure_n_free_pages`, which has no
  caller.
