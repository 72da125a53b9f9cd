# A TLA+ verification of the xv6 kernel

The repository is the RISC-V teaching kernel xv6 with a few user programs. This
directory models the parts of the system where concurrency, crashes, full tables
and counter wrap-around make correctness hard to test: most of the kernel, the shell
with the programs that use several processes, `malloc`, and the tool that makes the
file system. TLC checks the models on small instances; TLAPS proves the central
results about the log, the buffer cache, pipes, the console, processes and the scheduler
for every instance.

    tlc -config MCLog.cfg MCLog            # one run: MC module and its configuration
    tlapm LogProofs.tla                    # the proofs; also LogRefinement,
    tlapm BioProofs.tla                    # RingLemmas, PipeProofs, SchedProofs
    tlapm ProcProofs.tla                   # and ConsoleProofs

`PROJECT.json` lists the runs, the source lines each definition models, the
hazards in the code with the properties that would catch them, and the findings.

## The system

xv6 runs on several CPUs that share one kernel. Each process has a kernel thread
that is switched to and from a per-CPU scheduler; device and timer interrupts run
on top of whatever a CPU does. Blocking is `sleep`/`wakeup` on a channel under a
spinlock; long waits on data use sleep-locks. File system calls go down a stack:

    descriptors, open files      File         sysfile.c, file.c
    names, directories, inodes   FileSystem   sysfile.c, fs.c
    file contents, free blocks   Content      file.c, fs.c
    transactions                 Log          log.c             implements AtomicDisk
    cached blocks                Bio          bio.c, sleeplock.c
    disk requests                Virtio       virtio_disk.c

Beside it are the processes (`Proc`: fork, exit, wait, kill), the CPUs they run on
(`Sched`: scheduler, interrupts, locks, timer), memory (`Vm`), pipes (`Pipe`,
implements `Fifo`) and the console. `Console` (input, implements `Tty`) extends
`Uart` (output, implements `Fifo`): the two share `cons.lock`, the interrupt
handler and, for the echo, the transmit register, and are checked together.

At the border to user code are `Trampoline` (the registers of a hart, from reset to
the scheduler and through every trap) and `Exec` (the contents of user memory: what a
program finds when it starts). Above it, `Parser` and `Userland` are the shell, init
and programs over what the kernel promises; `Umalloc` is the heap of a program; `Mkfs`
makes the image that `FileSystem` and `Content` start from.

Each module states the interface to the layer below it as an assumption, and the
layer below shows that it holds: FileSystem takes a transaction as atomic (Log
shows that it is), Log takes a reference-counted cache with one buffer per block
(Bio), Bio takes a block transfer as one step (Virtio shows that a request returns
only after its own transfer), Pipe assumes that an end is not closed under a
process that uses it (File shows that it is closed by the last reference),
Trampoline takes the choice of a process and its locks from Sched, Exec the allocation
of pages from Vm. Userland takes all of it: a process table whose slots are used once
(Proc), shared descriptors (File), pipes as bounded queues (Pipe), files as sequences
of items with shared offsets (Content), and commands as `parsecmd` returns them (Parser).

## Modules

A step is a critical section: what the code does between `acquire` and `release`
is one step if nothing it leaves in between can be seen, and is split where the
code sleeps, drops a lock, or where an actor that takes no lock (a device, `kill`,
`uartputc_sync`) may run. State variables and operators keep the names of the
code. Every `panic` that a state could lead to sets a flag and ends the behaviour.

| module | state | actions |
|---|---|---|
| `AtomicDisk` | durable contents, current contents, open operations | begin, write, end; the durable contents jump to the current ones when nothing is open; crash |
| `Log` | disk, on-disk log and header, cache with reference counts, `log.lh`, `outstanding`, `committing`, place of each process, boot phase | `begin_op`, `bread`, `log_write` (check and append), `brelse`, `end_op`, each block of `write_log` and `install_trans`, `write_head`, eviction, crash, each step of `recover_from_log` |
| `Bio` | `struct buf` fields, LRU order, sleep-lock holders, disk | `bget` (hit, recycle, panic), `acquiresleep`, read, change, `bwrite`, `bpin`/`bunpin`, `releasesleep`, the second half of `brelse` |
| `Virtio` | descriptors, free map, available and used rings, `info`, `vdisk_lock`; the device's own index, requests in flight, interrupt | each section of `virtio_disk_rw`, the loop and the acknowledgement of `virtio_disk_intr`; device: fetch, complete (in any order) |
| `Proc` | process table, `p->lock`s, the local variables of table scans; `init`'s shell | each acquire of `fork`, `exit`, `reparent`, `wait`, `kill`; scheduling, yield |
| `Sched` | `proc` states, `struct cpu`, interrupt-enable bits, `ticks`, place of schedulers, handlers, processes | `scheduler`, `swtch`, `sched`, `yield`, `sleep`, `wakeup`, `acquire`/`release` with `push_off`/`pop_off`, `usertrap`, `kerneltrap`, `clockintr`, `sys_sleep`, `kill` |
| `Pipe` | `struct pipe`, place of readers and writers | one per loop iteration, test, sleep and return of `pipewrite` and `piperead`; `pipeclose`, `kill` |
| `Uart` | transmit ring, `uart_tx_lock`, `cons.lock`, the device's registers and interrupt | `consolewrite`, `uartputc`, `uartstart` (look, then write), `uartputc_sync` for the echo, `uartintr`; device: transmit, receive |
| `Console` | that of `Uart`; `cons` with its three indices, readers | `consoleread` per character, `consoleintr` per typed character (lock, echo, edit; `C('P')` changes nothing), `kill`, and the steps of `Uart` |
| `FileSystem` | on-disk inodes and entries, inode cache with locks, the last committed tree, processes | `namex` element by element, `ilock`, `iput` in its three sections, `ialloc`, `create`, `sys_link`, `sys_unlink`, `sys_open`, `sys_mkdir`, `sys_mknod`, `sys_chdir`, crash |
| `Content` | bitmap, block numbers, indirect blocks, block contents, sizes, shared offsets | `balloc` (mark, then zero), `bmap`, `bfree`, `itrunc` block by block, `readi` and `writei` block by block, chunks of `filewrite`, faults |
| `File` | `ftable`, descriptors, pipe ends, inode references | `filealloc`, `filedup`, `fileclose` (drop, then release), `pipealloc`, `fdalloc`, `sys_open`, `sys_dup`, `sys_close`, `sys_pipe`, `fork`, `exit` |
| `Vm` | page uses, page tables, process sizes | each page allocated or freed by `uvmalloc`, `uvmcopy`, `uvmunmap`, `freewalk`, in `fork`, `growproc`, `exec`, `freeproc`, with each allocation failing |
| `Trampoline` | registers of each hart, trapframes, contexts of kernel threads, what `kernelvec` has pushed, `started` | `entry.S` and `start`, `main`, user instructions, system call, interrupt or fault in user mode (`uservec`, `usertrap`), interrupt in the kernel (`kernelvec`, `kerneltrap`), `timervec`, `swtch`, `exit` (after a fault, in a call, or killed), `usertrapret` and `userret` |
| `Exec` | the caller's memory, the new page table and its pages, the strings fetched so far, `sp`, `ustack` | one per string of `sys_exec`, per program header, for the two stack pages, per argument; `copyin`, `copyout`, `copyinstr`, `loadseg` are operators |
| `Umalloc` | headers, `freep`, the break | `malloc` (first fit, split), `morecore`, `free`, the program's own `sbrk` |
| `Parser` | none: `parsecmd` and the functions it calls as recursive operators over tokens | |
| `Userland` | process table, descriptors, pipes, files, console, the lines not typed yet; what a process has still to do, as a sequence of calls | one per system call: `close`, `dup`, `pipe`, `open`, `read`, `write`, `fork`, `wait`, `exec`, `exit` (in two: the wakeup of init, then the rest), `chdir`, and the loops of `sh`, `init`, `cat`, `primes`, `pingpong`, `xargs` |
| `Mkfs` | superblock, inodes, data blocks, `freeinode`, `freeblock`, bitmap | the root, each file, each block's worth that is copied, the last corrections |

Data are abstracted to what the properties tell apart. Block contents and bytes
are model values or small numbers. Names are two strings; paths are the short ones in
`MCFileSystem`. A device inode is one without a driver, which `open` refuses; one with a driver
is as a file is to `FileSystem`. Reference counts, pipe and console indices and ring indices are
kept modulo a small power or multiple in place of 2^32 or 2^16, so that they
wrap within a run. The devices are external: their actions are what the drivers
rely on.

Bounds on the number of calls, crashes, pids and ticks are constants named `Max...`
(`MAXOPBLOCKS` is the kernel's own); they only stop new work from starting.

## Runs

One run per component asks whether all that the component promises holds
together. Three of them (`log`, `bio` with the driver below it, and `file` for Userland) check liveness;
the others check the safety property that the progress of the
component rests on (nobody sleeps who could go on, nothing waits unannounced, no
cycle of locks), because the state spaces in which the interesting
interleavings happen are too large for a liveness check. Deadlock is checked where the
system never stops (`sched`, `file`); the other runs stop when the call
bound is reached, the pipe is closed, or the kernel has panicked.

Six runs check several modules that share no variable: `bio` also `Virtio`, `sched` also `Trampoline`, `vm`
also `Exec` and `Umalloc`, `proc` also `Parser`, `file` also `Userland`, `content` also `Mkfs`.
Their MC modules instantiate the modules side by side and choose in the initial
state, by the variable `part`, the one that moves. `log`, `console` and `fs` use `part` to give one
module several sets of bounds, each with its own interesting case: every behaviour
of `MCSpec` is one of the module's `Spec`.

| run | checks | bounds and why they suffice |
|---|---|---|
| `log` | `AtomicCommit` (refinement of `AtomicDisk`), `Durable`, `WriteAhead`, `LoggedStaysCached`, `ReservationSuffices`, `WaiterAdmitted` | two processes; reservations fill the log exactly, so that the second `begin_op` waits once a block is logged; the log area is `LOGSIZE` blocks with the header, as `mkfs` makes it, and operations write one block less than they reserve. "few": two blocks, two calls, two crashes: a crash in a commit, and a crash in the recovery from it. "many": three calls on five blocks of one content, as many as overflow the log if `begin_op` admits one call too many; no crash |
| `bio` | `CacheSound` (one buffer per block, exact counts, a panic only when every buffer is taken), `ReadsLatest`, `BreadReturns`; `CompletionsAreAwaited` (and a descriptor has one owner), `RequestsFinish` | two buffers for three blocks: every miss recycles, and with one block pinned `bget` panics. Virtio: three processes and the driver's eight descriptors: two chains fit, the third request finds two, gives them back and waits; both ring counters wrap, starting from `Served` requests; liveness for one of the processes, which are alike |
| `proc` | `TableSound` (unique pids, live parents), `NoLockCycle` (no circle of processes spins for each other's locks, unless one has locked a parent it no longer has), `NoMissedEvent` (nobody sleeps beside a zombie child or a kill), `KillsTheNamed`; `ParsesGrammar` | three slots, two CPUs, five pids: init, a parent and a child that exit, wait and are killed at once; slots are reused, allocations fail, and `kill` is called with 3, and with 0 as long as there are four pids. Parser: all lines of up to six out of seven tokens, three arguments |
| `sched` | `LocksCounted` (`noff` equals the locks held, traps are masked, `sched`'s assertions, a process runs on one CPU), `NoLostWakeup`; `RegistersKept` | two CPUs and two processes with interrupts at every enabled point; for Trampoline two harts that boot, two processes, a register that changes its value, so that each process runs on each hart; system calls, faults, interrupts, and one of the processes exits |
| `pipe` | `IsFifo` (refinement of `Fifo`), `NoLostWakeup` (and no use after free) | two readers, two writers, a ring of two bytes with counters that wrap after two rounds |
| `console` | `IsTty` (refinement of `Tty`), `IsFifo`, `NoLostInput`, `NothingForgotten` (no overrun, and a panic only on a full ring) | a writer that fills a transmit ring of two bytes, one reader, an input buffer of two characters whose indices wrap. "in": three typed keys of all kinds, one write of one byte once or twice; "out": one typed key, two writes of two different bytes |
| `fs` | `RefsCounted` (and one entry per inode), `WriteThrough`, `TreeOnDisk`, `NeverStuck` (no panic but the one after `..` of a removed directory, and locks are released without a cycle) | two processes. "tree": twelve different calls on `/`, `/a`, `/b`, `/a/b`, four of which always fail; four are made, or three and a crash. "removed": five of seven calls, from a disk on which two `mkdir`s have made `/a` and `/a/b`: directories are removed under a process that stands in them, leaves by `..`, and creates there |
| `content` | `BitmapExact`, `FitsReservation`, `ContentIsText`; `ImageSound` | five blocks, so that the disk fills; one direct and two indirect blocks, writes that cross both boundaries; three calls. Mkfs: up to three files whose ends lie within a block, at its end, in the indirect block and beyond it; inodes that fill their last block or do not |
| `file` | `RefsCounted` (files, inode references, usable descriptors, pipe ends); `OutputIsMeaning`, `CommandsEnd` | three files and two descriptors per process: both tables run full; no bound on calls. Userland: sixteen sessions, which use every branch of `runcmd` and each program, seven process slots or as few as make `fork` fail, an init that sleeps and may miss a wakeup, pipes of two items, primes up to 5 |
| `vm` | `OneUse` (and no panic), `SizeIsMapped`; `ProgramStarts`; `HeapSound` | twelve pages for three processes, four calls: memory runs out at every allocation. Exec: pages of 16 bytes, up to three arguments at five places and six places of the array, of which two may fill the stack page and start and a third is one more than `MAXARG` allows, eleven programs, each allocation fails or not. Umalloc: nine units of heap, three sizes, and memory taken by others in between |
| `log_replay` | `LoggedStaysCached`, which is violated | a transaction replayed at boot, then one more |
| `proc_exit` | `SpuriousIsHarmless`, which is violated | four slots and five pids: init, a process, its child and its grandchild, and one that comes into the freed slot; nobody is killed |

Every property is tested against a plausible bug: for each there is a mutated
definition in the same module (a dropped guard, a missing reset, an order
exchanged) under which its run fails. The mutated forms stand just before the
definition that they replace and are otherwise unused.

### Where code and statement disagree

`log_replay` checks what `log.c:205` says ("Record the block number and pin in the
cache by increasing refcnt"): `install_trans` unpins during recovery what nobody has
pinned; the count wraps to its maximum at `brelse`, is 0 again after the next pin, and the
only copy of a logged block is recycled. The constant `RecycleAfterReplay` tells
the two Log runs apart, and the theorems assume it false.

`proc_exit` checks what `proc.c:365` says of an `exit` whose parent has given it away
("the result will be a harmless spurious wakeup to a dead or wrong process"). It is not
harmless when the wrong process is a grandchild. A process `s` looks up its parent; the parent
ends, init frees its slot, and a child `c` of `s` forks `y` into it. `s` locks that slot,
as its parent's, and goes on to its own lock. That one `c` holds, which is in `exit` as well and waits
in `reparent` for the lock of its child `y`: two CPUs spin for ever, with interrupts off. It takes four slots,
so `NoLockCycle` without its exception holds in the run `proc`, with three; that
it cannot be proved for every number of slots led to the counterexample. With the exception
it is a theorem.

The models also contain the following behaviours of the code, each contrary to
a comment, an assertion or a test. No run is kept for them; the properties are
stated beside them, by a history variable or a bound, as the last column says.

| statement | behaviour | in the models |
|---|---|---|
| `LOGSIZE` is the "max data blocks in on-disk log" (`param.h:10`) | `mkfs` makes the area `LOGSIZE` blocks *with* the header; operations that use their whole reservation panic in `log_write` | `OpBlocks` is less than `MAXOPBLOCKS` in the run, and in the premise of `ReservationIsEnough` |
| wait for the handler "to say request has finished" (`virtio_disk.c:240`) | a completion between the handler's last look and its acknowledgement is acknowledged unseen | `unseen` in `RequestsFinish` |
| "Kill the process with the given pid" (`proc.c:614`) | `kill` does not look at the state of a slot: a pid left in a free slot by a failed `allocproc` is found there, and so is, by `kill(0)`, the 0 that `freeproc` leaves; the next process in the slot dies | `stale` in `KillsTheNamed`, which names the two calls |
| init's `wait` returns "if a parentless process exits" (`init.c:40`) | `exit` wakes init before it reparents; a child that is a zombie already, or that is about to wake its former parent, is not noticed | `late` in `NoMissedEvent`, for init only; `Late` in `Finished`, for `CommandsEnd` |
| readers are woken for bytes in the pipe | a killed `pipewrite` returns without `wakeup` (`pipe.c:88`) | `silent` in `NoLostWakeup` |
| "spins waiting for the uart's output register to be empty" (`uart.c:113`) | `printf` takes no lock of the console or the UART; two CPUs may both see it empty | `printf` is not modelled, and with it what `C('P')` prints |
| "blocks if the output buffer is full" (`uart.c:82`) | `consolewrite` holds `cons.lock`; `sched` panics | `panicked` in `NothingForgotten` |
| the last `iput` frees an unlinked inode (`fs.c:328`) | it is not freed if it is allocated again and unlinked between `releasesleep` and `ref--` | no property says that it is freed |
| `panic("ilock: no type")` (`fs.c:311`) | `..` of a removed directory holds no reference on its parent: who follows it when the parent has been removed and freed as well meets a free inode | `adrift` in `NeverStuck`; `fs` reaches the panic |
| nlink is the "Number of links to inode" (`fs.h:36`) | a file created in a removed directory keeps a link | `TreeOnDisk` is about names that exist |
| a write from a bad address returns -1 (`usertests.c:42`) | `writei` returns n after a failed copy; only a second chunk fails | `faulted` in `ContentIsText` |
| "Grow or shrink user memory by n bytes. Return 0 on success" (`proc.c:236`) | a shrink by more than the size wraps and does nothing | `growproc` wraps; `SizeIsMapped` holds of the size it sets |
| "the shell exited; restart it." (`init.c:44`) | with a full process table another process may take the slot before init's `fork`; init exits and the kernel panics | `InitExits` in `CommandsEnd` |

### Fairness

Fairness is put on what the hardware and the scheduler guarantee and on nothing
else. A CPU keeps executing, so the steps of a process inside a call are weakly
fair. Devices complete what they have accepted, and the handler of an asserted
interrupt runs. `Log` and `Bio` also assume that a call that has begun ends
(`end_op`, and strong fairness of `releasesleep`, since the holder of a buffer may
change it any number of times before): waiting for space or for a buffer rests on
it. Nothing makes a process start a call, and nothing makes the system crash.
`MCFile` has weak fairness of `Run`: while some process can make its next call, some
process does. That is less than the scheduler gives, and enough for a session to
end, since every process of a session makes finitely many calls.

## Proofs

The theorems hold for every finite set of processes (for pipes, any sets of readers and
writers), every number of CPUs and process slots, every set of blocks and contents, every size
of log, cache and pipe, and every number of calls, pids, ticks and crashes:

| theorem | statement |
|---|---|
| `TypeCorrect` | the type invariant |
| `HeaderNeverOverflows` | `log.lh.n` stays within `LOGSIZE` (`HeaderFits`) |
| `ReservationIsEnough` | `log_write` does not panic (`ReservationSuffices`) if operations write less than `MAXOPBLOCKS` blocks and `LOGSIZE + OpBlocks + 2 <= NLog + MAXOPBLOCKS` |
| `LoggedBlocksStayCached`, `Durability`, `WriteAheadRule` | `LoggedStaysCached`, `Durable`, `WriteAhead` |
| `LogIsAtomic` | `Spec => AtomicCommit`: the log implements `AtomicDisk` |
| `CacheIsSound`, `ReadsAreLatest` | `CacheSound` and `ReadsLatest` of `Bio` |
| `WakeupsKept` | `NoLostWakeup` of `Pipe` |
| `PipeIsFifo` | `Spec => IsFifo`: the pipe implements `Fifo` |
| `LocksAreCounted`, `WakeupsAreKept` | `LocksCounted` and `NoLostWakeup` of `Sched` |
| `InputIsNotLost`, `NothingIsForgotten` | `NoLostInput` and `NothingForgotten` of `Console` |
| `ConsoleIsTty`, `UartIsFifo` | `Spec => IsTty`, `Spec => IsFifo`: console input implements `Tty`, output implements `Fifo` |
| `TableIsSound`, `EventsAreSeen`, `KillsAreMeant` | `TableSound`, `NoMissedEvent` and `KillsTheNamed` of `Proc` |
| `LocksAreOrdered` | `NoLockCycle` of `Proc` |

The first seven are in `LogProofs` and `LogRefinement`, the next four in `BioProofs` and
`PipeProofs`, those about the console in `ConsoleProofs`, the last two with that on top of `RingLemmas`, the others in
`SchedProofs` and `ProcProofs`.

The assumptions are those that each module states for its constants. `LogAssumption`: sizes are
natural numbers, reference counts have room for two. `BioAssumption`: processes and
buffers are finite in number, and `refcnt` has room for a reference of each process and
of the log (in the code 64 and 1 in 32 bits). `PipeAssumption`: the counters wrap at a multiple of the size of
the pipe that is larger than it (in the code 2^32 and 512). `ConsoleAssumption` says the same of the input indices (2^32 and 128), `UartAssumption` that
the ring has two slots at least; and a process is in one call at a time. `SchedAssumption` and `ProcAssumption`: there is
a CPU, a slot and a pid. And, in `LogRefinement`, `~RecycleAfterReplay`: no buffer
is recycled in a boot whose recovery replayed a transaction. The run `log_replay`
shows that the theorems are false without it.

*The reservation.* `HeaderFits` is not inductive: an operation that is admitted
appends later, when others have appended too. `ReserveInv` counts what is
still to come: `Budget` has a pair for every block that an open operation may yet add,
and `Len(lh) + Cardinality(Budget)` stays below `LOGSIZE - (MAXOPBLOCKS - OpBlocks)`.
`begin_op` adds `OpBlocks` pairs where it has tested for `MAXOPBLOCKS`; an append
removes one; absorption only removes. It needs that `outstanding` equals the
number of open operations (`Counted`), that a commit excludes them
(`Exclusive`) and that what an operation wrote is in the log (`WithinOp`).

*Atomicity.* The durable state is mapped to what recovery would make of the disk: the
home blocks overlaid with the log blocks that the header names. `DataInv` says in
each phase which copies agree: the header is empty except between the
commit point and the end of installation; the cache differs from the disk only in
logged or held blocks; the log blocks copied so far equal the cache, the home blocks
installed so far equal the log; reference counts are exactly one for the log
plus one for the holder. With it each step is a stutter, except writing the
header (the commit), which moves the durable state to the current one at a time when no
operation is open, the write into the cache, and the crash, which
moves the current state to the durable one.

With the kernel's numbers (`MAXOPBLOCKS` 10, `LOGSIZE` and `nlog` 30) the premise of
`ReservationIsEnough` is that no operation writes more than 8 blocks. The largest is
a chunk of `filewrite`: three blocks of data make four when not aligned, with the bitmap, the indirect block and
the inode seven. `content` checks that count on a smaller chunk (`FitsReservation`).

*The cache.* `BioInv` adds to `CacheSound` what recycling must not break. A lock's holder
is the one process past `acquiresleep` on that buffer (`Locked`). A valid buffer has the
latest contents (`Current`), a pinned block is in a valid buffer (`Cached`), and a block
whose latest contents are not on disk is pinned or in the hands of who changed it (`OnDisk`).
A buffer that `bget` recycles has no reference, so its block is neither pinned nor held,
and is on disk; a buffer that `bread` must fill is not valid, so no other buffer has its
block and the disk has its latest contents. The counts change by one because the set of
holders does.

*The pipe.* A reader may sleep on a pipe that is no longer empty, while the writer that
filled it has not come to its `wakeup`. `SleepersRight` says so: who sleeps has its reason,
or someone is in its loop with the lock and will call `wakeup` before it lets go. With
`LockHeld` (the lock is held exactly between `acquire` and `release`) a free lock leaves
only the reason. `PipeIsFifo` maps `data`, `nread` and `nwrite` to the
sequence of bytes between the counters. `RingLemmas` has the arithmetic: counters
less than `PIPESIZE` apart have different places, so a byte written overwrites none that is
to be read, and a counter that wraps at a multiple of `PIPESIZE` goes on at the next place.
The test `nwrite == nread + PIPESIZE`, which may wrap, is exact because `nwrite` is never
further ahead (`Fits`).

*The console.* `ConsInv` says where `cons.lock` and `uart_tx_lock` are held (`LocksHeld`), so that
two who write the holding register exclude each other: who has seen it empty still finds it empty
(`RegisterFree`). `NothingForgotten` is inductive with these: who leaves `uartstart` with bytes in the ring
has seen the register full, and the byte in it brings the next interrupt. Of the input, `InputFits` says that
the distances from `r` to `w` and from `w` to `e` together fit the buffer, and that a full one has been committed;
a key changes one distance by one, and never steps back over `w`. `ConsoleIsTty` maps the two stretches to the finished lines and
the line being edited; erasing a whole line removes a suffix. `UartIsFifo` is the argument of the pipe with one slot
left empty in place of wider counters.

*The scheduler.* `LocksCounted` is about counts, and a step changes them without saying which
locks they stand for. `SchedInv` says it: for each CPU and the process on it (`OnCpu`), or the scheduler
(`InIdle`), the place determines which of `p->lock` and `tickslock` the CPU holds and what `noff` is.
`p->lock` is held only by the CPU whose scheduler waits in `swtch()` for that process, or has just returned
(`PairInv`), so no CPU ever holds two of them and the count is at most one. A process that is on no CPU is
where `sched()` will return, or has never run. For wakeups: who sleeps has its
reason, or a `wakeup()` holds `tickslock` and has not yet come to its slot. Most steps change one CPU
and the process on it; a lemma says that nothing else has to be looked at.

*Processes.* `ProcInv` has a part about each process (`One`: its place follows from its state and
says which locks it has) and a part about each pair (`Pair`). Of a parent and a child: the parent has not ended and its pid
is the smaller one. Of a scan: `reparent` leaves no child and `wait` no ended child in a slot that it has passed,
except what `late` marks. `TableSound` and `NoMissedEvent` are then the end of a scan. `KillsTheNamed` needs in addition that every free
slot has pid 0 and no kill has hit one, if no allocation fails and nobody calls `kill(0)` (`FreeSlots`). Fourteen
of the steps change only the process that takes them, and one lemma (`OwnStep`) covers what
these leave alone. `NoLockCycle` goes by age: a process that has a lock and spins for another one wants its own,
which only its children take, or a child's, which the child or the child's children have. So the
holder is younger (`HeldByYounger`), and in a set of processes that wait for each other there
would be no youngest. A process in `exit` that has locked the slot of a former parent is
what breaks this order.

TLC has checked the inductive invariants on the instances of the runs. Liveness and `ENABLED`
are out of the prover's reach and stay with TLC, as do `Parser`, `Userland` and `Mkfs`,
which are recursive, and so far the other modules. Induction over numbers is used in one place,
as the existence of a least one (`LeastOf`), which the library's theorems on
well-founded relations give.

## What the user programs are checked against

`ParsesGrammar` compares `parsecmd` with a grammar stated as sets of trees: a line is
accepted exactly if it has a tree, and the result is the only one. The parser's
leniences are in the grammar: redirections before a block's `(` are not allowed, a
`&` ends a pipeline but may be repeated.

`OutputIsMeaning` compares files and console at the end of a session with `Meaning`,
which computes from the parsed line what its commands should leave, without
processes or descriptors: a pipeline passes the left output on as the right input, a
list runs one after the other. `>` empties the file; `>>` (`sh.c:392`) only
leaves out `O_TRUNC`, and output overwrites the beginning of what is there: the kernel has no append mode. Commands in the
background, and those that `xargs` starts, may write in any order: a console of a
session that has them is compared up to order. When a fork failed nothing is claimed
of the output.
`CommandsEnd` says that every session ends, with no process running but init and a
shell that waits for input, and holds for sessions with failing forks too. Zombies may be left: `exit`
wakes init before it gives its children away, and a child that was a zombie already stays until
the next `exit` wakes init again.

`Umalloc` assumes that a size in bytes fits an `int` (`umalloc.c:54` passes `nu *
sizeof(Header)` to `sbrk`, which takes an `int`). `Mkfs` assumes that files and inodes fit on the image: `mkfs.c`
checks neither `FSSIZE` nor `NINODES`. The root's size is rounded up past its last
entry; the hole behind it reads as free entries, and `ImageSound` says so.

## Not modelled

* `plic.c`, `printf.c`, `string.c`: no state of their own. `ramdisk.c` is not linked.
* What `main.c` initialises: the results are initial states of the modules.
* The table of `syscall.c` and `argint`, `argaddr`: reads of registers.
* Copying user memory outside `exec`: a fault is a nondeterministic outcome in `Pipe`, `Content` and `File`.
* The kernel's page table. `virtio_disk_init` and `uartinit`: the devices start ready.
* Programs of one process that only call what is modelled (`ls`, `wc`, `grep`, `find`,
  `ln`, `rm`, `mkdir`, `kill`, `sleep`, `zombie`), the strings of `ulib.c` and `printf.c`, and the tests.
* Memory ordering: the locks' fences are taken to work.
* A cached block that a failed `copyin` has changed and that is not logged; ticks that wrap.
* Reading the console by programs other than the shell, and messages about errors, in `Userland`.

## Open

Composition of `Content` with the cache of `Bio` and `Log`, for unlogged changes of a
cached block; `Proc` with sleeps other than in `wait`; fair schedules of `Proc`. Proofs
of `RefsCounted` of `File`, `BitmapExact` of `Content`, `OneUse` of `Vm`,
`CompletionsAreAwaited` of `Virtio`.
