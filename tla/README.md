# Verification of the xv6 course kernel

This directory holds TLA+ models of the operating system in this repository: the
xv6 kernel (`xv6-public/`), the changes of the four assignments (`add shell
program/`, `add system call/`, `update scheduler/`) and the page replacement
simulator (`page replacement/`). The models are checked with TLC on small
instances; the safety properties of the process table, the file system log, pipes,
the file table and the console with its locks are proved with TLAPS for every
instance.

## The system and what makes it hard

| Part | State | Operations | Hard behaviour | Module |
|---|---|---|---|---|
| Process table, scheduler | `ptable`, `c->proc`, `min_priority` | fork, exit, wait, sleep, wakeup, kill, yield, weightset, scheduler | CPUs interleave; wakeups may be lost; `int` priorities wrap | `Proc` |
| Log | `log`, log area on disk | begin_op, log_write, end_op, commit, recovery | crash at any write, also during recovery | `Log`, `AtomicLog` |
| Buffer cache, sleep locks, disk | `bcache`, `idequeue` | bread, bwrite, brelse, iderw, ideintr | recycling against waiting, queued I/O | `Bio` |
| Pipes | ring, two counters | pipewrite, piperead, pipeclose | several readers and writers, kill, wrap-around | `Pipe`, `ByteQueue` |
| File table | `ftable`, `ofile` | open, dup, close, pipe, fork, exit | failing half-way, sharing, slot reuse | `FileTable` |
| Names | inode cache, directories | open, create, mkdir, mknod, link, unlink, chdir | lock order, removal under use | `Names` |
| File content | bitmap, `addrs`, blocks | readi, writei, bmap, itrunc | indirect blocks, several transactions per write | `FileContent` |
| Physical memory | free list, page tables, `sz` | fork, sbrk, exec, exit, wait | memory runs out half-way, unaligned sizes | `Memory` |
| Round-robin kernel, trace | `ptable`, `trace`, `ticks` | scheduler, sleep, trace, fork | two scanning schedulers, slot reuse | `RoundRobin` |
| Spin locks | `locked`, `ncli`, `intena`, interrupt flag | acquire, release, pushcli, popcli | interrupts on the CPU that holds a lock; threads that change CPU | `Spinlock` |
| Console | input ring, `cons.lock` | consoleintr, consoleread, consolewrite, cprintf | interrupt against reader, two locks nested, indices that wrap | `Console`, `LineEditor` |
| Shell | tree of commands, processes and their descriptors | parsecmd, runcmd, main | a forgotten descriptor hangs a pipeline; NULs written into the line being read | `Shell`, `ShellParser`, `ShellGrammar` |
| User heap | circular free list | malloc, free, morecore | long sequences of splits and joins | `Umalloc` |
| mkfs | disk image | ialloc, iappend, balloc | indirect blocks, bitmap | `Mkfs` |
| Page replacement | frames | seven algorithms | comparison with each algorithm's definition | `PageReplacement` |

How the parts meet: `Proc` provides `sleep()` and `wakeup()`, on which `Pipe`,
`Bio`, `Log` and `Names` build their waiting. They use it as one step that gives up
the lock and falls asleep, which is what `ptable.lock` makes of it and what `Proc`
models. `Names` and `FileContent` write through `Log`; a call lies inside one
transaction (`FileContent` cuts a long write into several), so crashes are modelled
in `Log` alone. `Log` uses the cache of `Bio`, of which it keeps the contents and
the dirty flag. `FileTable` counts the references that `Pipe` and `Names` see as
`pipeclose()` and `iput()`. `Memory` supplies the pages of `Proc`'s processes.
`Spinlock` and `Console` go one level down: there `acquire()`, `sleep()`, `sched()`
and the interrupts are separate steps, and `Exclusion` and `NoPanic` are the
reasons why the other modules may take a critical section as one step. `Shell`
uses fork, wait, pipe and dup as `Proc`, `Pipe` and `FileTable` provide them, and
`Mkfs` makes the image from which `Names` and `FileContent` start.

The repository has three versions of `proc.c`. `Proc` models `update scheduler/`,
`RoundRobin` models `add system call/`. The copy in `xv6-public/` is a third
variant; `Memory` and `FileTable` take fork, exit and wait from it, as the lines in
question are the same in all three, and `Console` its `sleep()`, `sched()` and
`kill()`. Its own scheduler is not modelled (see Observations).

## The modules

A step is a critical section of the spin lock that protects the state, together
with what its holder does up to the next such point; blocking points (a sleep, a
lock of an inode, a disk transfer) always separate steps. A panic is a flag after
which nothing happens.

**Proc.** Variables are the fields of `struct proc`, `c->proc`, `nextpid`, the
global `weight`, `ptable.min_priority` and where each process is in its call.
`Dispatch` is one pass of `scheduler()` that finds a process, `LeaveCpu` the rest
of the loop body after `swtch()` returns, with the recomputation of
`min_priority`. `fork()` is `ForkAlloc`, `ForkCopy` or `ForkFail`, `ForkDone`;
`exit()` is `ExitStart` and `Exit`. Priorities are `int`s modulo `2 * INT_HALF`.

**Log, AtomicLog.** `Log` has the disk, the log area and its header, the cache, and
`struct log`. Every block written is a step (`WriteLog`, `WriteHead`,
`InstallTrans`, `ClearHead`), `Crash` is possible between any two, and recovery
uses the same steps, so it may crash too. `AtomicLog` is the promise: durable
contents change only by a whole group of complete calls.

**Pipe, ByteQueue.** `pipewrite()` and `piperead()` byte by byte, with the counters
modulo `UINT`, `kill()` at any time, and the closing of both ends. `ByteQueue` is a
bounded first-in first-out queue.

**Bio.** `bget()`, `bread()`, `bwrite()`, `brelse()`, the sleep locks, the queue of
`iderw()` and the interrupt handler. The contents of a copy are abstracted to
"is this what was last written to the block"; a disk error is always possible.

**FileTable.** `filealloc()`, `filedup()`, `fileclose()`, `fdalloc()`, and the
calls that use them, with all failure paths. What `fileclose()` does after it has
released `ftable.lock` is a step of its own.

**Names.** The inode cache, link counts and directories. A call walks its path one
`ilock()` at a time; `iput()` has its two parts.

**FileContent.** `balloc()` to `writei()` block by block under the inode's lock,
and the transactions of `filewrite()`. A cell holds a byte or a block number.

**Memory.** The free list, address spaces and `sz`. A step is one `kalloc()`. The
pages on the list are alike, so the lowest one is taken. The pages of the kernel
part of a directory are one page table; `exec()` loads one segment. A process that
has given back its first page has no code and can only exit.

**RoundRobin.** The original scheduler, which goes on at the next slot when a
process comes back, the clock on CPU 0, `sleep(n)`, and the trace mask. The elapsed
ticks of a sleeper are counted up to `n`; 2^32 ticks during one sleep are left out.

**Spinlock, Console, LineEditor.** A thread is a process or the `scheduler()` of a
CPU; `pc` is where it is, `hpc` where it is in an interrupt handler on top of that.
`acquire()` is two steps, so that CPUs spin; the timer and the keyboard come
wherever the flag of the CPU is on. `Sched` saves `intena` in the thread and
`Dispatch` gives it back on whatever CPU the thread continues. Every panic of
`acquire()`, `release()`, `popcli()` and `sched()` is in the model. Which process
`scheduler()` picks is left to `Proc`: any RUNNABLE one. The ticks, the inode lock
around `consoleread()` and the characters on the screen are left out. `LineEditor`
is the promise to readers: the line being typed can be edited, complete lines are
read once and in order.

**Shell, ShellParser, ShellGrammar.** `ShellParser` follows the recursive descent
function by function, on positions in the line, and `nulterminate()`, which
writes into it. `ShellGrammar` is the grammar as sets of trees, built without
positions. `Shell` runs the trees: a step is a system call that other processes
can notice. The programs are external: one reads its input to the end, which a
pipe has when nobody has its other end open, and exits. `cd` is left out.

**Umalloc.** A call of `malloc()` or `free()` is one step on the list of headers,
counted in headers. `alloced` remembers what the callers have.

**Mkfs.** One step per file of the command line; `iappend()` cell by cell.

**PageReplacement.** Options, reference string and the seven algorithms, one step
per reference, compared with definitions that do not use the program's tables.

Operators named `M_...` are plausible mistakes in the definition that follows
them. Each property was seen to fail when its definition is replaced by one.

## The runs

| Run | Instance | States | Checks |
|---|---|---|---|
| `proc` | 3 slots, 2 CPUs, 3 pids, weights 0 and 1 | 2.0 M | an idle machine finds work; CPU and table agree; a waiting parent has no zombie; nobody is orphaned; an EMBRYO has one fork |
| `proc_starve` | 3 slots | | violation, see Findings |
| `round_robin` | 3 slots, 2 CPUs | 64 k | every RUNNABLE process runs; sleep(n) returns; trace masks stay in the family |
| `log_crash` | 2 processes, 3 blocks, 2 values | 116 k | refinement of `AtomicLog`; sleepers have a reason and are woken; the log has room; dirty blocks are pinned |
| `objects` | files: 2 processes, 3 files, 2 descriptors; pipe: 2 writers, 1 reader, ring of 2 | 2.1 M | all references counted, pipe ends and inodes owned; refinement of `ByteQueue`; freed once; sleepers have a reason |
| `names` | 2 processes, 3 inodes | 1.5 M | reference and link counts; nothing in use is freed |
| `names_deadlock` | 2 processes, 2 inodes | | violation, see Findings |
| `storage` | content: 3 processes, 4 blocks; cache: 2 processes, 4 blocks, 3 buffers; mkfs: 3 files | 433 k | what is read was written, and the inode on disk is the one in memory; blocks have one owner; a chunk fits its transaction; a shared offset never goes back; the cache is coherent; sleepers have a reason; the image is consistent |
| `memory` | 3 processes, 13 pages | 465 k | pages have one owner; `sz` is what is mapped and nothing panics |
| `programs` | 4 pages, 2 or 3 frames, 6 references; heap of 10 units; shell with 5 processes, 2 lines; lines of 5 characters | 2.0 M | optimal is optimal, LRU and FIFO evict the oldest; the heap is tiled and its list sorted; descriptors are wired as the line says, no line hangs, the foreground is waited for; the parser agrees with the grammar |
| `console` | 2 CPUs, 2 processes, ring of 2, 5 keys | 1.1 M | no panic; mutual exclusion with interrupts off; no lost wakeup; refinement of `LineEditor` |
| `console_debug` | 2 CPUs, 2 processes | | violation, see Findings |

`MCObjects`, `MCStorage` and `MCPrograms` hold several small instances that do not
interact. The variable `subject`, chosen at the start, says which of them a
behaviour is of; the others do not move. Every state of each instance is
reached, as in a run of its own.

**Bounds.** Tables are small enough to fill up: slots, files, buffers, pages, disk
blocks and log space all run out. Counters are small enough to wrap: `INT_HALF` 4
for priorities, `UINT` 4 for a ring of 2 in `Pipe` and `Console`. In `Shell` the five
processes are fewer than two lines can need, so `fork()` fails at every place;
`NLINES` bounds the lines because background jobs outlive them. Five characters
are enough for a block with a redirection or two pipes, and `MAXARGS` 3 for a
command with too many arguments. `MAXUNITS` makes `sbrk()` fail after two
growths. In `Console` one process reads and one writes and kills: two readers differ
only in which of them takes a character. The key that completes a line is ^D, which
has one path more than a newline; the theorem covers both. Its VIEW drops values that are not read
again (`intena` while `ncli` is 0, ring cells not in use). `MaxPid` in `Proc` bounds the number of
forks. `OpBlocks` 1 under `MAXOPBLOCKS` 2 leaves the block that the log header
takes (see Observations). The wakeup of init for a zombie it inherits
matters only if the dead parent is not init's own child, which takes 4 slots; the
theorem covers it.

**Deadlock** is checked in `round_robin`, `log_crash`, `objects` and `console`. The
other runs may really stop: bounded forks, a known lock cycle in `Names`, a full
disk, a finished image, an init without code, a finished simulation, the end of
the input.

**Fairness.** `round_robin`: a CPU that looks for work gets the lock, the timer
fires, and (strong) a process that is run again and again gets through the few
instructions of the sleep loop; a tick is far longer than those. `log_crash`: a
process in the kernel goes on, and a file-system call comes to its `end_op()`.
`proc_starve` assumes the same of schedulers, timer and `wait()`. Nothing is assumed
of user code. That a spin lock lets every CPU in eventually is an assumption.

## The proofs

`ProcProofs` (any number of slots and CPUs, any weights; assumption
`ProcAssumption`) proves the five invariants of `proc`, and also type correctness,
that no process in use has weight 0 and that pids are distinct. The argument goes in layers.
`TypeInv`: types, with nonzero weights, so that the quotient of `TIME_SLICE` stays an
integer. `ForkInv`: an EMBRYO and the fork that fills it determine each other;
without it two forks could release one slot. `SchedInv` adds `CpuAgrees` and
`IdleFindsWork`, which need each other: `min_priority` is recomputed when a process
leaves its CPU, so one must know which processes have one. `FamilyInv` and `WaitInv`
then follow parents through `exit()`: a sleeper in `wait()` has a child, and
every step that makes a child a zombie wakes its parent.

`LogProofs` proves for every number of processes and blocks that `Log` implements
`AtomicLog` (`CrashSafety`), that the log does not overflow, that unwritten blocks
stay dirty and that sleepers in `begin_op()` have a reason. It assumes
`LogHasRoom`: a call logs fewer than MAXOPBLOCKS blocks, at most LOGSIZE - 2, and
the log on disk has LOGSIZE blocks. The invariant is `Control` (which phase goes with which flags), `Headers`
(when the on-disk header is empty, and when it is the one in memory), `Contents`
(where the current contents of a block are in each phase) and `Space` (log entries
used and promised fit). The refinement needs all of them: writing the header is the
commit step because by then the log holds what the cache holds.

`PipeProofs` proves the three properties of `Pipe` for any readers, writers, kills and
byte counts: freed once, no lost wakeup, and that the ring implements `ByteQueue`.
`PipeAssumption` asks that PIPESIZE divides the range of the unsigned counters and
is smaller (512 and 2^32 in the code), that nobody has both ends, and that each end has
somebody. `Holding` says who is inside a call; `Used <= PIPESIZE` bounds the bytes;
`EndInv` ties `readopen` and `writeopen` to the processes that refer to an end, so that
exactly one `pipeclose()` is the last. `WriterInv` and `ReaderInv` say why somebody
sleeps. `SleepIsWarranted` speaks of a free lock; while it is held they allow one more
case, a holder that has moved bytes and is still to call `wakeup()`. The refinement rests on lemmas
about remainders: fewer than PIPESIZE positions apart are different slots, UINT apart
the same.

`FileRefs` and `FileTableProofs` prove for any number of processes, descriptors, files,
pipes and inodes (`FileAssumption`: finitely many processes, init among them) that
`ref` counts exactly the descriptors and calls that hold a file, that every open pipe
end has one owner and `ip->ref` counts its owners, and that no call panics. An open or
pipe call holds files that no descriptor names (`HandInv`), a fork fills a child
nobody else fills (`ForkInv`), and an unused slot has no object (`FreeInv`); without
them a failing path could undo what is not its own. `FileRefs` has what each
step does to a file, `FileTableProofs` what it does to the owners of pipe ends and
inodes, by counting: a step moves an owner from one set to another.

`ConsoleKernel` and `ConsoleProofs` prove for any number of CPUs and processes that
no lock operation panics, mutual exclusion with interrupts off, no lost wakeup, and
that `Console` implements `LineEditor`; the first three also with debug=1
(`DebugIsSafe`: what can go wrong there is the deadlock below, nothing else of the
three). `ConsoleAssumption` asks that INPUT_BUF divides the range of the indices.
`KernelInv` describes a CPU by the label of the thread on it (`CpuInv`: locks held,
`ncli`, flag, `intena`) and a thread that is on no CPU by what it needs when it returns
(`ParkInv`); `PlaceInv` keeps the two apart. `WaitInv` adds that nobody on the way to
`sleep()` has something to read. `InputInv` is about the ring alone: `r`, `w` and `e` in
order and at most INPUT_BUF apart, and no newline between `w` and `e`, without which ^U
would stop in the middle of the line.

`FileContentProofs` proves the four properties of `FileContent` for any number of
blocks, inodes, files and processes, any block size and any number of direct and
indirect blocks that fit in one indirect block (`ContentAssumption`; `MAXOPBLOCKS` is
at least 6, 10 in the code). `Owned` says that each used block has one place, an
address or an entry of an indirect block; `BmapMaps` and `RoundWrites` say what one
round of `writei()` does to places and bytes, and rest on it: an indirect block is never
a data block, so a written byte is never taken for a block number. `LockInv` gives a file one
writer. `BytesOK` describes a file half written: no holes up to the size, the bytes in
`Copied` are new, the others are what was written last. `DiskOK` is why `iupdate()` may
be skipped when the size did not grow: with no holes, a write inside of the file
allocates nothing. `LogOK` counts blocks logged by blocks touched, two for each and the
indirect block once. That is one too many for an unaligned write, which touches a block
more; but its first block is there already (no holes again), so its bit is not logged.
`WritesAppend` assumes `OpenOnce`, that no inode is open twice, as two open files of an
inode have their own offsets and do overwrite each other.

Only model-checked:

- all liveness (`RunnableRuns`, `SleeperReturns`, `SleeperWoken`): it needs fairness, which
  TLAPS does not handle;
- `Names`, `Bio`, `Mkfs`, `Memory`, `Umalloc`, `Shell` and `RoundRobin`, which
  have no proof module;
- `PageReplacement`, `ShellParser` and `ShellGrammar`: what their recursive definitions
  compute takes an induction over the data, which TLAPS cannot do.

## Findings

- `proc_starve`: a process that wakes takes `min_priority` and, in an earlier slot,
  is chosen again and again before a new process (`update scheduler/proc.c:504`).
- `names_deadlock`: `create()` puts the directory while it holds the new file, and
  `unlink()` locks in the other order (`sysfile.c:280`).
- `console_debug`: with debug=1, `scheduler()` prints while it holds `ptable.lock`
  (`update scheduler/proc.c:359`, also `xv6-public/proc.c:363`), and `consoleintr()`
  or `consoleread()` on the other CPU holds `cons.lock` and wants `ptable.lock`.

## Observations

Met while modelling; not runs of their own.

- `update scheduler/proc.c:351`: a second CPU may spin past a RUNNABLE process
  because `min_priority` belongs to another. Line 527: `kill()` matches the stale
  pid of an unused slot, and a process may be born killed.
- `xv6-public/proc.c:366`: the test for an empty table is `p==NULL`, but after the
  loop `p` is `&ptable.proc[NPROC]`: with nothing to run, the scheduler switches to
  what lies behind the table. The line that is commented out below has the right
  test, and so has `update scheduler/`.
- `console.c:246`: a kill between the test of `killed` and `sleep()` leaves the
  process asleep until a key completes a line.
- `sh.c:111`: when the second fork of a pipe fails, nobody waits for the left side.
  `x & y` is a syntax error; of several redirections the first one wins; `>>`
  does not append.
- `umalloc.c:76`: a request of nearly 2^32 bytes wraps to a small one.
- `mkfs.c:130`: files are not counted against NINODES. Line 161: a root that ends
  with its block gets a size one block larger than what it has.
- `log.c:218`: the header takes one of the LOGSIZE blocks, so three calls of
  MAXOPBLOCKS each do not fit.
- `pipe.c:86`: a killed writer returns without waking readers. Line 107: a kill
  between the test and the sleep is noticed at the next wakeup only.
- `ide.c:118`: a failed read is marked valid.
- `fs.c:337`: two last `iput()`s of an unlinked inode can leave it allocated.
  `fs.c:309`: `..` of a removed directory may reach a freed inode.
  `sysfile.c:249`: `create()` in a removed directory leaks an inode.
  `fs.c:558`: `link(x, ".")` waits for itself. NINODE is less than NFILE.
- `proc.c`, `growproc()`: shrinking to 0 frees everything and returns -1.
- `add system call/syscall.c:173`: `trace >> num` also holds for higher bits of the
  mask; README.md:10 speaks of the bit of the call.
- `page replacement/main.c`: `lfu` inherits a counter (414), the clock head moves on
  hits (362), `esc` searches by last use (279, 284), `wbit` is set on reads (278), the
  count of references from a file is one too many (101).

## Not modelled

- Boot, the start of the processors, assembly and device registers: they run once
  in a fixed order, or have no state the rest depends on.
- User programs other than the shell, and the library: clients of the system calls
  without shared state. `usertests.c` and `stressfs.c` were read for what they expect.
- Formatting, printing and the screen.
- The scheduler of `xv6-public/proc.c` (see Observations), and `memide.c`, which is
  not in the default build.
- In `Memory`: the contents of pages, permission bits and more than one segment.
- A composition of `Names` with `Log`: the calls of `Names` are inside a transaction,
  and the product of the two is beyond TLC at sizes where either is interesting.

PROJECT.json lists each part with the reason.
