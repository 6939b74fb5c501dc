# A TLA+ model of the xv6 kernel and shell in this repository

The repository is an x86 multiprocessor teaching kernel (xv6) extended with exit
statuses, a `pstat` system call and a job-controlling shell. This directory
holds TLA+ modules translated from its C code, TLC configurations that check
them on small instances, and TLAPS proofs for every instance.

`PROJECT.json` is the index: which definition stands for which source lines,
which run checks which property, which change of the code each property would
catch, the hazards of the code, and the findings.

## 1. Inventory

| Part | Code | State | Operations | What makes it hard |
|---|---|---|---|---|
| process table | `proc.c`, `trap.c` | `state`, `pid`, `parent`, `chan`, `killed`, `status` per slot; `nextpid` | `allocproc`, `fork`, `exit`, `wait`, `kill`, `sleep`, `wakeup`, `scheduler` | exits, kills and hand-overs to init interleave with `wait`; `fork` fails half way without the lock |
| scheduler, locks, clock | `proc.c`, `spinlock.c`, `trap.c`, `trapasm.S`, `sysproc.c` | lock holders; per CPU `ncli`, `intena`, the IF flag; per process context | `acquire`, `release`, `sched`, `yield`, `forkret`, timer trap, `sys_sleep` | interrupts at every point where IF is on; a thread resumes on another CPU |
| pipes | `pipe.c`, `file.c` | ring with wrapping counters, open flags, the page itself | `pipealloc`, `pipewrite`, `piperead`, `pipeclose` | several readers and writers, closes and kills while others sleep |
| log | `log.c` | header in memory and on disk, reservations, pinned buffers | `begin_op`, `log_write`, `end_op`, `commit`, recovery | crashes between any two sector writes; space |
| buffer cache, disk driver | `bio.c`, `ide.c`, `memide.c` | buffers with flags, LRU list, request queue | `bread`, `bwrite`, `brelse`, `iderw`, `ideintr` | two kinds of sleepers on one channel; eviction; read errors |
| file table, descriptors | `file.c`, `sysfile.c` | reference counts, `ofile` | `filealloc`, `filedup`, `fileclose`, `sys_dup`, `sys_pipe` | counts across `fork`, `dup` and failures |
| inodes, directories, names | `fs.c`, `sysfile.c` | cache references, link counts, entries | `iget`, `ilock`, `iput`, `create`, `link`, `unlink`, `namex` | a name is looked up and locked in two steps |
| blocks and contents | `fs.c` | bitmap, direct and indirect blocks | `balloc`, `bfree`, `bmap`, `itrunc`, `readi`, `writei` | boundaries; blocks per operation |
| memory | `kalloc.c`, `vm.c`, `exec.c` | free list, page tables | `kalloc`, `kfree`, `setupkvm`, `allocuvm`, `copyuvm`, `exec` | failures half way; every page has one owner |
| console | `console.c`, `kbd.c`, `uart.c` | input ring with `r`, `w`, `e` | `consoleintr`, `consoleread`, `consolewrite` | editing against reading; a full ring |
| system call arguments | `syscall.c` | none | `fetchint`, `argptr`, `fetchstr` | bounds arithmetic |
| shell jobs | `sh.c` | list of jobs with lists of pids | command loop, `clearJobList`, `clearZombieProcesses`, `fg` | lists changed while walked; pids sent through a pipe |
| shell parser | `sh.c` | none | `gettoken`, `parsecmd` and its parts | recursion; one tree per line |
| strings, printing, keys, matching | `string.c`, `ulib.c`, `printf.c`, `console.c`, `kbd.c`, `grep.c` | the modifier keys | one routine each | overlap, missing terminators, the most negative number, prefixes |
| heap | `umalloc.c` | circular free list | `malloc`, `free`, `morecore` | merging at both ends |
| boot, controllers, mkfs, programs, tests | the rest | | | run once, or sequential clients |

Correctness, part by part: a parent always learns of its children's deaths and
no slot leaks; no wakeup is lost and no CPU waits for ever; a pipe is a bounded
queue; file system operations are atomic under crashes; caching is transparent;
references and links count what refers to them; every page and block has one
owner; the input ring keeps what was typed; the shell's job list is the jobs
that have live processes.

## 2. Modules

| Module | Models | Checked by |
|---|---|---|
| `Proc` | the life of a process, one critical section of `ptable.lock` per step | `proc`, proofs in `ProcProofs` |
| `Sched` | the machinery that makes those sections atomic: spin locks, `cli` nesting, `swtch`, timer traps on several CPUs | `sched`, proofs in `SchedProofs` |
| `Pipe` | one pipe and the processes that hold its ends | `pipe`, proofs in `PipeProofs` |
| `PipeFifo` | what a pipe promises: a bounded queue that can be closed | refined by `Pipe` |
| `Log` | the write-ahead log with crashes and recovery | `log`, proofs in `LogInvariant` and `LogProofs` |
| `AtomicDisk` | what the log promises: groups of operations become durable together | refined by `Log` |
| `Bcache` | buffer cache and disk queue | `bcache`, proofs in `BcacheProofs` |
| `Inode` | inodes, directories and path names under the system calls that use them | `fs` |
| `Files` | file table, descriptors, `sys_pipe`, block allocator, the blocks and bytes of files | `files`, `files_op` |
| `FileBytes` | what files promise: sequences of bytes, and handles with an offset that reads and writes move | refined by `Files` |
| `Memory` | physical pages, page tables, `fork`, `exec`, `sbrk`, `exit` and `wait` as far as memory goes | `memory` |
| `Console` | the input ring between the keyboard interrupt and readers | `console`, proofs in `ConsoleProofs` |
| `LineQueue` | what the console promises: an editable line behind a queue of finished ones, which go to the readers in order | refined by `Console` |
| `Shell` | the shell's main loop, its job list and the processes of a job | `shell` |
| `ShParse` | `gettoken` and the recursive-descent parser as functions | `algorithms`; used by `Shell` |
| `Library` | string routines, path elements, printing, argument checks, sleep arithmetic, keyboard modifiers, `grep`'s matcher as functions | `algorithms` |
| `Umalloc` | `malloc` and `free` as functions on the heap | `algorithms` |
| `Algorithms` | calls of `Library`, `ShParse` and `Umalloc` with every input within bounds, and what they should return | `algorithms` |
| `ProcProofs`, `SchedProofs`, `PipeProofs`, `LogInvariant`, `LogProofs`, `BcacheProofs`, `ConsoleProofs` | theorems about `Proc`, `Sched`, `Pipe`, `Log`, `Bcache` and `Console` | TLAPS |

How they fit together: `Sched` justifies the steps of all other modules (a
critical section of a spin lock is one step, `sleep` releases it and becomes
SLEEPING without a gap). `Proc`'s `sleep`, `wakeup` and `kill` are what the
sleeping processes of `Pipe`, `Log` and `Bcache` use; each of those modules
carries the part of them it needs. `Log` uses of the cache only that a block is
busy, pinned or evictable, which is what `Bcache` establishes. `Files` takes one
round of `filewrite`, one `fileread` or one `iput` as a step, which the inode
lock of `Inode` and the transactions of `Log` justify; whether an inode has a
name is all it knows of directories. `Memory` gives the failures of `kalloc` and
`copyuvm` that `Proc` leaves to chance, and `Shell` runs the commands that
`ShParse` returns.

### Proc

The variables are the fields of `struct proc`, `nextpid`, and for each process
`pc` (its place in the kernel between two critical sections) and `np` (the
child `fork` is building). `copyuvm` and `kalloc` succeed or fail
nondeterministically. A process resumed inside `wait` goes on with its scan in
the step in which the scheduler picks it, because the lock is held throughout.
All blocking calls other than `wait` are one loop: test, then `sleep` on some
channel. `exit_begin` stores the status early; in the code it is stored just
before the lock is taken, and nobody looks at it before the slot is a ZOMBIE.

### Sched

A step is the code between two points where another CPU or an interrupt can
tell the difference: `pushcli` and the `xchg` of `acquire` are two steps, a
release one. `cur[c]` is the context CPU `c` executes (a process or its own
scheduler), `irq[x]` the interrupt frame on top of context `x`. Two locks are
modelled, `tickslock` and `ptable.lock`, with every place that takes them in
`sys_sleep`, `sleep`, `yield`, the scheduler and the timer trap. `due[p]`
abstracts `ticks - ticks0 < n` for `n = 1`. `Sched` has no `kill`: the return of
a killed sleeper from `sys_sleep` is left out. It releases `tickslock` and goes
back to user mode as the normal return does.

### Pipe

Steps are the pieces between two of `acquire`, `sleep`, one byte, `release`;
`killed` is set by `kill` without the pipe's lock. `Word` is the range of the
unsigned counters, so that they wrap. `freed` says the page went back to
`kfree`.

### Log

A step is a critical section of `log.lock`, one sector written, or a change of
a busy buffer. `log_write` is split where the code is: its tests run before it
takes `log.lock`. A crash keeps `disk`, `logblk` and `hd` and nothing else, and
may hit recovery too. `evict` lets the cache drop any clean block at any time.

### Bcache

A step is a critical section of `bcache.lock` or `idelock`. `bsleep` and
`iosleep` are the two sleeping places on a buffer's address; `kill` wakes
either. `active` is the drive's side: it interrupts only for a request that
`idestart` gave it. Sectors in `BadSector` fail to read, which leaves the old
data in a buffer marked valid, as `ideintr` does.

### Inode

A step is one `ilock` with the code up to the next `ilock` or `iput`; `iput` is
a step of its own (`todo` holds the pending ones), and two when it frees, with
the number free on disk in between and the cache entry still there. `ref`,
`busy`, `valid` are the cache entry, `type`, `nlink`, `ent` the disk. A path is
a start and a number of elements; the name of each element is chosen when
`namex` comes to it, so every path of that length is covered. `StaleDotDot`
says whether a path may go through the `..` of a removed directory: the code
does not survive it (section 5), and what `fs` shows is that nothing else goes
wrong. Creating names in a removed directory, in a race or from inside it, is
part of `fs`.

### Files

`used` is the bitmap, `block` the cells of every block from the data area on
(a cell is a byte or, in an indirect block, a block number), `addrs` and `size`
the inodes, `ftab` and `ofile` the file table and the descriptors. `bmap` is a
function from one such store to the next, so that a write that allocates an
indirect block, its entry and a data block is computed as in the code; the bytes
a process writes are its name. `fileclose` is two steps, the table entry and the
`iput`. `sys_pipe` is one step per file taken, one for the descriptors and one
per file given back. `sys_open` is one step; without a file or without a
descriptor it gives back what it took (`OpenFailed`), while a name it created
stays. Where the code takes a block of the log (the bitmap that
mkfs writes leaves them free) the model stops: what the next commit does to such
a file is not followed. Initial states are what `iappend` of mkfs makes.

A handle of `FileBytes` is an entry of the file table: its inode and `f->off`.
`FileBytes` says at which offset a read or a round of a write works and where
the offset is afterwards, so a wrong advance of `f->off` does not refine it.

### Memory

An address space `mem[p]` has its directory, the tables of the kernel part and
of the user part, and one entry per user page, all of them page numbers; `other`
is the one that `fork` or `exec` is building, or that `exec` is about to free.
One step is one iteration of the loops of `allocuvm` and `copyuvm`, and memory
may run out at each. `exec` reads up to `PHNUM` program headers one after the
other, each of them any of `Segments`: within the first page, on the second one,
too large for the address space, with less memory than file, beginning inside a
page, and with an end that wraps. `namei` and `readi` may fail. `setupkvm` and `freevm` are one step each, since nobody
else can see the difference. `torn` marks address spaces that the code itself
leaves with a hole: `allocuvm` does not look at the result of `mappages`, and
`sbrk` of minus the whole size frees everything and returns an error. Skipping
of absent tables in `deallocuvm`, the unsigned wrap of a shrinking size and the
unchecked `copyout` of `exec` are as in the code, and so is what `loaduvm` does
with a segment that does not begin at a page, or whose end wraps so that
`allocuvm` maps nothing for it: `exec` tests neither, and `loaduvm` panics or
`readi` stores outside of the image. `CallsLeaveOrder` excepts both, and the
`torn` address spaces, by name.

### Console

`r`, `w`, `e` are counters modulo `Word`, a multiple of the ring's size as 2^32
is of 128. A reader holds the lock from its test to `sleep`, where `sleep` drops
it; a kill does not take that lock. `LineQueue` has the readers with what each
of them got: a character that leaves the finished lines is the next one of the
reader that took it, a control-D leaves them only for a read that returns
nothing, and only a reader that was killed takes characters with it. Control-P,
echo and the screen are left out.

### Shell

`jobs` is the list from `jobsHead`, newest first, with the pids the shell has
recorded; `proc` is the process table as far as the shell's descendants go.
`Sweep` is the second loop of `clearJobList` and of `clearZombieProcesses` with
its peculiar way of going on after a removal. A pid goes through the pipe as the
bytes that `strcpy` and `strlen` leave of it, and the shell keeps the first byte
of each `read` as a signed char; `Byte` is the number of values of a char, and
a pid has two. A step of a process goes up to its next fork, write, wait or
exit. Whatever ends the shell (a syntax error, a failed `pipe` or `fork`, a null
pointer followed) is the state "dead".

### ShParse, Library, Umalloc and Algorithms

These are functions of their inputs. Memory is a function from addresses to
bytes where the routine works on memory (`memmove`, `strncpy`, `safestrcpy`,
`fetchstr`), and a sequence of characters where it only reads a string. Numbers
have `Width` bits and wrap. The reference definitions in `Algorithms` and
`ShParse` are not loops: the grammar gives the set of trees of a line by
splitting it everywhere, a path is the list of its runs between slashes, a
regular expression is a set of positions carried from unit to unit, the heap is
a partition of what `sbrk` gave. Sizes of `argptr` are ints, negative ones
included: `sys_read` and `sys_write` hand on what the caller gave, and `argptr`
accepts a negative size when the address is below `sz` and the sum does not fall
below 0, which `UnsignedChecks` states as it is.

## 3. Runs

| Run | Instance | Shows |
|---|---|---|
| `proc` | 3 slots, 1 CPU, 1 channel, 2 statuses, pids to 3 | no lost exit or kill in `wait`, no orphans, no leaked or shared embryo, unique pids, status kept, init reaps, a killed waiter exits |
| `sched` | 2 processes, 2 CPUs | `SchedSound`: no panic of the lock code, no missed tick, no context on two CPUs, interrupts match locks and never nest; no spin deadlock; sleepers return |
| `pipe` | 2 processes with both ends, one killable, 2-byte ring, counters modulo 4 | refines `PipeFifo`; `PipeSound`: no use after free, no lost wakeup; `CallsEndRightly`: 0 means end of file, close ends calls |
| `log` | 2 processes, 3 blocks, 4 log sectors, crashes | refines `AtomicDisk`; `LogSound`: no panic, no stale read, sleepers have a reason; space returns |
| `bcache` | 2 processes, 2 buffers, 3 sectors, one unreadable | `BufferSound`: one holder per buffer and one buffer per sector, holders in step with the disk, sleepers have a waker; transparency; sleepers return |
| `fs` | 2 processes, 3 inodes, 1 name and `..`, 1 open file | `InodeSound`: references counted, names refer to inodes in use with links enough, nothing in use is freed, no consistency panic; lock waits end |
| `files` | 2 processes, 2 files of one direct and one indirect block of 2 cells, 2 table entries, 2 descriptors, 3 data blocks, a first file of 1 or 3 bytes | refines `FileBytes`; every block has one owner and the bitmap is exact; table counts are the references |
| `files_op` | the real `LOGSIZE`, `MAXOPBLOCKS` and `NDIRECT`, blocks of 2 cells | violated: a round of a write logs 16 blocks, 10 are reserved |
| `memory` | 2 slots, 15 pages, 4 user pages under 2 tables, 2 program headers of 7 kinds | a page has one use; pages are lost only when none are left; no CPU on a freed directory; calls leave size, mappings and operations in order |
| `console` | 2 readers, ring of 3, counters modulo 6, reads of 1 and 2 | refines `LineQueue` with what each reader got; a read is part of one line; nobody sleeps over a finished line |
| `shell` | 7 kinds of lines, 4 jobs, 10 descriptors, 10 processes, 24 values of a char | one foreground job and an ordered list; a running job is lost only between two ended ones; the shell returns from reading pids |
| `algorithms` | lines of 6 tokens or characters, paths of 6, expressions of 5, formats of 5, 6 key events, 8-bit numbers, a heap of 14 units | each routine returns what its reference says; the heap stays a partition |

A `...Sound` property is the conjunction of the named invariants of its module,
and each of these is a definition with its own comment there.

Why the bounds are enough for the cases of interest. Three slots give a parent,
a child and init with orphans, zombies handed over, and stale pids of failed
forks; `MaxPid` bounds the forks, and at the bound the table counts as full.
Two CPUs and two processes give every race for a lock and every migration. A
ring of two bytes with counters modulo four is full, empty and wrapped in all
alignments. Three blocks and a log of three data sectors let two operations run
together and make a third wait while the log is not empty (with three processes
the run passes too: 400 thousand states, three minutes and more). Three sectors over two buffers force eviction.
Three inodes give the root with a directory and a file or a subdirectory, so
every parent and child pair meets every pair of calls; paths are absolute or
relative, and those of `creat` have up to two elements (`LongCalls`; the same
instance with two elements everywhere, 2.8 million states, passes as well but
takes five minutes). A process with a file open only unlinks and closes
(`CallsWithOpen`), the other one does everything; `MaxLink` stops `link` when a
file has two links. The processes are symmetric and the run has no liveness
property, so symmetry is sound; that waits end is stated as an invariant:
whoever is waited for is a process that holds the lock, and no two wait for
each other.

Two files of up to two blocks on three data blocks share, fill and overflow the
data area. Every transfer asks for three bytes, more than a block and more than
a round of a write (`max` is two bytes): from an even offset it ends in the next
block, and from an odd one, which a first file of 1 or 3 bytes (`MkfsSizes`)
gives, every single round crosses a block end. Two descriptors are used up by
two files, or by one and its `dup` with an entry of the table still free, so
that `open` and `pipe` fail at each of their steps. Fifteen pages are what two processes as small as init need while one of
them builds a new image in `exec`; with larger images, and after pages were
lost, `fork`, `exec` and `sbrk` fail at every page. User pages lie under two
tables, the second of which may be missing. Two headers (`PHNUM`) are the least
with which a segment meets the pages of another one. A ring of three with
counters modulo six is full, empty and wrapped in all alignments with an editing
reader before and behind. Four jobs are the shortest list in which a running
job lies between two ended ones that are not at its head; the later a job
starts, the shorter its line (`MaxJobs` bounds both), and both descriptors and
processes run out. With 24 values of a char the last pids of a run are above the
sign bit; a low byte of 0 takes more processes than the run has. Lines of
six tokens have nested blocks with redirections and pipes in them, `MAXARGS` = 3
is reached.

`files` identifies states that differ in what free blocks hold (balloc clears
them), in the last answer, in which of a process's descriptors refers to a file
and in which entry of the table it has (`InUse`), and processes and inodes are
interchangeable (`Alike`): no step
looks at any of these, and the properties are about the steps and not about how
often they happen. `memory` identifies states up to a renaming of the physical
pages, and of fields of a call that are set again before they are read
(`UpToRenaming`; it has the number of pages that are free or held, so that no
state with a shared page is identified with one without). Without it the same
run passes with eleven pages.

`CHECK_DEADLOCK FALSE` is set where the system really may stop: when all ends
of a pipe are closed, when the shell is gone, when the kernel has panicked or
taken a block of the log, and after a call of `Algorithms`.

### Fairness

- `Proc`: the timer preempts whoever runs (weak fairness of `yield`), channels
  are signalled, and init and one other process make progress: the scheduler's
  round robin reaches their slots and the kernel finishes their calls (strong
  fairness, because they can be preempted again and again). init's loop in
  `init.c` calls `wait` again and again.
- `Sched`: each CPU executes (weak fairness); an `xchg` that is tried again and
  again succeeds, and the scheduler's scan reaches one chosen process (strong
  fairness). A spin lock gives no stronger guarantee than the first; it is an
  assumption on the hardware.
- `Pipe`: a process inside a call moves on when it can again and again.
- `Log`: operations finish, and so do commit and recovery (weak fairness);
  nothing is assumed about crashes.
- `Bcache`: processes in the cache go on, the drive answers (weak fairness), and
  a holder that may write repeatedly releases the buffer in the end (strong).
- `Shell`: the shell reads what is in the pid pipe, and processes that can run a
  step of `runcmd` do (weak fairness; the scheduler runs every process). Nothing
  is assumed about programs: they may run for ever. Nobody has to type.
- `Inode`, `Files`, `Memory`, `Console`, `Algorithms` have safety properties
  only.

## 4. What is proved

Each module of proofs has an inductive invariant `IInv`, one lemma per action
that shows that it is kept (`Invariance`), and the theorems below, which state
properties that the runs check for a small instance.

### Proc

`ProcProofs` proves for every `NPROC`, `NCPU`, `MaxPid`, set of channels,
statuses and kill arguments (assumption `ProcAssumption`):

- `TypeCorrect`, `WaitMissesNothing`, `NoProcessIsOrphaned`, `EmbryosAreOwned`,
  `PidsAreUnique`: the safety invariants of the run `proc`;
- `StatusIsKept`: the action property `ExitStatusKept`.

None of them is inductive alone. `IInv` adds: where a process can be in each
state (`Control`: for instance a process asleep in `wait` sleeps on its own
slot, which is why `exit`'s wakeup reaches it); that init never reaches `exit`
(`InitAlive`, because its exit panics); that a process inside `fork` owns one
EMBRYO slot (`ForkOwner`); that parents are live and an embryo has none until
`copyuvm` succeeded (`Parents`: without it a waiter could be asleep for a child
that is given back); and that pids are below `nextpid` (`PidsTaken`).

The run `proc` does not repeat `TypeCorrect`, which says that types are kept.

### Sched

`SchedIsSound` (the invariant `SchedSound`) and `NoCpuDeadlock`
(`NoSpinDeadlock`) for every set of processes and CPUs, from `SchedAssumption`
and `FrameAssumption` (the mark of "no interrupt frame" is not a place of the
code). What the assertions of `acquire`, `release`, `popcli` and `sched` test is
spread over a CPU, its locks and the thread it happens to run. `IInv` makes it a
function of the place: `Places` and `Contexts` say where a context can be and
which CPU has it, `Cpus` which locks, nesting and IF flag belong to a place,
`Saved` what a switched-out thread has put aside (its `intena` above all), and
`Wakeups` that a process about to sleep has not missed its tick.

### Pipe

`PipeIsSound` (`PipeSound`), `ZeroIsEof` (`ZeroMeansEof`, a part of
`CallsEndRightly`) and the refinement `PipeIsFifo` (`ImplementsFifo`) for every
set of processes, size of the ring and `Word` that is a multiple of it
(`PipeAssumption`). `IInv` adds who has the lock, which ends a process inside
the code still holds (so that the page it uses cannot be freed), that the
counters are at most a ring apart, and for each sleeper who still has to wake
it (`SleepersWait`). The refinement needs that the contents of the ring are a
sequence that one counter extends and the other shortens, although both wrap.

### Log

`LogIsSound` (`LogSound`) and the refinement `LogIsAtomic`
(`ImplementsAtomicDisk`) for every set of processes, blocks and values and every
size of the log, from `LogAssumption` and `ReservationAssumption`: an operation
writes less than the `MAXOPBLOCKS` it reserves, and the disk has `LOGSIZE`
sectors for the log. (Without the first the code panics, section 5.)
`LogInvariant` has `Shape`: in which step of `commit` or of recovery the log is,
and for each which of log sectors, home sectors and buffers agree. `LogProofs`
adds that `log_write` finds room, by counting: every open operation has
`MAXOPBLOCKS` tickets, a block that enters the log takes one, and blocks and
tickets together never exceed the log. What a restart would find then changes
in one step, the write of the header.

### Bcache

`BufferIsSound` (`BufferSound`) and `CacheIsTransparent` (`Transparent`) for
every set of processes and sectors and every number of buffers
(`BcacheAssumption`). `IInv` adds what ties processes to the disk queue: a
queued buffer belongs to one holder, who waits in `iderw`, and is in the queue
exactly while its flags ask for a transfer; the sector of the write at its head
is on the disk already.

### Console

`NoLostInput` (`NoSleepWithInput`), `ReadsAreLines` (`ReadsOneLine`) and the
refinement `ConsoleIsLineQueue` (`ImplementsLineQueue`) for every size of the
ring, every `Word` that is a larger multiple of it and every set of readers
(`ConsoleAssumption`, `ReaderAssumption`). `IInv` says that `r`, `w`, `e` are in
this order and at most a ring apart, that the line being typed holds no line end
(so control-U stops at `w`), that the lock is held between two steps only by a
reader about to sleep, and that a reader in the loop wants more and has seen no
line end. The first half of the module is arithmetic: counters that wrap at a
multiple of the ring keep their place in it.

### Only model-checked

`Inode`, `Files`, `Memory`, `Shell`, `ShParse`, `Library` and `Umalloc`, and all
liveness, which is out of the prover's reach, as is what recursive functions
compute for every input (`ShParse`, `Shell`, `Library`, the folds of `Files`).

## 5. Findings

- `filewrite` sizes its rounds from `LOGSIZE` and not from `MAXOPBLOCKS`: with
  13 data blocks, the bitmap, the indirect block and the inode a round logs 16
  blocks, while `param.h` calls 10 the "max # of blocks any FS op writes" and
  `begin_op` reserves that (`files_op`).

The following come from the modules too. They have no run of their own; each
names the constants with which the module shows it, and the hazards in
`PROJECT.json` point to the lines.

- `kill` compares pids without the state: kill(0), or of a pid that a failed
  fork left in a free slot, marks that slot, and the next process in it is born
  killed (`Proc` with 0 in `KillArg`).
- `piperead`, `pipewrite` (and `consoleread`, `sys_sleep` alike) test
  `proc->killed` before `sleep` takes `ptable.lock`; a kill in between is lost
  (`Pipe` with a killable process). `wait` is immune, which is proved.
- The on-disk log has one data sector less than `begin_op` hands out: operations
  that use their whole reservation panic (`Log` with `OpMax = MAXOPBLOCKS`).
- `NBUF` equals `LOGSIZE`: a full log leaves one buffer, and `bget` panics
  (`Bcache` with `MaxPinned = NBUF - 1` and two readers).
- A removed directory keeps its `..` entry but not the link it gave to the
  parent; the parent can be freed under it, against `itrunc`'s comment (`Inode`
  with `StaleDotDot = TRUE`). A path through that `..` ends in `ilock: no type`
  or in an unrelated inode.
- `setupkvm` loses the pages it has when memory runs out half way, `allocuvm` and
  `copyuvm` the page for which there was no table; `allocuvm` then reports
  success over a hole at which a later `fork` or `exec` panics (`Memory`, `torn`).
- `exec` does not test that a segment begins at a page, which `loaduvm` answers
  with a panic, nor that `vaddr + memsz` does not wrap (`Memory`, `Loadable`).
- `argptr` accepts a negative size with an address below `sz` (`Algorithms`,
  `UnsignedChecks`).
- `sbrk` of minus the whole size frees every page, returns -1 and does not reload
  the page directory; one of more than the size changes nothing and succeeds.
- The bitmap leaves the log's blocks free, and `balloc` hands them out when the
  data blocks are used up (`Files`, `Spilled`).
- The shell never waits for its children and never closes the write end of a
  job's input, so processes and descriptors run out after a few jobs; a line
  that does not parse ends it; `clearJobList` loses a running job between two
  ended ones; removing the last process of a job whose first one lives follows
  a null pointer; pids that arrive together, or whose low byte is 0 or above
  127, are recorded wrongly (`Shell`).

## 6. Plan

Next are proofs about `Inode` (references counted, waits end) and about the
file table of `Files` (`RefsMatch`).

## 7. Not modelled

- Boot, interrupt controllers, device registers and the screen: no protocol
  state beyond what the models above keep.
- The tables of key codes and of system calls: data.
- `mkfs` apart from the layout, the bitmap and `iappend`: it writes one image.
- `sys_mknod` and the limit `NINODE` of the inode cache: the first is `create`
  with another type, the second needs more inodes than an instance that is
  checked in minutes.
- The size of the root directory, which mkfs rounds up to one block more than it
  has when it fills its last block, and the buffer of lines of `grep`, which
  `read` does not terminate: both need contents that are abstracted here.
- The contents of pages, of directories beyond their names, and of a job's
  input.
- The user programs and tests: sequential clients of the modelled calls. Of
  `grep` only the matcher is here, of the C library everything that has a loop.
