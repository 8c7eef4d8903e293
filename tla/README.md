# A TLA+ model of xv6 (x86)

This directory models the system in `src/`: the kernel's concurrency, its crash
behaviour and its shared tables, and the parts of user level with state of
their own. TLC checks the modules on small instances;
TLAPS proves the central results for every instance. `PROJECT.json` maps each
definition to the lines it models, and lists runs, mutants, hazards and
theorems.

## The system

| Part | Source | State | Operations | Talks to | Hard part |
|---|---|---|---|---|---|
| Log | log.c | header in memory and on disk, `outstanding`, `committing`, dirty buffers | begin_op, log_write, end_op, commit, recovery | buffer cache, sleep/wakeup | crash between any two block writes, reservation, absorption |
| Processes, scheduler | proc.c, trap.c, sysproc.c | process table, `ptable.lock`, CPUs | fork, exit, wait, kill, sleep, wakeup, yield, scheduler, clock | everything that sleeps | the lock is handed over in swtch; lost wakeups; orphans |
| Pipes | pipe.c | ring, counters, open ends | pipealloc, pipeclose, pipewrite, piperead | file table, sleep/wakeup, kill | wrap-around, close and kill while asleep |
| Spinlocks | spinlock.c | lock word, holder, `ncli`, `intena` | acquire, release, pushcli, popcli | interrupts, scheduler | interrupt on the holder's CPU, migration inside pushcli |
| Sleep locks | sleeplock.c | `locked`, `pid` | acquiresleep, releasesleep | sleep/wakeup | several waiters |
| Buffer cache, disk | bio.c, ide.c | LRU list, reference counts, flags, request queue | bread, bwrite, brelse, iderw, ideintr | log, file system | recycling against use, completion interrupts, all buffers pinned |
| Inodes, blocks | fs.c | inode cache, bitmap, on-disk inodes | iget, ilock, iput, ialloc, itrunc, bmap, balloc, bfree, readi, writei | buffer cache, log | the last iput of an unlinked inode races with iget |
| Directories | fs.c, sysfile.c | directory tree, link counts | namex, link, unlink, create, open, chdir | inodes, log | lock order along paths, half-done updates |
| Files | file.c, sysfile.c | file table, descriptors, offsets | filealloc, filedup, fileclose, fileread, filewrite, pipe, dup | inodes, pipes | last close against use; failure half-way; long writes split over transactions |
| Memory | kalloc.c, vm.c, exec.c | free list, page tables | kalloc, kfree, allocuvm, deallocuvm, copyuvm, exec | processes | failure half-way through |
| Console | console.c | input ring with r, w, e | consoleintr, consoleread, consolewrite | interrupts, sleep/wakeup | interrupt against reader, end of file, kill |
| User level | sh.c, init.c, umalloc.c | pipelines, free list | runcmd, main, the parser, malloc, free | system calls | closing every unused end, reaping |
| mkfs | mkfs.c | the first image of the disk | ialloc, iappend, balloc | fs.c, through the image | the kernel's invariants start here |
| Pure code | string.c, syscall.c, fs.c, printf.c, grep.c | none | memmove, skipelem, argptr, printint, match, ... | everything | ends of buffers, wrap-around |

## Modules

**AtomicDisk** is what log.c promises: a disk on which a *commit* makes all
finished calls durable at once, never while a call is in progress, and a crash
falls back to the last commit.

**Log** is log.c. Blocks are numbered from the log header. One action per
critical section of `log.lock`; in commit and recovery, one per block written.
`log_write` is two actions, because its size test is outside the lock.
`cache[b]` is what `bread` returns, `bget_recycle` takes away any buffer that
is neither dirty nor locked, and `Crash` loses everything but the disk. Calls
are abstracted to the blocks they log: any home block, any contents, at most
`OpBlocks` distinct ones.

**Proc** is proc.c with the parts of trap.c and sysproc.c that move processes
between states. `ptable.lock` is a variable because `swtch` passes it from
thread to thread; `pc[p]` and `ret[p]` say where the kernel thread of `p` is
and where it goes on when it is switched in again. The clock may interrupt
wherever the CPU holds no lock. `ticks` is represented by `due[p]`, the ticks a
`sleep(n)` still waits for, decremented by the clock handler. Whether kalloc or
copyuvm fails in fork is a choice. exit's closing of files happens before it
takes `ptable.lock`, and is left out. init neither calls exit nor faults
(init.c loops for ever).

**Fifo** is what pipe.c promises: a bounded queue of bytes, with the precise
conditions under which a read or write may return early.

**Pipe** is pipe.c. What a call does with `p->lock` held is one action, except
that sleep takes `ptable.lock` in a step of its own (kill uses only that lock).
`nread` and `nwrite` wrap at `UINT`. A process holds an end of the pipe while
it has the file open; fork copies these references, the last close calls
`pipeclose`. The bytes a read returns are the front of `Contents`, so no
variable is spent on the caller's buffer.

**BlockStore** is what bio.c promises: one copy of every block, held by one
process at a time and changed by nobody else.

**BufCache** is bio.c over ide.c, with the sleep locks of sleeplock.c that
buffers carry. Critical sections of `bcache.lock`, of a sleep lock's spinlock
and of `idelock` are the actions. `Latest(k)`, what a reader of block `k` would
get, maps the cache to BlockStore. A write reaches the disk, and a read the
buffer, when the interrupt comes; a read may fail (`DiskOk`). `kill` may wake
any sleeper early. A process uses one buffer at a time and, like all code in
fs.c and log.c, passes a changed buffer to `log_write` or `bwrite` before it
releases it.

**SpinLock** is spinlock.c at the grain of its atomic instructions, with the
parts of proc.c and trapasm.S that make it hard: interrupts nest on a kernel
thread as frames, `sched` and the scheduler move threads between CPUs with
`ptable.lock` held, and `intena` is a CPU's variable that belongs to a thread.
There are two locks, a device lock and `ptable.lock`, taken in this order.

**Fs** is the inode cache, directories and path names of fs.c, and the calls of
sysfile.c that work on names. A process in a call has a list of steps; a
function called in the middle of another one is pushed in front of it, so that
`iunlockput` inside `create` is the three steps of `iput` wherever it occurs. What
is done with an inode's lock held and cannot block is one step; `iput` is three,
because it gives up `icache.lock` between its test, the freeing and the
decrement. A call is one transaction (Log shows what that means), hence a crash
restores a state without calls in progress. Directories map names to inode
numbers; file contents are FileData's. `up` and `strays` are history: they
mark the calls and inodes that went through a removed directory.

**FileData** is what files hold: balloc, bmap, itrunc, readi, writei, fileread
and filewrite at the level of bytes, starting from the image that mkfs.c makes.
writei is one step per block, so that two writers interleave. An address and a
directory entry take one byte. `want` is a history of what should be in a file,
and `through` one of the positions that readi and writei were given by an open
file.

**FileTable** is the table of open files, the descriptors of processes, and
open, pipe, dup, close, fork and exit as far as they use them, each with all its
ways to fail. A critical section of `ftable.lock` is one step. There is one
inode, of which only the references are counted.

**Vm** is kalloc.c, the user part of vm.c, growproc, exec.c, and fork's and
exit's use of them. A turn of a loop that calls kalloc is one step, because
another process may take the next page; a loop that only frees is one step with
what precedes it. A directory maps its entries (itself, the kernel's page table,
page tables, pages) to physical pages, and remembers which pages lack PTE_U;
`lost` is a history of the pages that an sbrk down to size 0 has freed. A process
in that state may go on to call (its TLB may still have the pages), and fork then
stops at copyuvm's panic.
The free list is a count per page, so that a page could be on it twice. Sizes
are in bytes and wrap. Other users of the list are left out: allocproc's kernel
stack (one page, taken before fork copies and freed with the process, and also
when the copy fails; Proc has that failure), pipealloc's page (Pipe) and the
kernel's own directory.

**Umalloc** is umalloc.c: addresses in units of a header, the free list as the
fields of the headers. Requests are in bytes and become units in the arithmetic
of uint, which may wrap. Requests of half the address space and more that do not
wrap there are left out (`UmallocAssumption`): `nu * sizeof(Header)` would be
negative or zero as the int that sbrk takes, sbrk would succeed without adding
memory, and morecore would write a header where there is none.

**LineInput** is what console input promises, and **Console** is consoleintr,
consoleread and consolewrite: the ring with three wrapping indices, the inode's
lock that readers and writers give up, and kill. A character is "a", newline or
control-D. The interrupt handler's switch is one action per case that changes the
ring; a key that is dropped changes nothing.

**ShellParser** is the parser of sh.c on lines of tokens. **Shell** is runcmd and
the loops of sh.c and init.c: a process has a list of system calls ahead of it,
each of which is one step here and refined by Proc, FileTable and Pipe. Programs
either write a few bytes or copy their input until its end. A fork or pipe that
fails makes sh.c panic, that is, the process exits and its children become
init's; `left` marks them. When init itself cannot fork, the kernel panics and
nothing runs any more.

**Text** collects the pure algorithms: each is a definition of its own, compared
with one that says what it is for, on all inputs up to a bound. A state is an
input.

**LogProof**, **ProcProof**, **SpinProof**, **BufCacheProof**, **PipeProof**,
**ConsoleProof** and **VmProof** hold the theorems about Log, Proc, SpinLock,
BufCache, Pipe, Console and Vm; **VmSpaces** has the inductive invariant of Vm and
the lemmas that VmProof rests on. The **MC** modules instantiate the others for
TLC. MCResources and MCShell check several components that share no
state; a behaviour is one of a single component.

Operators with the comment *Mutant* are faulty variants of the definition that
follows them. Nothing uses them; substituting one for its original must make
TLC report the property named with it in `PROJECT.json`.

## Runs

| Run | Bounds | Shows |
|---|---|---|
| `log` | 2 processes, 2 home blocks, 2 contents, MAXOPBLOCKS 4, LOGSIZE = nlog = 8, calls log at most 2 blocks | `Atomicity` (refines AtomicDisk), `SleepersWake`, and `LogInv`: `CleanIsCoherent`, `NoPanic`, `LogFits`, `NoMissedWakeup` and their strengthening |
| `proc_safety` | 2 CPUs, 3 slots, 3 forks, sleep(1), every pid but 1 killed | `OneStackOneCPU`, `ParentLives`, `NoMissedWakeup` (no exit, no tick), and `ProcInv`: `UniquePids` and the strengthening |
| `proc_liveness` | 1 CPU, 3 slots, 2 forks | `RunnableRuns`, `OrphansReaped` |
| `pipe` | 2 processes, ring of 2 bytes, counters wrap at 4, writes of 0, 1 and 3 bytes, reads of 0 to 2, one process killed | `Implements` (refines Fifo), `ReadersWokenUnlessKilled`, `CallsEnd`, and `PipeInv`: `FreedOnce`, `InCall`, `SleepersWait` |
| `bufcache` | 2 processes, 4 blocks, 3 buffers, 1 pinned by the log | `Implements` (refines BlockStore), `NoMissedWakeup`, and `CacheInv`: `OneCopy`, `RefsCounted`, `UsersSeeValid`, `CleanMeansStored`, `NoPanic` and the strengthening |
| `spinlock` | 2 CPUs, 2 threads, 2 locks | `MutualExclusion`, `LocksMaskInterrupts`, `InterruptsRestored`, and `LockInv`: `HoldingIsExact`, `NoPanic` and the strengthening |
| `fs` | 2 processes, 3 inodes, directory `/a`, `/a/f` a file or directory, file `/f`, 8 and 6 kinds of calls, crashes between transactions | `LinkCounts`, `FreedIsUnused`, and `InodeInv`: `RefsCounted`, `CacheCoherent`, `NoPanic` |
| `fs_deadlock` | as `fs` | violation of `NoDeadlock` |
| `fs_orphan` | 2 processes that create and unlink `/f`, no crashes | violation of `OrphansFreed` |
| `resources` | see below | `DescriptorsUsable`, `TableInv` (`FileRefs`, `PipeEnds`, `InodeRefs`); `ContentsAsWritten`, `SharedOffset`, `FileDataInv` (`BlocksOwned`, `WriteThrough`, `FitsTransaction`); `VmInv` (`PagesPartitioned`, `InCalls`), `AddressSpace` (`SizeMapped`, `GuardKept`); `MallocFits`, `HeapInv` (`HeapTiled`, `ListOrdered`) |
| `console` | 2 processes, ring of 2, indices wrap at 4, reads of 1 and 3 | `ConsoleImplements` (refines LineInput), `EofIsZeroRead`, `WritesEnd`, and `ConsoleInv`: `FullIsReadable`, `InputWakesReaders`, `LineOpen` |
| `shell` | 6 process slots, 2 pipes of 1 byte, 6 sessions; trees of depth 3 and lines of 5 tokens; texts of up to 7 characters | `LinesEnd`, `ShellInv` (`PromptWhenDone`, `ThreeDescriptors`); `ParserInverts` (`RoundTrip`, `TokensKept`); `TextMeans` (`MoveCopies`, `PathElements`, `NamesFound`, `ArgsInside`, `StringsEnd`, `DigitsDenote`, `MatchMeans`) |

An invariant whose name ends in `Inv` is a conjunction of named definitions, the
type invariant of its module among them where it has one; several mutants break
different parts.

Why the bounds are enough. *Log*: two processes already give every order of
test and append, absorption of each other's blocks, a sleeper during commit and
a call that starts while another commits; two home blocks suffice for a torn
transaction, and 8 log blocks leave room for 2 calls of 4 but not for a third
block, so that begin_op does sleep. Crashes are unlimited, also inside
recovery. *Proc*: three slots make init, a child and a grandchild, so that a
zombie can be orphaned while init sleeps (but only by a child of init: a deeper
orphan needs a fourth slot); the third fork fills the table, the
fourth pid reuses a slot. *Pipe*: a message longer than the ring, and counters
that wrap after two rounds; with two processes either may hold either end.
*BufCache*: with one pinned buffer and two processes, three buffers are the
fewest for which bget cannot panic, and four blocks force it to recycle.
*SpinLock*: nothing is bounded but the numbers of CPUs, threads and locks; two
of each give migration, contention and out-of-order release.
*Fs*: the calls of the two processes meet in both directories: whatever one makes
the other may find half-made, and three inodes are the fewest for a directory
with a file or directory in it; with the third in use, ialloc has nothing left.
One process may have `/a/f` for its current directory while the other removes it
and then `/a`. The cache
has an entry for every inode, as iget panics otherwise. *FileTable*: 3 open
files, 2 descriptors and one pipe for 2 processes: each table runs out before
the others in some behaviour. *FileData*: 5 calls of 2 processes; files of up
to 4 blocks of 2 bytes, two of them behind the indirect block; a write of 7
bytes takes four transactions. The disk never fills up (balloc panics then).
*Vm*: 13 pages, fewer than two processes can use, so that every allocation
fails in some behaviour; 6 calls, sbrk to size 0 and arguments longer than the
stack among them. *Umalloc*: nothing is bounded but the heap, which is extended
twice, around a hole; the requests are for 3 and 8 bytes, with a header of 2,
and for one that wraps. *Console*: two characters are enough for
a full ring, a line and a line begun; the indices wrap after two rounds.
*Shell*: the sessions have a pipeline of three, one in a background block, two
background jobs at once, redirections, commands that fail, a syntax error and a
change of directory. Six slots are one too few for the pipeline of three until
its first command is reaped, so that forks fail at both sides of a pipe, in lists
and in background jobs; a pipeline of four may need a third pipe; and in the last
session the shell cannot fork, and then init may not either. *Text*: patterns of four
characters are the shortest in which a star matters. `bufcache`,
`spinlock` and `resources` (for open files) use symmetry, which is sound because
they check safety only.

TLC's deadlock check is on in `log`, `proc_safety`, `proc_liveness`, `bufcache`
and `spinlock`. In `pipe` two processes that both hold both ends can wait for
each other for ever, which is their error and not the pipe's. `fs` can deadlock
(see `fs_deadlock`); a console whose users are all killed, a shell session and
bounded sequences of calls come to an end.

### Fairness

* `log`: kernel steps are scheduled (weak fairness), and a call is a finite
  program, so end_op is reached although log_write keeps disabling it (strong
  fairness on `end_op`). Nothing is assumed of begin_op or of crashes.
* `proc_liveness`: interrupts keep coming, spinlocks that are released again and
  again are obtained, and a thread that is switched in again and again gets some
  work done between clock interrupts. The code guarantees none of this by a
  queue; it holds for hardware in which no CPU always loses the race for a lock.
  init calls wait again and again (init.c:30).
* `pipe`: a process inside the kernel gets a CPU and `p->lock` in the end.
* `console`: a process that can go on does (weak fairness), and gets `cons.lock`
  and the inode's lock, which others give back again and again (strong
  fairness). Nothing is assumed of the keyboard.
* `shell`: every process goes on with its next system call when that can
  return. Nothing is assumed of the user who types.

### Disagreements between code and comments

* `fs_deadlock`: create calls `iunlockput(dp)` while it holds the lock of the new
  inode; iput takes dp's lock a second time. unlink takes the two locks in the
  other order.
* `fs_orphan`: iput tests `ref` in one section of `icache.lock` and decrements it
  in another. Two processes that give up the last two references at once both
  see 2, and the inode is never freed.

### Observations without a run of their own

The models have these behaviours too; the properties are stated so that they hold
beside them.

* begin_op reserves `LOGSIZE` data blocks, but one of the `nlog = LOGSIZE` blocks
  is the header, and log_write tests the size before it takes the lock. Calls
  that use the whole budget of param.h can write past the log or panic: Log
  violates `LogFits` with MAXOPBLOCKS 2, LOGSIZE = nlog = 4, FSSIZE 8 and
  OpBlocks 2. The calls that exist log fewer blocks; the theorems state the
  margin, two blocks per call.
* kill looks only at pids, so `kill(0)` marks a free slot killed, and allocproc
  never clears the mark (proc.c:484).
* A kill between the test of `killed` and sleep is lost until the next wakeup, in
  piperead, pipewrite and consoleread (pipe.c:107, console.c:246).
* A killed writer returns from a full pipe without waking the readers
  (pipe.c:86). `ReadersWokenUnlessKilled` says when they are woken.
* link and create do not look whether the directory they enter a name into has
  just been removed. Such an inode is in `strays`, and `LinkCounts` leaves it
  out. The ".." of a current directory that was removed is not counted either,
  and is no reference: when the parent was removed and freed too, a path through
  ".." reaches an inode without a type, and ilock panics (fs.c:310). `NoPanic` and
  `FreedIsUnused` except the calls that went up so (`up`).
* After a crash an inode that was open and had no name stays allocated.
* readi allocates blocks it finds missing, in memory only (fs.c:388). mkfs rounds
  the size of the root directory up (mkfs.c:161), to one block too many when its
  entries end at a block boundary: `WriteThrough` is violated without host
  files. With the files that the Makefile passes it depends on their number.
* A process that gives up all its memory gets an error from growproc, which takes
  the new size 0 for a failure after the pages are freed (proc.c:169). It keeps
  its size, and `AddressSpace` then says that the pages in `lost` are missing
  below it; its fork panics in copyuvm (vm.c:329).
* When the second fork of a pipeline fails, the process that runs the pipeline
  exits without a wait, and the shell prompts while the left side runs on
  (sh.c:111). `PromptWhenDone` excepts the processes that were left so.
* init exits if its fork fails, which panics (proc.c:235). It can: when the table
  is full the shell exits, and a background job may take its slot before init
  does. `LinesEnd` excepts it.
* malloc of less than a header below 2^32 bytes returns a block without room
  (umalloc.c:69). `MallocFits` says so.
* grep drops what it has read so far when a read leaves the buffer without a
  newline (grep.c:29).

## Proofs

`LogProof` proves, for any number of processes and blocks and any sizes with

    BudgetFits == OpBlocks + 2 <= MAXOPBLOCKS /\ LOGSIZE <= nlog

that `Spec` implies `[]LogInv` and with it `NoPanic`, `LogFits`,
`CleanIsCoherent` and `NoMissedWakeup`, and that `Spec` implies `Atomicity`.
The margin of two is what the code needs: one block for the header that the
reservation forgets and one for the unlocked test in log_write. With a margin
below that, the instance under *Observations* is the counterexample.

`LogInv` adds to the properties what makes them inductive: `outstanding` counts
the processes inside calls; at most one process commits, alone; a locked buffer
belongs to one process; what calls have logged plus what they still have
reserved stays within LOGSIZE (`BudgetInv`); both headers list distinct blocks;
and `PhaseInv` says, for each point of commit, how much of the transaction is in
the log and how much at home. Crash atomicity then is a case per action: only
`write_head` changes what a reboot would find.

`ProcProof` proves `[]ProcInv`, and with it `OneStackOneCPU`, `ParentLives` and
`NoMissedWakeup`, for any number of CPUs, slots and pids. The strengthening says
who has `ptable.lock` at each place of a thread and of a scheduler (`StackInv`),
where a switched-out thread goes on (`RetInv`), that a child under construction
belongs to one fork (`ChildInv`), that parents are alive (`ParentInv`) and what
may be slept on (`ChanInv`, `TickInv`). Steps that do not make, end or free a
process share the frame lemmas.

`SpinProof` proves `[]LockInv`, and with it `MutualExclusion`,
`LocksMaskInterrupts` and `InterruptsRestored`, for any number of CPUs and
threads. The strengthening says that a context is in one place (`PlaceInv`),
what an interrupted frame may be doing (`FrameInv`), what `ncli` and `intena` are
at each step of pushcli, acquire, release and popcli (`StepInv`), and that a lock
word and its holder agree (`OwnerInv`). In most steps only one CPU changes, hence
the invariant is split into a view per CPU.

`BufCacheProof` proves `[]CacheInv`, `[]NoMissedWakeup` and `Implements` for any
number of processes, buffers and blocks, assuming only

    DiskWorks == DiskOk = {TRUE}

(a failed read marks the buffer valid: `CleanMeansStored` and `Implements` are
then false). The strengthening: the list has every buffer (`LruInv`), a locked
buffer has one owner (`UseInv`), what is dirty is valid (`FlagInv`), a buffer is
queued once and for a process in iderw (`QueueInv`), and the log keeps within
`MaxPin` (`PinInv`). bget's panic is excluded by counting: the other processes
and the pins cannot fill NBUF. For the refinement, `OneCopy` makes the CHOOSE in
`Latest` unique, and `CleanMeansStored` is why recycling is a stutter.

`PipeProof` proves `[]PipeInv`, `Implements` and `ReadersWokenUnlessKilled` for any
number of processes, any ring and any width of the counters that the ring's size
divides (PIPESIZE divides 2^32 in pipe.c; without that a wrap would tear the
ring). The queue is read off the counters: `Contents` has
`(nwrite - nread) % UINT` bytes, the k-th of them at `(nread + k) % PIPESIZE`. The
lemmas on remainders say that a write appends to it and a read takes from its front
also when a counter wraps in between; the rest is a case per action. The action
property needs the invariant for one thing: a reader that sleeps has found the
pipe empty.

`ConsoleProof` proves `[]ConsoleInv`, `ConsoleImplements` and `EofIsZeroRead` in
the same way. There are three indices here, and the parts from r to w and from w
to e are the finished lines and the open one; `ConsoleTypeOK` has that together
they fit the ring, which is why an end of line typed at the last place does not
run over r. The put-back of control-D is why the last property is one of
steps: r moves over a control-D only in the read that returns 0.

`VmProof` proves `[]VmInv` and `[]AddressSpace` for any number of processes and
pages and any sizes. `PagesPartitioned` becomes `Parted`, a relation of a list and
a family of spaces: a page is on the list at most once; if it is, no entry of
any space has it, and otherwise some entry has; and two entries with the same
page are one entry. A step changes this in one of four ways (one page taken, two
taken, some given back, a directory handed over), each of which is a lemma
without state. What the invariant says of one process is a relation of its own
values: `Owns` for the directory it runs on and `Builds` for the one under
construction, which says how far sbrk, fork or exec has come. So a step of one
process is no concern of the others; only fork's child (`ChildFree`, `OneChild`)
relates two. By `AddressSpace` a process has the pages below its size except
exactly those in `lost`, which is empty until an sbrk comes down to size 0, where
growproc fails with the pages gone. `PagesPartitioned` says that there are as
many places of pages as pages in use; it is got back from `Parted`, in which the
page of a place is an injection. `VmSpaces` has the arithmetic of sizes, the lemmas on spaces, the
invariant and the steps of sbrk; `VmProof` has those of fork, exec and exit, the
first process, and the theorems.

Assumptions other than these two are the ASSUMEs of the modules, which say that
sizes are numbers, that a ring's size divides the width of its counters, that
KERNBASE is a multiple of PGSIZE and far from where sizes wrap, and that names
differ.

Model-checked only:

* all liveness properties (`SleepersWake`, `RunnableRuns`, `OrphansReaped`,
  `CallsEnd`, `WritesEnd`, `LinesEnd`): fairness is beyond the prover;
* what recursive operators compute: the parser, Text, and malloc's search. They
  would need induction over data, and the prover cannot use a module with a
  RECURSIVE operator (Umalloc, ShellParser, Shell and Text have some);
* Fs, FileData and FileTable. Their invariants equate sums over tables, lists of
  steps or blocks with counters, and every step that moves a reference would
  need the sum's change proved by induction.

## Not modelled

* Boot, multiprocessor start-up, interrupt controllers, timers, CGA, UART and the
  keyboard's tables: they write device registers, and no state of theirs is
  shared with what is modelled but for the interrupts, which may come at any
  time. memide.c replaces ide.c in an image for which there is no disk.
* Contents of memory pages, segment registers, context switching below the level
  of a step, and the order of memory accesses: the modules take spinlocks to
  give sequential consistency, which `acquire`'s barrier is for.
* What only reads or prints: stati, filestat, procdump, getcallerpcs, cprintf.
* User programs other than the shell and init, and usertests.c: sequential
  clients of the system calls. printf's formats and grep's line buffer.
* The characters of tokens in sh.c.
* A disk whose writes fail: ideintr does not look at the status of a write.
* Composition is by interface. Fs takes a transaction as atomic (shown in Log), a
  sleep lock as a step (BufCache), FileTable an inode as a count (Fs), Shell a
  system call as a step. One module with all of them is out of TLC's reach.
