# A TLA+ model of xv6shed

xv6shed is an early xv6 (x86, segmentation, up to 8 CPUs) whose scheduler has
been replaced by per-CPU run queues with pluggable policies. The build in the
Makefile uses MLFQ (multi-level feedback queues) with load balancing. This
directory models the kernel, and the parts of user space with an algorithm
worth checking. TLC checks every model on small instances. TLAPS proves the
safety properties of the spinlocks, the scheduler, the buffer cache, and the open
files and pipes, for any number of CPUs and processes and tables of any size.

## 1. The system and its models

| part | sources | module | what is hard |
|---|---|---|---|
| spinlocks, interrupt masking | `spinlock.c` | `Spinlock`, `Lock` | windows around `lock->cpu`, handlers that use the same counters |
| processes, scheduler, timer path | `proc.c`, `sysproc.c`, `sched_MLFQ.c`, `sched_RR.c`, `sched_fifo.c`, `rq.c`, `trap.c` | `Sched`, `SchedProps` | lost wakeups, locks handed over across `swtch`, migration in two critical sections |
| memory, `exec` | `kalloc.c`, `exec.c`, `proc.c` | `Memory` | merging runs, giving everything back on each failure |
| open files, pipes | `file.c`, `pipe.c`, `sysfile.c` | `Files` | wrap-around, close against sleep, error paths |
| inodes, directories, names | `fs.c`, `sysfile.c` | `Fs` | counts on every error path, lock order, the last `iput` |
| blocks of files | `fs.c` | `Inode` | indirect blocks, crashes between two disk writes |
| buffer cache, disk | `bio.c`, `ide.c` | `Bcache`, `BlockStore` | one buffer per sector, reuse, interrupt against append |
| console input | `console.c` | `Console`, `Tty` | a full ring, editing at its edge |
| shell | `sh.c` | `ShParse`, `Runcmd` | the grammar; who keeps which end of a pipe open |
| malloc, grep | `umalloc.c`, `grep.c` | `Umalloc`, `Grep` | the ring's wrap; `*`, `^` and `$` at the ends |

How they stand on each other: every kernel module takes locks as `Lock`
describes them, and `ImplementsLock` shows that `spinlock.c` provides that.
`Bcache`, `Files`, `Fs` and `Console` take sleep and wakeup as `Sched` provides
them: a wakeup makes every sleeper of the channel runnable, the sleeper tests its
condition again, and no wakeup is lost between a test under the lock and the
sleep (`NoLostWakeup`, `IInv`). `Inode` and `Fs` use blocks as `BlockStore`
describes them, a value per block and one user at a time, which
`ImplementsBlockStore` shows of `bio.c` with `ide.c`. `Runcmd` uses pipes as
`Files` has them: end of file exactly when the last writing end is closed
(`EndsOpen`).

`PROJECT.json` lists every part with its status, the source lines behind every
definition, and the hazards with the line where each bites.

## 2. Modules

A step of a kernel module is one critical section of the lock that guards the
data, together with the work around it that no other process can see. A model
stops (`fault`, `halted`, `mfault`, `refused`) at a panic and at the first step
that would corrupt memory or the disk; properties say nothing of what comes after.
The stops that the code can reach are listed in section 6.

### Spinlock

One action per access to shared memory or to the interrupt flag FL_IF. `locked`
and `lcpu` are the fields of each lock, `iflag`, `ncli`, `intena` those of each
CPU, `pc`, `arg`, `eflags` where a CPU is in the functions and their locals,
`frame` what an interrupt interrupted. `lock->cpu`'s `+ 10` is dropped (it only
tells CPU 0 from an uninitialised field). Callers are arbitrary kernel code that
nests locks in one order (`Locks` are numbers) and releases what it holds; a
handler may interrupt wherever FL_IF is set, one level deep, since handlers run
with FL_IF clear. A failing xchg changes nothing and is left out, and so is the
debug message after 10^8 spins.

### Sched

A slot of `proc[]` is a record; the fields `left`, `np`, `frq`, `trq` are locals
of system calls (`left` stands for `n - (ticks - ticks0)`). `pid` only says
whether it is nonzero: pids are unique, so a program can name any process.
`kstack[p]` is p's kernel stack, as the list of places its nested calls will
continue at. A CPU executes the head frame of `kstack[curproc[c]]`; `swtch` is
the assignment to `curproc`. A frame's name says which lock operation comes
next: `wait_rq` is "in sleep() called by wait(), about to take rq_lock".

`exit` is split at its two `acquire`s, `schedule` at its dequeue and its pick
(the process state it reads is not protected by the rq_lock), `wakeup1` at each
sleeper, `load_balance_MLFQ` at its two critical sections, `sys_fork` at the
unprotected read of `cpu()`.

Run queues are three sequences per CPU (levels 1 and 2 round-robin, level 3
FIFO), head first. Where the code would put a process into a queue a second time,
or where `yield_proc_fifo` would turn a list of two or more and so close it into
a ring, the model stops. Demotion, load balancing (half of each level from behind the
head), the turning of the first non-empty level by an idle process' `yield` and
the reset of `timeslice` when a process enters another queue are as in the code.

Interrupts are taken at the frames `Interruptible` (user code, `fork` outside
its locks, `sleep` about to take the caller's lock again). Elsewhere the kernel
holds a lock or is in a handler. `intena` across `swtch` is not modelled:
interrupts may be off at `slp_relk` in the code where the model allows them.

Other abstractions: `init` forks and waits but never exits by itself; idle
processes make no calls; kernel memory may run out in `fork` at any time; the
unlocked `proc_num` reads of `load_balance_MLFQ` are one snapshot; interrupts
before `runIdle` have no sleeper to wake and are left out.

`SchedProps` holds the properties and the inductive invariant `IInv`.

### Bcache and BlockStore

`BlockStore` is a block with a value and at most one user, who reads and writes
it. `Bcache` has the buffers with their flags, the LRU list, `ide_queue` and the
sectors. `bget`'s two scans and `brelse` are steps under `buf_table_lock`, the
append of `ide_rw`, its wait and `ide_intr` are steps under `ide_lock`. In
the refinement a block's value is what the disk has, and its user is the process
whose buffer is valid, so a write happens when the disk has done it. A process
holds one buffer at a time; where the code holds two (`bmap` and `itrunc` keep
the indirect block while they allocate or free) the second is a bitmap or data
block, whose holders wait for nothing more.

### Files

`file[]`, the descriptors of each process and the pages of pipes. `open` here is
the part of `sys_open` after the name has been found; `fileclose` and `pipeclose`
are split where they release their lock. A byte in a pipe is named by its place
in the stream, so `InOrder` can say that a reader gets the byte it should.
Processes make any calls in any order, may be killed, and exit by closing what
they have. The history variable `missed` is the set of pipes that a killed writer
left without waking the readers, until they are woken again.

### Fs

The inode cache, the inodes on disk and the directories, with `open`, `create`,
`mkdir`, `link`, `unlink` and `chdir` by several processes: each `iget`, `ilock`,
`iunlock` and `iput` of a call is a step, as is the work on locked inodes between
two of them. `_namei` locks one element of the path at a time. A path is the
sequence of names that `skipelem` finds; a directory is a function from names to
inode numbers, and always has room. `leaked` counts the links of each
inode whose entry went with its directory.

### Inode

Block bitmap, data blocks, and each inode in memory and as last written. `writei`
is split at every disk write: the bit in the bitmap, the indirect block, the data,
the inode; `itrunc` at every zeroed block and cleared bit. A crash may come
between any two; it leaves the disk as it is and reads the inodes anew. Each unit
written carries its file and its place, so a read that returns another file's data
shows.

### Memory

Memory is a row of units. `kalloc` and `kfree` work on the list of runs as the
code does, in steps of their own, called by `sbrk` with `growproc`, `exec`,
`fork` and `wait` as the code does. `sbrk` may be given a negative number or no
number of pages: `kalloc` panics over a size it cannot serve, and a shrinking
`growproc` copies more than the new memory holds ("overrun"). A process' image is what its memory must hold; an
`exec` that fails at any of its tests leaves it alone. The program files are
well formed or cut short.

### Console and Tty

`Tty` is what reading the console promises: a sequence of characters that can be
edited up to the last finished line, and readers that get finished characters.
`Console` is `console_intr` and `console_read` on the ring with its three
wrapping indices, shown to implement it.

### ShParse, Runcmd, Umalloc, Grep

`ShParse` has an operator for each function of the parser, with the index into
the line that it moves. The reference is `Lines`: all the trees that the grammar
allows for a list of tokens, by every place where a `;`, a `|` or a `)` may divide
it. The parser must return the only one, or fail when there is none. `Runcmd` has
the processes that a command tree becomes, with descriptors, pipes and waits; the
programs it starts read their input pipe to its end and write to their output pipe. `Umalloc` has the ring of headers. `Grep` has
`match`, `matchhere` and `matchstar`, against a definition by choice of how often
each starred character repeats.

`MCUnits` checks `Spinlock`, `Memory`, `Inode`, `Console`, `ShParse`, `Runcmd`,
`Umalloc` and `Grep`, each in behaviours of its own (`unit` says which). The other MC modules
only give constants their values.

## 3. Runs

| run | instance | distinct states | shows |
|---|---|---|---|
| `sched_up` | 1 CPU, 4 slots | 131,983 | queues, heads and slices exact, no fault at all, parents alive; a sleeper is woken |
| `sched_kill` | 1 CPU, 3 slots, `kill` of any process | 32,820 | only `kill` leads to panics; no wakeup is lost |
| `sched_smp` | 2 CPUs, 4 slots, `^P` | 207,938 | `IInv`, which the proofs use, locks by place in the code included; what can damage a run queue; no cycle of waiting CPUs outside procdump |
| `storage` | 3 processes, 3 blocks, 2 buffers | 66,968 | one buffer per block, one holder, exact disk queue; the cache is a `BlockStore`; every request is served |
| `files` | 2 processes, 3 files, 2 descriptors, 1 pipe of 2 bytes, indices modulo 4 | 1,703,986 | reference counts, open ends, order of bytes, sleepers; what can stop the machine |
| `fs` | 2 processes, 3 inodes, 2 names, paths of up to 2 names | 508,011 | reference counts, what link counts may be off by, no deadlock of inode locks, nothing names a freed inode |
| `units` | see below | 92,359 | the eight parts of `MCUnits`; of the spinlocks: exclusion, exact `holding()`, restored FL_IF, no panic, refinement of `Lock`, and no livelock of spinners |
| `kill_sleeper` (violation) | 1 CPU | | killing a sleeper panics |
| `smp_stack` (violation) | 2 CPUs | | a kernel stack is freed or resumed while in use |
| `procdump_wedge` (violation) | 2 CPUs | | procdump and sleep() deadlock |
| `fifo_hog` (violation) | 1 CPU, fork only | | a level-3 process is never preempted |
| `rmdir_links` (violation) | as `fs` | | removing a directory leaves the link of its `..` in the parent's count |

The five violations are the findings of `PROJECT.json`, each with the comment in
the source that says otherwise.

Bounds. Two CPUs and two locks give every pairwise race and every nesting. With
one CPU, 4 slots are init, idle and two more: parent, child and grandchild, and
two processes on each other's level. With two CPUs, 4 slots are init, two idles
and one more: enough for migration, a wakeup on the other CPU and a balancer
against a running process. Slices of 1 and 2 ticks stand for 20 and 500, so that
every demotion and every "not yet" happens. In `storage` there are more blocks
than buffers, so that buffers are reused and processes wait for each other's;
only one block is written, by anyone. In `files` a write of 3 bytes does not fit
the pipe, and indices wrap after two rounds; the tables run full. In `fs` one
process creates, links, opens and removes files while the other makes and removes
directories, one inside the other, and changes into them and out, both under the
same names, which is where their calls meet (`Calls` lets both make any);
`MaxLinks` bounds the links to a directory and to a file. In `units`: 2 CPUs
and 2 locks; 6 pages and programs of one
to a few pages, so that memory runs out and fragments; 4 blocks, 1 direct address and
2 indirect ones, two files and two processes; a ring of 3 characters whose
indices wrap at 6; every line of up to 4 of the shell's 9 kinds of characters, and of
up to 6 of words, blanks and `<`, which reach the limit of arguments and a
redirection between two of them;
five command trees with nested pipes, lists and background commands, with process
slots for the largest; a heap of 12 units; every pattern and text of up to 3
characters.

`sched_smp` does not check deadlock, since procdump can wedge the machine
(`procdump_wedge`); `NoDeadlock` covers the CPUs outside it. `files` may stop
with everybody asleep on a pipe that only they hold, `fs` and `units` at a stop of
section 6 or with nothing left to explore.

Fairness. `Sched`: a CPU that can execute kernel code does (weak fairness of
`KernelStep`), and a timer interrupt stays pending until interrupts are on (strong
fairness of `Timer`). Nothing is assumed of programs. `Spinlock`: each CPU
goes on with what it has begun: code in the functions, a handler's return, the
release of a lock it holds (weak fairness of `Executes(c)`); which of several
spinners gets the lock is not fair, and no property needs it to be. `Bcache`: the
disk answers (weak fairness of `IdeIntr`); nothing is assumed of processes, so a
request is shown served even if its caller and all others stand still.
`Runcmd`: the shell's wait, its children and the programs go on when they can
(weak fairness of `MainWait` and `Goes(p)`), the user need not type.

Each property has a mutant in `PROJECT.json`, a definition changed as a mistake in
that code would change it, under which TLC finds the property violated. The
mutants are the definitions whose names begin with `M` and whose comments say so.

## 4. Proofs

`SpinlockProofs` proves for any set of CPUs and any set of numbered locks, from
`SpinlockAssumption` (the "nobody" value is not a CPU, locks are positive
numbers): type correctness, `MutualExclusion`, `HoldingExact`, `NoPanic`,
interrupts off in critical sections, `PopCliRestores`, `ncli` exact, and that
`Spinlock` implements `Lock`. The inductive invariant says: a lock's `locked` is 1
exactly if some CPU owns it, and at most one does; for each CPU, what its place in
the functions implies about the lock it works on (`CallOK`), that `ncli` counts
owned locks and `intena` is the flag to restore (`CliOK`), and that an interrupted
frame was outside the functions or before its `cli` (`FrameOK`). Mutual exclusion
alone is not inductive: the exchange in `acquire` preserves it only because
`locked` = 0 implies that nobody is between two exchanges, and `release` only
because its `lock->cpu` test has established ownership; "no panic" needs `ncli` to
be exact, which needs interrupts off from the first lock on.

The scheduler's proofs hold for any number of CPUs and slots, any slices and
sleeps and any set of calls, `kill` and procdump included, from `SchedAssumption`
(naturals, with room for init and the idle processes). `IInv` speaks of
the states up to the first stop, and is the conjunction of

- `StacksOK`, `RunningOK`: kernel stacks are well nested, a process on no CPU
  stands in schedule() or at forkret, no process is current on two CPUs;
- `LockDiscipline`: who holds which lock, by place in the code;
- `QueueExact`, `CurrentIsHead`, `ScheduleOK`: where each process is queued, in
  flight between two queues or about to be dequeued;
- `SlicesOK`: ticks left on a round-robin level;
- `FamilyOK`, `ParentAlive`: parents, and children that are being made;
- `SleepOK`, `NoLostWakeup`: what was tested under a lock is still so when the
  process goes to sleep.

None of these is inductive alone. That the current process is the head of its
level needs that `load_balance` takes nothing from the head and that only the
CPU's own steps take a head away; exactness of the queues needs that the process
in schedule() is queued until its dequeue, which needs the lock; that a wakeup
arrives needs that the tests of `wait` and `sys_sleep` hold until the state is
SLEEPING, which needs `proc_table_lock` or `tickslock` to be held by the place in
the code; and the places need the nesting of the stacks.

The proof of `IInv /\ [Next]_vars => IInv'` has a lemma per action:

| module | holds |
|---|---|
| `SchedLemmas` | facts about queues, stacks, types and locks; which conjuncts each kind of change leaves alone (`QuietInv`, `LockStepInv`, `FieldStepInv`, `SlotStepInv`) |
| `SchedProcs` | fork, exit, wait, kill, sleep, sys_sleep, forkret, procdump |
| `SchedSwitch` | schedule, runIdle, waking of sleepers, timer, demotion, yield, load balancing |
| `SchedProofs` | the stops that cannot happen, `Init`, the assembly, and the theorems |

From `IInv` follow `QueueExact`, `CurrentIsHead`, `TimesliceLive`, `NoLostWakeup`,
`ParentAlive`, `LockDiscipline` and `NoDeadlock`. The last is not a conjunct:
the CPU that holds proc_table_lock and waits waits only for its own rq_lock, which it then
does not hold; a CPU that holds an rq_lock or tickslock waits only for
proc_table_lock; so no set of CPUs waits in a circle.

Which panics cannot happen is a second invariant, `FInv`, on top of `IInv`. It
says that a process whose slice is used up is on a level that it can be demoted
from until it has been (`TickOK`), and, without `kill`, that nobody is marked as
killed, idle processes do not exit, and only zombies stand behind the last
schedule() of `exit` (`ExitOK`). Each step is followed by the frames it puts on a
kernel stack (`Grows`) and by what it does to a process that has such a frame
(`Tame`). On one CPU it also needs that level 3 is empty while the CPU is idle
(`FifoIdle`): an idle process is picked only when every level is empty, and only a
tick of a running process fills level 3. `FInv` gives, on any number of CPUs,
`ExitsFinal` (without `kill`, init is not lost and nobody returns into `exit`) and
`QueuesIntact`: schedule() and the timer find the process in the queue that its
`rq` names; a process is queued a second time only when a wakeup meets a sleeper
whose schedule() on another CPU has not dequeued it yet (`WakeupRace`); level 3
becomes a ring only with several CPUs. On one CPU it gives `OnlyKillPanics`, and
`NoFault` without `kill`. `QueuesExact` states `QueueExact` together with
`QueuesIntact`, since the first alone would say nothing of a second enqueue.

`BcacheProofs` holds for any number of processes, buffers, blocks and values.
`CacheInv` is inductive whatever the disk answers: one buffer per block, one
holder, the queue of the driver holds exactly the buffers that wait for it, a
dirty buffer is busy and valid, and no sleeper is forgotten. From it and from a
disk whose reads do not fail (`ReadFails = {FALSE}`) follow `CacheConsistent`,
data included, and the refinement of `BlockStore`.

The proofs about `Files` hold for any number of processes, files, descriptors
and pages, any size of a pipe that divides the range of the indices at least
twice (`FilesAssumption`; in the code 512 and 2^32), and any sizes of reads and
writes. The invariant `FilesInv` has three layers, each proved with the ones
below it:

- `FilesTables`, `AInv`: a file that a call has in hand has this one reference
  and no descriptor; the count of any other is the number of its descriptors;
  what each process has in hand by its place in `pipealloc` and `sys_pipe`; the
  bytes in the ring. Counting is by cardinality of the set of descriptors: a
  `dup` adds one, a close takes one, `fork` adds as many as the parent has. That a
  write around the ring keeps the bytes in order needs that PIPESIZE divides the
  range of the indices, so that reducing them modulo it loses nothing.
- `FilesProofs`, `PipesOK`: an end of a pipe is one file or one process that is
  closing it, never both; the flags say which; whoever is in `piperead` or
  `pipewrite` still has a descriptor of that end; a page that is being freed is
  shut at both ends, and by one process. Without "one file or one closer" the
  flags could be cleared under another holder of the same end.
- `FilesProofs`, `SleepersOK`: what a sleeper waits for has not come, or its pipe
  is in `missed`. It needs `PipesOK`: that nobody but the last holder of an end
  clears its flag, and that the page a sleeper waits on is not freed.

From `FilesInv` follow `RefExact`, `EndsOpen`, `InOrder` and `NoLostSleeper`.
`OnlyExhaustion` is proved beside it: `dup`, `close`, `exit` and `pipe` never
find a count of zero, by the counts.

Only model-checked:

- All liveness (`SleepersWake`, `SpinnersMakeProgress`, `RequestsServed`,
  `ReadersWake`, `PromptReturns`): liveness under fairness is beyond the prover.
- `ShParse`, `Umalloc` and `Grep`: they compute with recursive definitions,
  about which the prover can do no induction.
- `Fs`, `Inode`, `Memory`, `Console` and `Runcmd`: their invariants are checked on the
  instances of section 3 and are not proved in general. `LinksAccounted` and
  `RefExact` of `Fs` count over all directories and all places of all calls at
  once; they would need an invariant of their own for each of the calls' steps.

## 5. What the runs and proofs say

Up to the stops of section 6: a process that can run is in exactly one run queue,
and it is the head of its level while it runs; no wakeup is lost, so waiting
parents and sleepers go on; locks handed across `swtch` are always given back;
without procdump CPUs never wait in a cycle. Two buffers never stand for one
block, and what is read is what was last written. Reference counts of files and
inodes are exact in every interleaving of the calls, error paths included; a link
count is never too small, and too large only by the entries that went with a
removed directory. Bytes leave a pipe in the order they came. No block belongs
to two files, and a file reads back what was written, after any crash outside
`itrunc`. The shell returns to its prompt when the command in the foreground is
done and not before, and the parser reads what its grammar means.

## 6. Where the models stop

The code can reach these. Unless the item says otherwise, they end a behaviour in
the models.

- `kill` of a sleeper panics in `enqueue_proc` (`kill_sleeper`).
- With two CPUs, a kernel stack is freed or resumed while in use (`smp_stack`),
  `proc_tick_MLFQ` releases the queue lock of another CPU after a migration, and
  `sys_fork` fills a queue whose lock it does not hold.
- With two CPUs, a wakeup can find a process asleep that schedule() on the other
  CPU has not yet taken out of its queue, and enqueues it a second time ("queued
  twice"; `QueuesIntact` says that nothing else does).
- With several CPUs, load balancing can give an idle CPU two processes of level 3;
  the idle process' `yield` then turns that level, and `yield_proc_fifo` closes the
  list into a ring ("run queue made a ring").
- `kill` of a zombie or of pid 0 leaves `killed` set for the next process in the slot
  (this ends nothing).
- `pipeclose` of both ends at once frees the page twice.
- `pipewrite` of a killed writer returns without waking the readers (this ends
  nothing; `NoLostSleeper` excepts them).
- With a full table, `sys_open` and `pipealloc` close a file of type FD_NONE,
  and `fileclose` panics.
- `ialloc` can reuse an inode that `iput` has just freed on disk while the cache
  still has it (`fs` stops at "inode still cached").
- `sys_unlink` of a directory leaves the link that its `..` was (`rmdir_links`), and
  a name can be made in a directory that has been removed. Neither ends a behaviour;
  `LinksAccounted` counts both.
- `itrunc` never frees the indirect block itself (`leaked` in `Inode`), and a
  crash inside it leaves an inode on disk that lists free blocks.
- A disk read that fails still marks the buffer valid. `ReadFails` chooses it; the
  run has a disk that does not fail.
- `sbrk` of a negative number copies more than the new memory holds ("overrun"), or
  panics in `kalloc` when nothing would be left. `sbrk` of no number of pages, which
  `malloc` above 32 KB may ask for, panics in `kalloc` as well.

## 7. Not modelled

- Hardware: `mp.c`, `lapic.c`, `ioapic.c`, `picirq.c`, `timer.c`'s registers,
  `bootasm.S`, `bootother.S`, `bootmain.c`, ports of `ide.c`; registers and
  tables without a protocol of their own. `kbd.c` is a table of characters.
- Output: `cprintf`, `cga_putc`, `printf.c`; text. `string.c`, `ulib.c`: copying.
- `syscall.c`: fetching of arguments and a table of functions.
- `sched.c` and the other policies as the only policy: other builds.
- The node lists of `sched_RR.c` and `sched_fifo.c`: a queue is a sequence here, up
  to the stops where a list would lose that shape.
- `intena` across `swtch`; the contents of kernel stacks; segment registers.
- Characters of path names (`skipelem`), `fstat`, `mknod`.
- `grep()`'s loop over its buffer, and the other user programs, which make calls
  that the models let programs make in any order. `usertests.c` and
  `forktest.c` are tests. `mkfs.c` runs on the host.
