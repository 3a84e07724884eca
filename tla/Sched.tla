-------------------------------- MODULE Sched --------------------------------
(***************************************************************************)
(* Processes and their scheduling, in the build the Makefile makes (MLFQ   *)
(* with load balancing): proc.c, sched_MLFQ.c on top of the queues of      *)
(* sched_RR.c and sched_fifo.c, the process calls of sysproc.c and the     *)
(* timer path of trap.c.                                                   *)
(*                                                                         *)
(* A CPU executes the kernel stack of its current process: kstack[p] is    *)
(* the stack of places where p's nested calls will continue, the head      *)
(* being where p is now.  swtch leaves a stack and takes up another.  A    *)
(* step goes from one lock operation to the next; what a CPU does between  *)
(* taking and releasing a lock that all accesses hold is one step.         *)
(***************************************************************************)
EXTENDS Integers, Sequences, FiniteSets

CONSTANTS NCPU,       \* ncpu
          NPROC,      \* slots of proc[]
          MaxSlices,  \* rq->max_slices of levels 1 and 2
          MaxSleep,   \* the longest sys_sleep, in ticks
          Calls       \* the system calls (and ^P) the programs make

ASSUME SchedAssumption ==
  /\ NCPU \in Nat \ {0}
  /\ NPROC \in Nat /\ NPROC > NCPU
  /\ MaxSlices \in [1..2 -> Nat \ {0}]
  /\ MaxSleep \in Nat \ {0}

VARIABLES proc,       \* struct proc proc[NPROC], and locals of the calls
          kstack,     \* the kernel stack of each slot
          q,          \* q[c][l]: level l of CPU c's run queue, head first
          curproc,    \* cpus[c].curproc, 0 before runIdle
          lock,       \* the CPU that holds each lock
          bal,        \* load_balance_MLFQ's locals on each CPU
          fault       \* why the machine stopped, "none" while it runs

vars == <<proc, kstack, q, curproc, lock, bal, fault>>

CPUs == 0..(NCPU - 1)
Slots == 1..NPROC
Levels == 1..3
InitProc == 1
Idle(c) == c + 2
Idles == {Idle(c) : c \in CPUs}

NoCpu == NCPU
Ptl == NCPU                \* proc_table_lock; the rq_lock of CPU c is lock c
TicksLock == NCPU + 1      \* tickslock
Locks == 0..(NCPU + 1)
Ticks == NPROC + 1         \* the channel &ticks; wait() sleeps on its own slot
NoRq == <<0, 0>>           \* p->rq == NULL; else <<CPU, level>>

Faults == {"none", "enqueue_proc no lock", "init exiting", "zombie exit", "release",
           "Error in tick_MLFQ", "run queue corrupted", "queued twice",
           "run queue made a ring", "kernel stack run twice",
           "kernel stack freed in use"}
States == {"UNUSED", "EMBRYO", "SLEEPING", "RUNNABLE", "RUNNING", "ZOMBIE"}

\* Where a process on no CPU will continue: after its schedule() or at forkret.
SwitchFrames == {"forkret", "wait_wake", "slp_wake", "tick_rel", "yield_rel",
                 "zombie"}
\* Where a CPU has interrupts on.
Interruptible == {"user", "fork", "fork_rq", "slp_relk"}
Frames == SwitchFrames \cup Interruptible \cup
  {"exit", "exit_rq", "wait", "wait_rq", "slp", "slp_rq",
   "sched", "dequeue", "pick", "tmr_ptl", "tmr_rq", "tmr_wake", "tmr_end",
   "tick", "bal", "bal_get", "bal_put", "yield", "dump"}

Procs == [state : States, parent : 0..NPROC, chan : 0..(NPROC + 1),
          killed : {0, 1},
          pid : {0, 1},              \* whether pid is nonzero
          rq : CPUs \X (0..3), timeslice : Nat,
          left : 0..MaxSleep,        \* sys_sleep: n - (ticks - ticks0)
          np : 0..NPROC,             \* sys_fork: np
          frq : CPUs,                \* sys_fork: cpus[cpu()].rq
          trq : CPUs]                \* proc_tick_MLFQ: rq

Unused == [state |-> "UNUSED", parent |-> 0, chan |-> 0, killed |-> 0,
           pid |-> 0, rq |-> NoRq, timeslice |-> 0, left |-> 0, np |-> 0,
           frq |-> 0, trq |-> 0]

Born == <<"forkret", "user">>
NoneMoved == [src |-> 0, moved |-> [l \in Levels |-> <<>>]]

-----------------------------------------------------------------------------
\* pinit, then userinit on CPU 0: init queued there and one idle per CPU.
Init ==
  /\ proc = [p \in Slots |->
       IF p = InitProc
         THEN [Unused EXCEPT !.state = "RUNNABLE", !.pid = 1, !.rq = <<0, 1>>,
                             !.timeslice = MaxSlices[1]]
       ELSE IF p \in Idles THEN [Unused EXCEPT !.state = "RUNNABLE", !.pid = 1]
       ELSE Unused]
  /\ kstack = [p \in Slots |-> Born]
  /\ q = [c \in CPUs |-> [l \in Levels |->
            IF c = 0 /\ l = 1 THEN <<InitProc>> ELSE <<>>]]
  /\ curproc = [c \in CPUs |-> 0]
  /\ lock = [l \in Locks |-> NoCpu]
  /\ bal = [c \in CPUs |-> NoneMoved]
  /\ fault = "none"

\* CPU c runs, and its current process is at frame f.
At(c, f) ==
  /\ fault = "none"
  /\ curproc[c] \in Slots
  /\ Head(kstack[curproc[c]]) = f

\* The current process goes on at f, returns from its innermost call, or calls
\* schedule() with its return address.
Goto(c, f) == kstack' = [kstack EXCEPT ![curproc[c]] = <<f>> \o Tail(@)]
Return(c) == kstack' = [kstack EXCEPT ![curproc[c]] = Tail(@)]
Schedule(c, f) == kstack' = [kstack EXCEPT ![curproc[c]] = <<"sched", f>> \o Tail(@)]

\* The current process is interrupted or enters the kernel.
Push(c, f) == kstack' = [kstack EXCEPT ![curproc[c]] = <<f>> \o @]

Free(l) == lock[l] = NoCpu
Panic(why) ==
  /\ fault' = why
  /\ UNCHANGED <<proc, kstack, q, curproc, lock, bal>>

IsLeast(s, S) == s \in S /\ \A t \in S : s <= t

\* Mutants of Enqueued: the slice is set for new processes only, p->rq is not
\* set.
MEnqueuedOnce(r, c, l) ==
  [r EXCEPT !.rq = <<c, l>>,
            !.timeslice = IF r.rq = NoRq THEN MaxSlices[l] ELSE @]
MEnqueuedNoRq(r, c, l) ==
  [r EXCEPT !.timeslice = IF l # 3 THEN MaxSlices[l] ELSE @]

\* The sub-class' enqueue_proc of level l: a queue new to p resets its slice.
Enqueued(r, c, l) ==
  [r EXCEPT !.rq = <<c, l>>,
            !.timeslice = IF r.rq # <<c, l>> /\ l # 3 THEN MaxSlices[l] ELSE @]

\* wakeup1's body for one sleeper, on CPU c
Woken(r, c) == Enqueued([r EXCEPT !.state = "RUNNABLE"], c, 1)

\* The sub-class' dequeue_proc, for a p that is in the queue.
IndexOf(s, p) == CHOOSE i \in 1..Len(s) : s[i] = p
InQueue(s, p) == \E i \in 1..Len(s) : s[i] = p
Without(s, p) ==
  SubSeq(s, 1, IndexOf(s, p) - 1) \o SubSeq(s, IndexOf(s, p) + 1, Len(s))

Queued(p) == \E c \in CPUs : \E l \in Levels : InQueue(q[c][l], p)

-----------------------------------------------------------------------------
\* runIdle: the CPU's first switch, to its idle process
RunIdle(c) ==
  /\ fault = "none" /\ curproc[c] = 0 /\ Free(c)
  /\ lock' = [lock EXCEPT ![c] = c]
  /\ curproc' = [curproc EXCEPT ![c] = Idle(c)]
  /\ proc' = [proc EXCEPT ![Idle(c)].state = "RUNNING"]
  /\ UNCHANGED <<kstack, q, bal, fault>>

\* forkret: a process' first time on a CPU
Forkret(c) ==
  /\ At(c, "forkret")
  /\ lock' = [lock EXCEPT ![c] = NoCpu]
  /\ Return(c)
  /\ UNCHANGED <<proc, q, curproc, bal, fault>>

\* A program that has not been killed makes a system call.
Calling(c, call) ==
  /\ At(c, "user")
  /\ call \in Calls
  /\ curproc[c] \notin Idles
  /\ proc[curproc[c]].killed = 0

-----------------------------------------------------------------------------
\* sys_fork: copyproc takes the first unused slot and copies the caller
Fork(c) ==
  /\ Calling(c, "fork")
  /\ Free(Ptl)
  /\ \E np \in Slots :
       /\ IsLeast(np, {s \in Slots : proc[s].state = "UNUSED"})
       /\ proc' = [proc EXCEPT
            ![np] = [@ EXCEPT !.state = "EMBRYO", !.pid = 1, !.rq = NoRq,
                              !.parent = curproc[c]],
            ![curproc[c]].np = np]
       /\ kstack' = [kstack EXCEPT ![np] = Born,
                                   ![curproc[c]] = <<"fork">> \o @]
  /\ UNCHANGED <<q, curproc, lock, bal, fault>>

\* copyproc: kalloc fails, and the slot is given back without its pid
ForkFail(c) ==
  /\ At(c, "fork")
  /\ proc' = [proc EXCEPT
       ![proc[curproc[c]].np] = [@ EXCEPT !.state = "UNUSED", !.parent = 0],
       ![curproc[c]].np = 0]
  /\ Return(c)
  /\ UNCHANGED <<q, curproc, lock, bal, fault>>

\* sys_fork: cpus[cpu()].rq is read with interrupts on ...
ForkCpu(c) ==
  /\ At(c, "fork")
  /\ proc' = [proc EXCEPT ![curproc[c]].frq = c]
  /\ Goto(c, "fork_rq")
  /\ UNCHANGED <<q, curproc, lock, bal, fault>>

\* ... its lock is taken, and the child queued on the CPU that runs by then
ForkEnqueue(c) ==
  /\ At(c, "fork_rq")
  /\ LET p == curproc[c]
         np == proc[p].np
     IN /\ Free(proc[p].frq)
        /\ IF proc[p].frq # c THEN Panic("enqueue_proc no lock")
           ELSE /\ proc' = [proc EXCEPT ![np] = Woken(@, c),
                                        ![p] = [@ EXCEPT !.np = 0, !.frq = 0]]
                /\ q' = [q EXCEPT ![c][1] = Append(@, np)]
                /\ Return(c)
                /\ UNCHANGED <<curproc, lock, bal, fault>>

-----------------------------------------------------------------------------
\* exit() called by the program, or by trap() for a killed process in user mode
Exit(c) ==
  /\ At(c, "user")
  /\ \/ Calling(c, "exit") /\ curproc[c] # InitProc
     \/ proc[curproc[c]].killed = 1
  /\ IF curproc[c] = InitProc
       THEN Panic("init exiting")
       ELSE /\ Push(c, "exit")
            /\ UNCHANGED <<proc, q, curproc, lock, bal, fault>>

ExitLock(c) ==
  /\ At(c, "exit")
  /\ Free(Ptl)
  /\ lock' = [lock EXCEPT ![Ptl] = c]
  /\ Goto(c, "exit_rq")
  /\ UNCHANGED <<proc, q, curproc, bal, fault>>

\* A sleeper in wait() is the only one on its own channel.
Waiting(p) == p # 0 /\ proc[p].state = "SLEEPING" /\ proc[p].chan = p

\* Mutant of Orphans: only the zombies among them are passed on.
MOrphans(p) == {s \in Slots : proc[s].parent = p /\ proc[s].state = "ZOMBIE"}
Orphans(p) == {s \in Slots : proc[s].parent = p}

\* wakeup1(cp->parent), children passed to init, init woken for a zombie among
\* them; then ZOMBIE, proc_table_lock released, and schedule()
ExitFinish(c) ==
  /\ At(c, "exit_rq")
  /\ Free(c)
  /\ LET p == curproc[c]
         wakesParent == Waiting(proc[p].parent)
         wakesInit == /\ Waiting(InitProc) /\ proc[p].parent # InitProc
                      /\ \E s \in Orphans(p) : proc[s].state = "ZOMBIE"
         wakes(s) == \/ s = proc[p].parent /\ wakesParent
                     \/ s = InitProc /\ wakesInit
         adopted(s) == IF s \in Orphans(p) THEN [proc[s] EXCEPT !.parent = InitProc]
                                           ELSE proc[s]
     IN IF \E s \in Slots : wakes(s) /\ Queued(s) THEN Panic("queued twice")
        ELSE
        /\ proc' = [s \in Slots |->
             IF s = p THEN [adopted(s) EXCEPT !.killed = 0, !.state = "ZOMBIE"]
             ELSE IF wakes(s) THEN Woken(adopted(s), c) ELSE adopted(s)]
        /\ q' = [q EXCEPT ![c][1] = @
             \o ((IF wakesParent THEN <<proc[p].parent>> ELSE <<>>)
                 \o (IF wakesInit THEN <<InitProc>> ELSE <<>>))]
        /\ lock' = [lock EXCEPT ![c] = c, ![Ptl] = NoCpu]
        /\ Schedule(c, "zombie")
        /\ UNCHANGED <<curproc, bal, fault>>

\* schedule() returned to exit()
ZombieReturns(c) ==
  /\ At(c, "zombie")
  /\ Panic("zombie exit")

-----------------------------------------------------------------------------
Wait(c) ==
  /\ Calling(c, "wait")
  /\ Free(Ptl)
  /\ lock' = [lock EXCEPT ![Ptl] = c]
  /\ Push(c, "wait")
  /\ UNCHANGED <<proc, q, curproc, bal, fault>>

Children(p) == {s \in Slots : proc[s].parent = p /\ proc[s].state # "UNUSED"}
Zombies(p) == {s \in Children(p) : proc[s].state = "ZOMBIE"}

\* wait: frees the first zombie child.  kfree of a stack that a CPU still
\* executes on is where the model of that machine ends.
WaitReap(c) ==
  /\ At(c, "wait")
  /\ \E z \in Slots :
       /\ IsLeast(z, Zombies(curproc[c]))
       /\ IF \E d \in CPUs : curproc[d] = z
            THEN Panic("kernel stack freed in use")
            ELSE /\ proc' = [proc EXCEPT ![z] = [Unused EXCEPT !.killed = proc[z].killed]]
                 /\ lock' = [lock EXCEPT ![Ptl] = NoCpu]
                 /\ kstack' = [kstack EXCEPT ![z] = Born, ![curproc[c]] = Tail(@)]
                 /\ UNCHANGED <<q, curproc, bal, fault>>

\* wait: returns -1
WaitNone(c) ==
  /\ At(c, "wait")
  /\ Zombies(curproc[c]) = {}
  /\ Children(curproc[c]) = {} \/ proc[curproc[c]].killed = 1
  /\ lock' = [lock EXCEPT ![Ptl] = NoCpu]
  /\ Return(c)
  /\ UNCHANGED <<proc, q, curproc, bal, fault>>

\* Mutant of WaitSleep: proc_table_lock is given up before sleep().
MWaitSleep(c) ==
  /\ At(c, "wait")
  /\ Zombies(curproc[c]) = {} /\ Children(curproc[c]) # {}
  /\ lock' = [lock EXCEPT ![Ptl] = NoCpu]
  /\ Goto(c, "wait_rq")
  /\ UNCHANGED <<proc, q, curproc, bal, fault>>

\* wait: sleep(cp, &proc_table_lock)
WaitSleep(c) ==
  /\ At(c, "wait")
  /\ Zombies(curproc[c]) = {} /\ Children(curproc[c]) # {}
  /\ proc[curproc[c]].killed = 0
  /\ Goto(c, "wait_rq")
  /\ UNCHANGED <<proc, q, curproc, lock, bal, fault>>

\* sleep: rq_lock taken, SLEEPING set, proc_table_lock released, schedule()
WaitRq(c) ==
  /\ At(c, "wait_rq")
  /\ Free(c)
  /\ lock' = [lock EXCEPT ![c] = c, ![Ptl] = NoCpu]
  /\ proc' = [proc EXCEPT ![curproc[c]] =
       [@ EXCEPT !.chan = curproc[c], !.state = "SLEEPING"]]
  /\ Schedule(c, "wait_wake")
  /\ UNCHANGED <<q, curproc, bal, fault>>

\* sleep: tidy up after schedule(), rq_lock given back
WaitWake(c) ==
  /\ At(c, "wait_wake")
  /\ Free(Ptl)
  /\ lock' = [lock EXCEPT ![Ptl] = c, ![c] = NoCpu]
  /\ proc' = [proc EXCEPT ![curproc[c]].chan = 0]
  /\ Goto(c, "wait")
  /\ UNCHANGED <<q, curproc, bal, fault>>

-----------------------------------------------------------------------------
\* sys_sleep(n) under tickslock
Sleep(c) ==
  /\ Calling(c, "sleep")
  /\ Free(TicksLock)
  /\ lock' = [lock EXCEPT ![TicksLock] = c]
  /\ \E n \in 1..MaxSleep : proc' = [proc EXCEPT ![curproc[c]].left = n]
  /\ Push(c, "slp")
  /\ UNCHANGED <<q, curproc, bal, fault>>

\* while(ticks - ticks0 < n){ if(cp->killed) ...
SleepReturn(c) ==
  /\ At(c, "slp")
  /\ proc[curproc[c]].left = 0 \/ proc[curproc[c]].killed = 1
  /\ lock' = [lock EXCEPT ![TicksLock] = NoCpu]
  /\ proc' = [proc EXCEPT ![curproc[c]].left = 0]
  /\ Return(c)
  /\ UNCHANGED <<q, curproc, bal, fault>>

\* ... sleep(&ticks, &tickslock): acquire(&proc_table_lock)
SleepPtl(c) ==
  /\ At(c, "slp")
  /\ proc[curproc[c]].left # 0 /\ proc[curproc[c]].killed = 0
  /\ Free(Ptl)
  /\ lock' = [lock EXCEPT ![Ptl] = c]
  /\ Goto(c, "slp_rq")
  /\ UNCHANGED <<proc, q, curproc, bal, fault>>

\* sleep: rq_lock taken, tickslock released, SLEEPING, proc_table_lock
\* released, schedule()
SleepRq(c) ==
  /\ At(c, "slp_rq")
  /\ Free(c)
  /\ lock' = [lock EXCEPT ![c] = c, ![Ptl] = NoCpu, ![TicksLock] = NoCpu]
  /\ proc' = [proc EXCEPT ![curproc[c]] =
       [@ EXCEPT !.chan = Ticks, !.state = "SLEEPING"]]
  /\ Schedule(c, "slp_wake")
  /\ UNCHANGED <<q, curproc, bal, fault>>

\* sleep: tidy up under proc_table_lock, which is taken with rq_lock held
SleepWake(c) ==
  /\ At(c, "slp_wake")
  /\ Free(Ptl)
  /\ lock' = [lock EXCEPT ![c] = NoCpu]
  /\ proc' = [proc EXCEPT ![curproc[c]].chan = 0]
  /\ Goto(c, "slp_relk")
  /\ UNCHANGED <<q, curproc, bal, fault>>

\* sleep: reacquire original lock
SleepRelock(c) ==
  /\ At(c, "slp_relk")
  /\ Free(TicksLock)
  /\ lock' = [lock EXCEPT ![TicksLock] = c]
  /\ Goto(c, "slp")
  /\ UNCHANGED <<proc, q, curproc, bal, fault>>

-----------------------------------------------------------------------------
\* Mutant of ScheduleTest: prev stays in its queue.
MScheduleTest(c) ==
  /\ At(c, "sched")
  /\ Goto(c, "pick")
  /\ UNCHANGED <<proc, q, curproc, lock, bal, fault>>

\* schedule, with this CPU's rq_lock held: is prev to leave its queue?
ScheduleTest(c) ==
  /\ At(c, "sched")
  /\ Goto(c, IF proc[curproc[c]].state \in {"RUNNABLE", "RUNNING"}
               THEN "pick" ELSE "dequeue")
  /\ UNCHANGED <<proc, q, curproc, lock, bal, fault>>

\* dequeue_proc -> dequeue_proc_MLFQ, from the queue p->rq says.  Taking out a
\* process that is not there frees another's node: the model ends.
ScheduleDequeue(c) ==
  /\ At(c, "dequeue")
  /\ LET p == curproc[c]
         rc == proc[p].rq[1]
         rl == proc[p].rq[2]
     IN IF p = Idle(c) \/ rl = 0
          THEN Goto(c, "pick") /\ UNCHANGED <<proc, q, curproc, lock, bal, fault>>
        ELSE IF InQueue(q[rc][rl], p)
          THEN /\ q' = [q EXCEPT ![rc][rl] = Without(@, p)]
               /\ Goto(c, "pick")
               /\ UNCHANGED <<proc, curproc, lock, bal, fault>>
          ELSE Panic("run queue corrupted")

\* Mutant of PickNext: the last of a level.
MPickNext(c) ==
  IF q[c][1] # <<>> THEN q[c][1][Len(q[c][1])]
  ELSE IF q[c][2] # <<>> THEN q[c][2][Len(q[c][2])]
  ELSE IF q[c][3] # <<>> THEN q[c][3][Len(q[c][3])]
  ELSE Idle(c)

\* pick_next_proc_MLFQ: the head of the first level that has one, else idle
PickNext(c) ==
  IF q[c][1] # <<>> THEN Head(q[c][1])
  ELSE IF q[c][2] # <<>> THEN Head(q[c][2])
  ELSE IF q[c][3] # <<>> THEN Head(q[c][3])
  ELSE Idle(c)

\* pick_next_proc, curproc, RUNNING and swtch.  Two CPUs on one kernel stack
\* is where the model of that machine ends.
SchedulePick(c) ==
  /\ At(c, "pick")
  /\ LET next == PickNext(c) IN
       IF \E d \in CPUs \ {c} : curproc[d] = next
         THEN Panic("kernel stack run twice")
         ELSE /\ curproc' = [curproc EXCEPT ![c] = next]
              /\ proc' = [proc EXCEPT ![next].state = "RUNNING"]
              /\ Return(c)
              /\ UNCHANGED <<q, lock, bal, fault>>

-----------------------------------------------------------------------------
\* trap, IRQ_TIMER: CPU 0 counts the tick under tickslock
Timer(c) ==
  /\ \E f \in Interruptible : At(c, f)
  /\ IF c = 0
       THEN /\ Free(TicksLock)
            /\ lock' = [lock EXCEPT ![TicksLock] = c]
            /\ proc' = [p \in Slots |-> [proc[p] EXCEPT
                          !.left = IF @ = 0 THEN 0 ELSE @ - 1]]
            /\ Push(c, "tmr_ptl")
       ELSE /\ Push(c, "tmr_end")
            /\ UNCHANGED <<proc, lock>>
  /\ UNCHANGED <<q, curproc, bal, fault>>

\* wakeup(&ticks)
TimerPtl(c) ==
  /\ At(c, "tmr_ptl")
  /\ Free(Ptl)
  /\ lock' = [lock EXCEPT ![Ptl] = c]
  /\ Goto(c, "tmr_rq")
  /\ UNCHANGED <<proc, q, curproc, bal, fault>>

TimerRq(c) ==
  /\ At(c, "tmr_rq")
  /\ Free(c)
  /\ lock' = [lock EXCEPT ![c] = c]
  /\ Goto(c, "tmr_wake")
  /\ UNCHANGED <<proc, q, curproc, bal, fault>>

\* Mutant of TickSleepers: the loop ends one slot early.
MTickSleepers ==
  {s \in Slots \ {NPROC} : proc[s].state = "SLEEPING" /\ proc[s].chan = Ticks}
TickSleepers == {s \in Slots : proc[s].state = "SLEEPING" /\ proc[s].chan = Ticks}

\* wakeup1: one round of its loop.  It enqueues whatever it finds asleep: a
\* process that another CPU's schedule() has not dequeued yet would be in two
\* queues, and the model of that machine ends (as in ExitFinish).
TimerWake(c) ==
  /\ At(c, "tmr_wake")
  /\ \E s \in Slots :
       /\ IsLeast(s, TickSleepers)
       /\ IF Queued(s) THEN Panic("queued twice")
          ELSE /\ proc' = [proc EXCEPT ![s] = Woken(@, c)]
               /\ q' = [q EXCEPT ![c][1] = Append(@, s)]
               /\ UNCHANGED <<kstack, curproc, lock, bal, fault>>

TimerRelease(c) ==
  /\ At(c, "tmr_wake")
  /\ TickSleepers = {}
  /\ lock' = [lock EXCEPT ![c] = NoCpu, ![Ptl] = NoCpu, ![TicksLock] = NoCpu]
  /\ Goto(c, "tmr_end")
  /\ UNCHANGED <<proc, q, curproc, bal, fault>>

\* the end of trap: exit if killed in user mode, else proc_tick_MLFQ for the
\* process that was running
TimerEnd(c) ==
  /\ At(c, "tmr_end")
  /\ LET p == curproc[c]
         r == proc[p]
         inUser == kstack[p][2] = "user"
     IN IF r.killed = 1 /\ inUser
          THEN IF p = InitProc THEN Panic("init exiting")
               ELSE /\ Goto(c, "exit")
                    /\ UNCHANGED <<proc, q, curproc, lock, bal, fault>>
        ELSE IF r.state # "RUNNING" \/ (p # Idle(c) /\ r.rq = <<c, 3>>)
          THEN Return(c) /\ UNCHANGED <<proc, q, curproc, lock, bal, fault>>
        ELSE IF p = Idle(c)
          THEN Goto(c, "bal") /\ UNCHANGED <<proc, q, curproc, lock, bal, fault>>
        ELSE IF r.rq \in {<<c, 1>>, <<c, 2>>}
          THEN /\ proc' = [proc EXCEPT ![p] = [@ EXCEPT
                            !.timeslice = r.timeslice - 1,
                            !.trq = IF r.timeslice = 1 THEN c ELSE 0]]
               /\ IF r.timeslice = 1 THEN Goto(c, "tick") ELSE Return(c)
               /\ UNCHANGED <<q, curproc, lock, bal, fault>>
          ELSE Panic("Error in tick_MLFQ")

\* proc_tick_MLFQ: the slice is used up, one level down and schedule()
TickDemote(c) ==
  /\ At(c, "tick")
  /\ Free(c)
  /\ LET p == curproc[c]
         rc == proc[p].rq[1]
         l == proc[p].rq[2]
     IN IF l # 3 /\ InQueue(q[rc][l], p)
          THEN /\ q' = [q EXCEPT ![rc][l] = Without(@, p),
                                 ![rc][l + 1] = Append(@, p)]
               /\ proc' = [proc EXCEPT ![p] =
                    Enqueued([@ EXCEPT !.state = "RUNNABLE"], rc, l + 1)]
               /\ lock' = [lock EXCEPT ![c] = c]
               /\ Schedule(c, "tick_rel")
               /\ UNCHANGED <<curproc, bal, fault>>
          ELSE Panic("run queue corrupted")

\* proc_tick_MLFQ: release(&(rq->rq_lock)) with the rq of before schedule()
TickRelease(c) ==
  /\ At(c, "tick_rel")
  /\ LET rq == proc[curproc[c]].trq IN
       IF lock[rq] = c
         THEN /\ lock' = [lock EXCEPT ![rq] = NoCpu]
              /\ proc' = [proc EXCEPT ![curproc[c]].trq = 0]
              /\ Return(c)
              /\ UNCHANGED <<q, curproc, bal, fault>>
         ELSE Panic("release")

-----------------------------------------------------------------------------
\* load_balance_MLFQ, on an idle CPU: the first of the longest queues
Load(c) == Len(q[c][1]) + Len(q[c][2]) + Len(q[c][3])

\* Mutant of BalanceFind: the idle CPU's own queue stays locked meanwhile.
MBalanceFind(c) ==
  /\ At(c, "bal")
  /\ Free(c)
  /\ \E src \in CPUs \ {c} : bal' = [bal EXCEPT ![c].src = src]
  /\ lock' = [lock EXCEPT ![c] = c]
  /\ Goto(c, "bal_get")
  /\ UNCHANGED <<proc, q, curproc, fault>>

BalanceFind(c) ==
  /\ At(c, "bal")
  /\ IF \A d \in CPUs : Load(d) = 0
       THEN Goto(c, "yield") /\ UNCHANGED bal
       ELSE \E src \in CPUs :
              /\ IsLeast(src, {d \in CPUs : \A e \in CPUs : Load(e) <= Load(d)})
              /\ bal' = [bal EXCEPT ![c].src = src]
              /\ Goto(c, "bal_get")
  /\ UNCHANGED <<proc, q, curproc, lock, fault>>

\* get_proc_RR and get_proc_fifo: half of a level, from behind its head
Taken(s) == SubSeq(s, 2, 1 + (Len(s) \div 2))

Kept(s) ==
  IF s = <<>> THEN s
  ELSE <<Head(s)>> \o SubSeq(s, 2 + (Len(s) \div 2), Len(s))

BalanceGet(c) ==
  /\ At(c, "bal_get")
  /\ Free(bal[c].src)
  /\ LET src == bal[c].src
     IN
       /\ bal' = [bal EXCEPT ![c] =
                    [src |-> 0, moved |-> [l \in Levels |-> Taken(q[src][l])]]]
       /\ q' = [q EXCEPT ![src] = [l \in Levels |-> Kept(@[l])]]
  /\ Goto(c, "bal_put")
  /\ UNCHANGED <<proc, curproc, lock, fault>>

BalancePut(c) ==
  /\ At(c, "bal_put")
  /\ Free(c)
  /\ q' = [q EXCEPT ![c] = [l \in Levels |-> @[l] \o bal[c].moved[l]]]
  /\ proc' = [p \in Slots |->
       IF \E l \in Levels : InQueue(bal[c].moved[l], p)
         THEN Enqueued(proc[p], c, CHOOSE l \in Levels : InQueue(bal[c].moved[l], p))
         ELSE proc[p]]
  /\ bal' = [bal EXCEPT ![c] = NoneMoved]
  /\ Goto(c, "yield")
  /\ UNCHANGED <<curproc, lock, fault>>

\* yield_proc_MLFQ turns the first level that has a process: yield_proc_RR moves
\* on by one, and yield_proc_fifo returns when there is no other process.
Turned(s) == Append(Tail(s), Head(s))
Yielded(qs) ==
  IF qs[1] # <<>> THEN [qs EXCEPT ![1] = Turned(@)]
  ELSE IF qs[2] # <<>> THEN [qs EXCEPT ![2] = Turned(@)]
  ELSE qs

\* yield_proc_fifo turns level 3, where the node that becomes the last keeps
\* its next: the list is a ring and an empty level is not seen any more.
FifoTurns(qs) == qs[1] = <<>> /\ qs[2] = <<>> /\ Len(qs[3]) > 1

\* yield, which only the idle processes' ticks call.  A ring in place of the
\* list of level 3 is where the model of that machine ends.
Yield(c) ==
  /\ At(c, "yield")
  /\ Free(c)
  /\ IF FifoTurns(q[c]) THEN Panic("run queue made a ring")
     ELSE /\ lock' = [lock EXCEPT ![c] = c]
          /\ proc' = [proc EXCEPT ![curproc[c]].state = "RUNNABLE"]
          /\ q' = [q EXCEPT ![c] = Yielded(@)]
          /\ Schedule(c, "yield_rel")
          /\ UNCHANGED <<curproc, bal, fault>>

YieldRelease(c) ==
  /\ At(c, "yield_rel")
  /\ lock' = [lock EXCEPT ![c] = NoCpu]
  /\ Return(c)
  /\ UNCHANGED <<proc, q, curproc, bal, fault>>

-----------------------------------------------------------------------------
\* kill(pid), for any nonzero pid in the table and for 0, which an unused slot
\* can carry; enqueue_proc panics, since kill does not hold rq_lock
Kill(c) ==
  /\ Calling(c, "kill")
  /\ Free(Ptl)
  /\ \E t \in Slots :
       /\ proc[t].pid = 1 \/ IsLeast(t, {s \in Slots : proc[s].pid = 0})
       /\ IF proc[t].state = "SLEEPING"
            THEN Panic("enqueue_proc no lock")
            ELSE /\ proc' = [proc EXCEPT ![t].killed = 1]
                 /\ UNCHANGED <<kstack, q, curproc, lock, bal, fault>>

\* ^P: the keyboard interrupt of CPU 0 runs procdump
Dump(c) ==
  /\ c = 0 /\ "dump" \in Calls
  /\ \E f \in Interruptible : At(c, f)
  /\ Free(Ptl)
  /\ lock' = [lock EXCEPT ![Ptl] = c]
  /\ Push(c, "dump")
  /\ UNCHANGED <<proc, q, curproc, bal, fault>>

\* procdump locks the queues of all other CPUs, one by one
DumpLock(c) ==
  /\ At(c, "dump")
  /\ \E d \in CPUs :
       /\ IsLeast(d, {e \in CPUs \ {c} : lock[e] # c})
       /\ Free(d)
       /\ lock' = [lock EXCEPT ![d] = c]
  /\ UNCHANGED <<proc, kstack, q, curproc, bal, fault>>

DumpDone(c) ==
  /\ At(c, "dump")
  /\ \A d \in CPUs \ {c} : lock[d] = c
  /\ lock' = [l \in Locks |-> IF l = c \/ l = TicksLock THEN lock[l] ELSE NoCpu]
  /\ Return(c)
  /\ UNCHANGED <<proc, q, curproc, bal, fault>>

\* panic() stops every CPU
Stopped == fault # "none" /\ UNCHANGED vars

-----------------------------------------------------------------------------
UserStep(c) == Fork(c) \/ Exit(c) \/ Wait(c) \/ Sleep(c) \/ Kill(c)

KernelStep(c) ==
  \/ RunIdle(c) \/ Forkret(c) \/ ForkFail(c) \/ ForkCpu(c) \/ ForkEnqueue(c)
  \/ ExitLock(c) \/ ExitFinish(c) \/ ZombieReturns(c)
  \/ WaitReap(c) \/ WaitNone(c) \/ WaitSleep(c) \/ WaitRq(c) \/ WaitWake(c)
  \/ SleepReturn(c) \/ SleepPtl(c) \/ SleepRq(c) \/ SleepWake(c) \/ SleepRelock(c)
  \/ ScheduleTest(c) \/ ScheduleDequeue(c) \/ SchedulePick(c)
  \/ TimerPtl(c) \/ TimerRq(c) \/ TimerWake(c) \/ TimerRelease(c) \/ TimerEnd(c)
  \/ TickDemote(c) \/ TickRelease(c)
  \/ BalanceFind(c) \/ BalanceGet(c) \/ BalancePut(c) \/ Yield(c) \/ YieldRelease(c)
  \/ DumpLock(c) \/ DumpDone(c)

Next ==
  \/ \E c \in CPUs : UserStep(c) \/ KernelStep(c) \/ Timer(c) \/ Dump(c)
  \/ Stopped

Spec == Init /\ [][Next]_vars

\* A CPU keeps executing its kernel code, and a timer interrupt, once pending,
\* stays pending until the CPU has interrupts on.  Programs owe nothing.
Fairness == \A c \in CPUs : WF_vars(KernelStep(c)) /\ SF_vars(Timer(c))

FairSpec == Spec /\ Fairness
=============================================================================
