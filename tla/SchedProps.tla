----------------------------- MODULE SchedProps -----------------------------
(***************************************************************************)
(* What the scheduler of Sched promises: its invariants, the inductive     *)
(* invariant IInv they follow from (SchedProofs), and its liveness.        *)
(***************************************************************************)
EXTENDS Sched

\* The states of the machine; a time slice never falls below zero
\* (proc_tick_MLFQ only tests it for being zero).
TypeOK ==
  /\ proc \in [Slots -> Procs]
  /\ kstack \in [Slots -> Seq(Frames)]
  /\ q \in [CPUs -> [Levels -> Seq(Slots)]]
  /\ curproc \in [CPUs -> 0..NPROC]
  /\ lock \in [Locks -> CPUs \cup {NoCpu}]
  /\ bal \in [CPUs -> [src : CPUs, moved : [Levels -> Seq(Slots)]]]
  /\ fault \in Faults

\* The frame CPU c is at; "boot" before runIdle.
Where(c) == IF curproc[c] = 0 THEN "boot" ELSE Head(kstack[curproc[c]])

InSchedule == {"sched", "dequeue", "pick"}

-----------------------------------------------------------------------------
(* Run queues *)

NoDup(s) == \A i, j \in 1..Len(s) : s[i] = s[j] => i = j

\* p is in load_balance_MLFQ's hands, between two queues.
InFlight(p) == \E c \in CPUs : \E l \in Levels : InQueue(bal[c].moved[l], p)

\* p is to have a place in the queues: it can run, or schedule() has not
\* dequeued it yet.
CanRun(p) ==
  /\ p \notin Idles
  /\ \/ proc[p].state \in {"RUNNABLE", "RUNNING"}
     \/ \E c \in CPUs : curproc[c] = p /\ Where(c) \in {"sched", "dequeue"}

\* No process is queued twice, forgotten, or left in a queue: one that can run
\* has one place in the queues (or in load_balance_MLFQ's hands), one that
\* cannot has none once schedule() has dequeued it; idle processes are never
\* queued, and p->rq names the queue p is in.
QueueExact ==
  /\ \A c \in CPUs : \A l \in Levels : NoDup(q[c][l]) /\ NoDup(bal[c].moved[l])
  /\ \A p \in Slots :
       /\ CanRun(p) <=> Queued(p) \/ InFlight(p)
       /\ ~(Queued(p) /\ InFlight(p))
       /\ \A c \in CPUs : \A l \in Levels :
            /\ InQueue(q[c][l], p) => proc[p].rq = <<c, l>>
            /\ InQueue(bal[c].moved[l], p) =>
                 \A d \in CPUs : \A k \in Levels :
                   InQueue(bal[d].moved[k], p) => d = c /\ k = l

\* Outside schedule() the process a CPU executes is the head of its level in
\* that CPU's queue: wakeups, forks and load balancing never displace it, so
\* pick_next_proc hands the same process to no other CPU.
CurrentIsHead ==
  \A c \in CPUs :
    LET p == curproc[c] IN
      (p # 0 /\ p \notin Idles /\ Where(c) \notin InSchedule) =>
        \E l \in Levels : /\ proc[p].rq = <<c, l>>
                          /\ q[c][l] # <<>>
                          /\ Head(q[c][l]) = p

\* A process queued on a round-robin level has ticks left, whatever mix of
\* sleeping, migration and demotion brought it there (else timeslice would
\* pass zero unseen and the process would never be demoted).
TimesliceLive ==
  \A c \in CPUs : \A l \in 1..2 : \A i \in 1..Len(q[c][l]) :
    LET p == q[c][l][i] IN
      proc[p].timeslice >= 1 \/ (curproc[c] = p /\ Where(c) = "tick")

-----------------------------------------------------------------------------
(* Panics, sleepers and parents *)

\* One CPU without kill: no sequence of fork, exit, wait, sleep, ticks and ^P
\* panics or corrupts a run queue.
NoFault == fault = "none"

\* One CPU: the only panics are the ones kill() leads to.
OnlyKillPanics == fault \in {"none", "enqueue_proc no lock", "init exiting", "zombie exit"}

\* schedule() and proc_tick_MLFQ find the process in the queue that p->rq names,
\* and on a level that it can be demoted from.
Found == fault \notin {"run queue corrupted", "Error in tick_MLFQ"}

\* wakeup1 on one CPU finds asleep a process that schedule() on another CPU has
\* not taken out of its queue yet: sleep() gave up proc_table_lock before.
WakeupRace ==
  \E c, d \in CPUs :
    /\ c # d
    /\ Where(c) \in {"tmr_wake", "exit_rq"}
    /\ Where(d) \in {"sched", "dequeue"}
    /\ proc[curproc[d]].state = "SLEEPING"

\* What can damage a run queue, on any number of CPUs: dequeues and demotions
\* never do; a process is queued a second time only in the race of a wakeup
\* with the schedule() of a sleep on another CPU; and level 3 becomes a ring
\* only where a load balancer has other CPUs to take processes from.
QueuesIntact ==
  /\ Found
  /\ fault = "queued twice" => WakeupRace
  /\ fault = "run queue made a ring" => NCPU > 1

\* On any number of CPUs, a machine without kill() does not lose init, and
\* nobody returns from the schedule() of exit().
ExitsFinal == "kill" \notin Calls => fault \notin {"init exiting", "zombie exit"}

\* One kernel stack is never run by two CPUs, and never freed under one.
StackExclusive ==
  fault \notin {"kernel stack run twice", "kernel stack freed in use"}

\* kill() of a sleeping process wakes it, and does not panic.
KillWakes == fault # "enqueue_proc no lock"

\* wakeup is never missed: nobody sleeps in wait() over a zombie child, and
\* nobody sleeps in sys_sleep with its time up, except while CPU 0's timer
\* interrupt is on its way to it.
NoLostWakeup ==
  \A p \in Slots : proc[p].state = "SLEEPING" =>
    IF proc[p].chan = Ticks
      THEN proc[p].left = 0 => Where(0) \in {"tmr_ptl", "tmr_rq", "tmr_wake"}
      ELSE Zombies(p) = {}

\* exit() leaves no orphans: the parent of every process but init and the idle
\* processes has not exited, so there is someone to reap it.
ParentAlive ==
  \A p \in Slots \ (Idles \cup {InitProc}) : proc[p].state # "UNUSED" =>
    /\ proc[p].parent # 0
    /\ proc[proc[p].parent].state \notin {"UNUSED", "EMBRYO", "ZOMBIE"}

-----------------------------------------------------------------------------
(* Locks *)

\* A CPU at frame f holds lock l.
Holds(c, f, l) ==
  \/ l = Ptl /\ f \in {"exit_rq", "wait", "wait_rq", "slp_rq", "tmr_rq", "tmr_wake", "dump"}
  \/ l = TicksLock /\ f \in {"slp", "slp_rq", "tmr_ptl", "tmr_rq", "tmr_wake"}
  \/ l = c /\ f \in SwitchFrames \cup InSchedule \cup {"tmr_wake"}

\* The locks a CPU holds are decided by where it is, across every schedule():
\* what one process took before swtch, the next one gives back.  procdump
\* holds some of the other queues' locks as well.
LockDiscipline ==
  \A c \in CPUs : \A l \in Locks :
    \/ Where(c) = "dump" /\ l \in CPUs \ {c}
    \/ lock[l] = c <=> Holds(c, Where(c), l)

\* CPU c is acquiring lock l.
Wants(c, l) ==
  LET f == Where(c)
      p == curproc[c]
  IN \/ l = Ptl /\ f \in {"exit", "wait_wake", "slp_wake", "tmr_ptl"}
     \/ l = Ptl /\ f = "slp" /\ proc[p].left # 0 /\ proc[p].killed = 0
     \/ l = TicksLock /\ f = "slp_relk"
     \/ l = c /\ f \in {"exit_rq", "wait_rq", "slp_rq", "tmr_rq", "tick", "bal_put", "yield"}
     \/ f = "fork_rq" /\ l = proc[p].frq
     \/ f = "bal_get" /\ l = bal[c].src
     \/ f = "dump" /\ IsLeast(l, {e \in CPUs \ {c} : lock[e] # c})

\* A set of CPUs all spinning on locks that CPUs of the set hold
Wedged(D) ==
  D # {} /\ \A c \in D : \E l \in Locks : Wants(c, l) /\ lock[l] \in D

\* However sleep, wakeup, exit, ticks and load balancing interleave on the
\* CPUs, those outside procdump never wait for each other in a cycle (and none
\* for itself), although sleep takes proc_table_lock with rq_lock held and
\* the others take the two in the opposite order.
NoDeadlock ==
  \A D \in SUBSET {c \in CPUs : Where(c) # "dump"} : ~Wedged(D)

\* The same with procdump among them.
NeverWedged == \A D \in SUBSET CPUs : ~Wedged(D)

-----------------------------------------------------------------------------
(* Liveness *)

\* A sleeper on the tick is eventually woken, even if no program ever gives up
\* the CPU: ticks go on, and each wakes all sleepers.
SleepersWake ==
  \A p \in Slots :
    (proc[p].state = "SLEEPING" /\ proc[p].chan = Ticks) ~>
      (proc[p].state # "SLEEPING" \/ fault # "none")

\* A process that computes in user mode while another one is runnable on its
\* CPU gives up the CPU on some clock tick.
TickPreempts ==
  \A c \in CPUs : \A p \in Slots \ Idles :
    (/\ curproc[c] = p
     /\ \E s \in Slots \ {p} : \E l \in Levels : InQueue(q[c][l], s)) ~>
      (curproc[c] # p \/ ~\E s \in Slots \ {p} : \E l \in Levels : InQueue(q[c][l], s)
       \/ fault # "none")

-----------------------------------------------------------------------------
(* The inductive invariant *)

TrapFrames == {"tmr_ptl", "tmr_rq", "tmr_wake", "tmr_end", "tick", "tick_rel",
               "bal", "bal_get", "bal_put", "yield", "yield_rel", "dump"}

\* Where the caller of the code at frame f may be
Callers(f) ==
  IF f \in InSchedule THEN SwitchFrames \ {"forkret"}
  ELSE IF f \in TrapFrames THEN Interruptible
  ELSE IF f = "user" THEN {}
  ELSE {"user"}

\* p is not in a call that it cannot make: an idle process makes none and has
\* no slice to use up, the others do not balance queues or yield, init does not
\* exit, and in sys_fork there is a child.
Allowed(p, f) ==
  /\ p \in Idles => f \notin {"fork", "fork_rq", "wait", "wait_rq", "wait_wake",
                              "slp", "slp_rq", "slp_wake", "slp_relk", "tick"}
  /\ p \notin Idles => f \notin {"bal", "bal_get", "bal_put", "yield"}
  /\ p = InitProc => f \notin {"exit", "exit_rq", "zombie"}
  /\ f \in {"fork", "fork_rq"} => proc[p].np # 0

OnStack(s, f) == \E i \in 1..Len(s) : s[i] = f

WellNested(s) ==
  /\ Len(s) >= 1
  /\ s[Len(s)] = "user"
  /\ \A i \in 1..(Len(s) - 1) : s[i + 1] \in Callers(s[i])

\* Every kernel stack is well nested, and that of a process on no CPU ends in
\* schedule() or at forkret.
StacksOK ==
  \A p \in Slots :
    /\ WellNested(kstack[p])
    /\ \A f \in Frames : OnStack(kstack[p], f) => Allowed(p, f)
    /\ (\A c \in CPUs : curproc[c] # p) => Head(kstack[p]) \in SwitchFrames

\* No two CPUs have the same current process, and a foreign idle process is
\* never current.
RunningOK ==
  \A c \in CPUs : curproc[c] # 0 =>
    /\ \A d \in CPUs : curproc[d] = curproc[c] => d = c
    /\ curproc[c] \in Idles => curproc[c] = Idle(c)
    /\ proc[curproc[c]].state \notin {"UNUSED", "EMBRYO"}
    /\ Where(c) \notin InSchedule => proc[curproc[c]].state = "RUNNING"

\* The child a living process is making is its own; nobody is its own parent;
\* init and the idle processes stay, and have no parent.
FamilyOK ==
  /\ \A p \in Slots :
       /\ proc[p].np # 0 /\ proc[p].state # "ZOMBIE" =>
            proc[proc[p].np].state = "EMBRYO" /\ proc[proc[p].np].parent = p
       /\ proc[p].parent # p
  /\ \A p \in Idles :
       /\ proc[p].state \notin {"UNUSED", "EMBRYO", "SLEEPING"}
       /\ proc[p].parent = 0 /\ proc[p].np = 0
  /\ proc[InitProc].state \notin {"UNUSED", "EMBRYO", "ZOMBIE"}
  /\ proc[InitProc].parent = 0

\* A process entering schedule() is in its CPU's queue until it is dequeued,
\* and processes in flight are on their way.
ScheduleOK ==
  \A c \in CPUs :
    /\ (curproc[c] # 0 /\ curproc[c] \notin Idles /\ Where(c) \in {"sched", "dequeue"}) =>
         \E l \in Levels : InQueue(q[c][l], curproc[c])
    /\ Where(c) = "dequeue" => proc[curproc[c]].state \in {"SLEEPING", "ZOMBIE"}
    /\ Where(c) # "bal_put" => \A l \in Levels : bal[c].moved[l] = <<>>

\* A process whose last queue was a round-robin level has ticks left.
SlicesOK ==
  \A p \in Slots : proc[p].rq[2] \in {1, 2} =>
    \/ proc[p].timeslice >= 1
    \/ \E c \in CPUs : curproc[c] = p /\ Where(c) = "tick"

\* What is tested under a lock still holds when the process goes to sleep.
SleepOK ==
  /\ \A c \in CPUs :
       /\ Where(c) = "wait_rq" => Zombies(curproc[c]) = {}
       /\ Where(c) = "slp_rq" => proc[curproc[c]].left # 0
  /\ \A p \in Slots : proc[p].state = "SLEEPING" => proc[p].chan \in {p, Ticks}

\* The strengthening that every step preserves, on any number of CPUs: stacks,
\* queues, locks, slices and families are consistent with each other.
IInv ==
  /\ TypeOK /\ StacksOK /\ RunningOK /\ FamilyOK /\ LockDiscipline
  /\ QueueExact /\ CurrentIsHead /\ ScheduleOK /\ SlicesOK
  /\ SleepOK /\ NoLostWakeup /\ ParentAlive

\* A process whose slice is used up can be demoted.
TickOK ==
  \A p \in Slots : OnStack(kstack[p], "tick") => proc[p].rq[2] \in {1, 2}

\* Nothing waits on level 3 of a CPU that is idle (on one CPU): idle is picked
\* when all levels are empty, and a process gets to level 3 by a tick only.
FifoIdle ==
  \A c \in CPUs : curproc[c] \notin Slots \ Idles =>
    q[c][3] = <<>> /\ bal[c].moved[3] = <<>>

\* Only kill() makes an idle process exit, and an exited process run again.
ExitOK ==
  /\ \A p \in Slots : /\ proc[p].killed = 0
                      /\ OnStack(kstack[p], "zombie") => proc[p].state = "ZOMBIE"
  /\ \A p \in Idles : \A f \in {"exit", "exit_rq", "zombie"} : ~OnStack(kstack[p], f)

\* With IInv, what rules the panics out, and the panics that are ruled out.
FInv ==
  /\ TickOK
  /\ "kill" \notin Calls => ExitOK
  /\ Found /\ ExitsFinal
  /\ NCPU = 1 => OnlyKillPanics
  /\ NCPU = 1 /\ "kill" \notin Calls => NoFault
=============================================================================
