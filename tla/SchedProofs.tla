---------------------------- MODULE SchedProofs -----------------------------
(***************************************************************************)
(* Theorems about Sched.  First the rest of the argument that every step   *)
(* that keeps IInv keeps FInv: schedule() and the timer interrupt.  Then   *)
(* IInv and FInv are invariants of the scheduler, for any number of CPUs   *)
(* and processes, and the safety properties follow.                        *)
(***************************************************************************)
EXTENDS SchedProcs, SchedSwitch

-----------------------------------------------------------------------------
(* schedule() *)

\* A process that calls schedule() without being runnable is in the queue that
\* its rq names: dequeue_proc finds it.
LEMMA ScheduleDequeueKept ==
  ASSUME IInv, FInv, NEW c \in CPUs, ScheduleDequeue(c)
  PROVE  FInv'
<1> USE InvParts
<1> DEFINE p == curproc[c]
<1>1. At(c, "dequeue") /\ p \in Slots /\ p # 0 /\ Where(c) = "dequeue"
  BY AtWhere, ZenonT(30) DEF ScheduleDequeue
<1>2. Goto(c, "pick") /\ proc' = proc /\ fault' = fault
  <2>1. CASE p \in Idles
    <3>1. p = Idle(c)
      BY <1>1, <2>1, Zenon DEF RunningOK
    <3> QED BY <3>1, Zenon DEF ScheduleDequeue
  <2>2. CASE p \notin Idles
    <3>1. PICK l \in Levels : InQueue(q[c][l], p)
      BY <1>1, <2>2, Zenon DEF ScheduleOK
    <3>2. proc[p].rq = <<c, l>>
      BY <1>1, <3>1, ZenonT(30) DEF QueueExact
    <3>3. proc[p].rq[1] = c /\ proc[p].rq[2] = l /\ l # 0
      BY <3>2 DEF Levels
    <3>4. p # Idle(c)
      BY <2>2, IdleSlots, Zenon
    <3> QED BY <3>1, <3>3, <3>4, Zenon DEF ScheduleDequeue
  <2> QED BY <2>1, <2>2, Zenon
<1>3. "pick" \in Frames \ MarkFrames
  BY Zenon DEF Frames, MarkFrames
<1> QED BY <1>1, <1>2, <1>3, SameTame, MoveKept, Zenon

\* schedule() runs no process that has exited.
LEMMA SchedulePickKept ==
  ASSUME IInv, FInv, NEW c \in CPUs, SchedulePick(c)
  PROVE  FInv'
<1> USE InvParts
<1>1. At(c, "pick") /\ Where(c) = "pick" /\ proc \in [Slots -> Procs]
  BY AtWhere, ZenonT(30) DEF SchedulePick, TypeOK
<1>2. PICK next \in Slots : next = PickNext(c)
  BY PickNextHead, Zenon
<1>3. \/ next = Idle(c)
      \/ \E l \in Levels : q[c][l] # <<>> /\ Head(q[c][l]) = next
  BY <1>2, PickNextHead, Zenon
<1>4. CASE \E d \in CPUs \ {c} : curproc[d] = next
  <2>1. Panic("kernel stack run twice")
    BY <1>2, <1>4, Zenon DEF SchedulePick
  <2>2. NCPU # 1
    BY <1>4, OneCpu, Zenon
  <2> QED BY <2>1, <2>2, StopsKept, Zenon
<1>5. CASE \A d \in CPUs \ {c} : curproc[d] # next
  <2>1. proc' = [proc EXCEPT ![next].state = "RUNNING"] /\ Return(c) /\ fault' = fault
    BY <1>2, <1>5, ZenonT(30) DEF SchedulePick
  <2>2. /\ proc'[next].killed = proc[next].killed /\ proc'[next].rq = proc[next].rq
        /\ \A p \in Slots : p # next => proc'[p] = proc[p]
    <3>1. proc[next] \in Procs
      BY <1>1, Zenon
    <3>2. /\ proc'[next] = [proc[next] EXCEPT !.state = "RUNNING"]
          /\ \A p \in Slots : p # next => proc'[p] = proc[p]
      BY <1>1, <2>1, Zenon
    <3> QED BY <3>1, <3>2, Zenon DEF Procs
  <2>3. ASSUME "kill" \notin Calls, proc[next].state = "ZOMBIE"
        PROVE  ~OnStack(kstack[next], "zombie")
    <3>1. CASE next = Idle(c)
      BY <2>3, <3>1, IdleSlots, Zenon DEF FInv, ExitOK
    <3>2. ASSUME NEW l \in Levels, q[c][l] # <<>>, Head(q[c][l]) = next PROVE FALSE
      <4>1. InQueue(q[c][l], next)
        BY <3>2, Types, HeadInQueue, Zenon
      <4>2. CanRun(next)
        BY <4>1, Zenon DEF QueueExact, Queued
      <4> QED BY <1>1, <1>5, <2>3, <4>2, Zenon DEF CanRun
    <3> QED BY <1>3, <3>1, <3>2, Zenon
  <2>4. Tame
    BY <2>2, <2>3, Zenon DEF Tame
  <2>5. "pick" \in Frames \ MarkFrames
    BY Zenon DEF Frames, MarkFrames
  <2> QED BY <1>1, <2>1, <2>4, <2>5, MoveKept, Zenon
<1> QED BY <1>4, <1>5, Zenon

\* A CPU's first process is its idle process, which has not exited.
LEMMA RunIdleKept ==
  ASSUME IInv, FInv, NEW c \in CPUs, RunIdle(c)
  PROVE  FInv'
<1> USE InvParts
<1>1. /\ proc' = [proc EXCEPT ![Idle(c)].state = "RUNNING"]
      /\ kstack' = kstack /\ fault' = fault
  BY Zenon DEF RunIdle
<1>2. PICK i \in Slots : i = Idle(c) /\ i \in Idles
  BY IdleSlots, Zenon
<1>3. proc \in [Slots -> Procs] /\ proc[i] \in Procs
  BY Zenon DEF TypeOK
<1>4. /\ proc'[i] = [proc[i] EXCEPT !.state = "RUNNING"]
      /\ \A p \in Slots : p # i => proc'[p] = proc[p]
  BY <1>1, <1>2, <1>3, Zenon
<1>5. proc'[i].killed = proc[i].killed /\ proc'[i].rq = proc[i].rq
  BY <1>3, <1>4, Zenon DEF Procs
<1>6. "kill" \notin Calls => ~OnStack(kstack[i], "zombie")
  BY <1>2, Zenon DEF FInv, ExitOK
<1>7. Tame
  BY <1>4, <1>5, <1>6, Zenon DEF Tame
<1>8. {} \cap MarkFrames = {}
  BY Zenon
<1> QED BY <1>1, <1>7, <1>8, StillGrows, FramesKept, Zenon

-----------------------------------------------------------------------------
(* The timer interrupt *)

\* The handler's first step counts time down.
LEMMA TimerKept ==
  ASSUME IInv, FInv, NEW c \in CPUs, Timer(c)
  PROVE  FInv'
<1> USE InvParts
<1>1. PICK g \in Interruptible : At(c, g)
  BY Zenon DEF Timer
<1>2. PICK f \in {"tmr_ptl", "tmr_end"} : Push(c, f)
  BY Zenon DEF Timer
<1>3. fault' = fault
  BY Zenon DEF Timer
<1>4. Tame
  <2>1. ASSUME NEW p \in Slots
        PROVE  /\ proc'[p].killed = proc[p].killed /\ proc'[p].rq = proc[p].rq
               /\ proc'[p].state = proc[p].state
    <3>1. proc[p] \in Procs
      BY Zenon DEF TypeOK
    <3>2. \/ proc' = proc
          \/ proc'[p] = [proc[p] EXCEPT !.left = IF @ = 0 THEN 0 ELSE @ - 1]
      BY Zenon DEF Timer
    <3> QED BY <3>1, <3>2, Zenon DEF Procs
  <2> QED BY <2>1, Zenon DEF Tame
<1>5. f \in Frames \ MarkFrames
  BY Zenon DEF Frames, MarkFrames
<1> QED BY <1>1, <1>2, <1>3, <1>4, <1>5, MoveKept, Zenon

\* wakeup1 for the sleepers of the clock
LEMMA TimerWakeKept ==
  ASSUME IInv, FInv, NEW c \in CPUs, TimerWake(c)
  PROVE  FInv'
<1> USE InvParts
<1>1. At(c, "tmr_wake") /\ "tmr_wake" \notin InSchedule
  BY Zenon DEF TimerWake, InSchedule
<1>2. PICK s \in Slots :
        /\ proc[s].state = "SLEEPING"
        /\ IF Queued(s) THEN Panic("queued twice")
           ELSE /\ proc' = [proc EXCEPT ![s] = Woken(@, c)]
                /\ kstack' = kstack /\ fault' = fault
  BY Zenon DEF TimerWake, IsLeast, TickSleepers
<1>3. CASE Queued(s)
  <2>1. NCPU # 1
    BY <1>1, <1>2, <1>3, SleepersOut, Zenon
  <2> QED BY <1>2, <1>3, <2>1, StopsKept, Zenon
<1>4. CASE ~Queued(s)
  <2>1. proc \in [Slots -> Procs] /\ proc[s] \in Procs
    BY Zenon DEF TypeOK
  <2>2. /\ proc'[s] = Woken(proc[s], c)
        /\ \A p \in Slots : p # s => proc'[p] = proc[p]
    BY <1>2, <1>4, <2>1, Zenon
  <2>w. proc'[s].killed = proc[s].killed
    BY <2>1, <2>2, WokenTame, Zenon
  <2>3. Tame
    BY <1>2, <2>2, <2>w, Zenon DEF Tame
  <2>4. {} \cap MarkFrames = {}
    BY Zenon
  <2> QED BY <1>2, <1>4, <2>3, <2>4, StillGrows, FramesKept, Zenon
<1> QED BY <1>3, <1>4, Zenon

\* A slice is used up on one of the two round-robin levels.
LEMMA SliceKept ==
  ASSUME IInv, FInv, NEW c \in CPUs, At(c, "tmr_end"), Goto(c, "tick"), fault' = fault,
         proc[curproc[c]].rq[2] \in {1, 2},
         \A p \in Slots : /\ proc'[p].killed = proc[p].killed
                          /\ proc'[p].rq = proc[p].rq /\ proc'[p].state = proc[p].state
  PROVE  FInv'
<1> USE InvParts
<1>1. "tick" \in Frames
  BY Zenon DEF Frames
<1>2. Grows(c, {"tick"})
  BY <1>1, GotoGrows, Zenon
<1>3. TickOK'
  <2> SUFFICES ASSUME NEW p \in Slots, OnStack(kstack'[p], "tick")
               PROVE  proc'[p].rq[2] \in {1, 2}
    BY Zenon DEF TickOK
  <2>1. OnStack(kstack[p], "tick") \/ p = curproc[c]
    BY <1>2, Zenon DEF Grows, MarkFrames
  <2> QED BY <2>1, Zenon DEF FInv, TickOK
<1>4. \A p \in Slots : \A g \in {"exit", "exit_rq", "zombie"} :
         OnStack(kstack'[p], g) => OnStack(kstack[p], g)
  BY <1>2, Zenon DEF Grows, MarkFrames
<1>5. "kill" \notin Calls => ExitOK'
  BY <1>4, IdleSlots, ZenonT(30) DEF FInv, ExitOK
<1> QED BY <1>3, <1>5, Zenon DEF FInv, Found, ExitsFinal, OnlyKillPanics, NoFault

\* The end of the handler: a killed process exits, and tick_MLFQ finds the
\* current process in one of its three queues.
LEMMA TimerEndKept ==
  ASSUME IInv, FInv, NEW c \in CPUs, TimerEnd(c)
  PROVE  FInv'
<1> USE InvParts
<1> DEFINE p == curproc[c]
           r == proc[p]
           inUser == kstack[p][2] = "user"
<1>1. At(c, "tmr_end") /\ Where(c) = "tmr_end" /\ p \in Slots /\ p # 0
  BY AtWhere, ZenonT(30) DEF TimerEnd
<1>f. {"tmr_end", "bal"} \subseteq Frames \ MarkFrames /\ "exit" \in Frames
  BY Zenon DEF Frames, MarkFrames
<1>2. CASE r.killed = 1 /\ inUser
  <2>1. "kill" \in Calls
    BY <1>1, <1>2 DEF FInv, ExitOK
  <2>2. CASE p = InitProc
    <3>1. Panic("init exiting")
      BY <1>2, <2>2, ZenonT(30) DEF TimerEnd
    <3> QED BY <2>1, <3>1, StopsKept, Zenon
  <2>3. CASE p # InitProc
    <3>1. Goto(c, "exit") /\ proc' = proc /\ fault' = fault
      BY <1>2, <2>3, ZenonT(30) DEF TimerEnd
    <3>2. Grows(c, {"exit"})
      BY <1>1, <1>f, <3>1, GotoGrows, Zenon
    <3> QED BY <2>1, <3>1, <3>2, ExitMoves, Zenon
  <2> QED BY <2>2, <2>3, Zenon
<1>3. CASE /\ ~(r.killed = 1 /\ inUser)
           /\ r.state # "RUNNING" \/ (p # Idle(c) /\ r.rq = <<c, 3>>)
  <2>1. Return(c) /\ proc' = proc /\ fault' = fault
    BY <1>3, ZenonT(30) DEF TimerEnd
  <2> QED BY <1>1, <1>f, <2>1, SameTame, MoveKept, Zenon
<1>4. CASE /\ ~(r.killed = 1 /\ inUser)
           /\ ~(r.state # "RUNNING" \/ (p # Idle(c) /\ r.rq = <<c, 3>>))
           /\ p = Idle(c)
  <2>1. Goto(c, "bal") /\ proc' = proc /\ fault' = fault
    BY <1>4, ZenonT(30) DEF TimerEnd
  <2> QED BY <1>1, <1>f, <2>1, SameTame, MoveKept, Zenon
<1>5. CASE /\ ~(r.killed = 1 /\ inUser)
           /\ ~(r.state # "RUNNING" \/ (p # Idle(c) /\ r.rq = <<c, 3>>))
           /\ p # Idle(c)
  <2>1. p \notin Idles
    BY <1>1, <1>5, Zenon DEF RunningOK
  <2>2. PICK l \in Levels : r.rq = <<c, l>>
    BY <1>1, <2>1, ZenonT(30) DEF CurrentIsHead, InSchedule
  <2>3. r.rq \in {<<c, 1>>, <<c, 2>>} /\ r.rq[2] \in {1, 2}
    BY <1>5, <2>2 DEF Levels
  <2>4. /\ proc' = [proc EXCEPT ![p] = [@ EXCEPT
                      !.timeslice = r.timeslice - 1,
                      !.trq = IF r.timeslice = 1 THEN c ELSE 0]]
        /\ IF r.timeslice = 1 THEN Goto(c, "tick") ELSE Return(c)
        /\ fault' = fault
    BY <1>5, <2>3, ZenonT(30) DEF TimerEnd
  <2>5. ASSUME NEW s \in Slots
        PROVE  /\ proc'[s].killed = proc[s].killed
               /\ proc'[s].rq = proc[s].rq /\ proc'[s].state = proc[s].state
    <3>1. proc \in [Slots -> Procs] /\ proc[s] \in Procs
      BY Zenon DEF TypeOK
    <3> QED BY <1>1, <2>4, <3>1, Zenon DEF Procs
  <2>6. CASE r.timeslice = 1
    BY <1>1, <2>3, <2>4, <2>5, <2>6, SliceKept, Zenon
  <2>7. CASE r.timeslice # 1
    <3>1. Tame
      BY <2>5, Zenon DEF Tame
    <3> QED BY <1>1, <1>f, <2>4, <2>7, <3>1, MoveKept, Zenon
  <2> QED BY <2>6, <2>7, Zenon
<1> QED BY <1>2, <1>3, <1>4, <1>5, Zenon

\* proc_tick_MLFQ finds the process in its queue, on a level above the last.
LEMMA TickDemoteKept ==
  ASSUME IInv, FInv, TypeOK', StacksOK', NEW c \in CPUs, TickDemote(c)
  PROVE  FInv'
<1> USE InvParts
<1>1. At(c, "tick") /\ Where(c) = "tick" /\ curproc[c] \in Slots /\ curproc[c] # 0
  BY AtWhere, ZenonT(30) DEF TickDemote
<1>2. PICK cp \in Slots : cp = curproc[c]
  BY <1>1, Zenon
<1>3. cp \notin Idles /\ proc[cp].state = "RUNNING"
  BY <1>1, <1>2, CurrentAllowed, AtRunning, Zenon DEF Allowed, InSchedule
<1>4. PICK l \in Levels : proc[cp].rq = <<c, l>> /\ q[c][l] # <<>> /\ Head(q[c][l]) = cp
  BY <1>1, <1>2, <1>3, ZenonT(30) DEF CurrentIsHead, InSchedule
<1>5. InQueue(q[c][l], cp)
  BY <1>4, Types, HeadInQueue, Zenon
<1>6. proc[cp].rq[1] = c /\ proc[cp].rq[2] = l /\ l # 3
  <2>1. OnStack(kstack[cp], "tick")
    BY <1>1, <1>2, AtStack, Zenon
  <2> QED BY <1>4, <2>1 DEF FInv, TickOK
<1>7. /\ proc' = [proc EXCEPT ![cp] = Enqueued([@ EXCEPT !.state = "RUNNABLE"], c, l + 1)]
      /\ Schedule(c, "tick_rel") /\ fault' = fault
  BY <1>2, <1>5, <1>6, Zenon DEF TickDemote
<1>8. proc'[cp].killed = proc[cp].killed /\ \A p \in Slots : p # cp => proc'[p] = proc[p]
  <2>1. proc \in [Slots -> Procs] /\ proc[cp] \in Procs
    BY Zenon DEF TypeOK
  <2>2. /\ proc'[cp] = Enqueued([proc[cp] EXCEPT !.state = "RUNNABLE"], c, l + 1)
        /\ \A p \in Slots : p # cp => proc'[p] = proc[p]
    BY <1>7, <2>1, Zenon
  <2> QED BY <2>1, <2>2, Zenon DEF Enqueued, Procs
<1>9. ~OnStack(kstack'[cp], "tick")
  <2>1. kstack'[cp] \in Seq(Frames) /\ WellNested(kstack'[cp])
    BY Zenon DEF TypeOK, StacksOK
  <2>2. Head(kstack'[cp]) = "sched"
    <3>1. kstack \in [Slots -> Seq(Frames)] /\ kstack[cp] \in Seq(Frames)
      BY Zenon DEF TypeOK
    <3>2. kstack'[cp] = <<"sched", "tick_rel">> \o Tail(kstack[cp])
      BY <1>2, <1>7, <3>1, Zenon DEF Schedule
    <3>3. Tail(kstack[cp]) \in Seq(Frames)
      BY <1>1, <1>2, AtStack, Zenon
    <3> QED BY <3>2, <3>3
  <2> QED BY <2>1, <2>2, TickOnTop, Zenon
<1>10. Tame
  BY <1>3, <1>8, <1>9, Zenon DEF Tame
<1>11. "tick_rel" \in Frames \ MarkFrames
  BY Zenon DEF Frames, MarkFrames, SwitchFrames
<1> QED BY <1>1, <1>7, <1>10, <1>11, MoveKept, Zenon

\* After the switch back, proc_tick_MLFQ releases the lock it took, unless
\* another CPU now runs the process.
LEMMA TickReleaseKept ==
  ASSUME IInv, FInv, NEW c \in CPUs, TickRelease(c)
  PROVE  FInv'
<1> USE InvParts
<1>1. At(c, "tick_rel") /\ curproc[c] \in Slots /\ proc[curproc[c]].state = "RUNNING"
  BY AtRunning, Zenon DEF TickRelease, InSchedule
<1>2. PICK cp \in Slots : cp = curproc[c]
  BY <1>1, Zenon
<1>3. CASE lock[proc[cp].trq] # c
  <2>1. Panic("release")
    BY <1>2, <1>3, Zenon DEF TickRelease
  <2>2. NCPU # 1
    <3>1. proc[cp].trq \in CPUs
      BY Types, Zenon
    <3>2. c \in Locks /\ Holds(c, "tick_rel", c)
      BY Constants, Zenon DEF Holds, SwitchFrames
    <3>3. lock[c] = c
      BY <1>1, <3>2, HeldAt, Zenon
    <3> QED BY <1>3, <3>1, <3>3, OneCpu, Zenon
  <2> QED BY <2>1, <2>2, StopsKept, Zenon
<1>4. CASE lock[proc[cp].trq] = c
  <2>1. proc' = [proc EXCEPT ![cp].trq = 0] /\ Return(c) /\ fault' = fault
    BY <1>2, <1>4, Zenon DEF TickRelease
  <2>2. Tame
    <3>1. proc \in [Slots -> Procs] /\ proc[cp] \in Procs
      BY Zenon DEF TypeOK
    <3>2. /\ proc'[cp] = [proc[cp] EXCEPT !.trq = 0]
          /\ \A p \in Slots : p # cp => proc'[p] = proc[p]
      BY <2>1, <3>1, Zenon
    <3>3. /\ proc'[cp].killed = proc[cp].killed /\ proc'[cp].rq = proc[cp].rq
          /\ proc'[cp].state = proc[cp].state
      BY <3>1, <3>2, Zenon DEF Procs
    <3> QED BY <3>2, <3>3, Zenon DEF Tame
  <2>3. "tick_rel" \in Frames \ MarkFrames
    BY Zenon DEF Frames, MarkFrames, SwitchFrames
  <2> QED BY <1>1, <2>1, <2>2, <2>3, MoveKept, Zenon
<1> QED BY <1>3, <1>4, Zenon

\* load_balance gives a new queue only to the processes it took.
LEMMA BalancePutKept ==
  ASSUME IInv, FInv, NEW c \in CPUs, BalancePut(c)
  PROVE  FInv'
<1> USE InvParts
<1>1. At(c, "bal_put") /\ Goto(c, "yield") /\ fault' = fault
  BY Zenon DEF BalancePut
<1>2. ASSUME NEW p \in Slots
      PROVE  /\ proc'[p].killed = proc[p].killed /\ proc'[p].state = proc[p].state
             /\ proc'[p].rq = proc[p].rq \/ InFlight(p)
  <2>1. proc[p] \in Procs
    BY Zenon DEF TypeOK
  <2>2. CASE \E l \in Levels : InQueue(bal[c].moved[l], p)
    <3>1. InFlight(p)
      BY <2>2, Zenon DEF InFlight
    <3>2. proc'[p] = Enqueued(proc[p], c, CHOOSE l \in Levels : InQueue(bal[c].moved[l], p))
      BY <2>2, Zenon DEF BalancePut
    <3>3. \A k : Enqueued(proc[p], c, k).killed = proc[p].killed
                 /\ Enqueued(proc[p], c, k).state = proc[p].state
      BY <2>1, Zenon DEF Enqueued, Procs
    <3> QED BY <3>1, <3>2, <3>3, Zenon
  <2>3. CASE ~\E l \in Levels : InQueue(bal[c].moved[l], p)
    BY <2>3, Zenon DEF BalancePut
  <2> QED BY <2>2, <2>3, Zenon
<1>3. Tame
  BY <1>2, Zenon DEF Tame
<1>4. "yield" \in Frames \ MarkFrames
  BY Zenon DEF Frames, MarkFrames
<1> QED BY <1>1, <1>3, <1>4, MoveKept, Zenon

-----------------------------------------------------------------------------
(* All steps *)

\* Every step of a CPU that keeps the stacks well formed keeps FInv.
LEMMA StepFInv ==
  ASSUME IInv, FInv, NCPU = 1 => FifoIdle, TypeOK', StacksOK', NEW c \in CPUs,
         UserStep(c) \/ KernelStep(c) \/ Timer(c) \/ Dump(c)
  PROVE  FInv'
<1>1. CASE UserStep(c)
  BY <1>1, ForkKept, ExitKept, SameSteps, OwnSteps, KillKept, Zenon DEF UserStep
<1>2. CASE Timer(c) \/ Dump(c)
  BY <1>2, TimerKept, SameSteps, Zenon
<1>3. CASE RunIdle(c) \/ Forkret(c) \/ ForkFail(c) \/ ForkCpu(c) \/ ForkEnqueue(c)
  BY <1>3, RunIdleKept, SameSteps, ForkFailKept, OwnSteps, ForkEnqueueKept, Zenon
<1>4. CASE ExitLock(c) \/ ExitFinish(c) \/ ZombieReturns(c)
  BY <1>4, ExitLockKept, ExitFinishKept, ZombieReturnsKept, Zenon
<1>5. CASE WaitReap(c) \/ WaitNone(c) \/ WaitSleep(c) \/ WaitRq(c) \/ WaitWake(c)
  BY <1>5, WaitReapKept, SameSteps, OwnSteps, Zenon
<1>6. CASE SleepReturn(c) \/ SleepPtl(c) \/ SleepRq(c) \/ SleepWake(c) \/ SleepRelock(c)
  BY <1>6, SameSteps, OwnSteps, Zenon
<1>7. CASE ScheduleTest(c) \/ ScheduleDequeue(c) \/ SchedulePick(c)
  BY <1>7, SameSteps, ScheduleDequeueKept, SchedulePickKept, Zenon
<1>8. CASE TimerPtl(c) \/ TimerRq(c) \/ TimerWake(c) \/ TimerRelease(c) \/ TimerEnd(c)
  BY <1>8, SameSteps, TimerWakeKept, TimerEndKept, Zenon
<1>9. CASE TickDemote(c) \/ TickRelease(c)
  BY <1>9, TickDemoteKept, TickReleaseKept, Zenon
<1>10. CASE BalanceFind(c) \/ BalanceGet(c) \/ BalancePut(c) \/ Yield(c) \/ YieldRelease(c)
  BY <1>10, SameSteps, BalancePutKept, YieldKept, Zenon
<1>11. CASE DumpLock(c) \/ DumpDone(c)
  BY <1>11, SameSteps, Zenon
<1> QED BY <1>1, <1>2, <1>3, <1>4, <1>5, <1>6, <1>7, <1>8, <1>9, <1>10, <1>11, Zenon DEF KernelStep

\* main() starts with no frame of exit() or of a used up slice on a stack.
LEMMA InitFInv == Init => FInv
<1> SUFFICES ASSUME Init PROVE FInv
  BY Zenon
<1>1. \A p \in Slots : \A g \in MarkFrames : ~OnStack(kstack[p], g)
  BY BornFrames, Zenon DEF Init
<1>2. \A p \in Slots : proc[p].killed = 0
  BY Zenon DEF Init, Unused
<1>3. TickOK /\ ExitOK
  BY <1>1, <1>2, IdleSlots, Zenon DEF TickOK, ExitOK, MarkFrames
<1> QED BY <1>3, Zenon DEF FInv, Init, Found, ExitsFinal, OnlyKillPanics, NoFault

-----------------------------------------------------------------------------
(* The invariant *)

\* userinit leaves init at the head of CPU 0's queue, the idle processes in
\* none, all stacks at forkret, and no lock held.
LEMMA InitIInv == Init => IInv
<1> SUFFICES ASSUME Init PROVE IInv
  OBVIOUS
<1> DEFINE r1 == [Unused EXCEPT !.state = "RUNNABLE", !.pid = 1, !.rq = <<0, 1>>,
                                !.timeslice = MaxSlices[1]]
           r2 == [Unused EXCEPT !.state = "RUNNABLE", !.pid = 1]
<1>1. /\ r1 \in Procs /\ r2 \in Procs /\ Unused \in Procs
      /\ r1.state = "RUNNABLE" /\ r2.state = "RUNNABLE" /\ Unused.state = "UNUSED"
      /\ r1.rq = <<0, 1>> /\ r1.timeslice >= 1 /\ r2.rq = <<0, 0>> /\ Unused.rq = <<0, 0>>
      /\ r1.parent = 0 /\ r2.parent = 0 /\ Unused.parent = 0
      /\ r1.np = 0 /\ r2.np = 0 /\ Unused.np = 0
  <2>1. /\ MaxSlices[1] \in Nat \ {0} /\ 0 \in 0..NPROC /\ 0 \in 0..(NPROC + 1)
        /\ 0 \in CPUs /\ 0 \in 0..MaxSleep /\ 0 \in 0..3 /\ 1 \in 0..3
    BY SchedAssumption, Constants
  <2>2. /\ Unused \in Procs /\ Unused.state = "UNUSED" /\ Unused.rq = <<0, 0>>
        /\ Unused.parent = 0 /\ Unused.np = 0
    BY <2>1 DEF Procs, Unused, States, NoRq
  <2>3. /\ r2 \in Procs /\ r2.state = "RUNNABLE" /\ r2.rq = Unused.rq
        /\ r2.parent = Unused.parent /\ r2.np = Unused.np
    BY <2>1, <2>2, ZenonT(30) DEF Procs, States
  <2>4. <<0, 1>> \in CPUs \X (0..3) /\ MaxSlices[1] \in Nat /\ MaxSlices[1] >= 1
    BY <2>1
  <2>5. /\ r1 \in Procs /\ r1.state = "RUNNABLE" /\ r1.rq = <<0, 1>>
        /\ r1.timeslice = MaxSlices[1] /\ r1.parent = Unused.parent /\ r1.np = Unused.np
    BY <2>2, <2>4, ZenonT(30) DEF Procs, States
  <2> QED BY <2>2, <2>3, <2>4, <2>5, Zenon
<1>2. \A p \in Slots : proc[p] = IF p = InitProc THEN r1 ELSE IF p \in Idles THEN r2 ELSE Unused
  BY Zenon DEF Init
<1>3. DOMAIN proc = Slots /\ proc = [p \in Slots |-> proc[p]]
  BY Zenon DEF Init
<1> HIDE DEF r1, r2
<1>4. /\ proc \in [Slots -> Procs]
      /\ \A p \in Slots : /\ proc[p].parent = 0 /\ proc[p].np = 0
                          /\ proc[p].state \in {"RUNNABLE", "UNUSED"}
                          /\ proc[p].state = "RUNNABLE" <=> p = InitProc \/ p \in Idles
                          /\ proc[p].rq = IF p = InitProc THEN <<0, 1>> ELSE <<0, 0>>
                          /\ p = InitProc => proc[p].timeslice >= 1
  <2>1. ASSUME NEW p \in Slots
        PROVE  /\ proc[p] \in Procs /\ proc[p].parent = 0 /\ proc[p].np = 0
               /\ proc[p].state \in {"RUNNABLE", "UNUSED"}
               /\ proc[p].state = "RUNNABLE" <=> p = InitProc \/ p \in Idles
               /\ proc[p].rq = IF p = InitProc THEN <<0, 1>> ELSE <<0, 0>>
               /\ p = InitProc => proc[p].timeslice >= 1
    BY <1>1, <1>2
  <2> QED BY <1>3, <2>1
<1>5. /\ Born \in Seq(Frames) /\ Head(Born) = "forkret" /\ WellNested(Born)
      /\ \A f : OnStack(Born, f) <=> f \in {"forkret", "user"}
  <2>1. Born \in Seq(Frames) /\ Len(Born) = 2 /\ Born[1] = "forkret" /\ Born[2] = "user"
    BY BornStack, Zenon DEF Born
  <2>2. \A i \in 1..(Len(Born) - 1) : i = 1
    BY <2>1
  <2>3. "user" \in Callers("forkret")
    BY Zenon DEF Callers, InSchedule, TrapFrames
  <2> QED BY <2>1, <2>2, <2>3 DEF WellNested, OnStack, Born
<1>6. /\ \A c \in CPUs : curproc[c] = 0 /\ Where(c) = "boot"
      /\ \A p \in Slots : kstack[p] = Born
      /\ \A l \in Locks : lock[l] = NoCpu
  BY Zenon DEF Init, Where
<1>7. /\ \A c \in CPUs : \A l \in Levels :
           /\ bal[c].moved[l] = <<>>
           /\ q[c][l] = IF c = 0 /\ l = 1 THEN <<InitProc>> ELSE <<>>
      /\ 0 \in CPUs /\ 1 \in Levels
  BY Constants DEF Init, NoneMoved, Levels
<1>8. /\ \A p : ~InQueue(<<>>, p) /\ NoDup(<<>>)
      /\ \A p : InQueue(<<InitProc>>, p) <=> p = InitProc
      /\ NoDup(<<InitProc>>) /\ <<InitProc>> \in Seq(Slots)
  BY Constants DEF InQueue, NoDup
<1>9. TypeOK
  <2>1. kstack \in [Slots -> Seq(Frames)]
    BY <1>5, Zenon DEF Init
  <2>2. q \in [CPUs -> [Levels -> Seq(Slots)]]
    BY <1>8 DEF Init
  <2>3. curproc \in [CPUs -> 0..NPROC] /\ lock \in [Locks -> CPUs \cup {NoCpu}] /\ fault \in Faults
    BY SchedAssumption DEF Init, Faults
  <2>4. bal \in [CPUs -> [src : CPUs, moved : [Levels -> Seq(Slots)]]]
    BY Constants DEF Init, NoneMoved
  <2> QED BY <1>4, <2>1, <2>2, <2>3, <2>4, Zenon DEF TypeOK
<1>10. StacksOK
  <2>1. \A p \in Slots : \A f \in Frames : OnStack(kstack[p], f) => Allowed(p, f)
    BY <1>5, <1>6, Zenon DEF Allowed
  <2> QED BY <1>5, <1>6, <2>1, Zenon DEF StacksOK, SwitchFrames
<1>11. RunningOK /\ CurrentIsHead /\ ScheduleOK
  BY <1>6, <1>7, Zenon DEF RunningOK, CurrentIsHead, ScheduleOK
<1>12. FamilyOK /\ ParentAlive
  BY <1>4, Constants, IdleSlots DEF FamilyOK, ParentAlive
<1>13. LockDiscipline
  BY <1>6, Constants, Zenon DEF LockDiscipline, Holds, SwitchFrames, InSchedule
<1>14. QueueExact
  <2>1. ASSUME NEW p \in Slots
        PROVE  /\ ~InFlight(p) /\ (Queued(p) <=> p = InitProc) /\ (CanRun(p) <=> p = InitProc)
    <3>1. ~InFlight(p)
      BY <1>7, <1>8, Zenon DEF InFlight
    <3>2. Queued(p) <=> p = InitProc
      BY <1>7, <1>8, Zenon DEF Queued
    <3>3. CanRun(p) <=> p = InitProc
      BY <1>4, <1>6, Constants, Zenon DEF CanRun
    <3> QED BY <3>1, <3>2, <3>3
  <2>2. \A c \in CPUs : \A l \in Levels : NoDup(q[c][l]) /\ NoDup(bal[c].moved[l])
    BY <1>7, <1>8, Zenon
  <2>3. ASSUME NEW p \in Slots, NEW c \in CPUs, NEW l \in Levels
        PROVE  /\ InQueue(q[c][l], p) => proc[p].rq = <<c, l>>
               /\ ~InQueue(bal[c].moved[l], p)
    BY <1>4, <1>7, <1>8
  <2> QED BY <2>1, <2>2, <2>3, Zenon DEF QueueExact
<1>15. SlicesOK
  <2>1. ASSUME NEW p \in Slots, proc[p].rq[2] \in {1, 2} PROVE p = InitProc
    <3>1. CASE p # InitProc
      <4>1. proc[p].rq = <<0, 0>>
        BY <1>4, <3>1, Zenon
      <4> QED BY <2>1, <4>1
    <3> QED BY <3>1, Zenon
  <2> QED BY <1>4, <2>1, Zenon DEF SlicesOK
<1>16. SleepOK /\ NoLostWakeup
  BY <1>4, <1>6, Zenon DEF SleepOK, NoLostWakeup
<1> QED BY <1>9, <1>10, <1>11, <1>12, <1>13, <1>14, <1>15, <1>16 DEF IInv

\* A CPU's step preserves IInv.
LEMMA StepIInv ==
  ASSUME IInv, NEW c \in CPUs, UserStep(c) \/ KernelStep(c) \/ Timer(c) \/ Dump(c)
  PROVE  IInv'
<1>1. CASE UserStep(c)
  BY <1>1, ForkInv, ExitInv, WaitInv, SleepInv, KillInv DEF UserStep
<1>2. CASE Timer(c) \/ Dump(c)
  BY <1>2, TimerInv, DumpInv, Zenon
<1>3. CASE RunIdle(c) \/ Forkret(c) \/ ForkFail(c) \/ ForkCpu(c) \/ ForkEnqueue(c)
  BY <1>3, RunIdleInv, ForkretInv, ForkFailInv, ForkCpuInv, ForkEnqueueInv, Zenon
<1>4. CASE ExitLock(c) \/ ExitFinish(c) \/ ZombieReturns(c)
  BY <1>4, ExitLockInv, ExitFinishInv, ZombieReturnsInv
<1>5. CASE WaitReap(c) \/ WaitNone(c) \/ WaitSleep(c) \/ WaitRq(c) \/ WaitWake(c)
  BY <1>5, WaitReapInv, WaitNoneInv, WaitSleepInv, WaitRqInv, WaitWakeInv
<1>6. CASE SleepReturn(c) \/ SleepPtl(c) \/ SleepRq(c) \/ SleepWake(c) \/ SleepRelock(c)
  BY <1>6, SleepReturnInv, SleepPtlInv, SleepRqInv, SleepWakeInv, SleepRelockInv, Zenon
<1>7. CASE ScheduleTest(c) \/ ScheduleDequeue(c) \/ SchedulePick(c)
  BY <1>7, ScheduleTestInv, ScheduleDequeueInv, SchedulePickInv
<1>8. CASE TimerPtl(c) \/ TimerRq(c) \/ TimerWake(c) \/ TimerRelease(c) \/ TimerEnd(c)
  BY <1>8, TimerPtlInv, TimerRqInv, TimerWakeInv, TimerReleaseInv, TimerEndInv
<1>9. CASE TickDemote(c) \/ TickRelease(c)
  BY <1>9, TickDemoteInv, TickReleaseInv, Zenon
<1>10. CASE BalanceFind(c) \/ BalanceGet(c) \/ BalancePut(c) \/ Yield(c) \/ YieldRelease(c)
  BY <1>10, BalanceFindInv, BalanceGetInv, BalancePutInv, YieldInv, YieldReleaseInv
<1>11. CASE DumpLock(c) \/ DumpDone(c)
  BY <1>11, DumpLockInv, DumpDoneInv, Zenon
<1> QED BY <1>1, <1>2, <1>3, <1>4, <1>5, <1>6, <1>7, <1>8, <1>9, <1>10, <1>11, Zenon DEF KernelStep

\* The stacks, queues, locks, slices and families of the scheduler stay
\* consistent through every interleaving of the CPUs' steps, up to the first of
\* the stops that Faults names; FInv says which of those can be reached.
THEOREM IInvHolds == Spec => []IInv
<1>1. IInv /\ [Next]_vars => IInv'
  <2> SUFFICES ASSUME IInv, [Next]_vars PROVE IInv'
    BY Zenon
  <2>1. CASE \E c \in CPUs : UserStep(c) \/ KernelStep(c) \/ Timer(c) \/ Dump(c)
    BY <2>1, StepIInv, Zenon
  <2>2. CASE UNCHANGED vars
    <3>1. fault' \in Faults /\ UNCHANGED <<proc, kstack, q, curproc, lock, bal>>
      BY <2>2 DEF IInv, TypeOK, vars
    <3> QED BY <3>1, PanicInv
  <2> QED BY <2>1, <2>2 DEF Next, Stopped
<1> QED BY <1>1, InitIInv, PTL DEF Spec

\* The state of the scheduler has the types that the C declarations give it.
THEOREM TypeCorrect == Spec => []TypeOK
<1>1. IInv => TypeOK
  BY DEF IInv
<1> QED BY <1>1, IInvHolds, PTL

\* The process a CPU executes is the head of its level in that CPU's queue, up to
\* the first of the stops that Faults names.
THEOREM CurrentHead == Spec => []CurrentIsHead
<1>1. IInv => CurrentIsHead
  BY ZenonT(30) DEF IInv
<1> QED BY <1>1, IInvHolds, PTL

\* A process queued on a round-robin level has ticks left.
THEOREM SlicesLive == Spec => []TimesliceLive
<1>1. IInv => TimesliceLive
  <2> SUFFICES ASSUME IInv, NEW c \in CPUs, NEW l \in 1..2, NEW i \in 1..Len(q[c][l])
               PROVE  LET p == q[c][l][i] IN
                        proc[p].timeslice >= 1 \/ (curproc[c] = p /\ Where(c) = "tick")
    BY Zenon DEF TimesliceLive
  <2> USE DEF IInv
  <2> DEFINE p == q[c][l][i]
  <2>1. l \in Levels /\ q[c][l] \in Seq(Slots)
    BY Types DEF Levels
  <2>2. p \in Slots /\ InQueue(q[c][l], p)
    BY <2>1 DEF InQueue
  <2> HIDE DEF p
  <2>3. proc[p].rq = <<c, l>>
    BY <2>1, <2>2, ZenonT(30) DEF QueueExact
  <2>4. proc[p].rq[2] \in {1, 2} /\ proc[p].rq[1] = c
    BY <2>3
  <2>5. CASE \E d \in CPUs : curproc[d] = p /\ Where(d) = "tick"
    <3>1. PICK d \in CPUs : curproc[d] = p /\ Where(d) = "tick"
      BY <2>5, Zenon
    <3>2. p \notin Idles
      <4>1. CanRun(p)
        BY <2>1, <2>2 DEF QueueExact, Queued
      <4> QED BY <4>1, ZenonT(30) DEF CanRun
    <3>3. PICK k \in Levels : proc[p].rq = <<d, k>>
      BY <2>2, <3>1, <3>2, Constants, ZenonT(30) DEF CurrentIsHead, InSchedule
    <3>4. d = c
      BY <2>3, <3>3
    <3> QED BY <3>1, <3>4 DEF p
  <2>6. CASE proc[p].timeslice >= 1
    BY <2>6 DEF p
  <2> QED BY <2>2, <2>4, <2>5, <2>6 DEF SlicesOK
<1> QED BY <1>1, IInvHolds, PTL

\* Nobody sleeps over a zombie child, or past its time.
THEOREM WakeupsArrive == Spec => []NoLostWakeup
<1>1. IInv => NoLostWakeup
  BY Zenon DEF IInv
<1> QED BY <1>1, IInvHolds, PTL

\* The parent of every process has not exited.
THEOREM ParentsLive == Spec => []ParentAlive
<1>1. IInv => ParentAlive
  BY Zenon DEF IInv
<1> QED BY <1>1, IInvHolds, PTL

\* The locks a CPU holds are decided by where it is.
THEOREM LocksByFrame == Spec => []LockDiscipline
<1>1. IInv => LockDiscipline
  BY DEF IInv
<1> QED BY <1>1, IInvHolds, PTL

\* CPUs outside procdump never wait for each other in a cycle: who holds
\* proc_table_lock acquires only its own rq_lock, which it then does not hold;
\* who holds an rq_lock or tickslock acquires only proc_table_lock.
THEOREM DeadlockFree == Spec => []NoDeadlock
<1>1. ASSUME IInv PROVE NoDeadlock
  <2> USE <1>1 DEF IInv
  <2> SUFFICES ASSUME NEW D \in SUBSET {c \in CPUs : Where(c) # "dump"}, Wedged(D)
               PROVE  FALSE
    BY Zenon DEF NoDeadlock
  <2>1. /\ D # {}
        /\ \A c \in D : \E l \in Locks : Wants(c, l) /\ lock[l] \in D
        /\ \A c \in D : c \in CPUs /\ Where(c) # "dump"
    BY DEF Wedged
  <2>2. \A l \in Locks : \A d \in D : lock[l] = d => Holds(d, Where(d), l)
    BY <2>1 DEF LockDiscipline
  <2>3. ASSUME NEW d \in D, Holds(d, Where(d), Ptl) PROVE FALSE
    <3>1. Where(d) \in {"exit_rq", "wait", "wait_rq", "slp_rq", "tmr_rq", "tmr_wake"}
      BY <2>1, <2>3, Constants DEF Holds
    <3>2. PICK l \in Locks : Wants(d, l) /\ lock[l] \in D
      BY <2>1, Zenon
    <3>3. l = d /\ Where(d) \in {"exit_rq", "wait_rq", "slp_rq", "tmr_rq"}
      BY <3>1, <3>2, Zenon DEF Wants
    <3>4. Holds(lock[l], Where(lock[l]), d)
      BY <2>2, <3>2, <3>3
    <3>5. lock[l] = d
      BY <2>1, <3>4, Constants DEF Holds
    <3> QED BY <2>1, <3>3, <3>4, <3>5, Constants, Zenon DEF Holds, SwitchFrames, InSchedule
  <2>4. ASSUME NEW c \in D PROVE ~(Wants(c, Ptl) /\ lock[Ptl] \in D)
    BY <2>2, <2>3, Constants, ZenonT(30)
  <2>5. ASSUME NEW d \in D, NEW l \in Locks, Holds(d, Where(d), l) PROVE FALSE
    <3>1. CASE l = Ptl
      BY <2>3, <2>5, <3>1
    <3>2. CASE l = TicksLock
      <4>1. Where(d) \in {"slp", "slp_rq", "tmr_ptl", "tmr_rq", "tmr_wake"}
        BY <2>1, <2>5, <3>2, Constants DEF Holds
      <4>2. Where(d) \in {"slp", "tmr_ptl"}
        BY <2>3, <4>1 DEF Holds
      <4>3. PICK k \in Locks : Wants(d, k) /\ lock[k] \in D
        BY <2>1, Zenon
      <4>4. k = Ptl
        BY <4>2, <4>3 DEF Wants
      <4> QED BY <2>4, <4>3, <4>4, Zenon
    <3>3. CASE l = d
      <4>1. Where(d) \in SwitchFrames \cup InSchedule \cup {"tmr_wake"}
        BY <2>1, <2>5, <3>3, Constants, Zenon DEF Holds
      <4>2. PICK k \in Locks : Wants(d, k) /\ lock[k] \in D
        BY <2>1, Zenon
      <4>3. k = Ptl
        BY <4>1, <4>2 DEF Wants, SwitchFrames, InSchedule
      <4> QED BY <2>4, <4>2, <4>3, Zenon
    <3> QED BY <2>5, <3>1, <3>2, <3>3 DEF Holds
  <2>6. PICK c \in D : TRUE
    BY <2>1
  <2>7. PICK l \in Locks : lock[l] \in D
    BY <2>1, <2>6, Zenon
  <2> QED BY <2>2, <2>5, <2>7
<1>2. IInv => NoDeadlock
  BY <1>1
<1> QED BY <1>2, IInvHolds, PTL

-----------------------------------------------------------------------------
(* Panics *)

\* The idle process of a single CPU runs only while nothing is on level 3.
LEMMA FifoHolds == Spec => [](NCPU = 1 => FifoIdle)
<1>1. Init => (NCPU = 1 => FifoIdle)
  <2> SUFFICES ASSUME Init, NEW c \in CPUs PROVE q[c][3] = <<>> /\ bal[c].moved[3] = <<>>
    BY Zenon DEF FifoIdle
  <2>1. 3 \in Levels /\ 3 # 1
    BY DEF Levels
  <2> QED BY <2>1, Zenon DEF Init, NoneMoved
<1>2. IInv /\ (NCPU = 1 => FifoIdle) /\ [Next]_vars => (NCPU = 1 => FifoIdle)'
  <2> SUFFICES ASSUME IInv, NCPU = 1, FifoIdle, [Next]_vars PROVE FifoIdle'
    BY Zenon
  <2>1. CASE \E c \in CPUs : UserStep(c) \/ KernelStep(c) \/ Timer(c) \/ Dump(c)
    BY <2>1, FifoStep, Zenon
  <2>2. CASE UNCHANGED vars
    BY <2>2, Zenon DEF vars, FifoIdle
  <2> QED BY <2>1, <2>2, Zenon DEF Next, Stopped
<1> QED BY <1>1, <1>2, IInvHolds, PTL DEF Spec

\* What is on the kernel stacks of exiting processes and of processes whose
\* slice is used up, and the panics this rules out.
THEOREM FInvHolds == Spec => []FInv
<1>1. IInv /\ IInv' /\ (NCPU = 1 => FifoIdle) /\ FInv /\ [Next]_vars => FInv'
  <2> SUFFICES ASSUME IInv, TypeOK', StacksOK', NCPU = 1 => FifoIdle, FInv, [Next]_vars
               PROVE  FInv'
    BY DEF IInv
  <2>1. CASE \E c \in CPUs : UserStep(c) \/ KernelStep(c) \/ Timer(c) \/ Dump(c)
    BY <2>1, StepFInv, Zenon
  <2>2. CASE UNCHANGED vars
    <3>1. proc' = proc /\ kstack' = kstack /\ fault' = fault
      BY <2>2 DEF vars
    <3>2. TickOK' /\ ("kill" \notin Calls => ExitOK')
      BY <3>1 DEF FInv, TickOK, ExitOK
    <3> QED BY <3>1, <3>2, Zenon DEF FInv, Found, ExitsFinal, OnlyKillPanics, NoFault
  <2> QED BY <2>1, <2>2, Zenon DEF Next, Stopped
<1> QED BY <1>1, InitFInv, IInvHolds, FifoHolds, PTL DEF Spec

\* The steps that enqueue a sleeper are the only ones that could queue a process
\* twice.
LEMMA WakesOnly ==
  ASSUME NEW c \in CPUs, UserStep(c) \/ KernelStep(c) \/ Timer(c) \/ Dump(c),
         fault' = "queued twice"
  PROVE  (TimerWake(c) \/ ExitFinish(c)) /\ Panic("queued twice")
<1>1. CASE UserStep(c) \/ Timer(c) \/ Dump(c)
  BY <1>1, Zenon DEF UserStep, Fork, Exit, Wait, Sleep, Kill, Timer, Dump, Calling, At, Panic
<1>2. CASE RunIdle(c) \/ Forkret(c) \/ ForkFail(c) \/ ForkCpu(c) \/ ForkEnqueue(c)
  BY <1>2, Zenon DEF RunIdle, Forkret, ForkFail, ForkCpu, ForkEnqueue, At, Panic
<1>3. CASE ExitLock(c) \/ ZombieReturns(c)
  BY <1>3, Zenon DEF ExitLock, ZombieReturns, At, Panic
<1>4. CASE WaitReap(c) \/ WaitNone(c) \/ WaitSleep(c) \/ WaitRq(c) \/ WaitWake(c)
  BY <1>4, Zenon DEF WaitReap, WaitNone, WaitSleep, WaitRq, WaitWake, At, Panic
<1>5. CASE SleepReturn(c) \/ SleepPtl(c) \/ SleepRq(c) \/ SleepWake(c) \/ SleepRelock(c)
  BY <1>5, Zenon DEF SleepReturn, SleepPtl, SleepRq, SleepWake, SleepRelock, At
<1>6. CASE ScheduleTest(c) \/ ScheduleDequeue(c) \/ SchedulePick(c)
  BY <1>6, Zenon DEF ScheduleTest, ScheduleDequeue, SchedulePick, At, Panic
<1>7. CASE TimerPtl(c) \/ TimerRq(c) \/ TimerRelease(c) \/ TimerEnd(c)
  BY <1>7, Zenon DEF TimerPtl, TimerRq, TimerRelease, TimerEnd, At, Panic
<1>8. CASE TickDemote(c) \/ TickRelease(c) \/ Yield(c) \/ YieldRelease(c)
  BY <1>8, Zenon DEF TickDemote, TickRelease, Yield, YieldRelease, At, Panic
<1>9. CASE BalanceFind(c) \/ BalanceGet(c) \/ BalancePut(c) \/ DumpLock(c) \/ DumpDone(c)
  BY <1>9, Zenon DEF BalanceFind, BalanceGet, BalancePut, DumpLock, DumpDone, At
<1>10. CASE TimerWake(c)
  BY <1>10, Zenon DEF TimerWake, At
<1>11. CASE ExitFinish(c)
  BY <1>11, Zenon DEF ExitFinish, At
<1> QED BY <1>1, <1>2, <1>3, <1>4, <1>5, <1>6, <1>7, <1>8, <1>9, <1>10, <1>11, Zenon DEF KernelStep

\* Who is about to be queued twice is asleep and still in the queue of the CPU
\* that is in its schedule().
LEMMA RaceStep ==
  ASSUME IInv, NEW c \in CPUs, TimerWake(c) \/ ExitFinish(c), Panic("queued twice")
  PROVE  WakeupRace'
<1> USE InvParts
<1>1. PICK s \in Slots : proc[s].state = "SLEEPING" /\ Queued(s)
  <2>1. fault = "none" /\ fault' # fault
    BY Zenon DEF TimerWake, ExitFinish, At, Panic
  <2>2. CASE TimerWake(c)
    BY <2>1, <2>2, Zenon DEF TimerWake, IsLeast, TickSleepers
  <2>3. CASE ExitFinish(c)
    BY <2>1, <2>3, ZenonT(30) DEF ExitFinish, Waiting
  <2> QED BY <2>2, <2>3, Zenon
<1>2. CanRun(s)
  BY <1>1, Zenon DEF QueueExact
<1>3. PICK d \in CPUs : curproc[d] = s /\ Where(d) \in {"sched", "dequeue"}
  BY <1>1, <1>2, Zenon DEF CanRun
<1>4. Where(c) \in {"tmr_wake", "exit_rq"}
  BY AtWhere, Zenon DEF TimerWake, ExitFinish
<1>5. c # d
  BY <1>3, <1>4, Zenon
<1>6. \A e \in CPUs : Where(e)' = Where(e)
  BY Zenon DEF Where, Panic
<1> QED BY <1>1, <1>3, <1>4, <1>5, <1>6, Zenon DEF WakeupRace, Panic

\* What can damage a run queue, on any number of CPUs.  schedule() and
\* proc_tick_MLFQ find the process in the queue that p->rq names, on a level it
\* can be demoted from; wakeup1 enqueues a process a second time only in a race
\* with the schedule() of its sleep() on another CPU; yield_proc_fifo closes a
\* ring only on a machine with several CPUs.
THEOREM RunQueuesIntact == Spec => []QueuesIntact
<1> DEFINE Race == fault = "queued twice" => WakeupRace
<1>1. FInv => Found /\ (fault = "run queue made a ring" => NCPU # 1)
  BY Zenon DEF FInv, OnlyKillPanics
<1>2. Init => Race
  BY Zenon DEF Init
<1>3. IInv /\ Race /\ [Next]_vars => Race'
  <2> SUFFICES ASSUME IInv, Race, [Next]_vars, fault' = "queued twice" PROVE WakeupRace'
    BY Zenon
  <2>1. CASE \E c \in CPUs : UserStep(c) \/ KernelStep(c) \/ Timer(c) \/ Dump(c)
    BY <2>1, WakesOnly, RaceStep, Zenon
  <2>2. CASE UNCHANGED vars
    BY <2>2, Zenon DEF vars, WakeupRace, Where
  <2> QED BY <2>1, <2>2, Zenon DEF Next, Stopped
<1>4. NCPU # 1 => NCPU > 1
  BY SchedAssumption
<1>5. Spec => []Race
  BY <1>2, <1>3, IInvHolds, PTL DEF Spec
<1>6. FInv /\ Race => QueuesIntact
  BY <1>1, <1>4, Zenon DEF QueuesIntact
<1> QED BY <1>5, <1>6, FInvHolds, PTL

\* No process is queued twice, forgotten, or left in a run queue, up to the stops
\* of QueuesIntact: the machine gets as far as a second enqueue of a process only
\* in the race between wakeup1 and the schedule() of a sleep() on two CPUs.
THEOREM QueuesExact == Spec => [](QueueExact /\ QueuesIntact)
<1>1. IInv => QueueExact
  BY DEF IInv
<1> QED BY <1>1, IInvHolds, RunQueuesIntact, PTL

\* On any number of CPUs, a machine without kill() does not lose init and never
\* runs a process again after its exit().
THEOREM ExitsAreFinal == Spec => []ExitsFinal
<1>1. FInv => ExitsFinal
  BY Zenon DEF FInv
<1> QED BY <1>1, FInvHolds, PTL

\* One CPU: the panics are those that kill() leads to, whatever the number of
\* processes and the length of the slices.
THEOREM OneCpuPanics == NCPU = 1 => (Spec => []OnlyKillPanics)
<1>2. ASSUME NCPU = 1 PROVE FInv => OnlyKillPanics
  BY <1>2, Zenon DEF FInv
<1>3. ASSUME NCPU = 1 PROVE Spec => []OnlyKillPanics
  BY <1>2, <1>3, FInvHolds, PTL
<1> QED BY <1>3, Zenon

\* One CPU without kill(): fork, exit, wait, sleep, ticks and ^P never panic.
THEOREM OneCpuNoFault == NCPU = 1 /\ "kill" \notin Calls => (Spec => []NoFault)
<1>2. ASSUME NCPU = 1 /\ "kill" \notin Calls PROVE FInv => NoFault
  BY <1>2, Zenon DEF FInv
<1>3. ASSUME NCPU = 1 /\ "kill" \notin Calls PROVE Spec => []NoFault
  BY <1>2, <1>3, FInvHolds, PTL
<1> QED BY <1>3, Zenon
=============================================================================
