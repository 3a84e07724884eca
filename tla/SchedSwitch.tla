---------------------------- MODULE SchedSwitch -----------------------------
(***************************************************************************)
(* schedule(), waking, the timer interrupt, yield and load_balance_MLFQ    *)
(* preserve the scheduler's invariant IInv.                                *)
(***************************************************************************)
EXTENDS SchedLemmas

-----------------------------------------------------------------------------
(* schedule() *)

\* Within schedule() only the queue of its own CPU changes until swtch.
LEMMA InScheduleStep ==
  ASSUME IInv, NEW c \in CPUs, NEW g \in InSchedule, At(c, g), NEW f \in {"dequeue", "pick"},
         Goto(c, f), UNCHANGED <<proc, curproc, lock, bal, fault>>,
         q' \in [CPUs -> [Levels -> Seq(Slots)]], \A d \in CPUs \ {c} : q'[d] = q[d],
         f = "dequeue" => g = "sched" /\ q' = q /\ proc[curproc[c]].state \in {"SLEEPING", "ZOMBIE"}
  PROVE  /\ QueueExact' => IInv'
         /\ Moved(c, f)
         /\ Where(c) = g
<1> USE InvParts
<1>1. /\ Where(c) = g /\ curproc[c] \in Slots /\ curproc[c] # 0 /\ g # "user"
  BY AtWhere, Zenon DEF InSchedule
<1>2. SameNp
  BY Zenon DEF SameNp
<1>3. Moved(c, f)
  <2>1. f \in Frames /\ Allowed(curproc[c], f) /\ Callers(g) = Callers(f)
    BY Zenon DEF Frames, Allowed, Callers, InSchedule
  <2> QED BY <1>1, <1>2, <2>1, GotoMoves, Zenon
<1>4. /\ Where(c)' = f /\ Elsewhere(c) /\ StacksOK' /\ kstack' \in [Slots -> Seq(Frames)]
  BY <1>3, MovedElsewhere, Zenon DEF Moved
<1>5. LocksOf(c, f)
  <2>1. \A l \in Locks : lock[l] = c <=> Holds(c, g, l)
    BY HeldAt, Zenon DEF InSchedule
  <2>2. \A l \in Locks : Holds(c, g, l) <=> Holds(c, f, l)
    BY Zenon DEF Holds, InSchedule
  <2> QED BY <2>1, <2>2, Zenon DEF LocksOf, TypeOK
<1>6. TypeOK' /\ LockDiscipline'
  BY <1>3, <1>4, <1>5, LocksMove, Zenon DEF TypeOK
<1>7. OthersKept(c)
  BY Zenon DEF OthersKept
<1>8. RunningOK'
  BY <1>1, <1>4, <1>7, RunningStays, Zenon DEF RunningOK, InSchedule
<1>9. FamilyOK' /\ ParentAlive'
  BY FamilyStays, Zenon
<1>10. SleepOK' /\ NoLostWakeup'
  BY <1>1, <1>4, SleepersStay, ZenonT(30) DEF TmrFrames, InSchedule
<1>11. SlicesOK'
  BY <1>1, <1>4, SlicesStay, Zenon DEF InSchedule
<1>12. CurrentIsHead' /\ ScheduleOK'
  <2>1. \A l \in Levels : bal[c].moved[l] = <<>>
    BY <1>1, ZenonT(30) DEF ScheduleOK, InSchedule
  <2>2. f = "dequeue" /\ curproc[c] \in Slots \ Idles => \E l \in Levels : InQueue(q'[c][l], curproc[c])
    BY <1>1, Zenon DEF ScheduleOK
  <2> QED BY <1>1, <1>4, <1>7, <2>1, <2>2, OthersStay, ZenonT(30) DEF InSchedule
<1> QED BY <1>1, <1>3, <1>4, <1>6, <1>8, <1>9, <1>10, <1>11, <1>12, InvWhole, ZenonT(30)

\* schedule() tests whether the process goes on.
LEMMA ScheduleTestInv ==
  ASSUME IInv, NEW c \in CPUs, ScheduleTest(c)
  PROVE  IInv'
<1> USE InvParts
<1> DEFINE run == proc[curproc[c]].state \in {"RUNNABLE", "RUNNING"}
           f == IF run THEN "pick" ELSE "dequeue"
<1>1. /\ At(c, "sched") /\ Goto(c, f) /\ UNCHANGED <<proc, q, curproc, lock, bal, fault>>
      /\ curproc[c] \in Slots /\ curproc[c] # 0
  BY AtWhere, Zenon DEF ScheduleTest
<1>2. f \in {"dequeue", "pick"}
      /\ (f = "dequeue" => proc[curproc[c]].state \in {"SLEEPING", "ZOMBIE"})
  <2>1. proc[curproc[c]].state \in States /\ proc[curproc[c]].state \notin {"UNUSED", "EMBRYO"}
    BY <1>1, Types, Zenon DEF RunningOK
  <2> QED BY <2>1, Zenon DEF States
<1>r. f = "pick" <=> run
  BY Zenon
<1> HIDE DEF f
<1>3. (QueueExact' => IInv') /\ Moved(c, f) /\ Where(c) = "sched"
  <2>1. q \in [CPUs -> [Levels -> Seq(Slots)]]
    BY Zenon DEF TypeOK
  <2> QED BY <1>1, <1>2, <2>1, InScheduleStep, Zenon DEF InSchedule
<1>4. ASSUME NEW p \in Slots PROVE CanRun(p)' <=> CanRun(p)
  <2>1. CASE p = curproc[c]
    BY <1>1, <1>2, <1>r, <1>3, <2>1, Zenon DEF CanRun, Moved
  <2>2. CASE p # curproc[c]
    BY <1>1, <1>3, <2>2, ZenonT(30) DEF CanRun, Moved
  <2> QED BY <2>1, <2>2, Zenon
<1> QED BY <1>1, <1>3, <1>4, QueuesStay, Zenon

\* schedule() takes a process that sleeps or has exited out of its queue.
LEMMA ScheduleDequeueInv ==
  ASSUME IInv, NEW c \in CPUs, ScheduleDequeue(c)
  PROVE  IInv'
<1> USE InvParts
<1> DEFINE p == curproc[c]
<1>1. At(c, "dequeue") /\ p \in Slots /\ p # 0 /\ Where(c) = "dequeue"
  BY AtWhere, ZenonT(30) DEF ScheduleDequeue
<1>2. proc[p].state \in {"SLEEPING", "ZOMBIE"}
  BY <1>1, Zenon DEF ScheduleOK
<1>3. CASE p \in Idles
  <2>1. p = Idle(c)
    BY <1>1, <1>3, Zenon DEF RunningOK
  <2>2. Goto(c, "pick") /\ UNCHANGED <<proc, q, curproc, lock, bal, fault>>
    BY <2>1, Zenon DEF ScheduleDequeue
  <2>3. (QueueExact' => IInv') /\ Moved(c, "pick")
    <3>1. q \in [CPUs -> [Levels -> Seq(Slots)]]
      BY Zenon DEF TypeOK
    <3> QED BY <1>1, <2>2, <3>1, InScheduleStep, ZenonT(30) DEF InSchedule
  <2>4. \A s \in Slots : CanRun(s)' <=> CanRun(s)
    BY <1>1, <1>3, <2>2, <2>3, ZenonT(30) DEF CanRun, Moved
  <2> QED BY <2>2, <2>3, <2>4, QueuesStay, Zenon
<1>4. CASE p \notin Idles
  <2>1. PICK l \in Levels : InQueue(q[c][l], p)
    BY <1>1, <1>4, Zenon DEF ScheduleOK
  <2>2. proc[p].rq = <<c, l>>
    BY <1>1, <2>1, ZenonT(30) DEF QueueExact
  <2>3. proc[p].rq[1] = c /\ proc[p].rq[2] = l /\ l # 0
    BY <2>2 DEF Levels
  <2>4. p # Idle(c)
    BY <1>4, IdleSlots, Zenon
  <2>5. /\ q' = [q EXCEPT ![c][l] = Without(@, p)]
        /\ Goto(c, "pick") /\ UNCHANGED <<proc, curproc, lock, bal, fault>>
    BY <2>1, <2>3, <2>4, Zenon DEF ScheduleDequeue
  <2>6. /\ Without(q[c][l], p) \in Seq(Slots)
        /\ \A x : InQueue(Without(q[c][l], p), x) <=> InQueue(q[c][l], x) /\ x # p
        /\ NoDup(Without(q[c][l], p))
    <3>1. q[c][l] \in Seq(Slots) /\ NoDup(q[c][l])
      BY Types, Zenon DEF QueueExact
    <3> QED BY <2>1, <3>1, WithoutQueue, Zenon
  <2>7. /\ q' \in [CPUs -> [Levels -> Seq(Slots)]]
        /\ \A d \in CPUs \ {c} : q'[d] = q[d]
        /\ \A k \in Levels \ {l} : q'[c][k] = q[c][k]
        /\ q'[c][l] = Without(q[c][l], p)
    <3>1. q \in [CPUs -> [Levels -> Seq(Slots)]]
      BY Zenon DEF TypeOK
    <3> QED BY <2>5, <2>6, <3>1, Zenon
  <2>8. (QueueExact' => IInv') /\ Moved(c, "pick")
    BY <1>1, <2>5, <2>7, InScheduleStep, Zenon DEF InSchedule
  <2>9. \A d \in CPUs : \A k \in Levels : \A x \in Slots :
          InQueue(q'[d][k], x) <=> InQueue(q[d][k], x) /\ x # p
    <3> SUFFICES ASSUME NEW d \in CPUs, NEW k \in Levels, NEW x \in Slots
                 PROVE  InQueue(q'[d][k], x) <=> InQueue(q[d][k], x) /\ x # p
      BY Zenon
    <3>1. CASE d = c /\ k = l
      BY <2>6, <2>7, <3>1, Zenon
    <3>2. CASE ~(d = c /\ k = l)
      <4>1. q'[d][k] = q[d][k]
        BY <2>7, <3>2, Zenon
      <4>2. ~InQueue(q[d][k], p)
        <5> SUFFICES ASSUME InQueue(q[d][k], p) PROVE FALSE
          BY Zenon
        <5>1. <<d, k>> = <<c, l>>
          BY <1>1, <2>2 DEF QueueExact
        <5> QED BY <3>2, <5>1, Zenon
      <4> QED BY <4>1, <4>2, Zenon
    <3> QED BY <3>1, <3>2, Zenon
  <2>10. \A x \in Slots : Queued(x)' <=> Queued(x) /\ x # p
    BY <2>9, Zenon DEF Queued
  <2>11. \A x \in Slots : InFlight(x)' <=> InFlight(x)
    BY <2>5, Zenon DEF InFlight
  <2>12. ASSUME NEW x \in Slots PROVE CanRun(x)' <=> CanRun(x) /\ x # p
    <3>1. CASE x = p
      BY <1>1, <1>2, <2>5, <2>8, <3>1, Zenon DEF CanRun, Moved, RunningOK
    <3>2. CASE x # p
      BY <2>5, <2>8, <3>2, Zenon DEF CanRun, Moved
    <3> QED BY <3>1, <3>2, Zenon
  <2>13. ~InFlight(p)
    BY <1>1, <2>1, Zenon DEF Queued, QueueExact
  <2>14. /\ \A d \in CPUs : \A k \in Levels : NoDup(q'[d][k]) /\ NoDup(bal[d].moved[k])
    BY <2>6, <2>7, ZenonT(30) DEF QueueExact
  <2>15. ASSUME NEW x \in Slots
         PROVE  /\ CanRun(x)' <=> Queued(x)' \/ InFlight(x)'
                /\ ~(Queued(x)' /\ InFlight(x)')
    <3>1. /\ CanRun(x) <=> Queued(x) \/ InFlight(x)
          /\ ~(Queued(x) /\ InFlight(x))
      BY Zenon DEF QueueExact
    <3> QED BY <2>10, <2>11, <2>12, <2>13, <3>1, Zenon
  <2>16. \A x \in Slots : \A d \in CPUs : \A k \in Levels :
           /\ InQueue(q'[d][k], x) => proc'[x].rq = <<d, k>>
           /\ InQueue(bal'[d].moved[k], x) =>
                \A e \in CPUs : \A m \in Levels : InQueue(bal'[e].moved[m], x) => e = d /\ m = k
    BY <2>5, <2>9 DEF QueueExact
  <2>17. QueueExact'
    BY <2>5, <2>14, <2>15, <2>16, Zenon DEF QueueExact
  <2> QED BY <2>8, <2>17, Zenon
<1> QED BY <1>3, <1>4, Zenon

\* Locks and frames stay in step when c changes its process.
LEMMA LocksElsewhere ==
  ASSUME LockDiscipline, NEW c \in CPUs, NEW f, Where(c)' = f, Elsewhere(c), LocksOf(c, f)
  PROVE  LockDiscipline'
<1> SUFFICES ASSUME NEW d \in CPUs, NEW l \in Locks
             PROVE  \/ Where(d)' = "dump" /\ l \in CPUs \ {d}
                    \/ lock'[l] = d <=> Holds(d, Where(d)', l)
  BY Zenon DEF LockDiscipline, Holds
<1>1. CASE d = c
  BY <1>1, Zenon DEF LocksOf
<1>2. CASE d # c
  BY <1>2, Constants DEF Elsewhere, LockDiscipline, LocksOf
<1> QED BY <1>1, <1>2, Zenon

\* CPU c, in schedule() or booting, takes up a process that nobody runs.
LEMMA SwitchTo ==
  ASSUME IInv, NEW c \in CPUs, NEW next \in Slots,
         curproc[c] = 0 \/ Where(c) = "pick",
         \A d \in CPUs \ {c} : curproc[d] # next,
         curproc' = [curproc EXCEPT ![c] = next],
         proc' = [proc EXCEPT ![next].state = "RUNNING"],
         UNCHANGED <<q, bal, fault>>,
         kstack' \in [Slots -> Seq(Frames)],
         \A p \in Slots : p # curproc[c] => kstack'[p] = kstack[p],
         \A p \in Slots : p = curproc[c] =>
           /\ WellNested(kstack'[p]) /\ Head(kstack'[p]) \in SwitchFrames
           /\ \A f \in Frames : OnStack(kstack'[p], f) => Allowed(p, f),
         proc[next].state \notin {"UNUSED", "EMBRYO"},
         next \notin Idles => proc[next].state # "ZOMBIE",
         next \in Idles => next = Idle(c),
         next \notin Idles => \E l \in Levels : q[c][l] # <<>> /\ Head(q[c][l]) = next,
         LocksOf(c, "forkret")
  PROVE  IInv'
<1> USE InvParts
<1>p. /\ proc' \in [Slots -> Procs]
      /\ \A p \in Slots \ {next} : proc'[p] = proc[p]
      /\ proc'[next].state = "RUNNING"
      /\ \A p \in Slots : /\ proc'[p].parent = proc[p].parent /\ proc'[p].np = proc[p].np
                          /\ proc'[p].rq = proc[p].rq /\ proc'[p].timeslice = proc[p].timeslice
                          /\ proc'[p].left = proc[p].left /\ proc'[p].chan = proc[p].chan
  <2>1. proc \in [Slots -> Procs] /\ proc[next] \in Procs
    BY Zenon DEF TypeOK
  <2>2. [proc[next] EXCEPT !.state = "RUNNING"] \in Procs
    BY <2>1, ZenonT(30) DEF Procs, States
  <2> QED BY <2>1, <2>2, ZenonT(30) DEF Procs
<1>c. /\ curproc' \in [CPUs -> 0..NPROC] /\ curproc'[c] = next /\ next # 0
      /\ \A d \in CPUs \ {c} : curproc'[d] = curproc[d]
  BY Constants, Zenon DEF TypeOK
<1>h. Head(kstack'[next]) \in SwitchFrames
  BY Zenon DEF StacksOK
<1>w. Where(c)' \in SwitchFrames
  BY <1>c, <1>h, Zenon DEF Where
<1>e. Elsewhere(c)
  <2> SUFFICES ASSUME NEW d \in CPUs \ {c} PROVE Where(d)' = Where(d)
    BY <1>c, Zenon DEF Elsewhere
  <2>1. curproc[d] # 0 => curproc[d] # curproc[c] /\ curproc[d] \in Slots
    BY Types, Zenon DEF RunningOK
  <2> QED BY <1>c, <2>1, Zenon DEF Where
<1>1. TypeOK'
  BY <1>p, <1>c, Zenon DEF TypeOK, LocksOf
<1>2. LockDiscipline'
  <2>1. LocksOf(c, Where(c)')
    BY <1>w, Zenon DEF LocksOf, Holds, SwitchFrames
  <2> QED BY <1>e, <2>1, LocksElsewhere, Zenon
<1>3. StacksOK'
  <2> SUFFICES ASSUME NEW p \in Slots
      PROVE  /\ WellNested(kstack'[p])
             /\ \A f \in Frames : OnStack(kstack'[p], f) => Allowed(p, f)'
             /\ (\A d \in CPUs : curproc'[d] # p) => Head(kstack'[p]) \in SwitchFrames
    BY Zenon DEF StacksOK
  <2>1. \A f : Allowed(p, f)' <=> Allowed(p, f)
    BY <1>p, Zenon DEF Allowed
  <2>2. CASE p = curproc[c]
    BY <2>1, <2>2, Zenon
  <2>3. CASE p # curproc[c]
    BY <1>c, <2>1, <2>3, Zenon DEF StacksOK
  <2> QED BY <2>2, <2>3, Zenon
<1>4. RunningOK'
  <2> SUFFICES ASSUME NEW d \in CPUs, curproc'[d] # 0
      PROVE  /\ \A e \in CPUs : curproc'[e] = curproc'[d] => e = d
             /\ curproc'[d] \in Idles => curproc'[d] = Idle(d)
             /\ proc'[curproc'[d]].state \notin {"UNUSED", "EMBRYO"}
             /\ Where(d)' \notin InSchedule => proc'[curproc'[d]].state = "RUNNING"
    BY Zenon DEF RunningOK
  <2>1. CASE d = c
    BY <1>c, <1>p, <2>1, Zenon
  <2>2. CASE d # c
    <3>1. curproc'[d] = curproc[d] /\ curproc[d] \in Slots \ {next} /\ Where(d)' = Where(d)
      BY <1>c, <1>e, <2>2, Types, Zenon DEF Elsewhere
    <3>2. \A e \in CPUs : curproc'[e] = curproc'[d] => e = d
      BY <1>c, <2>2, <3>1, Zenon DEF RunningOK
    <3> QED BY <1>p, <3>1, <3>2 DEF RunningOK
  <2> QED BY <2>1, <2>2, Zenon
<1>5. FamilyOK' /\ ParentAlive'
  BY <1>p, FamilyStays, Zenon
<1>6. SleepOK' /\ NoLostWakeup'
  BY <1>p, <1>e, <1>w, SleepersStay, ZenonT(30) DEF SwitchFrames, TmrFrames, Where
<1>7. SlicesOK'
  BY <1>p, <1>e, SlicesStay, ZenonT(30)
<1>8. PICK l \in Levels : next \notin Idles => q[c][l] # <<>> /\ Head(q[c][l]) = next
  BY DEF Levels
<1>9. next \notin Idles => InQueue(q[c][l], next) /\ proc[next].rq = <<c, l>> /\ Queued(next)
  <2>1. q[c][l] \in Seq(Slots)
    BY Types, Zenon
  <2>2. next \notin Idles => InQueue(q[c][l], next)
    BY <1>8, <2>1, HeadInQueue, Zenon
  <2> QED BY <2>2 DEF QueueExact, Queued
<1>10. QueueExact'
  <2>1. ASSUME NEW p \in Slots PROVE CanRun(p)' <=> CanRun(p)
    <3>1. CASE p \in Idles
      BY <3>1, Zenon DEF CanRun
    <3>2. CASE p = next /\ p \notin Idles
      <4>1. CanRun(p)
        BY <1>9, <3>2, Zenon DEF QueueExact
      <4> QED BY <1>p, <3>2, <4>1, Zenon DEF CanRun
    <3>3. CASE p # next /\ p \notin Idles
      <4>1. proc'[p].state = proc[p].state
        BY <1>p, <3>3, ZenonT(30)
      <4>2. ASSUME NEW d \in CPUs
            PROVE  curproc'[d] = p /\ Where(d)' \in {"sched", "dequeue"} <=>
                   curproc[d] = p /\ Where(d) \in {"sched", "dequeue"}
        <5>1. CASE d = c
          BY <1>c, <3>3, <5>1, Constants, Zenon DEF Where
        <5>2. CASE d # c
          BY <1>e, <5>2, Zenon DEF Elsewhere
        <5> QED BY <5>1, <5>2, Zenon
      <4> QED BY <4>1, <4>2, Zenon DEF CanRun
    <3> QED BY <3>1, <3>2, <3>3, Zenon
  <2> QED BY <1>p, <2>1, QueuesStay, Zenon
<1>11. CurrentIsHead' /\ ScheduleOK'
  <2>1. OthersKept(c)
    <3>1. \A d \in CPUs \ {c} : curproc[d] # 0 => curproc[d] \in Slots \ {next}
      BY Types, Zenon
    <3> QED BY <1>p, <3>1, Zenon DEF OthersKept
  <2>2. next \notin Idles => HeadAt(c)'
    BY <1>c, <1>p, <1>8, <1>9 DEF HeadAt
  <2>3. \A k \in Levels : bal[c].moved[k] = <<>>
    <3>1. Where(c) # "bal_put"
      BY Zenon DEF Where
    <3> QED BY <3>1, Zenon DEF ScheduleOK
  <2> QED BY <1>c, <1>e, <1>w, <2>1, <2>2, <2>3, OthersStay, Zenon DEF SwitchFrames
<1> QED BY <1>1, <1>2, <1>3, <1>4, <1>5, <1>6, <1>7, <1>10, <1>11, InvWhole, ZenonT(30)

\* schedule() picks the next process and switches to it.
LEMMA SchedulePickInv ==
  ASSUME IInv, NEW c \in CPUs, SchedulePick(c)
  PROVE  IInv'
<1> USE InvParts
<1> DEFINE next == PickNext(c)
           p == curproc[c]
           s == kstack[p]
<1>1. At(c, "pick") /\ p \in Slots /\ Where(c) = "pick" /\ Head(s) = "pick"
  BY AtWhere, ZenonT(30) DEF SchedulePick
<1>2. /\ next \in Slots
      /\ \/ next = Idle(c)
         \/ \E l \in Levels : q[c][l] # <<>> /\ Head(q[c][l]) = next
  BY PickNextHead, Zenon
<1>3. CASE \E d \in CPUs \ {c} : curproc[d] = next
  BY <1>3, Panics, ZenonT(30) DEF SchedulePick, Faults
<1>4. CASE \A d \in CPUs \ {c} : curproc[d] # next
  <2>1. /\ curproc' = [curproc EXCEPT ![c] = next]
        /\ proc' = [proc EXCEPT ![next].state = "RUNNING"]
        /\ Return(c) /\ UNCHANGED <<q, lock, bal, fault>>
    BY <1>4, ZenonT(30) DEF SchedulePick
  <2> HIDE DEF next
  <2>2. s \in Seq(Frames) /\ WellNested(s) /\ Head(s) # "user" /\ kstack \in [Slots -> Seq(Frames)]
    BY <1>1, Zenon DEF TypeOK, StacksOK
  <2>3. /\ Tail(s) \in Seq(Frames) /\ WellNested(Tail(s)) /\ Head(Tail(s)) \in Callers("pick")
        /\ \A g : OnStack(Tail(s), g) => OnStack(s, g)
    BY <1>1, <2>2, NestReturn, ZenonT(30)
  <2>4. /\ kstack' \in [Slots -> Seq(Frames)] /\ kstack'[p] = Tail(s)
        /\ \A x \in Slots : x # p => kstack'[x] = kstack[x]
    BY <1>1, <2>1, <2>2, <2>3, Zenon DEF Return
  <2>5. /\ WellNested(kstack'[p]) /\ Head(kstack'[p]) \in SwitchFrames
        /\ \A f \in Frames : OnStack(kstack'[p], f) => Allowed(p, f)
    BY <1>1, <2>3, <2>4, ZenonT(30) DEF Callers, InSchedule, StacksOK
  <2>6. next \notin Idles => \E l \in Levels : q[c][l] # <<>> /\ Head(q[c][l]) = next
    BY <1>2, IdleSlots, Zenon
  <2>7. ASSUME next \notin Idles PROVE proc[next].state \in {"RUNNABLE", "RUNNING"}
    <3>1. PICK l \in Levels : q[c][l] # <<>> /\ Head(q[c][l]) = next
      BY <2>6, <2>7, Zenon
    <3>2. q[c][l] \in Seq(Slots)
      BY Types, Zenon
    <3>3. InQueue(q[c][l], next)
      BY <3>1, <3>2 DEF InQueue
    <3>4. CanRun(next)
      BY <1>2, <3>3, Zenon DEF QueueExact, Queued
    <3> QED BY <1>1, <1>4, <3>4, Zenon DEF CanRun
  <2>8. next \in Idles => next = Idle(c) /\ proc[next].state \notin {"UNUSED", "EMBRYO"}
    <3>1. ASSUME NEW l \in Levels, q[c][l] # <<>>, Head(q[c][l]) = next PROVE next \notin Idles
      <4>1. q[c][l] \in Seq(Slots)
        BY Types, Zenon
      <4>2. InQueue(q[c][l], next)
        BY <3>1, <4>1 DEF InQueue
      <4>3. CanRun(next)
        BY <1>2, <4>2, Zenon DEF QueueExact, Queued
      <4> QED BY <4>3, Zenon DEF CanRun
    <3> QED BY <1>2, <3>1, Zenon DEF FamilyOK
  <2>9. LocksOf(c, "forkret")
    BY <1>1, <2>1, HeldAt DEF LocksOf, Holds, SwitchFrames, InSchedule
  <2> HIDE DEF s, p
  <2>10. /\ proc[next].state \notin {"UNUSED", "EMBRYO"}
         /\ next \notin Idles => proc[next].state # "ZOMBIE"
    BY <2>7, <2>8, Zenon
  <2>11. /\ \A x \in Slots : x # curproc[c] => kstack'[x] = kstack[x]
         /\ \A x \in Slots : x = curproc[c] =>
              /\ WellNested(kstack'[x]) /\ Head(kstack'[x]) \in SwitchFrames
              /\ \A f \in Frames : OnStack(kstack'[x], f) => Allowed(x, f)
    BY <2>4, <2>5, ZenonT(30) DEF p
  <2> QED BY <1>1, <1>2, <1>4, <2>1, <2>4, <2>6, <2>8, <2>9, <2>10, <2>11, SwitchTo, ZenonT(30)
<1> QED BY <1>3, <1>4, Zenon

\* A CPU's first switch, to an idle process nobody runs
LEMMA RunIdleInv ==
  ASSUME IInv, NEW c \in CPUs, RunIdle(c)
  PROVE  IInv'
<1> USE InvParts
<1> DEFINE next == Idle(c)
<1>1. /\ curproc[c] = 0 /\ Free(c) /\ lock' = [lock EXCEPT ![c] = c]
      /\ curproc' = [curproc EXCEPT ![c] = next]
      /\ proc' = [proc EXCEPT ![next].state = "RUNNING"]
      /\ UNCHANGED <<kstack, q, bal, fault>>
  BY Zenon DEF RunIdle
<1>2. next \in Slots /\ next \in Idles /\ proc[next].state \notin {"UNUSED", "EMBRYO"}
  BY IdleSlots, ZenonT(30) DEF FamilyOK
<1>3. \A d \in CPUs \ {c} : curproc[d] # next
  BY <1>2, IdleSlots, Constants, Zenon DEF RunningOK
<1>4. LocksOf(c, "forkret")
  <2>1. Where(c) = "boot"
    BY <1>1, Zenon DEF Where
  <2>2. lock \in [Locks -> CPUs \cup {NoCpu}] /\ \A l \in Locks : lock[l] # c
    BY <2>1, ZenonT(30) DEF TypeOK, LockDiscipline, Holds, SwitchFrames, InSchedule
  <2> QED BY <1>1, <2>2, Constants, Zenon DEF Free, LocksOf, Holds, SwitchFrames, InSchedule
<1>5. kstack' \in [Slots -> Seq(Frames)] /\ kstack' = kstack
  BY <1>1, Zenon DEF TypeOK
<1> HIDE DEF next
<1>6. next = Idle(c)
  BY Zenon DEF next
<1> QED BY <1>1, <1>2, <1>3, <1>4, <1>5, <1>6, SwitchTo, Constants, ZenonT(30)

-----------------------------------------------------------------------------
(* Queueing *)

\* wakeup1 of one sleeper on the tick, whichever CPU it went to sleep on
LEMMA TimerWakeInv ==
  ASSUME IInv, NEW c \in CPUs, TimerWake(c)
  PROVE  IInv'
<1> USE InvParts
<1>1. At(c, "tmr_wake") /\ Where(c) = "tmr_wake" /\ curproc[c] \in Slots /\ curproc[c] # 0
  BY AtWhere, ZenonT(30) DEF TimerWake
<1>2. PICK s \in Slots :
        /\ IsLeast(s, TickSleepers)
        /\ IF Queued(s) THEN Panic("queued twice")
           ELSE /\ proc' = [proc EXCEPT ![s] = Woken(@, c)]
                /\ q' = [q EXCEPT ![c][1] = Append(@, s)]
                /\ UNCHANGED <<kstack, curproc, lock, bal, fault>>
  BY ZenonT(30) DEF TimerWake
<1>3. CASE Queued(s)
  BY <1>2, <1>3, Panics, ZenonT(30) DEF Faults
<1>4. CASE ~Queued(s)
  <2>1. /\ proc' = [proc EXCEPT ![s] = Woken(@, c)]
        /\ q' = [q EXCEPT ![c][1] = Append(@, s)]
        /\ UNCHANGED <<kstack, curproc, lock, bal, fault>>
        /\ proc[s].state = "SLEEPING"
    BY <1>2, <1>4, Zenon DEF IsLeast, TickSleepers
  <2>2. /\ s \notin Idles /\ ~CanRun(s) /\ ~InFlight(s)
        /\ \A d \in CPUs : curproc[d] = s => Where(d) = "pick"
    BY <1>4, <2>1, SleeperGone, Zenon
  <2>3. s # curproc[c] /\ proc[curproc[c]].state = "RUNNING"
    BY <1>1, <2>1, Zenon DEF RunningOK, InSchedule
  <2>p. /\ proc' \in [Slots -> Procs]
        /\ \A p \in Slots \ {s} : proc'[p] = proc[p]
        /\ proc'[s].state = "RUNNABLE" /\ proc'[s].rq = <<c, 1>>
        /\ proc'[s].parent = proc[s].parent /\ proc'[s].np = proc[s].np
        /\ proc'[s].left = proc[s].left
        /\ \/ proc[s].rq = <<c, 1>> /\ proc'[s].timeslice = proc[s].timeslice
           \/ proc'[s].timeslice >= 1
    <3>1. proc \in [Slots -> Procs] /\ proc[s] \in Procs
      BY Zenon DEF TypeOK
    <3>2. proc'[s] = Woken(proc[s], c) /\ \A p \in Slots \ {s} : proc'[p] = proc[p]
      BY <2>1, <3>1, Zenon
    <3> QED BY <2>1, <3>1, <3>2, WokenFields, Zenon
  <2>m. Moved(c, "tmr_wake") /\ Elsewhere(c)
    <3>1. SameNp
      BY <2>p, Zenon DEF SameNp
    <3> QED BY <1>1, <2>1, <3>1, StillMoves, MovedElsewhere, Zenon
  <2>4. \A p \in Slots : CanRun(p)' <=> CanRun(p) \/ p = s
    <3>1. \A d \in CPUs : Where(d)' = Where(d)
      BY <2>1, Zenon DEF Where
    <3> QED BY <2>1, <2>2, <2>p, <3>1, Zenon DEF CanRun
  <2>5. /\ QueueExact'
        /\ q' \in [CPUs -> [Levels -> Seq(Slots)]]
        /\ \A d \in CPUs : \A k \in Levels :
              /\ q[d][k] # <<>> => q'[d][k] # <<>> /\ Head(q'[d][k]) = Head(q[d][k])
              /\ \A p \in Slots : InQueue(q[d][k], p) => InQueue(q'[d][k], p)
    <3>1. /\ <<s>> \in Seq(Slots) /\ NoDup(<<s>>) /\ \A p : InQueue(<<s>>, p) <=> p = s
          /\ Append(q[c][1], s) = q[c][1] \o <<s>> /\ 1 \in Levels
      <4>1. 1 \in Levels /\ q[c][1] \in Seq(Slots)
        BY Types DEF Levels
      <4> QED BY <4>1, OneQueue, Zenon
    <3>2. q' = [q EXCEPT ![c][1] = @ \o <<s>>]
      BY <2>1, <3>1, Zenon
    <3>3. \A p \in Slots :
           /\ CanRun(p)' <=> CanRun(p) \/ InQueue(<<s>>, p)
           /\ InQueue(<<s>>, p) => ~Queued(p) /\ ~InFlight(p) /\ proc'[p].rq = <<c, 1>>
           /\ ~InQueue(<<s>>, p) => proc'[p].rq = proc[p].rq
      BY <1>4, <2>2, <2>4, <2>p, <3>1, Zenon
    <3> QED BY <2>1, <3>1, <3>2, <3>3, AddedExact, ZenonT(30)
  <2>6. TypeOK' /\ LockDiscipline' /\ StacksOK'
    <3>1. lock' = lock /\ \A d \in CPUs : Where(d)' = Where(d)
      BY <2>1, Zenon DEF Where
    <3>2. TypeOK'
      BY <2>1, <2>5, <2>p, <2>m, ZenonT(30) DEF TypeOK, Moved
    <3>3. LockDiscipline'
      BY <3>1 DEF LockDiscipline, Holds
    <3> QED BY <2>m, <3>2, <3>3, Zenon DEF Moved
  <2>o. OthersKept(c)
    <3>1. ASSUME NEW d \in CPUs \ {c}, curproc[d] # 0
          PROVE  /\ \/ proc'[curproc[d]].state = proc[curproc[d]].state
                    \/ Where(d) = "pick" /\ proc'[curproc[d]].state = "RUNNABLE"
                 /\ Where(d) \notin InSchedule => proc'[curproc[d]].rq = proc[curproc[d]].rq
      BY <2>2, <2>p, <3>1, Types, Zenon DEF InSchedule
    <3> QED BY <2>1, <2>5, <3>1, Zenon DEF OthersKept
  <2>7. RunningOK'
    BY <1>1, <2>1, <2>3, <2>p, <2>m, <2>o, RunningStays, Zenon
  <2>8. FamilyOK' /\ ParentAlive'
    BY <2>1, <2>p, FamilyStays, Zenon
  <2>9. SleepOK' /\ NoLostWakeup'
    BY <1>1, <2>p, <2>m, SleepersStay, ZenonT(30) DEF Moved
  <2>10. SlicesOK'
    BY <1>1, <2>p, <2>m, SlicesStay, Zenon
  <2>11. CurrentIsHead' /\ ScheduleOK'
    <3>1. curproc[c] \notin Idles => HeadAt(c)'
      <4>1. proc'[curproc[c]] = proc[curproc[c]]
        BY <1>1, <2>3, <2>p, Zenon
      <4>2. curproc[c] \notin Idles => HeadAt(c)
        BY <1>1, ZenonT(30) DEF CurrentIsHead, HeadAt, InSchedule
      <4> QED BY <2>1, <2>5, <4>1, <4>2 DEF HeadAt
    <3>2. \A l \in Levels : bal[c].moved[l] = <<>>
      BY <1>1, Zenon DEF ScheduleOK
    <3> QED BY <1>1, <2>1, <2>m, <2>o, <3>1, <3>2, OthersStay, Zenon DEF Moved
  <2> QED BY <2>5, <2>6, <2>7, <2>8, <2>9, <2>10, <2>11, InvWhole, ZenonT(30)
<1> QED BY <1>3, <1>4, Zenon

-----------------------------------------------------------------------------
(* The timer interrupt *)

\* wakeup() takes proc_table_lock ...
LEMMA TimerPtlInv ==
  ASSUME IInv, NEW c \in CPUs, TimerPtl(c)
  PROVE  IInv'
<1> USE InvParts
<1>1. At(c, "tmr_ptl") /\ Where(c) = "tmr_ptl" /\ curproc[c] \in Slots
  BY AtWhere, Zenon DEF TimerPtl
<1>2. Moved(c, "tmr_rq")
  <2>1. Allowed(curproc[c], "tmr_ptl")
    BY <1>1, CurrentAllowed, Zenon
  <2>2. Goto(c, "tmr_rq") /\ UNCHANGED <<proc, q, curproc, bal>>
    BY Zenon DEF TimerPtl
  <2>3. "tmr_rq" \in Frames /\ Allowed(curproc[c], "tmr_rq") /\ Callers("tmr_ptl") = Callers("tmr_rq")
    BY <2>1, Zenon DEF Allowed, Callers, InSchedule, TrapFrames, Frames, SwitchFrames, Interruptible
  <2>4. SameNp
    BY <2>2, QuietSame, Zenon
  <2> QED BY <1>1, <2>2, <2>3, <2>4, GotoMoves, Zenon
<1>3. LocksOf(c, "tmr_rq")
  BY <1>1, HeldAt, Constants DEF TimerPtl, Free, LocksOf, Holds, SwitchFrames, InSchedule
<1> QED BY <1>1, <1>2, <1>3, LockStepInv, Zenon DEF TimerPtl, InSchedule, TmrFrames

\* ... and rq_lock ...
LEMMA TimerRqInv ==
  ASSUME IInv, NEW c \in CPUs, TimerRq(c)
  PROVE  IInv'
<1> USE InvParts
<1>1. At(c, "tmr_rq") /\ Where(c) = "tmr_rq" /\ curproc[c] \in Slots
  BY AtWhere, Zenon DEF TimerRq
<1>2. Moved(c, "tmr_wake")
  <2>1. Allowed(curproc[c], "tmr_rq")
    BY <1>1, CurrentAllowed, Zenon
  <2>2. Goto(c, "tmr_wake") /\ UNCHANGED <<proc, q, curproc, bal>>
    BY Zenon DEF TimerRq
  <2>3. "tmr_wake" \in Frames /\ Allowed(curproc[c], "tmr_wake") /\ Callers("tmr_rq") = Callers("tmr_wake")
    BY <2>1, Zenon DEF Allowed, Callers, InSchedule, TrapFrames, Frames, SwitchFrames, Interruptible
  <2>4. SameNp
    BY <2>2, QuietSame, Zenon
  <2> QED BY <1>1, <2>2, <2>3, <2>4, GotoMoves, Zenon
<1>3. LocksOf(c, "tmr_wake")
  BY <1>1, HeldAt, Constants DEF TimerRq, Free, LocksOf, Holds, SwitchFrames, InSchedule
<1> QED BY <1>1, <1>2, <1>3, LockStepInv, Zenon DEF TimerRq, InSchedule, TmrFrames

\* ... and gives up the three locks when no sleeper is left.
LEMMA TimerReleaseInv ==
  ASSUME IInv, NEW c \in CPUs, TimerRelease(c)
  PROVE  IInv'
<1> USE InvParts
<1>1. At(c, "tmr_wake") /\ Where(c) = "tmr_wake" /\ curproc[c] \in Slots
  BY AtWhere, Zenon DEF TimerRelease
<1>2. Moved(c, "tmr_end")
  <2>1. Allowed(curproc[c], "tmr_wake")
    BY <1>1, CurrentAllowed, Zenon
  <2>2. Goto(c, "tmr_end") /\ UNCHANGED <<proc, q, curproc, bal>>
    BY Zenon DEF TimerRelease
  <2>3. "tmr_end" \in Frames /\ Allowed(curproc[c], "tmr_end") /\ Callers("tmr_wake") = Callers("tmr_end")
    BY <2>1, Zenon DEF Allowed, Callers, InSchedule, TrapFrames, Frames, SwitchFrames, Interruptible
  <2>4. SameNp
    BY <2>2, QuietSame, Zenon
  <2> QED BY <1>1, <2>2, <2>3, <2>4, GotoMoves, Zenon
<1>3. LocksOf(c, "tmr_end")
  BY <1>1, HeldAt, Constants DEF TimerRelease, Free, LocksOf, Holds, SwitchFrames, InSchedule
<1> QED BY <1>1, <1>2, <1>3, LockStepInv, Zenon DEF TimerRelease, InSchedule, TmrFrames

\* yield() gives back the rq_lock that the last scheduler of this CPU took.
LEMMA YieldReleaseInv ==
  ASSUME IInv, NEW c \in CPUs, YieldRelease(c)
  PROVE  IInv'
<1> USE InvParts
<1>1. At(c, "yield_rel") /\ Where(c) = "yield_rel" /\ curproc[c] \in Slots
  BY AtWhere, Zenon DEF YieldRelease
<1>2. PICK f \in Interruptible : Moved(c, f)
  BY <1>1, ReturnMoves, QuietSame, Zenon DEF YieldRelease, Callers, InSchedule, TrapFrames
<1>3. LocksOf(c, f)
  BY <1>1, HeldAt, Constants
  DEF YieldRelease, LocksOf, Holds, SwitchFrames, InSchedule, Interruptible
<1> QED BY <1>1, <1>2, <1>3, LockStepInv, Zenon DEF YieldRelease, InSchedule, TmrFrames, Interruptible

\* proc_tick_MLFQ gives back a lock only if it has it, which is its CPU's.
LEMMA TickReleaseInv ==
  ASSUME IInv, NEW c \in CPUs, TickRelease(c)
  PROVE  IInv'
<1> USE InvParts
<1>1. At(c, "tick_rel") /\ curproc[c] \in Slots
  BY AtWhere, Zenon DEF TickRelease
<1> DEFINE rq == proc[curproc[c]].trq
<1>2. CASE lock[rq] # c
  BY <1>2, Panics, Zenon DEF TickRelease, Faults
<1>3. CASE lock[rq] = c
  <2>1. /\ lock' = [lock EXCEPT ![rq] = NoCpu] /\ Return(c)
        /\ proc' = [proc EXCEPT ![curproc[c]].trq = 0]
        /\ UNCHANGED <<q, curproc, bal, fault>>
    BY <1>3, Zenon DEF TickRelease
  <2>2. rq = c
    <3>1. rq \in CPUs
      BY <1>1, Types, Zenon
    <3>2. rq \in Locks
      BY <3>1, Constants, ZenonT(30)
    <3>3. \A l \in Locks : lock[l] = c <=> Holds(c, "tick_rel", l)
      BY <1>1, HeldAt, Zenon
    <3> HIDE DEF rq
    <3>4. Holds(c, "tick_rel", rq)
      BY <1>3, <3>2, <3>3, Zenon
    <3> QED BY <3>1, <3>4, Constants, Zenon DEF Holds
  <2>3. OwnFields(c) /\ SameNp
    <3>1. proc \in [Slots -> Procs] /\ proc[curproc[c]] \in Procs
      BY <1>1, Zenon DEF TypeOK
    <3>2. [proc[curproc[c]] EXCEPT !.trq = 0] \in Procs
      BY <3>1, Constants, ZenonT(30) DEF Procs
    <3>3. OwnFields(c)
      BY <1>1, <2>1, <3>1, <3>2 DEF OwnFields
    <3> QED BY <3>3, OwnSameNp, Zenon
  <2>4. PICK f \in Interruptible : Moved(c, f)
    BY <1>1, <2>1, <2>3, ReturnMoves, Zenon DEF Callers, InSchedule, TrapFrames
  <2>5. LocksOf(c, f)
    BY <1>1, <2>1, <2>2, HeldAt, Constants
    DEF LocksOf, Holds, SwitchFrames, InSchedule, Interruptible
  <2> QED BY <1>1, <2>1, <2>3, <2>4, <2>5, FieldStepInv DEF InSchedule, TmrFrames, Interruptible
<1> QED BY <1>2, <1>3, Zenon

\* The timer interrupt: sleepers whose time is up will be reached, because CPU 0
\* is on its way to them, and nobody is between its test of the time and its
\* sleep, because that is done under tickslock.
LEMMA TimerInv ==
  ASSUME IInv, NEW c \in CPUs, Timer(c)
  PROVE  IInv'
<1> USE InvParts
<1>1. PICK g \in Interruptible : At(c, g)
  BY Zenon DEF Timer
<1>2. Where(c) = g /\ curproc[c] \in Slots /\ curproc[c] # 0
      /\ g \notin InSchedule \cup TmrFrames \cup {"bal_put", "tick", "dump"}
  BY <1>1, AtWhere, Zenon DEF Interruptible, InSchedule, TmrFrames
<1>3. CASE c # 0
  <2>1. Push(c, "tmr_end") /\ UNCHANGED <<proc, lock, q, curproc, bal, fault>>
    BY <1>3, Zenon DEF Timer
  <2>2. Moved(c, "tmr_end")
    BY <1>1, <2>1, PushMoves, QuietSame, Zenon DEF Callers, Allowed, InSchedule, TrapFrames, Frames
  <2>3. LocksOf(c, "tmr_end")
    BY <1>1, <1>2, <2>1, HeldAt DEF LocksOf, Holds, Interruptible, SwitchFrames, InSchedule
  <2> QED BY <1>1, <1>2, <2>1, <2>2, <2>3, LockStepInv, Zenon DEF InSchedule
<1>4. CASE c = 0
  <2>1. /\ Free(TicksLock) /\ lock' = [lock EXCEPT ![TicksLock] = c]
        /\ proc' = [p \in Slots |-> [proc[p] EXCEPT !.left = IF @ = 0 THEN 0 ELSE @ - 1]]
        /\ Push(c, "tmr_ptl") /\ UNCHANGED <<q, curproc, bal, fault>>
    BY <1>4, Zenon DEF Timer
  <2>p. /\ proc' \in [Slots -> Procs]
        /\ \A p \in Slots : /\ proc'[p].state = proc[p].state
                            /\ proc'[p].parent = proc[p].parent
                            /\ proc'[p].np = proc[p].np /\ proc'[p].chan = proc[p].chan
                            /\ proc'[p].rq = proc[p].rq
                            /\ proc'[p].timeslice = proc[p].timeslice
    <3>1. ASSUME NEW p \in Slots
          PROVE  /\ proc'[p] \in Procs
                 /\ proc'[p].state = proc[p].state /\ proc'[p].parent = proc[p].parent
                 /\ proc'[p].np = proc[p].np /\ proc'[p].chan = proc[p].chan
                 /\ proc'[p].rq = proc[p].rq /\ proc'[p].timeslice = proc[p].timeslice
      <4> DEFINE n == IF proc[p].left = 0 THEN 0 ELSE proc[p].left - 1
      <4>1. proc[p] \in Procs /\ proc'[p] = [proc[p] EXCEPT !.left = n]
        BY <2>1, Zenon DEF TypeOK
      <4>2. n \in 0..MaxSleep
        <5>1. proc[p].left \in 0..MaxSleep
          BY <4>1, Zenon DEF Procs
        <5> QED BY <5>1, SchedAssumption
      <4> HIDE DEF n
      <4>3. [proc[p] EXCEPT !.left = n] \in Procs
        BY <4>1, <4>2, Zenon DEF Procs
      <4> QED BY <4>1, <4>3, Zenon DEF Procs
    <3> QED BY <2>1, <3>1, Zenon
  <2>m. Moved(c, "tmr_ptl") /\ Elsewhere(c)
    <3>1. SameNp
      BY <2>p, Zenon DEF SameNp
    <3>2. /\ "tmr_ptl" \in Frames /\ g \in Callers("tmr_ptl")
          /\ Allowed(curproc[c], "tmr_ptl")
      BY Zenon DEF Callers, Allowed, InSchedule, TrapFrames, Frames
    <3> QED BY <1>1, <2>1, <3>1, <3>2, PushMoves, MovedElsewhere, Zenon
  <2>w. Where(c)' = "tmr_ptl" /\ StacksOK' /\ kstack' \in [Slots -> Seq(Frames)]
    BY <2>m, Zenon DEF Moved
  <2>3. LocksOf(c, "tmr_ptl")
    BY <1>1, <1>2, <2>1, HeldAt, Constants
       DEF LocksOf, Holds, Interruptible, SwitchFrames, InSchedule, Free
  <2>4. TypeOK' /\ LockDiscipline'
    BY <2>1, <2>p, <2>m, <2>w, <2>3, LocksMove, ZenonT(30) DEF TypeOK, LocksOf
  <2>o. OthersKept(c)
    BY <2>1, <2>p, Types, Zenon DEF OthersKept
  <2>5. RunningOK'
    BY <1>2, <2>1, <2>p, <2>m, <2>o, RunningStays DEF RunningOK
  <2>6. FamilyOK' /\ ParentAlive'
    BY <2>p, FamilyStays, Zenon
  <2>7. SlicesOK'
    BY <1>2, <2>p, <2>m, SlicesStay, Zenon
  <2>8. QueueExact'
    <3>1. \A p \in Slots : CanRun(p)' <=> CanRun(p)
      BY <1>2, <2>1, <2>p, <2>m, <2>w, ZenonT(30) DEF CanRun, Elsewhere, InSchedule
    <3> QED BY <2>1, <2>p, <3>1, QueuesStay, Zenon
  <2>9. CurrentIsHead' /\ ScheduleOK'
    <3>1. curproc[c] \notin Idles => HeadAt(c)'
      BY <1>2, <2>1, <2>p DEF CurrentIsHead, HeadAt
    <3>2. \A l \in Levels : bal[c].moved[l] = <<>>
      BY <1>2, Zenon DEF ScheduleOK
    <3> QED BY <1>2, <2>1, <2>m, <2>w, <2>o, <3>1, <3>2, OthersStay, Zenon
  <2>z. \A p : Zombies(p)' = Zombies(p)
    BY <2>p, Zenon DEF Zombies, Children
  <2>10. SleepOK'
    <3>1. ASSUME NEW d \in CPUs
          PROVE  /\ Where(d)' = "wait_rq" => Zombies(curproc[d])' = {}
                 /\ Where(d)' # "slp_rq"
      <4>1. CASE d = c
        BY <2>w, <4>1, Zenon
      <4>2. CASE d # c
        <5>1. curproc'[d] = curproc[d] /\ Where(d)' = Where(d)
          BY <2>m, <4>2, Zenon DEF Elsewhere
        <5>2. Where(d) # "slp_rq"
          BY <2>1, Constants, Zenon DEF LockDiscipline, Holds, Free
        <5> QED BY <2>z, <5>1, <5>2, Zenon DEF SleepOK
      <4> QED BY <4>1, <4>2, Zenon
    <3>2. \A p \in Slots : proc'[p].state = "SLEEPING" => proc'[p].chan \in {p, Ticks}
      BY <2>p, Zenon DEF SleepOK
    <3> QED BY <3>1, <3>2, Zenon DEF SleepOK
  <2>11. NoLostWakeup'
    BY <1>4, <2>p, <2>w, <2>z, Zenon DEF NoLostWakeup
  <2> QED BY <2>4, <2>5, <2>6, <2>7, <2>8, <2>9, <2>10, <2>11, <2>w, InvWhole, ZenonT(30)
<1> QED BY <1>3, <1>4, Zenon

\* proc_tick_MLFQ counts a slice down: it was not used up, and when it is now
\* the process is on its way to the next level.
LEMMA SliceInv ==
  ASSUME IInv, NEW c \in CPUs, At(c, "tmr_end"), NEW tr \in CPUs,
         curproc[c] \notin Idles, proc[curproc[c]].rq[2] \in {1, 2},
         proc' = [proc EXCEPT ![curproc[c]] = [@ EXCEPT
                   !.timeslice = proc[curproc[c]].timeslice - 1, !.trq = tr]],
         IF proc[curproc[c]].timeslice = 1 THEN Goto(c, "tick") ELSE Return(c),
         UNCHANGED <<q, curproc, lock, bal, fault>>
  PROVE  IInv'
<1> USE InvParts
<1> DEFINE cp == curproc[c]
           ts == proc[cp].timeslice
<1>1. cp \in Slots /\ cp # 0 /\ Where(c) = "tmr_end" /\ proc[cp] \in Procs /\ ts \in Nat
  BY AtWhere, Types, Zenon
<1>2. ts >= 1
  BY <1>1 DEF SlicesOK, RunningOK
<1>p. /\ proc' \in [Slots -> Procs]
      /\ \A p \in Slots : /\ proc'[p].state = proc[p].state /\ proc'[p].parent = proc[p].parent
                          /\ proc'[p].np = proc[p].np /\ proc'[p].chan = proc[p].chan
                          /\ proc'[p].rq = proc[p].rq /\ proc'[p].left = proc[p].left
                          /\ p # cp => proc'[p].timeslice = proc[p].timeslice
      /\ proc'[cp].timeslice = ts - 1
  <2>1. proc \in [Slots -> Procs]
    BY Zenon DEF TypeOK
  <2>2. ts - 1 \in Nat
    BY <1>1, <1>2
  <2> DEFINE new == [proc[cp] EXCEPT !.timeslice = ts - 1, !.trq = tr]
  <2>3. /\ new \in Procs /\ new.state = proc[cp].state /\ new.parent = proc[cp].parent
        /\ new.np = proc[cp].np /\ new.chan = proc[cp].chan /\ new.rq = proc[cp].rq
        /\ new.left = proc[cp].left /\ new.timeslice = ts - 1
    BY <1>1, <2>2, ZenonT(30) DEF Procs
  <2>4. proc' = [proc EXCEPT ![cp] = new]
    BY Zenon
  <2> HIDE DEF new, cp, ts
  <2> QED BY <1>1, <2>1, <2>3, <2>4, ZenonT(30)
<1>n. SameNp
  BY <1>p, Zenon DEF SameNp
<1>3. PICK f \in Interruptible \cup {"tick"} : Moved(c, f) /\ (ts = 1 => f = "tick")
  <2>1. CASE ts = 1
    <3>1. /\ "tick" \in Frames /\ Allowed(cp, "tick")
          /\ Callers("tmr_end") = Callers("tick")
      BY Zenon DEF Callers, Allowed, InSchedule, TrapFrames, Frames
    <3>2. Moved(c, "tick")
      BY <1>n, <2>1, <3>1, GotoMoves, Zenon
    <3> QED BY <3>2, Zenon
  <2>2. CASE ts # 1
    <3>1. \E f \in Callers("tmr_end") : Moved(c, f)
      BY <1>n, <2>2, ReturnMoves, Zenon
    <3> QED BY <2>2, <3>1, Zenon DEF Callers, InSchedule, TrapFrames
  <2> QED BY <2>1, <2>2, Zenon
<1>m. /\ curproc' = curproc /\ Where(c)' = f /\ Elsewhere(c) /\ StacksOK'
      /\ kstack' \in [Slots -> Seq(Frames)]
  BY <1>3, MovedElsewhere, Zenon DEF Moved
<1>f. f \notin InSchedule \cup TmrFrames \cup {"bal_put", "wait_rq", "slp_rq"}
  BY Zenon DEF InSchedule, TmrFrames, Interruptible
<1> HIDE DEF cp, ts
<1>4. LocksOf(c, f)
  BY HeldAt DEF LocksOf, Holds, Interruptible, SwitchFrames, InSchedule
<1>5. TypeOK' /\ LockDiscipline'
  BY <1>p, <1>3, <1>m, <1>4, LocksMove, Zenon DEF TypeOK
<1>o. OthersKept(c)
  BY <1>p, Types, Zenon DEF OthersKept
<1>6. RunningOK'
  <2>1. proc[cp].state = "RUNNING" /\ proc'[cp].state = "RUNNING"
    BY <1>1, <1>p DEF RunningOK, InSchedule, cp
  <2>2. proc'[cp].state \notin {"UNUSED", "EMBRYO"}
    BY <2>1, Zenon
  <2> QED BY <1>1, <1>m, <1>o, <2>1, <2>2, RunningStays, Zenon DEF cp
<1>7. FamilyOK' /\ ParentAlive'
  BY <1>p, FamilyStays, Zenon
<1>8. SlicesOK'
  <2> SUFFICES ASSUME NEW p \in Slots, proc'[p].rq[2] \in {1, 2}
               PROVE  \/ proc'[p].timeslice >= 1
                      \/ \E d \in CPUs : curproc'[d] = p /\ Where(d)' = "tick"
    BY Zenon DEF SlicesOK
  <2>1. CASE p = cp
    <3>1. CASE ts = 1
      <4>1. curproc'[c] = cp /\ Where(c)' = "tick"
        BY <1>3, <1>m, <3>1, Zenon DEF cp
      <4> QED BY <2>1, <4>1, Zenon
    <3>2. CASE ts # 1
      <4>1. ts - 1 >= 1
        BY <1>1, <1>2, <3>2
      <4> QED BY <1>p, <2>1, <4>1, Zenon
    <3> QED BY <3>1, <3>2, Zenon
  <2>2. CASE p # cp
    <3>1. \/ proc[p].timeslice >= 1
          \/ \E d \in CPUs : curproc[d] = p /\ Where(d) = "tick"
      BY <1>p, Zenon DEF SlicesOK
    <3>2. \A d \in CPUs : curproc[d] = p => Where(d)' = Where(d)
      BY <1>m, <2>2, Zenon DEF Elsewhere, cp
    <3> QED BY <1>m, <1>p, <2>2, <3>1, <3>2
  <2> QED BY <2>1, <2>2, Zenon
<1>9. QueueExact'
  <2>1. \A p \in Slots : CanRun(p)' <=> CanRun(p)
    BY <1>1, <1>p, <1>m, <1>f DEF CanRun, Elsewhere, InSchedule
  <2> QED BY <1>p, <2>1, QueuesStay, Zenon
<1>10. CurrentIsHead' /\ ScheduleOK'
  <2>1. cp \notin Idles => HeadAt(c)'
    <3>1. Where(c) \notin InSchedule
      BY <1>1, Zenon DEF InSchedule
    <3>2. cp \notin Idles => HeadAt(c)
      BY <1>1, <3>1, Zenon DEF CurrentIsHead, HeadAt, cp
    <3>3. UNCHANGED <<q, curproc>> /\ proc'[cp].rq = proc[cp].rq
      BY <1>1, <1>p, Zenon
    <3> QED BY <3>2, <3>3, Zenon DEF HeadAt, cp
  <2>2. \A l \in Levels : bal[c].moved[l] = <<>>
    BY <1>1, Zenon DEF ScheduleOK
  <2> QED BY <1>1, <1>m, <1>o, <1>f, <2>1, <2>2, OthersStay, Zenon DEF cp, InSchedule
<1>11. SleepOK' /\ NoLostWakeup'
  BY <1>1, <1>m, <1>p, <1>f, SleepersStay, Zenon DEF TmrFrames
<1> QED BY <1>5, <1>6, <1>7, <1>8, <1>9, <1>10, <1>11, <1>m, InvWhole, ZenonT(30)

\* The end of the timer interrupt, outside schedule()
LEMMA TimerEndInv ==
  ASSUME IInv, NEW c \in CPUs, TimerEnd(c)
  PROVE  IInv'
<1> USE InvParts
<1> DEFINE p == curproc[c]
           r == proc[p]
           inUser == kstack[p][2] = "user"
<1>1. At(c, "tmr_end") /\ Where(c) = "tmr_end" /\ p \in Slots /\ p # 0
  BY AtWhere, ZenonT(30) DEF TimerEnd
<1>2. ASSUME NEW f, Moved(c, f), UNCHANGED <<proc, q, lock, bal, fault>>,
             f \in Interruptible \cup {"exit", "bal"}
      PROVE  IInv'
  <2>1. LocksOf(c, f)
    BY <1>1, <1>2, HeldAt DEF LocksOf, Holds, Interruptible, SwitchFrames, InSchedule
  <2> QED BY <1>1, <1>2, <2>1, LockStepInv, ZenonT(30) DEF Interruptible, InSchedule, TmrFrames
<1>3. CASE r.killed = 1 /\ inUser /\ p = InitProc
  BY <1>3, Panics, ZenonT(30) DEF TimerEnd, Faults
<1>4. CASE r.killed = 1 /\ inUser /\ p # InitProc
  <2>1. Goto(c, "exit") /\ UNCHANGED <<proc, q, curproc, lock, bal, fault>>
    BY <1>4, Zenon DEF TimerEnd
  <2>2. "exit" \in Frames /\ Allowed(p, "exit") /\ kstack[p][2] \in Callers("exit")
    BY <1>4, Zenon DEF Frames, Allowed, Callers, InSchedule, TrapFrames
  <2>3. Moved(c, "exit")
    BY <1>1, <2>1, <2>2, GotoMoves, QuietSame, Zenon
  <2> QED BY <1>2, <2>1, <2>3, Zenon
<1>5. CASE /\ ~(r.killed = 1 /\ inUser)
           /\ r.state # "RUNNING" \/ (p # Idle(c) /\ r.rq = <<c, 3>>)
  <2>1. Return(c) /\ UNCHANGED <<proc, q, curproc, lock, bal, fault>>
    BY <1>5, ZenonT(30) DEF TimerEnd
  <2>2. PICK f \in Callers("tmr_end") : Moved(c, f)
    BY <1>1, <2>1, ReturnMoves, QuietSame, Zenon
  <2> QED BY <1>2, <2>1, <2>2, Zenon DEF Callers, InSchedule, TrapFrames
<1>6. CASE /\ ~(r.killed = 1 /\ inUser)
           /\ ~(r.state # "RUNNING" \/ (p # Idle(c) /\ r.rq = <<c, 3>>))
           /\ p = Idle(c)
  <2>1. Goto(c, "bal") /\ UNCHANGED <<proc, q, curproc, lock, bal, fault>>
    BY <1>6, ZenonT(30) DEF TimerEnd
  <2>2. "bal" \in Frames /\ Allowed(p, "bal") /\ Callers("tmr_end") = Callers("bal")
    BY <1>6, IdleSlots, Zenon DEF Frames, Allowed, Callers, InSchedule, TrapFrames, Idles
  <2>3. Moved(c, "bal")
    BY <1>1, <2>1, <2>2, GotoMoves, QuietSame, Zenon
  <2> QED BY <1>2, <2>1, <2>3, Zenon
<1>7. CASE /\ ~(r.killed = 1 /\ inUser)
           /\ ~(r.state # "RUNNING" \/ (p # Idle(c) /\ r.rq = <<c, 3>>))
           /\ p # Idle(c) /\ r.rq \in {<<c, 1>>, <<c, 2>>}
  <2> DEFINE tr == IF r.timeslice = 1 THEN c ELSE 0
  <2>1. /\ proc' = [proc EXCEPT ![p] = [@ EXCEPT !.timeslice = r.timeslice - 1, !.trq = tr]]
        /\ IF r.timeslice = 1 THEN Goto(c, "tick") ELSE Return(c)
        /\ UNCHANGED <<q, curproc, lock, bal, fault>>
    BY <1>7, ZenonT(30) DEF TimerEnd
  <2>a. tr \in CPUs
    BY Constants, Zenon
  <2>b. r.rq[2] \in {1, 2}
    BY <1>7
  <2>c. p \notin Idles
    BY <1>1, <1>7, Zenon DEF RunningOK
  <2>2. tr \in CPUs /\ r.rq[2] \in {1, 2} /\ p \notin Idles
    BY <2>a, <2>b, <2>c, Zenon
  <2> HIDE DEF tr
  <2> QED BY <1>1, <2>1, <2>2, SliceInv, ZenonT(30)
<1>8. CASE /\ ~(r.killed = 1 /\ inUser)
           /\ ~(r.state # "RUNNING" \/ (p # Idle(c) /\ r.rq = <<c, 3>>))
           /\ p # Idle(c) /\ r.rq \notin {<<c, 1>>, <<c, 2>>}
  BY <1>8, Panics, ZenonT(30) DEF TimerEnd, Faults
<1> QED BY <1>3, <1>4, <1>5, <1>6, <1>7, <1>8, Zenon

\* A current process that becomes RUNNABLE and calls schedule() with its place
\* in its CPU's queue: the queues of the others stay.
LEMMA GiveUp ==
  ASSUME IInv, NEW c \in CPUs, NEW g, At(c, g), g \notin InSchedule \cup TmrFrames \cup {"bal_put"},
         Moved(c, "sched"), LocksOf(c, "sched"), UNCHANGED <<bal, fault>>,
         q' \in [CPUs -> [Levels -> Seq(Slots)]], \A d \in CPUs \ {c} : q'[d] = q[d],
         curproc[c] \notin Idles => \E l \in Levels : InQueue(q'[c][l], curproc[c]),
         proc' \in [Slots -> Procs],
         \A p \in Slots : p # curproc[c] => proc'[p] = proc[p],
         proc'[curproc[c]].state = "RUNNABLE",
         proc'[curproc[c]].parent = proc[curproc[c]].parent,
         proc'[curproc[c]].np = proc[curproc[c]].np,
         proc'[curproc[c]].left = proc[curproc[c]].left
  PROVE  /\ QueueExact' /\ SlicesOK' => IInv'
         /\ \A p \in Slots : CanRun(p)' <=> CanRun(p)
<1> USE InvParts
<1> DEFINE cp == curproc[c]
<1>1. cp \in Slots /\ cp # 0 /\ Where(c) = g /\ proc[cp].state = "RUNNING"
  BY AtWhere DEF RunningOK
<1>m. /\ curproc' = curproc /\ Where(c)' = "sched" /\ Elsewhere(c) /\ StacksOK'
      /\ kstack' \in [Slots -> Seq(Frames)]
  BY MovedElsewhere, Zenon DEF Moved
<1> HIDE DEF cp
<1>2. TypeOK' /\ LockDiscipline'
  BY <1>m, LocksMove, ZenonT(30) DEF TypeOK, LocksOf
<1>o. OthersKept(c)
  <2>1. \A d \in CPUs \ {c} : curproc[d] # 0 => curproc[d] \in Slots /\ curproc[d] # curproc[c]
    BY Types, Zenon DEF RunningOK
  <2> QED BY <2>1, Zenon DEF OthersKept
<1>3. RunningOK'
  BY <1>1, <1>m, <1>o, RunningStays, ZenonT(30) DEF InSchedule, cp
<1>4. FamilyOK' /\ ParentAlive'
  BY <1>1, FamilyStays, Zenon DEF cp
<1>5. SleepOK' /\ NoLostWakeup'
  BY <1>1, <1>m, SleepersStay, ZenonT(30) DEF cp
<1>6. CurrentIsHead' /\ ScheduleOK'
  <2>1. \A l \in Levels : bal[c].moved[l] = <<>>
    BY <1>1, Zenon DEF ScheduleOK
  <2> QED BY <1>1, <1>m, <1>o, <2>1, OthersStay, ZenonT(30) DEF InSchedule, cp
<1>7. ASSUME NEW p \in Slots PROVE CanRun(p)' <=> CanRun(p)
  <2>1. CASE p = cp
    BY <1>1, <2>1, Zenon DEF CanRun, cp
  <2>2. CASE p # cp
    <3>1. proc'[p] = proc[p]
      BY <2>2, Zenon DEF cp
    <3>2. \A d \in CPUs : curproc[d] = p => Where(d)' = Where(d)
      BY <1>m, <2>2, Zenon DEF Elsewhere, cp
    <3> QED BY <1>m, <3>1, <3>2, Zenon DEF CanRun
  <2> QED BY <2>1, <2>2, Zenon
<1> QED BY <1>2, <1>3, <1>4, <1>5, <1>6, <1>7, <1>m, InvWhole, ZenonT(30)

\* yield_proc_MLFQ only reorders a level.
LEMMA YieldedQueues ==
  ASSUME NEW qs \in [Levels -> Seq(Slots)], \A l \in Levels : NoDup(qs[l])
  PROVE  /\ Yielded(qs) \in [Levels -> Seq(Slots)]
         /\ \A l \in Levels : /\ NoDup(Yielded(qs)[l])
                              /\ \A x : InQueue(Yielded(qs)[l], x) <=> InQueue(qs[l], x)
<1>1. CASE Yielded(qs) = qs
  BY <1>1, Zenon
<1>2. CASE Yielded(qs) # qs
  <2>1. PICK k \in Levels : qs[k] # <<>> /\ Yielded(qs) = [qs EXCEPT ![k] = Turned(@)]
    BY <1>2 DEF Yielded, Levels
  <2>2. /\ Turned(qs[k]) \in Seq(Slots) /\ NoDup(Turned(qs[k]))
        /\ \A x : InQueue(Turned(qs[k]), x) <=> InQueue(qs[k], x)
    <3>1. qs[k] \in Seq(Slots) /\ NoDup(qs[k])
      BY Zenon
    <3> QED BY <2>1, <3>1, TurnedQueue, Zenon
  <2>3. /\ Yielded(qs) \in [Levels -> Seq(Slots)] /\ Yielded(qs)[k] = Turned(qs[k])
        /\ \A l \in Levels \ {k} : Yielded(qs)[l] = qs[l]
    BY <2>1, <2>2, Zenon
  <2> QED BY <2>2, <2>3, Zenon
<1> QED BY <1>1, <1>2, Zenon

\* Queues with the same members
LEMMA Reordered ==
  ASSUME QueueExact, bal' = bal,
         \A d \in CPUs : \A l \in Levels :
           NoDup(q'[d][l]) /\ \A p \in Slots : InQueue(q'[d][l], p) <=> InQueue(q[d][l], p),
         \A p \in Slots : (CanRun(p)' <=> CanRun(p)) /\ proc'[p].rq = proc[p].rq
  PROVE  QueueExact'
<1>1. \A p \in Slots : (Queued(p)' <=> Queued(p)) /\ (InFlight(p)' <=> InFlight(p))
  BY Zenon DEF Queued, InFlight
<1>2. \A p \in Slots :
        /\ CanRun(p)' <=> Queued(p)' \/ InFlight(p)'
        /\ ~(Queued(p)' /\ InFlight(p)')
  BY <1>1, Zenon DEF QueueExact
<1>3. /\ \A c \in CPUs : \A l \in Levels : NoDup(q'[c][l]) /\ NoDup(bal'[c].moved[l])
      /\ \A p \in Slots : \A c \in CPUs : \A l \in Levels :
           /\ InQueue(q'[c][l], p) => proc'[p].rq = <<c, l>>
           /\ InQueue(bal'[c].moved[l], p) =>
                \A d \in CPUs : \A k \in Levels : InQueue(bal'[d].moved[k], p) => d = c /\ k = l
  BY DEF QueueExact
<1> QED BY <1>2, <1>3, Zenon DEF QueueExact

\* yield() of an idle process
LEMMA YieldInv ==
  ASSUME IInv, NEW c \in CPUs, Yield(c)
  PROVE  IInv'
<1> USE InvParts
<1> DEFINE cp == curproc[c]
<1>0. CASE FifoTurns(q[c])
  BY <1>0, Panics, ZenonT(30) DEF Yield, Faults
<1>1. At(c, "yield") /\ Where(c) = "yield" /\ cp \in Slots /\ cp # 0
  BY AtWhere, Zenon DEF Yield
<1> SUFFICES ASSUME ~FifoTurns(q[c]) PROVE IInv'
  BY <1>0, Zenon
<1>2. /\ Free(c) /\ lock' = [lock EXCEPT ![c] = c]
      /\ proc' = [proc EXCEPT ![cp].state = "RUNNABLE"]
      /\ q' = [q EXCEPT ![c] = Yielded(@)]
      /\ Schedule(c, "yield_rel") /\ UNCHANGED <<curproc, bal, fault>>
  BY Zenon DEF Yield
<1>p. /\ proc' \in [Slots -> Procs]
      /\ \A p \in Slots : p # cp => proc'[p] = proc[p]
      /\ proc'[cp].state = "RUNNABLE"
      /\ \A p \in Slots : /\ proc'[p].parent = proc[p].parent /\ proc'[p].np = proc[p].np
                          /\ proc'[p].rq = proc[p].rq /\ proc'[p].timeslice = proc[p].timeslice
                          /\ proc'[p].left = proc[p].left
  <2>1. proc \in [Slots -> Procs] /\ proc[cp] \in Procs
    BY <1>1, Zenon DEF TypeOK
  <2>2. [proc[cp] EXCEPT !.state = "RUNNABLE"] \in Procs
    BY <2>1, Zenon DEF Procs, States
  <2> QED BY <1>1, <1>2, <2>1, <2>2, Zenon DEF Procs
<1> HIDE DEF cp
<1>q. /\ q' \in [CPUs -> [Levels -> Seq(Slots)]]
      /\ \A d \in CPUs \ {c} : q'[d] = q[d]
      /\ \A l \in Levels : /\ NoDup(q'[c][l])
                           /\ \A x : InQueue(q'[c][l], x) <=> InQueue(q[c][l], x)
  <2>1. q \in [CPUs -> [Levels -> Seq(Slots)]] /\ \A l \in Levels : NoDup(q[c][l])
    BY Zenon DEF TypeOK, QueueExact
  <2>2. q[c] \in [Levels -> Seq(Slots)]
    BY <2>1, Zenon
  <2>3. /\ Yielded(q[c]) \in [Levels -> Seq(Slots)]
        /\ \A l \in Levels : /\ NoDup(Yielded(q[c])[l])
                             /\ \A x : InQueue(Yielded(q[c])[l], x) <=> InQueue(q[c][l], x)
    BY <2>1, <2>2, YieldedQueues, ZenonT(30)
  <2>4. q'[c] = Yielded(q[c]) /\ q' \in [CPUs -> [Levels -> Seq(Slots)]]
        /\ \A d \in CPUs \ {c} : q'[d] = q[d]
    BY <1>2, <2>1, <2>3, Zenon
  <2> QED BY <2>3, <2>4, Zenon
<1>m. Moved(c, "sched")
  <2>1. SameNp
    BY <1>p, Zenon DEF SameNp
  <2>2. /\ "yield_rel" \in SwitchFrames \ {"forkret"} /\ Allowed(curproc[c], "yield_rel")
        /\ Callers("yield") = Callers("yield_rel")
    BY Zenon DEF SwitchFrames, Allowed, Callers, InSchedule, TrapFrames
  <2> QED BY <1>1, <1>2, <2>1, <2>2, ScheduleMoves, Zenon
<1>l. LocksOf(c, "sched")
  BY <1>1, <1>2, HeldAt, Constants DEF Free, LocksOf, Holds, SwitchFrames, InSchedule
<1>3. cp \notin Idles => \E l \in Levels : InQueue(q'[c][l], cp)
  <2> SUFFICES ASSUME cp \notin Idles PROVE \E l \in Levels : InQueue(q'[c][l], cp)
    BY Zenon
  <2>1. PICK l \in Levels : q[c][l] # <<>> /\ Head(q[c][l]) = cp
    BY <1>1, Zenon DEF CurrentIsHead, InSchedule, cp
  <2>2. InQueue(q[c][l], cp)
    BY <2>1, Types, HeadInQueue, Zenon
  <2> QED BY <1>q, <2>2, ZenonT(30)
<1>4. /\ QueueExact' /\ SlicesOK' => IInv'
      /\ \A p \in Slots : CanRun(p)' <=> CanRun(p)
  BY <1>1, <1>2, <1>3, <1>p, <1>q, <1>m, <1>l, GiveUp, ZenonT(30) DEF InSchedule, TmrFrames, cp
<1>5. QueueExact'
  <2>1. \A d \in CPUs : \A l \in Levels :
          NoDup(q'[d][l]) /\ \A p \in Slots : InQueue(q'[d][l], p) <=> InQueue(q[d][l], p)
    BY <1>q, ZenonT(30) DEF QueueExact
  <2> QED BY <1>2, <1>p, <1>4, <2>1, Reordered, Zenon
<1>6. SlicesOK'
  BY <1>1, <1>m, <1>p, SlicesStay, MovedElsewhere, Zenon
<1> QED BY <1>4, <1>5, <1>6, Zenon

\* A used-up slice moves the head of a level behind the next one, with a new
\* slice.
LEMMA TickDemoteInv ==
  ASSUME IInv, NEW c \in CPUs, TickDemote(c)
  PROVE  IInv'
<1> USE InvParts
<1> DEFINE cp == curproc[c]
<1>1. At(c, "tick") /\ Where(c) = "tick" /\ cp \in Slots /\ cp # 0 /\ Free(c)
  BY AtWhere, ZenonT(30) DEF TickDemote
<1>2. cp \notin Idles
  BY <1>1, CurrentAllowed, Zenon DEF Allowed
<1>3. PICK l \in Levels : proc[cp].rq = <<c, l>> /\ q[c][l] # <<>> /\ Head(q[c][l]) = cp
  BY <1>1, <1>2, ZenonT(30) DEF CurrentIsHead, InSchedule, cp
<1>4. /\ proc[cp].rq[1] = c /\ proc[cp].rq[2] = l /\ InQueue(q[c][l], cp)
      /\ q[c][l] \in Seq(Slots) /\ NoDup(q[c][l])
  BY <1>3, Types, HeadInQueue DEF QueueExact
<1>5. CASE l = 3
  BY <1>4, <1>5, Panics, ZenonT(30) DEF TickDemote, Faults
<1>6. CASE l # 3
  <2> DEFINE k == l + 1
  <2>1. k \in Levels /\ k # l
    BY <1>6 DEF Levels
  <2>2. /\ q' = [q EXCEPT ![c][l] = Without(@, cp), ![c][k] = Append(@, cp)]
        /\ proc' = [proc EXCEPT ![cp] = Enqueued([@ EXCEPT !.state = "RUNNABLE"], c, k)]
        /\ lock' = [lock EXCEPT ![c] = c]
        /\ Schedule(c, "tick_rel") /\ UNCHANGED <<curproc, bal, fault>>
    BY <1>4, <1>6, Zenon DEF TickDemote
  <2> HIDE DEF k
  <2>p. /\ proc' \in [Slots -> Procs]
        /\ \A p \in Slots : p # cp => proc'[p] = proc[p]
        /\ proc'[cp].state = "RUNNABLE" /\ proc'[cp].rq = <<c, k>>
        /\ proc'[cp].parent = proc[cp].parent /\ proc'[cp].np = proc[cp].np
        /\ proc'[cp].left = proc[cp].left
        /\ proc'[cp].timeslice >= 1 \/ k = 3
    <3>1. proc \in [Slots -> Procs] /\ proc[cp] \in Procs
      BY <1>1, Zenon DEF TypeOK
    <3>2. /\ proc'[cp] = Enqueued([proc[cp] EXCEPT !.state = "RUNNABLE"], c, k)
          /\ \A p \in Slots : p # cp => proc'[p] = proc[p]
      BY <1>1, <2>2, <3>1, Zenon
    <3>3. /\ proc'[cp] \in Procs /\ proc'[cp].state = "RUNNABLE" /\ proc'[cp].rq = <<c, k>>
          /\ proc'[cp].parent = proc[cp].parent /\ proc'[cp].np = proc[cp].np
          /\ proc'[cp].left = proc[cp].left
          /\ \/ proc[cp].rq = <<c, k>> /\ proc'[cp].timeslice = proc[cp].timeslice
             \/ proc'[cp].timeslice >= 1
             \/ k = 3
      BY <2>1, <3>1, <3>2, RunnableFields
    <3>4. proc[cp].rq # <<c, k>>
      BY <1>3, <2>1
    <3> QED BY <2>2, <3>1, <3>2, <3>3, <3>4, Zenon
  <2>3. /\ Without(q[c][l], cp) \in Seq(Slots) /\ NoDup(Without(q[c][l], cp))
        /\ \A x : InQueue(Without(q[c][l], cp), x) <=> InQueue(q[c][l], x) /\ x # cp
    BY <1>4, WithoutQueue, Zenon
  <2>4. ASSUME NEW d \in CPUs, NEW m \in Levels, ~(d = c /\ m = l)
        PROVE  ~InQueue(q[d][m], cp)
    <3> SUFFICES ASSUME InQueue(q[d][m], cp) PROVE FALSE
      BY Zenon
    <3>1. <<d, m>> = <<c, l>>
      BY <1>1, <1>3 DEF QueueExact
    <3> QED BY <2>4, <3>1, Zenon
  <2>5. /\ Append(q[c][k], cp) \in Seq(Slots) /\ NoDup(Append(q[c][k], cp))
        /\ \A x : InQueue(Append(q[c][k], cp), x) <=> InQueue(q[c][k], x) \/ x = cp
    <3>1. q[c][k] \in Seq(Slots) /\ NoDup(q[c][k]) /\ ~InQueue(q[c][k], cp)
      BY <2>1, <2>4, Types, ZenonT(30) DEF QueueExact
    <3> QED BY <1>1, <3>1, AppendQueue, Zenon
  <2>6. /\ q' \in [CPUs -> [Levels -> Seq(Slots)]]
        /\ \A d \in CPUs \ {c} : q'[d] = q[d]
        /\ q'[c][l] = Without(q[c][l], cp) /\ q'[c][k] = Append(q[c][k], cp)
        /\ \A m \in Levels \ {l, k} : q'[c][m] = q[c][m]
    <3>1. q \in [CPUs -> [Levels -> Seq(Slots)]]
      BY Zenon DEF TypeOK
    <3> QED BY <2>1, <2>2, <2>3, <2>5, <3>1, Zenon
  <2>7. ASSUME NEW d \in CPUs, NEW m \in Levels
        PROVE  /\ NoDup(q'[d][m])
               /\ \A x \in Slots : x # cp => (InQueue(q'[d][m], x) <=> InQueue(q[d][m], x))
               /\ InQueue(q'[d][m], cp) <=> d = c /\ m = k
    <3>1. CASE d = c /\ m = l
      BY <2>1, <2>3, <2>6, <3>1, Zenon
    <3>2. CASE d = c /\ m = k
      BY <2>5, <2>6, <3>2, ZenonT(30)
    <3>3. CASE ~(d = c /\ m \in {l, k})
      BY <2>4, <2>6, <3>3, ZenonT(30) DEF QueueExact
    <3> QED BY <3>1, <3>2, <3>3, Zenon
  <2>m. Moved(c, "sched")
    <3>1. SameNp
      BY <2>p, Zenon DEF SameNp
    <3>2. /\ "tick_rel" \in SwitchFrames \ {"forkret"} /\ Allowed(cp, "tick_rel")
          /\ Callers("tick") = Callers("tick_rel")
      BY Zenon DEF SwitchFrames, Allowed, Callers, InSchedule, TrapFrames
    <3> QED BY <1>1, <2>2, <3>1, <3>2, ScheduleMoves, Zenon
  <2>l. LocksOf(c, "sched")
    BY <1>1, <2>2, HeldAt, Constants DEF Free, LocksOf, Holds, SwitchFrames, InSchedule
  <2>8. /\ QueueExact' /\ SlicesOK' => IInv'
        /\ \A p \in Slots : CanRun(p)' <=> CanRun(p)
    <3>1. \E m \in Levels : InQueue(q'[c][m], cp)
      BY <2>1, <2>7, Zenon
    <3> QED BY <1>1, <2>2, <2>p, <2>6, <2>m, <2>l, <3>1, GiveUp, ZenonT(30) DEF InSchedule, TmrFrames
  <2> HIDE DEF cp
  <2>9. \A x \in Slots : (Queued(x)' <=> Queued(x)) /\ (InFlight(x)' <=> InFlight(x))
    <3>1. \A x \in Slots : x = cp => Queued(x) /\ Queued(x)'
      BY <1>4, <2>1, <2>7 DEF Queued
    <3>2. \A x \in Slots : x # cp => (Queued(x)' <=> Queued(x))
      BY <2>7, Zenon DEF Queued
    <3>3. \A x \in Slots : InFlight(x)' <=> InFlight(x)
      BY <2>2, Zenon DEF InFlight
    <3> QED BY <3>1, <3>2, <3>3, Zenon
  <2>10. QueueExact'
    <3>1. \A x \in Slots : /\ CanRun(x)' <=> Queued(x)' \/ InFlight(x)'
                           /\ ~(Queued(x)' /\ InFlight(x)')
      BY <2>8, <2>9, ZenonT(30) DEF QueueExact
    <3>2. ASSUME NEW x \in Slots, NEW d \in CPUs, NEW m \in Levels, InQueue(q'[d][m], x)
          PROVE  proc'[x].rq = <<d, m>>
      <4>1. CASE x = cp
        BY <2>7, <2>p, <3>2, <4>1, Zenon
      <4>2. CASE x # cp
        BY <2>7, <2>p, <3>2, <4>2 DEF QueueExact
      <4> QED BY <4>1, <4>2, Zenon
    <3>3. /\ \A d \in CPUs : \A m \in Levels : NoDup(q'[d][m]) /\ NoDup(bal'[d].moved[m])
          /\ \A x \in Slots : \A d \in CPUs : \A m \in Levels :
               InQueue(bal'[d].moved[m], x) =>
                 \A e \in CPUs : \A n \in Levels : InQueue(bal'[e].moved[n], x) => e = d /\ n = m
      <4>1. bal' = bal
        BY <2>2, Zenon
      <4> QED BY <2>7, <4>1 DEF QueueExact
    <3> QED BY <3>1, <3>2, <3>3 DEF QueueExact
  <2>11. SlicesOK'
    <3> SUFFICES ASSUME NEW p \in Slots, proc'[p].rq[2] \in {1, 2}
                 PROVE  \/ proc'[p].timeslice >= 1
                        \/ \E d \in CPUs : curproc'[d] = p /\ Where(d)' = "tick"
      BY Zenon DEF SlicesOK
    <3>1. CASE p = cp
      BY <2>p, <3>1
    <3>2. CASE p # cp
      <4>1. \/ proc[p].timeslice >= 1
            \/ \E d \in CPUs : curproc[d] = p /\ Where(d) = "tick"
        BY <2>p, <3>2, Zenon DEF SlicesOK
      <4>2. \A d \in CPUs : curproc[d] = p => curproc'[d] = p /\ Where(d)' = Where(d)
        BY <2>m, <3>2, Zenon DEF Moved, cp
      <4> QED BY <2>p, <3>2, <4>1, <4>2, Zenon
    <3> QED BY <3>1, <3>2, Zenon
  <2> QED BY <2>8, <2>10, <2>11, InvWhole, ZenonT(30)
<1> QED BY <1>5, <1>6, Zenon

-----------------------------------------------------------------------------
(* Load balancing *)

\* load_balance_MLFQ looks for the longest queue, without a lock.
LEMMA BalanceFindInv ==
  ASSUME IInv, NEW c \in CPUs, BalanceFind(c)
  PROVE  IInv'
<1> USE DEF IInv
<1>1. At(c, "bal") /\ curproc[c] \in Slots /\ curproc[c] # 0 /\ Where(c) = "bal"
  BY AtWhere, Zenon DEF BalanceFind
<1>2. PICK f \in {"yield", "bal_get"} : Goto(c, f)
  BY ZenonT(30) DEF BalanceFind
<1>3. UNCHANGED <<proc, q, curproc, lock, fault>>
  BY Zenon DEF BalanceFind
<1>4. /\ bal' \in [CPUs -> [src : CPUs, moved : [Levels -> Seq(Slots)]]]
      /\ \A d \in CPUs : bal'[d].moved = bal[d].moved
  <2>1. bal \in [CPUs -> [src : CPUs, moved : [Levels -> Seq(Slots)]]]
    BY Zenon DEF TypeOK
  <2>2. bal' = bal \/ \E src \in CPUs : bal' = [bal EXCEPT ![c].src = src]
    BY Zenon DEF BalanceFind, IsLeast
  <2>3. ASSUME NEW src \in CPUs, bal' = [bal EXCEPT ![c].src = src]
        PROVE  /\ bal' \in [CPUs -> [src : CPUs, moved : [Levels -> Seq(Slots)]]]
               /\ \A d \in CPUs : bal'[d].moved = bal[d].moved
    <3>1. /\ bal[c] \in [src : CPUs, moved : [Levels -> Seq(Slots)]]
          /\ [bal[c] EXCEPT !.src = src] \in [src : CPUs, moved : [Levels -> Seq(Slots)]]
          /\ [bal[c] EXCEPT !.src = src].moved = bal[c].moved
      BY <2>1
    <3> QED BY <2>1, <2>3, <3>1, ZenonT(30)
  <2> QED BY <2>1, <2>2, <2>3, Zenon
<1>5. QuietProcs(c) /\ SameNp
  BY <1>3, <1>4, Zenon DEF QuietProcs, SameNp
<1>6. Moved(c, f)
  <2>0. Allowed(curproc[c], "bal")
    BY <1>1, CurrentAllowed, Zenon
  <2>1. Allowed(curproc[c], f) /\ f \in Frames /\ Callers("bal") \subseteq Callers(f)
    BY <2>0, Zenon DEF Allowed, Callers, InSchedule, TrapFrames, Frames
  <2> QED BY <1>1, <1>2, <1>3, <1>5, <2>1, GotoMoves, Zenon
<1>7. LocksOf(c, f)
  BY <1>1, <1>3, HeldAt, Constants DEF LocksOf, Holds, SwitchFrames, InSchedule
<1>8. LockDiscipline'
  BY <1>6, <1>7, LocksMove, Zenon
<1>9. TypeOK'
  BY <1>3, <1>4, <1>6, ZenonT(30) DEF TypeOK, Moved
<1> QED BY <1>1, <1>5, <1>6, <1>8, <1>9, QuietInv, Zenon DEF InSchedule, TmrFrames

\* load_balance_MLFQ takes half of each level of a queue that no CPU is in
\* schedule() with, and none of their heads.
LEMMA BalanceGetInv ==
  ASSUME IInv, NEW c \in CPUs, BalanceGet(c)
  PROVE  IInv'
<1> USE InvParts
<1> DEFINE cp == curproc[c]
           src == bal[c].src
           Took(p) == \E l \in Levels : InQueue(Taken(q[src][l]), p)
<1>1. At(c, "bal_get") /\ Where(c) = "bal_get" /\ cp \in Slots /\ cp # 0 /\ Free(src) /\ src \in CPUs
  BY AtWhere, Types, Zenon DEF BalanceGet
<1>2. /\ bal' = [bal EXCEPT ![c] = [src |-> 0, moved |-> [l \in Levels |-> Taken(q[src][l])]]]
      /\ q' = [q EXCEPT ![src] = [l \in Levels |-> Kept(@[l])]]
      /\ Goto(c, "bal_put") /\ UNCHANGED <<proc, curproc, lock, fault>>
  BY Zenon DEF BalanceGet
<1>3. /\ \A l \in Levels : bal[c].moved[l] = <<>>
      /\ \A d \in CPUs : Where(d) \in InSchedule => d # src
  <2>1. \A d \in CPUs : Where(d) \in InSchedule => lock[d] = d
    BY Constants, Zenon DEF LockDiscipline, Holds, InSchedule
  <2> QED BY <1>1, <2>1, Constants, Zenon DEF ScheduleOK, Free
<1> HIDE DEF src
<1>4. ASSUME NEW l \in Levels
      PROVE  /\ Kept(q[src][l]) \in Seq(Slots) /\ Taken(q[src][l]) \in Seq(Slots)
             /\ NoDup(Kept(q[src][l])) /\ NoDup(Taken(q[src][l]))
             /\ \A x : InQueue(q[src][l], x) <=>
                         InQueue(Kept(q[src][l]), x) \/ InQueue(Taken(q[src][l]), x)
             /\ \A x : ~(InQueue(Kept(q[src][l]), x) /\ InQueue(Taken(q[src][l]), x))
             /\ q[src][l] # <<>> => Kept(q[src][l]) # <<>> /\ Head(Kept(q[src][l])) = Head(q[src][l])
  <2>1. q[src][l] \in Seq(Slots) /\ NoDup(q[src][l])
    BY <1>1, Types, Zenon DEF QueueExact
  <2> QED BY <2>1, KeptTaken, Zenon
<1>q. /\ q' \in [CPUs -> [Levels -> Seq(Slots)]]
      /\ \A d \in CPUs \ {src} : q'[d] = q[d]
      /\ \A l \in Levels : q'[src][l] = Kept(q[src][l])
  <2>1. q \in [CPUs -> [Levels -> Seq(Slots)]]
    BY Zenon DEF TypeOK
  <2>2. [l \in Levels |-> Kept(q[src][l])] \in [Levels -> Seq(Slots)]
    BY <1>4, Zenon
  <2> QED BY <1>1, <1>2, <2>1, <2>2, Zenon
<1>b. /\ bal' \in [CPUs -> [src : CPUs, moved : [Levels -> Seq(Slots)]]]
      /\ \A d \in CPUs \ {c} : bal'[d] = bal[d]
      /\ \A l \in Levels : bal'[c].moved[l] = Taken(q[src][l])
  <2>1. bal \in [CPUs -> [src : CPUs, moved : [Levels -> Seq(Slots)]]]
    BY Zenon DEF TypeOK
  <2>2. [l \in Levels |-> Taken(q[src][l])] \in [Levels -> Seq(Slots)]
    BY <1>4, Zenon
  <2> QED BY <1>2, <2>1, <2>2, Constants, Zenon
<1>5. ASSUME NEW d \in CPUs, NEW k \in Levels
      PROVE  /\ NoDup(q'[d][k]) /\ NoDup(bal'[d].moved[k])
             /\ q[d][k] # <<>> => q'[d][k] # <<>> /\ Head(q'[d][k]) = Head(q[d][k])
             /\ \A x \in Slots : InQueue(q'[d][k], x) => InQueue(q[d][k], x)
             /\ d # src => \A x \in Slots : InQueue(q[d][k], x) => InQueue(q'[d][k], x)
  <2>1. NoDup(bal'[d].moved[k])
    <3>1. CASE d = c
      BY <1>4, <1>b, <3>1, Zenon
    <3>2. CASE d # c
      BY <1>b, <3>2, Zenon DEF QueueExact
    <3> QED BY <3>1, <3>2, Zenon
  <2>2. CASE d = src
    BY <1>4, <1>q, <2>1, <2>2, ZenonT(30)
  <2>3. CASE d # src
    BY <1>q, <2>1, <2>3, Zenon DEF QueueExact
  <2> QED BY <2>2, <2>3, Zenon
<1>m. Moved(c, "bal_put")
  <2>1. SameNp
    BY <1>2, Zenon DEF SameNp
  <2>0. Allowed(cp, "bal_get")
    BY <1>1, CurrentAllowed, Zenon
  <2>2. /\ "bal_put" \in Frames /\ Allowed(cp, "bal_put")
        /\ Callers("bal_get") = Callers("bal_put")
    BY <2>0, Zenon DEF Frames, Allowed, Callers, InSchedule, TrapFrames
  <2> QED BY <1>1, <1>2, <2>1, <2>2, GotoMoves, Zenon
<1>w. /\ curproc' = curproc /\ Where(c)' = "bal_put" /\ Elsewhere(c) /\ StacksOK'
      /\ kstack' \in [Slots -> Seq(Frames)] /\ proc' = proc
  BY <1>2, <1>m, MovedElsewhere, Zenon DEF Moved
<1> HIDE DEF cp, Took
<1>l. LocksOf(c, "bal_put")
  BY <1>1, <1>2, HeldAt DEF LocksOf, Holds, SwitchFrames, InSchedule
<1>6. TypeOK' /\ LockDiscipline'
  BY <1>2, <1>q, <1>b, <1>m, <1>w, <1>l, LocksMove DEF TypeOK
<1>o. OthersKept(c)
  BY <1>3, <1>5, <1>b, <1>w, ZenonT(30) DEF OthersKept, InSchedule
<1>7. RunningOK'
  BY <1>1, <1>w, <1>o, RunningStays, Zenon DEF RunningOK, InSchedule, cp
<1>8. FamilyOK' /\ ParentAlive'
  BY <1>w, FamilyStays, Zenon
<1>9. SleepOK' /\ NoLostWakeup'
  BY <1>1, <1>w, SleepersStay, Zenon DEF TmrFrames
<1>10. SlicesOK'
  BY <1>1, <1>w, SlicesStay, Zenon
<1>11. CurrentIsHead' /\ ScheduleOK'
  <2>1. cp \notin Idles => HeadAt(c)'
    <3>1. cp \notin Idles => HeadAt(c)
      BY <1>1, ZenonT(30) DEF CurrentIsHead, HeadAt, InSchedule, cp
    <3> QED BY <1>5, <1>w, <3>1, Zenon DEF HeadAt
  <2> QED BY <1>1, <1>w, <1>o, <2>1, OthersStay, Zenon DEF InSchedule, cp
<1>12. ASSUME NEW p \in Slots
       PROVE  /\ CanRun(p)' <=> CanRun(p)
              /\ Queued(p)' <=> Queued(p) /\ ~Took(p)
              /\ InFlight(p)' <=> InFlight(p) \/ Took(p)
              /\ Took(p) => Queued(p)
  <2>1. CanRun(p)' <=> CanRun(p)
    BY <1>1, <1>w, Zenon DEF CanRun, Elsewhere, InSchedule
  <2>2. Took(p) => Queued(p)
    BY <1>1, <1>4, Zenon DEF Took, Queued
  <2>3. ASSUME Queued(p)' PROVE Queued(p) /\ ~Took(p)
    <3>1. PICK d \in CPUs, k \in Levels : InQueue(q'[d][k], p)
      BY <2>3, Zenon DEF Queued
    <3>2. InQueue(q[d][k], p)
      BY <1>5, <3>1, Zenon
    <3>3. ASSUME NEW l \in Levels, InQueue(Taken(q[src][l]), p) PROVE FALSE
      <4>1. InQueue(q[src][l], p)
        BY <1>4, <3>3, ZenonT(30)
      <4>2. <<d, k>> = <<src, l>>
        BY <1>1, <3>2, <4>1 DEF QueueExact
      <4>3. d = src /\ k = l
        BY <4>2, Zenon
      <4> QED BY <1>4, <1>q, <3>1, <3>3, <4>3, ZenonT(30)
    <3> QED BY <3>2, <3>3, Zenon DEF Queued, Took
  <2>4. ASSUME Queued(p), ~Took(p) PROVE Queued(p)'
    <3>1. PICK d \in CPUs, k \in Levels : InQueue(q[d][k], p)
      BY <2>4, Zenon DEF Queued
    <3>2. InQueue(q'[d][k], p)
      BY <1>4, <1>5, <1>q, <2>4, <3>1, ZenonT(30) DEF Took
    <3> QED BY <3>2, Zenon DEF Queued
  <2>5. InFlight(p)' <=> InFlight(p) \/ Took(p)
    <3>1. \A l \in Levels : ~InQueue(bal[c].moved[l], p)
      BY <1>3 DEF InQueue
    <3>2. ASSUME InFlight(p)' PROVE InFlight(p) \/ Took(p)
      BY <1>b, <3>2, ZenonT(30) DEF InFlight, Took
    <3>3. ASSUME InFlight(p) PROVE InFlight(p)'
      BY <1>b, <3>1, <3>3, ZenonT(30) DEF InFlight
    <3>4. ASSUME Took(p) PROVE InFlight(p)'
      BY <1>b, <3>4, Zenon DEF InFlight, Took
    <3> QED BY <3>2, <3>3, <3>4, Zenon
  <2> QED BY <2>1, <2>2, <2>3, <2>4, <2>5, Zenon
<1>13. ASSUME NEW p \in Slots, NEW d \in CPUs, NEW k \in Levels, InQueue(bal'[d].moved[k], p),
              NEW e \in CPUs, NEW n \in Levels, InQueue(bal'[e].moved[n], p)
       PROVE  e = d /\ n = k
  <2>1. ASSUME Took(p) PROVE ~InFlight(p)
    BY <1>12, <2>1, Zenon DEF QueueExact
  <2>2. ASSUME NEW f \in CPUs \ {c}, NEW l \in Levels, InQueue(bal'[f].moved[l], p)
        PROVE  InFlight(p) /\ ~Took(p)
    BY <1>b, <2>1, <2>2, Zenon DEF InFlight
  <2>3. ASSUME NEW l \in Levels, InQueue(bal'[c].moved[l], p)
        PROVE  Took(p) /\ proc[p].rq = <<src, l>>
    <3>1. InQueue(Taken(q[src][l]), p) /\ InQueue(q[src][l], p)
      BY <1>4, <1>b, <2>3, ZenonT(30)
    <3> QED BY <1>1, <3>1, ZenonT(30) DEF Took, QueueExact
  <2>4. CASE d = c /\ e = c
    <3>1. <<src, k>> = <<src, n>>
      BY <1>13, <2>3, <2>4, ZenonT(30)
    <3> QED BY <2>4, <3>1, Zenon
  <2>5. CASE d # c /\ e # c
    <3>1. InQueue(bal[d].moved[k], p) /\ InQueue(bal[e].moved[n], p)
      BY <1>13, <1>b, <2>5, Zenon
    <3> QED BY <3>1, Zenon DEF QueueExact
  <2>6. CASE (d = c /\ e # c) \/ (d # c /\ e = c)
    BY <1>13, <2>2, <2>3, <2>6, ZenonT(30)
  <2> QED BY <2>4, <2>5, <2>6, Zenon
<1>14. QueueExact'
  <2>1. \A p \in Slots : /\ CanRun(p)' <=> Queued(p)' \/ InFlight(p)'
                         /\ ~(Queued(p)' /\ InFlight(p)')
    BY <1>12, ZenonT(30) DEF QueueExact
  <2>2. \A p \in Slots : \A d \in CPUs : \A k \in Levels :
          InQueue(q'[d][k], p) => proc'[p].rq = <<d, k>>
    BY <1>5, <1>w, ZenonT(30) DEF QueueExact
  <2> QED BY <1>5, <1>13, <2>1, <2>2 DEF QueueExact
<1> QED BY <1>6, <1>7, <1>8, <1>9, <1>10, <1>11, <1>14, <1>w, InvWhole, ZenonT(30)

\* What was taken is put behind the levels of this CPU's queue.
LEMMA BalancePutInv ==
  ASSUME IInv, NEW c \in CPUs, BalancePut(c)
  PROVE  IInv'
<1> USE InvParts
<1> DEFINE cp == curproc[c]
           mv == bal[c].moved
           Mine(p) == \E l \in Levels : InQueue(mv[l], p)
           lev(p) == CHOOSE l \in Levels : InQueue(mv[l], p)
<1>1. At(c, "bal_put") /\ Where(c) = "bal_put" /\ cp \in Slots /\ cp # 0 /\ Free(c)
  BY AtWhere, ZenonT(30) DEF BalancePut
<1>2. /\ q' = [q EXCEPT ![c] = [l \in Levels |-> @[l] \o mv[l]]]
      /\ proc' = [p \in Slots |-> IF Mine(p) THEN Enqueued(proc[p], c, lev(p)) ELSE proc[p]]
      /\ bal' = [bal EXCEPT ![c] = NoneMoved]
      /\ Goto(c, "yield") /\ UNCHANGED <<curproc, lock, fault>>
  BY Zenon DEF BalancePut
<1>3. ASSUME NEW p \in Slots, NEW l \in Levels, InQueue(mv[l], p)
      PROVE  /\ lev(p) = l /\ Mine(p) /\ InFlight(p) /\ ~Queued(p) /\ CanRun(p)
             /\ \A d \in CPUs : \A k \in Levels : InQueue(bal[d].moved[k], p) => d = c /\ k = l
  <2>1. \A d \in CPUs : \A k \in Levels : InQueue(bal[d].moved[k], p) => d = c /\ k = l
    BY <1>3, ZenonT(30) DEF QueueExact
  <2>2. InFlight(p) /\ Mine(p)
    BY <1>3, Zenon DEF InFlight
  <2>3. lev(p) = l
    BY <1>3, <2>1, Zenon
  <2> QED BY <2>1, <2>2, <2>3, Zenon DEF QueueExact
<1> HIDE DEF lev
<1>p. /\ proc' \in [Slots -> Procs]
      /\ \A p \in Slots : /\ proc'[p].state = proc[p].state /\ proc'[p].parent = proc[p].parent
                          /\ proc'[p].np = proc[p].np /\ proc'[p].chan = proc[p].chan
                          /\ proc'[p].left = proc[p].left
                          /\ ~Mine(p) => proc'[p] = proc[p]
                          /\ \/ proc'[p].rq = proc[p].rq /\ proc'[p].timeslice = proc[p].timeslice
                             \/ proc'[p].timeslice >= 1
                             \/ proc'[p].rq[2] \notin {1, 2}
      /\ \A p \in Slots : \A l \in Levels : InQueue(mv[l], p) => proc'[p].rq = <<c, l>>
  <2>1. ASSUME NEW p \in Slots, NEW l \in Levels, InQueue(mv[l], p)
        PROVE  /\ proc'[p] \in Procs
               /\ proc'[p].state = proc[p].state /\ proc'[p].parent = proc[p].parent
               /\ proc'[p].np = proc[p].np /\ proc'[p].chan = proc[p].chan
               /\ proc'[p].left = proc[p].left
               /\ \/ proc'[p].rq = proc[p].rq /\ proc'[p].timeslice = proc[p].timeslice
                  \/ proc'[p].timeslice >= 1
                  \/ proc'[p].rq[2] \notin {1, 2}
               /\ proc'[p].rq = <<c, l>>
    <3>1. proc[p] \in Procs
      BY Types, Zenon
    <3>2. proc'[p] = Enqueued(proc[p], c, l)
      BY <1>2, <1>3, <2>1, Zenon
    <3>3. /\ proc'[p] \in Procs
          /\ proc'[p].state = proc[p].state /\ proc'[p].parent = proc[p].parent
          /\ proc'[p].np = proc[p].np /\ proc'[p].chan = proc[p].chan
          /\ proc'[p].left = proc[p].left /\ proc'[p].rq = <<c, l>>
          /\ \/ proc[p].rq = <<c, l>> /\ proc'[p].timeslice = proc[p].timeslice
             \/ proc'[p].timeslice >= 1
             \/ l = 3
      BY <3>1, <3>2, EnqueuedFields
    <3> QED BY <3>3
  <2>2. ASSUME NEW p \in Slots, ~Mine(p) PROVE proc'[p] = proc[p] /\ proc'[p] \in Procs
    BY <1>2, <2>2, Types, ZenonT(30)
  <2>3. \A p \in Slots : proc'[p] \in Procs
    BY <2>1, <2>2, Zenon
  <2>4. proc' \in [Slots -> Procs]
    BY <1>2, <2>3, Zenon
  <2> QED BY <2>1, <2>2, <2>4, Zenon
<1>q. /\ q' \in [CPUs -> [Levels -> Seq(Slots)]]
      /\ \A d \in CPUs \ {c} : q'[d] = q[d]
      /\ \A l \in Levels :
           /\ NoDup(q'[c][l])
           /\ \A x : InQueue(q'[c][l], x) <=> InQueue(q[c][l], x) \/ InQueue(mv[l], x)
           /\ q[c][l] # <<>> => q'[c][l] # <<>> /\ Head(q'[c][l]) = Head(q[c][l])
  <2>1. q \in [CPUs -> [Levels -> Seq(Slots)]]
    BY Zenon DEF TypeOK
  <2>2. ASSUME NEW l \in Levels
        PROVE  /\ q[c][l] \o mv[l] \in Seq(Slots) /\ NoDup(q[c][l] \o mv[l])
               /\ \A x : InQueue(q[c][l] \o mv[l], x) <=> InQueue(q[c][l], x) \/ InQueue(mv[l], x)
               /\ q[c][l] # <<>> => /\ q[c][l] \o mv[l] # <<>>
                                    /\ Head(q[c][l] \o mv[l]) = Head(q[c][l])
    <3>1. /\ q[c][l] \in Seq(Slots) /\ NoDup(q[c][l]) /\ mv[l] \in Seq(Slots) /\ NoDup(mv[l])
      BY Types, Zenon DEF QueueExact
    <3>2. ASSUME NEW x PROVE ~(InQueue(q[c][l], x) /\ InQueue(mv[l], x))
      <4> SUFFICES ASSUME InQueue(q[c][l], x), InQueue(mv[l], x) PROVE FALSE
        BY Zenon
      <4>1. x \in Slots
        BY <3>1 DEF InQueue
      <4> QED BY <1>3, <4>1, Zenon DEF Queued
    <3> HIDE DEF mv
    <3> QED BY <3>1, <3>2, ConcatQueue, ZenonT(30)
  <2>3. [l \in Levels |-> q[c][l] \o mv[l]] \in [Levels -> Seq(Slots)]
    BY <2>2, ZenonT(30)
  <2>4. /\ q' \in [CPUs -> [Levels -> Seq(Slots)]]
        /\ \A d \in CPUs \ {c} : q'[d] = q[d]
        /\ \A l \in Levels : q'[c][l] = q[c][l] \o mv[l]
    BY <1>2, <2>1, <2>3, ZenonT(30)
  <2> QED BY <2>2, <2>4, ZenonT(30)
<1>b. /\ bal' \in [CPUs -> [src : CPUs, moved : [Levels -> Seq(Slots)]]]
      /\ \A d \in CPUs \ {c} : bal'[d] = bal[d]
      /\ \A l \in Levels : bal'[c].moved[l] = <<>>
  <2>1. bal \in [CPUs -> [src : CPUs, moved : [Levels -> Seq(Slots)]]]
    BY Zenon DEF TypeOK
  <2>2. NoneMoved \in [src : CPUs, moved : [Levels -> Seq(Slots)]]
        /\ \A l \in Levels : NoneMoved.moved[l] = <<>>
    BY Constants DEF NoneMoved
  <2> QED BY <1>2, <2>1, <2>2, Zenon
<1>m. Moved(c, "yield")
  <2>1. SameNp
    BY <1>p, Zenon DEF SameNp
  <2>0. Allowed(cp, "bal_put")
    BY <1>1, CurrentAllowed, Zenon
  <2>2. /\ "yield" \in Frames /\ Allowed(cp, "yield")
        /\ Callers("bal_put") = Callers("yield")
    BY <2>0, Zenon DEF Frames, Allowed, Callers, InSchedule, TrapFrames
  <2> QED BY <1>1, <1>2, <2>1, <2>2, GotoMoves, Zenon
<1>w. /\ curproc' = curproc /\ Where(c)' = "yield" /\ Elsewhere(c) /\ StacksOK'
      /\ kstack' \in [Slots -> Seq(Frames)]
  BY <1>m, MovedElsewhere, Zenon DEF Moved
<1>l. LocksOf(c, "yield")
  BY <1>1, <1>2, HeldAt DEF LocksOf, Holds, SwitchFrames, InSchedule
<1>4. ASSUME NEW d \in CPUs, curproc[d] # 0, Where(d) \notin InSchedule
      PROVE  proc'[curproc[d]] = proc[curproc[d]]
  <2>1. curproc[d] \in Slots
    BY <1>4, Types, Zenon
  <2>2. ~Mine(curproc[d])
    <3> SUFFICES ASSUME Mine(curproc[d]) PROVE FALSE
      BY Zenon
    <3>1. ~Queued(curproc[d]) /\ CanRun(curproc[d])
      BY <1>3, <2>1, Zenon
    <3>2. PICK l \in Levels : q[d][l] # <<>> /\ Head(q[d][l]) = curproc[d]
      BY <1>4, <3>1, Zenon DEF CurrentIsHead, CanRun
    <3>3. InQueue(q[d][l], curproc[d])
      BY <3>2, Types, HeadInQueue, Zenon
    <3> QED BY <3>1, <3>3, Zenon DEF Queued
  <2> QED BY <1>p, <2>1, <2>2, Zenon
<1>5. ASSUME NEW p \in Slots
      PROVE  /\ CanRun(p)' <=> CanRun(p)
             /\ Queued(p)' <=> Queued(p) \/ Mine(p)
             /\ InFlight(p)' <=> InFlight(p) /\ ~Mine(p)
             /\ Mine(p) => InFlight(p)
  <2>1. CanRun(p)' <=> CanRun(p)
    BY <1>1, <1>w, <1>p DEF CanRun, Elsewhere, InSchedule
  <2>2. Mine(p) => InFlight(p)
    BY Zenon DEF InFlight
  <2>3. ASSUME Queued(p)' PROVE Queued(p) \/ Mine(p)
    <3>1. PICK d \in CPUs, k \in Levels : InQueue(q'[d][k], p)
      BY <2>3, Zenon DEF Queued
    <3>2. InQueue(q[d][k], p) \/ InQueue(mv[k], p)
      BY <1>q, <3>1, ZenonT(30)
    <3> QED BY <3>2, Zenon DEF Queued
  <2>4. ASSUME Queued(p) PROVE Queued(p)'
    <3>1. PICK d \in CPUs, k \in Levels : InQueue(q[d][k], p)
      BY <2>4, Zenon DEF Queued
    <3>2. InQueue(q'[d][k], p)
      BY <1>q, <3>1, ZenonT(30)
    <3> QED BY <3>2, Zenon DEF Queued
  <2>5. ASSUME NEW l \in Levels, InQueue(mv[l], p) PROVE Queued(p)'
    <3>1. InQueue(q'[c][l], p)
      BY <1>q, <2>5, ZenonT(30)
    <3> QED BY <3>1, Zenon DEF Queued
  <2>6. ASSUME InFlight(p)' PROVE InFlight(p) /\ ~Mine(p)
    <3>1. PICK d \in CPUs, k \in Levels : InQueue(bal'[d].moved[k], p)
      BY <2>6, Zenon DEF InFlight
    <3>2. d # c
      BY <1>b, <3>1 DEF InQueue
    <3>3. InQueue(bal[d].moved[k], p)
      BY <1>b, <3>1, <3>2, Zenon
    <3> QED BY <1>3, <3>2, <3>3, Zenon DEF InFlight
  <2>7. ASSUME InFlight(p), ~Mine(p) PROVE InFlight(p)'
    BY <1>b, <2>7, ZenonT(30) DEF InFlight
  <2> QED BY <2>1, <2>2, <2>3, <2>4, <2>5, <2>6, <2>7, Zenon
<1>6. QueueExact'
  <2>1. \A p \in Slots : /\ CanRun(p)' <=> Queued(p)' \/ InFlight(p)'
                         /\ ~(Queued(p)' /\ InFlight(p)')
    BY <1>5, ZenonT(30) DEF QueueExact
  <2>2. ASSUME NEW p \in Slots, NEW d \in CPUs, NEW k \in Levels, InQueue(q'[d][k], p)
        PROVE  proc'[p].rq = <<d, k>>
    <3>1. CASE InQueue(q[d][k], p)
      <4>1. Queued(p) /\ proc[p].rq = <<d, k>>
        BY <3>1, Zenon DEF Queued, QueueExact
      <4>2. ~Mine(p)
        BY <1>3, <4>1, Zenon
      <4> QED BY <1>p, <4>1, <4>2, Zenon
    <3>2. CASE ~InQueue(q[d][k], p)
      <4>1. d = c /\ InQueue(mv[k], p)
        BY <1>q, <2>2, <3>2, ZenonT(30)
      <4> QED BY <1>p, <4>1, Zenon
    <3> QED BY <3>1, <3>2, Zenon
  <2>3. \A d \in CPUs : \A k \in Levels : NoDup(q'[d][k]) /\ NoDup(bal'[d].moved[k])
    <3>1. NoDup(<<>>)
      BY DEF NoDup
    <3> QED BY <1>q, <1>b, <3>1, ZenonT(30) DEF QueueExact
  <2>4. \A p \in Slots : \A d \in CPUs : \A k \in Levels :
          InQueue(bal'[d].moved[k], p) => d # c /\ InQueue(bal[d].moved[k], p)
    BY <1>b DEF InQueue
  <2>5. \A p \in Slots : \A d \in CPUs : \A k \in Levels :
          InQueue(bal'[d].moved[k], p) =>
            \A e \in CPUs : \A n \in Levels : InQueue(bal'[e].moved[n], p) => e = d /\ n = k
    BY <2>4 DEF QueueExact
  <2> QED BY <2>1, <2>2, <2>3, <2>5 DEF QueueExact
<1> HIDE DEF mv, Mine, cp
<1>7. TypeOK' /\ LockDiscipline'
  BY <1>2, <1>p, <1>q, <1>b, <1>m, <1>w, <1>l, LocksMove, ZenonT(30) DEF TypeOK
<1>o. OthersKept(c)
  <2>1. \A d \in CPUs : curproc[d] # 0 => curproc[d] \in Slots
    BY Types, Zenon
  <2> QED BY <1>4, <1>q, <1>b, <1>p, <2>1, ZenonT(30) DEF OthersKept
<1>8. RunningOK'
  <2>1. curproc[c] \in Slots /\ curproc[c] # 0 /\ proc[curproc[c]].state = "RUNNING"
    BY <1>1, Zenon DEF RunningOK, InSchedule, cp
  <2>2. proc'[curproc[c]].state = "RUNNING"
    BY <1>p, <2>1, Zenon
  <2> QED BY <1>w, <1>o, <2>1, <2>2, RunningStays, Zenon
<1>9. FamilyOK' /\ ParentAlive'
  BY <1>p, FamilyStays, Zenon
<1>10. SleepOK' /\ NoLostWakeup'
  BY <1>1, <1>w, <1>p, SleepersStay, ZenonT(30) DEF TmrFrames
<1>11. SlicesOK'
  BY <1>1, <1>w, <1>p, SlicesStay, ZenonT(30)
<1>12. CurrentIsHead' /\ ScheduleOK'
  <2>1. cp \notin Idles => HeadAt(c)'
    <3>1. cp \notin Idles => HeadAt(c)
      BY <1>1, ZenonT(30) DEF CurrentIsHead, HeadAt, InSchedule, cp
    <3>2. proc'[curproc[c]] = proc[curproc[c]]
      BY <1>1, <1>4, Zenon DEF InSchedule, cp
    <3> QED BY <1>q, <1>w, <3>1, <3>2, ZenonT(30) DEF HeadAt
  <2> QED BY <1>1, <1>w, <1>o, <1>b, <2>1, OthersStay, ZenonT(30) DEF InSchedule, cp
<1> QED BY <1>6, <1>7, <1>8, <1>9, <1>10, <1>11, <1>12, <1>w, InvWhole, ZenonT(30)
=============================================================================
