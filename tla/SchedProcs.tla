----------------------------- MODULE SchedProcs -----------------------------
(***************************************************************************)
(* fork, exit, wait, kill, sys_sleep, forkret and procdump preserve IInv,  *)
(* and FInv with it.                                                       *)
(***************************************************************************)
EXTENDS SchedLemmas

-----------------------------------------------------------------------------
(* fork, exit, wait and kill *)

\* exit() takes proc_table_lock.
LEMMA ExitLockInv ==
  ASSUME IInv, NEW c \in CPUs, ExitLock(c)
  PROVE  IInv'
<1> USE InvParts
<1>1. At(c, "exit") /\ Where(c) = "exit" /\ curproc[c] \in Slots
  BY AtWhere, Zenon DEF ExitLock
<1>2. Moved(c, "exit_rq")
  <2>1. Allowed(curproc[c], "exit")
    BY <1>1, CurrentAllowed, Zenon
  <2>2. Goto(c, "exit_rq") /\ UNCHANGED <<proc, q, curproc, bal>>
    BY Zenon DEF ExitLock
  <2>3. "exit_rq" \in Frames /\ Allowed(curproc[c], "exit_rq") /\ Callers("exit") = Callers("exit_rq")
    BY <2>1, Zenon DEF Allowed, Callers, InSchedule, TrapFrames, Frames, SwitchFrames, Interruptible
  <2>4. SameNp
    BY <2>2, QuietSame, Zenon
  <2> QED BY <1>1, <2>2, <2>3, <2>4, GotoMoves, Zenon
<1>3. LocksOf(c, "exit_rq")
  BY <1>1, HeldAt, Constants DEF ExitLock, Free, LocksOf, Holds, SwitchFrames, InSchedule
<1> QED BY <1>1, <1>2, <1>3, LockStepInv, Zenon DEF ExitLock, InSchedule, TmrFrames

\* wait() returns without a child.
LEMMA WaitNoneInv ==
  ASSUME IInv, NEW c \in CPUs, WaitNone(c)
  PROVE  IInv'
<1> USE InvParts
<1>1. At(c, "wait") /\ Where(c) = "wait" /\ curproc[c] \in Slots
  BY AtWhere, Zenon DEF WaitNone
<1>2. Moved(c, "user")
  BY <1>1, ReturnMoves, QuietSame, Zenon DEF WaitNone, Callers, InSchedule, TrapFrames
<1>3. LocksOf(c, "user")
  BY <1>1, HeldAt, Constants DEF WaitNone, Free, LocksOf, Holds, SwitchFrames, InSchedule
<1> QED BY <1>1, <1>2, <1>3, LockStepInv, Zenon DEF WaitNone, InSchedule, TmrFrames

\* wait() found no zombie, under the lock that exit() needs.
LEMMA WaitSleepInv ==
  ASSUME IInv, NEW c \in CPUs, WaitSleep(c)
  PROVE  IInv'
<1> USE InvParts
<1>1. At(c, "wait") /\ Where(c) = "wait" /\ curproc[c] \in Slots
  BY AtWhere, Zenon DEF WaitSleep
<1>2. Moved(c, "wait_rq")
  <2>1. Allowed(curproc[c], "wait")
    BY <1>1, CurrentAllowed, Zenon
  <2>2. Goto(c, "wait_rq") /\ UNCHANGED <<proc, q, curproc, bal>>
    BY Zenon DEF WaitSleep
  <2>3. "wait_rq" \in Frames /\ Allowed(curproc[c], "wait_rq") /\ Callers("wait") = Callers("wait_rq")
    BY <2>1, Zenon DEF Allowed, Callers, InSchedule, TrapFrames, Frames, SwitchFrames, Interruptible
  <2>4. SameNp
    BY <2>2, QuietSame, Zenon
  <2> QED BY <1>1, <2>2, <2>3, <2>4, GotoMoves, Zenon
<1>3. LocksOf(c, "wait_rq")
  BY <1>1, HeldAt, Constants DEF WaitSleep, Free, LocksOf, Holds, SwitchFrames, InSchedule
<1> QED BY <1>1, <1>2, <1>3, LockStepInv, Zenon DEF WaitSleep, InSchedule, TmrFrames

\* exit() is called, but not by init.
LEMMA ExitInv ==
  ASSUME IInv, NEW c \in CPUs, Exit(c)
  PROVE  IInv'
<1> USE InvParts
<1>1. At(c, "user") /\ Where(c) = "user" /\ curproc[c] \in Slots
  BY AtWhere, ZenonT(30) DEF Exit
<1>2. CASE curproc[c] = InitProc
  BY <1>2, Panics, ZenonT(30) DEF Exit, Faults
<1>3. CASE curproc[c] # InitProc
  <2>1. Push(c, "exit") /\ UNCHANGED <<proc, q, curproc, lock, bal, fault>>
    BY <1>3, Zenon DEF Exit
  <2>2. Moved(c, "exit")
    BY <1>1, <1>3, <2>1, PushMoves, QuietSame
    DEF Allowed, Callers, InSchedule, TrapFrames, Frames, SwitchFrames, Interruptible
  <2>3. LocksOf(c, "exit")
    BY <1>1, <2>1, HeldAt, Constants DEF LocksOf, Holds, SwitchFrames, InSchedule
  <2> QED BY <1>1, <2>1, <2>2, <2>3, LockStepInv, Zenon DEF InSchedule, TmrFrames
<1> QED BY <1>2, <1>3, Zenon

\* wait() takes proc_table_lock.
LEMMA WaitInv ==
  ASSUME IInv, NEW c \in CPUs, Wait(c)
  PROVE  IInv'
<1> USE InvParts
<1>1. At(c, "user") /\ Where(c) = "user" /\ curproc[c] \in Slots /\ curproc[c] \notin Idles
  BY AtWhere, Zenon DEF Wait, Calling
<1>2. Moved(c, "wait")
  BY <1>1, PushMoves, QuietSame
  DEF Wait, Allowed, Callers, InSchedule, TrapFrames, Frames, SwitchFrames, Interruptible
<1>3. LocksOf(c, "wait")
  BY <1>1, HeldAt, Constants DEF Wait, Free, LocksOf, Holds, SwitchFrames, InSchedule
<1> QED BY <1>1, <1>2, <1>3, LockStepInv, Zenon DEF Wait, InSchedule, TmrFrames

\* sys_fork reads which CPU it runs on.
LEMMA ForkCpuInv ==
  ASSUME IInv, NEW c \in CPUs, ForkCpu(c)
  PROVE  IInv'
<1> USE InvParts
<1>1. At(c, "fork") /\ curproc[c] \in Slots
  BY AtWhere, Zenon DEF ForkCpu
<1>2. OwnFields(c) /\ SameNp
  <2>1. proc \in [Slots -> Procs] /\ proc[curproc[c]] \in Procs
    BY <1>1, Zenon DEF TypeOK
  <2>2. [proc[curproc[c]] EXCEPT !.frq = c] \in Procs
    BY <2>1, Constants, SchedAssumption, ZenonT(30) DEF Procs
  <2>3. OwnFields(c)
    BY <1>1, <2>1, <2>2 DEF ForkCpu, OwnFields
  <2> QED BY <2>3, OwnSameNp, Zenon
<1>3. Moved(c, "fork_rq")
  <2>1. Allowed(curproc[c], "fork")
    BY <1>1, CurrentAllowed, Zenon
  <2>2. Goto(c, "fork_rq") /\ curproc' = curproc
    BY Zenon DEF ForkCpu
  <2>3. "fork_rq" \in Frames /\ Allowed(curproc[c], "fork_rq") /\ Callers("fork") = Callers("fork_rq")
    BY <2>1, Zenon DEF Allowed, Callers, InSchedule, TrapFrames, Frames, SwitchFrames, Interruptible
  <2> QED BY <1>1, <1>2, <2>2, <2>3, GotoMoves, Zenon
<1>4. LocksOf(c, "fork_rq")
  BY <1>1, HeldAt, Constants DEF ForkCpu, Free, LocksOf, Holds, SwitchFrames, InSchedule
<1> QED BY <1>1, <1>2, <1>3, <1>4, FieldStepInv DEF ForkCpu, InSchedule, TmrFrames

\* sleep() tidies up, and wait() has proc_table_lock again.
LEMMA WaitWakeInv ==
  ASSUME IInv, NEW c \in CPUs, WaitWake(c)
  PROVE  IInv'
<1> USE InvParts
<1>1. At(c, "wait_wake") /\ curproc[c] \in Slots
  BY AtWhere, Zenon DEF WaitWake
<1>2. OwnFields(c) /\ SameNp
  <2>1. proc \in [Slots -> Procs] /\ proc[curproc[c]] \in Procs
    BY <1>1, Zenon DEF TypeOK
  <2>2. [proc[curproc[c]] EXCEPT !.chan = 0] \in Procs
    BY <2>1, Constants, SchedAssumption DEF Procs
  <2>3. OwnFields(c)
    BY <1>1, <2>1, <2>2 DEF WaitWake, OwnFields
  <2> QED BY <2>3, OwnSameNp, Zenon
<1>3. Moved(c, "wait")
  <2>1. Allowed(curproc[c], "wait_wake")
    BY <1>1, CurrentAllowed, Zenon
  <2>2. Goto(c, "wait") /\ curproc' = curproc
    BY Zenon DEF WaitWake
  <2>3. "wait" \in Frames /\ Allowed(curproc[c], "wait") /\ Callers("wait_wake") = Callers("wait")
    BY <2>1, Zenon DEF Allowed, Callers, InSchedule, TrapFrames, Frames, SwitchFrames, Interruptible
  <2> QED BY <1>1, <1>2, <2>2, <2>3, GotoMoves, Zenon
<1>4. LocksOf(c, "wait")
  BY <1>1, HeldAt, Constants DEF WaitWake, Free, LocksOf, Holds, SwitchFrames, InSchedule
<1> QED BY <1>1, <1>2, <1>3, <1>4, FieldStepInv DEF WaitWake, InSchedule, TmrFrames

\* kill() panics, or marks a process that does not sleep.
LEMMA KillInv ==
  ASSUME IInv, NEW c \in CPUs, Kill(c)
  PROVE  IInv'
<1> USE InvParts
<1>1. At(c, "user") /\ curproc[c] # 0 /\ Where(c) = "user"
  BY AtWhere, ZenonT(30) DEF Kill, Calling
<1>2. PICK t \in Slots :
        IF proc[t].state = "SLEEPING"
          THEN Panic("enqueue_proc no lock")
          ELSE /\ proc' = [proc EXCEPT ![t].killed = 1]
               /\ UNCHANGED <<kstack, q, curproc, lock, bal, fault>>
  BY ZenonT(30) DEF Kill
<1>3. CASE proc[t].state = "SLEEPING"
  BY <1>2, <1>3, Panics, ZenonT(30) DEF Faults
<1>4. CASE proc[t].state # "SLEEPING"
  <2>1. /\ proc' = [proc EXCEPT ![t].killed = 1]
        /\ UNCHANGED <<kstack, q, curproc, lock, bal, fault>>
    BY <1>2, <1>4, Zenon
  <2>2. proc \in [Slots -> Procs] /\ proc[t] \in Procs
    BY Zenon DEF TypeOK
  <2>3. [proc[t] EXCEPT !.killed = 1] \in Procs
    BY <2>2, Zenon DEF Procs
  <2>4. proc' \in [Slots -> Procs]
    BY <2>1, <2>2, <2>3, Zenon
  <2>5. QuietProcs(c) /\ SameNp
    <3>1. QuietProcs(c)
      BY <2>1, <2>2, <2>3, Zenon DEF QuietProcs, Procs
    <3> QED BY <3>1, Zenon DEF QuietProcs, SameNp
  <2>6. Moved(c, "user")
    BY <1>1, <2>1, <2>5, StillMoves, Zenon
  <2>7. TypeOK'
    BY <2>1, <2>4, Zenon DEF TypeOK
  <2>8. LockDiscipline'
    BY <1>1, <2>1, <2>6 DEF LockDiscipline, Moved
  <2> QED BY <1>1, <2>5, <2>6, <2>7, <2>8, QuietInv, Zenon DEF InSchedule, TmrFrames
<1> QED BY <1>3, <1>4, Zenon

\* sys_fork takes an unused slot for a child in the making.
LEMMA ForkInv ==
  ASSUME IInv, NEW c \in CPUs, Fork(c)
  PROVE  IInv'
<1> USE InvParts
<1> DEFINE cp == curproc[c]
<1>1. At(c, "user") /\ cp \in Slots /\ cp # 0 /\ Where(c) = "user" /\ cp \notin Idles
      /\ proc[cp].state = "RUNNING" /\ Head(kstack[cp]) = "user"
  BY AtWhere DEF Fork, Calling, RunningOK, InSchedule
<1>2. PICK np \in Slots :
       /\ IsLeast(np, {s \in Slots : proc[s].state = "UNUSED"})
       /\ proc' = [proc EXCEPT
            ![np] = [@ EXCEPT !.state = "EMBRYO", !.pid = 1, !.rq = NoRq, !.parent = cp],
            ![cp].np = np]
       /\ kstack' = [kstack EXCEPT ![np] = Born, ![cp] = <<"fork">> \o @]
  BY ZenonT(30) DEF Fork
<1>3. UNCHANGED <<q, curproc, lock, bal, fault>>
  BY Zenon DEF Fork
<1>4. proc[np].state = "UNUSED" /\ np # cp /\ np # 0
  BY <1>1, <1>2, Constants, Zenon DEF IsLeast
<1>5. /\ np \notin Idles /\ np # InitProc /\ proc[np].np = 0
      /\ \A d \in CPUs : curproc[d] # np
      /\ \A p \in Slots \ (Idles \cup {InitProc}) : proc[p].state # "UNUSED" => proc[p].parent # np
  BY <1>4, NotYet, Zenon
<1> HIDE DEF cp
<1>p. /\ proc' \in [Slots -> Procs]
      /\ \A p \in Slots \ {np, cp} : proc'[p] = proc[p]
      /\ proc'[np].np = 0 /\ proc'[np].state = "EMBRYO" /\ proc'[np].parent = cp
      /\ proc'[np].left = proc[np].left /\ proc'[np].rq = NoRq
      /\ proc'[cp].state = proc[cp].state /\ proc'[cp].parent = proc[cp].parent
      /\ proc'[cp].rq = proc[cp].rq /\ proc'[cp].timeslice = proc[cp].timeslice
      /\ proc'[cp].left = proc[cp].left /\ proc'[cp].chan = proc[cp].chan
      /\ proc'[cp].np = np
  <2> DEFINE child == [proc[np] EXCEPT !.state = "EMBRYO", !.pid = 1, !.rq = NoRq, !.parent = cp]
             me == [proc[cp] EXCEPT !.np = np]
  <2>1. proc \in [Slots -> Procs] /\ proc[np] \in Procs /\ proc[cp] \in Procs
    BY <1>1, Zenon DEF TypeOK
  <2>2. NoRq \in CPUs \X (0..3) /\ cp \in 0..NPROC /\ np \in 0..NPROC
    BY <1>1, Constants DEF NoRq
  <2>3. /\ child \in Procs /\ child.np = proc[np].np /\ child.state = "EMBRYO" /\ child.parent = cp
        /\ child.left = proc[np].left /\ child.rq = NoRq
    BY <2>1, <2>2, ZenonT(30) DEF Procs, States
  <2>4. /\ me \in Procs /\ me.state = proc[cp].state /\ me.parent = proc[cp].parent
        /\ me.rq = proc[cp].rq /\ me.timeslice = proc[cp].timeslice
        /\ me.left = proc[cp].left /\ me.chan = proc[cp].chan /\ me.np = np
    BY <2>1, <2>2, Zenon DEF Procs
  <2>5. /\ proc'[np] = child /\ proc'[cp] = me /\ \A p \in Slots \ {np, cp} : proc'[p] = proc[p]
        /\ proc' \in [Slots -> Procs]
    BY <1>1, <1>2, <1>4, <2>1, <2>3, <2>4, Zenon
  <2> HIDE DEF child, me
  <2> QED BY <1>5, <2>3, <2>4, <2>5, Zenon
<1>k. /\ kstack' \in [Slots -> Seq(Frames)]
      /\ kstack'[np] = Born /\ kstack'[cp] = <<"fork">> \o kstack[cp]
      /\ \A p \in Slots \ {np, cp} : kstack'[p] = kstack[p]
      /\ WellNested(kstack'[cp]) /\ Head(kstack'[cp]) = "fork"
      /\ \A g : OnStack(kstack'[cp], g) => g = "fork" \/ OnStack(kstack[cp], g)
  <2>1. kstack \in [Slots -> Seq(Frames)] /\ kstack[cp] \in Seq(Frames) /\ WellNested(kstack[cp])
    BY <1>1, Zenon DEF TypeOK, StacksOK
  <2>2. "fork" \in Frames /\ Head(kstack[cp]) \in Callers("fork")
    BY <1>1, Zenon DEF Frames, Interruptible, Callers, InSchedule, TrapFrames
  <2>3. /\ <<"fork">> \o kstack[cp] \in Seq(Frames) /\ WellNested(<<"fork">> \o kstack[cp])
        /\ Head(<<"fork">> \o kstack[cp]) = "fork"
        /\ \A g : OnStack(<<"fork">> \o kstack[cp], g) => g = "fork" \/ OnStack(kstack[cp], g)
    BY <2>1, <2>2, NestPush, Zenon
  <2>4. /\ kstack' \in [Slots -> Seq(Frames)]
        /\ kstack'[np] = Born /\ kstack'[cp] = <<"fork">> \o kstack[cp]
        /\ \A p \in Slots \ {np, cp} : kstack'[p] = kstack[p]
    BY <1>1, <1>2, <1>4, <2>1, <2>3, BornStack, ZenonT(30)
  <2> QED BY <2>3, <2>4, Zenon
<1>m. Moved(c, "fork")
  <2>1. ASSUME NEW g \in Frames, OnStack(kstack'[cp], g) PROVE Allowed(curproc[c], g)'
    <3>1. g = "fork" \/ Allowed(cp, g)
      BY <1>1, <1>k, <2>1, ZenonT(30) DEF StacksOK
    <3> QED BY <1>1, <1>3, <1>4, <1>p, <3>1, ZenonT(30) DEF Allowed, cp
  <2>2. \A p \in Slots \ {cp} :
           \/ kstack'[p] = kstack[p] /\ proc'[p].np = proc[p].np
           \/ kstack'[p] = Born /\ \A d \in CPUs : curproc[d] # p
    BY <1>5, <1>k, <1>p
  <2>3. \A g \in Frames : OnStack(kstack'[curproc[c]], g) => Allowed(curproc[c], g)'
    BY <2>1, Zenon DEF cp
  <2>4. Moved(c, Head(kstack'[curproc[c]]))
    BY <1>1, <1>3, <1>k, <2>2, <2>3, NewStacks, ZenonT(30) DEF cp
  <2> QED BY <1>k, <2>4, Zenon DEF cp
<1>l. LocksOf(c, "fork")
  BY <1>1, <1>3, HeldAt DEF LocksOf, Holds, SwitchFrames, InSchedule
<1>6. SlotChanged(c, np)
  <2>1. \A p \in Slots \ {cp} : proc[p].np = np => proc[p].state = "ZOMBIE"
    BY <1>4, Zenon DEF FamilyOK
  <2> QED BY <1>1, <1>4, <1>5, <1>p, <2>1, ZenonT(30) DEF SlotChanged, cp
<1> QED BY <1>1, <1>3, <1>m, <1>l, <1>6, SlotStepInv, Zenon

\* copyproc fails, and the slot of the child in the making is given back.
LEMMA ForkFailInv ==
  ASSUME IInv, NEW c \in CPUs, ForkFail(c)
  PROVE  IInv'
<1> USE InvParts
<1> DEFINE cp == curproc[c]
           np == proc[cp].np
<1>1. At(c, "fork") /\ cp \in Slots /\ cp # 0 /\ Where(c) = "fork"
      /\ proc[cp].state = "RUNNING"
  BY AtWhere DEF ForkFail, RunningOK, InSchedule
<1>2. /\ proc' = [proc EXCEPT ![np] = [@ EXCEPT !.state = "UNUSED", !.parent = 0], ![cp].np = 0]
      /\ Return(c) /\ UNCHANGED <<q, curproc, lock, bal, fault>>
  BY Zenon DEF ForkFail
<1>3. np # 0 /\ np \in Slots /\ cp \notin Idles
  BY <1>1, CurrentAllowed, Types, ZenonT(30) DEF Allowed
<1>4. proc[np].state = "EMBRYO" /\ proc[np].parent = cp /\ np # cp
  BY <1>1, <1>3, ZenonT(30) DEF FamilyOK
<1>5. /\ np \notin Idles /\ np # InitProc /\ proc[np].np = 0
      /\ \A d \in CPUs : curproc[d] # np
      /\ \A p \in Slots \ (Idles \cup {InitProc}) : proc[p].state # "UNUSED" => proc[p].parent # np
  BY <1>3, <1>4, NotYet, Zenon
<1> HIDE DEF cp, np
<1>p. /\ proc' \in [Slots -> Procs]
      /\ \A p \in Slots \ {np, cp} : proc'[p] = proc[p]
      /\ proc'[np].np = 0 /\ proc'[np].state = "UNUSED" /\ proc'[np].parent = 0
      /\ proc'[np].timeslice = proc[np].timeslice /\ proc'[np].rq = proc[np].rq
      /\ proc'[cp].state = proc[cp].state /\ proc'[cp].parent = proc[cp].parent
      /\ proc'[cp].rq = proc[cp].rq /\ proc'[cp].timeslice = proc[cp].timeslice
      /\ proc'[cp].left = proc[cp].left /\ proc'[cp].chan = proc[cp].chan
      /\ proc'[cp].np = 0
  <2> DEFINE child == [proc[np] EXCEPT !.state = "UNUSED", !.parent = 0]
             me == [proc[cp] EXCEPT !.np = 0]
  <2>1. proc \in [Slots -> Procs] /\ proc[np] \in Procs /\ proc[cp] \in Procs
    BY <1>1, <1>3, Zenon DEF TypeOK
  <2>2. 0 \in 0..NPROC
    BY SchedAssumption
  <2>3. /\ child \in Procs /\ child.np = proc[np].np /\ child.state = "UNUSED" /\ child.parent = 0
        /\ child.timeslice = proc[np].timeslice /\ child.rq = proc[np].rq
    BY <2>1, <2>2, ZenonT(30) DEF Procs, States
  <2>4. /\ me \in Procs /\ me.state = proc[cp].state /\ me.parent = proc[cp].parent
        /\ me.rq = proc[cp].rq /\ me.timeslice = proc[cp].timeslice
        /\ me.left = proc[cp].left /\ me.chan = proc[cp].chan /\ me.np = 0
    BY <2>1, <2>2, Zenon DEF Procs
  <2>5. /\ proc'[np] = child /\ proc'[cp] = me /\ \A p \in Slots \ {np, cp} : proc'[p] = proc[p]
        /\ proc' \in [Slots -> Procs]
    BY <1>1, <1>2, <1>3, <1>4, <2>1, <2>3, <2>4, Zenon
  <2> HIDE DEF child, me
  <2> QED BY <1>5, <2>3, <2>4, <2>5, Zenon
<1>m. Moved(c, "user")
  <2>1. Tail(kstack[cp]) = <<"user">>
    BY <1>1, BackToUser, Zenon DEF cp, Callers, InSchedule, TrapFrames
  <2>2. kstack' = [kstack EXCEPT ![cp] = <<"user">>] /\ kstack \in [Slots -> Seq(Frames)]
    BY <1>2, <2>1, ZenonT(30) DEF Return, cp, TypeOK
  <2>3. /\ kstack' \in [Slots -> Seq(Frames)] /\ kstack'[cp] = <<"user">>
        /\ \A p \in Slots \ {cp} : kstack'[p] = kstack[p]
    BY <1>1, <2>2, UserStack, Zenon
  <2>4. \A g \in Frames : OnStack(<<"user">>, g) => Allowed(curproc[c], g)'
    BY UserStack, Zenon DEF Allowed
  <2>5. \A p \in Slots \ {cp} : proc'[p].np = proc[p].np
    BY <1>p, <1>5, Zenon
  <2>6. Moved(c, Head(<<"user">>))
    BY <1>1, <1>2, <2>3, <2>4, <2>5, UserStack, NewStacks, ZenonT(30) DEF cp
  <2> QED BY <2>6, UserStack, Zenon
<1>l. LocksOf(c, "user")
  BY <1>1, <1>2, HeldAt DEF LocksOf, Holds, SwitchFrames, InSchedule
<1>6. SlotChanged(c, np)
  <2>1. \A p \in Slots \ {cp} : proc[p].np = np => proc[p].state = "ZOMBIE"
    BY <1>3, <1>4, Zenon DEF FamilyOK
  <2> QED BY <1>1, <1>3, <1>4, <1>5, <1>p, <2>1, ZenonT(30) DEF SlotChanged, cp
<1> QED BY <1>1, <1>2, <1>m, <1>l, <1>6, SlotStepInv, ZenonT(30)

\* wait() empties the slot of a zombie that no CPU runs any more.
LEMMA WaitReapInv ==
  ASSUME IInv, NEW c \in CPUs, WaitReap(c)
  PROVE  IInv'
<1> USE InvParts
<1> DEFINE cp == curproc[c]
<1>1. At(c, "wait") /\ cp \in Slots /\ cp # 0 /\ Where(c) = "wait"
      /\ proc[cp].state = "RUNNING" /\ cp \notin Idles
  <2>1. At(c, "wait") /\ cp \in Slots /\ cp # 0 /\ Where(c) = "wait"
    BY AtWhere, ZenonT(30) DEF WaitReap
  <2>2. Allowed(cp, "wait")
    BY <2>1, CurrentAllowed, Zenon
  <2> QED BY <2>1, <2>2, Zenon DEF RunningOK, InSchedule, Allowed
<1>2. PICK z \in Slots :
       /\ IsLeast(z, Zombies(cp))
       /\ IF \E d \in CPUs : curproc[d] = z
            THEN Panic("kernel stack freed in use")
            ELSE /\ proc' = [proc EXCEPT ![z] = [Unused EXCEPT !.killed = proc[z].killed]]
                 /\ lock' = [lock EXCEPT ![Ptl] = NoCpu]
                 /\ kstack' = [kstack EXCEPT ![z] = Born, ![cp] = Tail(@)]
                 /\ UNCHANGED <<q, curproc, bal, fault>>
  BY ZenonT(30) DEF WaitReap
<1>3. CASE \E d \in CPUs : curproc[d] = z
  BY <1>2, <1>3, Panics, ZenonT(30) DEF Faults
<1>4. CASE \A d \in CPUs : curproc[d] # z
  <2>1. /\ proc' = [proc EXCEPT ![z] = [Unused EXCEPT !.killed = proc[z].killed]]
        /\ lock' = [lock EXCEPT ![Ptl] = NoCpu]
        /\ kstack' = [kstack EXCEPT ![z] = Born, ![cp] = Tail(@)]
        /\ UNCHANGED <<q, curproc, bal, fault>>
    BY <1>2, <1>4, ZenonT(30)
  <2>2. proc[z].state = "ZOMBIE" /\ proc[z].parent = cp /\ z # cp
    BY <1>1, <1>2, ZenonT(30) DEF IsLeast, Zombies, Children
  <2>3. z \notin Idles /\ z # InitProc
    BY <1>1, <2>2, Zenon DEF FamilyOK
  <2> HIDE DEF cp
  <2>p. /\ proc' \in [Slots -> Procs]
        /\ \A p \in Slots \ {z} : proc'[p] = proc[p]
        /\ proc'[z].np = 0 /\ proc'[z].state = "UNUSED" /\ proc'[z].parent = 0
        /\ proc'[z].rq = NoRq
    <3> DEFINE gone == [Unused EXCEPT !.killed = proc[z].killed]
    <3>1. proc \in [Slots -> Procs] /\ proc[z].killed \in {0, 1}
      BY Zenon DEF TypeOK, Procs
    <3>2. NoRq \in CPUs \X (0..3) /\ 0 \in CPUs /\ 0 \in 0..NPROC /\ 0 \in 0..(NPROC + 1)
          /\ 0 \in 0..MaxSleep
      BY Constants, SchedAssumption DEF NoRq
    <3>3. /\ gone \in Procs /\ gone.np = 0 /\ gone.state = "UNUSED" /\ gone.parent = 0
          /\ gone.rq = NoRq
      BY <3>1, <3>2, Zenon DEF Unused, Procs, States
    <3>4. proc' = [proc EXCEPT ![z] = gone]
      BY <2>1, Zenon
    <3> HIDE DEF gone
    <3> QED BY <3>1, <3>3, <3>4, Zenon
  <2>k. /\ kstack' \in [Slots -> Seq(Frames)]
        /\ kstack'[z] = Born /\ kstack'[cp] = <<"user">>
        /\ \A p \in Slots \ {z, cp} : kstack'[p] = kstack[p]
    <3>1. kstack \in [Slots -> Seq(Frames)] /\ Tail(kstack[cp]) = <<"user">>
      BY <1>1, BackToUser, ZenonT(30) DEF TypeOK, cp, Callers, InSchedule, TrapFrames
    <3>2. kstack' = [kstack EXCEPT ![z] = Born, ![cp] = <<"user">>]
      BY <2>1, <2>2, <3>1, ZenonT(30)
    <3> QED BY <1>1, <2>2, <3>1, <3>2, UserStack, BornStack, ZenonT(30)
  <2>m. Moved(c, "user")
    <3>1. \A g \in Frames : OnStack(<<"user">>, g) => Allowed(curproc[c], g)'
      BY UserStack, Zenon DEF Allowed
    <3>2. \A p \in Slots \ {cp} :
             \/ kstack'[p] = kstack[p] /\ proc'[p].np = proc[p].np
             \/ kstack'[p] = Born /\ \A d \in CPUs : curproc[d] # p
      BY <1>4, <2>k, <2>p, ZenonT(30)
    <3>3. /\ kstack'[curproc[c]] = <<"user">> /\ WellNested(kstack'[curproc[c]])
          /\ \A g \in Frames : OnStack(kstack'[curproc[c]], g) => Allowed(curproc[c], g)'
      BY <2>k, <3>1, UserStack, Zenon DEF cp
    <3>4. Moved(c, Head(kstack'[curproc[c]]))
      BY <1>1, <2>1, <2>k, <3>2, <3>3, NewStacks, ZenonT(30) DEF cp
    <3> QED BY <3>3, <3>4, UserStack, Zenon
  <2>l. LocksOf(c, "user")
    BY <1>1, <2>1, HeldAt, Constants DEF LocksOf, Holds, SwitchFrames, InSchedule
  <2>4. SlotChanged(c, z)
    <3>1. \A p \in Slots : proc[p].np = z => proc[p].state = "ZOMBIE"
      BY <2>2, Constants DEF FamilyOK
    <3>2. \A p \in Slots \ (Idles \cup {InitProc}) : proc[p].state # "UNUSED" => proc[p].parent # z
      BY <2>2, Zenon DEF ParentAlive
    <3>3. proc'[cp] = proc[cp] /\ proc[cp].np # z
      BY <1>1, <2>2, <2>p, <3>1, Zenon
    <3>4. /\ z \in Slots \ (Idles \cup {InitProc, cp})
          /\ \A p \in Slots \ {z, cp} : proc'[p] = proc[p]
      BY <2>2, <2>3, <2>p, Zenon
    <3>5. proc[z].state \in {"UNUSED", "EMBRYO", "ZOMBIE"}
      BY <2>2, Zenon
    <3> QED BY <1>4, <2>p, <3>1, <3>2, <3>3, <3>4, <3>5, ZenonT(30) DEF SlotChanged, cp
  <2> QED BY <1>1, <2>1, <2>m, <2>l, <2>4, SlotStepInv, Zenon
<1> QED BY <1>3, <1>4, Zenon

\* The child is queued on the CPU whose rq_lock was taken.
LEMMA ForkEnqueueInv ==
  ASSUME IInv, NEW c \in CPUs, ForkEnqueue(c)
  PROVE  IInv'
<1> USE InvParts
<1> DEFINE cp == curproc[c]
           np == proc[cp].np
<1>1. At(c, "fork_rq") /\ cp \in Slots /\ cp # 0 /\ Where(c) = "fork_rq"
      /\ proc[cp].state = "RUNNING"
  <2>1. At(c, "fork_rq")
    BY ZenonT(30) DEF ForkEnqueue
  <2> QED BY <2>1, AtWhere DEF RunningOK, InSchedule
<1>2. CASE proc[cp].frq # c
  BY <1>2, Panics, ZenonT(30) DEF ForkEnqueue, Faults
<1>3. CASE proc[cp].frq = c
  <2>1. /\ proc' = [proc EXCEPT ![np] = Woken(@, c), ![cp] = [@ EXCEPT !.np = 0, !.frq = 0]]
        /\ q' = [q EXCEPT ![c][1] = Append(@, np)]
        /\ Return(c) /\ UNCHANGED <<curproc, lock, bal, fault>>
    BY <1>3, Zenon DEF ForkEnqueue
  <2>2. np # 0 /\ np \in Slots /\ cp \notin Idles
    BY <1>1, CurrentAllowed, Types, ZenonT(30) DEF Allowed
  <2>3. proc[np].state = "EMBRYO" /\ proc[np].parent = cp /\ np # cp
    BY <1>1, <2>2, ZenonT(30) DEF FamilyOK
  <2>4. /\ np \notin Idles /\ np # InitProc /\ proc[np].np = 0
        /\ \A d \in CPUs : curproc[d] # np
        /\ ~CanRun(np) /\ ~Queued(np) /\ ~InFlight(np)
    BY <2>2, <2>3, NotYet, ZenonT(30)
  <2> HIDE DEF cp, np
  <2>p. /\ proc' \in [Slots -> Procs]
        /\ \A p \in Slots \ {np, cp} : proc'[p] = proc[p]
        /\ proc'[np].state = "RUNNABLE" /\ proc'[np].rq = <<c, 1>>
        /\ proc'[np].parent = cp /\ proc'[np].np = 0 /\ proc'[np].left = proc[np].left
        /\ \/ proc'[np].rq = proc[np].rq /\ proc'[np].timeslice = proc[np].timeslice
           \/ proc'[np].timeslice >= 1
        /\ proc'[cp].state = proc[cp].state /\ proc'[cp].parent = proc[cp].parent
        /\ proc'[cp].rq = proc[cp].rq /\ proc'[cp].timeslice = proc[cp].timeslice
        /\ proc'[cp].left = proc[cp].left /\ proc'[cp].chan = proc[cp].chan
        /\ proc'[cp].np = 0
    <3> DEFINE me == [proc[cp] EXCEPT !.np = 0, !.frq = 0]
               child == Woken(proc[np], c)
    <3>1. proc \in [Slots -> Procs] /\ proc[np] \in Procs /\ proc[cp] \in Procs
      BY <1>1, <2>2, Zenon DEF TypeOK
    <3>2. 0 \in 0..NPROC /\ 0 \in CPUs
      BY SchedAssumption, Constants
    <3>3. /\ me \in Procs /\ me.state = proc[cp].state /\ me.parent = proc[cp].parent
          /\ me.rq = proc[cp].rq /\ me.timeslice = proc[cp].timeslice
          /\ me.left = proc[cp].left /\ me.chan = proc[cp].chan /\ me.np = 0
      BY <3>1, <3>2, ZenonT(30) DEF Procs
    <3>4. /\ child \in Procs /\ child.state = "RUNNABLE" /\ child.rq = <<c, 1>>
          /\ child.parent = proc[np].parent /\ child.np = proc[np].np /\ child.left = proc[np].left
          /\ \/ proc[np].rq = <<c, 1>> /\ child.timeslice = proc[np].timeslice
             \/ child.timeslice >= 1
      BY <3>1, WokenFields, Zenon
    <3> HIDE DEF me, child
    <3>5. /\ proc'[np] = child /\ proc'[cp] = me /\ proc' \in [Slots -> Procs]
          /\ \A p \in Slots \ {np, cp} : proc'[p] = proc[p]
      <4>1. proc' = [proc EXCEPT ![np] = child, ![cp] = me]
        BY <2>1, <2>3, Zenon DEF me, child
      <4> QED BY <1>1, <2>2, <2>3, <3>1, <3>3, <3>4, <4>1, Zenon
    <3> QED BY <2>3, <2>4, <3>3, <3>4, <3>5, ZenonT(30)
  <2>s. \A p \in Slots \ {np} : /\ proc'[p].state = proc[p].state /\ proc'[p].parent = proc[p].parent
                                /\ proc'[p].rq = proc[p].rq /\ proc'[p].timeslice = proc[p].timeslice
                                /\ proc'[p].left = proc[p].left /\ proc'[p].chan = proc[p].chan
    BY <2>p, Zenon
  <2>m. Moved(c, "user")
    <3>1. Tail(kstack[cp]) = <<"user">>
      BY <1>1, BackToUser, Zenon DEF cp, Callers, InSchedule, TrapFrames
    <3>2. kstack' = [kstack EXCEPT ![cp] = <<"user">>] /\ kstack \in [Slots -> Seq(Frames)]
      BY <2>1, <3>1, ZenonT(30) DEF Return, cp, TypeOK
    <3>3. /\ kstack' \in [Slots -> Seq(Frames)] /\ kstack'[cp] = <<"user">>
          /\ \A p \in Slots \ {cp} : kstack'[p] = kstack[p]
      BY <1>1, <3>2, UserStack, Zenon
    <3>4. \A g \in Frames : OnStack(<<"user">>, g) => Allowed(curproc[c], g)'
      BY UserStack, Zenon DEF Allowed
    <3>5. \A p \in Slots \ {cp} : proc'[p].np = proc[p].np
      BY <2>p, <2>4, Zenon
    <3>6. Moved(c, Head(<<"user">>))
      BY <1>1, <2>1, <3>3, <3>4, <3>5, UserStack, NewStacks, ZenonT(30) DEF cp
    <3> QED BY <3>6, UserStack, Zenon
  <2>w. /\ curproc' = curproc /\ Where(c)' = "user" /\ Elsewhere(c) /\ StacksOK'
        /\ kstack' \in [Slots -> Seq(Frames)]
    BY <2>m, MovedElsewhere, Zenon DEF Moved
  <2>l. LocksOf(c, "user")
    BY <1>1, <2>1, HeldAt DEF LocksOf, Holds, SwitchFrames, InSchedule
  <2>5. ASSUME NEW p \in Slots PROVE CanRun(p)' <=> CanRun(p) \/ p = np
    <3>1. \A d \in CPUs : (curproc'[d] = p /\ Where(d)' \in {"sched", "dequeue"}) <=>
                          (curproc[d] = p /\ Where(d) \in {"sched", "dequeue"})
      BY <1>1, <2>w, ZenonT(30) DEF Elsewhere
    <3>2. CASE p = np
      BY <2>4, <2>p, <3>2, Zenon DEF CanRun
    <3>3. CASE p # np
      BY <2>s, <3>1, <3>3, ZenonT(30) DEF CanRun
    <3> QED BY <3>2, <3>3, Zenon
  <2>6. /\ QueueExact'
        /\ q' \in [CPUs -> [Levels -> Seq(Slots)]]
        /\ \A d \in CPUs : \A k \in Levels :
              /\ q[d][k] # <<>> => q'[d][k] # <<>> /\ Head(q'[d][k]) = Head(q[d][k])
              /\ \A p \in Slots : InQueue(q[d][k], p) => InQueue(q'[d][k], p)
    <3> DEFINE t == <<np>>
    <3>1. /\ t \in Seq(Slots) /\ NoDup(t) /\ \A p : InQueue(t, p) <=> p = np
          /\ Append(q[c][1], np) = q[c][1] \o t /\ 1 \in Levels
      <4>1. 1 \in Levels
        BY DEF Levels
      <4>2. q[c][1] \in Seq(Slots)
        BY <4>1, Zenon DEF TypeOK
      <4>3. t \in Seq(Slots) /\ NoDup(t) /\ \A p : InQueue(t, p) <=> p = np
        BY <2>2, OneQueue, ZenonT(30)
      <4>4. Append(q[c][1], np) = q[c][1] \o t
        BY <2>2, <4>2, OneQueue, ZenonT(30)
      <4> QED BY <4>1, <4>3, <4>4, Zenon
    <3>2. q' = [q EXCEPT ![c][1] = @ \o t]
      BY <2>1, <3>1, Zenon
    <3> HIDE DEF t
    <3>3. \A p \in Slots :
           /\ CanRun(p)' <=> CanRun(p) \/ InQueue(t, p)
           /\ InQueue(t, p) => ~Queued(p) /\ ~InFlight(p) /\ proc'[p].rq = <<c, 1>>
           /\ ~InQueue(t, p) => proc'[p].rq = proc[p].rq
      BY <2>4, <2>5, <2>p, <2>s, <3>1, ZenonT(30)
    <3> QED BY <2>1, <3>1, <3>2, <3>3, AddedExact, ZenonT(30)
  <2>7. TypeOK' /\ LockDiscipline'
    BY <2>1, <2>p, <2>6, <2>m, <2>w, <2>l, LocksMove, ZenonT(30) DEF TypeOK
  <2>o. OthersKept(c)
    <3>1. \A d \in CPUs : curproc[d] # 0 => curproc[d] \in Slots \ {np}
      BY <2>4, Types, ZenonT(30)
    <3> QED BY <2>1, <2>6, <2>s, <3>1, ZenonT(30) DEF OthersKept
  <2>8. RunningOK'
    BY <1>1, <2>w, <2>p, <2>o, RunningStays, ZenonT(30) DEF cp
  <2>9. FamilyOK'
    <3>1. ASSUME NEW p \in Slots, proc'[p].np # 0, proc'[p].state # "ZOMBIE"
          PROVE  proc'[proc'[p].np].state = "EMBRYO" /\ proc'[proc'[p].np].parent = p
      <4>1. p \notin {cp, np} /\ proc'[p].np = proc[p].np /\ proc'[p].state = proc[p].state
        BY <2>p, <3>1, ZenonT(30)
      <4>2. /\ proc[p].np \in Slots
            /\ proc[proc[p].np].state = "EMBRYO" /\ proc[proc[p].np].parent = p
        BY <3>1, <4>1, Types, ZenonT(30) DEF FamilyOK
      <4> QED BY <2>3, <2>s, <4>1, <4>2, ZenonT(30)
    <3>2. ASSUME NEW p \in Slots PROVE proc'[p].parent # p
      <4>1. proc[p].parent # p
        BY Zenon DEF FamilyOK
      <4>2. CASE p = np
        BY <2>3, <2>p, <4>2, Zenon
      <4>3. CASE p # np
        BY <2>s, <4>1, <4>3, Zenon
      <4> QED BY <4>2, <4>3, Zenon
    <3>3. ASSUME NEW p \in Idles
          PROVE  /\ proc'[p].state \notin {"UNUSED", "EMBRYO", "SLEEPING"}
                 /\ proc'[p].parent = 0 /\ proc'[p].np = 0
      <4>1. /\ proc[p].state \notin {"UNUSED", "EMBRYO", "SLEEPING"}
            /\ proc[p].parent = 0 /\ proc[p].np = 0
        BY Zenon DEF FamilyOK
      <4>2. p \in Slots /\ p # np /\ p # cp
        BY <2>2, <2>4, IdleSlots, Zenon
      <4>3. proc'[p] = proc[p]
        BY <2>p, <4>2, Zenon
      <4> QED BY <4>1, <4>3, Zenon
    <3>4. /\ proc'[InitProc].state \notin {"UNUSED", "EMBRYO", "ZOMBIE"}
          /\ proc'[InitProc].parent = 0
      BY <2>4, <2>s, Constants, ZenonT(30) DEF FamilyOK
    <3> QED BY <3>1, <3>2, <3>3, <3>4, ZenonT(30) DEF FamilyOK
  <2>10. ParentAlive'
    <3> SUFFICES ASSUME NEW p \in Slots \ (Idles \cup {InitProc}), proc'[p].state # "UNUSED"
                 PROVE  /\ proc'[p].parent # 0
                        /\ proc'[proc'[p].parent].state \notin {"UNUSED", "EMBRYO", "ZOMBIE"}
      BY Zenon DEF ParentAlive
    <3>1. CASE p = np
      BY <1>1, <2>p, <3>1, ZenonT(30)
    <3>2. CASE p # np
      <4>1. proc'[p].parent = proc[p].parent /\ proc[p].state # "UNUSED"
        BY <2>s, <3>2, ZenonT(30)
      <4>2. /\ proc[p].parent # 0 /\ proc[p].parent \in Slots
            /\ proc[proc[p].parent].state \notin {"UNUSED", "EMBRYO", "ZOMBIE"}
        BY <4>1, Types, ZenonT(30) DEF ParentAlive
      <4> QED BY <2>3, <2>s, <4>1, <4>2
    <3> QED BY <3>1, <3>2, ZenonT(30)
  <2>11. SlicesOK'
    BY <1>1, <2>w, <2>p, <2>s, SlicesStay, ZenonT(30)
  <2>12. SleepOK' /\ NoLostWakeup'
    <3>1. ASSUME NEW p \in Slots
          PROVE /\ proc'[p].state = "ZOMBIE" =>
                     proc[p].state = "ZOMBIE" /\ proc'[p].parent = proc[p].parent
                /\ proc'[p].state = "SLEEPING" =>
                     proc[p].state = "SLEEPING" /\ proc'[p].chan = proc[p].chan
                /\ proc'[p].left = proc[p].left
      BY <2>p, <2>s, Zenon
    <3> QED BY <1>1, <2>w, <3>1, SleepersStay, ZenonT(30) DEF TmrFrames
  <2>13. CurrentIsHead' /\ ScheduleOK'
    <3>1. cp \notin Idles => HeadAt(c)'
      <4>1. cp \notin Idles => HeadAt(c)
        BY <1>1, ZenonT(30) DEF CurrentIsHead, HeadAt, InSchedule, cp
      <4> QED BY <2>6, <2>w, <2>p, <4>1, ZenonT(30) DEF HeadAt, cp
    <3>2. \A l \in Levels : bal[c].moved[l] = <<>>
      BY <1>1, Zenon DEF ScheduleOK
    <3> QED BY <1>1, <2>1, <2>w, <2>o, <3>1, <3>2, OthersStay, Zenon DEF InSchedule, cp
  <2> QED BY <2>6, <2>7, <2>8, <2>9, <2>10, <2>11, <2>12, <2>13, <2>w, InvWhole, ZenonT(30)
<1> QED BY <1>2, <1>3, Zenon

\* exit's last panic, "zombie exit"
LEMMA ZombieReturnsInv ==
  ASSUME IInv, NEW c \in CPUs, ZombieReturns(c)
  PROVE  IInv'
BY Panics, ZenonT(30) DEF ZombieReturns, Faults

-----------------------------------------------------------------------------
(* The end of exit *)

\* exit() of a process that is not init: the sleepers it wakes are in no queue,
\* its children become init's, and it enters schedule() as a zombie.
LEMMA ExitFinishInv ==
  ASSUME IInv, NEW c \in CPUs, ExitFinish(c)
  PROVE  IInv'
<1> USE InvParts
<1> DEFINE cp == curproc[c]
           par == proc[cp].parent
           wp == Waiting(par)
           wi == /\ Waiting(InitProc) /\ par # InitProc
                 /\ \E s \in Orphans(cp) : proc[s].state = "ZOMBIE"
           W(s) == (s = par /\ wp) \/ (s = InitProc /\ wi)
           t1 == IF wp THEN <<par>> ELSE <<>>
           t2 == IF wi THEN <<InitProc>> ELSE <<>>
           t == t1 \o t2
           ad(s) == IF s \in Orphans(cp) THEN [proc[s] EXCEPT !.parent = InitProc] ELSE proc[s]
<1>1. /\ At(c, "exit_rq") /\ cp \in Slots /\ cp # 0 /\ Where(c) = "exit_rq"
      /\ proc[cp].state = "RUNNING" /\ Allowed(cp, "exit_rq")
  <2>1. At(c, "exit_rq")
    BY ZenonT(30) DEF ExitFinish
  <2> QED BY <2>1, AtWhere, CurrentAllowed DEF RunningOK, InSchedule
<1>2. cp # InitProc /\ par # cp /\ (par = 0 \/ par \in Slots) /\ InitProc \in Slots
  <2>1. cp # InitProc /\ InitProc \in Slots
    BY <1>1, Constants, Zenon DEF Allowed
  <2>2. par # cp
    BY <1>1, Zenon DEF FamilyOK
  <2> QED BY <1>1, <2>1, <2>2, Types, Zenon
<1>3. CASE \E s \in Slots : W(s) /\ Queued(s)
  BY <1>3, Panics, ZenonT(30) DEF ExitFinish, Faults
<1>4. CASE ~\E s \in Slots : W(s) /\ Queued(s)
  <2>1. /\ proc' = [s \in Slots |->
              IF s = cp THEN [ad(s) EXCEPT !.killed = 0, !.state = "ZOMBIE"]
              ELSE IF W(s) THEN Woken(ad(s), c) ELSE ad(s)]
        /\ q' = [q EXCEPT ![c][1] = @ \o t]
        /\ lock' = [lock EXCEPT ![c] = c, ![Ptl] = NoCpu]
        /\ Schedule(c, "zombie") /\ UNCHANGED <<curproc, bal, fault>>
    BY <1>4, ZenonT(30) DEF ExitFinish
  <2>q. q' = [q EXCEPT ![c][1] = @ \o t] /\ bal' = bal
    BY <2>1, ZenonT(30)
  <2>2. ASSUME NEW s, W(s)
        PROVE  /\ s \in Slots \ Idles /\ s # cp /\ ~Queued(s) /\ ~CanRun(s) /\ ~InFlight(s)
               /\ proc[s].state = "SLEEPING"
               /\ \A d \in CPUs : curproc[d] = s => Where(d) = "pick"
    <3>1. s \in Slots /\ proc[s].state = "SLEEPING" /\ ~Queued(s)
      BY <1>2, <1>4, <2>2, ZenonT(30) DEF Waiting, Slots
    <3> QED BY <1>1, <3>1, SleeperGone, Zenon
  <2>o. \A s \in Slots : s \in Orphans(cp) <=> proc[s].parent = cp
    BY Zenon DEF Orphans
  <2>a. ASSUME NEW s \in Slots
        PROVE  /\ ad(s) \in Procs /\ ad(s).np = proc[s].np /\ ad(s).left = proc[s].left
               /\ ad(s).state = proc[s].state /\ ad(s).chan = proc[s].chan
               /\ ad(s).rq = proc[s].rq /\ ad(s).timeslice = proc[s].timeslice
               /\ ad(s).parent = IF proc[s].parent = cp THEN InitProc ELSE proc[s].parent
    <3>1. proc[s] \in Procs /\ InitProc \in 0..NPROC
      BY <1>2, Types, Constants, Zenon
    <3>2. CASE proc[s].parent = cp
      BY <2>o, <3>1, <3>2, Zenon DEF Procs
    <3>3. CASE proc[s].parent # cp
      BY <2>o, <3>1, <3>3, Zenon
    <3> QED BY <3>2, <3>3, Zenon
  <2>e. wi => \E s \in Slots : proc[s].parent = cp /\ proc[s].state = "ZOMBIE"
    BY <2>o, Zenon DEF Orphans
  <2>f. ASSUME NEW s \in Slots, proc[s].parent = cp, proc[s].state = "ZOMBIE", Waiting(InitProc)
        PROVE  W(InitProc)
    BY <2>o, <2>f, Zenon
  <2>h. ASSUME NEW s \in Slots, s = par, Waiting(s) PROVE W(s)
    BY <2>h, Zenon
  <2>g. wi => par # InitProc
    BY Zenon
  <2>i. \A p : W(p) <=> (p = par /\ wp) \/ (p = InitProc /\ wi)
    BY Zenon
  <2> HIDE DEF ad, W, t1, t2, t, wp, wi
  <2>p. ASSUME NEW s \in Slots
        PROVE  /\ proc'[s] \in Procs /\ proc'[s].np = proc[s].np /\ proc'[s].left = proc[s].left
               /\ proc'[s].parent = IF proc[s].parent = cp THEN InitProc ELSE proc[s].parent
               /\ s = cp => /\ proc'[s].state = "ZOMBIE" /\ proc'[s].rq = proc[s].rq
                            /\ proc'[s].timeslice = proc[s].timeslice
               /\ s # cp /\ W(s) =>
                    /\ proc'[s].state = "RUNNABLE" /\ proc'[s].rq = <<c, 1>>
                    /\ \/ proc'[s].rq = proc[s].rq /\ proc'[s].timeslice = proc[s].timeslice
                       \/ proc'[s].timeslice >= 1
               /\ s # cp /\ ~W(s) =>
                    /\ proc'[s].state = proc[s].state /\ proc'[s].chan = proc[s].chan
                    /\ proc'[s].rq = proc[s].rq /\ proc'[s].timeslice = proc[s].timeslice
    <3> DEFINE r == ad(s)
    <3>1. /\ r \in Procs /\ r.np = proc[s].np /\ r.left = proc[s].left
          /\ r.state = proc[s].state /\ r.chan = proc[s].chan
          /\ r.rq = proc[s].rq /\ r.timeslice = proc[s].timeslice
          /\ r.parent = IF proc[s].parent = cp THEN InitProc ELSE proc[s].parent
      BY <2>a, ZenonT(30)
    <3>2. proc'[s] = IF s = cp THEN [r EXCEPT !.killed = 0, !.state = "ZOMBIE"]
                     ELSE IF W(s) THEN Woken(r, c) ELSE r
      BY <2>1, ZenonT(30)
    <3> HIDE DEF r
    <3>3. CASE s = cp
      <4> DEFINE z == [r EXCEPT !.killed = 0, !.state = "ZOMBIE"]
      <4>1. /\ z \in Procs /\ z.np = r.np /\ z.left = r.left /\ z.parent = r.parent
            /\ z.state = "ZOMBIE" /\ z.rq = r.rq /\ z.timeslice = r.timeslice
        BY <3>1, ZenonT(30) DEF Procs, States
      <4>2. proc'[s] = z
        BY <3>2, <3>3, Zenon
      <4> HIDE DEF z
      <4> QED BY <3>1, <3>3, <4>1, <4>2, Zenon
    <3>4. CASE s # cp /\ W(s)
      <4>1. proc'[s] = Woken(r, c)
        BY <3>2, <3>4, Zenon
      <4>2. /\ Woken(r, c) \in Procs
            /\ Woken(r, c).state = "RUNNABLE" /\ Woken(r, c).rq = <<c, 1>>
            /\ Woken(r, c).parent = r.parent /\ Woken(r, c).np = r.np
            /\ Woken(r, c).left = r.left
            /\ \/ r.rq = <<c, 1>> /\ Woken(r, c).timeslice = r.timeslice
               \/ Woken(r, c).timeslice >= 1
        BY <3>1, WokenFields, Zenon
      <4> QED BY <3>1, <3>4, <4>1, <4>2, Zenon
    <3>5. CASE s # cp /\ ~W(s)
      BY <3>1, <3>2, <3>5, Zenon
    <3> QED BY <3>3, <3>4, <3>5, ZenonT(30)
  <2>t. proc' \in [Slots -> Procs]
    <3>1. proc' = [s \in Slots |-> proc'[s]]
      BY <2>1, ZenonT(30)
    <3> QED BY <2>p, <3>1, Zenon
  <2>m. Moved(c, "sched")
    <3>1. SameNp
      BY <2>p, Zenon DEF SameNp
    <3>2. /\ "zombie" \in SwitchFrames \ {"forkret"} /\ Allowed(cp, "zombie")
          /\ Callers("exit_rq") = Callers("zombie")
      BY <1>2, Zenon DEF SwitchFrames, Allowed, Callers, InSchedule, TrapFrames
    <3> QED BY <1>1, <2>1, <3>1, <3>2, ScheduleMoves, ZenonT(30)
  <2>w. /\ curproc' = curproc /\ Where(c)' = "sched" /\ Elsewhere(c) /\ StacksOK'
        /\ kstack' \in [Slots -> Seq(Frames)]
    BY <2>m, MovedElsewhere, Zenon DEF Moved
  <2>l. LocksOf(c, "sched")
    <3>1. lock[c] = NoCpu
      BY ZenonT(30) DEF ExitFinish, Free
    <3>2. lock \in [Locks -> CPUs \cup {NoCpu}] /\ \A l \in Locks : lock[l] = c <=> Holds(c, "exit_rq", l)
      BY <1>1, HeldAt, Zenon
    <3> QED BY <2>1, <3>1, <3>2, Constants, ZenonT(30) DEF LocksOf, Holds, SwitchFrames, InSchedule
  <2> HIDE DEF cp
  <2>5. ASSUME NEW p \in Slots PROVE CanRun(p)' <=> CanRun(p) \/ W(p)
    <3>1. CASE p = cp
      <4>1. CanRun(p)' <=> p \notin Idles
        BY <2>w, <3>1, Zenon DEF CanRun, cp
      <4>2. CanRun(p) <=> p \notin Idles
        BY <1>1, <3>1, Zenon DEF CanRun
      <4> QED BY <2>2, <3>1, <4>1, <4>2, Zenon
    <3>2. CASE p # cp
      <4>1. \A d \in CPUs : (curproc'[d] = p /\ Where(d)' \in {"sched", "dequeue"}) <=>
                            (curproc[d] = p /\ Where(d) \in {"sched", "dequeue"})
        BY <2>w, <3>2, Zenon DEF Elsewhere, cp
      <4>2. CASE W(p)
        BY <2>2, <2>p, <3>2, <4>2, Zenon DEF CanRun
      <4>3. CASE ~W(p)
        BY <2>p, <3>2, <4>1, <4>3, ZenonT(30) DEF CanRun
      <4> QED BY <4>2, <4>3, Zenon
    <3> QED BY <3>1, <3>2, Zenon
  <2>6. /\ QueueExact'
        /\ q' \in [CPUs -> [Levels -> Seq(Slots)]]
        /\ \A d \in CPUs : \A k \in Levels :
              /\ q[d][k] # <<>> => q'[d][k] # <<>> /\ Head(q'[d][k]) = Head(q[d][k])
              /\ \A p \in Slots : InQueue(q[d][k], p) => InQueue(q'[d][k], p)
    <3>0. /\ <<>> \in Seq(Slots) /\ NoDup(<<>>) /\ \A p : ~InQueue(<<>>, p)
      BY DEF NoDup, InQueue
    <3>1. t1 \in Seq(Slots) /\ NoDup(t1) /\ \A p : InQueue(t1, p) <=> p = par /\ wp
      <4>1. wp => par \in Slots
        BY <2>2, <2>i, Zenon
      <4>2. CASE wp
        BY <4>1, <4>2, OneQueue, Zenon DEF t1
      <4>3. CASE ~wp
        BY <3>0, <4>3, Zenon DEF t1
      <4> QED BY <4>2, <4>3, Zenon
    <3>2. t2 \in Seq(Slots) /\ NoDup(t2) /\ \A p : InQueue(t2, p) <=> p = InitProc /\ wi
      <4>2. CASE wi
        BY <1>2, <4>2, OneQueue, Zenon DEF t2
      <4>3. CASE ~wi
        BY <3>0, <4>3, Zenon DEF t2
      <4> QED BY <4>2, <4>3, Zenon
    <3>3. 1 \in Levels
      BY DEF Levels
    <3>6. /\ t \in Seq(Slots) /\ NoDup(t) /\ \A p : InQueue(t, p) <=> W(p)
      <4>1. \A p : ~(InQueue(t1, p) /\ InQueue(t2, p))
        BY <2>g, <3>1, <3>2, Zenon
      <4>2. /\ t \in Seq(Slots) /\ NoDup(t)
            /\ \A p : InQueue(t, p) <=> InQueue(t1, p) \/ InQueue(t2, p)
        BY <3>1, <3>2, <4>1, ConcatQueue, Zenon DEF t
      <4> QED BY <2>i, <3>1, <3>2, <4>2, Zenon
    <3>7. \A p \in Slots :
           /\ CanRun(p)' <=> CanRun(p) \/ InQueue(t, p)
           /\ InQueue(t, p) => ~Queued(p) /\ ~InFlight(p) /\ proc'[p].rq = <<c, 1>>
           /\ ~InQueue(t, p) => proc'[p].rq = proc[p].rq
      BY <2>2, <2>5, <2>p, <3>6, ZenonT(30)
    <3> QED BY <2>q, <3>3, <3>6, <3>7, AddedExact, ZenonT(30)
  <2>7. TypeOK' /\ LockDiscipline'
    BY <2>1, <2>t, <2>6, <2>m, <2>w, <2>l, LocksMove, ZenonT(30) DEF TypeOK
  <2>s. \A d \in CPUs \ {c} : curproc[d] # 0 => curproc[d] \in Slots \ {cp}
    BY <1>1, Types, ZenonT(30) DEF RunningOK, cp
  <2>k. OthersKept(c)
    <3>1. ASSUME NEW d \in CPUs \ {c}, curproc[d] # 0
          PROVE  /\ \/ proc'[curproc[d]].state = proc[curproc[d]].state
                    \/ Where(d) = "pick" /\ proc'[curproc[d]].state = "RUNNABLE"
                 /\ Where(d) \notin InSchedule => proc'[curproc[d]].rq = proc[curproc[d]].rq
      <4>1. curproc[d] \in Slots /\ curproc[d] # cp
        BY <2>s, <3>1, Zenon
      <4>2. CASE W(curproc[d])
        <5>1. Where(d) = "pick"
          BY <2>2, <4>2, Zenon
        <5> QED BY <2>p, <4>1, <4>2, <5>1, Zenon DEF InSchedule
      <4>3. CASE ~W(curproc[d])
        BY <2>p, <4>1, <4>3, Zenon
      <4> QED BY <4>2, <4>3, Zenon
    <3> QED BY <2>1, <2>6, <3>1, ZenonT(30) DEF OthersKept
  <2>8. RunningOK'
    <3>1. proc'[cp].state = "ZOMBIE"
      BY <1>1, <2>p, ZenonT(30)
    <3> QED BY <1>1, <2>w, <2>k, <3>1, RunningStays, ZenonT(30) DEF cp, InSchedule
  <2>9. FamilyOK'
    <3>1. ASSUME NEW p \in Slots, proc'[p].np # 0, proc'[p].state # "ZOMBIE"
          PROVE  proc'[proc'[p].np].state = "EMBRYO" /\ proc'[proc'[p].np].parent = p
      <4>1. p # cp /\ proc'[p].np = proc[p].np /\ proc[p].state # "ZOMBIE"
        BY <2>2, <2>p, <3>1, Zenon
      <4>2. /\ proc[p].np \in Slots
            /\ proc[proc[p].np].state = "EMBRYO" /\ proc[proc[p].np].parent = p
        BY <3>1, <4>1, Types, ZenonT(30) DEF FamilyOK
      <4>3. proc[p].np # cp /\ ~W(proc[p].np)
        BY <1>1, <2>2, <4>2, ZenonT(30)
      <4> QED BY <2>p, <4>1, <4>2, <4>3
    <3>2. ASSUME NEW p \in Slots PROVE proc'[p].parent # p
      <4>1. proc[p].parent # p
        BY Zenon DEF FamilyOK
      <4>2. CASE proc[p].parent = cp
        <5>1. p # InitProc
          BY <1>1, <4>2, Zenon DEF FamilyOK
        <5> QED BY <2>p, <4>2, <5>1, Zenon
      <4>3. CASE proc[p].parent # cp
        BY <2>p, <4>1, <4>3, Zenon
      <4> QED BY <4>2, <4>3, Zenon
    <3>3. ASSUME NEW p \in Idles
          PROVE  /\ proc'[p].state \notin {"UNUSED", "EMBRYO", "SLEEPING"}
                 /\ proc'[p].parent = 0 /\ proc'[p].np = 0
      <4>1. p \in Slots /\ ~W(p) /\ proc[p].parent = 0 /\ proc[p].np = 0
            /\ proc[p].state \notin {"UNUSED", "EMBRYO", "SLEEPING"}
        BY <2>2, IdleSlots, ZenonT(30) DEF FamilyOK
      <4> QED BY <1>1, <2>p, <4>1, ZenonT(30)
    <3>4. /\ proc'[InitProc].state \notin {"UNUSED", "EMBRYO", "ZOMBIE"}
          /\ proc'[InitProc].parent = 0
      BY <1>1, <1>2, <2>p, ZenonT(30) DEF FamilyOK
    <3> QED BY <3>1, <3>2, <3>3, <3>4, ZenonT(30) DEF FamilyOK
  <2>10. ParentAlive'
    <3> SUFFICES ASSUME NEW p \in Slots \ (Idles \cup {InitProc}), proc'[p].state # "UNUSED"
                 PROVE  /\ proc'[p].parent # 0
                        /\ proc'[proc'[p].parent].state \notin {"UNUSED", "EMBRYO", "ZOMBIE"}
      BY Zenon DEF ParentAlive
    <3>1. proc[p].state # "UNUSED"
      BY <1>1, <2>2, <2>p, ZenonT(30)
    <3>2. /\ proc[p].parent # 0 /\ proc[p].parent \in Slots
          /\ proc[proc[p].parent].state \notin {"UNUSED", "EMBRYO", "ZOMBIE"}
      BY <3>1, Types, Zenon DEF ParentAlive
    <3>3. CASE proc[p].parent = cp
      <4>1. proc'[p].parent = InitProc
        BY <2>p, <3>3, ZenonT(30)
      <4>2. proc'[InitProc].state \notin {"UNUSED", "EMBRYO", "ZOMBIE"}
        BY <2>9, Zenon DEF FamilyOK
      <4>3. InitProc # 0
        BY <1>2 DEF Slots
      <4> QED BY <4>1, <4>2, <4>3, Zenon
    <3>4. CASE proc[p].parent # cp
      <4>1. proc'[p].parent = proc[p].parent
        BY <2>p, <3>4, ZenonT(30)
      <4>2. CASE W(proc[p].parent)
        BY <2>p, <3>2, <3>4, <4>1, <4>2, ZenonT(30)
      <4>3. CASE ~W(proc[p].parent)
        BY <2>p, <3>2, <3>4, <4>1, <4>3
      <4> QED BY <4>2, <4>3, ZenonT(30)
    <3> QED BY <3>3, <3>4, Zenon
  <2>11. SlicesOK'
    BY <1>1, <2>w, <2>p, SlicesStay, ZenonT(30)
  <2>12. SleepOK'
    <3>1. ASSUME NEW d \in CPUs PROVE Where(d)' \notin {"wait_rq", "slp_rq"}
      <4>1. CASE d = c
        BY <2>w, <4>1, Zenon
      <4>2. CASE d # c
        <5>1. lock[Ptl] = c
          BY <1>1, HeldAt, Constants DEF Holds
        <5>2. Where(d)' = Where(d)
          BY <2>w, <4>2, Zenon DEF Elsewhere
        <5>3. Where(d) \in {"wait_rq", "slp_rq"} => lock[Ptl] = d
          BY Constants, Zenon DEF LockDiscipline, Holds
        <5> QED BY <4>2, <5>1, <5>2, <5>3, Zenon
      <4> QED BY <4>1, <4>2, Zenon
    <3>2. ASSUME NEW p \in Slots, proc'[p].state = "SLEEPING" PROVE proc'[p].chan \in {p, Ticks}
      BY <2>p, <3>2, Zenon DEF SleepOK
    <3> QED BY <3>1, <3>2, ZenonT(30) DEF SleepOK
  <2>13. NoLostWakeup'
    <3> SUFFICES ASSUME NEW p \in Slots, proc'[p].state = "SLEEPING"
                 PROVE  IF proc'[p].chan = Ticks
                          THEN proc'[p].left = 0 => Where(0)' \in {"tmr_ptl", "tmr_rq", "tmr_wake"}
                          ELSE Zombies(p)' = {}
      BY Zenon DEF NoLostWakeup
    <3>1. /\ p # cp /\ ~W(p) /\ proc[p].state = "SLEEPING" /\ proc'[p].chan = proc[p].chan
          /\ proc'[p].left = proc[p].left /\ proc[p].chan \in {p, Ticks}
      BY <2>p, Zenon DEF SleepOK
    <3>2. CASE proc[p].chan = Ticks
      <4>1. proc[p].left = 0 => Where(0) \in {"tmr_ptl", "tmr_rq", "tmr_wake"}
        BY <3>1, <3>2, Zenon DEF NoLostWakeup
      <4>2. Where(0) \in {"tmr_ptl", "tmr_rq", "tmr_wake"} => Where(0)' = Where(0)
        BY <1>1, <2>w, Constants, Zenon DEF Elsewhere
      <4> QED BY <3>1, <3>2, <4>1, <4>2, Zenon
    <3>3. CASE proc[p].chan # Ticks
      <4>1. Zombies(p) = {} /\ Waiting(p)
        BY <3>1, <3>3 DEF NoLostWakeup, Waiting, Slots
      <4>2. ASSUME NEW s \in Slots, proc'[s].state = "ZOMBIE", proc'[s].parent = p PROVE FALSE
        <5>1. CASE s = cp
          <6>1. proc'[s].parent = par
            BY <1>2, <2>p, <5>1, Zenon
          <6> QED BY <2>h, <3>1, <4>1, <4>2, <6>1, Zenon
        <5>2. CASE s # cp
          <6>1. proc[s].state = "ZOMBIE"
            BY <2>p, <4>2, <5>2, Zenon
          <6>2. CASE proc[s].parent = cp
            <7>1. p = InitProc
              BY <2>p, <4>2, <6>2, Zenon
            <7> QED BY <2>f, <3>1, <4>1, <6>1, <6>2, <7>1, Zenon
          <6>3. CASE proc[s].parent # cp
            <7>1. proc[s].parent = p
              BY <2>p, <4>2, <6>3, Zenon
            <7> QED BY <4>1, <6>1, <7>1, Zenon DEF Zombies, Children
          <6> QED BY <6>2, <6>3, Zenon
        <5> QED BY <5>1, <5>2, Zenon
      <4>3. Zombies(p)' = {}
        BY <4>2, Zenon DEF Zombies, Children
      <4> QED BY <3>1, <3>3, <4>3, Zenon
    <3> QED BY <3>2, <3>3, Zenon
  <2>14. CurrentIsHead' /\ ScheduleOK'
    <3>1. cp \notin Idles => \E l \in Levels : InQueue(q'[c][l], cp)
      <4> SUFFICES ASSUME cp \notin Idles PROVE \E l \in Levels : InQueue(q'[c][l], cp)
        BY Zenon
      <4>1. PICK l \in Levels : q[c][l] # <<>> /\ Head(q[c][l]) = cp
        BY <1>1, ZenonT(30) DEF CurrentIsHead, InSchedule, cp
      <4>2. q[c][l] \in Seq(Slots)
        BY Types, ZenonT(30)
      <4>3. InQueue(q[c][l], cp)
        BY <4>1, <4>2 DEF InQueue
      <4> QED BY <1>1, <2>6, <4>3, Zenon
    <3>2. \A l \in Levels : bal[c].moved[l] = <<>>
      BY <1>1, Zenon DEF ScheduleOK
    <3> QED BY <1>1, <2>1, <2>w, <2>k, <3>1, <3>2, OthersStay, ZenonT(30) DEF InSchedule, cp
  <2> QED BY <2>6, <2>7, <2>8, <2>9, <2>10, <2>11, <2>12, <2>13, <2>14, <2>w, InvWhole, ZenonT(30)
<1> QED BY <1>3, <1>4, Zenon

-----------------------------------------------------------------------------
(* sys_sleep, forkret and procdump *)

\* sleep() takes proc_table_lock while it still has tickslock.
LEMMA SleepPtlInv ==
  ASSUME IInv, NEW c \in CPUs, SleepPtl(c)
  PROVE  IInv'
<1> USE DEF IInv
<1>1. At(c, "slp") /\ Where(c) = "slp" /\ curproc[c] \in Slots
  BY AtWhere, Zenon DEF SleepPtl
<1>2. Moved(c, "slp_rq")
  <2>1. Allowed(curproc[c], "slp")
    BY <1>1, CurrentAllowed, Zenon
  <2>2. Goto(c, "slp_rq") /\ UNCHANGED <<proc, q, curproc, bal>>
    BY Zenon DEF SleepPtl
  <2>3. "slp_rq" \in Frames /\ Allowed(curproc[c], "slp_rq") /\ Callers("slp") = Callers("slp_rq")
    BY <2>1, Zenon DEF Allowed, Callers, InSchedule, TrapFrames, Frames, SwitchFrames, Interruptible
  <2>4. SameNp
    BY <2>2, QuietSame, Zenon
  <2> QED BY <1>1, <2>2, <2>3, <2>4, GotoMoves, Zenon
<1>3. LocksOf(c, "slp_rq")
  BY <1>1, HeldAt, Constants DEF SleepPtl, Free, LocksOf, Holds, SwitchFrames, InSchedule
<1> QED BY <1>1, <1>2, <1>3, LockStepInv, Zenon DEF SleepPtl, InSchedule, TmrFrames

\* sleep() takes tickslock again.
LEMMA SleepRelockInv ==
  ASSUME IInv, NEW c \in CPUs, SleepRelock(c)
  PROVE  IInv'
<1> USE DEF IInv
<1>1. At(c, "slp_relk") /\ Where(c) = "slp_relk" /\ curproc[c] \in Slots
  BY AtWhere, Zenon DEF SleepRelock
<1>2. Moved(c, "slp")
  <2>1. Allowed(curproc[c], "slp_relk")
    BY <1>1, CurrentAllowed, Zenon
  <2>2. Goto(c, "slp") /\ UNCHANGED <<proc, q, curproc, bal>>
    BY Zenon DEF SleepRelock
  <2>3. "slp" \in Frames /\ Allowed(curproc[c], "slp") /\ Callers("slp_relk") = Callers("slp")
    BY <2>1, Zenon DEF Allowed, Callers, InSchedule, TrapFrames, Frames, SwitchFrames, Interruptible
  <2>4. SameNp
    BY <2>2, QuietSame, Zenon
  <2> QED BY <1>1, <2>2, <2>3, <2>4, GotoMoves, Zenon
<1>3. LocksOf(c, "slp")
  BY <1>1, HeldAt, Constants DEF SleepRelock, Free, LocksOf, Holds, SwitchFrames, InSchedule
<1> QED BY <1>1, <1>2, <1>3, LockStepInv, Zenon DEF SleepRelock, InSchedule, TmrFrames

\* sleep() tidies up before sys_sleep gets tickslock back.
LEMMA SleepWakeInv ==
  ASSUME IInv, NEW c \in CPUs, SleepWake(c)
  PROVE  IInv'
<1> USE DEF IInv
<1>1. At(c, "slp_wake") /\ curproc[c] \in Slots
  BY AtWhere, Zenon DEF SleepWake
<1>2. OwnFields(c) /\ SameNp
  <2>1. proc \in [Slots -> Procs] /\ proc[curproc[c]] \in Procs
    BY <1>1, Zenon DEF TypeOK
  <2>2. [proc[curproc[c]] EXCEPT !.chan = 0] \in Procs
    BY <2>1, Constants, SchedAssumption DEF Procs
  <2>3. OwnFields(c)
    BY <1>1, <2>1, <2>2 DEF SleepWake, OwnFields
  <2> QED BY <2>3, OwnSameNp, Zenon
<1>3. Moved(c, "slp_relk")
  <2>1. Allowed(curproc[c], "slp_wake")
    BY <1>1, CurrentAllowed, Zenon
  <2>2. Goto(c, "slp_relk") /\ curproc' = curproc
    BY Zenon DEF SleepWake
  <2>3. "slp_relk" \in Frames /\ Allowed(curproc[c], "slp_relk") /\ Callers("slp_wake") = Callers("slp_relk")
    BY <2>1, Zenon DEF Allowed, Callers, InSchedule, TrapFrames, Frames, SwitchFrames, Interruptible
  <2> QED BY <1>1, <1>2, <2>2, <2>3, GotoMoves, Zenon
<1>4. LocksOf(c, "slp_relk")
  BY <1>1, HeldAt, Constants DEF SleepWake, Free, LocksOf, Holds, SwitchFrames, InSchedule
<1> QED BY <1>1, <1>2, <1>3, <1>4, FieldStepInv DEF SleepWake, InSchedule, TmrFrames

\* sys_sleep takes tickslock and notes the time.
LEMMA SleepInv ==
  ASSUME IInv, NEW c \in CPUs, Sleep(c)
  PROVE  IInv'
<1> USE DEF IInv
<1>1. At(c, "user") /\ curproc[c] \in Slots /\ curproc[c] \notin Idles
  BY AtWhere, Zenon DEF Sleep, Calling
<1>2. OwnFields(c) /\ SameNp
  <2>1. proc \in [Slots -> Procs] /\ proc[curproc[c]] \in Procs
    BY <1>1, Zenon DEF TypeOK
  <2>2. PICK n \in 1..MaxSleep : proc' = [proc EXCEPT ![curproc[c]].left = n]
    BY ZenonT(30) DEF Sleep
  <2>3. [proc[curproc[c]] EXCEPT !.left = n] \in Procs
    BY <2>1, SchedAssumption DEF Procs
  <2>4. OwnFields(c)
    BY <1>1, <2>1, <2>2, <2>3 DEF OwnFields
  <2> QED BY <2>4, OwnSameNp, Zenon
<1>3. Moved(c, "slp")
  BY <1>1, <1>2, PushMoves
  DEF Sleep, Allowed, Callers, InSchedule, TrapFrames, Frames, SwitchFrames, Interruptible
<1>4. LocksOf(c, "slp")
  BY <1>1, HeldAt, Constants DEF Sleep, Free, LocksOf, Holds, SwitchFrames, InSchedule
<1> QED BY <1>1, <1>2, <1>3, <1>4, FieldStepInv DEF Sleep, InSchedule, TmrFrames

\* sys_sleep returns.
LEMMA SleepReturnInv ==
  ASSUME IInv, NEW c \in CPUs, SleepReturn(c)
  PROVE  IInv'
<1> USE DEF IInv
<1>1. At(c, "slp") /\ curproc[c] \in Slots
  BY AtWhere, Zenon DEF SleepReturn
<1>2. OwnFields(c) /\ SameNp
  <2>1. proc \in [Slots -> Procs] /\ proc[curproc[c]] \in Procs
    BY <1>1, Zenon DEF TypeOK
  <2>2. [proc[curproc[c]] EXCEPT !.left = 0] \in Procs
    BY <2>1, SchedAssumption DEF Procs
  <2>3. OwnFields(c)
    BY <1>1, <2>1, <2>2 DEF SleepReturn, OwnFields
  <2> QED BY <2>3, OwnSameNp, Zenon
<1>3. Moved(c, "user")
  BY <1>1, <1>2, ReturnMoves, Zenon DEF SleepReturn, Callers, InSchedule, TrapFrames
<1>4. LocksOf(c, "user")
  BY <1>1, HeldAt, Constants DEF SleepReturn, Free, LocksOf, Holds, SwitchFrames, InSchedule
<1> QED BY <1>1, <1>2, <1>3, <1>4, FieldStepInv DEF SleepReturn, InSchedule, TmrFrames

\* forkret() gives back the rq_lock its scheduler took.
LEMMA ForkretInv ==
  ASSUME IInv, NEW c \in CPUs, Forkret(c)
  PROVE  IInv'
<1> USE DEF IInv
<1>1. At(c, "forkret") /\ Where(c) = "forkret" /\ curproc[c] \in Slots
  BY AtWhere, Zenon DEF Forkret
<1>2. Moved(c, "user")
  BY <1>1, ReturnMoves, QuietSame, Zenon DEF Forkret, Callers, InSchedule, TrapFrames
<1>3. LocksOf(c, "user")
  BY <1>1, HeldAt, Constants DEF Forkret, Free, LocksOf, Holds, SwitchFrames, InSchedule
<1> QED BY <1>1, <1>2, <1>3, LockStepInv, Zenon DEF Forkret, InSchedule, TmrFrames

\* procdump takes proc_table_lock, ...
LEMMA DumpInv ==
  ASSUME IInv, NEW c \in CPUs, Dump(c)
  PROVE  IInv'
<1> USE DEF IInv
<1>1. PICK g \in Interruptible : At(c, g)
  BY Zenon DEF Dump
<1>2. Where(c) = g /\ curproc[c] \in Slots
  BY <1>1, AtWhere, Zenon
<1>3. Moved(c, "dump")
  BY <1>1, PushMoves, QuietSame, Zenon
  DEF Dump, Allowed, Callers, InSchedule, TrapFrames, Frames, SwitchFrames, Interruptible
<1>4. LocksOf(c, "dump")
  BY <1>1, HeldAt, Constants
  DEF Dump, Free, LocksOf, Holds, SwitchFrames, InSchedule, Interruptible
<1> QED BY <1>1, <1>3, <1>4, LockStepInv, Zenon DEF Dump, InSchedule, TmrFrames, Interruptible

\* What procdump holds: proc_table_lock, and the locks it leaves behind.
LEMMA DumpHolds ==
  ASSUME TypeOK, LockDiscipline, NEW c \in CPUs, At(c, "dump")
  PROVE  /\ lock \in [Locks -> CPUs \cup {NoCpu}]
         /\ \A l \in Locks \ (CPUs \ {c}) : lock[l] = c <=> l = Ptl
<1>1. Where(c) = "dump"
  BY AtWhere, Zenon
<1>2. \A l : Holds(c, "dump", l) <=> l = Ptl
  BY Zenon DEF Holds, SwitchFrames, InSchedule
<1>3. \A l \in Locks : l \in CPUs \ {c} \/ (lock[l] = c <=> Holds(c, "dump", l))
  BY <1>1 DEF LockDiscipline
<1> QED BY <1>2, <1>3, Zenon DEF TypeOK

\* ... the locks of the other queues ...
LEMMA DumpLockInv ==
  ASSUME IInv, NEW c \in CPUs, DumpLock(c)
  PROVE  IInv'
<1> USE DEF IInv
<1>1. At(c, "dump") /\ Where(c) = "dump" /\ curproc[c] \in Slots
  BY AtWhere, Zenon DEF DumpLock
<1>2. Moved(c, "dump")
  BY <1>1, StillMoves, QuietSame, Zenon DEF DumpLock
<1>3. PICK d \in CPUs \ {c} : Free(d) /\ lock' = [lock EXCEPT ![d] = c]
  BY ZenonT(30) DEF DumpLock, IsLeast
<1>4. LocksOf(c, "dump")
  BY <1>1, <1>3, DumpHolds, Constants DEF Free, LocksOf, Holds, SwitchFrames, InSchedule
<1> QED BY <1>1, <1>2, <1>4, LockStepInv, Zenon DEF DumpLock, InSchedule, TmrFrames

\* ... and gives them all back.
LEMMA DumpDoneInv ==
  ASSUME IInv, NEW c \in CPUs, DumpDone(c)
  PROVE  IInv'
<1> USE DEF IInv
<1>1. At(c, "dump") /\ Where(c) = "dump" /\ curproc[c] \in Slots
  BY AtWhere, Zenon DEF DumpDone
<1>2. PICK f \in Interruptible : Moved(c, f)
  BY <1>1, ReturnMoves, QuietSame, Zenon DEF DumpDone, Callers, InSchedule, TrapFrames
<1>3. LocksOf(c, f)
  BY <1>1, DumpHolds, Constants
  DEF DumpDone, LocksOf, Holds, SwitchFrames, InSchedule, Interruptible
<1> QED BY <1>1, <1>2, <1>3, LockStepInv, Zenon DEF DumpDone, InSchedule, TmrFrames, Interruptible

-----------------------------------------------------------------------------
(* Going to sleep *)

\* sleep() after a test that still holds, from wait() or sys_sleep
LEMMA GoToSleep ==
  ASSUME IInv, NEW c \in CPUs, NEW g \in {"wait_rq", "slp_rq"}, At(c, g),
         Moved(c, "sched"), LocksOf(c, "sched"), NEW ch \in {curproc[c], Ticks},
         proc' = [proc EXCEPT ![curproc[c]] = [@ EXCEPT !.chan = ch, !.state = "SLEEPING"]],
         UNCHANGED <<q, bal, fault>>,
         ch = Ticks => proc[curproc[c]].left # 0,
         ch # Ticks => Zombies(curproc[c]) = {}
  PROVE  IInv'
<1> USE InvParts
<1> DEFINE cp == curproc[c]
<1>0. /\ cp \in Slots /\ cp # 0 /\ Where(c) = g /\ proc \in [Slots -> Procs] /\ proc[cp] \in Procs
      /\ cp \notin Idles /\ proc[cp].state = "RUNNING"
  <2>1. cp \in Slots /\ cp # 0 /\ Where(c) = g /\ Allowed(cp, g)
    BY AtWhere, CurrentAllowed, Zenon
  <2> QED BY <2>1, ZenonT(30) DEF TypeOK, Allowed, RunningOK, InSchedule
<1>m. /\ curproc' = curproc /\ Where(c)' = "sched" /\ Elsewhere(c) /\ StacksOK'
      /\ kstack' \in [Slots -> Seq(Frames)]
  BY MovedElsewhere, Zenon DEF Moved
<1>p. /\ proc' \in [Slots -> Procs]
      /\ \A p \in Slots \ {cp} : proc'[p] = proc[p]
      /\ proc'[cp].state = "SLEEPING" /\ proc'[cp].chan = ch
      /\ proc'[cp].parent = proc[cp].parent /\ proc'[cp].np = proc[cp].np
      /\ proc'[cp].rq = proc[cp].rq /\ proc'[cp].timeslice = proc[cp].timeslice
      /\ proc'[cp].left = proc[cp].left
  <2>1. [proc[cp] EXCEPT !.chan = ch, !.state = "SLEEPING"] \in Procs
    BY <1>0, Constants, ZenonT(30) DEF Procs, States
  <2> QED BY <1>0, <2>1, Zenon DEF Procs
<1> HIDE DEF cp
<1>1. TypeOK'
  BY <1>m, <1>p, Zenon DEF TypeOK, LocksOf
<1>2. LockDiscipline'
  BY LocksMove, Zenon
<1>o. OthersKept(c)
  <2>1. \A d \in CPUs \ {c} : curproc[d] # 0 => curproc[d] # cp /\ curproc[d] \in Slots
    BY Types, Zenon DEF RunningOK, cp
  <2> QED BY <1>p, <2>1, ZenonT(30) DEF OthersKept
<1>3. RunningOK'
  BY <1>0, <1>m, <1>p, <1>o, RunningStays, Zenon DEF InSchedule, cp
<1>4. FamilyOK' /\ ParentAlive'
  BY <1>0, <1>p, FamilyStays, Zenon
<1>5. QueueExact'
  <2>1. ASSUME NEW p \in Slots PROVE CanRun(p)' <=> CanRun(p)
    <3>1. CASE p = cp
      BY <1>0, <1>m, <3>1, Zenon DEF CanRun, cp
    <3>2. CASE p # cp
      <4>1. proc'[p].state = proc[p].state
        BY <1>p, <3>2, ZenonT(30)
      <4>2. \A d \in CPUs : curproc[d] = p => Where(d)' = Where(d)
        BY <1>m, <3>2, Zenon DEF Elsewhere, cp
      <4> QED BY <1>m, <4>1, <4>2, Zenon DEF CanRun
    <3> QED BY <3>1, <3>2, Zenon
  <2> QED BY <1>p, <2>1, QueuesStay, Zenon
<1>6. CurrentIsHead' /\ ScheduleOK'
  <2>2. \E l \in Levels : InQueue(q[c][l], cp)
    <3>1. PICK l \in Levels : q[c][l] # <<>> /\ Head(q[c][l]) = cp
      BY <1>0, Zenon DEF CurrentIsHead, InSchedule, cp
    <3>2. q[c][l] \in Seq(Slots)
      BY Types, Zenon
    <3> QED BY <3>1, <3>2 DEF InQueue
  <2>3. \A l \in Levels : bal'[c].moved[l] = <<>>
    BY <1>0, Zenon DEF ScheduleOK
  <2> QED BY <1>0, <1>m, <1>o, <2>2, <2>3, OthersStay, Zenon DEF InSchedule, cp
<1>7. SlicesOK'
  BY <1>0, <1>m, <1>p, SlicesStay, Zenon
<1>z. \A p : Zombies(p) = {} => Zombies(p)' = {}
  <2>1. \A s \in Slots : proc'[s].state = "ZOMBIE" =>
          proc[s].state = "ZOMBIE" /\ proc'[s].parent = proc[s].parent
    BY <1>p, Zenon
  <2> QED BY <2>1, Zenon DEF Zombies, Children
<1>8. SleepOK'
  <2>1. ASSUME NEW d \in CPUs
        PROVE  /\ Where(d)' = "wait_rq" => Zombies(curproc[d])' = {}
               /\ Where(d)' = "slp_rq" => proc'[curproc'[d]].left # 0
    <3>1. CASE d = c
      BY <1>m, <3>1, Zenon
    <3>2. CASE d # c
      <4>1. curproc'[d] = curproc[d] /\ Where(d)' = Where(d)
        BY <1>m, <3>2, Zenon DEF Elsewhere
      <4>2. Where(d) = "slp_rq" => curproc[d] \in Slots
        BY Types, Zenon DEF Where
      <4>3. Zombies(curproc[d]) = {} => Zombies(curproc[d])' = {}
        BY <1>z, <4>1, <1>p DEF Zombies, Children
      <4>4. \A p \in Slots : proc'[p].left = proc[p].left
        BY <1>p, Zenon
      <4> QED BY <4>1, <4>2, <4>3, <4>4, Zenon DEF SleepOK
    <3> QED BY <3>1, <3>2, Zenon
  <2>2. \A p \in Slots : proc'[p].state = "SLEEPING" => proc'[p].chan \in {p, Ticks}
    BY <1>p, Zenon DEF SleepOK, cp
  <2> QED BY <2>1, <2>2, Zenon DEF SleepOK
<1>9. NoLostWakeup'
  <2> SUFFICES ASSUME NEW p \in Slots, proc'[p].state = "SLEEPING"
               PROVE  IF proc'[p].chan = Ticks
                        THEN proc'[p].left = 0 => Where(0)' \in TmrFrames
                        ELSE Zombies(p)' = {}
    BY Zenon DEF NoLostWakeup, TmrFrames
  <2>1. CASE p = cp
    BY <1>p, <1>z, <2>1, Zenon DEF cp
  <2>2. CASE p # cp
    <3>1. proc'[p] = proc[p]
      BY <1>p, <2>2, Zenon
    <3>2. Where(0) \in TmrFrames => Where(0)' \in TmrFrames
      BY <1>0, <1>m, Constants, Zenon DEF Elsewhere, TmrFrames
    <3> QED BY <1>z, <3>1, <3>2, Zenon DEF NoLostWakeup, TmrFrames
  <2> QED BY <2>1, <2>2, Zenon
<1> QED BY <1>1, <1>2, <1>3, <1>4, <1>5, <1>6, <1>7, <1>8, <1>9, <1>m, InvWhole, ZenonT(30)

\* wait() goes to sleep on the process' own address.
LEMMA WaitRqInv ==
  ASSUME IInv, NEW c \in CPUs, WaitRq(c)
  PROVE  IInv'
<1> USE InvParts
<1>1. /\ At(c, "wait_rq") /\ Where(c) = "wait_rq" /\ curproc[c] \in Slots
      /\ Allowed(curproc[c], "wait_rq") /\ Zombies(curproc[c]) = {}
  BY AtWhere, CurrentAllowed, ZenonT(30) DEF WaitRq, SleepOK
<1>2. /\ proc' = [proc EXCEPT ![curproc[c]] = [@ EXCEPT !.chan = curproc[c], !.state = "SLEEPING"]]
      /\ Schedule(c, "wait_wake") /\ UNCHANGED <<q, curproc, bal, fault>>
  BY Zenon DEF WaitRq
<1>3. SameNp
  BY <1>1, <1>2 DEF SameNp, TypeOK, Procs
<1>4. Moved(c, "sched")
  <2>1. /\ "wait_wake" \in SwitchFrames \ {"forkret"} /\ Allowed(curproc[c], "wait_wake")
        /\ Callers("wait_rq") = Callers("wait_wake")
    BY <1>1, Zenon DEF SwitchFrames, Allowed, Callers, InSchedule, TrapFrames
  <2> QED BY <1>1, <1>2, <1>3, <2>1, ScheduleMoves, Zenon
<1>5. LocksOf(c, "sched")
  BY <1>1, HeldAt, Constants DEF WaitRq, Free, LocksOf, Holds, SwitchFrames, InSchedule
<1> QED BY <1>1, <1>2, <1>4, <1>5, GoToSleep, Constants, ZenonT(30)

\* sys_sleep goes to sleep on the clock.
LEMMA SleepRqInv ==
  ASSUME IInv, NEW c \in CPUs, SleepRq(c)
  PROVE  IInv'
<1> USE InvParts
<1>1. /\ At(c, "slp_rq") /\ Where(c) = "slp_rq" /\ curproc[c] \in Slots
      /\ Allowed(curproc[c], "slp_rq") /\ proc[curproc[c]].left # 0
  BY AtWhere, CurrentAllowed, Zenon DEF SleepRq, SleepOK
<1>2. /\ proc' = [proc EXCEPT ![curproc[c]] = [@ EXCEPT !.chan = Ticks, !.state = "SLEEPING"]]
      /\ Schedule(c, "slp_wake") /\ UNCHANGED <<q, curproc, bal, fault>>
  BY Zenon DEF SleepRq
<1>3. SameNp
  BY <1>1, <1>2 DEF SameNp, TypeOK, Procs
<1>4. Moved(c, "sched")
  <2>1. /\ "slp_wake" \in SwitchFrames \ {"forkret"} /\ Allowed(curproc[c], "slp_wake")
        /\ Callers("slp_rq") = Callers("slp_wake")
    BY <1>1, Zenon DEF SwitchFrames, Allowed, Callers, InSchedule, TrapFrames
  <2> QED BY <1>1, <1>2, <1>3, <2>1, ScheduleMoves, Zenon
<1>5. LocksOf(c, "sched")
  BY <1>1, HeldAt, Constants DEF SleepRq, Free, LocksOf, Holds, SwitchFrames, InSchedule
<1> QED BY <1>1, <1>2, <1>4, <1>5, GoToSleep, Constants, ZenonT(30)

-----------------------------------------------------------------------------
(* FInv: fork() *)

\* On one CPU there is no other CPU.
LEMMA OneCpu ==
  ASSUME NCPU = 1, NEW c \in CPUs, NEW d \in CPUs
  PROVE  c = d
BY DEF CPUs

\* sys_fork: what the child is
LEMMA ChildIs ==
  ASSUME IInv, NEW c \in CPUs, NEW g \in {"fork", "fork_rq"}, At(c, g)
  PROVE  LET np == proc[curproc[c]].np IN
         np \in Slots /\ np # curproc[c] /\ proc[np].state = "EMBRYO"
<1> USE InvParts
<1>1. curproc[c] \in Slots /\ proc[curproc[c]].state = "RUNNING"
  BY AtRunning, Zenon DEF InSchedule
<1>2. proc[curproc[c]].np # 0
  BY CurrentAllowed, Zenon DEF Allowed
<1>3. proc[curproc[c]].np \in Slots
  BY <1>1, <1>2, Types, Zenon
<1>4. proc[proc[curproc[c]].np].state = "EMBRYO"
  BY <1>1, <1>2, Zenon DEF FamilyOK
<1> QED BY <1>1, <1>3, <1>4, Zenon

\* fork: a new process stands at no marked frame.
LEMMA ForkKept ==
  ASSUME IInv, FInv, NEW c \in CPUs, Fork(c)
  PROVE  FInv'
<1> USE InvParts
<1> DEFINE cp == curproc[c]
<1>1. At(c, "user") /\ cp \in Slots /\ proc[cp].state = "RUNNING"
  BY AtRunning, Zenon DEF Fork, Calling, InSchedule
<1>2. PICK np \in Slots :
        /\ proc[np].state = "UNUSED"
        /\ proc' = [proc EXCEPT
             ![np] = [@ EXCEPT !.state = "EMBRYO", !.pid = 1, !.rq = NoRq, !.parent = cp],
             ![cp].np = np]
        /\ kstack' = [kstack EXCEPT ![np] = Born, ![cp] = <<"fork">> \o @]
  BY Zenon DEF Fork, IsLeast
<1>3. np # cp
  BY <1>1, <1>2, Zenon
<1>4. /\ proc[np] \in Procs /\ proc[cp] \in Procs /\ proc \in [Slots -> Procs]
      /\ kstack \in [Slots -> Seq(Frames)]
  BY <1>1, Zenon DEF TypeOK
<1>5. /\ proc'[np].killed = proc[np].killed
      /\ proc'[cp].killed = proc[cp].killed /\ proc'[cp].rq = proc[cp].rq
      /\ proc'[cp].state = proc[cp].state
  BY <1>1, <1>2, <1>3, <1>4, Zenon DEF Procs
<1>6. \A p \in Slots \ {np, cp} : proc'[p] = proc[p]
  BY <1>2, <1>4, Zenon
<1>7. Tame
  BY <1>2, <1>5, <1>6, Zenon DEF Tame
<1>8. /\ kstack'[np] = Born /\ kstack'[cp] = <<"fork">> \o kstack[cp]
      /\ \A p \in Slots \ {np, cp} : kstack'[p] = kstack[p]
  BY <1>1, <1>2, <1>3, <1>4, Zenon
<1>9. "fork" \in Frames
  BY Zenon DEF Frames, Interruptible
<1>10. Grows(c, {"fork"})
  <2> SUFFICES ASSUME NEW p \in Slots, NEW g \in MarkFrames, OnStack(kstack'[p], g)
               PROVE  OnStack(kstack[p], g) \/ (p = curproc[c] /\ g \in {"fork"})
    BY Zenon DEF Grows
  <2>1. CASE p = np
    BY <1>8, <2>1, BornFrames, Zenon
  <2>2. CASE p = cp
    <3>1. kstack[cp] \in Seq(Frames) /\ OnStack(<<"fork">> \o kstack[cp], g)
      BY <1>1, <1>4, <1>8, <2>2, Zenon
    <3>2. g = "fork" \/ OnStack(kstack[cp], g)
      BY <1>9, <3>1, ConsFrames, Zenon
    <3> QED BY <2>2, <3>2, Zenon
  <2> QED BY <1>8, <2>1, <2>2, Zenon
<1>11. fault' = fault /\ {"fork"} \cap MarkFrames = {}
  BY Zenon DEF Fork, MarkFrames
<1> QED BY <1>7, <1>10, <1>11, FramesKept, Zenon

\* fork without memory gives the slot back.
LEMMA ForkFailKept ==
  ASSUME IInv, FInv, NEW c \in CPUs, ForkFail(c)
  PROVE  FInv'
<1> USE InvParts
<1>1. PICK cp \in Slots : cp = curproc[c]
  BY AtStack, Zenon DEF ForkFail
<1>2. PICK np \in Slots : np = proc[cp].np /\ np # cp /\ proc[np].state = "EMBRYO"
  BY <1>1, ChildIs, Zenon DEF ForkFail
<1>3. /\ proc' = [proc EXCEPT ![np] = [@ EXCEPT !.state = "UNUSED", !.parent = 0], ![cp].np = 0]
      /\ At(c, "fork") /\ Return(c) /\ fault' = fault
  BY <1>1, <1>2, Zenon DEF ForkFail
<1>4. proc[np] \in Procs /\ proc[cp] \in Procs /\ proc \in [Slots -> Procs]
  BY Zenon DEF TypeOK
<1>5. /\ proc'[np].killed = proc[np].killed
      /\ proc'[cp].killed = proc[cp].killed /\ proc'[cp].rq = proc[cp].rq
      /\ proc'[cp].state = proc[cp].state
  BY <1>2, <1>3, <1>4, Zenon DEF Procs
<1>6. \A p \in Slots \ {np, cp} : proc'[p] = proc[p]
  BY <1>3, <1>4, Zenon
<1>7. Tame
  BY <1>2, <1>5, <1>6, Zenon DEF Tame
<1>8. "fork" \in Frames \ MarkFrames
  BY Zenon DEF Frames, MarkFrames, Interruptible
<1> QED BY <1>3, <1>7, <1>8, MoveKept, Zenon

\* A sleeping or new process that is queued is tame.
LEMMA WokenTame ==
  ASSUME NEW r \in Procs, NEW c \in CPUs
  PROVE  Woken(r, c).killed = r.killed /\ Woken(r, c).state = "RUNNABLE"
BY Zenon DEF Woken, Enqueued, Procs

\* fork: the child is queued on the CPU that was read, or fork panics.
LEMMA ForkEnqueueKept ==
  ASSUME IInv, FInv, NEW c \in CPUs, ForkEnqueue(c)
  PROVE  FInv'
<1> USE InvParts
<1>1. PICK cp \in Slots : cp = curproc[c]
  BY AtStack, Zenon DEF ForkEnqueue
<1>2. PICK np \in Slots : np = proc[cp].np /\ np # cp /\ proc[np].state = "EMBRYO"
  BY <1>1, ChildIs, Zenon DEF ForkEnqueue
<1>3. CASE proc[cp].frq # c
  <2>1. Panic("enqueue_proc no lock")
    BY <1>1, <1>3, Zenon DEF ForkEnqueue
  <2>2. NCPU # 1
    BY <1>1, <1>3, Types, OneCpu, Zenon
  <2> QED BY <2>1, <2>2, StopsKept, Zenon
<1>4. CASE proc[cp].frq = c
  <2>3. /\ proc' = [proc EXCEPT ![np] = Woken(@, c), ![cp] = [@ EXCEPT !.np = 0, !.frq = 0]]
        /\ At(c, "fork_rq") /\ Return(c) /\ fault' = fault
    BY <1>1, <1>2, <1>4, Zenon DEF ForkEnqueue
  <2>4. proc[np] \in Procs /\ proc[cp] \in Procs /\ proc \in [Slots -> Procs]
    BY Zenon DEF TypeOK
  <2>5. proc'[np] = Woken(proc[np], c) /\ proc'[cp] = [proc[cp] EXCEPT !.np = 0, !.frq = 0]
    BY <1>2, <2>3, <2>4, Zenon
  <2>6. /\ proc'[np].killed = proc[np].killed
        /\ proc'[cp].killed = proc[cp].killed /\ proc'[cp].rq = proc[cp].rq
        /\ proc'[cp].state = proc[cp].state
    BY <2>4, <2>5, WokenTame DEF Procs
  <2>7. \A p \in Slots \ {np, cp} : proc'[p] = proc[p]
    BY <2>3, <2>4, Zenon
  <2>8. Tame
    BY <1>2, <2>6, <2>7, Zenon DEF Tame
  <2>9. "fork_rq" \in Frames \ MarkFrames
    BY Zenon DEF Frames, MarkFrames, Interruptible
  <2> QED BY <2>3, <2>8, <2>9, MoveKept, Zenon
<1> QED BY <1>3, <1>4, Zenon

-----------------------------------------------------------------------------
(* exit() *)

\* Without kill(), a call of exit() is not by an idle process or init.
LEMMA ExitCaller ==
  ASSUME IInv, FInv, NEW c \in CPUs, At(c, "user"), "kill" \notin Calls,
         (Calling(c, "exit") /\ curproc[c] # InitProc) \/ proc[curproc[c]].killed = 1
  PROVE  curproc[c] \notin Idles /\ curproc[c] # InitProc
BY AtRunning DEF FInv, ExitOK, Calling, InSchedule

\* A step into or inside exit() by a process that may exit
LEMMA ExitMoves ==
  ASSUME IInv, FInv, NEW c \in CPUs, NEW f \in {"exit", "exit_rq"}, Grows(c, {f}),
         "kill" \notin Calls => curproc[c] \notin Idles,
         proc' = proc, fault' = fault
  PROVE  FInv'
<1>1. \A p \in Slots : \A g \in {"tick", "zombie"} :
         OnStack(kstack'[p], g) => OnStack(kstack[p], g)
  BY Zenon DEF Grows, MarkFrames
<1>2. TickOK'
  BY <1>1, Zenon DEF FInv, TickOK
<1>3. ASSUME "kill" \notin Calls PROVE ExitOK'
  <2>1. ExitOK /\ curproc[c] \notin Idles
    BY <1>3, Zenon DEF FInv
  <2>2. ASSUME NEW p \in Idles, NEW g \in {"exit", "exit_rq", "zombie"}
        PROVE  ~OnStack(kstack'[p], g)
    BY <2>1, IdleSlots, Zenon DEF ExitOK, Grows, MarkFrames
  <2> QED BY <1>1, <2>1, <2>2, Zenon DEF ExitOK
<1> QED BY <1>2, <1>3, Zenon DEF FInv, Found, ExitsFinal, OnlyKillPanics, NoFault

\* exit() is called by a process that is neither idle nor init, unless killed.
LEMMA ExitKept ==
  ASSUME IInv, FInv, NEW c \in CPUs, Exit(c)
  PROVE  FInv'
<1> USE InvParts
<1>1. At(c, "user") /\ "exit" \in Frames
  BY Zenon DEF Exit, Frames
<1>2. "kill" \notin Calls => curproc[c] \notin Idles /\ curproc[c] # InitProc
  BY <1>1, ExitCaller, Zenon DEF Exit
<1>3. CASE curproc[c] = InitProc
  <2>1. Panic("init exiting") /\ "kill" \in Calls
    BY <1>2, <1>3, Zenon DEF Exit
  <2> QED BY <2>1, StopsKept, Zenon
<1>4. CASE curproc[c] # InitProc
  <2>1. Push(c, "exit") /\ proc' = proc /\ fault' = fault
    BY <1>4, Zenon DEF Exit
  <2>2. Grows(c, {"exit"})
    BY <1>1, <2>1, PushGrows, Zenon
  <2> QED BY <1>2, <2>1, <2>2, ExitMoves, Zenon
<1> QED BY <1>3, <1>4, Zenon

\* exit() goes on with proc_table_lock.
LEMMA ExitLockKept ==
  ASSUME IInv, FInv, NEW c \in CPUs, ExitLock(c)
  PROVE  FInv'
<1> USE InvParts
<1>1. /\ At(c, "exit") /\ Goto(c, "exit_rq") /\ proc' = proc /\ fault' = fault
      /\ "exit_rq" \in Frames
  BY Zenon DEF ExitLock, Frames
<1>2. Grows(c, {"exit_rq"})
  BY <1>1, GotoGrows, Zenon
<1>3. "kill" \notin Calls => curproc[c] \notin Idles
  BY <1>1, AtStack, Zenon DEF FInv, ExitOK
<1> QED BY <1>1, <1>2, <1>3, ExitMoves, Zenon

\* On one CPU a sleeper has left the queues: only that CPU's own process can
\* be SLEEPING and queued, and it is in schedule().
LEMMA SleepersOut ==
  ASSUME IInv, NCPU = 1, NEW c \in CPUs, NEW g, At(c, g), g \notin InSchedule,
         NEW s \in Slots, proc[s].state = "SLEEPING"
  PROVE  ~Queued(s)
<1> USE InvParts
<1>1. SUFFICES ASSUME Queued(s) PROVE FALSE
  BY Zenon
<1>2. CanRun(s)
  BY <1>1, Zenon DEF QueueExact
<1>3. PICK d \in CPUs : Where(d) \in {"sched", "dequeue"}
  BY <1>2, Zenon DEF CanRun
<1>4. d = c /\ Where(c) = g
  BY OneCpu, AtWhere, Zenon
<1> QED BY <1>3, <1>4, Zenon DEF InSchedule

\* exit: the process is a zombie for good, and wakes its parent and init.
LEMMA ExitFinishKept ==
  ASSUME IInv, FInv, NEW c \in CPUs, ExitFinish(c)
  PROVE  FInv'
<1> USE InvParts
<1> DEFINE cp == curproc[c]
           wakesParent == Waiting(proc[cp].parent)
           wakesInit == /\ Waiting(InitProc) /\ proc[cp].parent # InitProc
                        /\ \E s \in Orphans(cp) : proc[s].state = "ZOMBIE"
           wakes(s) == \/ s = proc[cp].parent /\ wakesParent
                       \/ s = InitProc /\ wakesInit
           adopted(s) == IF s \in Orphans(cp) THEN [proc[s] EXCEPT !.parent = InitProc]
                                              ELSE proc[s]
<1>1. At(c, "exit_rq") /\ cp \in Slots
  BY AtStack, Zenon DEF ExitFinish
<1>2. \A s \in Slots : wakes(s) => proc[s].state = "SLEEPING"
  BY Zenon DEF Waiting
<1>3. CASE \E s \in Slots : wakes(s) /\ Queued(s)
  <2>1. Panic("queued twice")
    BY <1>3, Zenon DEF ExitFinish
  <2>2. NCPU # 1
    BY <1>1, <1>2, <1>3, SleepersOut, Zenon DEF InSchedule
  <2> QED BY <2>1, <2>2, StopsKept, Zenon
<1>4. CASE ~\E s \in Slots : wakes(s) /\ Queued(s)
  <2>1. /\ proc' = [s \in Slots |->
             IF s = cp THEN [adopted(s) EXCEPT !.killed = 0, !.state = "ZOMBIE"]
             ELSE IF wakes(s) THEN Woken(adopted(s), c) ELSE adopted(s)]
        /\ Schedule(c, "zombie") /\ fault' = fault
    BY <1>4, Zenon DEF ExitFinish
  <2>2. ASSUME NEW s \in Slots
        PROVE  /\ adopted(s) \in Procs /\ adopted(s).killed = proc[s].killed
               /\ adopted(s).rq = proc[s].rq /\ adopted(s).state = proc[s].state
    <3>1. proc[s] \in Procs /\ InitProc \in 0..NPROC
      BY SchedAssumption DEF TypeOK, InitProc
    <3> QED BY <3>1, Zenon DEF Procs
  <2>3. proc'[cp].killed = 0 /\ proc'[cp].state = "ZOMBIE" /\ proc'[cp].rq = proc[cp].rq
    <3>1. proc'[cp] = [adopted(cp) EXCEPT !.killed = 0, !.state = "ZOMBIE"]
      BY <1>1, <2>1, Zenon
    <3>2. adopted(cp) \in Procs /\ adopted(cp).rq = proc[cp].rq
      BY <1>1, <2>2, Zenon
    <3> HIDE DEF adopted
    <3> QED BY <3>1, <3>2, Zenon DEF Procs
  <2>4. ASSUME NEW s \in Slots, s # cp
        PROVE  /\ proc'[s].killed = proc[s].killed
               /\ proc'[s].rq = proc[s].rq \/ proc[s].state = "SLEEPING"
               /\ proc'[s].state = proc[s].state \/ proc[s].state = "SLEEPING"
    <3>1. CASE wakes(s)
      <4>1. proc'[s] = Woken(adopted(s), c)
        BY <2>1, <2>4, <3>1, Zenon
      <4>2. proc[s].state = "SLEEPING"
        BY <1>2, <3>1, Zenon
      <4>3. adopted(s) \in Procs /\ adopted(s).killed = proc[s].killed
        BY <2>2, Zenon
      <4> HIDE DEF adopted, wakes
      <4>4. proc'[s].killed = adopted(s).killed
        BY <4>1, <4>3, WokenTame, Zenon
      <4> QED BY <4>2, <4>3, <4>4, Zenon
    <3>2. CASE ~wakes(s)
      <4>1. proc'[s] = adopted(s)
        BY <2>1, <2>4, <3>2, Zenon
      <4> QED BY <2>2, <4>1, Zenon
    <3> QED BY <3>1, <3>2, Zenon
  <2> HIDE DEF adopted, wakes
  <2>5. Tame
    BY <2>3, <2>4, Zenon DEF Tame
  <2>6. "zombie" \in Frames
    BY Zenon DEF Frames, SwitchFrames
  <2>7. Grows(c, {"zombie"})
    BY <1>1, <2>1, <2>6, ScheduleGrows, Zenon
  <2>8. TickOK'
    BY <2>5, <2>7, TickKept, Zenon
  <2>9. ASSUME "kill" \notin Calls PROVE ExitOK'
    <3>1. ExitOK /\ cp \notin Idles
      BY <1>1, <2>9, AtStack, Zenon DEF FInv, ExitOK
    <3>2. ASSUME NEW s \in Slots PROVE proc'[s].killed = 0
      BY <2>3, <2>4, <3>1, Zenon DEF ExitOK
    <3>3. ASSUME NEW s \in Slots, OnStack(kstack'[s], "zombie")
          PROVE  proc'[s].state = "ZOMBIE"
      <4>1. CASE s = cp
        BY <2>3, <4>1, Zenon
      <4>2. CASE s # cp
        <5>1. OnStack(kstack[s], "zombie")
          BY <2>7, <3>3, <4>2, Zenon DEF Grows, MarkFrames
        <5> QED BY <2>4, <3>1, <4>2, <5>1, Zenon DEF ExitOK
      <4> QED BY <4>1, <4>2, Zenon
    <3>4. ASSUME NEW s \in Idles, NEW f \in {"exit", "exit_rq", "zombie"}
          PROVE  ~OnStack(kstack'[s], f)
      BY <2>7, <3>1, IdleSlots, Zenon DEF ExitOK, Grows, MarkFrames
    <3> QED BY <3>2, <3>3, <3>4, Zenon DEF ExitOK
  <2> QED BY <2>1, <2>8, <2>9, Zenon DEF FInv, Found, ExitsFinal, OnlyKillPanics, NoFault
<1> QED BY <1>3, <1>4, Zenon

\* A process that has exited is not running.
LEMMA ZombieReturnsKept ==
  ASSUME IInv, FInv, NEW c \in CPUs, ZombieReturns(c)
  PROVE  FInv'
<1> USE InvParts
<1>1. At(c, "zombie") /\ Panic("zombie exit")
  BY Zenon DEF ZombieReturns
<1>2. "kill" \in Calls
  <2>1. OnStack(kstack[curproc[c]], "zombie") /\ curproc[c] \in Slots
    BY <1>1, AtStack, Zenon
  <2>2. proc[curproc[c]].state = "RUNNING"
    BY <1>1, AtRunning, Zenon DEF InSchedule
  <2> QED BY <2>1, <2>2, Zenon DEF FInv, ExitOK
<1> QED BY <1>1, <1>2, StopsKept, Zenon

\* wait frees the slot of a zombie, whose stack is gone.
LEMMA WaitReapKept ==
  ASSUME IInv, FInv, NEW c \in CPUs, WaitReap(c)
  PROVE  FInv'
<1> USE InvParts
<1>1. At(c, "wait") /\ curproc[c] \in Slots /\ proc[curproc[c]].state = "RUNNING"
  BY AtRunning, Zenon DEF WaitReap, InSchedule
<1>2. PICK cp \in Slots : cp = curproc[c]
  BY <1>1, Zenon
<1>3. PICK z \in Slots :
        /\ z \in Zombies(cp)
        /\ IF \E d \in CPUs : curproc[d] = z
             THEN Panic("kernel stack freed in use")
             ELSE /\ proc' = [proc EXCEPT ![z] = [Unused EXCEPT !.killed = proc[z].killed]]
                  /\ kstack' = [kstack EXCEPT ![z] = Born, ![cp] = Tail(@)]
                  /\ fault' = fault
  BY <1>2, Zenon DEF WaitReap, IsLeast
<1>4. proc[z].parent = cp /\ proc[z].state = "ZOMBIE" /\ z # cp
  BY <1>1, <1>2, <1>3, Zenon DEF Zombies, Children
<1>5. CASE \E d \in CPUs : curproc[d] = z
  <2>1. NCPU # 1
    BY <1>2, <1>4, <1>5, OneCpu, Zenon
  <2> QED BY <1>3, <1>5, <2>1, StopsKept, Zenon
<1>6. CASE ~\E d \in CPUs : curproc[d] = z
  <2>1. /\ proc' = [proc EXCEPT ![z] = [Unused EXCEPT !.killed = proc[z].killed]]
        /\ kstack' = [kstack EXCEPT ![z] = Born, ![cp] = Tail(@)]
        /\ fault' = fault
    BY <1>3, <1>6, Zenon
  <2>2. proc \in [Slots -> Procs] /\ kstack \in [Slots -> Seq(Frames)]
    BY Zenon DEF TypeOK
  <2>3. /\ proc'[z].killed = proc[z].killed
        /\ \A p \in Slots \ {z} : proc'[p] = proc[p]
    BY <2>1, <2>2, Zenon DEF Unused
  <2>4. /\ kstack'[z] = Born /\ kstack'[cp] = Tail(kstack[cp])
        /\ \A p \in Slots \ {z, cp} : kstack'[p] = kstack[p]
    BY <1>4, <2>1, <2>2, Zenon
  <2>5. Tame
    BY <1>4, <2>3, <2>4, Zenon DEF Tame
  <2>6. Grows(c, {})
    <3> SUFFICES ASSUME NEW p \in Slots, NEW g \in MarkFrames, OnStack(kstack'[p], g)
                 PROVE  OnStack(kstack[p], g)
      BY Zenon DEF Grows
    <3>1. CASE p = z
      BY <2>4, <3>1, BornFrames, Zenon
    <3>2. CASE p = cp
      BY <1>1, <1>2, <2>4, <3>2, AtStack, TailFrames, Zenon
    <3> QED BY <2>4, <3>1, <3>2, Zenon
  <2>7. {} \cap MarkFrames = {}
    BY Zenon
  <2> QED BY <2>1, <2>5, <2>6, <2>7, FramesKept, Zenon
<1> QED BY <1>5, <1>6, Zenon

-----------------------------------------------------------------------------
(* kill() *)

\* kill() changes nothing but the flag it sets, and is one of the calls.
LEMMA KillKept ==
  ASSUME IInv, FInv, NEW c \in CPUs, Kill(c)
  PROVE  FInv'
<1> USE InvParts
<1>1. "kill" \in Calls
  BY Zenon DEF Kill, Calling
<1>2. PICK t \in Slots :
        IF proc[t].state = "SLEEPING"
          THEN Panic("enqueue_proc no lock")
          ELSE /\ proc' = [proc EXCEPT ![t].killed = 1]
               /\ kstack' = kstack /\ fault' = fault
  BY Zenon DEF Kill
<1>3. CASE proc[t].state = "SLEEPING"
  BY <1>1, <1>2, <1>3, StopsKept, Zenon
<1>4. CASE proc[t].state # "SLEEPING"
  <2>1. proc \in [Slots -> Procs] /\ proc[t] \in Procs
    BY Zenon DEF TypeOK
  <2>2. /\ proc'[t] = [proc[t] EXCEPT !.killed = 1]
        /\ \A p \in Slots : p # t => proc'[p] = proc[p]
    BY <1>2, <1>4, <2>1, Zenon
  <2>3. \A p \in Slots : proc'[p].rq = proc[p].rq
    BY <2>1, <2>2 DEF Procs
  <2>4. TickOK'
    BY <1>2, <1>4, <2>3, Zenon DEF FInv, TickOK
  <2> QED BY <1>1, <1>2, <1>4, <2>4, Zenon DEF FInv, Found, ExitsFinal, OnlyKillPanics, NoFault
<1> QED BY <1>3, <1>4, Zenon
=============================================================================
