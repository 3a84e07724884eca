------------------------------- MODULE Runcmd -------------------------------
(***************************************************************************)
(* The shell running commands (sh.c: main, fork1, runcmd): the processes   *)
(* a command tree becomes, how they are joined by pipes, and who waits for *)
(* whom.  The system calls are those of the kernel, one step each where    *)
(* other processes can tell; the programs that EXEC starts are outside:    *)
(* a program that has a pipe for input reads it to its end, one that has a *)
(* pipe for output writes to it.                                           *)
(***************************************************************************)
EXTENDS Integers, Sequences, FiniteSets, FiniteSetsExt

CONSTANTS
  Slots,     \* process slots, from 1; Shell is one, init is outside
  Shell,
  NOFILE,    \* descriptors of a process
  NPipes,    \* pipes the kernel has room for
  PipeRoom,  \* bytes a pipe holds
  Output,    \* writes a program makes
  Typed,     \* the commands the user types, as trees
  MaxTyped   \* how many of them

VARIABLES
  rproc,     \* per slot: pc, parent, command, descriptors, p[], and what the
             \* program still writes; bg: started by a BACK command
  rpipe,     \* bytes in each pipe
  typed,     \* lines read so far
  short      \* some fork() or pipe() failed

rvars == <<rproc, rpipe, typed, short>>

Fds == 0 .. NOFILE - 1
Closed == <<"closed", 0>>
Con == <<"console", 0>>
File == <<"file", 0>>
REnd(k) == <<"read", k>>
WEnd(k) == <<"write", k>>
InitPid == 0
NoCmd == [type |-> "none"]
Unused == [pc |-> "unused", parent |-> InitPid, cmd |-> NoCmd, p0 |-> 0, p1 |-> 0,
           ofile |-> [fd \in Fds |-> Closed], out |-> 0, bg |-> FALSE]

At(p, where) == rproc[p].pc = where
Holders(table, end) == {<<p, fd>> \in Slots \X Fds : table[p].ofile[fd] = end}
Children(p) == {q \in Slots : rproc[q].pc # "unused" /\ rproc[q].parent = p}
FreeFd(ofile) == Min({fd \in Fds : ofile[fd] = Closed})
FreeSlots == {q \in Slots : At(q, "unused")}

\* dup(): the lowest free descriptor names the same end.
Dup(ofile, fd) == [ofile EXCEPT ![FreeFd(ofile)] = ofile[fd]]

Set(table, p, rec) == [table EXCEPT ![p] = rec]

\* exit(): descriptors close, children go to init, the parent may reap.
Exited(table, p) ==
  [q \in Slots |->
     IF q = p THEN [Unused EXCEPT !.pc = "zombie", !.parent = table[p].parent, !.bg = table[p].bg]
     ELSE IF table[q].pc # "unused" /\ table[q].parent = p
     THEN [table[q] EXCEPT !.parent = InitPid] ELSE table[q]]

Step(p, rec) == rproc' = Set(rproc, p, rec) /\ UNCHANGED <<rpipe, typed, short>>
Exit(p) == rproc' = Exited(rproc, p)
ExitOnly(p) == Exit(p) /\ UNCHANGED <<rpipe, typed, short>>

\* fork1(): the child goes on as c, the parent as rec; without a free slot
\* the caller panics, which exits it.
Fork1(p, c, rec) ==
  IF FreeSlots = {} THEN Exit(p) /\ short' = TRUE
  ELSE LET q == CHOOSE s \in FreeSlots : TRUE
       IN  rproc' = Set(Set(rproc, p, rec), q, [c EXCEPT !.parent = p]) /\ UNCHANGED short

-----------------------------------------------------------------------------
\* main(): read a line and fork a child to run it; at end of file, exit.  A cd
\* is a chdir() of the shell itself and starts no process: not a step here.
Main(cmd) ==
  /\ At(Shell, "prompt") /\ typed < MaxTyped
  /\ typed' = typed + 1
  /\ LET me == rproc[Shell]
     IN  Fork1(Shell, [me EXCEPT !.pc = "runcmd", !.cmd = cmd], [me EXCEPT !.pc = "wait"])
  /\ UNCHANGED rpipe

EndOfInput == At(Shell, "prompt") /\ ExitOnly(Shell)

\* wait(): a zombie child is reaped; without children it returns at once.
Waited(p, rec) ==
  \/ \E q \in Children(p) : At(q, "zombie") /\ rproc' = Set(Set(rproc, p, rec), q, Unused)
  \/ Children(p) = {} /\ rproc' = Set(rproc, p, rec)

Wait(p, where, rec) == At(p, where) /\ Waited(p, rec) /\ UNCHANGED <<rpipe, typed, short>>

MainWait == Wait(Shell, "wait", [rproc[Shell] EXCEPT !.pc = "prompt"])

Runs(p, type) == At(p, "runcmd") /\ rproc[p].cmd.type = type

\* case EXEC: no argument exits; exec() becomes the program or fails.
RunExec(p) ==
  /\ Runs(p, "EXEC")
  /\ \/ ExitOnly(p)
     \/ rproc[p].cmd.argv # <<>> /\ Step(p, [rproc[p] EXCEPT !.pc = "program", !.out = Output])

\* case REDIR: open() takes the lowest free descriptor, meant to be the one
\* just closed; or it fails and the process exits.
RunRedir(p) ==
  /\ Runs(p, "REDIR")
  /\ LET me == rproc[p]
         closed == [me.ofile EXCEPT ![me.cmd.fd] = Closed]
     IN  \/ ExitOnly(p)
         \/ Step(p, [me EXCEPT !.ofile = [closed EXCEPT ![FreeFd(closed)] = File],
                               !.cmd = me.cmd.cmd])

\* case LIST: fork the left one, wait, then run the right one.
RunList(p) ==
  /\ Runs(p, "LIST")
  /\ LET me == rproc[p]
     IN  Fork1(p, [me EXCEPT !.cmd = me.cmd.left], [me EXCEPT !.pc = "list"])
  /\ UNCHANGED <<rpipe, typed>>

ListWait(p) == Wait(p, "list", [rproc[p] EXCEPT !.pc = "runcmd", !.cmd = rproc[p].cmd.right])

\* case BACK: fork, and exit without waiting.
RunBack(p) ==
  /\ Runs(p, "BACK")
  /\ LET me == rproc[p]
     IN  Fork1(p, [me EXCEPT !.cmd = me.cmd.cmd, !.bg = TRUE], [me EXCEPT !.pc = "exit"])
  /\ UNCHANGED <<rpipe, typed>>

RunExit(p) == At(p, "exit") /\ ExitOnly(p)

\* case PIPE: pipe(p), or panic.
FreePipes == {k \in 1 .. NPipes : Holders(rproc, REnd(k)) \cup Holders(rproc, WEnd(k)) = {}}

RunPipe(p) ==
  /\ Runs(p, "PIPE")
  /\ IF FreePipes = {} THEN Exit(p) /\ short' = TRUE /\ UNCHANGED rpipe
     ELSE LET k == Min(FreePipes)
              me == rproc[p]
              f0 == FreeFd(me.ofile)
              with0 == [me.ofile EXCEPT ![f0] = REnd(k)]
              f1 == FreeFd(with0)
          IN  /\ rproc' = Set(rproc, p, [me EXCEPT !.pc = "left", !.p0 = f0, !.p1 = f1,
                                                   !.ofile = [with0 EXCEPT ![f1] = WEnd(k)]])
              /\ rpipe' = [rpipe EXCEPT ![k] = 0] /\ UNCHANGED short
  /\ UNCHANGED typed

\* The parent forks both sides, closes its ends and waits twice.
PipeFork(p, side, next) ==
  /\ At(p, side)
  /\ LET me == rproc[p]
     IN  Fork1(p, [me EXCEPT !.pc = IF side = "left" THEN "joinleft" ELSE "joinright"],
               [me EXCEPT !.pc = next])
  /\ UNCHANGED <<rpipe, typed>>

\* close(p[0]); close(p[1])
CloseEnds(me, ofile) == [ofile EXCEPT ![me.p0] = Closed, ![me.p1] = Closed]

\* Mutant of PipeClose: the parent keeps the writing end.
MPipeClose(p) ==
  /\ At(p, "closes")
  /\ LET me == rproc[p] IN Step(p, [me EXCEPT !.ofile[me.p0] = Closed, !.pc = "wait1"])

PipeClose(p) ==
  /\ At(p, "closes")
  /\ LET me == rproc[p] IN Step(p, [me EXCEPT !.ofile = CloseEnds(me, @), !.pc = "wait1"])

\* Mutant of PipeWait: it waits once.
MPipeWait(p) == Wait(p, "wait1", [rproc[p] EXCEPT !.pc = "exit"])

PipeWait(p) ==
  \/ Wait(p, "wait1", [rproc[p] EXCEPT !.pc = "wait2"])
  \/ Wait(p, "wait2", [rproc[p] EXCEPT !.pc = "exit"])

\* A child puts its end where the program will look for it and closes both
\* descriptors of the pipe.
Join(p, fd, end, sub) ==
  LET me == rproc[p]
      moved == Dup([me.ofile EXCEPT ![fd] = Closed], end)
  IN  Step(p, [me EXCEPT !.ofile = CloseEnds(me, moved), !.pc = "runcmd", !.cmd = sub])

JoinLeft(p) == At(p, "joinleft") /\ Join(p, 1, rproc[p].p1, rproc[p].cmd.left)
JoinRight(p) == At(p, "joinright") /\ Join(p, 0, rproc[p].p0, rproc[p].cmd.right)

-----------------------------------------------------------------------------
(* The programs, and init. *)

In(p) == rproc[p].ofile[0]
Out(p) == rproc[p].ofile[1]

\* Writing to a pipe that nobody can read fails, and the program gives up.
ProgWrite(p) ==
  /\ At(p, "program") /\ rproc[p].out > 0
  /\ \/ /\ Out(p)[1] # "write" /\ Step(p, [rproc[p] EXCEPT !.out = @ - 1])
     \/ /\ Out(p)[1] = "write" /\ Holders(rproc, REnd(Out(p)[2])) = {} /\ ExitOnly(p)
     \/ /\ Out(p)[1] = "write" /\ Holders(rproc, REnd(Out(p)[2])) # {}
        /\ rpipe[Out(p)[2]] < PipeRoom
        /\ rpipe' = [rpipe EXCEPT ![Out(p)[2]] = @ + 1]
        /\ rproc' = [rproc EXCEPT ![p].out = @ - 1]
        /\ UNCHANGED <<typed, short>>

\* Reading a pipe: a byte if there is one, the end if nobody can write.
ProgRead(p) ==
  /\ At(p, "program") /\ In(p)[1] = "read" /\ rpipe[In(p)[2]] > 0
  /\ rpipe' = [rpipe EXCEPT ![In(p)[2]] = @ - 1]
  /\ UNCHANGED <<rproc, typed, short>>

ProgEnd(p) ==
  /\ At(p, "program") /\ rproc[p].out = 0
  /\ In(p)[1] = "read" => rpipe[In(p)[2]] = 0 /\ Holders(rproc, WEnd(In(p)[2])) = {}
  /\ ExitOnly(p)

InitReaps(p) ==
  /\ At(p, "zombie") /\ rproc[p].parent = InitPid /\ p # Shell
  /\ Step(p, Unused)

Init ==
  /\ rproc = [p \in Slots |->
               IF p # Shell THEN Unused
               ELSE [Unused EXCEPT !.pc = "prompt",
                                   !.ofile = [fd \in Fds |-> IF fd < 3 THEN Con ELSE Closed]]]
  /\ rpipe = [k \in 1 .. NPipes |-> 0] /\ typed = 0 /\ short = FALSE

Goes(p) ==
  \/ RunExec(p) \/ RunRedir(p) \/ RunList(p) \/ ListWait(p) \/ RunBack(p) \/ RunExit(p)
  \/ RunPipe(p) \/ PipeFork(p, "left", "right") \/ PipeFork(p, "right", "closes")
  \/ PipeClose(p) \/ PipeWait(p) \/ JoinLeft(p) \/ JoinRight(p)
  \/ ProgWrite(p) \/ ProgRead(p) \/ ProgEnd(p) \/ InitReaps(p)

Next ==
  \/ \E cmd \in Typed : Main(cmd)
  \/ EndOfInput \/ MainWait
  \/ \E p \in Slots : Goes(p)

\* Every process that can run does so in the end; nobody need type.
Fairness == WF_rvars(MainWait) /\ \A p \in Slots : WF_rvars(Goes(p))

-----------------------------------------------------------------------------
\* Every command gives the prompt back: no program waits for the end of a
\* pipe that some process of the shell still holds open, and no wait() in
\* runcmd() waits for a child that will not come.
PromptReturns == At(Shell, "wait") ~> At(Shell, "prompt")

\* A program starts with descriptors 0 to 2 open and no other, and of a pipe
\* it has only the end it reads as 0 or writes as 1.
CleanDescriptors ==
  \A p \in Slots : At(p, "program") =>
    /\ \A fd \in Fds : (rproc[p].ofile[fd] = Closed) <=> (fd > 2)
    /\ In(p)[1] # "write" /\ Out(p)[1] # "read" /\ rproc[p].ofile[2] = Con

\* When the prompt is back every process of the command has ended, except
\* those a BACK command started and unless the kernel ran out of processes
\* or pipes: each wait() reaps the child it was meant for.  Its programs ran
\* with clean descriptors.
ForegroundDone ==
  /\ At(Shell, "prompt") /\ ~short =>
       \A p \in Slots \ {Shell} : rproc[p].pc = "unused" \/ rproc[p].bg
  /\ CleanDescriptors
=============================================================================
