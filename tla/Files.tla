------------------------------- MODULE Files -------------------------------
(***************************************************************************)
(* Open files and pipes: file.c, pipe.c, the descriptor calls of sysfile.c *)
(* and what fork and exit do to descriptors (proc.c).                      *)
(*                                                                         *)
(* A step is a critical section of file_table_lock or of a pipe's lock,    *)
(* with the process' own work around it.  Processes make any calls.  A     *)
(* byte in a pipe is named by its place in the stream, modulo the indices' *)
(* range Wrap.  sleep and wakeup are those of Sched.                       *)
(***************************************************************************)
EXTENDS Integers, FiniteSets

CONSTANTS NPROC, NFILE, NOFILE,
          NPIPE,          \* pages that kalloc has for pipes
          PIPESIZE,
          Wrap,           \* the range of uint
          Writes, Reads,  \* sizes of the programs' writes and reads
          Killable        \* processes that kill() hits

ASSUME FilesAssumption ==
  /\ {NPROC, NFILE, NOFILE, NPIPE, PIPESIZE} \subseteq Nat \ {0}
  /\ Wrap \in Nat /\ \E k \in 2..Wrap : Wrap = k * PIPESIZE
  /\ Writes \cup Reads \subseteq 0..(Wrap - 1)

VARIABLES ofile,   \* ofile[p][fd], 0 if closed
          file,    \* struct file file[NFILE]
          pipe,    \* the pages of pipes
          pc, cur, \* where each process is, and the call's arguments there
          killed,
          fault,   \* the panic or corruption that stopped the machine, or "none"
          missed   \* history: the pipes that a killed writer left without the wakeup
                   \* of its readers, and whose readers nobody has woken since

vars == <<ofile, file, pipe, pc, cur, killed, fault, missed>>

Procs == 1..NPROC
FileIds == 1..NFILE
Fds == 0..(NOFILE - 1)
Pipes == 1..NPIPE

Closed == [type |-> "CLOSED", ref |-> 0, readable |-> 0, writable |-> 0, pipe |-> 0]
\* A page that is not a pipe: kfree fills it with ones
Junk == [used |-> FALSE, readopen |-> 1, writeopen |-> 1, writep |-> 0, readp |-> 0,
         data |-> [i \in 0..(PIPESIZE - 1) |-> 0]]
\* A process' call: pipe or file k, n bytes to go, and what comes after it
NoCall == [k |-> 0, n |-> 0, w |-> 0, then |-> "user"]

Init ==
  /\ ofile = [p \in Procs |-> [fd \in Fds |-> 0]]
  /\ file = [f \in FileIds |-> Closed]
  /\ pipe = [k \in Pipes |-> Junk]
  /\ pc = [p \in Procs |-> IF p = 1 THEN "user" ELSE "unused"]
  /\ cur = [p \in Procs |-> NoCall]
  /\ killed = [p \in Procs |-> FALSE]
  /\ fault = "none"
  /\ missed = {}

At(p, l) == fault = "none" /\ pc[p] = l
Goto(p, l) == pc' = [pc EXCEPT ![p] = l]
Panic(why) == fault' = why /\ UNCHANGED <<ofile, file, pipe, pc, cur, killed, missed>>
Calls(p) == At(p, "user") /\ ~killed[p]
IsLeast(s, S) == s \in S /\ \A t \in S : s <= t

\* fdalloc's and filealloc's first free entry; 0 entries left is failure
FreeFds(p) == {fd \in Fds : ofile[p][fd] = 0}
FreeFiles == {f \in FileIds : file[f].type = "CLOSED"}
NewFile == [Closed EXCEPT !.type = "NONE", !.ref = 1]

-----------------------------------------------------------------------------
(* sysfile.c *)

\* sys_open of an inode that namei or create has found: filealloc, fdalloc.
\* When descriptors have run out, fileclose panics over the FD_NONE file.
Open(p) ==
  /\ Calls(p)
  /\ \E f \in FileIds :
       /\ IsLeast(f, FreeFiles)
       /\ IF FreeFds(p) = {} THEN Panic("fileclose")
          ELSE /\ \E fd \in Fds : /\ IsLeast(fd, FreeFds(p))
                                  /\ ofile' = [ofile EXCEPT ![p][fd] = f]
               /\ file' = [file EXCEPT ![f] = [NewFile EXCEPT !.type = "INODE", !.readable = 1]]
               /\ UNCHANGED <<pipe, pc, cur, killed, fault, missed>>

\* Mutant of Dup: fdalloc without filedup.
MDup(p) ==
  /\ Calls(p)
  /\ \E fd \in Fds, new \in Fds :
       /\ ofile[p][fd] # 0 /\ IsLeast(new, FreeFds(p))
       /\ ofile' = [ofile EXCEPT ![p][new] = ofile[p][fd]]
  /\ UNCHANGED <<file, pipe, pc, cur, killed, fault, missed>>

\* sys_dup: fdalloc, then filedup
Dup(p) ==
  /\ Calls(p)
  /\ \E fd \in Fds, new \in Fds :
       LET f == ofile[p][fd] IN
         /\ f # 0 /\ IsLeast(new, FreeFds(p))
         /\ IF file[f].ref < 1 \/ file[f].type = "CLOSED" THEN Panic("filedup")
            ELSE /\ ofile' = [ofile EXCEPT ![p][new] = f]
                 /\ file' = [file EXCEPT ![f].ref = @ + 1]
                 /\ UNCHANGED <<pipe, pc, cur, killed, fault, missed>>

\* The end of its pipe that a file is, as fileclose passes it to pipeclose.
\* Mutant of EndOf: the other one.
MEndOf(f) == file[f].readable
EndOf(f) == file[f].writable

\* fileclose(f) by p, which goes on at `then`; pipeclose comes first when it
\* was the last reference to an end of a pipe.
FileClose(p, f, then) ==
  IF file[f].ref < 1 \/ file[f].type = "CLOSED" THEN Panic("fileclose")
  ELSE IF file[f].ref > 1
    THEN /\ file' = [file EXCEPT ![f].ref = @ - 1]
         /\ Goto(p, then)
         /\ UNCHANGED <<pipe, cur, killed, fault, missed>>
  ELSE IF file[f].type = "NONE" THEN Panic("fileclose")
  ELSE /\ file' = [file EXCEPT ![f] = Closed]
       /\ IF file[f].type = "PIPE"
            THEN /\ Goto(p, "pipeclose")
                 /\ cur' = [cur EXCEPT ![p] = [k |-> file[f].pipe, n |-> @.n,
                              w |-> EndOf(f), then |-> then]]
            ELSE Goto(p, then) /\ UNCHANGED cur
       /\ UNCHANGED <<pipe, killed, fault, missed>>

\* sys_close
Close(p) ==
  /\ Calls(p)
  /\ \E fd \in Fds :
       /\ ofile[p][fd] # 0
       /\ ofile' = [ofile EXCEPT ![p][fd] = 0]
       /\ FileClose(p, ofile[p][fd], "user")

\* exit: the loop over the descriptors; a process that was killed exits on its
\* way back to user mode
Exit(p) ==
  /\ At(p, "user") /\ p # 1
  /\ Goto(p, "exit")
  /\ UNCHANGED <<ofile, file, pipe, cur, killed, fault, missed>>

ExitClose(p) ==
  /\ At(p, "exit")
  /\ IF \A fd \in Fds : ofile[p][fd] = 0
       THEN /\ Goto(p, "unused")
            /\ killed' = [killed EXCEPT ![p] = FALSE]
            /\ UNCHANGED <<ofile, file, pipe, cur, fault, missed>>
       ELSE \E fd \in Fds :
              /\ IsLeast(fd, Fds \ FreeFds(p))
              /\ ofile' = [ofile EXCEPT ![p][fd] = 0]
              /\ FileClose(p, ofile[p][fd], "exit")

\* Mutant of Fork: the child's descriptors are copied without filedup.
MFork(p) ==
  /\ Calls(p)
  /\ \E c \in Procs :
       /\ IsLeast(c, {r \in Procs : pc[r] = "unused"})
       /\ ofile' = [ofile EXCEPT ![c] = ofile[p]]
       /\ Goto(c, "user")
  /\ UNCHANGED <<file, pipe, cur, killed, fault, missed>>

\* copyproc: the child gets the parent's descriptors.  Each filedup is a
\* critical section; the parent's own reference keeps the file open meanwhile.
Fork(p) ==
  /\ Calls(p)
  /\ \E c \in Procs :
       /\ IsLeast(c, {r \in Procs : pc[r] = "unused"})
       /\ ofile' = [ofile EXCEPT ![c] = ofile[p]]
       /\ file' = [f \in FileIds |-> [file[f] EXCEPT
                     !.ref = @ + Cardinality({fd \in Fds : ofile[p][fd] = f})]]
       /\ Goto(c, "user")
  /\ UNCHANGED <<pipe, cur, killed, fault, missed>>

\* kill() of a process that is not asleep (one that sleeps panics, see Sched)
Kill(p) ==
  /\ fault = "none" /\ p \in Killable
  /\ pc[p] \notin {"unused", "readsleep", "writesleep"} /\ ~killed[p]
  /\ killed' = [killed EXCEPT ![p] = TRUE]
  /\ UNCHANGED <<ofile, file, pipe, pc, cur, fault, missed>>

-----------------------------------------------------------------------------
(* pipe.c *)

\* sys_pipe, pipealloc: the first filealloc
PipeCall(p) ==
  /\ Calls(p)
  /\ \E f \in FileIds :
       /\ IsLeast(f, FreeFiles)
       /\ file' = [file EXCEPT ![f] = NewFile]
       /\ cur' = [cur EXCEPT ![p] = [NoCall EXCEPT !.k = f]]
       /\ Goto(p, "pipealloc1")
  /\ UNCHANGED <<ofile, pipe, killed, fault, missed>>

\* the second filealloc; failing, pipealloc closes an FD_NONE file
PipeAlloc1(p) ==
  /\ At(p, "pipealloc1")
  /\ IF FreeFiles = {} THEN Panic("fileclose")
     ELSE \E f \in FileIds :
            /\ IsLeast(f, FreeFiles)
            /\ file' = [file EXCEPT ![f] = NewFile]
            /\ cur' = [cur EXCEPT ![p].n = f]
            /\ Goto(p, "pipealloc2")
            /\ UNCHANGED <<ofile, pipe, killed, fault, missed>>

\* kalloc, then sys_pipe's two fdallocs; without descriptors both ends close
PipeAlloc2(p) ==
  /\ At(p, "pipealloc2")
  /\ LET rf == cur[p].k
         wf == cur[p].n
     IN IF \A k \in Pipes : pipe[k].used THEN Panic("fileclose")
        ELSE \E k \in Pipes :
          /\ IsLeast(k, {j \in Pipes : ~pipe[j].used})
          /\ pipe' = [pipe EXCEPT ![k] = [Junk EXCEPT !.used = TRUE]]
          /\ file' = [file EXCEPT
               ![rf] = [@ EXCEPT !.type = "PIPE", !.readable = 1, !.pipe = k],
               ![wf] = [@ EXCEPT !.type = "PIPE", !.writable = 1, !.pipe = k]]
          /\ IF Cardinality(FreeFds(p)) >= 2
               THEN /\ \E a, b \in Fds :
                         /\ IsLeast(a, FreeFds(p)) /\ IsLeast(b, FreeFds(p) \ {a})
                         /\ ofile' = [ofile EXCEPT ![p][a] = rf, ![p][b] = wf]
                    /\ Goto(p, "user") /\ cur' = [cur EXCEPT ![p] = NoCall]
               ELSE Goto(p, "undo1") /\ UNCHANGED <<ofile, cur>>
          /\ UNCHANGED <<killed, fault, missed>>

Undo1(p) == At(p, "undo1") /\ FileClose(p, cur[p].k, "undo2") /\ UNCHANGED ofile
Undo2(p) == At(p, "undo2") /\ FileClose(p, cur[p].n, "user") /\ UNCHANGED ofile

\* wakeup(&pipe[k].readp) or writep: the sleepers of that loop test again
Wake(pcs, from, to, k) ==
  [r \in Procs |-> IF pcs[r] = from /\ cur[r].k = k THEN to ELSE pcs[r]]
WakeReaders(pcs, k) == Wake(pcs, "readsleep", "piperead", k)
WakeWriters(pcs, k) == Wake(pcs, "writesleep", "pipewrite", k)

\* pipeclose, under the lock
PipeClose(p) ==
  /\ At(p, "pipeclose")
  /\ LET k == cur[p].k
         at == [pc EXCEPT ![p] = "closetest"]
     IN IF cur[p].w = 1
          THEN /\ pipe' = [pipe EXCEPT ![k].writeopen = 0] /\ pc' = WakeReaders(at, k)
               /\ missed' = missed \ {k}
          ELSE /\ pipe' = [pipe EXCEPT ![k].readopen = 0] /\ pc' = WakeWriters(at, k)
               /\ UNCHANGED missed
  /\ UNCHANGED <<ofile, file, cur, killed, fault>>

Return(p) == /\ Goto(p, cur[p].then)
             /\ cur' = [cur EXCEPT ![p] = [NoCall EXCEPT !.n = cur[p].n]]

\* pipeclose, after the unlock: does the page go?  When two processes have
\* both found that it does, it will be freed twice, and the model stops.
CloseTest(p) ==
  /\ At(p, "closetest")
  /\ LET q == pipe[cur[p].k] IN
       IF q.readopen # 0 \/ q.writeopen # 0
         THEN Return(p) /\ UNCHANGED <<ofile, file, pipe, killed, fault, missed>>
       ELSE IF \E r \in Procs : pc[r] = "closefree" /\ cur[r].k = cur[p].k
         THEN Panic("kfree: freeing free page")
       ELSE Goto(p, "closefree") /\ UNCHANGED <<ofile, file, pipe, cur, killed, fault, missed>>

\* kfree
CloseFree(p) ==
  /\ At(p, "closefree")
  /\ pipe' = [pipe EXCEPT ![cur[p].k] = Junk]
  /\ Return(p)
  /\ UNCHANGED <<ofile, file, killed, fault, missed>>

Count(q) == (q.writep - q.readp) % Wrap

\* sys_read, sys_write: argfd, then fileread or filewrite of a pipe's end
Read(p) ==
  /\ Calls(p)
  /\ \E fd \in Fds, n \in Reads :
       /\ ofile[p][fd] # 0
       /\ LET f == file[ofile[p][fd]] IN
            /\ f.type = "PIPE" /\ f.readable = 1
            /\ cur' = [cur EXCEPT ![p] = [NoCall EXCEPT !.k = f.pipe, !.n = n]]
  /\ Goto(p, "piperead")
  /\ UNCHANGED <<ofile, file, pipe, killed, fault, missed>>

Write(p) ==
  /\ Calls(p)
  /\ \E fd \in Fds, n \in Writes :
       /\ ofile[p][fd] # 0
       /\ LET f == file[ofile[p][fd]] IN
            /\ f.type = "PIPE" /\ f.writable = 1
            /\ cur' = [cur EXCEPT ![p] = [NoCall EXCEPT !.k = f.pipe, !.n = n]]
  /\ Goto(p, "pipewrite")
  /\ UNCHANGED <<ofile, file, pipe, killed, fault, missed>>

Done(p, pcs) == /\ pc' = [pcs EXCEPT ![p] = "user"]
                /\ cur' = [cur EXCEPT ![p] = NoCall]

\* How often pipewrite's loop runs before writep == readp + PIPESIZE.
\* Mutant of Room: the test lets one byte too many in.
MRoom(q) == PIPESIZE + 1 - Count(q)
Room(q) == PIPESIZE - Count(q)

\* m bytes into the ring
Put(q, m) ==
  [q EXCEPT !.writep = (@ + m) % Wrap,
            !.data = [i \in DOMAIN @ |->
              LET js == {j \in 0..(m - 1) : (q.writep + j) % PIPESIZE = i}
              IN IF js = {} THEN @[i]
                 ELSE (q.writep + (CHOOSE j \in js : \A h \in js : h <= j)) % Wrap]]

\* Mutant of PipeWrite: the wakeup after the loop is missing.
MPipeWrite(p) ==
  /\ At(p, "pipewrite")
  /\ LET k == cur[p].k
         n == cur[p].n
         m == IF n < Room(pipe[k]) THEN n ELSE Room(pipe[k])
     IN /\ pipe' = [pipe EXCEPT ![k] = Put(@, m)]
        /\ CASE m = n -> Done(p, pc) /\ missed' = missed \ {k}
             [] m < n /\ (pipe[k].readopen = 0 \/ killed[p]) ->
                  /\ Done(p, pc)
                  /\ missed' = IF killed[p] THEN missed \cup {k} ELSE missed
             [] OTHER -> /\ pc' = WakeReaders([pc EXCEPT ![p] = "writesleep"], k)
                         /\ cur' = [cur EXCEPT ![p].n = n - m]
                         /\ missed' = missed \ {k}
  /\ UNCHANGED <<ofile, file, killed, fault>>

\* pipewrite: from the acquire or the return of sleep to the next sleep or the end
PipeWrite(p) ==
  /\ At(p, "pipewrite")
  /\ LET k == cur[p].k
         n == cur[p].n
         m == IF n < Room(pipe[k]) THEN n ELSE Room(pipe[k])
     IN /\ pipe' = [pipe EXCEPT ![k] = Put(@, m)]
        /\ CASE m = n -> Done(p, WakeReaders(pc, k)) /\ missed' = missed \ {k}
             [] m < n /\ (pipe[k].readopen = 0 \/ killed[p]) ->
                  /\ Done(p, pc)
                  /\ missed' = IF killed[p] THEN missed \cup {k} ELSE missed
             [] OTHER -> /\ pc' = WakeReaders([pc EXCEPT ![p] = "writesleep"], k)
                         /\ cur' = [cur EXCEPT ![p].n = n - m]
                         /\ missed' = missed \ {k}
  /\ UNCHANGED <<ofile, file, killed, fault>>

\* piperead
PipeRead(p) ==
  /\ At(p, "piperead")
  /\ LET k == cur[p].k
         q == pipe[k]
         m == IF cur[p].n < Count(q) THEN cur[p].n ELSE Count(q)
     IN IF q.readp = q.writep /\ q.writeopen # 0
          THEN /\ IF killed[p] THEN Done(p, pc)
                  ELSE Goto(p, "readsleep") /\ UNCHANGED cur
               /\ UNCHANGED pipe
          ELSE /\ pipe' = [pipe EXCEPT ![k].readp = (@ + m) % Wrap]
               /\ Done(p, WakeWriters(pc, k))
  /\ UNCHANGED <<ofile, file, killed, fault, missed>>

Stopped == fault # "none" /\ UNCHANGED vars

-----------------------------------------------------------------------------
Program(p) == \/ Open(p) \/ Dup(p) \/ Close(p) \/ Fork(p) \/ PipeCall(p)
              \/ Read(p) \/ Write(p) \/ Exit(p)
Kernel(p) == \/ ExitClose(p) \/ PipeAlloc1(p) \/ PipeAlloc2(p) \/ Undo1(p) \/ Undo2(p)
             \/ PipeClose(p) \/ CloseTest(p) \/ CloseFree(p) \/ PipeWrite(p) \/ PipeRead(p)

Next == (\E p \in Procs : Program(p) \/ Kernel(p) \/ Kill(p)) \/ Stopped

Spec == Init /\ [][Next]_vars

-----------------------------------------------------------------------------
(* Properties *)

CallType == [k : 0..(NFILE + NPIPE), n : 0..(NFILE + PIPESIZE + Wrap), w : {0, 1},
             then : {"user", "exit", "undo2"}]

\* Type invariant of the tables, pipes and processes.
TypeOK ==
  /\ ofile \in [Procs -> [Fds -> 0..NFILE]]
  /\ file \in [FileIds -> [type : {"CLOSED", "NONE", "PIPE", "INODE"}, ref : 0..(NPROC * NOFILE),
                           readable : {0, 1}, writable : {0, 1}, pipe : 0..NPIPE]]
  /\ pipe \in [Pipes -> [used : BOOLEAN, readopen : {0, 1}, writeopen : {0, 1},
                         writep : 0..(Wrap - 1), readp : 0..(Wrap - 1),
                         data : [0..(PIPESIZE - 1) -> 0..(Wrap - 1)]]]
  /\ pc \in [Procs -> {"unused", "user", "exit", "pipealloc1", "pipealloc2", "undo1", "undo2",
                       "pipeclose", "closetest", "closefree", "piperead", "pipewrite",
                       "readsleep", "writesleep"}]
  /\ cur \in [Procs -> CallType]
  /\ killed \in [Procs -> BOOLEAN]

Running == fault = "none"
Descriptors(f) == {d \in Procs \X Fds : ofile[d[1]][d[2]] = f}
\* sys_pipe's references before they are in descriptors
Pending(p, l) == \/ pc[p] = l
                 \/ pc[p] \in {"pipeclose", "closetest", "closefree"} /\ cur[p].then = l
InHand(f) == {p \in Procs :
                \/ pc[p] \in {"pipealloc1", "pipealloc2", "undo1"} /\ cur[p].k = f
                \/ pc[p] \in {"pipealloc2", "undo1"} /\ cur[p].n = f
                \/ Pending(p, "undo2") /\ cur[p].n = f}

\* A file's reference count is the number of descriptors that name it, over
\* all processes, and of references that a call still holds; the entry is
\* free when there are none (filealloc, filedup, fileclose, copyproc, exit).
RefExact ==
  /\ TypeOK
  /\ Running => \A f \in FileIds :
       /\ file[f].ref = Cardinality(Descriptors(f)) + Cardinality(InHand(f))
       /\ (file[f].ref = 0) = (file[f].type = "CLOSED")

\* The files that are an end of pipe k
Ends(k, w) == {f \in FileIds : /\ file[f].type = "PIPE" /\ file[f].pipe = k
                               /\ file[f].writable = w}
Closing(k, w) == {p \in Procs : pc[p] = "pipeclose" /\ cur[p].k = k /\ cur[p].w = w}

\* readopen and writeopen say which end of a pipe still has an open file, or
\* one whose last close has yet to take the lock: end of file is final, and
\* comes when the last writer is gone.  Nobody reads, writes or closes an end
\* of a pipe whose page was freed, and no open file names such a page.
EndsOpen ==
  Running =>
    /\ \A k \in Pipes : pipe[k].used =>
         /\ (pipe[k].readopen = 1) = (Ends(k, 0) \cup Closing(k, 0) # {})
         /\ (pipe[k].writeopen = 1) = (Ends(k, 1) \cup Closing(k, 1) # {})
    /\ \A p \in Procs : pc[p] \in {"pipeclose", "piperead", "pipewrite", "readsleep", "writesleep"}
                          => pipe[cur[p].k].used
    /\ \A f \in FileIds : file[f].type = "PIPE" => pipe[file[f].pipe].used

\* The bytes between readp and writep are the ones written last, in order, and
\* never more than PIPESIZE, also where the indices wrap (pipewrite, piperead).
InOrder ==
  \A k \in Pipes : pipe[k].used =>
    /\ Count(pipe[k]) <= PIPESIZE
    /\ \A j \in 0..(Count(pipe[k]) - 1) :
         LET at == (pipe[k].readp + j) % Wrap IN pipe[k].data[at % PIPESIZE] = at

\* A sleeping writer's pipe is full and someone can still read; a sleeping
\* reader's pipe is empty and someone can still write.  Whoever changes this
\* has woken the sleepers, the last close of the other end included; but a
\* writer that finds out it was killed returns from pipewrite without the
\* wakeup (pipe.c:86), and the readers of that pipe may then sleep over bytes
\* until the next write of another process, or the last close, wakes them.
NoLostSleeper ==
  Running => \A p \in Procs :
    LET q == pipe[cur[p].k] IN
      /\ pc[p] = "readsleep" => q.writeopen = 1 /\ (Count(q) = 0 \/ cur[p].k \in missed)
      /\ pc[p] = "writesleep" => Count(q) = PIPESIZE /\ q.readopen = 1

\* The machine stops only where a table was full for the process that asked,
\* open's descriptors, pipealloc's second file or its page (fileclose panics
\* over a file that its owner gives back before it has a type: sys_open,
\* pipealloc), or where the two ends of a pipe close at once (pipeclose tests
\* them after its unlock).
OnlyExhaustion ==
  /\ fault \in {"none", "fileclose", "kfree: freeing free page"}
  /\ fault = "fileclose" =>
       \E p \in Procs : \/ pc[p] = "user" /\ FreeFds(p) = {}
                        \/ pc[p] = "pipealloc1" /\ FreeFiles = {}
                        \/ pc[p] = "pipealloc2" /\ \A k \in Pipes : pipe[k].used
=============================================================================
