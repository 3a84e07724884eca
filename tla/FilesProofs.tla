---------------------------- MODULE FilesProofs ----------------------------
(***************************************************************************)
(* Proofs about Files, second part: the ends of pipes, who is in pipe.c    *)
(* and which pages are freed (PipesOK); who sleeps in a pipe (SleepersOK); *)
(* and the theorems: counts, ends, bytes, sleepers and panics, for tables  *)
(* of any size.                                                            *)
(***************************************************************************)
EXTENDS FilesTables

\* Process p has a descriptor of an end of pipe k.
HasEnd(p, k, w) == \E fd \in Fds : ofile[p][fd] \in Ends(k, w)

\* A file without a type has no rights yet; an end of a pipe has one of the two.
EndOK(f) ==
  /\ file[f].type = "NONE" => file[f].readable = 0 /\ file[f].writable = 0
  /\ file[f].type = "PIPE" => /\ pipe[file[f].pipe].used
                              /\ file[f].readable = 1 - file[f].writable

\* Process p is in pipe.c by an end that it has; the page it frees is shut at
\* both ends, and nobody else frees it.
CallOK(p) ==
  /\ pc[p] = "pipeclose" => pipe[cur[p].k].used
  /\ pc[p] \in {"piperead", "readsleep"} => HasEnd(p, cur[p].k, 0)
  /\ pc[p] \in {"pipewrite", "writesleep"} => HasEnd(p, cur[p].k, 1)
  /\ pc[p] = "closefree" =>
       /\ pipe[cur[p].k].used /\ pipe[cur[p].k].readopen = 0 /\ pipe[cur[p].k].writeopen = 0
       /\ \A r \in Procs : pc[r] = "closefree" /\ cur[r].k = cur[p].k => r = p

\* An end of pipe k is one file, or one process that closes it.
PageOK(k) ==
  /\ ~pipe[k].used => pipe[k].readopen = 1
  /\ \A w \in {0, 1} : /\ \A f, g \in Ends(k, w) : f = g
                       /\ \A p, r \in Closing(k, w) : p = r
                       /\ Ends(k, w) = {} \/ Closing(k, w) = {}
  /\ pipe[k].used => /\ pipe[k].readopen = 1 <=> Ends(k, 0) \cup Closing(k, 0) # {}
                     /\ pipe[k].writeopen = 1 <=> Ends(k, 1) \cup Closing(k, 1) # {}

PipesOK == /\ \A f \in FileIds : EndOK(f)
           /\ \A p \in Procs : CallOK(p)
           /\ \A k \in Pipes : PageOK(k)

-----------------------------------------------------------------------------
(* The ends of pipes *)

\* File f is the end of a pipe after a step iff it was before.
SameEnd(f) == /\ file'[f].type = "PIPE" <=> file[f].type = "PIPE"
              /\ file[f].type = "PIPE" => /\ file'[f].pipe = file[f].pipe
                                          /\ file'[f].readable = file[f].readable
                                          /\ file'[f].writable = file[f].writable

\* Process r stays in pipe.c with its descriptors, or is not there afterwards
\* unless by an end that it has.
Moves(r) ==
  \/ Woken(r) /\ \A fd \in Fds : ofile[r][fd] # 0 => ofile'[r][fd] = ofile[r][fd]
  \/ /\ pc[r] # "pipeclose" /\ pc'[r] \notin {"pipeclose", "closefree"}
     /\ pc'[r] \in {"piperead", "readsleep"} => HasEnd(r, cur[r].k, 0)'
     /\ pc'[r] \in {"pipewrite", "writesleep"} => HasEnd(r, cur[r].k, 1)'

\* A page whose flags, files and closers a step leaves alone.
LEMMA PageSame ==
  ASSUME NEW k, PageOK(k), SameFlags(k),
         \A w \in {0, 1} : Ends(k, w)' = Ends(k, w) /\ Closing(k, w)' = Closing(k, w)
  PROVE  PageOK(k)'
<1>1. 0 \in {0, 1} /\ 1 \in {0, 1}
  BY Zenon
<1>2. /\ Ends(k, 0)' = Ends(k, 0) /\ Closing(k, 0)' = Closing(k, 0)
      /\ Ends(k, 1)' = Ends(k, 1) /\ Closing(k, 1)' = Closing(k, 1)
  BY <1>1, Zenon
<1>3. ~pipe'[k].used => pipe'[k].readopen = 1
  BY Zenon DEF PageOK, SameFlags
<1>4. pipe'[k].used => /\ pipe'[k].readopen = 1 <=> Ends(k, 0)' \cup Closing(k, 0)' # {}
                       /\ pipe'[k].writeopen = 1 <=> Ends(k, 1)' \cup Closing(k, 1)' # {}
  <2>1. pipe[k].used => /\ pipe[k].readopen = 1 <=> Ends(k, 0) \cup Closing(k, 0) # {}
                        /\ pipe[k].writeopen = 1 <=> Ends(k, 1) \cup Closing(k, 1) # {}
    BY Zenon DEF PageOK
  <2> QED BY <1>2, <2>1, Zenon DEF SameFlags
<1>5. \A w \in {0, 1} : /\ \A f, g \in Ends(k, w)' : f = g
                        /\ \A p, r \in Closing(k, w)' : p = r
                        /\ Ends(k, w)' = {} \/ Closing(k, w)' = {}
  BY ZenonT(30) DEF PageOK
<1> QED BY <1>3, <1>4, <1>5, Zenon DEF PageOK

\* A step that opens, shuts and frees no end.
LEMMA StepB ==
  ASSUME AInv, PipesOK, \A k \in Pipes : SameFlags(k), \A f \in FileIds : SameEnd(f),
         \A f \in FileIds : file'[f].type = "NONE" => file'[f].readable = 0 /\ file'[f].writable = 0,
         \A r \in Procs : Moves(r)
  PROVE  PipesOK'
<1>1. \A k \in Pipes, w \in {0, 1} : Ends(k, w)' = Ends(k, w)
  BY Zenon DEF Ends, SameEnd
<1>2. \A k \in Pipes, w \in {0, 1} : Closing(k, w)' = Closing(k, w)
  BY Zenon DEF Closing, Moves, Woken
<1>3. \A k \in Pipes : PageOK(k)'
  <2> SUFFICES ASSUME NEW k \in Pipes
               PROVE  PageOK(k)'
    BY Zenon
  <2>1. PageOK(k) /\ SameFlags(k)
    BY Zenon DEF PipesOK
  <2>2. \A w \in {0, 1} : Ends(k, w)' = Ends(k, w) /\ Closing(k, w)' = Closing(k, w)
    BY <1>1, <1>2, Zenon
  <2>3. 0 \in {0, 1} /\ 1 \in {0, 1}
    BY Zenon
  <2> QED BY <2>1, <2>2, <2>3, PageSame, Zenon
<1>4. \A f \in FileIds : EndOK(f)'
  <2> SUFFICES ASSUME NEW f \in FileIds
               PROVE  EndOK(f)'
    BY Zenon
  <2>1. EndOK(f) /\ SameEnd(f)
    BY Zenon DEF PipesOK
  <2>2. file[f].type = "PIPE" => file[f].pipe \in Pipes
    BY AParts, Zenon DEF RefsOK, RefOK
  <2>3. file[f].type = "PIPE" => (pipe'[file[f].pipe].used <=> pipe[file[f].pipe].used)
    BY <2>2, Zenon DEF SameFlags
  <2> QED BY <2>1, <2>3, Zenon DEF EndOK, SameEnd
<1>5. \A r \in Procs : CallOK(r)'
  <2> SUFFICES ASSUME NEW r \in Procs
               PROVE  CallOK(r)'
    BY Zenon
  <2>1. CASE Woken(r) /\ \A fd \in Fds : ofile[r][fd] # 0 => ofile'[r][fd] = ofile[r][fd]
    <3>1. CallOK(r) /\ cur'[r] = cur[r]
      BY <2>1, Zenon DEF PipesOK, Woken
    <3>2. pc[r] \in {"pipeclose", "piperead", "pipewrite", "readsleep", "writesleep", "closefree"}
            => cur[r].k \in Pipes
      BY Zenon DEF AInv, HandOK
    <3>3. \A w \in {0, 1} : cur[r].k \in Pipes /\ HasEnd(r, cur[r].k, w) => HasEnd(r, cur[r].k, w)'
      <4> SUFFICES ASSUME NEW w \in {0, 1}, cur[r].k \in Pipes, HasEnd(r, cur[r].k, w)
                   PROVE  HasEnd(r, cur[r].k, w)'
        BY Zenon
      <4>1. PICK fd \in Fds : ofile[r][fd] \in Ends(cur[r].k, w)
        BY Zenon DEF HasEnd
      <4>2. ofile[r][fd] # 0
        BY <4>1 DEF Ends, FileIds
      <4>3. Ends(cur[r].k, w)' = Ends(cur[r].k, w)
        BY <1>1, <3>1, Zenon DEF Ends, SameEnd
      <4>4. ofile'[r][fd] \in Ends(cur[r].k, w)'
        BY <2>1, <4>1, <4>2, <4>3, Zenon
      <4> QED BY <4>4, Zenon DEF HasEnd
    <3>4. \A s \in Procs : pc'[s] = "closefree" => pc[s] = "closefree" /\ cur'[s] = cur[s]
      BY Zenon DEF Moves, Woken
    <3>5. 0 \in {0, 1} /\ 1 \in {0, 1}
      BY Zenon
    <3>6. pc'[r] = "pipeclose" => pipe'[cur'[r].k].used
      <4>1. pc'[r] = "pipeclose" => pc[r] = "pipeclose"
        BY <2>1, Zenon DEF Woken
      <4> QED BY <3>1, <3>2, <4>1, Zenon DEF CallOK, SameFlags
    <3>7. pc'[r] \in {"piperead", "readsleep"} => HasEnd(r, cur[r].k, 0)'
      <4>1. pc'[r] \in {"piperead", "readsleep"} => pc[r] \in {"piperead", "readsleep"}
        BY <2>1, Zenon DEF Woken
      <4> QED BY <3>1, <3>2, <3>3, <3>5, <4>1, Zenon DEF CallOK
    <3>8. pc'[r] \in {"pipewrite", "writesleep"} => HasEnd(r, cur[r].k, 1)'
      <4>1. pc'[r] \in {"pipewrite", "writesleep"} => pc[r] \in {"pipewrite", "writesleep"}
        BY <2>1, Zenon DEF Woken
      <4> QED BY <3>1, <3>2, <3>3, <3>5, <4>1, Zenon DEF CallOK
    <3>9. pc'[r] = "closefree" =>
            /\ pipe'[cur'[r].k].used /\ pipe'[cur'[r].k].readopen = 0 /\ pipe'[cur'[r].k].writeopen = 0
            /\ \A s \in Procs : pc'[s] = "closefree" /\ cur'[s].k = cur'[r].k => s = r
      BY <3>1, <3>2, <3>4, Zenon DEF CallOK, SameFlags
    <3> QED BY <3>6, <3>7, <3>8, <3>9, Zenon DEF CallOK, HasEnd
  <2>2. CASE /\ pc'[r] \notin {"pipeclose", "closefree"}
             /\ pc'[r] \in {"piperead", "readsleep"} => HasEnd(r, cur[r].k, 0)'
             /\ pc'[r] \in {"pipewrite", "writesleep"} => HasEnd(r, cur[r].k, 1)'
    BY <2>2, Zenon DEF CallOK, HasEnd
  <2> QED BY <2>1, <2>2, Zenon DEF Moves
<1> QED BY <1>3, <1>4, <1>5, Zenon DEF PipesOK

\* A step of p that leaves descriptors, files and the pages' flags alone.
LEMMA QuietB ==
  ASSUME AInv, PipesOK, UNCHANGED <<ofile, file>>, \A k \in Pipes : SameFlags(k),
         NEW p \in Procs, \A r \in Procs \ {p} : Woken(r), Moves(p)
  PROVE  PipesOK'
<1>1. \A f \in FileIds : SameEnd(f)
  BY Zenon DEF SameEnd
<1>2. \A f \in FileIds : file'[f].type = "NONE" => file'[f].readable = 0 /\ file'[f].writable = 0
  BY Zenon DEF PipesOK, EndOK
<1>3. \A r \in Procs : Moves(r)
  BY Zenon DEF Moves
<1> QED BY <1>1, <1>2, <1>3, StepB, Zenon

\* exit, kill, and the last step of pipeclose
LEMMA ExitB ==
  ASSUME AInv, PipesOK, NEW p \in Procs, UNCHANGED <<ofile, file, pipe>>, pc[p] # "pipeclose",
         pc'[p] \in {"unused", "user", "exit", "undo2"}, \A r \in Procs \ {p} : Woken(r)
  PROVE  PipesOK'
<1>1. Moves(p)
  BY Zenon DEF Moves
<1>2. \A k \in Pipes : SameFlags(k)
  BY Zenon DEF SameFlags
<1> QED BY <1>1, <1>2, QuietB, Zenon

\* A panic changes nothing else.
LEMMA StillB ==
  ASSUME AInv, PipesOK, UNCHANGED <<ofile, file, pipe, pc, cur>>
  PROVE  PipesOK'
<1>1. \A k \in Pipes : SameFlags(k)
  BY Zenon DEF SameFlags
<1>2. \A r \in Procs : Moves(r) /\ Woken(r)
  <2>1. \A r \in Procs : Woken(r)
    BY Zenon DEF Woken
  <2> QED BY <2>1, Zenon DEF Moves
<1>3. 1 \in Procs
  BY Sizes DEF Procs
<1> QED BY <1>1, <1>2, <1>3, QuietB, Zenon

\* read and write enter pipe.c by a descriptor of the end they need.
LEMMA EnterB ==
  ASSUME AInv, PipesOK, NEW p \in Procs, Read(p) \/ Write(p)
  PROVE  PipesOK'
<1>1. PICK w \in {0, 1}, fd \in Fds, f \in 0..NFILE, n \in Reads \cup Writes :
        /\ pc[p] = "user" /\ f # 0 /\ ofile[p][fd] = f /\ file[f].type = "PIPE"
        /\ w = 0 => file[f].readable = 1
        /\ w = 1 => file[f].writable = 1
        /\ cur' = [cur EXCEPT ![p] = [NoCall EXCEPT !.k = file[f].pipe, !.n = n]]
        /\ pc' = [pc EXCEPT ![p] = IF w = 0 THEN "piperead" ELSE "pipewrite"]
        /\ UNCHANGED <<ofile, file, pipe, killed, fault>>
  <2>1. CASE Read(p)
    <3>1. PICK fd \in Fds, n \in Reads :
            /\ ofile[p][fd] # 0 /\ file[ofile[p][fd]].type = "PIPE" /\ file[ofile[p][fd]].readable = 1
            /\ cur' = [cur EXCEPT ![p] = [NoCall EXCEPT !.k = file[ofile[p][fd]].pipe, !.n = n]]
      BY <2>1, Zenon DEF Read
    <3>2. ofile[p][fd] \in 0..NFILE /\ 0 \in {0, 1} /\ 0 # 1
      BY AParts
    <3>3. n \in Reads \cup Writes
      BY <3>1, Zenon
    <3> QED BY <2>1, <3>1, <3>2, <3>3, Zenon DEF Read, Calls, At, Goto
  <2>2. CASE Write(p)
    <3>1. PICK fd \in Fds, n \in Writes :
            /\ ofile[p][fd] # 0 /\ file[ofile[p][fd]].type = "PIPE" /\ file[ofile[p][fd]].writable = 1
            /\ cur' = [cur EXCEPT ![p] = [NoCall EXCEPT !.k = file[ofile[p][fd]].pipe, !.n = n]]
      BY <2>2, Zenon DEF Write
    <3>2. ofile[p][fd] \in 0..NFILE /\ 1 \in {0, 1} /\ 1 # 0
      BY AParts
    <3>3. n \in Reads \cup Writes
      BY <3>1, Zenon
    <3> QED BY <2>2, <3>1, <3>2, <3>3, Zenon DEF Write, Calls, At, Goto
  <2> QED BY <2>1, <2>2, Zenon
<1>2. f \in FileIds /\ file[f] \in FileRec
  BY <1>1, AParts, OpenFile, Zenon
<1>3. file[f].writable = w
  <2>1. file[f].readable = 1 - file[f].writable /\ file[f].writable \in {0, 1}
    BY <1>1, <1>2, Zenon DEF PipesOK, EndOK, FileRec
  <2> QED BY <1>1, <2>1
<1>4. cur'[p].k = file[f].pipe /\ \A r \in Procs \ {p} : cur'[r] = cur[r]
  BY <1>1, AParts, Zenon DEF NoCall
<1>5. ofile'[p][fd] = f /\ file' = file
  BY <1>1, Zenon
<1>6. HasEnd(p, cur[p].k, w)'
  <2>1. f \in Ends(cur[p].k, w)'
    BY <1>1, <1>2, <1>3, <1>4, <1>5, Zenon DEF Ends
  <2> QED BY <1>5, <2>1, Zenon DEF HasEnd
<1>7. /\ \A r \in Procs \ {p} : pc'[r] = pc[r]
      /\ w = 0 => pc'[p] = "piperead"
      /\ w = 1 => pc'[p] = "pipewrite"
  BY <1>1, AParts
<1>8. Moves(p)
  BY <1>1, <1>6, <1>7, Zenon DEF Moves
<1>9. \A r \in Procs \ {p} : Woken(r)
  BY <1>4, <1>7, Zenon DEF Woken
<1>10. \A k \in Pipes : SameFlags(k)
  BY <1>1, Zenon DEF SameFlags
<1> QED BY <1>1, <1>8, <1>9, <1>10, QuietB, Zenon

\* pipewrite and piperead leave the flags of the page alone, and p by its end.
LEMMA RingB ==
  ASSUME AInv, PipesOK, NEW p \in Procs, PipeWrite(p) \/ PipeRead(p)
  PROVE  PipesOK'
<1>1. PICK k : k = cur[p].k
  BY Zenon
<1>2. PICK w \in {0, 1} :
        /\ pc[p] = IF w = 0 THEN "piperead" ELSE "pipewrite"
        /\ UNCHANGED <<ofile, file>> /\ RingStep(k)
        /\ \/ pc'[p] = "user"
           \/ pc'[p] = (IF w = 0 THEN "readsleep" ELSE "writesleep") /\ cur'[p].k = k
        /\ WokeReaders(p, k) \/ WokeWriters(p, k) \/ Stay(p)
  <2>1. 0 \in {0, 1} /\ 1 \in {0, 1} /\ 0 # 1
    OBVIOUS
  <2>2. CASE PipeWrite(p)
    <3>1. /\ pc[p] = "pipewrite" /\ UNCHANGED <<ofile, file>> /\ RingStep(k)
          /\ pc'[p] = "user" \/ (pc'[p] = "writesleep" /\ cur'[p].k = k)
          /\ WokeReaders(p, k) \/ Stay(p)
      BY <1>1, <2>2, WriteStep, Zenon
    <3> QED BY <2>1, <3>1, Zenon
  <2>3. CASE PipeRead(p)
    <3>1. /\ pc[p] = "piperead" /\ UNCHANGED <<ofile, file>> /\ RingStep(k)
          /\ pc'[p] = "user" \/ (pc'[p] = "readsleep" /\ cur'[p].k = k)
          /\ WokeWriters(p, k) \/ Stay(p)
      BY <1>1, <2>3, ReadStep, Zenon
    <3> QED BY <2>1, <3>1, Zenon
  <2> QED BY <2>2, <2>3, Zenon
<1>3. \A j \in Pipes : SameFlags(j)
  BY <1>2, Zenon DEF RingStep, SameFlags
<1>4. \A r \in Procs \ {p} : Woken(r)
  BY <1>2, WokenOthers, Zenon
<1>5. HasEnd(p, k, w)
  BY <1>1, <1>2, Zenon DEF PipesOK, CallOK
<1>6. cur'[p].k = k => HasEnd(p, cur[p].k, w)'
  BY <1>2, <1>5, Zenon DEF HasEnd, Ends
<1>7. Moves(p)
  BY <1>2, <1>6, Zenon DEF Moves
<1> QED BY <1>2, <1>3, <1>4, <1>7, QuietB, Zenon

\* A step that changes one file, which is no end of a pipe before and after, and
\* may add a descriptor to a process.
LEMMA OneFileB ==
  ASSUME AInv, PipesOK, NEW f \in FileIds, NEW x \in FileRec, file' = [file EXCEPT ![f] = x],
         \/ /\ x.type # "PIPE" /\ file[f].type # "PIPE"
            /\ x.type = "NONE" => x.readable = 0 /\ x.writable = 0
         \/ /\ x.type = file[f].type /\ x.pipe = file[f].pipe
            /\ x.readable = file[f].readable /\ x.writable = file[f].writable,
         UNCHANGED pipe, \A r \in Procs : Moves(r)
  PROVE  PipesOK'
<1>1. file'[f] = x /\ \A g \in FileIds \ {f} : file'[g] = file[g]
  BY AParts, Zenon
<1>2. \A g \in FileIds : SameEnd(g)
  BY <1>1, Zenon DEF SameEnd
<1>3. \A g \in FileIds : file'[g].type = "NONE" => file'[g].readable = 0 /\ file'[g].writable = 0
  BY <1>1 DEF PipesOK, EndOK
<1>4. \A k \in Pipes : SameFlags(k)
  BY Zenon DEF SameFlags
<1> QED BY <1>2, <1>3, <1>4, StepB, Zenon

\* sys_open
LEMMA OpenB ==
  ASSUME AInv, PipesOK, NEW p \in Procs, Open(p)
  PROVE  PipesOK'
<1>1. CASE UNCHANGED <<ofile, file, pipe, pc, cur>>
  BY <1>1, StillB, Zenon
<1>2. CASE \E f \in FileIds, fd \in Fds :
        /\ file[f].type = "CLOSED" /\ ofile[p][fd] = 0
        /\ ofile' = [ofile EXCEPT ![p][fd] = f]
        /\ file' = [file EXCEPT ![f] = [NewFile EXCEPT !.type = "INODE", !.readable = 1]]
        /\ UNCHANGED <<pipe, pc, cur>>
  <2>1. PICK f \in FileIds, fd \in Fds :
        /\ file[f].type = "CLOSED" /\ ofile[p][fd] = 0
        /\ ofile' = [ofile EXCEPT ![p][fd] = f]
        /\ file' = [file EXCEPT ![f] = [NewFile EXCEPT !.type = "INODE", !.readable = 1]]
        /\ UNCHANGED <<pipe, pc, cur>>
    BY <1>2, Zenon
  <2>2. PICK x \in FileRec : file' = [file EXCEPT ![f] = x] /\ x.type = "INODE"
    BY <2>1, NewFiles, Zenon
  <2>3. \A r \in Procs : Moves(r)
    <3>1. \A r \in Procs : \A e \in Fds : ofile[r][e] # 0 => ofile'[r][e] = ofile[r][e]
      BY <2>1, AParts, Zenon
    <3>2. \A r \in Procs : Woken(r)
      BY <2>1, Zenon DEF Woken
    <3> QED BY <3>1, <3>2, Zenon DEF Moves
  <2>4. x.type # "PIPE" /\ file[f].type # "PIPE" /\ x.type # "NONE" /\ UNCHANGED pipe
    BY <2>1, <2>2, Zenon
  <2> QED BY <2>2, <2>3, <2>4, OneFileB, Zenon
<1> QED BY <1>1, <1>2, Zenon DEF Open, Panic, IsLeast, FreeFds, FreeFiles

\* sys_dup
LEMMA DupB ==
  ASSUME AInv, PipesOK, NEW p \in Procs, Dup(p)
  PROVE  PipesOK'
<1>1. CASE UNCHANGED <<ofile, file, pipe, pc, cur>>
  BY <1>1, StillB, Zenon
<1>2. CASE \E fd \in Fds, new \in Fds :
        /\ ofile[p][fd] # 0 /\ ofile[p][new] = 0
        /\ ofile' = [ofile EXCEPT ![p][new] = ofile[p][fd]]
        /\ file' = [file EXCEPT ![ofile[p][fd]].ref = @ + 1]
        /\ UNCHANGED <<pipe, pc, cur>>
  <2>1. PICK fd \in Fds, new \in Fds :
        /\ ofile[p][fd] # 0 /\ ofile[p][new] = 0
        /\ ofile' = [ofile EXCEPT ![p][new] = ofile[p][fd]]
        /\ file' = [file EXCEPT ![ofile[p][fd]].ref = @ + 1]
        /\ UNCHANGED <<pipe, pc, cur>>
    BY <1>2, Zenon
  <2>2. PICK f \in FileIds : f = ofile[p][fd]
    BY <2>1, AParts, OpenFile, Zenon
  <2>3. PICK x \in FileRec : /\ file' = [file EXCEPT ![f] = x]
                             /\ x.type = file[f].type /\ x.pipe = file[f].pipe
                             /\ x.readable = file[f].readable /\ x.writable = file[f].writable
    <3> DEFINE y == [file[f] EXCEPT !.ref = @ + 1]
    <3>1. file[f] \in FileRec
      BY AParts, Zenon
    <3>2. y \in FileRec /\ y.type = file[f].type /\ y.pipe = file[f].pipe
          /\ y.readable = file[f].readable /\ y.writable = file[f].writable
      BY <3>1 DEF FileRec
    <3>3. file' = [file EXCEPT ![f] = y]
      BY <2>1, <2>2, Zenon
    <3> HIDE DEF y
    <3> QED BY <3>2, <3>3, Zenon
  <2>4. \A r \in Procs : Moves(r)
    <3>1. \A r \in Procs : \A e \in Fds : ofile[r][e] # 0 => ofile'[r][e] = ofile[r][e]
      BY <2>1, AParts, Zenon
    <3>2. \A r \in Procs : Woken(r)
      BY <2>1, Zenon DEF Woken
    <3> QED BY <3>1, <3>2, Zenon DEF Moves
  <2> QED BY <2>1, <2>3, <2>4, OneFileB, Zenon
<1> QED BY <1>1, <1>2, Zenon DEF Dup, Panic, IsLeast, FreeFds

\* pipealloc's two filealloc
LEMMA PipeFilesB ==
  ASSUME AInv, PipesOK, NEW p \in Procs, PipeCall(p) \/ PipeAlloc1(p)
  PROVE  PipesOK'
<1>1. CASE UNCHANGED <<ofile, file, pipe, pc, cur>>
  BY <1>1, StillB, Zenon
<1>2. CASE \E f \in FileIds :
        /\ file[f].type = "CLOSED" /\ file' = [file EXCEPT ![f] = NewFile]
        /\ pc[p] \in {"user", "pipealloc1"}
        /\ \E x, l : /\ cur' = [cur EXCEPT ![p] = x] /\ pc' = [pc EXCEPT ![p] = l]
                     /\ l \in {"pipealloc1", "pipealloc2"}
        /\ UNCHANGED <<ofile, pipe>>
  <2>0. PICK f \in FileIds :
        /\ file[f].type = "CLOSED" /\ file' = [file EXCEPT ![f] = NewFile]
        /\ pc[p] \in {"user", "pipealloc1"}
        /\ \E x, l : /\ cur' = [cur EXCEPT ![p] = x] /\ pc' = [pc EXCEPT ![p] = l]
                     /\ l \in {"pipealloc1", "pipealloc2"}
        /\ UNCHANGED <<ofile, pipe>>
    BY <1>2, Zenon
  <2>1. PICK x, l :
        /\ file[f].type = "CLOSED" /\ file' = [file EXCEPT ![f] = NewFile]
        /\ pc[p] \in {"user", "pipealloc1"}
        /\ cur' = [cur EXCEPT ![p] = x] /\ pc' = [pc EXCEPT ![p] = l]
        /\ l \in {"pipealloc1", "pipealloc2"}
        /\ UNCHANGED <<ofile, pipe>>
    BY <2>0, Zenon
  <2>2. NewFile \in FileRec /\ NewFile.type # "PIPE" /\ file[f].type # "PIPE"
        /\ NewFile.readable = 0 /\ NewFile.writable = 0
    BY <2>1, NewFiles, Zenon DEF NewFile, Closed
  <2>3. pc'[p] = l /\ \A r \in Procs \ {p} : pc'[r] = pc[r] /\ cur'[r] = cur[r]
    BY <2>1, AParts, Zenon
  <2>4. \A r \in Procs \ {p} : Woken(r)
    BY <2>3, Zenon DEF Woken
  <2>5. Moves(p)
    BY <2>1, <2>3, Zenon DEF Moves
  <2>6. \A r \in Procs : Moves(r)
    BY <2>1, <2>4, <2>5, Zenon DEF Moves
  <2> QED BY <2>1, <2>2, <2>6, OneFileB, Zenon
<1>3. CASE PipeCall(p)
  BY <1>2, <1>3, Zenon DEF PipeCall, Calls, At, Goto, IsLeast, FreeFiles
<1>4. CASE PipeAlloc1(p)
  <2>1. CASE Panic("fileclose")
    BY <1>1, <2>1, Zenon DEF Panic
  <2>2. CASE \E f \in FileIds : /\ file[f].type = "CLOSED" /\ file' = [file EXCEPT ![f] = NewFile]
                                /\ cur' = [cur EXCEPT ![p].n = f] /\ Goto(p, "pipealloc2")
                                /\ UNCHANGED <<ofile, pipe>>
    <3>1. pc[p] = "pipealloc1"
      BY <1>4, Zenon DEF PipeAlloc1, At
    <3> QED BY <1>2, <2>2, <3>1, Zenon DEF Goto
  <2> QED BY <1>4, <2>1, <2>2, Zenon DEF PipeAlloc1, IsLeast, FreeFiles
<1> QED BY <1>3, <1>4, Zenon

\* fork
LEMMA ForkB ==
  ASSUME AInv, PipesOK, NEW p \in Procs, Fork(p)
  PROVE  PipesOK'
<1>1. PICK c \in Procs :
        /\ pc[c] = "unused" /\ ofile' = [ofile EXCEPT ![c] = ofile[p]]
        /\ file' = [f \in FileIds |-> [file[f] EXCEPT
                      !.ref = @ + Cardinality({fd \in Fds : ofile[p][fd] = f})]]
        /\ Goto(c, "user") /\ UNCHANGED <<pipe, cur>>
  BY Zenon DEF Fork, IsLeast
<1>2. \A f \in FileIds : /\ file'[f].type = file[f].type /\ file'[f].pipe = file[f].pipe
                         /\ file'[f].readable = file[f].readable
                         /\ file'[f].writable = file[f].writable
  <2>1. \A f \in FileIds : file[f] \in FileRec
    BY AParts, Zenon
  <2>2. ASSUME NEW x \in FileRec, NEW n
        PROVE  LET y == [x EXCEPT !.ref = @ + n] IN
                 y.type = x.type /\ y.pipe = x.pipe /\ y.readable = x.readable /\ y.writable = x.writable
    BY Zenon DEF FileRec
  <2> QED BY <1>1, <2>1, <2>2, Zenon
<1>3. \A f \in FileIds : SameEnd(f)
  BY <1>2, Zenon DEF SameEnd
<1>4. \A f \in FileIds : file'[f].type = "NONE" => file'[f].readable = 0 /\ file'[f].writable = 0
  BY <1>2, Zenon DEF PipesOK, EndOK
<1>5. \A k \in Pipes : SameFlags(k)
  BY <1>1, Zenon DEF SameFlags
<1>6. pc'[c] = "user" /\ \A r \in Procs \ {c} : pc'[r] = pc[r] /\ cur'[r] = cur[r]
  BY <1>1, AParts, Zenon DEF Goto
<1>7. Moves(c)
  BY <1>1, <1>6, Zenon DEF Moves
<1>8. \A r \in Procs \ {c} : Moves(r)
  <2>1. \A r \in Procs \ {c} : \A e \in Fds : ofile'[r][e] = ofile[r][e]
    BY <1>1, AParts, Zenon
  <2> QED BY <1>6, <2>1, Zenon DEF Moves, Woken
<1> QED BY <1>3, <1>4, <1>5, <1>7, <1>8, StepB, Zenon

\* fileclose of the last reference to an end of a pipe: p goes to pipeclose.
LastClose(p, f, then) ==
  /\ pc[p] \in {"user", "exit", "undo1", "undo2"}
  /\ pc[p] = "user" => ~killed[p]
  /\ pc[p] = "exit" => then = "exit"
  /\ file[f].type = "PIPE" /\ file' = [file EXCEPT ![f] = Closed]
  /\ Goto(p, "pipeclose")
  /\ cur' = [cur EXCEPT ![p] = [k |-> file[f].pipe, n |-> @.n, w |-> EndOf(f), then |-> then]]
  /\ UNCHANGED <<pipe, killed>>
  /\ \A r \in Procs \ {p} : \A fd \in Fds : ofile'[r][fd] = ofile[r][fd]
  /\ \A r \in Procs : \A fd \in Fds : ofile'[r][fd] # f

\* The end passes from its file to p.
LEMMA LastCloseB ==
  ASSUME AInv, PipesOK, NEW p \in Procs, NEW f \in FileIds, NEW then, LastClose(p, f, then)
  PROVE  PipesOK'
<1>1. PICK k \in Pipes, w \in {0, 1} : k = file[f].pipe /\ w = file[f].writable
  <2>1. file[f].type = "PIPE" /\ file[f] \in FileRec
    BY AParts, Zenon DEF LastClose
  <2> QED BY <2>1, AParts, Zenon DEF RefsOK, RefOK, FileRec
<1>2. /\ file' = [file EXCEPT ![f] = Closed] /\ pc' = [pc EXCEPT ![p] = "pipeclose"]
      /\ cur' = [cur EXCEPT ![p] = [k |-> k, n |-> @.n, w |-> w, then |-> then]]
      /\ file[f].type = "PIPE" /\ pc[p] \in {"user", "exit", "undo1", "undo2"} /\ UNCHANGED pipe
  BY <1>1, Zenon DEF LastClose, Goto, EndOf
<1>3. file'[f].type = "CLOSED" /\ \A g \in FileIds \ {f} : file'[g] = file[g]
  BY <1>2, AParts, Zenon DEF Closed
<1>4. /\ pc'[p] = "pipeclose" /\ cur'[p].k = k /\ cur'[p].w = w
      /\ \A r \in Procs \ {p} : pc'[r] = pc[r] /\ cur'[r] = cur[r]
  BY <1>2, AParts, Zenon
<1>5. f \in Ends(k, w) /\ \A j \in Pipes, v \in {0, 1} : f \in Ends(j, v) => j = k /\ v = w
  BY <1>1, <1>2, Zenon DEF Ends
<1>6. \A j \in Pipes, v \in {0, 1} : Ends(j, v)' = Ends(j, v) \ {f}
  BY <1>3, Zenon DEF Ends
<1>7. \A j \in Pipes, v \in {0, 1} :
        Closing(j, v)' = IF j = k /\ v = w THEN Closing(j, v) \cup {p} ELSE Closing(j, v)
  BY <1>2, <1>4 DEF Closing
<1>8. \A j \in Pipes : SameFlags(j)
  BY <1>2, Zenon DEF SameFlags
<1>9. PageOK(k)'
  <2>1. PageOK(k)
    BY Zenon DEF PipesOK
  <2>2. Closing(k, w) = {} /\ Ends(k, w) = {f}
    <3>1. (\A g, h \in Ends(k, w) : g = h) /\ (Ends(k, w) = {} \/ Closing(k, w) = {})
      BY <2>1, Zenon DEF PageOK
    <3>2. Ends(k, w) # {}
      BY <1>5, Zenon
    <3> QED BY <1>5, <3>1, <3>2, Zenon
  <2>3. Ends(k, w)' = {} /\ Closing(k, w)' = {p}
    BY <1>6, <1>7, <2>2
  <2>4. \A v \in {0, 1} : v # w => Ends(k, v)' = Ends(k, v) /\ Closing(k, v)' = Closing(k, v)
    <3> SUFFICES ASSUME NEW v \in {0, 1}, v # w
                 PROVE  Ends(k, v)' = Ends(k, v) /\ Closing(k, v)' = Closing(k, v)
      BY Zenon
    <3>1. f \notin Ends(k, v)
      BY <1>5, Zenon
    <3>2. Ends(k, v)' = Ends(k, v) \ {f} /\ Closing(k, v)' = Closing(k, v)
      BY <1>6, <1>7, Zenon
    <3> QED BY <3>1, <3>2, Zenon
  <2>5. \A v \in {0, 1} : (Ends(k, v)' \cup Closing(k, v)' # {}) <=> (Ends(k, v) \cup Closing(k, v) # {})
    BY <2>2, <2>3, <2>4, Zenon
  <2>6. \A v \in {0, 1} : /\ \A g, h \in Ends(k, v)' : g = h
                          /\ \A r, s \in Closing(k, v)' : r = s
                          /\ Ends(k, v)' = {} \/ Closing(k, v)' = {}
    <3> SUFFICES ASSUME NEW v \in {0, 1}
                 PROVE  /\ \A g, h \in Ends(k, v)' : g = h
                        /\ \A r, s \in Closing(k, v)' : r = s
                        /\ Ends(k, v)' = {} \/ Closing(k, v)' = {}
      BY Zenon
    <3>1. CASE v = w
      BY <2>3, <3>1
    <3>2. CASE v # w
      BY <2>1, <2>4, <3>2 DEF PageOK
    <3> QED BY <3>1, <3>2, Zenon
  <2>7. SameFlags(k) /\ 0 \in {0, 1} /\ 1 \in {0, 1}
    BY <1>8, Zenon
  <2>8. pipe[k].used => /\ pipe[k].readopen = 1 <=> Ends(k, 0)' \cup Closing(k, 0)' # {}
                        /\ pipe[k].writeopen = 1 <=> Ends(k, 1)' \cup Closing(k, 1)' # {}
    BY <2>1, <2>5, <2>7, Zenon DEF PageOK
  <2>9. ~pipe[k].used => pipe[k].readopen = 1
    BY <2>1, Zenon DEF PageOK
  <2> QED BY <2>6, <2>7, <2>8, <2>9, Zenon DEF PageOK, SameFlags
<1>10. \A j \in Pipes \ {k} : PageOK(j)'
  <2> SUFFICES ASSUME NEW j \in Pipes \ {k}
               PROVE  PageOK(j)'
    BY Zenon
  <2>1. \A v \in {0, 1} : Ends(j, v)' = Ends(j, v) /\ Closing(j, v)' = Closing(j, v)
    BY <1>5, <1>6, <1>7
  <2>2. PageOK(j) /\ SameFlags(j)
    BY <1>8, Zenon DEF PipesOK
  <2> QED BY <2>1, <2>2, PageSame, Zenon
<1>11. \A g \in FileIds : EndOK(g)'
  <2>1. EndOK(f)'
    BY <1>3, Zenon DEF EndOK
  <2>2. \A g \in FileIds \ {f} : EndOK(g) /\ file'[g] = file[g]
    BY <1>3, Zenon DEF PipesOK
  <2>3. \A g \in FileIds \ {f} : EndOK(g)'
    BY <1>2, <2>2, Zenon DEF EndOK
  <2> QED BY <2>1, <2>3, Zenon
<1>12. CallOK(p)'
  <2>1. pipe[k].used
    BY <1>1, <1>2, Zenon DEF PipesOK, EndOK
  <2>2. pc'[p] \notin {"piperead", "readsleep", "pipewrite", "writesleep", "closefree"}
    BY <1>4, Zenon
  <2> QED BY <1>2, <1>4, <2>1, <2>2, Zenon DEF CallOK
<1>13. ASSUME NEW r \in Procs \ {p}
       PROVE  CallOK(r)'
  <2>1. CallOK(r) /\ pc'[r] = pc[r] /\ cur'[r] = cur[r]
    BY <1>4, Zenon DEF PipesOK
  <2>2. \A v \in {0, 1} : cur[r].k \in Pipes /\ HasEnd(r, cur[r].k, v) => HasEnd(r, cur[r].k, v)'
    <3> SUFFICES ASSUME NEW v \in {0, 1}, cur[r].k \in Pipes, HasEnd(r, cur[r].k, v)
                 PROVE  HasEnd(r, cur[r].k, v)'
      BY Zenon
    <3>1. PICK fd \in Fds : ofile[r][fd] \in Ends(cur[r].k, v)
      BY Zenon DEF HasEnd
    <3>2. ofile'[r][fd] = ofile[r][fd] /\ ofile'[r][fd] # f
      BY Zenon DEF LastClose
    <3>3. Ends(cur[r].k, v)' = Ends(cur[r].k, v) \ {f}
      BY <1>3, <2>1, Zenon DEF Ends
    <3>4. ofile'[r][fd] \in Ends(cur[r].k, v)'
      BY <3>1, <3>2, <3>3, Zenon
    <3> QED BY <3>4, Zenon DEF HasEnd
  <2>3. \A s \in Procs : pc'[s] = "closefree" => pc[s] = "closefree" /\ cur'[s] = cur[s]
    BY <1>4, Zenon
  <2>4. pc[r] \in {"piperead", "pipewrite", "readsleep", "writesleep"} => cur[r].k \in Pipes
    BY InPipe, Zenon
  <2>5. 0 \in {0, 1} /\ 1 \in {0, 1}
    OBVIOUS
  <2>6. /\ pc'[r] \in {"piperead", "readsleep"} => HasEnd(r, cur[r].k, 0)'
        /\ pc'[r] \in {"pipewrite", "writesleep"} => HasEnd(r, cur[r].k, 1)'
    BY <2>1, <2>2, <2>4, <2>5, Zenon DEF CallOK
  <2>7. pc'[r] = "closefree" =>
          /\ pipe'[cur'[r].k].used /\ pipe'[cur'[r].k].readopen = 0 /\ pipe'[cur'[r].k].writeopen = 0
          /\ \A s \in Procs : pc'[s] = "closefree" /\ cur'[s].k = cur'[r].k => s = r
    <3>1. pc[r] = "closefree" =>
            /\ pipe[cur[r].k].used /\ pipe[cur[r].k].readopen = 0 /\ pipe[cur[r].k].writeopen = 0
            /\ \A s \in Procs : pc[s] = "closefree" /\ cur[s].k = cur[r].k => s = r
      BY <2>1, Zenon DEF CallOK
    <3>2. pipe' = pipe /\ pc'[r] = pc[r] /\ cur'[r] = cur[r]
      BY <1>2, <2>1, Zenon
    <3>3. ASSUME pc[r] = "closefree", NEW s \in Procs, pc'[s] = "closefree", cur'[s].k = cur[r].k
          PROVE  s = r
      BY <2>3, <3>1, <3>3, Zenon
    <3> QED BY <3>1, <3>2, <3>3, Zenon
  <2>8. pc'[r] = "pipeclose" => pipe'[cur'[r].k].used
    BY <1>2, <2>1, Zenon DEF CallOK
  <2> QED BY <2>1, <2>6, <2>7, <2>8, Zenon DEF CallOK, HasEnd
<1> QED BY <1>9, <1>10, <1>11, <1>12, <1>13, Zenon DEF PipesOK

\* fileclose of a reference that is not the last, or to an inode's file.
DropRef(p) ==
  /\ \E f \in FileIds, x \in FileRec :
       /\ file' = [file EXCEPT ![f] = x]
       /\ \/ x.type # "PIPE" /\ file[f].type # "PIPE" /\ x.type # "NONE"
          \/ /\ x.type = file[f].type /\ x.pipe = file[f].pipe
             /\ x.readable = file[f].readable /\ x.writable = file[f].writable
  /\ pc[p] \in {"user", "exit"} /\ UNCHANGED <<pipe, pc, cur, killed>>
  /\ \A r \in Procs \ {p} : \A fd \in Fds : ofile'[r][fd] = ofile[r][fd]

\* close and exit do one or the other with a descriptor.
LEMMA CloseCases ==
  ASSUME AInv, NEW p \in Procs, NEW then \in {"user", "exit"}, pc[p] = then,
         then = "user" => ~killed[p],
         NEW fd \in Fds, ofile[p][fd] # 0, ofile' = [ofile EXCEPT ![p][fd] = 0],
         FileClose(p, ofile[p][fd], then)
  PROVE  DropRef(p) \/ \E f \in FileIds : LastClose(p, f, then)
<1>1. PICK f \in 0..NFILE : ofile[p][fd] = f /\ f # 0 /\ FileClose(p, f, then)
  BY AParts, Zenon
<1>2. /\ f \in FileIds /\ file[f].type \in {"PIPE", "INODE"}
      /\ file[f].ref = Cardinality(Descriptors(f)) /\ file[f].ref >= 1
  BY <1>1, AParts, OpenFile, Zenon
<1>3. file[f] \in FileRec /\ 0 \notin FileIds
  BY <1>2, AParts DEF FileIds
<1>4. \A r \in Procs : \A e \in Fds : ofile'[r][e] = IF r = p /\ e = fd THEN 0 ELSE ofile[r][e]
  BY AParts, Zenon
<1>5. \A r \in Procs \ {p} : \A e \in Fds : ofile'[r][e] = ofile[r][e]
  BY <1>4
<1>6. /\ UNCHANGED <<pipe, killed, fault>>
      /\ \/ /\ file[f].ref > 1 /\ file' = [file EXCEPT ![f].ref = @ - 1]
            /\ Goto(p, then) /\ UNCHANGED cur
         \/ /\ file[f].ref = 1 /\ file' = [file EXCEPT ![f] = Closed]
            /\ file[f].type = "INODE" /\ Goto(p, then) /\ UNCHANGED cur
         \/ /\ file[f].ref = 1 /\ file' = [file EXCEPT ![f] = Closed]
            /\ file[f].type = "PIPE" /\ Goto(p, "pipeclose")
            /\ cur' = [cur EXCEPT ![p] = [k |-> file[f].pipe, n |-> @.n,
                         w |-> EndOf(f), then |-> then]]
  <2>1. FileClose(p, f, then) /\ f \in FileIds /\ file[f].type \in {"PIPE", "INODE"} /\ file[f].ref >= 1
    BY <1>1, <1>2, Zenon
  <2> QED BY <2>1, FileCloses
<1>7. ASSUME Goto(p, then)
      PROVE  pc' = pc /\ pc[p] \in {"user", "exit"}
  BY <1>7, AParts, Zenon DEF Goto
<1>8. CASE file[f].ref > 1 /\ file' = [file EXCEPT ![f].ref = @ - 1] /\ Goto(p, then) /\ UNCHANGED cur
  <2>1. PICK x \in FileRec : /\ file' = [file EXCEPT ![f] = x]
                             /\ x.type = file[f].type /\ x.pipe = file[f].pipe
                             /\ x.readable = file[f].readable /\ x.writable = file[f].writable
    <3> DEFINE y == [file[f] EXCEPT !.ref = @ - 1]
    <3>1. y \in FileRec /\ y.type = file[f].type /\ y.pipe = file[f].pipe
          /\ y.readable = file[f].readable /\ y.writable = file[f].writable
      BY <1>3, <1>8 DEF FileRec
    <3>2. file' = [file EXCEPT ![f] = y]
      BY <1>8, Zenon
    <3> HIDE DEF y
    <3> QED BY <3>1, <3>2, Zenon
  <2> QED BY <1>2, <1>5, <1>6, <1>7, <1>8, <2>1, Zenon DEF DropRef
<1>9. CASE /\ file' = [file EXCEPT ![f] = Closed]
           /\ file[f].type = "INODE" /\ Goto(p, then) /\ UNCHANGED cur
  <2>1. Closed \in FileRec /\ Closed.type # "PIPE" /\ file[f].type # "PIPE" /\ Closed.type # "NONE"
    BY <1>9, NewFiles DEF Closed
  <2> QED BY <1>2, <1>5, <1>6, <1>7, <1>9, <2>1, Zenon DEF DropRef
<1>10. CASE /\ file[f].ref = 1 /\ file' = [file EXCEPT ![f] = Closed]
            /\ file[f].type = "PIPE" /\ Goto(p, "pipeclose")
            /\ cur' = [cur EXCEPT ![p] = [k |-> file[f].pipe, n |-> @.n,
                         w |-> EndOf(f), then |-> then]]
  <2>1. \A r \in Procs : \A e \in Fds :
          ofile'[r][e] = f <=> ofile[r][e] = f /\ ~(r = p /\ e = fd)
    BY <1>1, <1>2, <1>3, <1>4
  <2>2. Cardinality(Descriptors(f)') = Cardinality(Descriptors(f)) - 1
    BY <1>1, <2>1, DescDrop
  <2>3. Cardinality(Descriptors(f)') = 0
    <3>1. Cardinality(Descriptors(f)) = 1
      BY <1>2, <1>10, Zenon
    <3> QED BY <2>2, <3>1
  <2>4. \A r \in Procs : \A e \in Fds : ofile'[r][e] # f
    BY <2>3, NoDescNext, Zenon
  <2>5. pc[p] \in {"user", "exit", "undo1", "undo2"} /\ UNCHANGED <<pipe, killed>>
        /\ (pc[p] = "user" => ~killed[p]) /\ (pc[p] = "exit" => then = "exit")
    BY <1>6
  <2> QED BY <1>2, <1>5, <1>10, <2>4, <2>5, Zenon DEF LastClose
<1> QED BY <1>6, <1>8, <1>9, <1>10, Zenon

\* sys_close, and exit's loop as long as it runs
LEMMA ClosesFd ==
  ASSUME AInv, NEW p \in Procs, Close(p) \/ ExitClose(p)
  PROVE  \/ DropRef(p)
         \/ \E f \in FileIds : \E then : LastClose(p, f, then)
         \/ /\ pc[p] = "exit" /\ pc' = [pc EXCEPT ![p] = "unused"]
            /\ killed' = [killed EXCEPT ![p] = FALSE] /\ UNCHANGED <<ofile, file, pipe, cur>>
<1>1. CASE Close(p)
  <2>1. /\ pc[p] = "user" /\ ~killed[p]
        /\ \E fd \in Fds : /\ ofile[p][fd] # 0 /\ ofile' = [ofile EXCEPT ![p][fd] = 0]
                           /\ FileClose(p, ofile[p][fd], "user")
    BY <1>1, Zenon DEF Close, Calls, At
  <2>2. "user" \in {"user", "exit"}
    OBVIOUS
  <2> QED BY <2>1, <2>2, CloseCases, Zenon
<1>2. CASE ExitClose(p)
  <2>1. /\ pc[p] = "exit"
        /\ \/ /\ Goto(p, "unused") /\ killed' = [killed EXCEPT ![p] = FALSE]
              /\ UNCHANGED <<ofile, file, pipe, cur>>
           \/ \E fd \in Fds : /\ ofile[p][fd] # 0 /\ ofile' = [ofile EXCEPT ![p][fd] = 0]
                              /\ FileClose(p, ofile[p][fd], "exit")
    BY <1>2, Zenon DEF ExitClose, At, IsLeast, FreeFds
  <2>2. "exit" \in {"user", "exit"} /\ "exit" # "user"
    BY Zenon
  <2> QED BY <2>1, <2>2, CloseCases, Zenon DEF Goto
<1> QED BY <1>1, <1>2, Zenon

\* sys_pipe gives back an end.
LEMMA ClosesHeld ==
  ASSUME AInv, NEW p \in Procs, Undo1(p) \/ Undo2(p)
  PROVE  \E f \in FileIds : \E then : LastClose(p, f, then)
<1>1. PICK f \in FileIds, then \in {"user", "undo2"} :
        /\ Holds(p, f) /\ file[f].type = "PIPE" /\ FileClose(p, f, then) /\ UNCHANGED ofile
        /\ pc[p] \in {"undo1", "undo2"}
  <2>1. CASE Undo1(p)
    <3>1. pc[p] = "undo1" /\ FileClose(p, cur[p].k, "undo2") /\ UNCHANGED ofile
      BY <2>1, Zenon DEF Undo1, At
    <3>2. cur[p].k \in FileIds /\ file[cur[p].k].type = "PIPE" /\ Holds(p, cur[p].k)
      BY <3>1, Zenon DEF AInv, HandOK, Holds
    <3> QED BY <3>1, <3>2, Zenon
  <2>2. CASE Undo2(p)
    <3>1. pc[p] = "undo2" /\ FileClose(p, cur[p].n, "user") /\ UNCHANGED ofile
      BY <2>2, Zenon DEF Undo2, At
    <3>2. cur[p].n \in FileIds /\ file[cur[p].n].type = "PIPE" /\ Holds(p, cur[p].n)
      BY <3>1 DEF AInv, HandOK, Holds, Pending
    <3> QED BY <3>1, <3>2
  <2> QED BY <2>1, <2>2
<1>2. file[f].ref = 1 /\ \A r \in Procs : \A fd \in Fds : ofile[r][fd] # f
  BY <1>1, AParts, HeldFile, Zenon
<1>3. /\ UNCHANGED <<pipe, killed, fault>> /\ file' = [file EXCEPT ![f] = Closed]
      /\ Goto(p, "pipeclose")
      /\ cur' = [cur EXCEPT ![p] = [k |-> file[f].pipe, n |-> @.n, w |-> EndOf(f), then |-> then]]
  <2>1. FileClose(p, f, then) /\ file[f].type \in {"PIPE", "INODE"} /\ file[f].ref >= 1
        /\ ~(file[f].ref > 1) /\ file[f].type # "INODE"
    BY <1>1, <1>2
  <2> QED BY <2>1, FileCloses
<1>4. pc[p] \in {"user", "exit", "undo1", "undo2"} /\ pc[p] # "user" /\ pc[p] # "exit"
  BY <1>1, Zenon
<1> QED BY <1>1, <1>2, <1>3, <1>4, Zenon DEF LastClose

\* fileclose keeps the ends.
LEMMA CloseB ==
  ASSUME AInv, PipesOK, NEW p \in Procs, Close(p) \/ ExitClose(p) \/ Undo1(p) \/ Undo2(p)
  PROVE  PipesOK'
<1>1. CASE DropRef(p)
  <2>1. PICK f \in FileIds, x \in FileRec :
       /\ file' = [file EXCEPT ![f] = x]
       /\ \/ x.type # "PIPE" /\ file[f].type # "PIPE" /\ x.type # "NONE"
          \/ /\ x.type = file[f].type /\ x.pipe = file[f].pipe
             /\ x.readable = file[f].readable /\ x.writable = file[f].writable
    BY <1>1, ZenonT(30) DEF DropRef
  <2>2. Moves(p)
    BY <1>1, Zenon DEF DropRef, Moves
  <2>3. \A r \in Procs \ {p} : Moves(r)
    BY <1>1, Zenon DEF DropRef, Moves, Woken
  <2>4. UNCHANGED pipe /\ \A r \in Procs : Moves(r)
    BY <1>1, <2>2, <2>3, Zenon DEF DropRef
  <2> QED BY <2>1, <2>4, OneFileB, Zenon
<1>2. CASE \E f \in FileIds : \E then : LastClose(p, f, then)
  BY <1>2, LastCloseB, Zenon
<1>3. CASE pc[p] = "exit" /\ pc' = [pc EXCEPT ![p] = "unused"] /\ UNCHANGED <<ofile, file, pipe, cur>>
  <2>1. pc'[p] = "unused" /\ \A r \in Procs \ {p} : pc'[r] = pc[r] /\ cur'[r] = cur[r]
    BY <1>3, AParts
  <2>2. \A r \in Procs \ {p} : Woken(r)
    BY <2>1, Zenon DEF Woken
  <2>3. pc[p] # "pipeclose" /\ pc'[p] \in {"unused", "user", "exit", "undo2"}
    BY <1>3, <2>1
  <2> QED BY <1>3, <2>2, <2>3, ExitB, Zenon
<1> QED BY <1>1, <1>2, <1>3, ClosesFd, ClosesHeld, Zenon

\* A step of p that opens, shuts or frees an end of page k only.
LEMMA OnePageB ==
  ASSUME AInv, PipesOK, NEW k \in Pipes, NEW p \in Procs,
         \A j \in Pipes \ {k} : SameFlags(j),
         \A j \in Pipes \ {k}, w \in {0, 1} :
           Ends(j, w)' = Ends(j, w) /\ Closing(j, w)' = Closing(j, w),
         \A w \in {0, 1} : Ends(k, w) \subseteq Ends(k, w)',
         PageOK(k)', \A f \in FileIds : EndOK(f)', CallOK(p)',
         \A r \in Procs \ {p} : Woken(r) /\ \A fd \in Fds : ofile'[r][fd] = ofile[r][fd],
         \A r \in Procs \ {p} : pc[r] = "pipeclose" /\ cur[r].k = k => pipe'[k].used,
         \A r \in Procs \ {p} : pc[r] = "closefree" /\ cur[r].k = k =>
           pipe'[k].used /\ pipe'[k].readopen = 0 /\ pipe'[k].writeopen = 0,
         pc'[p] = "closefree" => \A r \in Procs \ {p} : pc[r] = "closefree" => cur[r].k # cur'[p].k
  PROVE  PipesOK'
<1>1. \A j \in Pipes \ {k} : PageOK(j)'
  BY PageSame, Zenon DEF PipesOK
<1>2. ASSUME NEW r \in Procs \ {p}
      PROVE  CallOK(r)'
  <2>1. CallOK(r) /\ cur'[r] = cur[r]
    BY Zenon DEF PipesOK, Woken
  <2>2. pc[r] \in {"pipeclose", "piperead", "pipewrite", "readsleep", "writesleep", "closefree"}
          => cur[r].k \in Pipes
    BY Zenon DEF AInv, HandOK
  <2>3. \A w \in {0, 1} : cur[r].k \in Pipes /\ HasEnd(r, cur[r].k, w) => HasEnd(r, cur[r].k, w)'
    <3> SUFFICES ASSUME NEW w \in {0, 1}, cur[r].k \in Pipes, HasEnd(r, cur[r].k, w)
                 PROVE  HasEnd(r, cur[r].k, w)'
      BY Zenon
    <3>1. PICK fd \in Fds : ofile[r][fd] \in Ends(cur[r].k, w)
      BY Zenon DEF HasEnd
    <3>2. PICK j \in Pipes : j = cur[r].k
      BY Zenon
    <3>3. Ends(j, w) \subseteq Ends(j, w)'
      BY Zenon
    <3>4. ofile'[r][fd] \in Ends(j, w)'
      BY <3>1, <3>2, <3>3, Zenon
    <3>5. cur'[r].k = j
      BY <2>1, <3>2, Zenon
    <3> QED BY <3>4, <3>5, Zenon DEF HasEnd, Ends
  <2>4. 0 \in {0, 1} /\ 1 \in {0, 1}
    OBVIOUS
  <2>5. pc'[r] = "pipeclose" => pipe'[cur'[r].k].used
    <3>1. pc'[r] = "pipeclose" => pc[r] = "pipeclose"
      BY Zenon DEF Woken
    <3>2. pc[r] = "pipeclose" /\ cur[r].k # k => (pipe'[cur[r].k].used <=> pipe[cur[r].k].used)
      BY <2>2, Zenon DEF SameFlags
    <3> QED BY <2>1, <3>1, <3>2, Zenon DEF CallOK
  <2>6. pc'[r] \in {"piperead", "readsleep"} => HasEnd(r, cur[r].k, 0)'
    <3>1. pc'[r] \in {"piperead", "readsleep"} => pc[r] \in {"piperead", "readsleep"}
      BY DEF Woken
    <3> QED BY <2>1, <2>2, <2>3, <2>4, <3>1, Zenon DEF CallOK
  <2>7. pc'[r] \in {"pipewrite", "writesleep"} => HasEnd(r, cur[r].k, 1)'
    <3>1. pc'[r] \in {"pipewrite", "writesleep"} => pc[r] \in {"pipewrite", "writesleep"}
      BY Zenon DEF Woken
    <3> QED BY <2>1, <2>2, <2>3, <2>4, <3>1, Zenon DEF CallOK
  <2>8. pc'[r] = "closefree" =>
          /\ pipe'[cur'[r].k].used /\ pipe'[cur'[r].k].readopen = 0 /\ pipe'[cur'[r].k].writeopen = 0
          /\ \A s \in Procs : pc'[s] = "closefree" /\ cur'[s].k = cur'[r].k => s = r
    <3>1. pc'[r] = "closefree" => pc[r] = "closefree"
      BY Zenon DEF Woken
    <3>2. ASSUME pc[r] = "closefree"
          PROVE  pipe'[cur[r].k].used /\ pipe'[cur[r].k].readopen = 0 /\ pipe'[cur[r].k].writeopen = 0
      <4>1. CASE cur[r].k = k
        BY <3>2, <4>1, Zenon
      <4>2. CASE cur[r].k \in Pipes \ {k}
        <5>1. SameFlags(cur[r].k)
          BY <4>2, Zenon
        <5> QED BY <2>1, <3>2, <5>1, Zenon DEF CallOK, SameFlags
      <4> QED BY <2>2, <3>2, <4>1, <4>2
    <3>3. ASSUME pc[r] = "closefree", NEW s \in Procs, pc'[s] = "closefree", cur'[s].k = cur[r].k
          PROVE  s = r
      <4>1. CASE s = p
        BY <3>3, <4>1, Zenon
      <4>2. CASE s # p
        <5>1. pc[s] = "closefree" /\ cur[s].k = cur[r].k
          BY <3>3, <4>2, Zenon DEF Woken
        <5> QED BY <2>1, <3>3, <5>1, Zenon DEF CallOK
      <4> QED BY <4>1, <4>2
    <3> QED BY <2>1, <3>1, <3>2, <3>3, Zenon
  <2> QED BY <2>5, <2>6, <2>7, <2>8, Zenon DEF CallOK, HasEnd
<1> QED BY <1>1, <1>2, Zenon DEF PipesOK

\* Nobody has an end of a page that is no pipe, closes or frees it.
LEMMA NoEnds ==
  ASSUME AInv, PipesOK, NEW k \in Pipes, ~pipe[k].used
  PROVE  /\ \A w \in {0, 1} : Ends(k, w) = {} /\ Closing(k, w) = {}
         /\ \A r \in Procs : cur[r].k = k => pc[r] \notin {"pipeclose", "closefree"}
<1>1. \A f \in FileIds : ~(file[f].type = "PIPE" /\ file[f].pipe = k)
  BY Zenon DEF PipesOK, EndOK
<1>2. \A r \in Procs : cur[r].k = k => pc[r] # "pipeclose" /\ pc[r] # "closefree"
  BY Zenon DEF PipesOK, CallOK
<1> QED BY <1>1, <1>2, Zenon DEF Ends, Closing

\* pipealloc: the new page has two ends.
LEMMA AllocB ==
  ASSUME AInv, PipesOK, NEW p \in Procs, PipeAlloc2(p)
  PROVE  PipesOK'
<1>1. CASE Panic("fileclose")
  BY <1>1, StillB DEF Panic
<1>2. CASE /\ pc[p] = "pipealloc2"
           /\ \E k \in Pipes, rf, wf \in FileIds :
                rf = cur[p].k /\ wf = cur[p].n /\ rf # wf /\ AllocStep(p, k, rf, wf)
  <2>1. PICK k \in Pipes, rf \in FileIds, wf \in FileIds :
               rf = cur[p].k /\ wf = cur[p].n /\ rf # wf /\ AllocStep(p, k, rf, wf)
    BY <1>2
  <2>2. file[rf].type = "NONE" /\ file[wf].type = "NONE"
    BY <1>2, <2>1, Zenon DEF AInv, HandOK
  <2>3. /\ \A g \in FileIds \ {rf, wf} : file'[g] = file[g]
        /\ file'[rf].type = "PIPE" /\ file'[rf].pipe = k
        /\ file'[rf].readable = 1 /\ file'[rf].writable = 0
        /\ file'[wf].type = "PIPE" /\ file'[wf].pipe = k
        /\ file'[wf].writable = 1 /\ file'[wf].readable = 0
    <3>1. rf # wf /\ AllocStep(p, k, rf, wf)
      BY <2>1, Zenon
    <3>2. file[rf].writable = 0 /\ file[wf].readable = 0
      BY <2>2, Zenon DEF PipesOK, EndOK
    <3>3. /\ \A g \in FileIds \ {rf, wf} : file'[g] = file[g]
          /\ file'[rf].type = "PIPE" /\ file'[rf].pipe = k
          /\ file'[rf].readable = 1 /\ file'[rf].writable = file[rf].writable
          /\ file'[wf].type = "PIPE" /\ file'[wf].pipe = k
          /\ file'[wf].writable = 1 /\ file'[wf].readable = file[wf].readable
      BY <3>1, EndFiles
    <3> QED BY <3>2, <3>3, Zenon
  <2>4. ~pipe[k].used /\ pipe' = [pipe EXCEPT ![k] = [Junk EXCEPT !.used = TRUE]]
    BY <2>1, Zenon DEF AllocStep
  <2>5. pipe'[k].used /\ pipe'[k].readopen = 1 /\ pipe'[k].writeopen = 1
    <3>1. pipe'[k] = [Junk EXCEPT !.used = TRUE]
      BY <2>4, AParts, Zenon
    <3> QED BY <3>1, Zenon DEF Junk
  <2>6. \A j \in Pipes \ {k} : pipe'[j] = pipe[j]
    BY <2>4, AParts, Zenon
  <2>7. /\ \A r \in Procs \ {p} : pc'[r] = pc[r] /\ cur'[r] = cur[r]
        /\ pc'[p] \in {"user", "undo1"}
        /\ \A r \in Procs \ {p} : \A fd \in Fds : ofile'[r][fd] = ofile[r][fd]
    <3>1. \/ /\ \E a, b \in Fds : ofile' = [ofile EXCEPT ![p][a] = rf, ![p][b] = wf]
             /\ pc' = [pc EXCEPT ![p] = "user"] /\ cur' = [cur EXCEPT ![p] = NoCall]
          \/ pc' = [pc EXCEPT ![p] = "undo1"] /\ UNCHANGED <<ofile, cur>>
      BY <2>1, Zenon DEF AllocStep, Goto
    <3> QED BY <3>1, AParts, Zenon
  <2>8. /\ \A w \in {0, 1} : Ends(k, w) = {} /\ Closing(k, w) = {}
        /\ \A r \in Procs : cur[r].k = k => pc[r] \notin {"pipeclose", "closefree"}
    BY <2>4, NoEnds, Zenon
  <2>9. \A j \in Pipes \ {k}, w \in {0, 1} : Ends(j, w)' = Ends(j, w)
    BY <2>2, <2>3 DEF Ends
  <2>10. \A j \in Pipes, w \in {0, 1} : Closing(j, w)' = Closing(j, w)
    BY <1>2, <2>7 DEF Closing
  <2>11. Ends(k, 0)' = {rf} /\ Ends(k, 1)' = {wf}
    <3>1. \A g \in FileIds \ {rf, wf} : ~(file[g].type = "PIPE" /\ file[g].pipe = k)
      BY <2>4, Zenon DEF PipesOK, EndOK
    <3> QED BY <2>3, <3>1 DEF Ends
  <2>12. PageOK(k)'
    <3>1. 0 \in {0, 1} /\ 1 \in {0, 1} /\ \A w \in {0, 1} : w = 0 \/ w = 1
      BY Zenon
    <3>2. \A w \in {0, 1} : Closing(k, w)' = {}
      BY <2>8, <2>10, Zenon
    <3>3. \A w \in {0, 1} : /\ \A f, g \in Ends(k, w)' : f = g
                            /\ \A q, r \in Closing(k, w)' : q = r
      BY <2>11, <3>1, <3>2
    <3>4. Ends(k, 0)' \cup Closing(k, 0)' # {} /\ Ends(k, 1)' \cup Closing(k, 1)' # {}
      BY <2>11, Zenon
    <3> QED BY <2>5, <3>2, <3>3, <3>4, Zenon DEF PageOK
  <2>13. \A f \in FileIds : EndOK(f)'
    <3>1. EndOK(rf)' /\ EndOK(wf)'
      <4>1. 1 - 0 = 1 /\ 1 - 1 = 0 /\ "PIPE" # "NONE"
        OBVIOUS
      <4> QED BY <2>3, <2>5, <4>1, Zenon DEF EndOK
    <3>2. ASSUME NEW f \in FileIds \ {rf, wf}
          PROVE  EndOK(f)'
      <4>1. EndOK(f) /\ file'[f] = file[f]
        BY <2>3, Zenon DEF PipesOK
      <4>2. file[f].type = "PIPE" => file[f].pipe \in Pipes
        BY AParts, Zenon DEF RefsOK, RefOK
      <4>3. file[f].type = "PIPE" => file[f].pipe # k
        BY <2>4, <4>1, Zenon DEF EndOK
      <4>4. file[f].type = "PIPE" => pipe'[file[f].pipe] = pipe[file[f].pipe]
        BY <2>6, <4>2, <4>3, Zenon
      <4> QED BY <4>1, <4>4, Zenon DEF EndOK
    <3> QED BY <3>1, <3>2, Zenon
  <2>14. \A j \in Pipes \ {k} : SameFlags(j)
    BY <2>6, Zenon DEF SameFlags
  <2>15. CallOK(p)' /\ pc'[p] # "closefree"
    BY <2>7, Zenon DEF CallOK
  <2>16. \A r \in Procs \ {p} : Woken(r)
    BY <2>7 DEF Woken
  <2>17. \A r \in Procs \ {p} : cur[r].k = k => pc[r] # "pipeclose" /\ pc[r] # "closefree"
    BY <2>8, Zenon
  <2>18. \A w \in {0, 1} : Ends(k, w) \subseteq Ends(k, w)'
    BY <2>8
  <2> QED BY <2>7, <2>9, <2>10, <2>12, <2>13, <2>14, <2>15, <2>16, <2>17, <2>18, OnePageB, Zenon
<1> QED BY <1>1, <1>2, Allocs, Zenon

\* pipeclose, under the lock: it shuts one end, and wakes those at the other.
LEMMA ShutStep ==
  ASSUME AInv, NEW p \in Procs, PipeClose(p), NEW k, k = cur[p].k, NEW w, w = cur[p].w
  PROVE  /\ pc[p] = "pipeclose" /\ pc'[p] = "closetest" /\ k \in Pipes /\ w \in {0, 1}
         /\ UNCHANGED <<ofile, file, cur, killed>>
         /\ \A j \in Pipes \ {k} : pipe'[j] = pipe[j]
         /\ pipe'[k].used <=> pipe[k].used
         /\ pipe'[k].readopen = IF w = 0 THEN 0 ELSE pipe[k].readopen
         /\ pipe'[k].writeopen = IF w = 1 THEN 0 ELSE pipe[k].writeopen
         /\ Count(pipe'[k]) = Count(pipe[k])
         /\ w = 1 => WokeReaders(p, k)
         /\ w = 0 => WokeWriters(p, k)
<1> DEFINE at == [pc EXCEPT ![p] = "closetest"]
<1>1. /\ pc[p] = "pipeclose" /\ UNCHANGED <<ofile, file, cur, killed>>
      /\ \/ w = 1 /\ pipe' = [pipe EXCEPT ![k].writeopen = 0] /\ pc' = WakeReaders(at, k)
         \/ w # 1 /\ pipe' = [pipe EXCEPT ![k].readopen = 0] /\ pc' = WakeWriters(at, k)
  BY Zenon DEF PipeClose, At
<1>2. k \in Pipes /\ w \in {0, 1}
  BY <1>1, AParts, InPipe, Zenon DEF CallType
<1>3. at \in [Procs -> Pcs] /\ at[p] = "closetest" /\ \A r \in Procs \ {p} : at[r] = pc[r]
  BY AParts, Zenon DEF Pcs
<1> HIDE DEF at
<1>4. /\ pc'[p] = "closetest"
      /\ w = 1 => WokeReaders(p, k)
      /\ w = 0 => WokeWriters(p, k)
  BY <1>1, <1>2, <1>3, Wakes DEF WokeReaders, WokeWriters
<1>5. PICK t : /\ (w = 1 /\ t = [pipe[k] EXCEPT !.writeopen = 0])
                    \/ (w # 1 /\ t = [pipe[k] EXCEPT !.readopen = 0])
               /\ pipe' = [pipe EXCEPT ![k] = t]
  BY <1>1, Zenon
<1>6. pipe[k] \in PipeRec /\ pipe'[k] = t /\ \A j \in Pipes \ {k} : pipe'[j] = pipe[j]
  BY <1>2, <1>5, AParts, Zenon
<1>7. t.used = pipe[k].used /\ t.readp = pipe[k].readp /\ t.writep = pipe[k].writep
  BY <1>5, <1>6, EndShut
<1>8. /\ w = 1 => t.writeopen = 0 /\ t.readopen = pipe[k].readopen
      /\ w # 1 => t.readopen = 0 /\ t.writeopen = pipe[k].writeopen
  BY <1>5, <1>6, Zenon DEF PipeRec
<1>9. Count(t) = Count(pipe[k])
  BY <1>7, Zenon DEF Count
<1> QED BY <1>1, <1>2, <1>4, <1>6, <1>7, <1>8, <1>9

\* The end that p was closing is shut.
LEMMA ShutB ==
  ASSUME AInv, PipesOK, NEW p \in Procs, PipeClose(p)
  PROVE  PipesOK'
<1>1. PICK k, w : k = cur[p].k /\ w = cur[p].w
  OBVIOUS
<1>2. /\ pc[p] = "pipeclose" /\ pc'[p] = "closetest" /\ k \in Pipes /\ w \in {0, 1}
      /\ UNCHANGED <<ofile, file, cur, killed>>
      /\ \A j \in Pipes \ {k} : pipe'[j] = pipe[j]
      /\ pipe'[k].used <=> pipe[k].used
      /\ pipe'[k].readopen = IF w = 0 THEN 0 ELSE pipe[k].readopen
      /\ pipe'[k].writeopen = IF w = 1 THEN 0 ELSE pipe[k].writeopen
      /\ WokeReaders(p, k) \/ WokeWriters(p, k)
  BY <1>1, ShutStep
<1>3. \A r \in Procs \ {p} : Woken(r) /\ \A fd \in Fds : ofile'[r][fd] = ofile[r][fd]
  BY <1>2, WokenOthers
<1>4. \A j \in Pipes, v \in {0, 1} : Ends(j, v)' = Ends(j, v)
  BY <1>2, Zenon DEF Ends
<1>5. \A j \in Pipes, v \in {0, 1} : Closing(j, v)' = Closing(j, v) \ {p}
  BY <1>2, <1>3 DEF Closing, Woken
<1>6. p \in Closing(k, w) /\ \A j \in Pipes, v \in {0, 1} : p \in Closing(j, v) => j = k /\ v = w
  BY <1>1, <1>2, Zenon DEF Closing
<1>7. PageOK(k) /\ pipe[k].used
  <2>1. CallOK(p) /\ PageOK(k)
    BY <1>2 DEF PipesOK
  <2> QED BY <1>1, <1>2, <2>1, Zenon DEF CallOK
<1>8. PageOK(k)'
  <2>1. Ends(k, w) = {} /\ Closing(k, w)' = {}
    <3>1. (\A r, s \in Closing(k, w) : r = s) /\ (Ends(k, w) = {} \/ Closing(k, w) = {})
      BY <1>2, <1>7, Zenon DEF PageOK
    <3>2. Closing(k, w)' = Closing(k, w) \ {p}
      BY <1>2, <1>5, Zenon
    <3> QED BY <1>6, <3>1, <3>2
  <2>2. \A v \in {0, 1} : v # w => Closing(k, v)' = Closing(k, v)
    <3> SUFFICES ASSUME NEW v \in {0, 1}, v # w
                 PROVE  Closing(k, v)' = Closing(k, v)
      BY Zenon
    <3>1. p \notin Closing(k, v) /\ Closing(k, v)' = Closing(k, v) \ {p}
      BY <1>2, <1>5, <1>6, Zenon
    <3> QED BY <3>1
  <2>3. ASSUME NEW v \in {0, 1}
        PROVE  /\ \A g, h \in Ends(k, v)' : g = h
               /\ \A r, s \in Closing(k, v)' : r = s
               /\ Ends(k, v)' = {} \/ Closing(k, v)' = {}
    <3>1. Ends(k, v)' = Ends(k, v) /\ (v = w \/ Closing(k, v)' = Closing(k, v))
      BY <1>2, <1>4, <2>2, Zenon
    <3> QED BY <1>7, <2>1, <3>1, ZenonT(30) DEF PageOK
  <2>4. 0 \in {0, 1} /\ 1 \in {0, 1} /\ 0 # 1 /\ (w = 0 \/ w = 1)
    BY <1>2
  <2>5. Ends(k, 0)' = Ends(k, 0) /\ Ends(k, 1)' = Ends(k, 1)
    BY <1>2, <1>4, Zenon
  <2>6. pipe'[k].readopen = 1 <=> Ends(k, 0)' \cup Closing(k, 0)' # {}
    <3>1. pipe[k].readopen = 1 <=> Ends(k, 0) \cup Closing(k, 0) # {}
      BY <1>7, Zenon DEF PageOK
    <3>2. CASE w = 0
      BY <1>2, <2>1, <2>5, <3>2
    <3>3. CASE w = 1
      BY <1>2, <2>2, <2>4, <2>5, <3>1, <3>3, Zenon
    <3> QED BY <2>4, <3>2, <3>3, Zenon
  <2>7. pipe'[k].writeopen = 1 <=> Ends(k, 1)' \cup Closing(k, 1)' # {}
    <3>1. pipe[k].writeopen = 1 <=> Ends(k, 1) \cup Closing(k, 1) # {}
      BY <1>7, Zenon DEF PageOK
    <3>2. CASE w = 1
      BY <1>2, <2>1, <2>5, <3>2
    <3>3. CASE w = 0
      BY <1>2, <2>2, <2>4, <2>5, <3>1, <3>3, Zenon
    <3> QED BY <2>4, <3>2, <3>3
  <2> QED BY <1>2, <1>7, <2>3, <2>6, <2>7, Zenon DEF PageOK
<1>9. \A j \in Pipes \ {k} : SameFlags(j)
  BY <1>2, Zenon DEF SameFlags
<1>10. ASSUME NEW j \in Pipes \ {k}, NEW v \in {0, 1}
       PROVE  Ends(j, v)' = Ends(j, v) /\ Closing(j, v)' = Closing(j, v)
  <2>1. p \notin Closing(j, v) /\ Closing(j, v)' = Closing(j, v) \ {p}
    BY <1>5, <1>6, Zenon
  <2> QED BY <1>4, <2>1, Zenon
<1>11. \A f \in FileIds : EndOK(f)'
  <2>1. \A f \in FileIds : file[f].type = "PIPE" => file[f].pipe \in Pipes
    BY AParts DEF RefsOK, RefOK
  <2>2. \A j \in Pipes : pipe'[j].used <=> pipe[j].used
    BY <1>2, Zenon
  <2> QED BY <1>2, <2>1, <2>2, Zenon DEF PipesOK, EndOK
<1>12. CallOK(p)' /\ pc'[p] # "closefree"
  BY <1>2 DEF CallOK
<1>13. \A r \in Procs \ {p} : pc[r] = "closefree" /\ cur[r].k = k =>
         pipe'[k].used /\ pipe'[k].readopen = 0 /\ pipe'[k].writeopen = 0
  <2>1. \A r \in Procs \ {p} : pc[r] = "closefree" /\ cur[r].k = k =>
          pipe[k].readopen = 0 /\ pipe[k].writeopen = 0
    BY Zenon DEF PipesOK, CallOK
  <2> QED BY <1>2, <1>7, <2>1, Zenon
<1>14. (\A v \in {0, 1} : Ends(k, v) \subseteq Ends(k, v)') /\ pipe'[k].used
  BY <1>2, <1>4, <1>7, Zenon
<1> QED BY <1>2, <1>3, <1>8, <1>9, <1>10, <1>11, <1>12, <1>13, <1>14, OnePageB, Zenon

\* Shut at both ends, a page has no files and no closers.
LEMMA ShutPage ==
  ASSUME AInv, PipesOK, NEW k \in Pipes, pipe[k].readopen = 0, pipe[k].writeopen = 0
  PROVE  pipe[k].used /\ \A w \in {0, 1} : Ends(k, w) = {} /\ Closing(k, w) = {}
<1>1. PageOK(k) /\ 0 # 1
  BY DEF PipesOK
<1>2. pipe[k].used
  BY <1>1, Zenon DEF PageOK
<1>3. Ends(k, 0) \cup Closing(k, 0) = {} /\ Ends(k, 1) \cup Closing(k, 1) = {}
  BY <1>1, <1>2, Zenon DEF PageOK
<1> QED BY <1>2, <1>3

\* pipeclose's test finds both ends shut, by p alone.
LEMMA TestB ==
  ASSUME AInv, PipesOK, NEW p \in Procs, CloseTest(p)
  PROVE  PipesOK'
<1>1. PICK k : k = cur[p].k
  OBVIOUS
<1>2. pc[p] = "closetest" /\ k \in Pipes
  BY <1>1, InPipe, Zenon DEF CloseTest, At
<1>3. CASE Return(p) /\ UNCHANGED <<ofile, file, pipe>>
  <2>1. pc'[p] \in {"unused", "user", "exit", "undo2"} /\ pc[p] # "pipeclose"
    BY <1>2, <1>3, AParts DEF Return, Goto, CallType
  <2>2. \A r \in Procs \ {p} : Woken(r)
    <3>1. pc[p] \in {"closetest", "closefree"}
      BY <1>2
    <3> QED BY <1>3, <3>1, ReturnHand
  <2> QED BY <1>3, <2>1, <2>2, ExitB, Zenon
<1>4. CASE UNCHANGED <<ofile, file, pipe, pc, cur>>
  BY <1>4, StillB, Zenon
<1>5. CASE /\ pipe[k].readopen = 0 /\ pipe[k].writeopen = 0
           /\ \A r \in Procs : ~(pc[r] = "closefree" /\ cur[r].k = k)
           /\ Goto(p, "closefree") /\ UNCHANGED <<ofile, file, pipe, cur>>
  <2>1. pc'[p] = "closefree" /\ \A r \in Procs \ {p} : pc'[r] = pc[r]
    BY <1>5, AParts DEF Goto
  <2>2. \A r \in Procs \ {p} : Woken(r) /\ \A fd \in Fds : ofile'[r][fd] = ofile[r][fd]
    BY <1>5, <2>1, Zenon DEF Woken
  <2>3. \A j \in Pipes : SameFlags(j)
    BY <1>5, Zenon DEF SameFlags
  <2>4. \A j \in Pipes, w \in {0, 1} : Ends(j, w)' = Ends(j, w)
    BY <1>5, Zenon DEF Ends
  <2>5. \A j \in Pipes, w \in {0, 1} : Closing(j, w)' = Closing(j, w)
    BY <1>2, <1>5, <2>1 DEF Closing
  <2>6. pipe[k].used
    BY <1>2, <1>5, ShutPage, Zenon
  <2>7. PageOK(k)'
    <3>1. PageOK(k) /\ SameFlags(k)
      BY <1>2, <2>3 DEF PipesOK
    <3> QED BY <1>2, <2>4, <2>5, <3>1, PageSame, Zenon
  <2>8. \A f \in FileIds : EndOK(f)'
    BY <1>5, Zenon DEF PipesOK, EndOK
  <2>9. \A r \in Procs \ {p} : pc[r] = "closefree" => cur[r].k # cur'[p].k
    BY <1>1, <1>5, Zenon
  <2>10. CallOK(p)'
    <3>1. ASSUME NEW r \in Procs, pc'[r] = "closefree", cur'[r].k = cur'[p].k
          PROVE  r = p
      BY <1>5, <2>1, <2>9, <3>1, Zenon
    <3>2. /\ pc'[p] # "pipeclose" /\ pc'[p] \notin {"piperead", "readsleep"}
          /\ pc'[p] \notin {"pipewrite", "writesleep"}
      BY <2>1
    <3> QED BY <1>1, <1>5, <2>6, <3>1, <3>2, Zenon DEF CallOK
  <2>11. \A w \in {0, 1} : Ends(k, w) \subseteq Ends(k, w)'
    BY <1>2, <2>4, Zenon
  <2>12. \A r \in Procs : ~(pc[r] = "closefree" /\ cur[r].k = k) /\ pipe'[k].used
    BY <1>5, <2>6, Zenon
  <2>13. /\ \A r \in Procs \ {p} : pc[r] = "pipeclose" /\ cur[r].k = k => pipe'[k].used
         /\ \A r \in Procs \ {p} : pc[r] = "closefree" /\ cur[r].k = k =>
              pipe'[k].used /\ pipe'[k].readopen = 0 /\ pipe'[k].writeopen = 0
         /\ pc'[p] = "closefree" => \A r \in Procs \ {p} : pc[r] = "closefree" => cur[r].k # cur'[p].k
         /\ \A j \in Pipes \ {k}, w \in {0, 1} :
              Ends(j, w)' = Ends(j, w) /\ Closing(j, w)' = Closing(j, w)
         /\ \A j \in Pipes \ {k} : SameFlags(j)
    BY <2>3, <2>4, <2>5, <2>9, <2>12, Zenon
  <2> QED BY <1>2, <2>2, <2>7, <2>8, <2>10, <2>11, <2>13, OnePageB, Zenon
<1>6. pipe[k] \in PipeRec
  BY <1>2, AParts
<1>7. pipe[k].readopen # 0 \/ pipe[k].writeopen # 0 \/ (pipe[k].readopen = 0 /\ pipe[k].writeopen = 0)
  BY Zenon
<1> QED BY <1>1, <1>3, <1>4, <1>5, <1>7, Zenon DEF CloseTest, Panic

\* What kfree leaves in a page's flags.
LEMMA JunkFlags == ~Junk.used /\ Junk.readopen = 1
<1>1. Junk.used = FALSE
  BY Zenon DEF Junk
<1>2. Junk.readopen = 1
  BY DEF Junk
<1> QED BY <1>1, <1>2

\* kfree: nobody has to do with the page any more.
LEMMA FreeB ==
  ASSUME AInv, PipesOK, NEW p \in Procs, CloseFree(p)
  PROVE  PipesOK'
<1>1. PICK k : k = cur[p].k
  BY Zenon
<1>2. /\ pc[p] = "closefree" /\ pipe' = [pipe EXCEPT ![k] = Junk] /\ Return(p)
      /\ UNCHANGED <<ofile, file>>
  BY <1>1, Zenon DEF CloseFree, At
<1>3. k \in Pipes
  BY <1>1, <1>2, InPipe, Zenon
<1>4. /\ pipe[k].readopen = 0 /\ pipe[k].writeopen = 0
      /\ \A r \in Procs : pc[r] = "closefree" /\ cur[r].k = k => r = p
  BY <1>1, <1>2, Zenon DEF PipesOK, CallOK
<1>5. \A w \in {0, 1} : Ends(k, w) = {} /\ Closing(k, w) = {}
  BY <1>3, <1>4, ShutPage, Zenon
<1>6. ~pipe'[k].used /\ pipe'[k].readopen = 1 /\ \A j \in Pipes \ {k} : pipe'[j] = pipe[j]
  <2>1. pipe'[k] = Junk /\ \A j \in Pipes \ {k} : pipe'[j] = pipe[j]
    BY <1>2, <1>3, AParts, Zenon
  <2> QED BY <2>1, JunkFlags, Zenon
<1>7. pc'[p] \in {"user", "exit", "undo2"}
  BY <1>2, AParts DEF Return, Goto, CallType
<1>8. \A r \in Procs \ {p} : Woken(r) /\ \A fd \in Fds : ofile'[r][fd] = ofile[r][fd]
  <2>1. pc[p] \in {"closetest", "closefree"}
    BY <1>2
  <2> QED BY <1>2, <2>1, ReturnHand, Zenon
<1>9. \A j \in Pipes, w \in {0, 1} : Ends(j, w)' = Ends(j, w)
  BY <1>2, Zenon DEF Ends
<1>10. \A j \in Pipes, w \in {0, 1} : Closing(j, w)' = Closing(j, w)
  BY <1>2, <1>7, <1>8 DEF Closing, Woken
<1>11. PageOK(k)'
  <2>1. \A w \in {0, 1} : Ends(k, w)' = {} /\ Closing(k, w)' = {}
    BY <1>3, <1>5, <1>9, <1>10
  <2>2. \A w \in {0, 1} : /\ \A f, g \in Ends(k, w)' : f = g
                          /\ \A q, r \in Closing(k, w)' : q = r
    BY <2>1, Zenon
  <2> QED BY <1>6, <2>1, <2>2, Zenon DEF PageOK
<1>12. \A f \in FileIds : EndOK(f)'
  <2> SUFFICES ASSUME NEW f \in FileIds
               PROVE  EndOK(f)'
    BY Zenon
  <2>1. EndOK(f) /\ file'[f] = file[f] /\ file[f] \in FileRec
    BY <1>2, AParts, Zenon DEF PipesOK
  <2>2. file[f].type = "PIPE" => file[f].pipe \in Pipes
    BY AParts DEF RefsOK, RefOK
  <2>3. file[f].type = "PIPE" => file[f].pipe # k
    <3>1. file[f].writable \in {0, 1}
      BY <2>1 DEF FileRec
    <3>2. f \notin Ends(k, file[f].writable)
      BY <1>5, <3>1, Zenon
    <3> QED BY <3>2, Zenon DEF Ends
  <2>4. file[f].type = "PIPE" => pipe'[file[f].pipe] = pipe[file[f].pipe]
    BY <1>6, <2>2, <2>3, Zenon
  <2> QED BY <2>1, <2>4, Zenon DEF EndOK
<1>13. CallOK(p)' /\ pc'[p] # "closefree"
  BY <1>7 DEF CallOK
<1>14. \A r \in Procs \ {p} : ~(pc[r] = "closefree" /\ cur[r].k = k)
                              /\ ~(pc[r] = "pipeclose" /\ cur[r].k = k)
  <2>1. \A r \in Procs : cur[r].w \in {0, 1}
    BY AParts DEF CallType
  <2> QED BY <1>4, <1>5, <2>1, Zenon DEF Closing
<1>15. \A j \in Pipes \ {k} : SameFlags(j)
  BY <1>6, Zenon DEF SameFlags
<1>16. \A w \in {0, 1} : Ends(k, w) \subseteq Ends(k, w)'
  BY <1>5, Zenon
<1>17. /\ \A r \in Procs \ {p} : pc[r] = "pipeclose" /\ cur[r].k = k => pipe'[k].used
       /\ \A r \in Procs \ {p} : pc[r] = "closefree" /\ cur[r].k = k =>
            pipe'[k].used /\ pipe'[k].readopen = 0 /\ pipe'[k].writeopen = 0
       /\ pc'[p] = "closefree" => \A r \in Procs \ {p} : pc[r] = "closefree" => cur[r].k # cur'[p].k
       /\ \A j \in Pipes \ {k}, w \in {0, 1} :
            Ends(j, w)' = Ends(j, w) /\ Closing(j, w)' = Closing(j, w)
       /\ \A j \in Pipes \ {k} : SameFlags(j)
  BY <1>9, <1>10, <1>13, <1>14, <1>15, Zenon
<1> QED BY <1>3, <1>8, <1>11, <1>12, <1>13, <1>16, <1>17, OnePageB, Zenon

\* exit and kill
LEMMA ExitKillB ==
  ASSUME AInv, PipesOK, NEW p \in Procs, Exit(p) \/ Kill(p)
  PROVE  PipesOK'
<1>1. CASE Exit(p)
  <2>1. /\ pc[p] = "user" /\ pc' = [pc EXCEPT ![p] = "exit"] /\ UNCHANGED <<ofile, file, pipe, cur>>
    BY <1>1, Zenon DEF Exit, At, Goto
  <2>2. pc'[p] = "exit" /\ \A r \in Procs \ {p} : pc'[r] = pc[r]
    BY <2>1, AParts
  <2>3. \A r \in Procs \ {p} : Woken(r)
    BY <2>1, <2>2, Zenon DEF Woken
  <2>4. pc[p] # "pipeclose" /\ pc'[p] \in {"unused", "user", "exit", "undo2"}
    BY <2>1, <2>2
  <2> QED BY <2>1, <2>3, <2>4, ExitB, Zenon
<1>2. CASE Kill(p)
  BY <1>2, StillB, Zenon DEF Kill
<1> QED BY <1>1, <1>2, Zenon

\* No pipe at boot.
LEMMA InitB ==
  ASSUME Init
  PROVE  PipesOK
<1>1. /\ \A f \in FileIds : file[f].type = "CLOSED"
      /\ \A p \in Procs : pc[p] \in {"user", "unused"}
  BY Zenon DEF Init, Closed
<1>2. \A k \in Pipes : ~pipe[k].used /\ pipe[k].readopen = 1
  <2>1. \A k \in Pipes : pipe[k] = Junk
    BY Zenon DEF Init
  <2> QED BY <2>1, JunkFlags, Zenon
<1>3. \A k \in Pipes, w \in {0, 1} : Ends(k, w) = {} /\ Closing(k, w) = {}
  BY <1>1 DEF Ends, Closing
<1>4. \A f \in FileIds : EndOK(f)
  BY <1>1, Zenon DEF EndOK
<1>5. \A p \in Procs : CallOK(p)
  BY <1>1 DEF CallOK
<1>6. \A k \in Pipes : PageOK(k)
  <2> SUFFICES ASSUME NEW k \in Pipes
               PROVE  PageOK(k)
    BY Zenon
  <2>1. \A w \in {0, 1} : /\ \A f, g \in Ends(k, w) : f = g
                          /\ \A q, r \in Closing(k, w) : q = r
                          /\ Ends(k, w) = {}
    BY <1>3, Zenon
  <2> QED BY <1>2, <2>1, Zenon DEF PageOK
<1> QED BY <1>4, <1>5, <1>6, Zenon DEF PipesOK

-----------------------------------------------------------------------------
(* Sleepers *)

\* What process p sleeps for has not happened, or a killed writer did not say so.
Asleep(p) ==
  LET q == pipe[cur[p].k] IN
    /\ pc[p] = "readsleep" => q.writeopen = 1 /\ (Count(q) = 0 \/ cur[p].k \in missed)
    /\ pc[p] = "writesleep" => Count(q) = PIPESIZE /\ q.readopen = 1

SleepersOK == \A p \in Procs : Asleep(p)

FilesInv == AInv /\ PipesOK /\ SleepersOK

-----------------------------------------------------------------------------
(* The sleepers *)

\* A pipe that someone sleeps over is there, and open at the sleeper's end.
LEMMA SleeperPage ==
  ASSUME AInv, PipesOK, NEW r \in Procs, pc[r] \in {"readsleep", "writesleep"}
  PROVE  /\ cur[r].k \in Pipes /\ pipe[cur[r].k].used
         /\ pc[r] = "readsleep" => pipe[cur[r].k].readopen = 1
         /\ pc[r] = "writesleep" => pipe[cur[r].k].writeopen = 1
<1>1. PICK k \in Pipes : k = cur[r].k
  BY InPipe, Zenon
<1>2. PICK w \in {0, 1} : pc[r] = (IF w = 0 THEN "readsleep" ELSE "writesleep") /\ HasEnd(r, k, w)
  <2>1. CallOK(r) /\ 0 \in {0, 1} /\ 1 \in {0, 1} /\ 0 # 1
    BY DEF PipesOK
  <2>2. CASE pc[r] = "readsleep"
    BY <1>1, <2>1, <2>2, Zenon DEF CallOK
  <2>3. CASE pc[r] = "writesleep"
    BY <1>1, <2>1, <2>3, Zenon DEF CallOK
  <2> QED BY <2>2, <2>3, Zenon
<1>3. PICK f \in FileIds : f \in Ends(k, w)
  BY <1>2, Zenon DEF HasEnd, Ends
<1>4. pipe[k].used
  BY <1>3, Zenon DEF Ends, PipesOK, EndOK
<1>5. PageOK(k) /\ Ends(k, w) \cup Closing(k, w) # {}
  BY <1>3, Zenon DEF PipesOK
<1>6. /\ w = 0 => pipe[k].readopen = 1
      /\ w = 1 => pipe[k].writeopen = 1
  BY <1>4, <1>5, Zenon DEF PageOK
<1>7. pc[r] = "readsleep" => w = 0
  BY <1>2, Zenon
<1>8. pc[r] = "writesleep" => w = 1
  BY <1>2, Zenon
<1> QED BY <1>1, <1>4, <1>6, <1>7, <1>8, Zenon

\* A process whose pipe stays as it is sleeps on, or is awake.
LEMMA SleepKept ==
  ASSUME NEW r \in Procs, Asleep(r),
         pc'[r] \in {"readsleep", "writesleep"} => pc'[r] = pc[r] /\ cur'[r] = cur[r],
         pc'[r] = "readsleep" => /\ pipe'[cur[r].k].writeopen = pipe[cur[r].k].writeopen
                                 /\ Count(pipe'[cur[r].k]) = Count(pipe[cur[r].k])
                                 /\ cur[r].k \in missed => cur[r].k \in missed',
         pc'[r] = "writesleep" => /\ pipe'[cur[r].k].readopen = pipe[cur[r].k].readopen
                                  /\ Count(pipe'[cur[r].k]) = Count(pipe[cur[r].k])
  PROVE  Asleep(r)'
<1>1. pc'[r] = "readsleep" => /\ pipe'[cur'[r].k].writeopen = 1
                              /\ Count(pipe'[cur'[r].k]) = 0 \/ cur'[r].k \in missed'
  <2> SUFFICES ASSUME pc'[r] = "readsleep"
               PROVE  /\ pipe'[cur'[r].k].writeopen = 1
                      /\ Count(pipe'[cur'[r].k]) = 0 \/ cur'[r].k \in missed'
    BY Zenon
  <2>1. pc[r] = "readsleep" /\ cur'[r] = cur[r]
    BY Zenon
  <2> QED BY <2>1, Zenon DEF Asleep
<1>2. pc'[r] = "writesleep" => Count(pipe'[cur'[r].k]) = PIPESIZE /\ pipe'[cur'[r].k].readopen = 1
  <2> SUFFICES ASSUME pc'[r] = "writesleep"
               PROVE  Count(pipe'[cur'[r].k]) = PIPESIZE /\ pipe'[cur'[r].k].readopen = 1
    BY Zenon
  <2>1. pc[r] = "writesleep" /\ cur'[r] = cur[r]
    BY Zenon
  <2> QED BY <2>1, Zenon DEF Asleep
<1> QED BY <1>1, <1>2, Zenon DEF Asleep, Count

\* A step that moves p only, and changes no pipe that someone sleeps over.
LEMMA MoveC ==
  ASSUME SleepersOK, NEW p \in Procs, pc'[p] \notin {"readsleep", "writesleep"}, UNCHANGED missed,
         \A r \in Procs \ {p} : pc'[r] = pc[r] /\ cur'[r] = cur[r],
         \A r \in Procs \ {p} : pc[r] \in {"readsleep", "writesleep"} =>
           pipe'[cur[r].k] = pipe[cur[r].k]
  PROVE  SleepersOK'
<1>1. Asleep(p)'
  BY Zenon DEF Asleep
<1>2. ASSUME NEW r \in Procs \ {p}
      PROVE  Asleep(r)'
  <2>1. Asleep(r) /\ pc'[r] = pc[r] /\ cur'[r] = cur[r]
    BY Zenon DEF SleepersOK
  <2>2. pc[r] = "readsleep" => pc[r] \in {"readsleep", "writesleep"}
    BY Zenon
  <2>3. pc[r] = "writesleep" => pc[r] \in {"readsleep", "writesleep"}
    BY Zenon
  <2> QED BY <2>1, <2>2, <2>3, SleepKept, Zenon
<1> QED BY <1>1, <1>2, Zenon DEF SleepersOK

\* Steps that move nobody.
LEMMA StillC ==
  ASSUME SleepersOK, UNCHANGED <<pipe, pc, cur, missed>>
  PROVE  SleepersOK'
<1> SUFFICES ASSUME NEW r \in Procs
             PROVE  Asleep(r)'
  BY Zenon DEF SleepersOK
<1>1. Asleep(r)
  BY Zenon DEF SleepersOK
<1> QED BY <1>1, SleepKept, Zenon

\* open, dup, fork, pipe, exit, kill, and read and write as they enter pipe.c
LEMMA CallsC ==
  ASSUME AInv, SleepersOK, NEW p \in Procs,
         Open(p) \/ Dup(p) \/ Fork(p) \/ PipeCall(p) \/ PipeAlloc1(p) \/ Read(p) \/ Write(p)
           \/ Exit(p) \/ Kill(p)
  PROVE  SleepersOK'
<1>1. CASE UNCHANGED <<pipe, pc, cur, missed>>
  BY <1>1, StillC, Zenon
<1>2. CASE Fork(p)
  <2>1. PICK c \in Procs : pc' = [pc EXCEPT ![c] = "user"] /\ UNCHANGED <<pipe, cur, missed>>
    BY <1>2, Zenon DEF Fork, Goto
  <2>2. pc'[c] \notin {"readsleep", "writesleep"} /\ \A r \in Procs \ {c} : pc'[r] = pc[r]
    BY <2>1, AParts, Zenon
  <2> QED BY <2>1, <2>2, MoveC, Zenon
<1>3. CASE PipeCall(p) \/ PipeAlloc1(p) \/ Read(p) \/ Write(p)
  <2>1. \/ UNCHANGED <<pipe, pc, cur, missed>>
        \/ /\ \E x, l : /\ cur' = [cur EXCEPT ![p] = x] /\ pc' = [pc EXCEPT ![p] = l]
                        /\ l \in {"pipealloc1", "pipealloc2", "piperead", "pipewrite"}
           /\ UNCHANGED <<pipe, missed>>
    <3>1. CASE PipeCall(p)
      BY <3>1, Zenon DEF PipeCall, Goto
    <3>2. CASE PipeAlloc1(p)
      BY <3>2, Zenon DEF PipeAlloc1, Goto, Panic
    <3>3. CASE Read(p)
      BY <3>3, Zenon DEF Read, Goto
    <3>4. CASE Write(p)
      BY <3>4, Zenon DEF Write, Goto
    <3> QED BY <1>3, <3>1, <3>2, <3>3, <3>4, Zenon
  <2>2. CASE /\ \E x, l : /\ cur' = [cur EXCEPT ![p] = x] /\ pc' = [pc EXCEPT ![p] = l]
                          /\ l \in {"pipealloc1", "pipealloc2", "piperead", "pipewrite"}
             /\ UNCHANGED <<pipe, missed>>
    <3>1. /\ pc'[p] \notin {"readsleep", "writesleep"}
          /\ \A r \in Procs \ {p} : pc'[r] = pc[r] /\ cur'[r] = cur[r]
      BY <2>2, AParts, Zenon
    <3> QED BY <2>2, <3>1, MoveC, Zenon
  <2> QED BY <1>1, <2>1, <2>2, Zenon
<1>4. CASE Exit(p)
  <2>1. pc' = [pc EXCEPT ![p] = "exit"] /\ UNCHANGED <<pipe, cur, missed>>
    BY <1>4, Zenon DEF Exit, Goto
  <2>2. pc'[p] \notin {"readsleep", "writesleep"} /\ \A r \in Procs \ {p} : pc'[r] = pc[r]
    BY <2>1, AParts, Zenon
  <2> QED BY <2>1, <2>2, MoveC, Zenon
<1>5. CASE Kill(p)
  BY <1>1, <1>5, Zenon DEF Kill
<1>6. CASE Open(p)
  BY <1>1, <1>6, Zenon DEF Open, Panic
<1>7. CASE Dup(p)
  BY <1>1, <1>7, Zenon DEF Dup, Panic
<1> QED BY <1>2, <1>3, <1>4, <1>5, <1>6, <1>7, Zenon

\* fileclose wakes nobody itself.
LEMMA CloseC ==
  ASSUME AInv, SleepersOK, NEW p \in Procs, Close(p) \/ ExitClose(p) \/ Undo1(p) \/ Undo2(p)
  PROVE  SleepersOK'
<1>0. UNCHANGED missed
  <2>1. ASSUME NEW f, NEW then, FileClose(p, f, then)
        PROVE  UNCHANGED missed
    BY <2>1, Zenon DEF FileClose, Panic
  <2> QED BY <2>1, Zenon DEF Close, ExitClose, Undo1, Undo2
<1>1. CASE DropRef(p)
  BY <1>0, <1>1, StillC, Zenon DEF DropRef
<1>2. CASE \E f \in FileIds : \E then : LastClose(p, f, then)
  <2>1. PICK f \in FileIds : \E then : LastClose(p, f, then)
    BY <1>2, Zenon
  <2>2. PICK then : LastClose(p, f, then)
    BY <2>1, Zenon
  <2>3. /\ pc' = [pc EXCEPT ![p] = "pipeclose"] /\ UNCHANGED pipe
        /\ cur' = [cur EXCEPT ![p] = [k |-> file[f].pipe, n |-> @.n, w |-> EndOf(f), then |-> then]]
    BY <2>2, Zenon DEF LastClose, Goto
  <2>4. /\ pc'[p] \notin {"readsleep", "writesleep"}
        /\ \A r \in Procs \ {p} : pc'[r] = pc[r] /\ cur'[r] = cur[r]
    BY <2>3, AParts, Zenon
  <2> QED BY <1>0, <2>3, <2>4, MoveC, Zenon
<1>3. CASE /\ pc' = [pc EXCEPT ![p] = "unused"]
           /\ killed' = [killed EXCEPT ![p] = FALSE] /\ UNCHANGED <<pipe, cur>>
  <2>1. pc'[p] \notin {"readsleep", "writesleep"} /\ \A r \in Procs \ {p} : pc'[r] = pc[r]
    BY <1>3, AParts, Zenon
  <2> QED BY <1>0, <1>3, <2>1, MoveC, Zenon
<1> QED BY <1>1, <1>2, <1>3, ClosesFd, ClosesHeld, Zenon

\* pipealloc: nobody sleeps over a page that is no pipe.
LEMMA AllocC ==
  ASSUME AInv, PipesOK, SleepersOK, NEW p \in Procs, PipeAlloc2(p)
  PROVE  SleepersOK'
<1>0. UNCHANGED missed
  BY Zenon DEF PipeAlloc2, Panic
<1>1. CASE Panic("fileclose")
  BY <1>1, StillC, Zenon DEF Panic
<1>2. CASE /\ pc[p] = "pipealloc2"
           /\ \E k \in Pipes, rf, wf \in FileIds :
                rf = cur[p].k /\ wf = cur[p].n /\ rf # wf /\ AllocStep(p, k, rf, wf)
  <2>1. PICK k \in Pipes :
          /\ ~pipe[k].used /\ pipe' = [pipe EXCEPT ![k] = [Junk EXCEPT !.used = TRUE]]
          /\ \/ Goto(p, "user") /\ cur' = [cur EXCEPT ![p] = NoCall]
             \/ Goto(p, "undo1") /\ UNCHANGED cur
    BY <1>2, Zenon DEF AllocStep
  <2>2. /\ pc'[p] \notin {"readsleep", "writesleep"}
        /\ \A r \in Procs \ {p} : pc'[r] = pc[r] /\ cur'[r] = cur[r]
    BY <2>1, AParts, Zenon DEF Goto
  <2>3. ASSUME NEW r \in Procs \ {p}, pc[r] \in {"readsleep", "writesleep"}
        PROVE  pipe'[cur[r].k] = pipe[cur[r].k]
    <3>1. cur[r].k \in Pipes /\ cur[r].k # k
      BY <2>1, <2>3, SleeperPage, Zenon
    <3> QED BY <2>1, <3>1, AParts, Zenon
  <2> QED BY <1>0, <2>2, <2>3, MoveC, Zenon
<1> QED BY <1>1, <1>2, Allocs, Zenon

\* pipeclose's return
LEMMA ReturnMoves ==
  ASSUME AInv, NEW p \in Procs, Return(p)
  PROVE  /\ pc'[p] \notin {"readsleep", "writesleep"}
         /\ \A r \in Procs \ {p} : pc'[r] = pc[r] /\ cur'[r] = cur[r]
<1>1. cur[p].then \in {"user", "exit", "undo2"}
  BY AParts, Zenon DEF CallType
<1>2. pc'[p] = cur[p].then /\ \A r \in Procs \ {p} : pc'[r] = pc[r] /\ cur'[r] = cur[r]
  BY AParts, Zenon DEF Return, Goto
<1>3. pc'[p] \notin {"readsleep", "writesleep"}
  BY <1>1, <1>2, Zenon
<1> QED BY <1>2, <1>3, Zenon

\* pipeclose after the unlock, and kfree: nobody sleeps over a page that is
\* shut at both ends.
LEMMA FreeC ==
  ASSUME AInv, PipesOK, SleepersOK, NEW p \in Procs, CloseTest(p) \/ CloseFree(p)
  PROVE  SleepersOK'
<1>0. UNCHANGED missed
  BY Zenon DEF CloseTest, CloseFree, Panic
<1>1. CASE CloseTest(p)
  <2>1. CASE Return(p) /\ UNCHANGED pipe
    BY <1>0, <2>1, ReturnMoves, MoveC, Zenon
  <2>2. CASE Goto(p, "closefree") /\ UNCHANGED <<pipe, cur>>
    <3>1. pc'[p] \notin {"readsleep", "writesleep"} /\ \A r \in Procs \ {p} : pc'[r] = pc[r]
      BY <2>2, AParts, Zenon DEF Goto
    <3> QED BY <1>0, <2>2, <3>1, MoveC, Zenon
  <2>3. CASE UNCHANGED <<pipe, pc, cur>>
    BY <1>0, <2>3, StillC, Zenon
  <2> QED BY <1>1, <2>1, <2>2, <2>3, Zenon DEF CloseTest, Panic
<1>2. CASE CloseFree(p)
  <2>1. PICK k : k = cur[p].k
    BY Zenon
  <2>2. pc[p] = "closefree" /\ pipe' = [pipe EXCEPT ![k] = Junk] /\ Return(p)
    BY <1>2, <2>1, Zenon DEF CloseFree, At
  <2>3. pipe[k].readopen = 0 /\ pipe[k].writeopen = 0
    BY <2>1, <2>2, Zenon DEF PipesOK, CallOK
  <2>4. ASSUME NEW r \in Procs \ {p}, pc[r] \in {"readsleep", "writesleep"}
        PROVE  pipe'[cur[r].k] = pipe[cur[r].k]
    <3>1. /\ cur[r].k \in Pipes
          /\ pc[r] = "readsleep" => pipe[cur[r].k].readopen = 1
          /\ pc[r] = "writesleep" => pipe[cur[r].k].writeopen = 1
      BY <2>4, SleeperPage, Zenon
    <3>2. cur[r].k # k
      BY <2>3, <2>4, <3>1
    <3> QED BY <2>2, <3>1, <3>2, AParts, Zenon
  <2> QED BY <1>0, <2>2, <2>4, ReturnMoves, MoveC, Zenon
<1> QED BY <1>1, <1>2, Zenon

\* pipeclose, under the lock: whoever sleeps for the end that shuts is awake.
LEMMA ShutC ==
  ASSUME AInv, PipesOK, SleepersOK, NEW p \in Procs, PipeClose(p)
  PROVE  SleepersOK'
<1>1. PICK k, w : k = cur[p].k /\ w = cur[p].w
  BY Zenon
<1>2. /\ pc[p] = "pipeclose" /\ pc'[p] = "closetest" /\ k \in Pipes /\ w \in {0, 1}
      /\ UNCHANGED <<ofile, file, cur, killed>>
      /\ \A j \in Pipes \ {k} : pipe'[j] = pipe[j]
      /\ pipe'[k].readopen = IF w = 0 THEN 0 ELSE pipe[k].readopen
      /\ pipe'[k].writeopen = IF w = 1 THEN 0 ELSE pipe[k].writeopen
      /\ Count(pipe'[k]) = Count(pipe[k])
      /\ w = 1 => WokeReaders(p, k)
      /\ w = 0 => WokeWriters(p, k)
  BY <1>1, ShutStep
<1>3. Asleep(p)'
  <2>1. pc'[p] # "readsleep" /\ pc'[p] # "writesleep"
    BY <1>2, Zenon
  <2> QED BY <2>1, Zenon DEF Asleep
<1>4. \A j : j \in missed /\ (j # k \/ w # 1) => j \in missed'
  <2>1. missed' = missed \/ (w = 1 /\ missed' = missed \ {k})
    BY <1>1, Zenon DEF PipeClose
  <2> QED BY <2>1, Zenon
<1>5. ASSUME NEW r \in Procs \ {p}
      PROVE  Asleep(r)'
  <2>1. Asleep(r) /\ cur'[r] = cur[r]
    BY <1>2, Zenon DEF SleepersOK
  <2>2. pc'[r] \in {"readsleep", "writesleep"} => pc'[r] = pc[r] /\ cur[r].k \in Pipes
    BY <1>2, InPipe, Zenon DEF WokeReaders, WokeWriters
  <2>3. pc'[r] = "readsleep" => /\ pipe'[cur[r].k].writeopen = pipe[cur[r].k].writeopen
                                /\ Count(pipe'[cur[r].k]) = Count(pipe[cur[r].k])
    <3>1. pc'[r] = "readsleep" /\ cur[r].k = k => w # 1
      BY <1>2, Zenon DEF WokeReaders
    <3>2. pc'[r] = "readsleep" => cur[r].k \in Pipes
      BY <2>2, Zenon
    <3> QED BY <1>2, <3>1, <3>2, Zenon
  <2>4. pc'[r] = "writesleep" => /\ pipe'[cur[r].k].readopen = pipe[cur[r].k].readopen
                                 /\ Count(pipe'[cur[r].k]) = Count(pipe[cur[r].k])
    <3>1. pc'[r] = "writesleep" /\ cur[r].k = k => w # 0
      BY <1>2, Zenon DEF WokeWriters
    <3>2. pc'[r] = "writesleep" => cur[r].k \in Pipes
      BY <2>2, Zenon
    <3> QED BY <1>2, <3>1, <3>2, Zenon
  <2>5. pc'[r] = "readsleep" => (cur[r].k \in missed => cur[r].k \in missed')
    <3>1. pc'[r] = "readsleep" /\ cur[r].k = k => w # 1
      BY <1>2, Zenon DEF WokeReaders
    <3> QED BY <1>4, <3>1, Zenon
  <2> QED BY <2>1, <2>2, <2>3, <2>4, <2>5, SleepKept, Zenon
<1> QED BY <1>3, <1>5, Zenon DEF SleepersOK

\* Nothing more goes into a full pipe.
LEMMA WriteFull ==
  ASSUME AInv, NEW p \in Procs, PipeWrite(p), NEW k, k = cur[p].k, Count(pipe[k]) = PIPESIZE
  PROVE  Count(pipe'[k]) = PIPESIZE
<1> DEFINE n == cur[p].n
           m == IF n < Room(pipe[k]) THEN n ELSE Room(pipe[k])
<1>1. pc[p] = "pipewrite" /\ pipe' = [pipe EXCEPT ![k] = Put(@, m)]
  BY Zenon DEF PipeWrite, At
<1>2. k \in Pipes /\ n \in Nat
  BY <1>1, InPipe, Zenon
<1>3. pipe[k] \in PipeRec /\ Ordered(pipe[k]) /\ pipe \in [Pipes -> PipeRec]
  BY <1>2, AParts, Zenon
<1>m. m = IF n < Room(pipe[k]) THEN n ELSE Room(pipe[k])
  BY Zenon
<1> HIDE DEF m, n
<1>4. m \in 0..Room(pipe[k])
  BY <1>2, <1>3, <1>m, WriteSize, Zenon
<1> DEFINE t == Put(pipe[k], m)
<1>5. Count(t) = Count(pipe[k]) + m
  BY <1>3, <1>4, Added, Zenon
<1>6. pipe' = [pipe EXCEPT ![k] = t]
  BY <1>1, Zenon
<1> HIDE DEF t
<1>7. pipe'[k] = t
  BY <1>2, <1>3, <1>6, Zenon
<1>8. m = 0 /\ PIPESIZE \in Int
  BY <1>4, Sizes DEF Room
<1> QED BY <1>5, <1>7, <1>8

\* Nothing comes out of an empty one.
LEMMA ReadEmpty ==
  ASSUME AInv, NEW p \in Procs, PipeRead(p), NEW k, k = cur[p].k, Count(pipe[k]) = 0
  PROVE  Count(pipe'[k]) = 0
<1> DEFINE q == pipe[k]
           m == IF cur[p].n < Count(q) THEN cur[p].n ELSE Count(q)
           t == [q EXCEPT !.readp = (@ + m) % Wrap]
<1>1. /\ pc[p] = "piperead"
      /\ pipe' = pipe \/ pipe' = [pipe EXCEPT ![k].readp = (@ + m) % Wrap]
  BY Zenon DEF PipeRead, At
<1>2. k \in Pipes /\ cur[p].n \in Nat
  BY <1>1, InPipe, Zenon
<1>3. q \in PipeRec /\ Ordered(q) /\ pipe \in [Pipes -> PipeRec]
  BY <1>2, AParts, Zenon
<1>4. m = 0 /\ m \in 0..Count(q)
  BY <1>2
<1> HIDE DEF m
<1>5. Count(t) = Count(q) - m
  BY <1>3, <1>4, Taken, Zenon
<1>6. pipe' = pipe \/ pipe' = [pipe EXCEPT ![k] = t]
  BY <1>1, Zenon
<1> HIDE DEF t
<1>7. pipe'[k] = pipe[k] \/ pipe'[k] = t
  BY <1>2, <1>3, <1>6, Zenon
<1>8. Count(t) = 0
  BY <1>4, <1>5
<1> QED BY <1>7, <1>8, Zenon

\* pipewrite: readers are awake, or the writer was killed.
LEMMA WriteC ==
  ASSUME AInv, PipesOK, SleepersOK, NEW p \in Procs, PipeWrite(p)
  PROVE  SleepersOK'
<1>1. PICK k : k = cur[p].k
  BY Zenon
<1>2. /\ pc[p] = "pipewrite" /\ k \in Pipes /\ RingStep(k)
      /\ \A j \in Pipes \ {k} : j \in missed => j \in missed'
      /\ \/ pc'[p] = "user" /\ WokeReaders(p, k)
         \/ /\ pc'[p] = "user" /\ Stay(p) /\ (pipe[k].readopen = 0 \/ killed[p])
            /\ killed[p] => k \in missed'
         \/ /\ pc'[p] = "writesleep" /\ cur'[p].k = k /\ WokeReaders(p, k)
            /\ Count(pipe'[k]) = PIPESIZE /\ pipe[k].readopen # 0
  BY <1>1, WriteStep, Zenon
<1>3. /\ \A j \in Pipes \ {k} : pipe'[j] = pipe[j]
      /\ pipe'[k].readopen = pipe[k].readopen /\ pipe'[k].writeopen = pipe[k].writeopen
  BY <1>2, Zenon DEF RingStep, SameFlags
<1>4. pipe[k].readopen # 0 => pipe[k].readopen = 1
  BY <1>2, AParts, Zenon DEF PipeRec
<1>5. Asleep(p)'
  <2>1. pc'[p] # "readsleep"
    BY <1>2, Zenon
  <2>2. pc'[p] = "writesleep" => cur'[p].k = k /\ Count(pipe'[k]) = PIPESIZE /\ pipe[k].readopen # 0
    BY <1>2, Zenon
  <2>3. pc'[p] = "writesleep" => Count(pipe'[cur'[p].k]) = PIPESIZE /\ pipe'[cur'[p].k].readopen = 1
    BY <1>3, <1>4, <2>2, Zenon
  <2> QED BY <2>1, <2>3, Zenon DEF Asleep, Count
<1>6. ASSUME NEW r \in Procs \ {p}
      PROVE  Asleep(r)'
  <2>1. Asleep(r) /\ cur'[r] = cur[r]
    BY <1>2, Zenon DEF SleepersOK, WokeReaders, Stay
  <2>2. pc'[r] \in {"readsleep", "writesleep"} => pc'[r] = pc[r] /\ cur[r].k \in Pipes
    BY <1>2, InPipe, Zenon DEF WokeReaders, Stay
  <2>3. pc'[r] = "writesleep" => /\ pipe'[cur[r].k].readopen = pipe[cur[r].k].readopen
                                 /\ Count(pipe'[cur[r].k]) = Count(pipe[cur[r].k])
    <3>1. pc'[r] = "writesleep" => cur[r].k \in Pipes /\ Count(pipe[cur[r].k]) = PIPESIZE
      <4>1. pc'[r] = "writesleep" => pc[r] = "writesleep" /\ cur[r].k \in Pipes
        BY <2>2, Zenon
      <4> QED BY <2>1, <4>1, Zenon DEF Asleep
    <3>2. Count(pipe[k]) = PIPESIZE => Count(pipe'[k]) = PIPESIZE
      BY <1>1, WriteFull, Zenon
    <3> QED BY <1>3, <3>1, <3>2, Zenon
  <2>4. CASE pc'[r] = "readsleep" /\ cur[r].k = k
    <3>1. pc[r] = "readsleep" /\ pc[r] \in {"readsleep", "writesleep"} /\ pc'[r] # "writesleep"
      BY <2>2, <2>4, Zenon
    <3>2. pipe[k].readopen = 1 /\ pipe[k].writeopen = 1
      BY <2>1, <2>4, <3>1, SleeperPage, Zenon DEF Asleep
    <3>3. (pipe[k].readopen = 0 \/ killed[p]) /\ (killed[p] => k \in missed')
      BY <1>2, <2>4, Zenon DEF WokeReaders
    <3>4. pipe[k].readopen # 0
      BY <3>2
    <3>5. k \in missed' /\ pipe'[k].writeopen = 1
      BY <1>3, <3>2, <3>3, <3>4, Zenon
    <3> QED BY <2>1, <2>4, <3>1, <3>5, Zenon DEF Asleep
  <2>5. CASE ~(pc'[r] = "readsleep" /\ cur[r].k = k)
    <3>1. pc'[r] = "readsleep" => cur[r].k \in Pipes /\ cur[r].k # k
      BY <2>2, <2>5, Zenon
    <3>2. pc'[r] = "readsleep" => /\ pipe'[cur[r].k].writeopen = pipe[cur[r].k].writeopen
                                  /\ Count(pipe'[cur[r].k]) = Count(pipe[cur[r].k])
                                  /\ cur[r].k \in missed => cur[r].k \in missed'
      BY <1>2, <1>3, <3>1, Zenon
    <3> QED BY <2>1, <2>2, <2>3, <3>2, SleepKept, Zenon
  <2> QED BY <2>4, <2>5, Zenon
<1> QED BY <1>5, <1>6, Zenon DEF SleepersOK

\* piperead: writers are awake, and a reader that slept over an empty pipe
\* still does.
LEMMA ReadC ==
  ASSUME AInv, PipesOK, SleepersOK, NEW p \in Procs, PipeRead(p)
  PROVE  SleepersOK'
<1>1. PICK k : k = cur[p].k
  BY Zenon
<1>2. /\ pc[p] = "piperead" /\ k \in Pipes /\ RingStep(k)
      /\ \/ pc'[p] = "user" /\ WokeWriters(p, k)
         \/ pc'[p] = "user" /\ Stay(p) /\ UNCHANGED pipe
         \/ /\ pc'[p] = "readsleep" /\ cur'[p].k = k /\ Stay(p) /\ UNCHANGED pipe
            /\ Count(pipe[k]) = 0 /\ pipe[k].writeopen # 0
  BY <1>1, ReadStep, Zenon
<1>3. /\ \A j \in Pipes \ {k} : pipe'[j] = pipe[j]
      /\ pipe'[k].readopen = pipe[k].readopen /\ pipe'[k].writeopen = pipe[k].writeopen
  BY <1>2, Zenon DEF RingStep, SameFlags
<1>4. pipe[k].writeopen # 0 => pipe[k].writeopen = 1
  BY <1>2, AParts, Zenon DEF PipeRec
<1>5. Asleep(p)'
  <2>1. pc'[p] # "writesleep"
    BY <1>2, Zenon
  <2>2. pc'[p] = "readsleep" => /\ cur'[p].k = k /\ pipe' = pipe /\ Count(pipe[k]) = 0
                                /\ pipe[k].writeopen # 0
    BY <1>2, Zenon
  <2>3. pc'[p] = "readsleep" => Count(pipe'[cur'[p].k]) = 0 /\ pipe'[cur'[p].k].writeopen = 1
    BY <1>4, <2>2, Zenon
  <2> QED BY <2>1, <2>3, Zenon DEF Asleep, Count
<1>6. ASSUME NEW r \in Procs \ {p}
      PROVE  Asleep(r)'
  <2>1. Asleep(r) /\ cur'[r] = cur[r]
    BY <1>2, Zenon DEF SleepersOK, WokeWriters, Stay
  <2>2. pc'[r] \in {"readsleep", "writesleep"} => pc'[r] = pc[r] /\ cur[r].k \in Pipes
    BY <1>2, InPipe, Zenon DEF WokeWriters, Stay
  <2>3. UNCHANGED missed
    BY Zenon DEF PipeRead
  <2>4. pc'[r] = "writesleep" => pipe'[cur[r].k] = pipe[cur[r].k]
    <3>1. pc'[r] = "writesleep" => cur[r].k \in Pipes /\ (cur[r].k # k \/ UNCHANGED pipe)
      BY <1>2, <2>2, Zenon DEF WokeWriters
    <3> QED BY <1>3, <3>1, Zenon
  <2>5. CASE pc'[r] = "readsleep" /\ cur[r].k = k /\ Count(pipe[k]) # 0
    <3>1. pc[r] = "readsleep" /\ pc'[r] # "writesleep"
      BY <2>2, <2>5, Zenon
    <3>2. pipe[k].writeopen = 1 /\ k \in missed
      BY <2>1, <2>5, <3>1, Zenon DEF Asleep
    <3>3. pipe'[k].writeopen = 1 /\ k \in missed'
      BY <1>3, <2>3, <3>2, Zenon
    <3> QED BY <2>1, <2>5, <3>1, <3>3, Zenon DEF Asleep
  <2>6. CASE ~(pc'[r] = "readsleep" /\ cur[r].k = k /\ Count(pipe[k]) # 0)
    <3>1. pc'[r] = "readsleep" => cur[r].k \in Pipes
      BY <2>2, Zenon
    <3>2. Count(pipe[k]) = 0 => Count(pipe'[k]) = 0
      BY <1>1, ReadEmpty, Zenon
    <3>3. pc'[r] = "readsleep" => /\ pipe'[cur[r].k].writeopen = pipe[cur[r].k].writeopen
                                  /\ Count(pipe'[cur[r].k]) = Count(pipe[cur[r].k])
      BY <1>3, <2>6, <3>1, <3>2, Zenon
    <3> QED BY <2>1, <2>2, <2>3, <2>4, <3>3, SleepKept, Zenon
  <2> QED BY <2>5, <2>6, Zenon
<1> QED BY <1>5, <1>6, Zenon DEF SleepersOK

\* Nobody sleeps at boot.
LEMMA InitC ==
  ASSUME Init
  PROVE  SleepersOK
<1> SUFFICES ASSUME NEW p \in Procs
             PROVE  Asleep(p)
  BY Zenon DEF SleepersOK
<1>1. pc[p] # "readsleep" /\ pc[p] # "writesleep"
  BY Zenon DEF Init
<1> QED BY <1>1, Zenon DEF Asleep

-----------------------------------------------------------------------------
(* The invariant and what follows from it *)

\* Every step of a process keeps the invariant.
LEMMA StepInv ==
  ASSUME FilesInv, NEW p \in Procs, Program(p) \/ Kernel(p) \/ Kill(p)
  PROVE  FilesInv'
<1>1. AInv /\ PipesOK /\ SleepersOK
  BY Zenon DEF FilesInv
<1>2. AInv'
  BY <1>1, OpenA, DupA, CloseA, ForkA, PipeCallA, ReadA, WriteA, ExitA, ExitCloseA, PipeAlloc1A,
     PipeAlloc2A, UndoA, PipeCloseA, CloseTestA, CloseFreeA, PipeWriteA, PipeReadA, KillA, Zenon
     DEF Program, Kernel
<1>3. PipesOK'
  BY <1>1, OpenB, DupB, CloseB, ForkB, PipeFilesB, EnterB, ExitKillB, AllocB, ShutB, TestB, FreeB,
     RingB, Zenon DEF Program, Kernel
<1>4. SleepersOK'
  BY <1>1, CallsC, CloseC, AllocC, ShutC, FreeC, WriteC, ReadC, Zenon DEF Program, Kernel
<1> QED BY <1>2, <1>3, <1>4 DEF FilesInv

\* So does every step.
LEMMA NextInv == FilesInv /\ [Next]_vars => FilesInv'
<1> SUFFICES ASSUME FilesInv, [Next]_vars
             PROVE  FilesInv'
  BY Zenon
<1>1. CASE \E p \in Procs : Program(p) \/ Kernel(p) \/ Kill(p)
  BY <1>1, StepInv, Zenon
<1>2. CASE UNCHANGED vars
  <2>1. UNCHANGED <<ofile, file, pipe, pc, cur, killed, missed>>
    BY <1>2, Zenon DEF vars
  <2>2. AInv /\ PipesOK /\ SleepersOK
    BY Zenon DEF FilesInv
  <2>3. AInv' /\ PipesOK' /\ SleepersOK'
    BY <2>1, <2>2, StillA, StillB, StillC, Zenon
  <2> QED BY <2>3, Zenon DEF FilesInv
<1> QED BY <1>1, <1>2, Zenon DEF Next, Stopped

\* The invariant holds at boot.
LEMMA InitInv == Init => FilesInv
BY InitA, InitB, InitC, Zenon DEF FilesInv

\* The tables, pipes and sleepers hold together in every reachable state,
\* whatever the sizes of the tables and of the indices are.
THEOREM FilesInvHolds == Spec => []FilesInv
<1>1. Init => FilesInv
  BY InitInv, Zenon
<1>2. FilesInv /\ [Next]_vars => FilesInv'
  BY NextInv, Zenon
<1> QED BY <1>1, <1>2, PTL DEF Spec

\* dup, close and exit never find a reference missing, and nobody else panics
\* over one.
LEMMA FaultSame ==
  ASSUME AInv, NEW p \in Procs,
         \/ Dup(p) \/ Close(p) \/ Fork(p) \/ PipeCall(p) \/ Read(p) \/ Write(p) \/ Exit(p)
         \/ ExitClose(p) \/ Undo1(p) \/ Undo2(p) \/ PipeClose(p) \/ CloseFree(p)
         \/ PipeWrite(p) \/ PipeRead(p) \/ Kill(p)
  PROVE  fault' = fault /\ fault = "none"
<1>1. CASE Dup(p)
  BY <1>1, DupA, Zenon DEF Dup, Calls, At
<1>2. CASE Close(p)
  BY <1>2, CloseA, Zenon DEF Close, Calls, At
<1>3. CASE ExitClose(p)
  BY <1>3, ExitCloseA, Zenon DEF ExitClose, At
<1>4. CASE Undo1(p) \/ Undo2(p)
  BY <1>4, UndoA, Zenon DEF Undo1, Undo2, At
<1>5. CASE Fork(p) \/ PipeCall(p) \/ Read(p) \/ Write(p) \/ Exit(p) \/ Kill(p)
  BY <1>5, Zenon DEF Fork, PipeCall, Read, Write, Exit, Kill, Calls, At
<1>6. CASE PipeClose(p) \/ CloseFree(p) \/ PipeWrite(p) \/ PipeRead(p)
  BY <1>6, Zenon DEF PipeClose, CloseFree, PipeWrite, PipeRead, At
<1> QED BY <1>1, <1>2, <1>3, <1>4, <1>5, <1>6, Zenon

\* What open or pipe ran out of when it panics; the panic changes no table.
LEMMA FullTable ==
  ASSUME NEW p \in Procs, Open(p) \/ PipeAlloc1(p) \/ PipeAlloc2(p)
  PROVE  /\ fault = "none"
         /\ \/ fault' = fault
            \/ /\ Panic("fileclose")
               /\ \/ pc[p] = "user" /\ FreeFds(p) = {}
                  \/ pc[p] = "pipealloc1" /\ FreeFiles = {}
                  \/ pc[p] = "pipealloc2" /\ \A k \in Pipes : pipe[k].used
<1>1. fault = "none"
  BY Zenon DEF Open, PipeAlloc1, PipeAlloc2, Calls, At
<1>2. CASE Open(p)
  BY <1>1, <1>2, Zenon DEF Open, Calls, At
<1>3. CASE PipeAlloc1(p)
  BY <1>1, <1>3, Zenon DEF PipeAlloc1, At
<1>4. CASE PipeAlloc2(p)
  BY <1>1, <1>4, Zenon DEF PipeAlloc2, At
<1> QED BY <1>2, <1>3, <1>4, Zenon

\* Every step of a process stops the machine for one of the two reasons, or
\* leaves it running.
LEMMA PanicStep ==
  ASSUME AInv, NEW p \in Procs, Program(p) \/ Kernel(p) \/ Kill(p)
  PROVE  OnlyExhaustion'
<1>1. CASE \/ Dup(p) \/ Close(p) \/ Fork(p) \/ PipeCall(p) \/ Read(p) \/ Write(p) \/ Exit(p)
           \/ ExitClose(p) \/ Undo1(p) \/ Undo2(p) \/ PipeClose(p) \/ CloseFree(p)
           \/ PipeWrite(p) \/ PipeRead(p) \/ Kill(p)
  <2>1. fault' = "none"
    BY <1>1, FaultSame, Zenon
  <2> QED BY <2>1, Zenon DEF OnlyExhaustion
<1>2. CASE Open(p) \/ PipeAlloc1(p) \/ PipeAlloc2(p)
  <2>1. CASE fault' = "none"
    BY <2>1, Zenon DEF OnlyExhaustion
  <2>2. CASE /\ Panic("fileclose")
             /\ \/ pc[p] = "user" /\ FreeFds(p) = {}
                \/ pc[p] = "pipealloc1" /\ FreeFiles = {}
                \/ pc[p] = "pipealloc2" /\ \A k \in Pipes : pipe[k].used
    <3>1. fault' = "fileclose" /\ UNCHANGED <<ofile, file, pipe, pc>>
      BY <2>2, Zenon DEF Panic
    <3>2. FreeFds(p)' = FreeFds(p) /\ FreeFiles' = FreeFiles
      BY <3>1, Zenon DEF FreeFds, FreeFiles
    <3>3. \/ pc'[p] = "user" /\ FreeFds(p)' = {}
          \/ pc'[p] = "pipealloc1" /\ FreeFiles' = {}
          \/ pc'[p] = "pipealloc2" /\ \A k \in Pipes : pipe'[k].used
      BY <2>2, <3>1, <3>2, Zenon
    <3> QED BY <3>1, <3>3, Zenon DEF OnlyExhaustion
  <2> QED BY <1>2, <2>1, <2>2, FullTable, Zenon
<1>3. CASE CloseTest(p)
  <2>1. fault' = "none" \/ fault' = "kfree: freeing free page"
    BY <1>3, Zenon DEF CloseTest, At, Panic
  <2> QED BY <2>1, Zenon DEF OnlyExhaustion
<1> QED BY <1>1, <1>2, <1>3, Zenon DEF Program, Kernel

\* A reference in hand is counted once.
LEMMA HandCount ==
  ASSUME RefsOK, NEW f \in FileIds, TypeOK
  PROVE  file[f].ref = Cardinality(Descriptors(f)) + Cardinality(InHand(f))
<1>1. InHand(f) = {p \in Procs : Holds(p, f)}
  BY Zenon DEF InHand, Holds
<1>2. CASE \A p \in Procs : ~Holds(p, f)
  <2>1. InHand(f) = {}
    BY <1>1, <1>2, Zenon
  <2>2. file[f].ref = Cardinality(Descriptors(f)) /\ Cardinality(Descriptors(f)) \in Nat
    BY <1>2, DescFinite, Zenon DEF RefsOK, RefOK
  <2> QED BY <2>1, <2>2, FS_EmptySet
<1>3. ASSUME NEW p \in Procs, Holds(p, f)
      PROVE  file[f].ref = Cardinality(Descriptors(f)) + Cardinality(InHand(f))
  <2>1. file[f].ref = 1 /\ Descriptors(f) = {} /\ \A r \in Procs : Holds(r, f) => r = p
    BY <1>3, Zenon DEF RefsOK, RefOK
  <2>2. InHand(f) = {p}
    BY <1>1, <1>3, <2>1, Zenon
  <2>3. Cardinality(InHand(f)) = 1
    BY <2>2, FS_Singleton, Zenon
  <2>4. Cardinality(Descriptors(f)) = 0
    BY <2>1, FS_EmptySet, Zenon
  <2> QED BY <2>1, <2>3, <2>4
<1> QED BY <1>2, <1>3, Zenon

\* In every reachable state a file's count is the number of descriptors, over
\* all processes, and of pending references that name it.
THEOREM CountsExact == Spec => []RefExact
<1>1. FilesInv => RefExact
  <2> SUFFICES ASSUME FilesInv
               PROVE  RefExact
    BY Zenon
  <2>1. TypeOK /\ RefsOK
    BY Zenon DEF FilesInv, AInv
  <2>2. \A f \in FileIds : file[f].ref = Cardinality(Descriptors(f)) + Cardinality(InHand(f))
    BY <2>1, HandCount, Zenon
  <2>3. \A f \in FileIds : (file[f].ref = 0) = (file[f].type = "CLOSED")
    BY <2>1, Zenon DEF RefsOK, RefOK
  <2> QED BY <2>1, <2>2, <2>3, Zenon DEF RefExact
<1> QED BY <1>1, FilesInvHolds, PTL

\* In every reachable state the flags of a pipe say which ends are open, and
\* nobody is in a pipe whose page was freed.
THEOREM EndsExact == Spec => []EndsOpen
<1>1. FilesInv => EndsOpen
  <2> SUFFICES ASSUME FilesInv
               PROVE  EndsOpen
    BY Zenon
  <2>1. AInv /\ (\A f \in FileIds : EndOK(f)) /\ (\A p \in Procs : CallOK(p))
             /\ (\A k \in Pipes : PageOK(k))
    BY Zenon DEF FilesInv, PipesOK
  <2>2. ASSUME NEW k \in Pipes, pipe[k].used
        PROVE  /\ (pipe[k].readopen = 1) = (Ends(k, 0) \cup Closing(k, 0) # {})
               /\ (pipe[k].writeopen = 1) = (Ends(k, 1) \cup Closing(k, 1) # {})
    BY <2>1, <2>2, Zenon DEF PageOK
  <2>3. \A f \in FileIds : file[f].type = "PIPE" => pipe[file[f].pipe].used
    BY <2>1, Zenon DEF EndOK
  <2>4. ASSUME NEW p \in Procs,
               pc[p] \in {"pipeclose", "piperead", "pipewrite", "readsleep", "writesleep"}
        PROVE  pipe[cur[p].k].used
    <3>1. CASE pc[p] = "pipeclose"
      BY <2>1, <3>1, Zenon DEF CallOK
    <3>2. CASE pc[p] # "pipeclose"
      <4>1. PICK w \in {0, 1} : HasEnd(p, cur[p].k, w)
        BY <2>1, <2>4, <3>2, Zenon DEF CallOK
      <4>2. PICK f \in FileIds : file[f].type = "PIPE" /\ file[f].pipe = cur[p].k
        BY <4>1, Zenon DEF HasEnd, Ends
      <4> QED BY <2>3, <4>2, Zenon
    <3> QED BY <3>1, <3>2, Zenon
  <2> QED BY <2>2, <2>3, <2>4, Zenon DEF EndsOpen
<1> QED BY <1>1, FilesInvHolds, PTL

\* In every reachable state the ring of a pipe holds the bytes written last,
\* in order, also where the indices wrap.
THEOREM BytesInOrder == Spec => []InOrder
<1>1. FilesInv => InOrder
  BY Zenon DEF FilesInv, AInv, InOrder, Ordered
<1> QED BY <1>1, FilesInvHolds, PTL

\* In every reachable state what a sleeper in a pipe waits for has not come:
\* a reader sleeps over bytes only where a killed writer returned without the
\* wakeup, and nobody has woken the readers of that pipe since.
THEOREM SleepersWoken == Spec => []NoLostSleeper
<1>1. FilesInv => NoLostSleeper
  <2> SUFFICES ASSUME FilesInv, NEW p \in Procs
               PROVE  /\ pc[p] = "readsleep" =>
                           /\ pipe[cur[p].k].writeopen = 1
                           /\ Count(pipe[cur[p].k]) = 0 \/ cur[p].k \in missed
                      /\ pc[p] = "writesleep" => Count(pipe[cur[p].k]) = PIPESIZE
                                                 /\ pipe[cur[p].k].readopen = 1
    BY Zenon DEF NoLostSleeper
  <2>1. Asleep(p)
    BY Zenon DEF FilesInv, SleepersOK
  <2> QED BY <2>1, Zenon DEF Asleep
<1> QED BY <1>1, FilesInvHolds, PTL

\* The machine stops in these calls only over a table that is full for the
\* process that asked, or where the two ends of a pipe close at once.
THEOREM PanicsExplained == Spec => []OnlyExhaustion
<1>1. Init => OnlyExhaustion
  BY Zenon DEF Init, OnlyExhaustion
<1>2. FilesInv /\ OnlyExhaustion /\ [Next]_vars => OnlyExhaustion'
  <2> SUFFICES ASSUME FilesInv, OnlyExhaustion, [Next]_vars
               PROVE  OnlyExhaustion'
    BY Zenon
  <2>1. CASE \E p \in Procs : Program(p) \/ Kernel(p) \/ Kill(p)
    <3>1. AInv
      BY Zenon DEF FilesInv
    <3> QED BY <2>1, <3>1, PanicStep, Zenon
  <2>2. CASE UNCHANGED vars
    <3>1. UNCHANGED <<ofile, file, pipe, pc, fault>>
      BY <2>2, Zenon DEF vars
    <3> QED BY <3>1, Zenon DEF OnlyExhaustion, FreeFiles, FreeFds
  <2> QED BY <2>1, <2>2, Zenon DEF Next, Stopped
<1> QED BY <1>1, <1>2, FilesInvHolds, PTL DEF Spec

=============================================================================
