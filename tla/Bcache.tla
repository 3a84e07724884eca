------------------------------- MODULE Bcache -------------------------------
(***************************************************************************)
(* The buffer cache and the disk driver: bio.c and ide.c.                  *)
(*                                                                         *)
(* A step is a critical section of buf_table_lock or ide_lock with what    *)
(* the process does around it on a buffer that only it may touch.  A block *)
(* is a (dev, sector) pair.  Each process holds one buffer at a time.      *)
(* sleep and wakeup are those of Sched: a wakeup makes every sleeper on    *)
(* the channel runnable, and the sleeper tests its condition again.        *)
(***************************************************************************)
EXTENDS Integers, Sequences

CONSTANTS NBUF,       \* buffers
          Procs,      \* processes in the file system
          Blocks, Values, NoProc, NoValue,
          Written,    \* the blocks that they write, not only read
          Block0,     \* dev 0, sector 0: what a zeroed struct buf names
          ReadFails   \* the outcomes of ide_wait_ready(1) < 0 on a read

ASSUME BcacheAssumption ==
  /\ NBUF \in Nat \ {0}
  /\ Block0 \in Blocks /\ 0 \in Values
  /\ NoProc \notin Procs /\ NoValue \notin Values
  /\ ReadFails \subseteq BOOLEAN

VARIABLES flags, block, data,   \* struct buf buf[NBUF]
          lru,                  \* the list bufhead, bufhead.next first
          ide_queue,
          disk,                 \* the sectors themselves
          pc, want, b,          \* where each process is, the block and buffer of its call
          fault                 \* the panic that stopped the machine, or "none"

vars == <<flags, block, data, lru, ide_queue, disk, pc, want, b, fault>>

Bufs == 0..(NBUF - 1)
Flags == {"BUSY", "VALID", "DIRTY"}
Pcs == {"out", "bget", "bget_sleep", "ide_rw", "ide_sleep", "ide_test", "hold"}
Holding == {"ide_rw", "ide_sleep", "ide_test", "hold"}

\* binit: zeroed buffers carry dev 0, sector 0 and no flags
Init ==
  /\ flags = [i \in Bufs |-> {}]
  /\ block = [i \in Bufs |-> Block0]
  /\ data = [i \in Bufs |-> 0]
  /\ lru = [i \in 1..NBUF |-> NBUF - i]
  /\ ide_queue = <<>>
  /\ disk = [x \in Blocks |-> 0]
  /\ pc = [p \in Procs |-> "out"]
  /\ want = [p \in Procs |-> Block0]
  /\ b = [p \in Procs |-> 0]
  /\ fault = "none"

At(p, l) == fault = "none" /\ pc[p] = l
Goto(p, l) == pc' = [pc EXCEPT ![p] = l]
Panic(why) ==
  fault' = why /\ UNCHANGED <<flags, block, data, lru, ide_queue, disk, pc, want, b>>

\* sync done: (flags & (B_VALID|B_DIRTY)) == B_VALID
Synced(i) == "VALID" \in flags[i] /\ "DIRTY" \notin flags[i]

\* wakeup(&buf[i]).  bget sleeps on buf, the address of buffer 0, which is
\* also what ide_rw sleeps on for that buffer.
Wakeup(pcs, i) ==
  [r \in Procs |->
     IF pcs[r] = "bget_sleep" /\ i = 0 THEN "bget"
     ELSE IF pcs[r] = "ide_sleep" /\ b[r] = i THEN "ide_test"
     ELSE pcs[r]]

-----------------------------------------------------------------------------
\* bread(x) is called.
Bread(p, x) ==
  /\ At(p, "out")
  /\ Goto(p, "bget")
  /\ want' = [want EXCEPT ![p] = x]
  /\ UNCHANGED <<flags, block, data, lru, ide_queue, disk, b, fault>>

\* Mutant of Cached: a buffer whose read is under way is not found.
MCached(x) == {i \in Bufs : "VALID" \in flags[i] /\ block[i] = x}
Cached(x) == {i \in Bufs : flags[i] \cap {"BUSY", "VALID"} # {} /\ block[i] = x}

\* bget: the buffer of the block is in use
BgetSleep(p) ==
  /\ At(p, "bget")
  /\ \E i \in Cached(want[p]) : "BUSY" \in flags[i]
  /\ Goto(p, "bget_sleep")
  /\ UNCHANGED <<flags, block, data, lru, ide_queue, disk, want, b, fault>>

\* bget finds the block, and bread has nothing to read.
BgetHit(p) ==
  /\ At(p, "bget")
  /\ \E i \in Cached(want[p]) :
       /\ "BUSY" \notin flags[i]
       /\ flags' = [flags EXCEPT ![i] = @ \cup {"BUSY"}]
       /\ b' = [b EXCEPT ![p] = i]
       /\ Goto(p, IF "VALID" \in flags[i] THEN "hold" ELSE "ide_rw")
  /\ UNCHANGED <<block, data, lru, ide_queue, disk, want, fault>>

\* Mutant of Recycled: the victim keeps its flags.
MRecycled(f) == f \cup {"BUSY"}
Recycled(f) == {"BUSY"}

\* bget: the least recently used buffer that is not in use, for bread to fill
BgetFresh(p) ==
  /\ At(p, "bget")
  /\ Cached(want[p]) = {}
  /\ \E n \in 1..NBUF :
       /\ "BUSY" \notin flags[lru[n]]
       /\ \A m \in (n + 1)..NBUF : "BUSY" \in flags[lru[m]]
       /\ flags' = [flags EXCEPT ![lru[n]] = Recycled(@)]
       /\ block' = [block EXCEPT ![lru[n]] = want[p]]
       /\ b' = [b EXCEPT ![p] = lru[n]]
       /\ Goto(p, IF "VALID" \in Recycled(flags[lru[n]]) THEN "hold" ELSE "ide_rw")
  /\ UNCHANGED <<data, lru, ide_queue, disk, want, fault>>

BgetPanic(p) ==
  /\ At(p, "bget")
  /\ Cached(want[p]) = {}
  /\ \A n \in 1..NBUF : "BUSY" \in flags[lru[n]]
  /\ Panic("bget: no buffers")

-----------------------------------------------------------------------------
\* ide_rw's loop to the end of ide_queue.
\* Mutant of Queue: the request goes in front.
MQueue(i) == <<i>> \o ide_queue
Queue(i) == Append(ide_queue, i)

\* ide_rw: append to ide_queue and sleep
IdeRw(p) ==
  /\ At(p, "ide_rw")
  /\ IF "BUSY" \notin flags[b[p]] THEN Panic("ide_rw: buf not busy")
     ELSE IF Synced(b[p]) THEN Panic("ide_rw: nothing to do")
     ELSE /\ ide_queue' = Queue(b[p])
          /\ Goto(p, "ide_sleep")
          /\ UNCHANGED <<flags, block, data, lru, disk, want, b, fault>>

\* ide_rw: the loop's test after a wakeup
IdeTest(p) ==
  /\ At(p, "ide_test")
  /\ Goto(p, IF Synced(b[p]) THEN "hold" ELSE "ide_sleep")
  /\ UNCHANGED <<flags, block, data, lru, ide_queue, disk, want, b, fault>>

\* The disk has done the request at the head of the queue: ide_intr.  A read
\* that failed leaves the data of the buffer as it was.
IdeIntr ==
  /\ fault = "none"
  /\ ide_queue # <<>>
  /\ LET i == Head(ide_queue) IN
       /\ IF "DIRTY" \in flags[i]
            THEN disk' = [disk EXCEPT ![block[i]] = data[i]] /\ UNCHANGED data
            ELSE /\ \E fails \in ReadFails :
                      data' = [data EXCEPT ![i] = IF fails THEN @ ELSE disk[block[i]]]
                 /\ UNCHANGED disk
       /\ flags' = [flags EXCEPT ![i] = (@ \cup {"VALID"}) \ {"DIRTY"}]
       /\ pc' = Wakeup(pc, i)
  /\ ide_queue' = Tail(ide_queue)
  /\ UNCHANGED <<block, lru, want, b, fault>>

-----------------------------------------------------------------------------
\* The holder changes the data and calls bwrite.
Bwrite(p, v) ==
  /\ At(p, "hold")
  /\ IF "BUSY" \notin flags[b[p]] THEN Panic("bwrite")
     ELSE /\ data' = [data EXCEPT ![b[p]] = v]
          /\ flags' = [flags EXCEPT ![b[p]] = @ \cup {"DIRTY"}]
          /\ Goto(p, "ide_rw")
          /\ UNCHANGED <<block, lru, ide_queue, disk, want, b, fault>>

\* The list with buffer i moved to its front
Front(i) ==
  LET n == CHOOSE m \in 1..NBUF : lru[m] = i
  IN [m \in 1..NBUF |-> IF m = 1 THEN i ELSE IF m <= n THEN lru[m - 1] ELSE lru[m]]

Brelse(p) ==
  /\ At(p, "hold")
  /\ IF "BUSY" \notin flags[b[p]] THEN Panic("brelse")
     ELSE /\ lru' = Front(b[p])
          /\ flags' = [flags EXCEPT ![b[p]] = @ \ {"BUSY"}]
          /\ pc' = Wakeup([pc EXCEPT ![p] = "out"], 0)
          /\ want' = [want EXCEPT ![p] = Block0] /\ b' = [b EXCEPT ![p] = 0]
          /\ UNCHANGED <<block, data, ide_queue, disk, fault>>

Stopped == fault # "none" /\ UNCHANGED vars

-----------------------------------------------------------------------------
Kernel(p) == \/ BgetSleep(p) \/ BgetHit(p) \/ BgetFresh(p) \/ BgetPanic(p)
             \/ IdeRw(p) \/ IdeTest(p)

Next ==
  \/ \E p \in Procs : \/ Kernel(p) \/ Brelse(p)
                      \/ \E x \in Blocks : Bread(p, x)
                      \/ want[p] \in Written /\ \E v \in Values : Bwrite(p, v)
  \/ IdeIntr
  \/ Stopped

Spec == Init /\ [][Next]_vars

\* The disk answers, and its interrupt is taken: programs run with interrupts on.
\* No process owes a step, since the scheduler may never run it again.
Fairness == WF_vars(IdeIntr)

FairSpec == Spec /\ Fairness

-----------------------------------------------------------------------------
\* The states the declarations allow
TypeOK ==
  /\ flags \in [Bufs -> SUBSET Flags] /\ block \in [Bufs -> Blocks]
  /\ data \in [Bufs -> Values] /\ lru \in [1..NBUF -> Bufs]
  /\ ide_queue \in Seq(Bufs) /\ disk \in [Blocks -> Values]
  /\ pc \in [Procs -> Pcs] /\ want \in [Procs -> Blocks] /\ b \in [Procs -> Bufs]
  /\ fault \in {"none", "bget: no buffers"}

\* bget never makes a second buffer for a block, however its two scans
\* interleave with reads under way: two processes can never modify two copies.
OneBufferPerBlock ==
  \A i, j \in Bufs : i # j => \/ block[i] # block[j]
                              \/ flags[i] \cap {"BUSY", "VALID"} = {}
                              \/ flags[j] \cap {"BUSY", "VALID"} = {}

\* A buffer in use has one user, which called bread for that block.
OneHolder ==
  /\ \A p \in Procs : pc[p] \in Holding => "BUSY" \in flags[b[p]] /\ block[b[p]] = want[p]
  /\ \A p, r \in Procs :
       pc[p] \in Holding /\ pc[r] \in Holding /\ b[p] = b[r] => p = r
  /\ \A i \in Bufs : "BUSY" \in flags[i] => \E p \in Procs : pc[p] \in Holding /\ b[p] = i

Queued(i) == \E n \in 1..Len(ide_queue) : ide_queue[n] = i

\* The disk queue holds each buffer whose user waits for the disk once, and no
\* other; a process that is through with ide_rw has a synchronised buffer.
QueueMatches ==
  /\ \A n, m \in 1..Len(ide_queue) : ide_queue[n] = ide_queue[m] => n = m
  /\ \A i \in Bufs :
       Queued(i) <=> \E p \in Procs : /\ pc[p] \in {"ide_sleep", "ide_test"} /\ b[p] = i
                                      /\ ~Synced(i)
  /\ \A p \in Procs : /\ pc[p] = "hold" => Synced(b[p])
                      /\ pc[p] = "ide_rw" => ~Synced(b[p])

\* What is cached and not being written is what is on the disk.
Coherent ==
  \A i \in Bufs : /\ Synced(i) => data[i] = disk[block[i]]
                  /\ "DIRTY" \in flags[i] => "BUSY" \in flags[i] /\ "VALID" \in flags[i]

\* No wakeup is lost: who sleeps in bget waits for a block that is in use, who
\* sleeps in ide_rw for a request that is not done, although the two share
\* the channel of buffer 0.
NoLostSleeper ==
  \A p \in Procs :
    /\ pc[p] = "bget_sleep" => \E i \in Bufs : "BUSY" \in flags[i] /\ block[i] = want[p]
    /\ pc[p] = "ide_sleep" => ~Synced(b[p])

\* Two processes never modify two copies of a block, a buffer has one user,
\* the disk queue holds what is waited for and nothing else, what is cached is
\* what is on the disk, and nobody sleeps in bget or ide_rw for something that
\* has already happened, however their scans, sleeps and the disk interleave.
CacheConsistent ==
  TypeOK /\ OneBufferPerBlock /\ OneHolder /\ QueueMatches /\ Coherent /\ NoLostSleeper

\* The block store the cache implements: a block is its reader's as soon as
\* the buffer is valid, and a write happens when the disk has done it.
Owner(x) ==
  IF \E p \in Procs : pc[p] \in Holding /\ want[p] = x /\ "VALID" \in flags[b[p]]
    THEN CHOOSE p \in Procs : pc[p] \in Holding /\ want[p] = x /\ "VALID" \in flags[b[p]]
    ELSE NoProc

Store == INSTANCE BlockStore WITH
  content <- disk,
  owner <- [x \in Blocks |-> Owner(x)],
  view <- [x \in Blocks |->
             IF Owner(x) = NoProc THEN NoValue
             ELSE IF "DIRTY" \in flags[b[Owner(x)]] THEN disk[x] ELSE data[b[Owner(x)]]]

\* bread returns what was last written to the block, to one process at a time.
ImplementsBlockStore == Store!Spec

\* A request to the disk is done and its caller runnable at last, however many
\* other requests come after it and however often the channel it sleeps on is
\* woken for another reason: none is forgotten or overtaken in ide_queue.
RequestsServed ==
  \A p \in Procs : (pc[p] = "ide_sleep") ~>
                     ((pc[p] = "ide_test" /\ Synced(b[p])) \/ fault # "none")
=============================================================================
