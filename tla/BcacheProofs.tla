---------------------------- MODULE BcacheProofs ----------------------------
(***************************************************************************)
(* CacheConsistent and the refinement of BlockStore, for any number of     *)
(* buffers, processes, blocks and values.                                  *)
(*                                                                         *)
(* CacheInv, what is left of CacheConsistent without the data, is          *)
(* inductive whatever the disk answers.  That the data agree with the disk *)
(* needs a disk whose reads do not fail (ReadFails = {FALSE}).             *)
(***************************************************************************)
EXTENDS Bcache, TLAPS

\* A buffer that waits to be written is in use and holds its block.
DirtyHeld ==
  \A i \in Bufs : "DIRTY" \in flags[i] => "BUSY" \in flags[i] /\ "VALID" \in flags[i]

CacheInv ==
  TypeOK /\ OneBufferPerBlock /\ OneHolder /\ QueueMatches /\ DirtyHeld /\ NoLostSleeper

\* A synchronised buffer is what is on the disk.
Clean == \A i \in Bufs : Synced(i) => data[i] = disk[block[i]]

\* CacheConsistent is CacheInv and Clean.
LEMMA Split == CacheConsistent <=> CacheInv /\ Clean
BY Zenon DEF CacheConsistent, CacheInv, Coherent, DirtyHeld, Clean

-----------------------------------------------------------------------------
\* binit's state
LEMMA InitInv == Init => CacheInv /\ Clean
<1> SUFFICES ASSUME Init PROVE CacheInv /\ Clean
  BY Zenon
<1> USE BcacheAssumption
<1>1. TypeOK
  <2>1. 0 \in Bufs /\ lru \in [1..NBUF -> Bufs]
    BY DEF Init, Bufs
  <2>2. ide_queue \in Seq(Bufs)
    BY DEF Init
  <2> QED BY <2>1, <2>2, Zenon DEF Init, TypeOK, Flags, Pcs
<1>2. OneBufferPerBlock /\ OneHolder /\ DirtyHeld /\ NoLostSleeper /\ Clean
  BY Zenon DEF Init, OneBufferPerBlock, OneHolder, DirtyHeld, NoLostSleeper, Clean, Synced, Holding
<1>3. QueueMatches
  <2>1. Len(ide_queue) = 0 /\ \A i \in Bufs : ~Queued(i)
    BY DEF Init, Queued
  <2> QED BY <2>1 DEF Init, QueueMatches
<1> QED BY <1>1, <1>2, <1>3, Zenon DEF CacheInv

-----------------------------------------------------------------------------
(* ide_queue *)

Distinct(s) == \A n, m \in 1..Len(s) : s[n] = s[m] => n = m

\* ide_rw appends a buffer that was not in the queue.
LEMMA Appended ==
  ASSUME ide_queue \in Seq(Bufs), NEW i \in Bufs, ide_queue' = Append(ide_queue, i)
  PROVE  /\ \A j \in Bufs : Queued(j)' <=> Queued(j) \/ j = i
         /\ ~Queued(i) /\ Distinct(ide_queue) => Distinct(ide_queue')
<1>1. /\ Len(ide_queue') = Len(ide_queue) + 1
      /\ ide_queue'[Len(ide_queue) + 1] = i
      /\ \A n \in 1..Len(ide_queue) : ide_queue'[n] = ide_queue[n]
      /\ Len(ide_queue) \in Nat
  OBVIOUS
<1>2. \A j \in Bufs : Queued(j)' <=> Queued(j) \/ j = i
  BY <1>1 DEF Queued
<1>3. ~Queued(i) /\ Distinct(ide_queue) => Distinct(ide_queue')
  BY <1>1 DEF Queued, Distinct
<1> QED BY <1>2, <1>3, Zenon

\* ide_intr takes the head.
LEMMA Served ==
  ASSUME ide_queue \in Seq(Bufs), ide_queue # <<>>, Distinct(ide_queue),
         ide_queue' = Tail(ide_queue)
  PROVE  /\ Head(ide_queue) \in Bufs /\ Queued(Head(ide_queue))
         /\ \A j \in Bufs : Queued(j)' <=> Queued(j) /\ j # Head(ide_queue)
         /\ Distinct(ide_queue') /\ ide_queue' \in Seq(Bufs)
<1>1. /\ Len(ide_queue') = Len(ide_queue) - 1 /\ Len(ide_queue) \in Nat \ {0}
      /\ \A n \in 1..(Len(ide_queue) - 1) : ide_queue'[n] = ide_queue[n + 1]
      /\ Head(ide_queue) = ide_queue[1] /\ Head(ide_queue) \in Bufs
      /\ ide_queue' \in Seq(Bufs)
  OBVIOUS
<1>2. Queued(Head(ide_queue))
  BY <1>1 DEF Queued
<1>3. ASSUME NEW j \in Bufs PROVE Queued(j)' <=> Queued(j) /\ j # Head(ide_queue)
  <2>1. ASSUME Queued(j)' PROVE Queued(j) /\ j # Head(ide_queue)
    <3>1. PICK n \in 1..Len(ide_queue') : ide_queue'[n] = j
      BY <2>1, Zenon DEF Queued
    <3>2. n + 1 \in 1..Len(ide_queue) /\ ide_queue[n + 1] = j /\ n + 1 # 1
      BY <1>1, <3>1
    <3> QED BY <1>1, <3>2 DEF Queued, Distinct
  <2>2. ASSUME Queued(j), j # Head(ide_queue) PROVE Queued(j)'
    <3>1. PICK n \in 1..Len(ide_queue) : ide_queue[n] = j
      BY <2>2, Zenon DEF Queued
    <3>2. n # 1 /\ n - 1 \in 1..Len(ide_queue')
      BY <1>1, <2>2, <3>1
    <3>3. ide_queue'[n - 1] = j
      BY <1>1, <3>1, <3>2
    <3> QED BY <3>2, <3>3, Zenon DEF Queued
  <2> QED BY <2>1, <2>2, Zenon
<1>4. Distinct(ide_queue')
  BY <1>1 DEF Distinct
<1> QED BY <1>1, <1>2, <1>3, <1>4, Zenon

-----------------------------------------------------------------------------
(* The steps of bget *)

\* The queue does not mind who comes to bget, or sleeps there.
LEMMA QueueStays ==
  ASSUME QueueMatches, UNCHANGED <<flags, ide_queue, b>>,
         \A r \in Procs : pc'[r] # pc[r] => pc[r] \notin Holding /\ pc'[r] \notin Holding
  PROVE  QueueMatches'
<1>1. \A i : (Queued(i)' <=> Queued(i)) /\ (Synced(i)' <=> Synced(i))
  BY Zenon DEF Queued, Synced
<1>2. \A r \in Procs : \A f \in Holding : pc'[r] = f <=> pc[r] = f
  BY Zenon
<1>3. {"ide_rw", "ide_sleep", "ide_test", "hold"} = Holding
  BY Zenon DEF Holding
<1>4. \A r \in Procs : /\ pc'[r] \in {"ide_sleep", "ide_test"} <=> pc[r] \in {"ide_sleep", "ide_test"}
                       /\ (pc'[r] = "hold" <=> pc[r] = "hold")
                       /\ (pc'[r] = "ide_rw" <=> pc[r] = "ide_rw")
  BY <1>2, <1>3, Zenon
<1>5. \A r \in Procs : Synced(b[r])' <=> Synced(b[r])
  BY <1>1, Zenon
<1> QED BY <1>1, <1>4, <1>5 DEF QueueMatches

\* bread's call names the block and holds nothing yet.
LEMMA BreadInv ==
  ASSUME CacheInv, NEW p \in Procs, NEW x \in Blocks, Bread(p, x)
  PROVE  CacheInv'
<1> USE DEF CacheInv
<1>1. /\ pc[p] = "out" /\ pc' = [pc EXCEPT ![p] = "bget"] /\ want' = [want EXCEPT ![p] = x]
      /\ UNCHANGED <<flags, block, data, lru, ide_queue, disk, b, fault>>
  BY Zenon DEF Bread, At, Goto
<1>2. TypeOK'
  BY <1>1, ZenonT(30) DEF TypeOK, Pcs
<1>3. OneBufferPerBlock' /\ DirtyHeld'
  BY <1>1, Zenon DEF OneBufferPerBlock, DirtyHeld
<1>4. OneHolder'
  BY <1>1, ZenonT(30) DEF TypeOK, OneHolder, Holding
<1>5. QueueMatches'
  <2>1. \A r \in Procs : pc'[r] # pc[r] => pc[r] \notin Holding /\ pc'[r] \notin Holding
    BY <1>1, ZenonT(30) DEF TypeOK, Holding
  <2>2. QueueMatches /\ UNCHANGED <<flags, ide_queue, b>>
    BY <1>1, Zenon
  <2> QED BY <2>1, <2>2, QueueStays, Zenon
<1>6. NoLostSleeper'
  BY <1>1, ZenonT(30) DEF TypeOK, NoLostSleeper, Synced
<1> QED BY <1>2, <1>3, <1>4, <1>5, <1>6, Zenon

\* bget goes to sleep over a buffer in use.
LEMMA BgetSleepInv ==
  ASSUME CacheInv, NEW p \in Procs, BgetSleep(p)
  PROVE  CacheInv'
<1> USE DEF CacheInv
<1>1. /\ pc[p] = "bget" /\ pc' = [pc EXCEPT ![p] = "bget_sleep"]
      /\ \E i \in Bufs : "BUSY" \in flags[i] /\ block[i] = want[p]
      /\ UNCHANGED <<flags, block, data, lru, ide_queue, disk, want, b, fault>>
  BY Zenon DEF BgetSleep, At, Goto, Cached
<1>2. TypeOK'
  BY <1>1, ZenonT(30) DEF TypeOK, Pcs
<1>3. OneBufferPerBlock' /\ DirtyHeld'
  BY <1>1, Zenon DEF OneBufferPerBlock, DirtyHeld
<1>4. OneHolder'
  BY <1>1, ZenonT(30) DEF TypeOK, OneHolder, Holding
<1>5. QueueMatches'
  <2>1. \A r \in Procs : pc'[r] # pc[r] => pc[r] \notin Holding /\ pc'[r] \notin Holding
    BY <1>1, ZenonT(30) DEF TypeOK, Holding
  <2>2. QueueMatches /\ UNCHANGED <<flags, ide_queue, b>>
    BY <1>1, Zenon
  <2> QED BY <2>1, <2>2, QueueStays, Zenon
<1>6. NoLostSleeper'
  BY <1>1, ZenonT(30) DEF TypeOK, NoLostSleeper, Synced
<1> QED BY <1>2, <1>3, <1>4, <1>5, <1>6, Zenon

\* bget takes buffer i, which nobody uses, for the block that p wants: nobody
\* else had it, so p is its only user, and it was not waiting for the disk.
LEMMA BgetTakes ==
  ASSUME CacheInv, NEW p \in Procs, NEW i \in Bufs, NEW f \in SUBSET Flags,
         pc[p] = "bget", "BUSY" \notin flags[i], "BUSY" \in f, "DIRTY" \notin f,
         \A j \in Bufs \ {i} : block[j] = want[p] => flags[j] \cap {"BUSY", "VALID"} = {},
         flags' = [flags EXCEPT ![i] = f], block' = [block EXCEPT ![i] = want[p]],
         b' = [b EXCEPT ![p] = i],
         pc' = [pc EXCEPT ![p] = IF "VALID" \in f THEN "hold" ELSE "ide_rw"],
         UNCHANGED <<data, lru, ide_queue, disk, want, fault>>
  PROVE  CacheInv'
<1> USE DEF CacheInv
<1>1. TypeOK'
  BY ZenonT(30) DEF TypeOK, Pcs
<1>2. OneBufferPerBlock'
  BY ZenonT(30) DEF TypeOK, OneBufferPerBlock
<1>3. DirtyHeld'
  BY ZenonT(30) DEF TypeOK, DirtyHeld
<1>4. \A r \in Procs : pc[r] \in Holding => b[r] # i
  BY Zenon DEF OneHolder
<1>5. OneHolder'
  <2>4. \A r \in Procs \ {p} : pc'[r] = pc[r] /\ b'[r] = b[r] /\ b[r] \in Bufs
    BY ZenonT(30) DEF TypeOK
  <2>5. pc'[p] \in Holding /\ pc[p] \notin Holding /\ b'[p] = i
    BY ZenonT(30) DEF TypeOK, Holding
  <2>6. \A j \in Bufs \ {i} : flags'[j] = flags[j] /\ block'[j] = block[j]
    BY ZenonT(30) DEF TypeOK
  <2>7. "BUSY" \in flags'[i] /\ block'[i] = want[p]
    BY ZenonT(30) DEF TypeOK
  <2>1. \A r \in Procs : pc'[r] \in Holding => "BUSY" \in flags'[b'[r]] /\ block'[b'[r]] = want'[r]
    BY <1>4, <2>4, <2>5, <2>6, <2>7 DEF OneHolder
  <2>2. \A r, s \in Procs : pc'[r] \in Holding /\ pc'[s] \in Holding /\ b'[r] = b'[s] => r = s
    BY <1>4, <2>4, <2>5 DEF OneHolder
  <2>3. \A j \in Bufs : "BUSY" \in flags'[j] => \E r \in Procs : pc'[r] \in Holding /\ b'[r] = j
    BY <1>4, <2>4, <2>5, <2>6 DEF OneHolder
  <2> QED BY <2>1, <2>2, <2>3, Zenon DEF OneHolder
<1>6. QueueMatches'
  <2>1. \A r \in Procs \ {p} : pc'[r] = pc[r] /\ b'[r] = b[r]
    BY ZenonT(30) DEF TypeOK
  <2>2. pc'[p] \in {"hold", "ide_rw"} /\ b'[p] = i
    BY ZenonT(30) DEF TypeOK
  <2>3. \A j \in Bufs \ {i} : Synced(j)' <=> Synced(j)
    BY ZenonT(30) DEF TypeOK, Synced
  <2>4. Synced(i)' <=> pc'[p] = "hold"
    BY ZenonT(30) DEF TypeOK, Synced
  <2>5. ~Queued(i)
    BY <1>4, Zenon DEF QueueMatches, Holding
  <2>6. \A j \in Bufs : Queued(j)' <=> Queued(j)
    BY Zenon DEF Queued
  <2>7. \A j \in Bufs :
          Queued(j)' <=> \E r \in Procs : /\ pc'[r] \in {"ide_sleep", "ide_test"} /\ b'[r] = j
                                          /\ ~Synced(j)'
    BY <1>4, <2>1, <2>2, <2>3, <2>5, <2>6 DEF QueueMatches, Holding
  <2>8. \A r \in Procs : /\ pc'[r] = "hold" => Synced(b[r])'
                         /\ pc'[r] = "ide_rw" => ~Synced(b[r])'
    <3> SUFFICES ASSUME NEW r \in Procs
                 PROVE  /\ pc'[r] = "hold" => Synced(b[r])'
                        /\ pc'[r] = "ide_rw" => ~Synced(b[r])'
      BY Zenon
    <3>1. CASE r = p
      BY <2>2, <2>4, <3>1, Zenon
    <3>2. CASE r # p /\ pc[r] \in {"hold", "ide_rw"}
      <4>1. b[r] \in Bufs \ {i}
        BY <1>4, <3>2, ZenonT(30) DEF TypeOK, Holding
      <4> QED BY <2>1, <2>3, <3>2, <4>1, Zenon DEF QueueMatches
    <3> QED BY <2>1, <3>1, <3>2, Zenon
  <2> QED BY <2>7, <2>8 DEF QueueMatches
<1>7. NoLostSleeper'
  <2> SUFFICES ASSUME NEW r \in Procs
               PROVE  /\ pc'[r] = "bget_sleep" => \E j \in Bufs : "BUSY" \in flags'[j] /\ block'[j] = want'[r]
                      /\ pc'[r] = "ide_sleep" => ~Synced(b[r])'
    BY Zenon DEF NoLostSleeper
  <2>1. CASE r = p
    BY <2>1, ZenonT(30) DEF TypeOK
  <2>2. CASE r # p
    <3>1. pc'[r] = pc[r] /\ b'[r] = b[r] /\ want'[r] = want[r]
      BY <2>2, ZenonT(30) DEF TypeOK
    <3>2. \A j \in Bufs \ {i} : flags'[j] = flags[j] /\ block'[j] = block[j]
      BY ZenonT(30) DEF TypeOK
    <3>3. pc[r] = "bget_sleep" => \E j \in Bufs \ {i} : "BUSY" \in flags[j] /\ block[j] = want[r]
      BY Zenon DEF NoLostSleeper
    <3>4. pc[r] = "ide_sleep" => b[r] \in Bufs \ {i} /\ ~Synced(b[r])
      BY <1>4, ZenonT(30) DEF TypeOK, NoLostSleeper, Holding
    <3> QED BY <3>1, <3>2, <3>3, <3>4 DEF Synced
  <2> QED BY <2>1, <2>2, Zenon
<1> QED BY <1>1, <1>2, <1>3, <1>5, <1>6, <1>7, Zenon

\* bget finds the block in a buffer that is not in use.
LEMMA BgetHitInv ==
  ASSUME CacheInv, NEW p \in Procs, BgetHit(p)
  PROVE  CacheInv'
<1>1. PICK i \in Cached(want[p]) :
        /\ "BUSY" \notin flags[i]
        /\ flags' = [flags EXCEPT ![i] = @ \cup {"BUSY"}]
        /\ b' = [b EXCEPT ![p] = i]
        /\ Goto(p, IF "VALID" \in flags[i] THEN "hold" ELSE "ide_rw")
  BY ZenonT(30) DEF BgetHit
<1>2. pc[p] = "bget" /\ UNCHANGED <<block, data, lru, ide_queue, disk, want, fault>>
  BY Zenon DEF BgetHit, At
<1>3. i \in Bufs /\ block[i] = want[p] /\ flags[i] \cap {"BUSY", "VALID"} # {}
  BY <1>1, Zenon DEF Cached
<1>4. block' = [block EXCEPT ![i] = want[p]]
  BY <1>2, <1>3, ZenonT(30) DEF CacheInv, TypeOK
<1> DEFINE f == flags[i] \cup {"BUSY"}
<1>5. f \in SUBSET Flags /\ "BUSY" \in f /\ "DIRTY" \notin f
  BY <1>1, <1>3, ZenonT(30) DEF CacheInv, TypeOK, DirtyHeld, Flags
<1>6. \A j \in Bufs \ {i} : block[j] = want[p] => flags[j] \cap {"BUSY", "VALID"} = {}
  BY <1>3, Zenon DEF CacheInv, OneBufferPerBlock
<1>7. flags' = [flags EXCEPT ![i] = f]
  BY <1>1, Zenon
<1>8. pc' = [pc EXCEPT ![p] = IF "VALID" \in f THEN "hold" ELSE "ide_rw"]
  BY <1>1, Zenon DEF Goto
<1> HIDE DEF f
<1> QED BY <1>1, <1>2, <1>3, <1>4, <1>5, <1>6, <1>7, <1>8, BgetTakes, ZenonT(30)

\* bget recycles a buffer that is not in use.
LEMMA BgetFreshInv ==
  ASSUME CacheInv, NEW p \in Procs, BgetFresh(p)
  PROVE  CacheInv'
<1>1. PICK n \in 1..NBUF :
        /\ "BUSY" \notin flags[lru[n]]
        /\ flags' = [flags EXCEPT ![lru[n]] = Recycled(@)]
        /\ block' = [block EXCEPT ![lru[n]] = want[p]]
        /\ b' = [b EXCEPT ![p] = lru[n]]
        /\ Goto(p, IF "VALID" \in Recycled(flags[lru[n]]) THEN "hold" ELSE "ide_rw")
  BY ZenonT(30) DEF BgetFresh
<1>2. /\ pc[p] = "bget" /\ Cached(want[p]) = {}
      /\ UNCHANGED <<data, lru, ide_queue, disk, want, fault>>
  BY Zenon DEF BgetFresh, At
<1> DEFINE i == lru[n]
           f == {"BUSY"}
<1>3. i \in Bufs
  BY ZenonT(30) DEF CacheInv, TypeOK
<1>4. f \in SUBSET Flags /\ "BUSY" \in f /\ "DIRTY" \notin f /\ "VALID" \notin f
  BY Zenon DEF Flags
<1>5. \A j \in Bufs \ {i} : block[j] = want[p] => flags[j] \cap {"BUSY", "VALID"} = {}
  BY <1>2, Zenon DEF Cached
<1>6. /\ flags' = [flags EXCEPT ![i] = f]
      /\ pc' = [pc EXCEPT ![p] = IF "VALID" \in f THEN "hold" ELSE "ide_rw"]
  BY <1>1, Zenon DEF Goto, Recycled
<1> HIDE DEF f, i
<1>7. block' = [block EXCEPT ![i] = want[p]] /\ b' = [b EXCEPT ![p] = i] /\ "BUSY" \notin flags[i]
  BY <1>1, Zenon DEF i
<1> QED BY <1>2, <1>3, <1>4, <1>5, <1>6, <1>7, BgetTakes, ZenonT(30)

\* A panic leaves everything but fault alone, and "no buffers" is the only one.
LEMMA BgetPanicInv ==
  ASSUME CacheInv, NEW p \in Procs, BgetPanic(p)
  PROVE  CacheInv'
<1>1. /\ fault' = "bget: no buffers"
      /\ UNCHANGED <<flags, block, data, lru, ide_queue, disk, pc, want, b>>
  BY ZenonT(30) DEF BgetPanic, Panic
<1>2. TypeOK'
  BY <1>1, ZenonT(30) DEF CacheInv, TypeOK
<1>3. OneBufferPerBlock' /\ OneHolder' /\ DirtyHeld' /\ NoLostSleeper'
  BY <1>1, ZenonT(30) DEF CacheInv, OneBufferPerBlock, OneHolder, DirtyHeld, NoLostSleeper, Synced
<1>4. QueueMatches'
  <2>1. \A i : (Queued(i)' <=> Queued(i)) /\ (Synced(i)' <=> Synced(i))
    BY <1>1, ZenonT(30) DEF Queued, Synced
  <2> QED BY <1>1, <2>1, Zenon DEF CacheInv, QueueMatches
<1> QED BY <1>2, <1>3, <1>4, Zenon DEF CacheInv

-----------------------------------------------------------------------------
(* The steps of ide_rw *)

\* A step that gives no buffer a new user and takes none away from its own.
LEMMA HoldersStay ==
  ASSUME OneHolder, UNCHANGED <<block, want, b>>,
         \A i \in Bufs : "BUSY" \in flags'[i] <=> "BUSY" \in flags[i],
         b \in [Procs -> Bufs],
         \A r \in Procs : pc'[r] \in Holding <=> pc[r] \in Holding
  PROVE  OneHolder'
BY Zenon DEF OneHolder

\* ide_rw never panics, and queues a buffer that was not in the queue.
LEMMA IdeRwInv ==
  ASSUME CacheInv, NEW p \in Procs, IdeRw(p)
  PROVE  CacheInv'
<1> USE DEF CacheInv
<1>1. /\ pc[p] = "ide_rw" /\ b[p] \in Bufs /\ "BUSY" \in flags[b[p]] /\ ~Synced(b[p])
      /\ \A r \in Procs \ {p} : pc[r] \in Holding => b[r] # b[p]
      /\ ide_queue \in Seq(Bufs)
  <2>1. pc[p] = "ide_rw" /\ pc[p] \in Holding
    BY ZenonT(30) DEF IdeRw, At, Holding
  <2>2. b[p] \in Bufs /\ ide_queue \in Seq(Bufs)
    BY ZenonT(30) DEF TypeOK
  <2> QED BY <2>1, <2>2, Zenon DEF OneHolder, QueueMatches
<1>2. /\ ide_queue' = Append(ide_queue, b[p]) /\ pc' = [pc EXCEPT ![p] = "ide_sleep"]
      /\ UNCHANGED <<flags, block, data, lru, disk, want, b, fault>>
  BY <1>1, ZenonT(30) DEF IdeRw, Queue, Goto
<1>3. TypeOK'
  <2>1. ide_queue' \in Seq(Bufs)
    BY <1>1, <1>2
  <2> QED BY <1>2, <2>1, ZenonT(30) DEF TypeOK, Pcs
<1>4. OneBufferPerBlock' /\ DirtyHeld'
  BY <1>2, Zenon DEF OneBufferPerBlock, DirtyHeld
<1>5. OneHolder'
  <2>1. \A r \in Procs : pc'[r] \in Holding <=> pc[r] \in Holding
    BY <1>1, <1>2, ZenonT(30) DEF TypeOK, Holding
  <2> QED BY <1>2, <2>1, HoldersStay, ZenonT(30) DEF TypeOK
<1>6. QueueMatches'
  <2>1. ~Queued(b[p]) /\ Distinct(ide_queue)
    BY <1>1, Zenon DEF QueueMatches, Holding, Distinct
  <2>2. /\ Distinct(ide_queue')
        /\ \A j \in Bufs : Queued(j)' <=> Queued(j) \/ j = b[p]
    BY <1>1, <1>2, <2>1, Appended, ZenonT(30) DEF TypeOK
  <2>3. \A r \in Procs : IF r = p THEN pc'[r] = "ide_sleep" ELSE pc'[r] = pc[r]
    BY <1>2, ZenonT(30) DEF TypeOK
  <2>4. \A j \in Bufs : Synced(j)' <=> Synced(j)
    BY <1>2, Zenon DEF Synced
  <2>5. \A j \in Bufs :
          Queued(j)' <=> \E r \in Procs : /\ pc'[r] \in {"ide_sleep", "ide_test"} /\ b'[r] = j
                                          /\ ~Synced(j)'
    <3> SUFFICES ASSUME NEW j \in Bufs
                 PROVE  Queued(j)' <=> \E r \in Procs : /\ pc'[r] \in {"ide_sleep", "ide_test"}
                                                        /\ b'[r] = j /\ ~Synced(j)'
      BY Zenon
    <3>1. CASE j = b[p]
      BY <1>1, <1>2, <2>2, <2>3, <2>4, <3>1, Zenon
    <3>2. CASE j # b[p]
      BY <1>1, <1>2, <2>2, <2>3, <2>4, <3>2, Zenon DEF QueueMatches
    <3> QED BY <3>1, <3>2, Zenon
  <2>6. \A r \in Procs : /\ pc'[r] = "hold" => Synced(b[r])'
                         /\ pc'[r] = "ide_rw" => ~Synced(b[r])'
    BY <1>2, <2>3, <2>4, ZenonT(30) DEF TypeOK, QueueMatches
  <2> QED BY <2>2, <2>5, <2>6, Zenon DEF QueueMatches, Distinct
<1>7. NoLostSleeper'
  BY <1>1, <1>2, ZenonT(30) DEF TypeOK, NoLostSleeper, Synced
<1> QED BY <1>3, <1>4, <1>5, <1>6, <1>7, Zenon

\* ide_rw's loop ends when the buffer is synchronised.
LEMMA IdeTestInv ==
  ASSUME CacheInv, NEW p \in Procs, IdeTest(p)
  PROVE  CacheInv'
<1> USE DEF CacheInv
<1>1. /\ pc[p] = "ide_test" /\ pc' = [pc EXCEPT ![p] = IF Synced(b[p]) THEN "hold" ELSE "ide_sleep"]
      /\ UNCHANGED <<flags, block, data, lru, ide_queue, disk, want, b, fault>>
  BY Zenon DEF IdeTest, At, Goto
<1>2. TypeOK'
  BY <1>1, ZenonT(30) DEF TypeOK, Pcs
<1>3. OneBufferPerBlock' /\ DirtyHeld'
  BY <1>1, Zenon DEF OneBufferPerBlock, DirtyHeld
<1>4. OneHolder'
  <2>1. \A r \in Procs : pc'[r] \in Holding <=> pc[r] \in Holding
    BY <1>1, ZenonT(30) DEF TypeOK, Holding
  <2> QED BY <1>1, <2>1, HoldersStay, ZenonT(30) DEF TypeOK
<1>5. /\ \A r \in Procs \ {p} : pc'[r] = pc[r]
      /\ pc'[p] = IF Synced(b[p]) THEN "hold" ELSE "ide_sleep"
      /\ \A j \in Bufs : (Synced(j)' <=> Synced(j)) /\ (Queued(j)' <=> Queued(j))
      /\ b[p] \in Bufs
  BY <1>1, ZenonT(30) DEF TypeOK, Synced, Queued
<1>6. QueueMatches'
  <2>1. \A j \in Bufs :
          Queued(j)' <=> \E r \in Procs : /\ pc'[r] \in {"ide_sleep", "ide_test"} /\ b'[r] = j
                                          /\ ~Synced(j)'
    BY <1>1, <1>5 DEF QueueMatches
  <2>2. \A r \in Procs : /\ pc'[r] = "hold" => Synced(b[r])'
                         /\ pc'[r] = "ide_rw" => ~Synced(b[r])'
    <3>1. \A r \in Procs : b[r] \in Bufs /\ b'[r] = b[r]
      BY <1>1, ZenonT(30) DEF TypeOK
    <3>2. \A r \in Procs : Synced(b[r])' <=> Synced(b[r])
      BY <1>1, Zenon DEF Synced
    <3> QED BY <1>5, <3>1, <3>2, Zenon DEF QueueMatches
  <2> QED BY <1>1, <2>1, <2>2 DEF QueueMatches
<1>7. NoLostSleeper'
  BY <1>1, <1>5, ZenonT(30) DEF NoLostSleeper, TypeOK
<1> QED BY <1>2, <1>3, <1>4, <1>6, <1>7, Zenon

\* ide_intr: the request at the head of the queue is done.
LEMMA IdeIntrFacts ==
  ASSUME CacheInv, IdeIntr
  PROVE  LET i == Head(ide_queue) IN
           /\ i \in Bufs /\ Queued(i) /\ "BUSY" \in flags[i] /\ ~Synced(i)
           /\ flags' = [flags EXCEPT ![i] = (@ \cup {"VALID"}) \ {"DIRTY"}]
           /\ pc' = Wakeup(pc, i)
           /\ Distinct(ide_queue') /\ ide_queue' \in Seq(Bufs)
           /\ \A j \in Bufs : Queued(j)' <=> Queued(j) /\ j # i
           /\ UNCHANGED <<block, lru, want, b, fault>>
<1> DEFINE i == Head(ide_queue)
<1>1. /\ ide_queue # <<>> /\ ide_queue' = Tail(ide_queue) /\ pc' = Wakeup(pc, i)
      /\ flags' = [flags EXCEPT ![i] = (@ \cup {"VALID"}) \ {"DIRTY"}]
      /\ UNCHANGED <<block, lru, want, b, fault>>
  BY Zenon DEF IdeIntr
<1>2. ide_queue \in Seq(Bufs) /\ Distinct(ide_queue)
  BY ZenonT(30) DEF CacheInv, TypeOK, QueueMatches, Distinct
<1>3. /\ i \in Bufs /\ Queued(i)
      /\ Distinct(ide_queue') /\ ide_queue' \in Seq(Bufs)
      /\ \A j \in Bufs : Queued(j)' <=> Queued(j) /\ j # i
  BY <1>1, <1>2, Served, Zenon
<1> HIDE DEF i
<1>4. PICK p \in Procs : pc[p] \in {"ide_sleep", "ide_test"} /\ b[p] = i /\ ~Synced(i)
  BY <1>3, Zenon DEF CacheInv, QueueMatches
<1>5. pc[p] \in Holding
  BY <1>4, Zenon DEF Holding
<1>6. "BUSY" \in flags[i]
  BY <1>4, <1>5, Zenon DEF CacheInv, OneHolder
<1> QED BY <1>1, <1>3, <1>4, <1>6, Zenon DEF i

\* What a wakeup of buffer i leaves the processes at
LEMMA WakeupPc ==
  ASSUME NEW i, NEW r \in Procs, NEW pcs
  PROVE  LET w == Wakeup(pcs, i)[r] IN
           /\ pcs[r] = "bget_sleep" => w = IF i = 0 THEN "bget" ELSE "bget_sleep"
           /\ pcs[r] = "ide_sleep" => w = IF b[r] = i THEN "ide_test" ELSE "ide_sleep"
           /\ pcs[r] \notin {"bget_sleep", "ide_sleep"} => w = pcs[r]
BY Zenon DEF Wakeup

\* ide_intr leaves every buffer with its user, takes the request off the queue
\* and wakes who waits for it.
LEMMA IdeIntrInv ==
  ASSUME CacheInv, IdeIntr
  PROVE  CacheInv'
<1>0. PICK i : i = Head(ide_queue)
  BY Zenon
<1>1. /\ i \in Bufs /\ Queued(i) /\ "BUSY" \in flags[i] /\ ~Synced(i)
      /\ flags' = [flags EXCEPT ![i] = (@ \cup {"VALID"}) \ {"DIRTY"}]
      /\ pc' = Wakeup(pc, i)
      /\ Distinct(ide_queue') /\ ide_queue' \in Seq(Bufs)
      /\ \A j \in Bufs : Queued(j)' <=> Queued(j) /\ j # i
      /\ UNCHANGED <<block, lru, want, b, fault>>
  BY <1>0, IdeIntrFacts, Zenon
<1>d. /\ disk' = [disk EXCEPT ![block[i]] = data[i]] \/ UNCHANGED disk
      /\ data' \in [Bufs -> Values]
  <2>1. CASE "DIRTY" \in flags[i]
    BY <1>0, <2>1, Zenon DEF IdeIntr, CacheInv, TypeOK
  <2>2. CASE "DIRTY" \notin flags[i]
    <3>1. PICK fails \in ReadFails : data' = [data EXCEPT ![i] = IF fails THEN @ ELSE disk[block[i]]]
      BY <1>0, <2>2, Zenon DEF IdeIntr
    <3>2. UNCHANGED disk
      BY <1>0, <2>2, Zenon DEF IdeIntr
    <3> QED BY <1>1, <3>1, <3>2, ZenonT(30) DEF CacheInv, TypeOK
  <2> QED BY <2>1, <2>2, Zenon
<1> USE DEF CacheInv
<1>f. /\ \A j \in Bufs \ {i} : flags'[j] = flags[j]
      /\ flags'[i] = (flags[i] \cup {"VALID"}) \ {"DIRTY"}
      /\ \A j \in Bufs : "BUSY" \in flags'[j] <=> "BUSY" \in flags[j]
  BY <1>1, ZenonT(30) DEF TypeOK
<1>s. Synced(i)' /\ \A j \in Bufs \ {i} : Synced(j)' <=> Synced(j)
  BY <1>f, Zenon DEF Synced
<1>p. \A r \in Procs :
        /\ pc[r] = "bget_sleep" => pc'[r] = IF i = 0 THEN "bget" ELSE "bget_sleep"
        /\ pc[r] = "ide_sleep" => pc'[r] = IF b[r] = i THEN "ide_test" ELSE "ide_sleep"
        /\ pc[r] \notin {"bget_sleep", "ide_sleep"} => pc'[r] = pc[r]
  BY <1>1, WakeupPc
<1>2. TypeOK'
  <2>1. pc' \in [Procs -> Pcs]
    <3>1. \A r \in Procs : pc'[r] \in Pcs
      BY <1>p, ZenonT(30) DEF TypeOK, Pcs
    <3> QED BY <1>1, <3>1, Zenon DEF Wakeup
  <2>2. flags' \in [Bufs -> SUBSET Flags]
    BY <1>1, ZenonT(30) DEF TypeOK, Flags
  <2>3. disk' \in [Blocks -> Values]
    BY <1>1, <1>d, ZenonT(30) DEF TypeOK
  <2> QED BY <1>1, <1>d, <2>1, <2>2, <2>3, ZenonT(30) DEF TypeOK
<1>3. OneBufferPerBlock'
  BY <1>1, <1>f, Zenon DEF OneBufferPerBlock
<1>4. DirtyHeld'
  BY <1>f, Zenon DEF DirtyHeld
<1>5. OneHolder'
  <2>1. \A r \in Procs : pc'[r] \in Holding <=> pc[r] \in Holding
    BY <1>p, Zenon DEF Holding
  <2> QED BY <1>1, <1>f, <2>1, HoldersStay, ZenonT(30) DEF TypeOK
<1>6. QueueMatches'
  <2>1. \A r \in Procs : /\ pc'[r] \in {"ide_sleep", "ide_test"} <=> pc[r] \in {"ide_sleep", "ide_test"}
                         /\ (pc'[r] = "hold" <=> pc[r] = "hold")
                         /\ (pc'[r] = "ide_rw" <=> pc[r] = "ide_rw")
    BY <1>p, Zenon
  <2>2. \A j \in Bufs :
          Queued(j)' <=> \E r \in Procs : /\ pc'[r] \in {"ide_sleep", "ide_test"} /\ b'[r] = j
                                          /\ ~Synced(j)'
    BY <1>1, <1>s, <2>1, Zenon DEF QueueMatches
  <2>3. ASSUME NEW r \in Procs
        PROVE  /\ pc'[r] = "hold" => Synced(b[r])'
               /\ pc'[r] = "ide_rw" => ~Synced(b[r])'
    <3>1. b[r] \in Bufs /\ b'[r] = b[r]
      BY <1>1, ZenonT(30) DEF TypeOK
    <3>2. pc[r] = "ide_rw" => b[r] # i
      <4>1. PICK p \in Procs : pc[p] \in {"ide_sleep", "ide_test"} /\ b[p] = i
        BY <1>1, Zenon DEF QueueMatches
      <4> QED BY <4>1, Zenon DEF OneHolder, Holding
    <3>3. \A j \in Bufs : j = b[r] => (Synced(b[r])' <=> Synced(j)')
      BY <3>1, Zenon DEF Synced
    <3> QED BY <1>s, <2>1, <3>1, <3>2, <3>3, Zenon DEF QueueMatches
  <2> QED BY <1>1, <2>2, <2>3, Zenon DEF QueueMatches, Distinct
<1>7. NoLostSleeper'
  <2> SUFFICES ASSUME NEW r \in Procs
               PROVE  /\ pc'[r] = "bget_sleep" => \E j \in Bufs : "BUSY" \in flags'[j] /\ block'[j] = want'[r]
                      /\ pc'[r] = "ide_sleep" => ~Synced(b[r])'
    BY Zenon DEF NoLostSleeper
  <2>1. pc'[r] = "bget_sleep" => pc[r] = "bget_sleep"
    BY <1>p, Zenon
  <2>2. pc'[r] = "ide_sleep" => pc[r] = "ide_sleep" /\ b[r] \in Bufs \ {i}
    BY <1>p, ZenonT(30) DEF TypeOK
  <2>3. \A j \in Bufs : j = b[r] => (Synced(b[r])' <=> Synced(j)')
    BY <1>1, Zenon DEF Synced
  <2> QED BY <1>1, <1>f, <1>s, <2>1, <2>2, <2>3, Zenon DEF NoLostSleeper
<1> QED BY <1>2, <1>3, <1>4, <1>5, <1>6, <1>7, Zenon

-----------------------------------------------------------------------------
(* The steps of the holder *)

\* Who has returned from bread uses its buffer alone.
LEMMA Holder ==
  ASSUME CacheInv, NEW p \in Procs, pc[p] = "hold"
  PROVE  /\ b[p] \in Bufs /\ "BUSY" \in flags[b[p]] /\ block[b[p]] = want[p] /\ Synced(b[p])
         /\ ~Queued(b[p])
         /\ \A r \in Procs \ {p} : pc[r] \in Holding => b[r] # b[p]
<1>1. pc[p] \in Holding
  BY Zenon DEF Holding
<1>2. b[p] \in Bufs
  BY ZenonT(30) DEF CacheInv, TypeOK
<1>3. Synced(b[p])
  BY Zenon DEF CacheInv, QueueMatches
<1> QED BY <1>1, <1>2, <1>3, Zenon DEF CacheInv, OneHolder, QueueMatches

\* bwrite never panics, and its buffer is not synchronised until the disk has it.
LEMMA BwriteInv ==
  ASSUME CacheInv, NEW p \in Procs, NEW v \in Values, Bwrite(p, v)
  PROVE  CacheInv'
<1>1. pc[p] = "hold"
  BY Zenon DEF Bwrite, At
<1>0. PICK i : i = b[p]
  BY Zenon
<1>2. /\ i \in Bufs /\ "BUSY" \in flags[i] /\ block[i] = want[p] /\ Synced(i) /\ ~Queued(i)
      /\ \A r \in Procs \ {p} : pc[r] \in Holding => b[r] # i
  BY <1>0, <1>1, Holder, Zenon
<1>3. /\ data' = [data EXCEPT ![i] = v] /\ flags' = [flags EXCEPT ![i] = @ \cup {"DIRTY"}]
      /\ pc' = [pc EXCEPT ![p] = "ide_rw"]
      /\ UNCHANGED <<block, lru, ide_queue, disk, want, b, fault>>
  BY <1>0, <1>2, Zenon DEF Bwrite, Goto
<1> USE DEF CacheInv
<1>f. /\ \A j \in Bufs \ {i} : flags'[j] = flags[j]
      /\ flags'[i] = flags[i] \cup {"DIRTY"}
      /\ \A j \in Bufs : /\ "BUSY" \in flags'[j] <=> "BUSY" \in flags[j]
                         /\ "VALID" \in flags'[j] <=> "VALID" \in flags[j]
  BY <1>2, <1>3, ZenonT(30) DEF TypeOK
<1>s. ~Synced(i)' /\ \A j \in Bufs \ {i} : Synced(j)' <=> Synced(j)
  BY <1>f, Zenon DEF Synced
<1>p. pc'[p] = "ide_rw" /\ \A r \in Procs \ {p} : pc'[r] = pc[r]
  BY <1>3, ZenonT(30) DEF TypeOK
<1>4. TypeOK'
  BY <1>2, <1>3, ZenonT(30) DEF TypeOK, Pcs, Flags
<1>5. OneBufferPerBlock'
  BY <1>3, <1>f, Zenon DEF OneBufferPerBlock
<1>6. DirtyHeld'
  BY <1>2, <1>f, Zenon DEF DirtyHeld, Synced
<1>7. OneHolder'
  <2>1. \A r \in Procs : pc'[r] \in Holding <=> pc[r] \in Holding
    BY <1>1, <1>p, Zenon DEF Holding
  <2> QED BY <1>3, <1>f, <2>1, HoldersStay, ZenonT(30) DEF TypeOK
<1>8. QueueMatches'
  <2>1. \A j \in Bufs : Queued(j)' <=> Queued(j)
    BY <1>3, Zenon DEF Queued
  <2>2. \A j \in Bufs :
          Queued(j)' <=> \E r \in Procs : /\ pc'[r] \in {"ide_sleep", "ide_test"} /\ b'[r] = j
                                          /\ ~Synced(j)'
    <3>1. \A r \in Procs : pc'[r] \in {"ide_sleep", "ide_test"} <=> pc[r] \in {"ide_sleep", "ide_test"}
      BY <1>1, <1>p, Zenon
    <3>2. \A r \in Procs : pc[r] \in {"ide_sleep", "ide_test"} => b[r] # i
      BY <1>1, <1>2, Zenon DEF Holding
    <3> QED BY <1>2, <1>3, <1>s, <2>1, <3>1, <3>2, Zenon DEF QueueMatches
  <2>3. ASSUME NEW r \in Procs
        PROVE  /\ pc'[r] = "hold" => Synced(b[r])'
               /\ pc'[r] = "ide_rw" => ~Synced(b[r])'
    <3>1. \A j \in Bufs : j = b[r] => (Synced(b[r])' <=> Synced(j)')
      BY <1>3, Zenon DEF Synced
    <3>2. CASE r = p
      BY <1>0, <1>2, <1>s, <1>p, <3>1, <3>2, Zenon
    <3>3. CASE r # p /\ pc[r] \in {"hold", "ide_rw"}
      <4>1. b[r] \in Bufs \ {i}
        BY <1>2, <3>3, ZenonT(30) DEF TypeOK, Holding
      <4> QED BY <1>s, <1>p, <3>1, <3>3, <4>1, Zenon DEF QueueMatches
    <3> QED BY <1>p, <3>2, <3>3, Zenon
  <2> QED BY <1>3, <2>2, <2>3 DEF QueueMatches
<1>9. NoLostSleeper'
  <2> SUFFICES ASSUME NEW r \in Procs
               PROVE  /\ pc'[r] = "bget_sleep" => \E j \in Bufs : "BUSY" \in flags'[j] /\ block'[j] = want'[r]
                      /\ pc'[r] = "ide_sleep" => ~Synced(b[r])'
    BY Zenon DEF NoLostSleeper
  <2>1. pc'[r] \in {"bget_sleep", "ide_sleep"} => pc'[r] = pc[r]
    BY <1>p, Zenon
  <2>2. pc'[r] = "ide_sleep" => b[r] \in Bufs \ {i}
    BY <1>1, <1>2, <1>p, ZenonT(30) DEF TypeOK, Holding
  <2>3. \A j \in Bufs : j = b[r] => (Synced(b[r])' <=> Synced(j)')
    BY <1>3, Zenon DEF Synced
  <2> QED BY <1>3, <1>f, <1>s, <2>1, <2>2, <2>3, Zenon DEF NoLostSleeper
<1> QED BY <1>4, <1>5, <1>6, <1>7, <1>8, <1>9, Zenon

\* brelse never panics; the buffer is nobody's, and all who sleep in bget look
\* again.
LEMMA BrelseInv ==
  ASSUME CacheInv, NEW p \in Procs, Brelse(p)
  PROVE  CacheInv'
<1>1. pc[p] = "hold"
  BY Zenon DEF Brelse, At
<1>0. PICK i : i = b[p]
  BY Zenon
<1>2. /\ i \in Bufs /\ "BUSY" \in flags[i] /\ block[i] = want[p] /\ Synced(i) /\ ~Queued(i)
      /\ \A r \in Procs \ {p} : pc[r] \in Holding => b[r] # i
  BY <1>0, <1>1, Holder, Zenon
<1>3. /\ lru' = Front(i) /\ flags' = [flags EXCEPT ![i] = @ \ {"BUSY"}]
      /\ pc' = Wakeup([pc EXCEPT ![p] = "out"], 0)
      /\ want' = [want EXCEPT ![p] = Block0] /\ b' = [b EXCEPT ![p] = 0]
      /\ UNCHANGED <<block, data, ide_queue, disk, fault>>
  BY <1>0, <1>2, Zenon DEF Brelse
<1> USE DEF CacheInv
<1>f. /\ \A j \in Bufs \ {i} : flags'[j] = flags[j]
      /\ flags'[i] = flags[i] \ {"BUSY"}
  BY <1>2, <1>3, ZenonT(30) DEF TypeOK
<1>s. \A j \in Bufs : Synced(j)' <=> Synced(j)
  BY <1>2, <1>f, Zenon DEF Synced
<1>p. /\ pc'[p] = "out"
      /\ \A r \in Procs \ {p} :
           /\ pc[r] = "bget_sleep" => pc'[r] = "bget"
           /\ pc[r] = "ide_sleep" => pc'[r] \in {"ide_sleep", "ide_test"}
           /\ pc[r] \notin {"bget_sleep", "ide_sleep"} => pc'[r] = pc[r]
           /\ b'[r] = b[r] /\ want'[r] = want[r] /\ b[r] \in Bufs /\ pc[r] \in Pcs
  <2> DEFINE pcs == [pc EXCEPT ![p] = "out"]
  <2>1. pcs[p] = "out" /\ \A r \in Procs \ {p} : pcs[r] = pc[r]
    BY ZenonT(30) DEF TypeOK
  <2>2. pc' = Wakeup(pcs, 0)
    BY <1>3, Zenon
  <2> HIDE DEF pcs
  <2>3. /\ pc'[p] = "out"
        /\ \A r \in Procs \ {p} :
             /\ pc[r] = "bget_sleep" => pc'[r] = "bget"
             /\ pc[r] = "ide_sleep" => pc'[r] \in {"ide_sleep", "ide_test"}
             /\ pc[r] \notin {"bget_sleep", "ide_sleep"} => pc'[r] = pc[r]
    BY <2>1, <2>2, Zenon DEF Wakeup
  <2> QED BY <1>3, <2>3, ZenonT(30) DEF TypeOK
<1>h. \A r \in Procs \ {p} : pc'[r] \in Holding <=> pc[r] \in Holding
  BY <1>p, Zenon DEF Holding
<1>4. TypeOK'
  <2>1. lru' \in [1..NBUF -> Bufs]
    <3> DEFINE n == CHOOSE m \in 1..NBUF : lru[m] = i
    <3>1. lru' = [m \in 1..NBUF |-> IF m = 1 THEN i ELSE IF m <= n THEN lru[m - 1] ELSE lru[m]]
      BY <1>3, Zenon DEF Front
    <3> HIDE DEF n
    <3>2. \A m \in 1..NBUF : m # 1 => m - 1 \in 1..NBUF
      BY BcacheAssumption
    <3>3. \A m \in 1..NBUF : lru[m] \in Bufs
      BY ZenonT(30) DEF TypeOK
    <3> QED BY <1>2, <3>1, <3>2, <3>3, Zenon
  <2>2. pc' \in [Procs -> Pcs]
    <3>1. \A r \in Procs : pc'[r] \in Pcs
      BY <1>p, Zenon DEF Pcs
    <3> QED BY <1>3, <3>1, Zenon DEF Wakeup
  <2>3. 0 \in Bufs
    BY BcacheAssumption DEF Bufs
  <2>4. /\ flags' \in [Bufs -> SUBSET Flags]
        /\ want' \in [Procs -> Blocks] /\ b' \in [Procs -> Bufs]
    BY <1>3, <2>3, BcacheAssumption, ZenonT(30) DEF TypeOK
  <2> QED BY <1>3, <2>1, <2>2, <2>4, ZenonT(30) DEF TypeOK
<1>5. OneBufferPerBlock'
  BY <1>2, <1>3, <1>f, Zenon DEF OneBufferPerBlock
<1>6. DirtyHeld'
  BY <1>2, <1>f, Zenon DEF DirtyHeld, Synced
<1>7. OneHolder'
  <2>0. pc'[p] \notin Holding
    BY <1>p, Zenon DEF Holding
  <2>1. \A r \in Procs : pc'[r] \in Holding => "BUSY" \in flags'[b'[r]] /\ block'[b'[r]] = want'[r]
    <3> SUFFICES ASSUME NEW r \in Procs, pc'[r] \in Holding
                 PROVE  "BUSY" \in flags'[b'[r]] /\ block'[b'[r]] = want'[r]
      BY Zenon
    <3>1. r # p
      BY <2>0, Zenon
    <3>2. b[r] \in Bufs \ {i} /\ "BUSY" \in flags[b[r]] /\ block[b[r]] = want[r]
      BY <1>2, <1>p, <1>h, <3>1, Zenon DEF OneHolder
    <3> QED BY <1>3, <1>f, <1>p, <3>1, <3>2, Zenon
  <2>2. \A r, s \in Procs : pc'[r] \in Holding /\ pc'[s] \in Holding /\ b'[r] = b'[s] => r = s
    BY <1>p, <1>h, <2>0, Zenon DEF OneHolder
  <2>3. \A j \in Bufs : "BUSY" \in flags'[j] => \E r \in Procs : pc'[r] \in Holding /\ b'[r] = j
    BY <1>0, <1>2, <1>f, <1>p, <1>h DEF OneHolder
  <2> QED BY <2>1, <2>2, <2>3, Zenon DEF OneHolder
<1>8. QueueMatches'
  <2>1. \A j \in Bufs : Queued(j)' <=> Queued(j)
    BY <1>3, Zenon DEF Queued
  <2>2. \A j \in Bufs :
          Queued(j)' <=> \E r \in Procs : /\ pc'[r] \in {"ide_sleep", "ide_test"} /\ b'[r] = j
                                          /\ ~Synced(j)'
    BY <1>1, <1>s, <1>p, <2>1 DEF QueueMatches
  <2>3. ASSUME NEW r \in Procs
        PROVE  /\ pc'[r] = "hold" => Synced(b[r])'
               /\ pc'[r] = "ide_rw" => ~Synced(b[r])'
    <3>1. CASE r = p
      BY <1>p, <3>1, Zenon
    <3>2. CASE r # p
      <4>1. (pc'[r] = "hold" <=> pc[r] = "hold") /\ (pc'[r] = "ide_rw" <=> pc[r] = "ide_rw")
        BY <1>p, <3>2, Zenon
      <4>2. Synced(b[r])' <=> Synced(b[r])
        <5>1. \A j \in Bufs : j = b'[r] => (Synced(b[r])' <=> Synced(j)')
          BY Zenon DEF Synced
        <5> QED BY <1>s, <1>p, <3>2, <5>1, Zenon
      <4> QED BY <4>1, <4>2, Zenon DEF QueueMatches
    <3> QED BY <3>1, <3>2, Zenon
  <2>4. Distinct(ide_queue')
    BY <1>3 DEF QueueMatches, Distinct
  <2> QED BY <2>2, <2>3, <2>4, Zenon DEF QueueMatches, Distinct
<1>9. NoLostSleeper'
  <2> SUFFICES ASSUME NEW r \in Procs
               PROVE  pc'[r] # "bget_sleep" /\ (pc'[r] = "ide_sleep" => ~Synced(b[r])')
    BY Zenon DEF NoLostSleeper
  <2>1. CASE r = p
    BY <1>p, <2>1, Zenon
  <2>2. CASE r # p
    <3>1. pc'[r] # "bget_sleep" /\ (pc'[r] = "ide_sleep" => pc[r] = "ide_sleep")
      BY <1>p, <2>2, Zenon
    <3>2. Synced(b[r])' <=> Synced(b[r])
      <4>1. \A j \in Bufs : j = b'[r] => (Synced(b[r])' <=> Synced(j)')
        BY Zenon DEF Synced
      <4> QED BY <1>s, <1>p, <2>2, <4>1, Zenon
    <3> QED BY <3>1, <3>2, Zenon DEF NoLostSleeper
  <2> QED BY <2>1, <2>2, Zenon
<1> QED BY <1>4, <1>5, <1>6, <1>7, <1>8, <1>9, Zenon

-----------------------------------------------------------------------------
\* Every step of the cache and the disk preserves CacheInv.
LEMMA StepInv == CacheInv /\ [Next]_vars => CacheInv'
<1> SUFFICES ASSUME CacheInv, [Next]_vars PROVE CacheInv'
  BY Zenon
<1>1. ASSUME UNCHANGED vars PROVE CacheInv'
  <2>1. UNCHANGED <<flags, block, data, lru, ide_queue, disk, pc, want, b, fault>>
    BY <1>1, Zenon DEF vars
  <2>2. TypeOK' /\ OneBufferPerBlock' /\ OneHolder' /\ DirtyHeld' /\ NoLostSleeper'
    BY <2>1, ZenonT(30) DEF CacheInv, TypeOK, OneBufferPerBlock, OneHolder, DirtyHeld, NoLostSleeper, Synced
  <2>3. QueueMatches'
    BY <2>1, QueueStays, Zenon DEF CacheInv
  <2> QED BY <2>2, <2>3, Zenon DEF CacheInv
<1>2. ASSUME NEW p \in Procs, Kernel(p) PROVE CacheInv'
  BY <1>2, BgetSleepInv, BgetHitInv, BgetFreshInv, BgetPanicInv, IdeRwInv, IdeTestInv, Zenon DEF Kernel
<1>3. ASSUME NEW p \in Procs, NEW x \in Blocks, Bread(p, x) PROVE CacheInv'
  BY <1>3, BreadInv, Zenon
<1>4. ASSUME NEW p \in Procs, NEW v \in Values, Bwrite(p, v) PROVE CacheInv'
  BY <1>4, BwriteInv, Zenon
<1>5. ASSUME NEW p \in Procs, Brelse(p) PROVE CacheInv'
  BY <1>5, BrelseInv, Zenon
<1>6. CASE IdeIntr
  BY <1>6, IdeIntrInv, Zenon
<1> QED BY <1>1, <1>2, <1>3, <1>4, <1>5, <1>6, Zenon DEF Next, Stopped

\* What a step does to the data: only IdeIntr and Bwrite write buffers or disk,
\* and what becomes synchronised was read or written just now.
LEMMA CleanStep ==
  ASSUME CacheInv, Clean, ReadFails = {FALSE}, [Next]_vars
  PROVE  Clean'
<1>1. ASSUME UNCHANGED <<data, disk>>,
             \A i \in Bufs : Synced(i)' => Synced(i) /\ block'[i] = block[i]
      PROVE  Clean'
  BY <1>1, Zenon DEF Clean
<1>2. CASE UNCHANGED <<flags, block, data, disk>>
  BY <1>1, <1>2, Zenon DEF Synced
<1>3. ASSUME NEW p \in Procs, BgetHit(p) PROVE Clean'
  <2>1. PICK i \in Bufs : flags' = [flags EXCEPT ![i] = @ \cup {"BUSY"}]
    BY <1>3, ZenonT(30) DEF BgetHit, Cached
  <2>2. UNCHANGED <<block, data, disk>>
    BY <1>3, Zenon DEF BgetHit
  <2>3. \A j \in Bufs : Synced(j)' => Synced(j)
    BY <2>1, ZenonT(30) DEF Synced, CacheInv, TypeOK
  <2> QED BY <1>1, <2>2, <2>3, Zenon
<1>4. ASSUME NEW p \in Procs, BgetFresh(p) PROVE Clean'
  <2>1. PICK n \in 1..NBUF : /\ flags' = [flags EXCEPT ![lru[n]] = Recycled(@)]
                             /\ block' = [block EXCEPT ![lru[n]] = want[p]]
    BY <1>4, ZenonT(30) DEF BgetFresh
  <2>2. UNCHANGED <<data, disk>>
    BY <1>4, Zenon DEF BgetFresh
  <2>3. \A j \in Bufs : Synced(j)' => Synced(j) /\ block'[j] = block[j]
    BY <2>1, ZenonT(30) DEF Synced, CacheInv, TypeOK, Recycled
  <2> QED BY <1>1, <2>2, <2>3, Zenon
<1>5. ASSUME NEW p \in Procs, NEW v \in Values, Bwrite(p, v) PROVE Clean'
  <2>1. PICK i : i = b[p]
    BY Zenon
  <2>2. i \in Bufs /\ "BUSY" \in flags[i]
    BY <1>5, <2>1, Holder, Zenon DEF Bwrite, At
  <2>3. /\ data' = [data EXCEPT ![i] = v] /\ flags' = [flags EXCEPT ![i] = @ \cup {"DIRTY"}]
        /\ UNCHANGED <<block, disk>>
    BY <1>5, <2>1, <2>2, Zenon DEF Bwrite
  <2> QED BY <2>2, <2>3, ZenonT(30) DEF Clean, Synced, CacheInv, TypeOK
<1>6. ASSUME NEW p \in Procs, Brelse(p) PROVE Clean'
  <2>1. PICK i : i = b[p]
    BY Zenon
  <2>2. i \in Bufs /\ "BUSY" \in flags[i]
    BY <1>6, <2>1, Holder, Zenon DEF Brelse, At
  <2>3. flags' = [flags EXCEPT ![i] = @ \ {"BUSY"}] /\ UNCHANGED <<block, data, disk>>
    BY <1>6, <2>1, <2>2, Zenon DEF Brelse
  <2>4. \A j \in Bufs : Synced(j)' => Synced(j)
    BY <2>2, <2>3, ZenonT(30) DEF Synced, CacheInv, TypeOK
  <2> QED BY <1>1, <2>3, <2>4, Zenon
<1>7. CASE IdeIntr
  <2>0. PICK i : i = Head(ide_queue)
    BY Zenon
  <2>1. /\ i \in Bufs /\ "BUSY" \in flags[i] /\ block' = block
        /\ flags' = [flags EXCEPT ![i] = (@ \cup {"VALID"}) \ {"DIRTY"}]
    BY <1>7, <2>0, IdeIntrFacts, Zenon
  <2>2. block[i] \in Blocks /\ \A j \in Bufs \ {i} : Synced(j)' <=> Synced(j)
    BY <2>1, ZenonT(30) DEF Synced, CacheInv, TypeOK
  <2>3. CASE "DIRTY" \in flags[i]
    <3>1. disk' = [disk EXCEPT ![block[i]] = data[i]] /\ UNCHANGED data
      BY <1>7, <2>0, <2>3, Zenon DEF IdeIntr
    <3>2. \A j \in Bufs \ {i} : Synced(j) => block[j] # block[i]
      BY <2>1, Zenon DEF CacheInv, OneBufferPerBlock, Synced
    <3>3. disk'[block[i]] = data'[i]
      BY <2>1, <2>2, <3>1, ZenonT(30) DEF CacheInv, TypeOK
    <3>4. ASSUME NEW j \in Bufs \ {i}, Synced(j)' PROVE data'[j] = disk'[block'[j]]
      BY <2>1, <2>2, <3>1, <3>2, <3>4, ZenonT(30) DEF Clean, CacheInv, TypeOK
    <3> QED BY <2>1, <3>3, <3>4, Zenon DEF Clean
  <2>4. CASE "DIRTY" \notin flags[i]
    <3>1. data' = [data EXCEPT ![i] = disk[block[i]]] /\ UNCHANGED disk
      BY <1>7, <2>0, <2>4, Zenon DEF IdeIntr
    <3> QED BY <2>1, <2>2, <3>1, ZenonT(30) DEF Clean, CacheInv, TypeOK
  <2> QED BY <2>3, <2>4, Zenon
<1>8. ASSUME NEW p \in Procs, Kernel(p) PROVE Clean'
  BY <1>2, <1>3, <1>4, <1>8, ZenonT(30)
     DEF Kernel, BgetSleep, BgetPanic, Panic, IdeRw, IdeTest
<1>9. ASSUME NEW p \in Procs, NEW x \in Blocks, Bread(p, x) PROVE Clean'
  BY <1>2, <1>9, Zenon DEF Bread
<1>10. ASSUME UNCHANGED vars PROVE Clean'
  BY <1>2, <1>10, Zenon DEF vars
<1> QED BY <1>5, <1>6, <1>7, <1>8, <1>9, <1>10, Zenon DEF Next, Stopped

-----------------------------------------------------------------------------
(* The theorems *)

\* However many processes read and write blocks, and whatever the disk answers,
\* a block has one buffer, a buffer one user, and no sleeper of bget or ide_rw
\* is forgotten; bread, bwrite, brelse and ide_rw panic only for want of buffers.
THEOREM CacheSafe ==
  Spec => [](TypeOK /\ OneBufferPerBlock /\ OneHolder /\ QueueMatches /\ NoLostSleeper)
<1>1. Init => CacheInv
  BY InitInv, Zenon
<1>2. CacheInv => TypeOK /\ OneBufferPerBlock /\ OneHolder /\ QueueMatches /\ NoLostSleeper
  BY Zenon DEF CacheInv
<1> QED BY <1>1, <1>2, StepInv, PTL DEF Spec

\* With a disk whose reads do not fail the cache is consistent, data included.
THEOREM CacheCorrect == ReadFails = {FALSE} => (Spec => []CacheConsistent)
<1> SUFFICES ASSUME ReadFails = {FALSE} PROVE Spec => []CacheConsistent
  BY Zenon
<1>1. Init => CacheInv /\ Clean
  BY InitInv, Zenon
<1>2. CacheInv /\ Clean /\ [Next]_vars => (CacheInv /\ Clean)'
  BY StepInv, CleanStep, Zenon
<1>3. CacheInv /\ Clean => CacheConsistent
  BY Split, Zenon
<1> QED BY <1>1, <1>2, <1>3, PTL DEF Spec

-----------------------------------------------------------------------------
(* The cache implements BlockStore *)

\* p has block y of the abstract store, and sees this value.
Owns(p, y) == pc[p] \in Holding /\ want[p] = y /\ "VALID" \in flags[b[p]]
Seen(p, y) == IF "DIRTY" \in flags[b[p]] THEN disk[y] ELSE data[b[p]]

AOwner == [x \in Blocks |-> Owner(x)]
AView == [x \in Blocks |->
            IF Owner(x) = NoProc THEN NoValue
            ELSE IF "DIRTY" \in flags[b[Owner(x)]] THEN disk[x] ELSE data[b[Owner(x)]]]

\* What the refinement mapping gives for block y
Mapped(y) ==
  /\ \A p \in Procs : Owns(p, y) => AOwner[y] = p /\ AView[y] = Seen(p, y)
  /\ (\A p \in Procs : ~Owns(p, y)) => AOwner[y] = NoProc /\ AView[y] = NoValue

Maps == \A y \in Blocks : Mapped(y)

\* A block has one buffer and a buffer one user, so a block has one owner.
LEMMA OneOwner ==
  ASSUME CacheInv, NEW p \in Procs, NEW r \in Procs, NEW y, Owns(p, y), Owns(r, y)
  PROVE  p = r
<1>1. b[p] \in Bufs /\ b[r] \in Bufs
  BY ZenonT(30) DEF CacheInv, TypeOK
<1>2. /\ "BUSY" \in flags[b[p]] /\ block[b[p]] = y
      /\ "BUSY" \in flags[b[r]] /\ block[b[r]] = y
  BY Zenon DEF CacheInv, OneHolder, Owns
<1>3. b[p] = b[r]
  BY <1>1, <1>2, Zenon DEF CacheInv, OneBufferPerBlock
<1> QED BY <1>3, Zenon DEF CacheInv, OneHolder, Owns

\* The mapping follows the owner.
LEMMA MappedValue == CacheInv => Maps
<1> SUFFICES ASSUME CacheInv, NEW y \in Blocks PROVE Mapped(y)
  BY Zenon DEF Maps
<1>1. ASSUME NEW p \in Procs, Owns(p, y) PROVE AOwner[y] = p /\ AView[y] = Seen(p, y)
  <2>1. (CHOOSE r \in Procs : Owns(r, y)) = p
    BY <1>1, OneOwner, Zenon
  <2>2. Owner(y) = p
    BY <1>1, <2>1, Zenon DEF Owner, Owns
  <2>3. p # NoProc
    BY BcacheAssumption, Zenon
  <2> QED BY <2>2, <2>3, Zenon DEF AOwner, AView, Seen
<1>2. ASSUME \A p \in Procs : ~Owns(p, y) PROVE AOwner[y] = NoProc /\ AView[y] = NoValue
  <2>1. Owner(y) = NoProc
    BY <1>2, Zenon DEF Owner, Owns
  <2> QED BY <2>1, Zenon DEF AOwner, AView
<1> QED BY <1>1, <1>2, Zenon DEF Mapped

\* A step that leaves the owner of block y and what it sees alone
LEMMA BlockSame ==
  ASSUME NEW y, Mapped(y), Mapped(y)',
         \A r \in Procs : Owns(r, y)' <=> Owns(r, y),
         \A r \in Procs : Owns(r, y) => Seen(r, y)' = Seen(r, y)
  PROVE  AOwner'[y] = AOwner[y] /\ AView'[y] = AView[y]
<1>1. CASE \E r \in Procs : Owns(r, y)
  BY <1>1, Zenon DEF Mapped
<1>2. CASE \A r \in Procs : ~Owns(r, y)
  BY <1>2, Zenon DEF Mapped
<1> QED BY <1>1, <1>2, Zenon

\* A step that leaves all owners alone is a stutter of the store.
LEMMA StoreStutters ==
  ASSUME Maps, Maps', UNCHANGED disk,
         \A y \in Blocks : \A r \in Procs : Owns(r, y)' <=> Owns(r, y),
         \A y \in Blocks : \A r \in Procs : Owns(r, y) => Seen(r, y)' = Seen(r, y)
  PROVE  UNCHANGED <<disk, AOwner, AView>>
<1>1. \A y \in Blocks : AOwner'[y] = AOwner[y] /\ AView'[y] = AView[y]
  BY BlockSame, Zenon DEF Maps
<1>2. AOwner = [x \in Blocks |-> AOwner[x]] /\ AOwner' = [x \in Blocks |-> AOwner'[x]]
  BY Zenon DEF AOwner
<1>3. AView = [x \in Blocks |-> AView[x]] /\ AView' = [x \in Blocks |-> AView'[x]]
  BY Zenon DEF AView
<1> QED BY <1>1, <1>2, <1>3, Zenon

\* A step that only changes what the mapping gives for block x
LEMMA OneBlockChanges ==
  ASSUME NEW x \in Blocks, NEW o, NEW v, AOwner'[x] = o, AView'[x] = v,
         Maps, Maps',
         \A y \in Blocks \ {x} : \A r \in Procs : Owns(r, y)' <=> Owns(r, y),
         \A y \in Blocks \ {x} : \A r \in Procs : Owns(r, y) => Seen(r, y)' = Seen(r, y)
  PROVE  AOwner' = [AOwner EXCEPT ![x] = o] /\ AView' = [AView EXCEPT ![x] = v]
<1>1. \A y \in Blocks \ {x} : AOwner'[y] = AOwner[y] /\ AView'[y] = AView[y]
  BY BlockSame, Zenon DEF Maps
<1>2. AOwner = [y \in Blocks |-> AOwner[y]] /\ AOwner' = [y \in Blocks |-> AOwner'[y]]
  BY Zenon DEF AOwner
<1>3. AView = [y \in Blocks |-> AView[y]] /\ AView' = [y \in Blocks |-> AView'[y]]
  BY Zenon DEF AView
<1> QED BY <1>1, <1>2, <1>3, Zenon

\* p comes to own block x, and sees what is on the disk: bread returns.
LEMMA StoreGets ==
  ASSUME Maps, Maps', NEW p \in Procs, NEW x \in Blocks, UNCHANGED disk,
         ~Owns(p, x), Owns(p, x)', Seen(p, x)' = disk[x],
         \A y \in Blocks : \A r \in Procs : <<r, y>> # <<p, x>> => (Owns(r, y)' <=> Owns(r, y)),
         \A y \in Blocks : \A r \in Procs : Owns(r, y) => Seen(r, y)' = Seen(r, y)
  PROVE  Store!Get(p, x)
<1>1. Mapped(x) /\ Mapped(x)'
  BY Zenon DEF Maps
<1>2. \A r \in Procs : ~Owns(r, x)
  BY <1>1, Zenon DEF Mapped
<1>3. AOwner[x] = NoProc /\ AOwner'[x] = p /\ AView'[x] = disk[x]
  BY <1>1, <1>2, Zenon DEF Mapped
<1>4. AOwner' = [AOwner EXCEPT ![x] = p] /\ AView' = [AView EXCEPT ![x] = disk[x]]
  BY <1>3, OneBlockChanges, Zenon
<1> QED BY <1>3, <1>4, Zenon DEF Store!Get, AOwner, AView

\* The owner gives block x up: brelse.
LEMMA StoreReleases ==
  ASSUME Maps, Maps', NEW p \in Procs, NEW x \in Blocks, UNCHANGED disk,
         Owns(p, x), ~Owns(p, x)',
         \A y \in Blocks : \A r \in Procs : <<r, y>> # <<p, x>> => (Owns(r, y)' <=> Owns(r, y)),
         \A y \in Blocks \ {x} : \A r \in Procs : Owns(r, y) => Seen(r, y)' = Seen(r, y)
  PROVE  Store!Release(p, x)
<1>1. Mapped(x) /\ Mapped(x)'
  BY Zenon DEF Maps
<1>2. \A r \in Procs : ~Owns(r, x)'
  BY <1>1, Zenon DEF Mapped
<1>3. AOwner[x] = p /\ AOwner'[x] = NoProc /\ AView'[x] = NoValue
  BY <1>1, <1>2, Zenon DEF Mapped
<1>4. AOwner' = [AOwner EXCEPT ![x] = NoProc] /\ AView' = [AView EXCEPT ![x] = NoValue]
  BY <1>3, OneBlockChanges, Zenon
<1> QED BY <1>3, <1>4, Zenon DEF Store!Release, AOwner, AView

\* The disk has written the owner's v: bwrite has happened.
LEMMA StorePuts ==
  ASSUME Maps, Maps', NEW p \in Procs, NEW x \in Blocks, NEW v,
         disk' = [disk EXCEPT ![x] = v], Owns(p, x), Seen(p, x)' = v,
         \A y \in Blocks : \A r \in Procs : Owns(r, y)' <=> Owns(r, y),
         \A y \in Blocks \ {x} : \A r \in Procs : Owns(r, y) => Seen(r, y)' = Seen(r, y)
  PROVE  Store!Put(p, x, v)
<1>1. Mapped(x) /\ Mapped(x)'
  BY Zenon DEF Maps
<1>2. AOwner[x] = p /\ AOwner'[x] = p /\ AView'[x] = v
  BY <1>1, Zenon DEF Mapped
<1>3. AOwner' = [AOwner EXCEPT ![x] = p] /\ AView' = [AView EXCEPT ![x] = v]
  BY <1>2, OneBlockChanges, Zenon
<1>4. AOwner' = AOwner
  BY <1>2, <1>3, ZenonT(30) DEF AOwner
<1> QED BY <1>2, <1>3, <1>4, Zenon DEF Store!Put, AOwner, AView

\* Steps that leave buffers and their users alone
LEMMA QuietStep ==
  ASSUME Maps, Maps', UNCHANGED <<flags, data, disk, b>>,
         \A r \in Procs : pc'[r] \in Holding <=> pc[r] \in Holding,
         \A r \in Procs : pc[r] \in Holding => want'[r] = want[r]
  PROVE  UNCHANGED <<disk, AOwner, AView>>
<1>1. \A y \in Blocks : \A r \in Procs : Owns(r, y)' <=> Owns(r, y)
  BY Zenon DEF Owns
<1>2. \A y \in Blocks : \A r \in Procs : Seen(r, y)' = Seen(r, y)
  BY Zenon DEF Seen
<1> QED BY <1>1, <1>2, StoreStutters, Zenon

\* bget takes buffer i: with a valid block bread returns, else nothing is seen.
LEMMA BgetStores ==
  ASSUME CacheInv, Clean, Maps, Maps', NEW p \in Procs, NEW i \in Bufs, NEW f,
         pc[p] = "bget", "BUSY" \notin flags[i], "DIRTY" \notin f,
         "VALID" \in f => block[i] = want[p] /\ Synced(i),
         flags' = [flags EXCEPT ![i] = f], b' = [b EXCEPT ![p] = i],
         pc' = [pc EXCEPT ![p] = IF "VALID" \in f THEN "hold" ELSE "ide_rw"],
         UNCHANGED <<data, disk, want>>
  PROVE  Store!Next \/ UNCHANGED <<disk, AOwner, AView>>
<1>1. \A r \in Procs : pc[r] \in Holding => b[r] \in Bufs \ {i} /\ r # p
  BY ZenonT(30) DEF CacheInv, OneHolder, TypeOK, Holding
<1>2. \A r \in Procs \ {p} : pc'[r] = pc[r] /\ b'[r] = b[r]
  BY ZenonT(30) DEF CacheInv, TypeOK
<1>3. \A j \in Bufs \ {i} : flags'[j] = flags[j]
  BY ZenonT(30) DEF CacheInv, TypeOK
<1>4. \A y \in Blocks : \A r \in Procs \ {p} :
         /\ Owns(r, y)' <=> Owns(r, y)
         /\ Owns(r, y) => Seen(r, y)' = Seen(r, y)
  BY <1>1, <1>2, <1>3 DEF Owns, Seen
<1>5. \A y \in Blocks : ~Owns(p, y)
  BY <1>1, Zenon DEF Owns
<1>6. b'[p] = i /\ flags'[i] = f /\ pc'[p] = (IF "VALID" \in f THEN "hold" ELSE "ide_rw")
  BY ZenonT(30) DEF CacheInv, TypeOK
<1>7. want[p] \in Blocks
  BY ZenonT(30) DEF CacheInv, TypeOK
<1>8. CASE "VALID" \in f
  <2>0. PICK x \in Blocks : x = want[p]
    BY <1>7, Zenon
  <2>1. \A y \in Blocks : Owns(p, y)' <=> y = x
    BY <1>6, <1>8, <2>0, Zenon DEF Owns, Holding
  <2>2. Seen(p, x)' = disk[x]
    BY <1>6, <1>8, <2>0, Zenon DEF Seen, Clean
  <2>3. Store!Get(p, x)
    BY <1>4, <1>5, <2>1, <2>2, StoreGets
  <2> QED BY <2>3, Zenon DEF Store!Next
<1>9. CASE "VALID" \notin f
  <2>1. \A y \in Blocks : ~Owns(p, y)'
    BY <1>6, <1>9, Zenon DEF Owns
  <2> QED BY <1>4, <1>5, <2>1, StoreStutters, Zenon
<1> QED BY <1>8, <1>9, Zenon

\* bget's hit
LEMMA BgetHitStores ==
  ASSUME CacheInv, Clean, Maps, Maps', NEW p \in Procs, BgetHit(p)
  PROVE  Store!Next \/ UNCHANGED <<disk, AOwner, AView>>
<1>1. PICK i \in Cached(want[p]) :
        /\ "BUSY" \notin flags[i]
        /\ flags' = [flags EXCEPT ![i] = @ \cup {"BUSY"}]
        /\ b' = [b EXCEPT ![p] = i]
        /\ Goto(p, IF "VALID" \in flags[i] THEN "hold" ELSE "ide_rw")
  BY ZenonT(30) DEF BgetHit
<1>2. pc[p] = "bget" /\ UNCHANGED <<data, disk, want>>
  BY Zenon DEF BgetHit, At
<1>3. i \in Bufs /\ block[i] = want[p]
  BY <1>1, Zenon DEF Cached
<1> DEFINE f == flags[i] \cup {"BUSY"}
<1>4. "DIRTY" \notin f /\ ("VALID" \in f => Synced(i))
  BY <1>1, <1>3, Zenon DEF CacheInv, DirtyHeld, Synced
<1>5. flags' = [flags EXCEPT ![i] = f]
  BY <1>1, Zenon
<1>6. pc' = [pc EXCEPT ![p] = IF "VALID" \in f THEN "hold" ELSE "ide_rw"]
  BY <1>1, Zenon DEF Goto
<1> HIDE DEF f
<1> QED BY <1>1, <1>2, <1>3, <1>4, <1>5, <1>6, BgetStores, ZenonT(30)

\* bget's recycling
LEMMA BgetFreshStores ==
  ASSUME CacheInv, Clean, Maps, Maps', NEW p \in Procs, BgetFresh(p)
  PROVE  Store!Next \/ UNCHANGED <<disk, AOwner, AView>>
<1>1. PICK n \in 1..NBUF :
        /\ "BUSY" \notin flags[lru[n]]
        /\ flags' = [flags EXCEPT ![lru[n]] = Recycled(@)]
        /\ b' = [b EXCEPT ![p] = lru[n]]
        /\ Goto(p, IF "VALID" \in Recycled(flags[lru[n]]) THEN "hold" ELSE "ide_rw")
  BY ZenonT(30) DEF BgetFresh
<1>2. pc[p] = "bget" /\ UNCHANGED <<data, disk, want>>
  BY Zenon DEF BgetFresh, At
<1>3. PICK i \in Bufs : i = lru[n]
  BY ZenonT(30) DEF CacheInv, TypeOK
<1> DEFINE f == {"BUSY"}
<1>4. "DIRTY" \notin f /\ "VALID" \notin f
  BY Zenon
<1>5. /\ flags' = [flags EXCEPT ![i] = f] /\ b' = [b EXCEPT ![p] = i]
      /\ pc' = [pc EXCEPT ![p] = IF "VALID" \in f THEN "hold" ELSE "ide_rw"]
      /\ "BUSY" \notin flags[i]
  BY <1>1, <1>3, Zenon DEF Goto, Recycled
<1> HIDE DEF f
<1> QED BY <1>2, <1>4, <1>5, BgetStores, ZenonT(30)

\* bwrite changes the buffer, and not yet the store.
LEMMA BwriteStores ==
  ASSUME CacheInv, Clean, Maps, Maps', NEW p \in Procs, NEW v \in Values, Bwrite(p, v)
  PROVE  UNCHANGED <<disk, AOwner, AView>>
<1>1. pc[p] = "hold"
  BY Zenon DEF Bwrite, At
<1>0. PICK i : i = b[p]
  BY Zenon
<1>2. /\ i \in Bufs /\ "BUSY" \in flags[i] /\ block[i] = want[p] /\ Synced(i)
      /\ \A r \in Procs \ {p} : pc[r] \in Holding => b[r] \in Bufs \ {i}
  BY <1>0, <1>1, Holder, ZenonT(30) DEF CacheInv, TypeOK
<1>3. /\ data' = [data EXCEPT ![i] = v] /\ flags' = [flags EXCEPT ![i] = @ \cup {"DIRTY"}]
      /\ pc' = [pc EXCEPT ![p] = "ide_rw"] /\ UNCHANGED <<disk, want, b>>
  BY <1>0, <1>2, Zenon DEF Bwrite, Goto
<1>4. /\ \A j \in Bufs \ {i} : flags'[j] = flags[j] /\ data'[j] = data[j]
      /\ flags'[i] = flags[i] \cup {"DIRTY"}
      /\ \A r \in Procs : pc'[r] \in Holding <=> pc[r] \in Holding
  BY <1>1, <1>2, <1>3, ZenonT(30) DEF CacheInv, TypeOK, Holding
<1>5. ASSUME NEW y \in Blocks, NEW r \in Procs
      PROVE  (Owns(r, y)' <=> Owns(r, y)) /\ (Owns(r, y) => Seen(r, y)' = Seen(r, y))
  <2>1. CASE r = p
    <3>1. Owns(p, y)' <=> Owns(p, y)
      BY <1>0, <1>2, <1>3, <1>4 DEF Owns
    <3>2. Owns(p, y) => Seen(p, y) = disk[y] /\ Seen(p, y)' = disk[y]
      BY <1>0, <1>2, <1>3, <1>4 DEF Owns, Seen, Clean, Synced
    <3> QED BY <2>1, <3>1, <3>2, Zenon
  <2>2. CASE r # p
    BY <1>2, <1>3, <1>4, <2>2, Zenon DEF Owns, Seen
  <2> QED BY <2>1, <2>2, Zenon
<1> QED BY <1>3, <1>5, StoreStutters, Zenon

\* brelse gives the block up.
LEMMA BrelseStores ==
  ASSUME CacheInv, Maps, Maps', NEW p \in Procs, Brelse(p)
  PROVE  Store!Next
<1>1. pc[p] = "hold"
  BY Zenon DEF Brelse, At
<1>0. PICK i : i = b[p]
  BY Zenon
<1>2. /\ i \in Bufs /\ "BUSY" \in flags[i] /\ block[i] = want[p] /\ Synced(i)
      /\ \A r \in Procs \ {p} : pc[r] \in Holding => b[r] \in Bufs \ {i}
      /\ want[p] \in Blocks
  BY <1>0, <1>1, Holder, ZenonT(30) DEF CacheInv, TypeOK
<1>3. /\ flags' = [flags EXCEPT ![i] = @ \ {"BUSY"}]
      /\ pc' = Wakeup([pc EXCEPT ![p] = "out"], 0)
      /\ want' = [want EXCEPT ![p] = Block0] /\ b' = [b EXCEPT ![p] = 0]
      /\ UNCHANGED <<data, disk>>
  BY <1>0, <1>2, Zenon DEF Brelse
<1>4. /\ pc'[p] \notin Holding
      /\ \A r \in Procs \ {p} : /\ pc'[r] \in Holding <=> pc[r] \in Holding
                                /\ b'[r] = b[r] /\ want'[r] = want[r]
      /\ \A j \in Bufs \ {i} : flags'[j] = flags[j]
  <2> DEFINE pcs == [pc EXCEPT ![p] = "out"]
  <2>1. pcs[p] = "out" /\ \A r \in Procs \ {p} : pcs[r] = pc[r]
    BY ZenonT(30) DEF CacheInv, TypeOK
  <2>2. pc' = Wakeup(pcs, 0)
    BY <1>3, Zenon
  <2> HIDE DEF pcs
  <2>3. pc'[p] \notin Holding /\ \A r \in Procs \ {p} : pc'[r] \in Holding <=> pc[r] \in Holding
    BY <2>1, <2>2, Zenon DEF Wakeup, Holding
  <2> QED BY <1>3, <2>3, ZenonT(30) DEF CacheInv, TypeOK
<1>5. PICK x \in Blocks : x = want[p]
  BY <1>2, Zenon
<1>6. \A y \in Blocks : (Owns(p, y) <=> y = x) /\ ~Owns(p, y)'
  BY <1>0, <1>1, <1>2, <1>4, <1>5, Zenon DEF Owns, Holding, Synced
<1>7. \A y \in Blocks : \A r \in Procs \ {p} :
         (Owns(r, y)' <=> Owns(r, y)) /\ (Owns(r, y) => Seen(r, y)' = Seen(r, y))
  <2> SUFFICES ASSUME NEW y \in Blocks, NEW r \in Procs \ {p}
               PROVE  (Owns(r, y)' <=> Owns(r, y)) /\ (Owns(r, y) => Seen(r, y)' = Seen(r, y))
    BY Zenon
  <2>1. data' = data /\ disk' = disk /\ b'[r] = b[r] /\ want'[r] = want[r]
    BY <1>3, <1>4, Zenon
  <2>2. pc[r] \in Holding => flags'[b[r]] = flags[b[r]]
    BY <1>2, <1>4, Zenon
  <2> QED BY <1>4, <2>1, <2>2, Zenon DEF Owns, Seen
<1>8. Store!Release(p, x)
  BY <1>3, <1>6, <1>7, StoreReleases, Zenon
<1> QED BY <1>8, Zenon DEF Store!Next

\* The disk has done a request: a write is the owner's Put, a read its Get.
LEMMA IdeIntrStores ==
  ASSUME CacheInv, Clean, ReadFails = {FALSE}, Maps, Maps', IdeIntr
  PROVE  Store!Next
<1>0. PICK i : i = Head(ide_queue)
  BY Zenon
<1>1. /\ i \in Bufs /\ Queued(i) /\ ~Synced(i)
      /\ flags' = [flags EXCEPT ![i] = (@ \cup {"VALID"}) \ {"DIRTY"}]
      /\ pc' = Wakeup(pc, i) /\ want' = want /\ b' = b
  BY <1>0, IdeIntrFacts, Zenon
<1>2. PICK p \in Procs : pc[p] \in Holding /\ b[p] = i
  BY <1>1, Zenon DEF CacheInv, QueueMatches, Holding
<1>3. PICK x \in Blocks : x = want[p]
  BY ZenonT(30) DEF CacheInv, TypeOK
<1>4. block[i] = x /\ \A r \in Procs \ {p} : pc[r] \in Holding => b[r] \in Bufs \ {i}
  BY <1>2, <1>3, ZenonT(30) DEF CacheInv, OneHolder, TypeOK
<1>5. \A r \in Procs : pc'[r] \in Holding <=> pc[r] \in Holding
  BY <1>1, Zenon DEF Wakeup, Holding
<1>6. /\ \A j \in Bufs \ {i} : flags'[j] = flags[j]
      /\ flags'[i] = (flags[i] \cup {"VALID"}) \ {"DIRTY"}
  BY <1>1, ZenonT(30) DEF CacheInv, TypeOK
<1>7. \A y \in Blocks : \A r \in Procs \ {p} : Owns(r, y)' <=> Owns(r, y)
  BY <1>1, <1>4, <1>5, <1>6, Zenon DEF Owns
<1>8. \A y \in Blocks : Owns(p, y)' <=> y = x
  BY <1>1, <1>2, <1>3, <1>5, <1>6, Zenon DEF Owns
<1>9. \A y \in Blocks : Owns(p, y) => y = x
  BY <1>3, Zenon DEF Owns
<1>10. \A r \in Procs \ {p} : ~Owns(r, x)
  <2>1. Mapped(x)'
    BY Zenon DEF Maps
  <2> QED BY <1>7, <1>8, <2>1, Zenon DEF Mapped
<1>11. CASE "DIRTY" \in flags[i]
  <2>1. disk' = [disk EXCEPT ![x] = data[i]] /\ data' = data
    BY <1>0, <1>4, <1>11, Zenon DEF IdeIntr
  <2>2. PICK v \in Values : v = data[i]
    BY <1>1, ZenonT(30) DEF CacheInv, TypeOK
  <2>3. Owns(p, x) /\ Seen(p, x)' = v
    BY <1>1, <1>2, <1>3, <1>6, <1>11, <2>1, <2>2, Zenon DEF Owns, Seen, CacheInv, DirtyHeld
  <2>4. \A y \in Blocks \ {x} : disk'[y] = disk[y]
    BY <2>1, ZenonT(30) DEF CacheInv, TypeOK
  <2>5. \A y \in Blocks \ {x} : \A r \in Procs : Owns(r, y) => Seen(r, y)' = Seen(r, y)
    <3> SUFFICES ASSUME NEW y \in Blocks \ {x}, NEW r \in Procs, Owns(r, y)
                 PROVE  Seen(r, y)' = Seen(r, y)
      BY Zenon
    <3>1. b[r] \in Bufs \ {i}
      BY <1>4, <1>9, Zenon DEF Owns
    <3> QED BY <1>1, <1>6, <2>1, <2>4, <3>1, Zenon DEF Seen
  <2>6. \A y \in Blocks : \A r \in Procs : Owns(r, y)' <=> Owns(r, y)
    BY <1>7, <1>8, <1>9, <2>3, Zenon
  <2>7. Store!Put(p, x, v)
    BY <2>1, <2>2, <2>3, <2>5, <2>6, StorePuts, ZenonT(30)
  <2> QED BY <2>7, Zenon DEF Store!Next
<1>12. CASE "DIRTY" \notin flags[i]
  <2>1. data' = [data EXCEPT ![i] = disk[x]] /\ disk' = disk
    BY <1>0, <1>4, <1>12, Zenon DEF IdeIntr
  <2>2. ~Owns(p, x) /\ Seen(p, x)' = disk[x]
    <3>1. "VALID" \notin flags[i] /\ "DIRTY" \notin flags'[i]
      BY <1>1, <1>6, <1>12, Zenon DEF Synced
    <3>2. data'[i] = disk[x]
      BY <1>1, <2>1, ZenonT(30) DEF CacheInv, TypeOK
    <3> QED BY <1>1, <1>2, <3>1, <3>2, Zenon DEF Owns, Seen
  <2>3. \A y \in Blocks : \A r \in Procs : Owns(r, y) => Seen(r, y)' = Seen(r, y)
    <3> SUFFICES ASSUME NEW y \in Blocks, NEW r \in Procs, Owns(r, y)
                 PROVE  Seen(r, y)' = Seen(r, y)
      BY Zenon
    <3>1. b[r] \in Bufs \ {i}
      BY <1>4, <1>9, <2>2, Zenon DEF Owns
    <3>2. data'[b[r]] = data[b[r]]
      BY <2>1, <3>1, ZenonT(30) DEF CacheInv, TypeOK
    <3> QED BY <1>1, <1>6, <2>1, <3>1, <3>2, Zenon DEF Seen
  <2>4. Store!Get(p, x)
    BY <1>7, <1>8, <1>9, <2>1, <2>2, <2>3, StoreGets
  <2> QED BY <2>4, Zenon DEF Store!Next
<1> QED BY <1>11, <1>12, Zenon

\* A store of blocks to begin with
LEMMA StoreInit == Init => Store!Init
<1> SUFFICES ASSUME Init PROVE Store!Init
  BY Zenon
<1>1. \A x \in Blocks : Owner(x) = NoProc
  BY Zenon DEF Init, Owner, Holding
<1>2. disk \in [Blocks -> Values]
  BY BcacheAssumption, Zenon DEF Init
<1> QED BY <1>1, <1>2, Zenon DEF Store!Init

\* Every step of the cache is a step of the store or leaves it alone.
LEMMA StoreStep ==
  ASSUME ReadFails = {FALSE}
  PROVE  CacheInv /\ Clean /\ Maps /\ Maps' /\ [Next]_vars
           => [Store!Next]_<<disk, AOwner, AView>>
<1> SUFFICES ASSUME CacheInv, Clean, Maps, Maps', [Next]_vars
             PROVE  Store!Next \/ UNCHANGED <<disk, AOwner, AView>>
  BY Zenon
<1>1. ASSUME UNCHANGED <<flags, data, disk, pc, want, b>>
      PROVE  UNCHANGED <<disk, AOwner, AView>>
  BY <1>1, QuietStep, Zenon
<1>2. ASSUME NEW p \in Procs, NEW f, pc' = [pc EXCEPT ![p] = f],
             UNCHANGED <<flags, data, disk, want, b>>, pc[p] \in Holding <=> f \in Holding
      PROVE  UNCHANGED <<disk, AOwner, AView>>
  <2>1. \A r \in Procs : pc'[r] \in Holding <=> pc[r] \in Holding
    BY <1>2, ZenonT(30) DEF CacheInv, TypeOK
  <2> QED BY <1>2, <2>1, QuietStep, Zenon
<1>3. ASSUME NEW p \in Procs, NEW x \in Blocks, Bread(p, x)
      PROVE  UNCHANGED <<disk, AOwner, AView>>
  <2>1. \A r \in Procs : /\ pc'[r] \in Holding <=> pc[r] \in Holding
                         /\ pc[r] \in Holding => want'[r] = want[r]
    BY <1>3, Zenon DEF Bread, At, Goto, CacheInv, TypeOK, Holding
  <2>2. UNCHANGED <<flags, data, disk, b>>
    BY <1>3, Zenon DEF Bread
  <2> QED BY <2>1, <2>2, QuietStep, Zenon
<1>4. ASSUME NEW p \in Procs, BgetSleep(p) PROVE UNCHANGED <<disk, AOwner, AView>>
  BY <1>2, <1>4, ZenonT(30) DEF BgetSleep, At, Goto, Holding
<1>5. ASSUME NEW p \in Procs, IdeRw(p) PROVE UNCHANGED <<disk, AOwner, AView>>
  BY <1>1, <1>2, <1>5, ZenonT(30) DEF IdeRw, At, Goto, Panic, Holding
<1>6. ASSUME NEW p \in Procs, IdeTest(p) PROVE UNCHANGED <<disk, AOwner, AView>>
  BY <1>2, <1>6, ZenonT(30) DEF IdeTest, At, Goto, Holding
<1>7. ASSUME NEW p \in Procs, BgetPanic(p) PROVE UNCHANGED <<disk, AOwner, AView>>
  BY <1>1, <1>7, ZenonT(30) DEF BgetPanic, Panic
<1>8. ASSUME NEW p \in Procs, Kernel(p)
      PROVE  Store!Next \/ UNCHANGED <<disk, AOwner, AView>>
  BY <1>4, <1>5, <1>6, <1>7, <1>8, BgetHitStores, BgetFreshStores, Zenon DEF Kernel
<1>9. ASSUME UNCHANGED vars PROVE UNCHANGED <<disk, AOwner, AView>>
  BY <1>1, <1>9, Zenon DEF vars
<1> QED BY <1>3, <1>8, <1>9, BwriteStores, BrelseStores, IdeIntrStores, Zenon DEF Next, Stopped

\* The buffer cache with its disk queue, sleeps and wakeups implements a store of
\* blocks, each of them in the hands of one process between bread and brelse,
\* who reads what was last written to it.
THEOREM CacheImplementsStore == ReadFails = {FALSE} => (Spec => ImplementsBlockStore)
<1> SUFFICES ASSUME ReadFails = {FALSE} PROVE Spec => Store!Spec
  BY Zenon DEF ImplementsBlockStore
<1>1. Spec => [](CacheInv /\ Clean)
  <2>1. Init => CacheInv /\ Clean
    BY InitInv, Zenon
  <2>2. CacheInv /\ Clean /\ [Next]_vars => (CacheInv /\ Clean)'
    BY StepInv, CleanStep, Zenon
  <2> QED BY <2>1, <2>2, PTL DEF Spec
<1>2. CacheInv => Maps
  BY MappedValue, Zenon
<1>3. CacheInv /\ Clean /\ Maps /\ Maps' /\ [Next]_vars => [Store!Next]_<<disk, AOwner, AView>>
  BY StoreStep, Zenon
<1>4. Store!Spec <=> Store!Init /\ [][Store!Next]_<<disk, AOwner, AView>>
  BY Zenon DEF Store!Spec, AOwner, AView
<1> QED BY <1>1, <1>2, <1>3, <1>4, StoreInit, PTL DEF Spec
=============================================================================
