---------------------------- MODULE SchedLemmas -----------------------------
(***************************************************************************)
(* Lemmas on the operators of Sched: what the operations on a run queue do *)
(* to its members, its head and its order, where a CPU is after a step on  *)
(* its current kernel stack, what the constants and TypeOK give; which     *)
(* conjuncts of IInv and FInv the different kinds of step leave alone, and *)
(* that a step on locks, on one process' fields or on one slot preserves   *)
(* them.                                                                   *)
(***************************************************************************)
EXTENDS SchedProps, TLAPS

(* Queues *)

\* enqueue_proc at the tail: one member more, the same head.
LEMMA AppendQueue ==
  ASSUME NEW S, NEW s \in Seq(S), NEW p \in S
  PROVE  /\ Append(s, p) \in Seq(S)
         /\ \A x : InQueue(Append(s, p), x) <=> InQueue(s, x) \/ x = p
         /\ NoDup(s) /\ ~InQueue(s, p) => NoDup(Append(s, p))
         /\ s # <<>> => Append(s, p) # <<>> /\ Head(Append(s, p)) = Head(s)
<1>1. /\ Append(s, p) \in Seq(S)
      /\ Len(Append(s, p)) = Len(s) + 1
      /\ Append(s, p)[Len(s) + 1] = p
      /\ \A i \in 1..Len(s) : Append(s, p)[i] = s[i]
  OBVIOUS
<1> DEFINE t == Append(s, p)
<1> HIDE DEF t
<1>2. ASSUME NEW x PROVE InQueue(t, x) <=> InQueue(s, x) \/ x = p
  <2>1. ASSUME InQueue(t, x) PROVE InQueue(s, x) \/ x = p
    BY <1>1, <2>1 DEF InQueue, t
  <2>2. ASSUME InQueue(s, x) PROVE InQueue(t, x)
    BY <1>1, <2>2 DEF InQueue, t
  <2>3. InQueue(t, p)
    BY <1>1 DEF InQueue, t
  <2> QED BY <2>1, <2>2, <2>3, Zenon
<1>3. ASSUME NoDup(s), ~InQueue(s, p) PROVE NoDup(t)
  BY <1>1, <1>3 DEF NoDup, InQueue, t
<1>4. s # <<>> => t # <<>> /\ Head(t) = Head(s)
  BY <1>1 DEF t
<1> QED BY <1>1, <1>2, <1>3, <1>4, Zenon DEF t

\* Two queues one after the other have the members of both.
LEMMA ConcatQueue ==
  ASSUME NEW S, NEW s \in Seq(S), NEW t \in Seq(S)
  PROVE  /\ s \o t \in Seq(S)
         /\ \A x : InQueue(s \o t, x) <=> InQueue(s, x) \/ InQueue(t, x)
         /\ NoDup(s) /\ NoDup(t) /\ (\A x : ~(InQueue(s, x) /\ InQueue(t, x)))
              => NoDup(s \o t)
         /\ s # <<>> => s \o t # <<>> /\ Head(s \o t) = Head(s)
<1> DEFINE u == s \o t
<1>1. /\ u \in Seq(S)
      /\ Len(u) = Len(s) + Len(t)
      /\ \A i \in 1..Len(s) : u[i] = s[i]
      /\ \A i \in 1..Len(t) : u[Len(s) + i] = t[i]
      /\ \A i \in 1..Len(u) : i > Len(s) => u[i] = t[i - Len(s)] /\ i - Len(s) \in 1..Len(t)
  OBVIOUS
<1> HIDE DEF u
<1>2. ASSUME NEW x PROVE InQueue(u, x) <=> InQueue(s, x) \/ InQueue(t, x)
  <2>1. ASSUME InQueue(u, x) PROVE InQueue(s, x) \/ InQueue(t, x)
    <3>1. PICK i \in 1..Len(u) : u[i] = x
      BY <2>1, Zenon DEF InQueue
    <3>2. CASE i <= Len(s)
      BY <1>1, <3>1, <3>2 DEF InQueue
    <3>3. CASE i > Len(s)
      BY <1>1, <3>1, <3>3, Zenon DEF InQueue
    <3> QED BY <1>1, <3>2, <3>3
  <2>2. ASSUME InQueue(s, x) PROVE InQueue(u, x)
    BY <1>1, <2>2 DEF InQueue
  <2>3. ASSUME InQueue(t, x) PROVE InQueue(u, x)
    <3>1. PICK i \in 1..Len(t) : t[i] = x
      BY <2>3, Zenon DEF InQueue
    <3>2. Len(s) + i \in 1..Len(u)
      BY <1>1
    <3> QED BY <1>1, <3>1, <3>2, Zenon DEF InQueue
  <2> QED BY <2>1, <2>2, <2>3, Zenon
<1>3. ASSUME NoDup(s), NoDup(t), \A x : ~(InQueue(s, x) /\ InQueue(t, x))
      PROVE  NoDup(u)
  <2> SUFFICES ASSUME NEW i \in 1..Len(u), NEW j \in 1..Len(u), u[i] = u[j]
               PROVE  i = j
    BY Zenon DEF NoDup
  <2>a. Len(s) \in Nat /\ Len(t) \in Nat /\ Len(u) \in Nat
    BY <1>1
  <2>b. /\ i <= Len(s) => u[i] = s[i] /\ i \in 1..Len(s)
        /\ j <= Len(s) => u[j] = s[j] /\ j \in 1..Len(s)
        /\ i > Len(s) => u[i] = t[i - Len(s)] /\ i - Len(s) \in 1..Len(t)
        /\ j > Len(s) => u[j] = t[j - Len(s)] /\ j - Len(s) \in 1..Len(t)
    BY <1>1, <2>a
  <2>1. CASE i <= Len(s) /\ j <= Len(s)
    BY <1>3, <2>1, <2>b, Zenon DEF NoDup
  <2>2. CASE i > Len(s) /\ j > Len(s)
    <3>1. i - Len(s) = j - Len(s)
      BY <1>3, <2>2, <2>b, Zenon DEF NoDup
    <3> QED BY <3>1, <2>a
  <2>3. CASE i <= Len(s) /\ j > Len(s)
    BY <1>3, <2>3, <2>b, ZenonT(30) DEF InQueue
  <2>4. CASE i > Len(s) /\ j <= Len(s)
    BY <1>3, <2>4, <2>b, ZenonT(30) DEF InQueue
  <2> QED BY <2>a, <2>1, <2>2, <2>3, <2>4
<1>4. s # <<>> => u # <<>> /\ Head(u) = Head(s)
  BY <1>1 DEF u
<1> QED BY <1>1, <1>2, <1>3, <1>4, Zenon DEF u

\* A part of a queue from place a to place b has the members there, in order.
LEMMA SubQueue ==
  ASSUME NEW S, NEW s \in Seq(S), NEW a \in Nat \ {0}, NEW b \in Nat, b <= Len(s)
  PROVE  /\ SubSeq(s, a, b) \in Seq(S)
         /\ \A x : InQueue(SubSeq(s, a, b), x) <=> \E i \in a..b : s[i] = x
         /\ NoDup(s) => NoDup(SubSeq(s, a, b))
<1> DEFINE n == IF a <= b THEN b - a + 1 ELSE 0
           u == SubSeq(s, a, b)
<1>1. /\ u \in Seq(S)
      /\ Len(u) = n
      /\ \A i \in 1..n : u[i] = s[a + i - 1] /\ a + i - 1 \in a..b
  OBVIOUS
<1>2. /\ n \in Nat /\ Len(s) \in Nat
      /\ \A i \in a..b : i - a + 1 \in 1..n /\ a + (i - a + 1) - 1 = i /\ i \in 1..Len(s)
  OBVIOUS
<1> HIDE DEF u, n
<1>3. ASSUME NEW x PROVE InQueue(u, x) <=> \E i \in a..b : s[i] = x
  <2>1. ASSUME InQueue(u, x) PROVE \E i \in a..b : s[i] = x
    BY <1>1, <2>1, ZenonT(30) DEF InQueue
  <2>2. ASSUME NEW i \in a..b, s[i] = x PROVE InQueue(u, x)
    <3>1. u[i - a + 1] = x /\ i - a + 1 \in 1..Len(u)
      BY <1>1, <1>2, <2>2, Zenon
    <3> QED BY <3>1, Zenon DEF InQueue
  <2> QED BY <2>1, <2>2, Zenon
<1>4. ASSUME NoDup(s) PROVE NoDup(u)
  <2> SUFFICES ASSUME NEW i \in 1..n, NEW j \in 1..n, u[i] = u[j] PROVE i = j
    BY <1>1, Zenon DEF NoDup
  <2>1. s[a + i - 1] = s[a + j - 1] /\ a + i - 1 \in a..b /\ a + j - 1 \in a..b
    BY <1>1, Zenon
  <2>2. a + i - 1 \in 1..Len(s) /\ a + j - 1 \in 1..Len(s)
    BY <1>2, <2>1, Zenon
  <2>3. a + i - 1 = a + j - 1
    BY <1>4, <2>1, <2>2, Zenon DEF NoDup
  <2> QED BY <1>2, <2>3
<1> QED BY <1>1, <1>3, <1>4, Zenon DEF u

\* dequeue_proc takes out p and nothing else.
LEMMA WithoutQueue ==
  ASSUME NEW S, NEW s \in Seq(S), NEW p, InQueue(s, p), NoDup(s)
  PROVE  /\ Without(s, p) \in Seq(S)
         /\ \A x : InQueue(Without(s, p), x) <=> InQueue(s, x) /\ x # p
         /\ NoDup(Without(s, p))
<1> DEFINE k == IndexOf(s, p)
           u == SubSeq(s, 1, k - 1)
           v == SubSeq(s, k + 1, Len(s))
<1>1. k \in 1..Len(s) /\ s[k] = p
  BY Zenon DEF InQueue, IndexOf
<1>2. Len(s) \in Nat
  OBVIOUS
<1> HIDE DEF k
<1>3. /\ u \in Seq(S)
      /\ \A x : InQueue(u, x) <=> \E i \in 1..(k - 1) : s[i] = x
      /\ NoDup(u)
  BY <1>1, <1>2, SubQueue
<1>4. /\ v \in Seq(S)
      /\ \A x : InQueue(v, x) <=> \E i \in (k + 1)..Len(s) : s[i] = x
      /\ NoDup(v)
  BY <1>1, <1>2, SubQueue
<1> HIDE DEF u, v
<1>5. \A x : ~(InQueue(u, x) /\ InQueue(v, x))
  <2> SUFFICES ASSUME NEW x, InQueue(u, x), InQueue(v, x) PROVE FALSE
    BY Zenon
  <2>1. PICK i \in 1..(k - 1) : s[i] = x
    BY <1>3, Zenon
  <2>2. PICK j \in (k + 1)..Len(s) : s[j] = x
    BY <1>4, Zenon
  <2>3. i \in 1..Len(s) /\ j \in 1..Len(s) /\ i # j
    BY <1>1, <1>2
  <2> QED BY <2>1, <2>2, <2>3, Zenon DEF NoDup
<1>6. ASSUME NEW x PROVE InQueue(u, x) \/ InQueue(v, x) <=> InQueue(s, x) /\ x # p
  <2>1. ASSUME InQueue(s, x), x # p PROVE InQueue(u, x) \/ InQueue(v, x)
    <3>1. PICK i \in 1..Len(s) : s[i] = x
      BY <2>1, Zenon DEF InQueue
    <3>2. i \in 1..(k - 1) \/ i \in (k + 1)..Len(s)
      BY <1>1, <1>2, <2>1, <3>1
    <3> QED BY <1>3, <1>4, <3>1, <3>2, Zenon
  <2>2. ASSUME InQueue(u, x) \/ InQueue(v, x) PROVE InQueue(s, x) /\ x # p
    <3>1. PICK i \in 1..(k - 1) \cup (k + 1)..Len(s) : s[i] = x
      BY <1>3, <1>4, <2>2, Zenon
    <3>2. i \in 1..Len(s) /\ i # k
      BY <1>1, <1>2
    <3> QED BY <1>1, <3>1, <3>2, Zenon DEF InQueue, NoDup
  <2> QED BY <2>1, <2>2, Zenon
<1>7. Without(s, p) = u \o v
  BY Zenon DEF Without, k, u, v
<1> QED BY <1>3, <1>4, <1>5, <1>6, <1>7, ConcatQueue

\* get_proc parts a level: its head stays, and every member is kept or taken.
LEMMA KeptTaken ==
  ASSUME NEW S, NEW s \in Seq(S), NoDup(s)
  PROVE  /\ Kept(s) \in Seq(S) /\ Taken(s) \in Seq(S)
         /\ NoDup(Kept(s)) /\ NoDup(Taken(s))
         /\ \A x : InQueue(s, x) <=> InQueue(Kept(s), x) \/ InQueue(Taken(s), x)
         /\ \A x : ~(InQueue(Kept(s), x) /\ InQueue(Taken(s), x))
         /\ s # <<>> => Kept(s) # <<>> /\ Head(Kept(s)) = Head(s)
<1>1. CASE s = <<>>
  <2>1. Kept(s) = <<>> /\ Taken(s) = <<>>
    BY <1>1 DEF Kept, Taken
  <2>2. s \in Seq(S) /\ Len(s) = 0
    BY <1>1, Zenon
  <2>3. (\A x : ~InQueue(s, x)) /\ NoDup(s)
    BY <2>2 DEF InQueue
  <2> QED BY <1>1, <2>1, <2>3, ZenonT(30)
<1>2. CASE s # <<>>
  <2> DEFINE h == Len(s) \div 2
             one == <<Head(s)>>
             rest == SubSeq(s, 2 + h, Len(s))
             took == SubSeq(s, 2, 1 + h)
  <2>1. Len(s) \in Nat /\ Len(s) >= 1 /\ h \in Nat /\ 1 + h <= Len(s)
    BY <1>2
  <2> HIDE DEF h
  <2>2. /\ rest \in Seq(S)
        /\ \A x : InQueue(rest, x) <=> \E i \in (2 + h)..Len(s) : s[i] = x
        /\ NoDup(rest)
    BY <2>1, SubQueue
  <2>3. /\ took \in Seq(S)
        /\ \A x : InQueue(took, x) <=> \E i \in 2..(1 + h) : s[i] = x
        /\ NoDup(took)
    BY <2>1, SubQueue
  <2>4. one \in Seq(S) /\ (\A x : InQueue(one, x) <=> x = s[1]) /\ NoDup(one) /\ one # <<>>
    <3>1. one \in Seq(S) /\ Len(one) = 1 /\ one[1] = s[1] /\ one # <<>>
      BY <1>2
    <3> HIDE DEF one
    <3> QED BY <3>1 DEF InQueue, NoDup
  <2>5. \A x : ~(InQueue(one, x) /\ InQueue(rest, x))
    BY <2>1, <2>2, <2>4 DEF NoDup
  <2>6. Kept(s) = one \o rest /\ Taken(s) = took
    BY <1>2, Zenon DEF Kept, Taken, h
  <2> HIDE DEF one, rest, took
  <2>7. /\ Kept(s) \in Seq(S) /\ NoDup(Kept(s))
        /\ \A x : InQueue(Kept(s), x) <=> InQueue(one, x) \/ InQueue(rest, x)
        /\ Kept(s) # <<>> /\ Head(Kept(s)) = Head(one)
    BY <2>2, <2>4, <2>5, <2>6, ConcatQueue
  <2>8. Head(one) = Head(s)
    BY DEF one
  <2>9. ASSUME NEW x PROVE InQueue(s, x) <=> InQueue(Kept(s), x) \/ InQueue(Taken(s), x)
    <3>1. \A i : i \in 1..Len(s) <=> i = 1 \/ i \in 2..(1 + h) \/ i \in (2 + h)..Len(s)
      BY <2>1
    <3>2. InQueue(s, x) <=> \E i \in 1..Len(s) : s[i] = x
      BY Zenon DEF InQueue
    <3> QED BY <3>1, <3>2, <2>2, <2>3, <2>4, <2>6, <2>7, ZenonT(30)
  <2>10. ASSUME NEW x, InQueue(Kept(s), x), InQueue(Taken(s), x) PROVE FALSE
    <3>1. PICK i \in 2..(1 + h) : s[i] = x
      BY <2>3, <2>6, <2>10, Zenon
    <3>2. PICK j \in {1} \cup (2 + h)..Len(s) : s[j] = x
      BY <2>2, <2>4, <2>7, <2>10, ZenonT(30)
    <3>3. i \in 1..Len(s) /\ j \in 1..Len(s) /\ i # j
      BY <2>1
    <3> QED BY <3>1, <3>2, <3>3, Zenon DEF NoDup
  <2> QED BY <2>3, <2>6, <2>7, <2>8, <2>9, <2>10, Zenon
<1> QED BY <1>1, <1>2, Zenon

\* yield_proc moves the head to the tail: the members are the same.
LEMMA TurnedQueue ==
  ASSUME NEW S, NEW s \in Seq(S), NoDup(s), s # <<>>
  PROVE  /\ Turned(s) \in Seq(S)
         /\ NoDup(Turned(s))
         /\ \A x : InQueue(Turned(s), x) <=> InQueue(s, x)
<1>1. Len(s) \in Nat /\ Len(s) >= 1 /\ Tail(s) \in Seq(S) /\ Head(s) \in S
      /\ Head(s) = s[1] /\ Len(Tail(s)) = Len(s) - 1
      /\ \A i \in 1..(Len(s) - 1) : Tail(s)[i] = s[i + 1]
  OBVIOUS
<1> DEFINE t == Tail(s)
<1> HIDE DEF t
<1>2. \A x : InQueue(t, x) <=> \E i \in 2..Len(s) : s[i] = x
  <2>1. ASSUME NEW x, InQueue(t, x) PROVE \E i \in 2..Len(s) : s[i] = x
    BY <1>1, <2>1 DEF InQueue, t
  <2>2. ASSUME NEW x, NEW i \in 2..Len(s), s[i] = x PROVE InQueue(t, x)
    <3>1. i - 1 \in 1..(Len(s) - 1) /\ (i - 1) + 1 = i
      BY <1>1
    <3>2. t[i - 1] = x /\ i - 1 \in 1..Len(t)
      BY <1>1, <2>2, <3>1, Zenon DEF t
    <3> QED BY <3>2, Zenon DEF InQueue
  <2> QED BY <2>1, <2>2, Zenon
<1>3. NoDup(t)
  <2> SUFFICES ASSUME NEW i \in 1..(Len(s) - 1), NEW j \in 1..(Len(s) - 1), t[i] = t[j]
               PROVE  i = j
    BY <1>1, Zenon DEF NoDup, t
  <2>1. s[i + 1] = s[j + 1] /\ i + 1 \in 1..Len(s) /\ j + 1 \in 1..Len(s)
    BY <1>1 DEF t
  <2>2. i + 1 = j + 1
    BY <2>1, Zenon DEF NoDup
  <2> QED BY <1>1, <2>2
<1>4. ~InQueue(t, s[1])
  BY <1>1, <1>2 DEF NoDup
<1>5. \A x : InQueue(s, x) <=> InQueue(t, x) \/ x = s[1]
  <2>1. 1..Len(s) = {1} \cup 2..Len(s)
    BY <1>1
  <2> QED BY <1>2, <2>1, Zenon DEF InQueue
<1>6. Turned(s) = Append(t, s[1]) /\ t \in Seq(S) /\ s[1] \in S
  BY <1>1, Zenon DEF Turned, t
<1> QED BY <1>3, <1>4, <1>5, <1>6, AppendQueue

-----------------------------------------------------------------------------
(* Kernel stacks *)

\* A sequence is its head in front of its tail.
LEMMA StackParts ==
  ASSUME NEW S, NEW s \in Seq(S), Len(s) >= 1
  PROVE  /\ Head(s) \in S /\ Head(s) = s[1]
         /\ Tail(s) \in Seq(S) /\ Len(Tail(s)) = Len(s) - 1
         /\ \A i \in 1..(Len(s) - 1) : Tail(s)[i] = s[i + 1]
         /\ Len(s) \in Nat
  OBVIOUS

\* A frame more on a kernel stack.
LEMMA StackCons ==
  ASSUME NEW S, NEW s \in Seq(S), NEW f \in S
  PROVE  /\ <<f>> \o s \in Seq(S) /\ Len(<<f>> \o s) = Len(s) + 1
         /\ (<<f>> \o s)[1] = f /\ Head(<<f>> \o s) = f
         /\ \A i \in 1..Len(s) : (<<f>> \o s)[i + 1] = s[i]
         /\ Len(s) \in Nat
  OBVIOUS

\* Entering the kernel, or the code at f calling the code at g
LEMMA NestPush ==
  ASSUME NEW s \in Seq(Frames), NEW f \in Frames,
         WellNested(s), Head(s) \in Callers(f)
  PROVE  LET t == <<f>> \o s IN
         /\ t \in Seq(Frames) /\ WellNested(t) /\ Head(t) = f
         /\ \A g : OnStack(t, g) => g = f \/ OnStack(s, g)
<1> DEFINE t == <<f>> \o s
<1>1. /\ t \in Seq(Frames) /\ Len(t) = Len(s) + 1
      /\ t[1] = f /\ Head(t) = f
      /\ \A i \in 1..Len(s) : t[i + 1] = s[i]
      /\ Len(s) \in Nat /\ Len(s) >= 1 /\ Head(s) = s[1]
  BY StackCons, StackParts DEF WellNested
<1> HIDE DEF t
<1>2. ASSUME NEW i \in 1..Len(t)
      PROVE  \/ i = 1
             \/ i - 1 \in 1..Len(s) /\ t[i] = s[i - 1]
  BY <1>1
<1>3. t[Len(t)] = "user"
  BY <1>1, <1>2 DEF WellNested
<1>4. ASSUME NEW i \in 1..(Len(t) - 1) PROVE t[i + 1] \in Callers(t[i])
  <2>1. CASE i = 1
    BY <1>1, <2>1
  <2>2. CASE i # 1
    <3>1. i - 1 \in 1..(Len(s) - 1) /\ t[i] = s[i - 1] /\ t[i + 1] = s[(i - 1) + 1]
      BY <1>1, <1>2, <2>2
    <3> QED BY <3>1, Zenon DEF WellNested
  <2> QED BY <2>1, <2>2, Zenon
<1>5. ASSUME NEW g, OnStack(t, g) PROVE g = f \/ OnStack(s, g)
  BY <1>1, <1>2, <1>5, Zenon DEF OnStack
<1> QED BY <1>1, <1>3, <1>4, <1>5 DEF WellNested, t

\* Returning
LEMMA NestReturn ==
  ASSUME NEW s \in Seq(Frames), WellNested(s), Head(s) # "user"
  PROVE  LET t == Tail(s) IN
         /\ t \in Seq(Frames) /\ WellNested(t) /\ Head(t) \in Callers(Head(s))
         /\ Head(t) = s[2]
         /\ \A g : OnStack(t, g) => OnStack(s, g)
         /\ Head(t) = "user" => t = <<"user">>
<1> DEFINE t == Tail(s)
<1>1. /\ Len(s) \in Nat /\ Len(s) >= 2 /\ Head(s) = s[1]
      /\ t \in Seq(Frames) /\ Len(t) = Len(s) - 1
      /\ \A i \in 1..(Len(s) - 1) : t[i] = s[i + 1]
      /\ Head(t) = t[1]
  BY StackParts DEF WellNested
<1> HIDE DEF t
<1>2. t[Len(t)] = "user" /\ Len(t) >= 1
  BY <1>1 DEF WellNested
<1>3. ASSUME NEW i \in 1..(Len(t) - 1) PROVE t[i + 1] \in Callers(t[i])
  <2>1. i + 1 \in 1..(Len(s) - 1) /\ t[i] = s[i + 1] /\ t[i + 1] = s[(i + 1) + 1]
    BY <1>1
  <2> QED BY <2>1, Zenon DEF WellNested
<1>4. Head(t) \in Callers(Head(s)) /\ Head(t) = s[2]
  BY <1>1 DEF WellNested
<1>5. ASSUME NEW g, OnStack(t, g) PROVE OnStack(s, g)
  <2>1. PICK i \in 1..Len(t) : t[i] = g
    BY <1>5, Zenon DEF OnStack
  <2>2. i + 1 \in 1..Len(s) /\ s[i + 1] = g
    BY <1>1, <2>1
  <2> QED BY <2>2, Zenon DEF OnStack
<1>6. ASSUME Head(t) = "user" PROVE t = <<"user">>
  <2>1. Len(t) = 1
    <3> SUFFICES ASSUME Len(t) # 1 PROVE FALSE
      BY Zenon
    <3>1. t[1 + 1] \in Callers(t[1])
      BY <1>1, <1>3
    <3> QED BY <1>1, <1>6, <3>1, Zenon DEF Callers, InSchedule, TrapFrames
  <2> QED BY <1>1, <1>6, <2>1
<1> QED BY <1>1, <1>2, <1>3, <1>4, <1>5, <1>6, Zenon DEF WellNested, t

\* Going on within one function, or calling one that returns to the same place
LEMMA NestGoto ==
  ASSUME NEW s \in Seq(Frames), NEW f \in Frames,
         WellNested(s), Head(s) # "user", s[2] \in Callers(f)
  PROVE  LET t == <<f>> \o Tail(s) IN
         /\ t \in Seq(Frames) /\ WellNested(t) /\ Head(t) = f
         /\ \A g : OnStack(t, g) => g = f \/ OnStack(s, g)
<1>1. /\ Tail(s) \in Seq(Frames) /\ WellNested(Tail(s)) /\ Head(Tail(s)) = s[2]
      /\ \A g : OnStack(Tail(s), g) => OnStack(s, g)
  BY NestReturn, ZenonT(30)
<1> QED BY <1>1, NestPush, ZenonT(30)

\* Calling schedule(), to return to f
LEMMA NestSchedule ==
  ASSUME NEW s \in Seq(Frames), NEW f \in Frames,
         WellNested(s), Head(s) # "user", s[2] \in Callers(f),
         f \in SwitchFrames \ {"forkret"}
  PROVE  LET t == <<"sched", f>> \o Tail(s) IN
         /\ t \in Seq(Frames) /\ WellNested(t) /\ Head(t) = "sched"
         /\ \A g : OnStack(t, g) => g = "sched" \/ g = f \/ OnStack(s, g)
<1> DEFINE u == <<f>> \o Tail(s)
<1>1. /\ u \in Seq(Frames) /\ WellNested(u) /\ Head(u) = f
      /\ \A g : OnStack(u, g) => g = f \/ OnStack(s, g)
  BY NestGoto, Zenon
<1>2. "sched" \in Frames /\ f \in Callers("sched")
  BY Zenon DEF Frames, Callers, InSchedule
<1>3. <<"sched", f>> \o Tail(s) = <<"sched">> \o u
  <2>1. Tail(s) \in Seq(Frames)
    BY NestReturn, Zenon
  <2> QED BY <2>1, <1>2
<1> HIDE DEF u
<1> QED BY <1>1, <1>2, <1>3, NestPush, ZenonT(30)

-----------------------------------------------------------------------------
(* Steps of a CPU on the kernel stack of its current process *)

\* A CPU at frame f has a current process, whose innermost frame is f.
LEMMA AtWhere ==
  ASSUME NEW c, NEW f, At(c, f)
  PROVE  fault = "none" /\ curproc[c] \in Slots /\ curproc[c] # 0 /\ Where(c) = f
         /\ Head(kstack[curproc[c]]) = f
BY SchedAssumption DEF At, Where, Slots

\* CPU c goes to frame f, and no other CPU moves.
Moved(c, f) ==
  /\ curproc' = curproc
  /\ kstack' \in [Slots -> Seq(Frames)]
  /\ StacksOK'
  /\ Where(c)' = f
  /\ \A d \in CPUs \ {c} : Where(d)' = Where(d)

SameNp == \A p \in Slots : proc'[p].np = proc[p].np

\* A new stack for the current process moves its CPU only.
LEMMA NewStack ==
  ASSUME TypeOK, StacksOK, RunningOK, NEW c \in CPUs, curproc[c] \in Slots,
         curproc' = curproc, NEW t \in Seq(Frames), WellNested(t),
         kstack' = [kstack EXCEPT ![curproc[c]] = t],
         \A g \in Frames : OnStack(t, g) => Allowed(curproc[c], g)',
         \A p \in Slots \ {curproc[c]} : proc'[p].np = proc[p].np
  PROVE  Moved(c, Head(t))
<1> DEFINE cp == curproc[c]
<1>0. cp # 0 /\ kstack \in [Slots -> Seq(Frames)]
  BY SchedAssumption DEF TypeOK, Slots
<1>1. /\ kstack' \in [Slots -> Seq(Frames)]
      /\ kstack'[cp] = t
      /\ \A p \in Slots \ {cp} : kstack'[p] = kstack[p]
  BY <1>0, Zenon
<1>2. Where(c)' = Head(t)
  BY <1>0, <1>1, Zenon DEF Where
<1>3. ASSUME NEW d \in CPUs \ {c} PROVE Where(d)' = Where(d)
  <2>1. curproc[d] \in 0..NPROC /\ curproc[d] # cp
    BY <1>0, Zenon DEF TypeOK, RunningOK
  <2>2. curproc[d] = 0 \/ curproc[d] \in Slots \ {cp}
    BY <2>1, SchedAssumption DEF Slots
  <2> QED BY <1>1, <2>2, Zenon DEF Where
<1>4. ASSUME NEW p \in Slots
      PROVE  /\ WellNested(kstack'[p])
             /\ \A f \in Frames : OnStack(kstack'[p], f) => Allowed(p, f)'
             /\ (\A d \in CPUs : curproc'[d] # p) => Head(kstack'[p]) \in SwitchFrames
  <2>1. CASE p = cp
    BY <1>1, <2>1, Zenon
  <2>2. CASE p # cp
    BY <1>1, <2>2, Zenon DEF StacksOK, Allowed
  <2> QED BY <2>1, <2>2, Zenon
<1> HIDE DEF cp
<1>5. StacksOK'
  BY <1>4, Zenon DEF StacksOK
<1> QED BY <1>1, <1>2, <1>3, <1>5, Zenon DEF Moved

\* A CPU that goes on in the same function moves, and its stack stays nested.
LEMMA GotoMoves ==
  ASSUME TypeOK, StacksOK, RunningOK, NEW c \in CPUs, NEW g, At(c, g), g # "user",
         NEW f \in Frames, Goto(c, f), curproc' = curproc, SameNp,
         Callers(g) \subseteq Callers(f) \/ kstack[curproc[c]][2] \in Callers(f),
         Allowed(curproc[c], f)
  PROVE  Moved(c, f)
<1> DEFINE s == kstack[curproc[c]]
<1>1. s \in Seq(Frames) /\ WellNested(s) /\ Head(s) = g /\ curproc[c] \in Slots
  BY AtWhere, Zenon DEF TypeOK, StacksOK
<1>2. s[2] \in Callers(f)
  BY <1>1, NestReturn, ZenonT(30)
<1> DEFINE t == <<f>> \o Tail(s)
<1>3. /\ t \in Seq(Frames) /\ WellNested(t) /\ Head(t) = f
      /\ \A x : OnStack(t, x) => x = f \/ OnStack(s, x)
  BY <1>1, <1>2, NestGoto, Zenon
<1>4. kstack' = [kstack EXCEPT ![curproc[c]] = t]
  BY Zenon DEF Goto
<1>5. \A x \in Frames : OnStack(t, x) => Allowed(curproc[c], x)'
  BY <1>1, <1>3, ZenonT(30) DEF StacksOK, Allowed, SameNp
<1> HIDE DEF t
<1> QED BY <1>1, <1>3, <1>4, <1>5, NewStack, ZenonT(30) DEF SameNp

\* So does one that calls a function,
LEMMA PushMoves ==
  ASSUME TypeOK, StacksOK, RunningOK, NEW c \in CPUs, NEW g, At(c, g),
         NEW f \in Frames, Push(c, f), curproc' = curproc, SameNp,
         g \in Callers(f), Allowed(curproc[c], f)
  PROVE  Moved(c, f)
<1> DEFINE s == kstack[curproc[c]]
<1>1. s \in Seq(Frames) /\ WellNested(s) /\ Head(s) = g /\ curproc[c] \in Slots
  BY AtWhere, Zenon DEF TypeOK, StacksOK
<1> DEFINE t == <<f>> \o s
<1>3. /\ t \in Seq(Frames) /\ WellNested(t) /\ Head(t) = f
      /\ \A x : OnStack(t, x) => x = f \/ OnStack(s, x)
  BY <1>1, NestPush, ZenonT(30)
<1>4. kstack' = [kstack EXCEPT ![curproc[c]] = t]
  BY Zenon DEF Push
<1>5. \A x \in Frames : OnStack(t, x) => Allowed(curproc[c], x)'
  BY <1>1, <1>3, Zenon DEF StacksOK, Allowed, SameNp
<1> HIDE DEF t
<1> QED BY <1>1, <1>3, <1>4, <1>5, NewStack, ZenonT(30) DEF SameNp

\* one that calls schedule(),
LEMMA ScheduleMoves ==
  ASSUME TypeOK, StacksOK, RunningOK, NEW c \in CPUs, NEW g, At(c, g), g # "user",
         NEW f \in SwitchFrames \ {"forkret"}, Schedule(c, f), curproc' = curproc, SameNp,
         Callers(g) \subseteq Callers(f), Allowed(curproc[c], f)
  PROVE  Moved(c, "sched")
<1> DEFINE s == kstack[curproc[c]]
<1>1. s \in Seq(Frames) /\ WellNested(s) /\ Head(s) = g /\ curproc[c] \in Slots
  BY AtWhere, Zenon DEF TypeOK, StacksOK
<1>2. s[2] \in Callers(f) /\ f \in Frames
  BY <1>1, NestReturn, ZenonT(30) DEF Frames
<1> DEFINE t == <<"sched", f>> \o Tail(s)
<1>3. /\ t \in Seq(Frames) /\ WellNested(t) /\ Head(t) = "sched"
      /\ \A x : OnStack(t, x) => x = "sched" \/ x = f \/ OnStack(s, x)
  BY <1>1, <1>2, NestSchedule, Zenon
<1>4. kstack' = [kstack EXCEPT ![curproc[c]] = t]
  BY Zenon DEF Schedule
<1>5. \A x \in Frames : OnStack(t, x) => Allowed(curproc[c], x)'
  BY <1>1, <1>3, ZenonT(30) DEF StacksOK, Allowed, SameNp
<1> HIDE DEF t
<1> QED BY <1>1, <1>3, <1>4, <1>5, NewStack, ZenonT(30) DEF SameNp

\* and one that returns, to a frame that may have called.
LEMMA ReturnMoves ==
  ASSUME TypeOK, StacksOK, RunningOK, NEW c \in CPUs, NEW g, At(c, g), g # "user",
         Return(c), curproc' = curproc, SameNp
  PROVE  \E f \in Callers(g) : Moved(c, f)
<1> DEFINE s == kstack[curproc[c]]
<1>1. s \in Seq(Frames) /\ WellNested(s) /\ Head(s) = g /\ curproc[c] \in Slots
  BY AtWhere, Zenon DEF TypeOK, StacksOK
<1> DEFINE t == Tail(s)
<1>3. /\ t \in Seq(Frames) /\ WellNested(t) /\ Head(t) \in Callers(g)
      /\ \A x : OnStack(t, x) => OnStack(s, x)
  BY <1>1, NestReturn, ZenonT(30)
<1>4. kstack' = [kstack EXCEPT ![curproc[c]] = t]
  BY Zenon DEF Return
<1>5. \A x \in Frames : OnStack(t, x) => Allowed(curproc[c], x)'
  BY <1>1, <1>3, ZenonT(30) DEF StacksOK, Allowed, SameNp
<1> HIDE DEF t
<1> QED BY <1>1, <1>3, <1>4, <1>5, NewStack, ZenonT(30) DEF SameNp

(* Constants and types *)

\* The inductive invariant gives each of its parts.
LEMMA InvParts ==
  ASSUME IInv
  PROVE  /\ TypeOK /\ StacksOK /\ RunningOK /\ FamilyOK /\ LockDiscipline
         /\ QueueExact /\ CurrentIsHead /\ ScheduleOK /\ SlicesOK
         /\ SleepOK /\ NoLostWakeup /\ ParentAlive
BY Zenon DEF IInv

\* A step that keeps each part keeps the inductive invariant.
LEMMA InvWhole ==
  ASSUME TypeOK', StacksOK', RunningOK', FamilyOK', LockDiscipline',
         QueueExact', CurrentIsHead', ScheduleOK', SlicesOK',
         SleepOK', NoLostWakeup', ParentAlive'
  PROVE  IInv'
BY Zenon DEF IInv

\* CPUs, locks, slots and the channel of the clock are told apart.
LEMMA Constants ==
  /\ 0 \in CPUs /\ CPUs \subseteq Nat /\ CPUs \subseteq Locks
  /\ Ptl \in Locks /\ TicksLock \in Locks /\ Ptl # TicksLock
  /\ Ptl \notin CPUs /\ TicksLock \notin CPUs /\ NoCpu \notin CPUs
  /\ \A l \in Locks : l \in CPUs \/ l = Ptl \/ l = TicksLock
  /\ 0 \notin Slots /\ Slots \subseteq 0..NPROC /\ \A p \in 0..NPROC : p = 0 \/ p \in Slots
  /\ Ticks \notin Slots /\ Ticks # 0 /\ Ticks \in 0..(NPROC + 1) /\ Slots \subseteq 0..(NPROC + 1)
  /\ InitProc \in Slots /\ InitProc \notin Idles
<1> USE SchedAssumption
<1>1. /\ 0 \in CPUs /\ CPUs \subseteq Nat /\ CPUs \subseteq Locks
      /\ Ptl \in Locks /\ TicksLock \in Locks /\ Ptl # TicksLock
      /\ Ptl \notin CPUs /\ TicksLock \notin CPUs /\ NoCpu \notin CPUs
      /\ \A l \in Locks : l \in CPUs \/ l = Ptl \/ l = TicksLock
  BY DEF CPUs, Locks, Ptl, TicksLock, NoCpu
<1>2. /\ 0 \notin Slots /\ Slots \subseteq 0..NPROC /\ \A p \in 0..NPROC : p = 0 \/ p \in Slots
      /\ Ticks \notin Slots /\ Ticks # 0 /\ Ticks \in 0..(NPROC + 1)
      /\ Slots \subseteq 0..(NPROC + 1)
  BY DEF Slots, Ticks
<1>3. InitProc \in Slots /\ InitProc \notin Idles
  BY DEF Slots, InitProc, Idles, Idle, CPUs
<1> QED BY <1>1, <1>2, <1>3, Zenon

\* Every CPU has an idle process of its own.
LEMMA IdleSlots ==
  /\ \A c \in CPUs : Idle(c) \in Slots /\ Idle(c) \in Idles
  /\ \A c, d \in CPUs : Idle(c) = Idle(d) => c = d
  /\ Idles \subseteq Slots
<1>1. \A c \in CPUs : Idle(c) \in Slots
  BY SchedAssumption DEF Idle, CPUs, Slots
<1>2. \A c \in CPUs : Idle(c) \in Idles
  BY ZenonT(30) DEF Idles
<1>3. \A c, d \in CPUs : Idle(c) = Idle(d) => c = d
  BY SchedAssumption DEF Idle, CPUs
<1>4. Idles \subseteq Slots
  BY <1>1, ZenonT(30) DEF Idles
<1> QED BY <1>1, <1>2, <1>3, <1>4, Zenon

\* What TypeOK says of the fields of a process and of what the CPUs run
LEMMA Types ==
  ASSUME TypeOK
  PROVE  /\ \A c \in CPUs : curproc[c] = 0 \/ curproc[c] \in Slots
         /\ \A p \in Slots :
              /\ proc[p] \in Procs
              /\ proc[p].parent = 0 \/ proc[p].parent \in Slots
              /\ proc[p].np = 0 \/ proc[p].np \in Slots
              /\ proc[p].frq \in CPUs /\ proc[p].trq \in CPUs
              /\ proc[p].timeslice \in Nat
              /\ proc[p].left \in Nat
              /\ proc[p].state \in States
         /\ \A c \in CPUs : bal[c].src \in CPUs
         /\ \A c \in CPUs : \A l \in Levels :
              q[c][l] \in Seq(Slots) /\ bal[c].moved[l] \in Seq(Slots)
<1>1. /\ proc \in [Slots -> Procs] /\ curproc \in [CPUs -> 0..NPROC]
      /\ q \in [CPUs -> [Levels -> Seq(Slots)]]
      /\ bal \in [CPUs -> [src : CPUs, moved : [Levels -> Seq(Slots)]]]
  BY ZenonT(30) DEF TypeOK
<1>2. \A c \in CPUs : curproc[c] = 0 \/ curproc[c] \in Slots
  BY <1>1, Constants, Zenon
<1>3. ASSUME NEW p \in Slots
      PROVE  /\ proc[p] \in Procs
             /\ proc[p].parent = 0 \/ proc[p].parent \in Slots
             /\ proc[p].np = 0 \/ proc[p].np \in Slots
             /\ proc[p].frq \in CPUs /\ proc[p].trq \in CPUs
             /\ proc[p].timeslice \in Nat
             /\ proc[p].left \in Nat
             /\ proc[p].state \in States
  <2>1. proc[p] \in Procs
    BY <1>1, Zenon
  <2>2. /\ proc[p].parent \in 0..NPROC /\ proc[p].np \in 0..NPROC
        /\ proc[p].frq \in CPUs /\ proc[p].trq \in CPUs
        /\ proc[p].timeslice \in Nat /\ proc[p].left \in 0..MaxSleep
        /\ proc[p].state \in States
    BY <2>1, Zenon DEF Procs
  <2> QED BY <2>1, <2>2, Constants
<1>4. \A c \in CPUs : bal[c].src \in CPUs
  BY <1>1, Zenon
<1>5. \A c \in CPUs : \A l \in Levels :
        q[c][l] \in Seq(Slots) /\ bal[c].moved[l] \in Seq(Slots)
  BY <1>1, Zenon
<1> QED BY <1>2, <1>3, <1>4, <1>5, ZenonT(30)

\* The frame a CPU is at is one its process may be in.
LEMMA CurrentAllowed ==
  ASSUME TypeOK, StacksOK, NEW c, NEW f, At(c, f)
  PROVE  Allowed(curproc[c], f) /\ f \in Frames
<1> DEFINE s == kstack[curproc[c]]
<1>1. curproc[c] \in Slots /\ Head(s) = f
  BY AtWhere, Zenon
<1>2. s \in Seq(Frames) /\ Len(s) >= 1
  BY <1>1, Zenon DEF TypeOK, StacksOK, WellNested
<1>3. Head(s) \in Frames /\ Head(s) = s[1] /\ 1 \in 1..Len(s)
  BY <1>2, StackParts
<1>4. OnStack(s, f)
  BY <1>1, <1>3, Zenon DEF OnStack
<1> QED BY <1>1, <1>3, <1>4, Zenon DEF StacksOK

\* A step that moves no stack leaves the CPU where it is.
LEMMA StillMoves ==
  ASSUME TypeOK, StacksOK, NEW c \in CPUs, NEW f, At(c, f),
         kstack' = kstack, curproc' = curproc, SameNp
  PROVE  Moved(c, f)
<1>1. \A d \in CPUs : Where(d)' = Where(d)
  BY Zenon DEF Where
<1>2. StacksOK' /\ kstack' \in [Slots -> Seq(Frames)]
  BY ZenonT(30) DEF TypeOK, StacksOK, Allowed, SameNp
<1> QED BY <1>1, <1>2, AtWhere DEF Moved

\* A queue's head is in the queue.
LEMMA HeadInQueue ==
  ASSUME NEW S, NEW s \in Seq(S), s # <<>>
  PROVE  InQueue(s, Head(s)) /\ Head(s) \in S
<1>1. Len(s) \in Nat /\ Len(s) >= 1 /\ Head(s) = s[1] /\ Head(s) \in S
  OBVIOUS
<1> QED BY <1>1 DEF InQueue

\* pick_next_proc gives the head of a level of the CPU's own queue, or its idle
\* process.
LEMMA PickNextHead ==
  ASSUME TypeOK, NEW c \in CPUs
  PROVE  /\ PickNext(c) \in Slots
         /\ \/ PickNext(c) = Idle(c)
            \/ \E l \in Levels : q[c][l] # <<>> /\ Head(q[c][l]) = PickNext(c)
<1>1. \A l \in Levels : q[c][l] \in Seq(Slots)
  BY Types, Zenon
<1>2. \A l \in Levels : q[c][l] # <<>> => Head(q[c][l]) \in Slots
  BY <1>1
<1>3. 1 \in Levels /\ 2 \in Levels /\ 3 \in Levels
  BY DEF Levels
<1> QED BY <1>2, <1>3, IdleSlots, Zenon DEF PickNext

-----------------------------------------------------------------------------
(* Steps that leave most of the state alone *)

TmrFrames == {"tmr_ptl", "tmr_rq", "tmr_wake"}

\* What a CPU does to no queue, no slice and no family
QuietProcs(c) ==
  /\ \A p \in Slots :
       /\ proc'[p].state = proc[p].state /\ proc'[p].parent = proc[p].parent
       /\ proc'[p].rq = proc[p].rq /\ proc'[p].timeslice = proc[p].timeslice
       /\ proc'[p].np = proc[p].np
       /\ proc[p].state = "SLEEPING" => proc'[p].chan = proc[p].chan
       /\ proc'[p].left = proc[p].left \/ (p = curproc[c] /\ proc[p].state # "SLEEPING")
  /\ q' = q
  /\ \A d \in CPUs : bal'[d].moved = bal[d].moved

\* A step outside schedule(), the ticks that end a slice and the balancing of
\* queues disturbs only the types and the locks.
LEMMA QuietInv ==
  ASSUME IInv, NEW c \in CPUs, curproc[c] # 0, NEW f, Moved(c, f), QuietProcs(c),
         Where(c) \notin InSchedule \cup {"bal_put", "tick"},
         f \notin InSchedule \cup {"bal_put", "tick"},
         f = "wait_rq" => Zombies(curproc[c]) = {},
         f = "slp_rq" => proc'[curproc[c]].left # 0,
         Where(c) = "slp_rq" => f # "slp_rq",
         Where(c) \in TmrFrames => f \in TmrFrames \/ TickSleepers = {},
         TypeOK', LockDiscipline'
  PROVE  IInv'
<1> USE InvParts
<1>t. /\ \A d \in CPUs : curproc[d] # 0 => curproc[d] \in Slots
      /\ 0 \in CPUs
  BY Types, Constants, ZenonT(30)
<1>w. /\ curproc' = curproc /\ Where(c)' = f /\ StacksOK'
      /\ \A d \in CPUs \ {c} : Where(d)' = Where(d)
  BY ZenonT(30) DEF Moved
<1>1. RunningOK'
  BY <1>t, <1>w DEF RunningOK, QuietProcs
<1>2. FamilyOK'
  <2>1. ASSUME NEW p \in Slots, proc'[p].np # 0, proc'[p].state # "ZOMBIE"
        PROVE  proc'[proc'[p].np].state = "EMBRYO" /\ proc'[proc'[p].np].parent = p
    <3>1. proc'[p].np = proc[p].np /\ proc[p].np \in Slots /\ proc[p].state # "ZOMBIE"
      BY <2>1, Types, ZenonT(30) DEF QuietProcs
    <3>2. proc[proc[p].np].state = "EMBRYO" /\ proc[proc[p].np].parent = p
      BY <2>1, <3>1, ZenonT(30) DEF FamilyOK
    <3> QED BY <3>1, <3>2, ZenonT(30) DEF QuietProcs
  <2>2. /\ \A p \in Idles :
             /\ proc'[p].state \notin {"UNUSED", "EMBRYO", "SLEEPING"}
             /\ proc'[p].parent = 0 /\ proc'[p].np = 0
        /\ proc'[InitProc].state \notin {"UNUSED", "EMBRYO", "ZOMBIE"}
        /\ proc'[InitProc].parent = 0
        /\ \A p \in Slots : proc'[p].parent # p
    BY Constants, IdleSlots DEF FamilyOK, QuietProcs
  <2> QED BY <2>1, <2>2, ZenonT(30) DEF FamilyOK
<1>3. QueueExact'
  <2>1. \A p \in Slots : CanRun(p)' <=> CanRun(p)
    BY <1>w DEF CanRun, QuietProcs, InSchedule
  <2>2. \A p \in Slots : (Queued(p)' <=> Queued(p)) /\ (InFlight(p)' <=> InFlight(p))
    BY ZenonT(30) DEF Queued, InFlight, QuietProcs
  <2> QED BY <2>1, <2>2 DEF QueueExact, QuietProcs
<1>4. CurrentIsHead'
  <2> SUFFICES ASSUME NEW d \in CPUs, curproc[d] # 0, curproc[d] \notin Idles,
                      Where(d)' \notin InSchedule
               PROVE  \E l \in Levels : /\ proc'[curproc[d]].rq = <<d, l>>
                                        /\ q[d][l] # <<>>
                                        /\ Head(q[d][l]) = curproc[d]
    BY <1>w, ZenonT(30) DEF CurrentIsHead, QuietProcs
  <2>1. Where(d) \notin InSchedule /\ curproc[d] \in Slots
    BY <1>t, <1>w, ZenonT(30)
  <2>2. proc'[curproc[d]].rq = proc[curproc[d]].rq
    BY <2>1, ZenonT(30) DEF QuietProcs
  <2> QED BY <2>1, <2>2, ZenonT(30) DEF CurrentIsHead
<1>5. ScheduleOK'
  <2> SUFFICES ASSUME NEW d \in CPUs
      PROVE /\ (curproc[d] # 0 /\ curproc[d] \notin Idles /\ Where(d)' \in {"sched", "dequeue"}) =>
                 \E l \in Levels : InQueue(q[d][l], curproc[d])
            /\ Where(d)' = "dequeue" => proc'[curproc[d]].state \in {"SLEEPING", "ZOMBIE"}
            /\ Where(d)' # "bal_put" => \A l \in Levels : bal[d].moved[l] = <<>>
    BY <1>w DEF ScheduleOK, QuietProcs
  <2>1. CASE d = c
    BY <1>w, <2>1, ZenonT(30) DEF ScheduleOK, InSchedule
  <2>2. CASE d # c
    <3>1. Where(d)' = Where(d)
      BY <1>w, <2>2, ZenonT(30)
    <3>2. Where(d) = "dequeue" => curproc[d] \in Slots
      BY <1>t, ZenonT(30) DEF Where
    <3> QED BY <3>1, <3>2, ZenonT(30) DEF ScheduleOK, QuietProcs
  <2> QED BY <2>1, <2>2, ZenonT(30)
<1>6. SlicesOK'
  BY <1>w DEF SlicesOK, QuietProcs
<1>7. SleepOK'
  <2>1. \A p \in Slots : Zombies(p)' = Zombies(p)
    BY Zenon DEF Zombies, Children, QuietProcs
  <2>2. ASSUME NEW d \in CPUs
        PROVE /\ Where(d)' = "wait_rq" => Zombies(curproc[d])' = {}
              /\ Where(d)' = "slp_rq" => proc'[curproc[d]].left # 0
    <3>1. CASE d = c
      BY <1>t, <1>w, <2>1, <3>1, Zenon DEF SleepOK
    <3>2. CASE d # c
      <4>1. curproc[d] # 0 => curproc[d] # curproc[c] /\ curproc[d] \in Slots
        BY <1>t, <3>2, Zenon DEF RunningOK
      <4>2. curproc[d] = 0 => Where(d) = "boot"
        BY Zenon DEF Where
      <4> QED BY <1>w, <2>1, <3>2, <4>1, <4>2 DEF SleepOK, QuietProcs
    <3> QED BY <3>1, <3>2, ZenonT(30)
  <2>3. \A p \in Slots : proc'[p].state = "SLEEPING" => proc'[p].chan \in {p, Ticks}
    BY Zenon DEF SleepOK, QuietProcs
  <2> QED BY <1>w, <2>2, <2>3, ZenonT(30) DEF SleepOK
<1>8. NoLostWakeup'
  <2> SUFFICES ASSUME NEW p \in Slots, proc'[p].state = "SLEEPING"
               PROVE  IF proc'[p].chan = Ticks
                        THEN proc'[p].left = 0 => Where(0)' \in TmrFrames
                        ELSE Zombies(p)' = {}
    BY Zenon DEF NoLostWakeup, TmrFrames
  <2>1. Zombies(p)' = Zombies(p)
    BY Zenon DEF Zombies, Children, QuietProcs
  <2>2. proc[p].state = "SLEEPING" /\ proc'[p].chan = proc[p].chan
    BY Zenon DEF QuietProcs
  <2>3. proc'[p].left = proc[p].left
    BY <2>2, Zenon DEF QuietProcs
  <2>4. CASE proc[p].chan = Ticks
    <3>1. p \in TickSleepers
      BY <2>2, <2>4, Zenon DEF TickSleepers
    <3>2. proc[p].left = 0 => Where(0) \in TmrFrames
      BY <2>2, <2>4, Zenon DEF NoLostWakeup, TmrFrames
    <3> QED BY <1>t, <1>w, <2>2, <2>3, <2>4, <3>1, <3>2, Zenon
  <2>5. CASE proc[p].chan # Ticks
    BY <2>1, <2>2, <2>5, Zenon DEF NoLostWakeup
  <2> QED BY <2>4, <2>5, Zenon
<1>9. ParentAlive'
  BY Types DEF ParentAlive, QuietProcs
<1> QED BY <1>w, <1>1, <1>2, <1>3, <1>4, <1>5, <1>6, <1>7, <1>8, <1>9, InvWhole, ZenonT(30)

\* The machine stopping changes nothing else.
LEMMA PanicInv ==
  ASSUME IInv, UNCHANGED <<proc, kstack, q, curproc, lock, bal>>, fault' \in Faults
  PROVE  IInv'
<1> USE InvParts
<1>1. \A c \in CPUs : Where(c)' = Where(c)
  BY Zenon DEF Where
<1>2. TypeOK' /\ StacksOK'
  BY Zenon DEF TypeOK, StacksOK, Allowed
<1>3. RunningOK' /\ FamilyOK' /\ LockDiscipline' /\ SlicesOK' /\ ParentAlive'
  BY <1>1 DEF RunningOK, FamilyOK, LockDiscipline, SlicesOK, ParentAlive
<1>4. QueueExact'
  <2>1. \A p \in Slots : (CanRun(p)' <=> CanRun(p)) /\ (Queued(p)' <=> Queued(p))
                         /\ (InFlight(p)' <=> InFlight(p))
    BY <1>1, Zenon DEF CanRun, Queued, InFlight
  <2> QED BY <2>1 DEF QueueExact
<1>5. CurrentIsHead' /\ ScheduleOK'
  BY <1>1, Zenon DEF CurrentIsHead, ScheduleOK
<1>6. SleepOK' /\ NoLostWakeup'
  <2>1. \A p : Zombies(p)' = Zombies(p)
    BY Zenon DEF Zombies, Children
  <2> QED BY <1>1, <2>1, Constants, Zenon DEF SleepOK, NoLostWakeup
<1> QED BY <1>2, <1>3, <1>4, <1>5, <1>6, InvWhole, ZenonT(30)

\* A panic changes nothing that IInv is about.
LEMMA Panics ==
  ASSUME IInv, NEW why \in Faults, Panic(why)
  PROVE  IInv'
BY PanicInv, Zenon DEF Panic

\* CPU c moves to f, takes and gives back the locks between the two frames, and
\* leaves the locks of others alone.
LocksOf(c, f) ==
  /\ lock' \in [Locks -> CPUs \cup {NoCpu}]
  /\ \A l \in Locks :
       /\ (f = "dump" /\ l \in CPUs \ {c}) \/ (lock'[l] = c <=> Holds(c, f, l))
       /\ lock'[l] = lock[l] \/ {lock[l], lock'[l]} \subseteq {c, NoCpu}

\* Locks and frames stay in step when c moves.
LEMMA LocksMove ==
  ASSUME LockDiscipline, NEW c \in CPUs, NEW f, Moved(c, f), LocksOf(c, f)
  PROVE  LockDiscipline'
<1> SUFFICES ASSUME NEW d \in CPUs, NEW l \in Locks
             PROVE  \/ Where(d)' = "dump" /\ l \in CPUs \ {d}
                    \/ lock'[l] = d <=> Holds(d, Where(d)', l)
  BY Zenon DEF LockDiscipline, Holds
<1>1. CASE d = c
  BY <1>1, Zenon DEF Moved, LocksOf
<1>2. CASE d # c
  BY <1>2, Constants DEF Moved, LockDiscipline, LocksOf
<1> QED BY <1>1, <1>2, Zenon

\* What c holds at frame g, procdump apart.
LEMMA HeldAt ==
  ASSUME TypeOK, LockDiscipline, NEW c \in CPUs, NEW g, At(c, g), g # "dump"
  PROVE  /\ lock \in [Locks -> CPUs \cup {NoCpu}]
         /\ \A l \in Locks : lock[l] = c <=> Holds(c, g, l)
BY AtWhere DEF TypeOK, LockDiscipline

\* A step that leaves processes and queues alone is quiet.
LEMMA QuietSame ==
  ASSUME NEW c, proc' = proc, q' = q, bal' = bal
  PROVE  QuietProcs(c) /\ SameNp
BY Zenon DEF QuietProcs, SameNp

\* A step that only takes and gives back locks
LEMMA LockStepInv ==
  ASSUME IInv, NEW c \in CPUs, NEW g, At(c, g), NEW f, Moved(c, f), LocksOf(c, f),
         UNCHANGED <<proc, q, bal, fault>>,
         g \notin InSchedule \cup {"bal_put", "tick"},
         f \notin InSchedule \cup {"bal_put", "tick"},
         f = "wait_rq" => Zombies(curproc[c]) = {},
         f = "slp_rq" => g # "slp_rq" /\ proc[curproc[c]].left # 0,
         g \in TmrFrames => f \in TmrFrames \/ TickSleepers = {}
  PROVE  IInv'
<1>1. TypeOK'
  BY Zenon DEF IInv, TypeOK, Moved, LocksOf
<1>2. LockDiscipline'
  BY LocksMove, Zenon DEF IInv
<1> QED BY <1>1, <1>2, AtWhere, QuietSame, QuietInv, Zenon

-----------------------------------------------------------------------------
(* Kinds of step *)

\* The other CPUs stay where they are.
Elsewhere(c) ==
  \A d \in CPUs \ {c} : curproc'[d] = curproc[d] /\ Where(d)' = Where(d)

\* When c moves, the other CPUs stay.
LEMMA MovedElsewhere ==
  ASSUME NEW c, NEW f, Moved(c, f)
  PROVE  Elsewhere(c)
BY Zenon DEF Moved, Elsewhere

\* Parents stay, and processes that exist go to a state of the living.
LEMMA FamilyStays ==
  ASSUME TypeOK, FamilyOK, ParentAlive,
         \A p \in Slots :
           /\ proc'[p].parent = proc[p].parent /\ proc'[p].np = proc[p].np
           /\ \/ proc'[p].state = proc[p].state
              \/ /\ proc[p].state \notin {"UNUSED", "EMBRYO"}
                 /\ proc[p].state # "ZOMBIE" \/ p \in Idles
                 /\ proc'[p].state \in {"SLEEPING", "RUNNABLE", "RUNNING"}
           /\ proc'[p].state = "SLEEPING" => proc[p].state = "SLEEPING" \/ p \notin Idles
  PROVE  FamilyOK' /\ ParentAlive'
<1>1. ASSUME NEW p \in Slots, proc'[p].np # 0, proc'[p].state # "ZOMBIE"
      PROVE  proc'[proc'[p].np].state = "EMBRYO" /\ proc'[proc'[p].np].parent = p
  <2>1. proc'[p].np = proc[p].np /\ proc[p].np \in Slots /\ proc[p].state # "ZOMBIE"
    BY <1>1, Types DEF FamilyOK
  <2>2. proc[proc[p].np].state = "EMBRYO" /\ proc[proc[p].np].parent = p
    BY <1>1, <2>1, Zenon DEF FamilyOK
  <2> QED BY <2>1, <2>2, Zenon
<1>2. /\ \A p \in Idles :
           /\ proc'[p].state \notin {"UNUSED", "EMBRYO", "SLEEPING"}
           /\ proc'[p].parent = 0 /\ proc'[p].np = 0
      /\ proc'[InitProc].state \notin {"UNUSED", "EMBRYO", "ZOMBIE"}
      /\ proc'[InitProc].parent = 0
      /\ \A p \in Slots : proc'[p].parent # p
  BY Constants, IdleSlots DEF FamilyOK
<1>3. ASSUME NEW p \in Slots \ (Idles \cup {InitProc}), proc'[p].state # "UNUSED"
      PROVE  /\ proc'[p].parent # 0
             /\ proc'[proc'[p].parent].state \notin {"UNUSED", "EMBRYO", "ZOMBIE"}
  <2>1. /\ proc[p].parent # 0 /\ proc'[p].parent = proc[p].parent
        /\ proc[proc[p].parent].state \notin {"UNUSED", "EMBRYO", "ZOMBIE"}
    BY <1>3, Zenon DEF ParentAlive
  <2>2. proc[p].parent \in Slots
    BY <2>1, Types, Zenon
  <2> QED BY <2>1, <2>2, Zenon
<1> QED BY <1>1, <1>2, <1>3, Zenon DEF FamilyOK, ParentAlive

\* Nobody becomes a zombie or goes to sleep, and sleepers stay as they are.
LEMMA SleepersStay ==
  ASSUME TypeOK, RunningOK, SleepOK, NoLostWakeup, NEW c \in CPUs, Elsewhere(c),
         \A p \in Slots :
           /\ proc'[p].state = "ZOMBIE" =>
                proc[p].state = "ZOMBIE" /\ proc'[p].parent = proc[p].parent
           /\ proc'[p].state = "SLEEPING" =>
                proc[p].state = "SLEEPING" /\ proc'[p].chan = proc[p].chan
           /\ \/ proc'[p].left = proc[p].left
              \/ proc'[p].state = "UNUSED" /\ \A d \in CPUs : curproc[d] # p,
         Where(c)' \notin {"wait_rq", "slp_rq"},
         Where(c) \in TmrFrames => Where(c)' \in TmrFrames
  PROVE  SleepOK' /\ NoLostWakeup'
<1>1. \A p : Zombies(p) = {} => Zombies(p)' = {}
  BY DEF Zombies, Children
<1>2. ASSUME NEW d \in CPUs
      PROVE  /\ Where(d)' = "wait_rq" => Zombies(curproc[d])' = {}
             /\ Where(d)' = "slp_rq" => proc'[curproc'[d]].left # 0
  <2>1. CASE d = c
    BY <2>1, Zenon
  <2>2. CASE d # c
    <3>1. curproc'[d] = curproc[d] /\ Where(d)' = Where(d)
      BY <2>2, Zenon DEF Elsewhere
    <3>2. Where(d) = "slp_rq" => curproc[d] \in Slots
      BY Types, Zenon DEF Where
    <3>3. Zombies(curproc[d]) = {} => Zombies(curproc[d])' = {}
      BY <3>1 DEF Zombies, Children
    <3> QED BY <3>1, <3>2, <3>3 DEF SleepOK
  <2> QED BY <2>1, <2>2, Zenon
<1>3. \A p \in Slots : proc'[p].state = "SLEEPING" => proc'[p].chan \in {p, Ticks}
  BY Zenon DEF SleepOK
<1>4. SleepOK'
  BY <1>2, <1>3, Zenon DEF SleepOK
<1>5. ASSUME NEW p \in Slots, proc'[p].state = "SLEEPING"
      PROVE  IF proc'[p].chan = Ticks
               THEN proc'[p].left = 0 => Where(0)' \in TmrFrames
               ELSE Zombies(p)' = {}
  <2>1. /\ proc[p].state = "SLEEPING" /\ proc'[p].chan = proc[p].chan
        /\ proc'[p].left = proc[p].left
    BY <1>5, Zenon
  <2>2. Where(0) \in TmrFrames => Where(0)' \in TmrFrames
    BY Constants, Zenon DEF Elsewhere
  <2> QED BY <1>1, <2>1, <2>2 DEF NoLostWakeup, TmrFrames
<1> QED BY <1>4, <1>5, Zenon DEF NoLostWakeup, TmrFrames

\* Slices change only to be set anew.
LEMMA SlicesStay ==
  ASSUME SlicesOK, NEW c \in CPUs, Elsewhere(c), Where(c) # "tick" \/ curproc[c] = 0,
         \A p \in Slots :
           \/ proc'[p].rq = proc[p].rq /\ proc'[p].timeslice = proc[p].timeslice
           \/ proc'[p].timeslice >= 1
           \/ proc'[p].rq[2] \notin {1, 2}
  PROVE  SlicesOK'
<1> SUFFICES ASSUME NEW p \in Slots, proc'[p].rq[2] \in {1, 2}
             PROVE  \/ proc'[p].timeslice >= 1
                    \/ \E d \in CPUs : curproc'[d] = p /\ Where(d)' = "tick"
  BY Zenon DEF SlicesOK
<1>1. CASE proc'[p].rq = proc[p].rq /\ proc'[p].timeslice = proc[p].timeslice
  <2>1. proc[p].timeslice >= 1 \/ \E d \in CPUs : curproc[d] = p /\ Where(d) = "tick"
    BY <1>1, Zenon DEF SlicesOK
  <2>2. ASSUME NEW d \in CPUs, curproc[d] = p, Where(d) = "tick"
        PROVE  curproc'[d] = p /\ Where(d)' = "tick"
    BY <2>2, Zenon DEF Elsewhere, Where
  <2> QED BY <1>1, <2>1, <2>2, Zenon
<1> QED BY <1>1, Zenon

\* Queues stay, and so do those that are to be in them.
LEMMA QueuesStay ==
  ASSUME QueueExact, q' = q, \A d \in CPUs : bal'[d].moved = bal[d].moved,
         \A p \in Slots : (CanRun(p)' <=> CanRun(p)) /\ (Queued(p) => proc'[p].rq = proc[p].rq)
  PROVE  QueueExact'
<1>1. \A p \in Slots : (Queued(p)' <=> Queued(p)) /\ (InFlight(p)' <=> InFlight(p))
  BY Zenon DEF Queued, InFlight
<1>2. \A p \in Slots : \A c \in CPUs : \A l \in Levels :
        InQueue(q[c][l], p) => proc'[p].rq = <<c, l>>
  BY DEF Queued, QueueExact
<1>3. \A p \in Slots :
        /\ CanRun(p)' <=> Queued(p)' \/ InFlight(p)'
        /\ ~(Queued(p)' /\ InFlight(p)')
  BY <1>1, Zenon DEF QueueExact
<1>4. /\ \A c \in CPUs : \A l \in Levels : NoDup(q'[c][l]) /\ NoDup(bal'[c].moved[l])
      /\ \A p \in Slots : \A c \in CPUs : \A l \in Levels :
           InQueue(bal'[c].moved[l], p) =>
             \A d \in CPUs : \A k \in Levels : InQueue(bal'[d].moved[k], p) => d = c /\ k = l
  BY DEF QueueExact
<1> QED BY <1>2, <1>3, <1>4 DEF QueueExact

\* The current process of c is the head of its level.
HeadAt(c) ==
  \E l \in Levels : /\ proc[curproc[c]].rq = <<c, l>>
                    /\ q[c][l] # <<>>
                    /\ Head(q[c][l]) = curproc[c]

\* A step of c displaces nobody elsewhere.
OthersKept(c) ==
  \A d \in CPUs \ {c} :
    /\ bal'[d].moved = bal[d].moved
    /\ curproc[d] # 0 =>
         /\ \/ proc'[curproc[d]].state = proc[curproc[d]].state
            \/ Where(d) = "pick" /\ proc'[curproc[d]].state = "RUNNABLE"
         /\ Where(d) \notin InSchedule => proc'[curproc[d]].rq = proc[curproc[d]].rq
    /\ Where(d) \notin InSchedule => \A l \in Levels :
         q[d][l] # <<>> => q'[d][l] # <<>> /\ Head(q'[d][l]) = Head(q[d][l])
    /\ Where(d) \in {"sched", "dequeue"} => \A l \in Levels : \A p \in Slots :
         InQueue(q[d][l], p) => InQueue(q'[d][l], p)

\* What c does to its own process leaves the other CPUs' heads in place.
LEMMA OthersStay ==
  ASSUME TypeOK, RunningOK, CurrentIsHead, ScheduleOK, NEW c \in CPUs, Elsewhere(c), OthersKept(c),
         curproc'[c] \in Slots \ Idles /\ Where(c)' \notin InSchedule => HeadAt(c)',
         curproc'[c] \in Slots \ Idles /\ Where(c)' \in {"sched", "dequeue"} =>
           \E l \in Levels : InQueue(q'[c][l], curproc'[c]),
         Where(c)' = "dequeue" => proc'[curproc'[c]].state \in {"SLEEPING", "ZOMBIE"},
         Where(c)' # "bal_put" => \A l \in Levels : bal'[c].moved[l] = <<>>,
         curproc'[c] = 0 \/ curproc'[c] \in Slots
  PROVE  CurrentIsHead' /\ ScheduleOK'
<1>1. ASSUME NEW d \in CPUs, curproc'[d] # 0, curproc'[d] \notin Idles, Where(d)' \notin InSchedule
      PROVE  HeadAt(d)'
  <2>1. CASE d = c
    BY <1>1, <2>1, Zenon
  <2>2. CASE d # c
    <3>1. /\ curproc'[d] = curproc[d] /\ Where(d)' = Where(d) /\ curproc[d] \in Slots
          /\ proc'[curproc[d]].rq = proc[curproc[d]].rq
          /\ \A l \in Levels :
               q[d][l] # <<>> => q'[d][l] # <<>> /\ Head(q'[d][l]) = Head(q[d][l])
      BY <1>1, <2>2, Types DEF Elsewhere, OthersKept
    <3>2. PICK l \in Levels : /\ proc[curproc[d]].rq = <<d, l>>
                              /\ q[d][l] # <<>>
                              /\ Head(q[d][l]) = curproc[d]
      BY <1>1, <3>1, Zenon DEF CurrentIsHead
    <3>3. /\ proc'[curproc'[d]].rq = <<d, l>>
          /\ q'[d][l] # <<>>
          /\ Head(q'[d][l]) = curproc'[d]
      BY <3>1, <3>2, Zenon
    <3> QED BY <3>3, Zenon DEF HeadAt
  <2> QED BY <2>1, <2>2, Zenon
<1>2. CurrentIsHead'
  BY <1>1, Zenon DEF CurrentIsHead, HeadAt
<1>3. ASSUME NEW d \in CPUs
      PROVE  /\ (curproc'[d] # 0 /\ curproc'[d] \notin Idles /\ Where(d)' \in {"sched", "dequeue"}) =>
                  \E l \in Levels : InQueue(q'[d][l], curproc'[d])
             /\ Where(d)' = "dequeue" => proc'[curproc'[d]].state \in {"SLEEPING", "ZOMBIE"}
             /\ Where(d)' # "bal_put" => \A l \in Levels : bal'[d].moved[l] = <<>>
  <2>1. CASE d = c
    BY <2>1, Zenon
  <2>2. CASE d # c
    <3>1. /\ curproc'[d] = curproc[d] /\ Where(d)' = Where(d)
          /\ curproc[d] = 0 \/ curproc[d] \in Slots
          /\ Where(d) = "dequeue" => curproc[d] # 0
      BY <2>2, Types, Zenon DEF Elsewhere, Where
    <3> QED BY <2>2, <3>1 DEF OthersKept, ScheduleOK
  <2> QED BY <2>1, <2>2, Zenon
<1>4. ScheduleOK'
  BY <1>3, Zenon DEF ScheduleOK
<1> QED BY <1>2, <1>4, Zenon

\* Current processes stay apart and running when c changes its own.
LEMMA RunningStays ==
  ASSUME RunningOK, NEW c \in CPUs, curproc' = curproc, Elsewhere(c), OthersKept(c),
         curproc[c] # 0, proc'[curproc[c]].state \notin {"UNUSED", "EMBRYO"},
         Where(c)' \notin InSchedule => proc'[curproc[c]].state = "RUNNING"
  PROVE  RunningOK'
<1> SUFFICES ASSUME NEW d \in CPUs, curproc[d] # 0
             PROVE  /\ \A e \in CPUs : curproc[e] = curproc[d] => e = d
                    /\ curproc[d] \in Idles => curproc[d] = Idle(d)
                    /\ proc'[curproc[d]].state \notin {"UNUSED", "EMBRYO"}
                    /\ Where(d)' \notin InSchedule => proc'[curproc[d]].state = "RUNNING"
  BY Zenon DEF RunningOK
<1>1. CASE d = c
  BY <1>1, Zenon DEF RunningOK
<1>2. CASE d # c
  BY <1>2 DEF RunningOK, Elsewhere, OthersKept, InSchedule
<1> QED BY <1>1, <1>2, Zenon

\* Processes that are in no queue, put behind level l of CPU c
LEMMA AddedExact ==
  ASSUME TypeOK, QueueExact, NEW c \in CPUs, NEW l \in Levels, NEW t \in Seq(Slots), NoDup(t),
         q' = [q EXCEPT ![c][l] = @ \o t], bal' = bal,
         \A p \in Slots :
           /\ CanRun(p)' <=> CanRun(p) \/ InQueue(t, p)
           /\ InQueue(t, p) => ~Queued(p) /\ ~InFlight(p) /\ proc'[p].rq = <<c, l>>
           /\ ~InQueue(t, p) => proc'[p].rq = proc[p].rq
  PROVE  /\ QueueExact'
         /\ q' \in [CPUs -> [Levels -> Seq(Slots)]]
         /\ \A d \in CPUs : \A k \in Levels :
              /\ q[d][k] # <<>> => q'[d][k] # <<>> /\ Head(q'[d][k]) = Head(q[d][k])
              /\ \A p \in Slots : InQueue(q[d][k], p) => InQueue(q'[d][k], p)
<1> DEFINE s == q[c][l]
<1>1. s \in Seq(Slots) /\ NoDup(s) /\ q \in [CPUs -> [Levels -> Seq(Slots)]]
  BY Types, ZenonT(30) DEF QueueExact, TypeOK
<1>2. ASSUME NEW x PROVE ~(InQueue(s, x) /\ InQueue(t, x))
  <2> SUFFICES ASSUME InQueue(s, x), InQueue(t, x) PROVE FALSE
    BY Zenon
  <2>1. x \in Slots
    BY <1>1 DEF InQueue
  <2> QED BY <2>1, Zenon DEF Queued
<1>3. /\ s \o t \in Seq(Slots) /\ NoDup(s \o t)
      /\ \A x : InQueue(s \o t, x) <=> InQueue(s, x) \/ InQueue(t, x)
      /\ s # <<>> => s \o t # <<>> /\ Head(s \o t) = Head(s)
  BY <1>1, <1>2, ConcatQueue, Zenon
<1>4. /\ q' \in [CPUs -> [Levels -> Seq(Slots)]]
      /\ q'[c][l] = s \o t
      /\ \A d \in CPUs : \A k \in Levels : d # c \/ k # l => q'[d][k] = q[d][k]
  BY <1>1, <1>3, Zenon
<1> HIDE DEF s
<1>5. ASSUME NEW d \in CPUs, NEW k \in Levels
      PROVE  /\ NoDup(q'[d][k])
             /\ q[d][k] # <<>> => q'[d][k] # <<>> /\ Head(q'[d][k]) = Head(q[d][k])
             /\ \A p \in Slots : InQueue(q'[d][k], p) <=>
                  InQueue(q[d][k], p) \/ (d = c /\ k = l /\ InQueue(t, p))
  <2>1. CASE d = c /\ k = l
    BY <1>3, <1>4, <2>1, Zenon DEF s
  <2>2. CASE ~(d = c /\ k = l)
    BY <1>4, <2>2, Zenon DEF QueueExact
  <2> QED BY <2>1, <2>2, Zenon
<1>6. \A p \in Slots : Queued(p)' <=> Queued(p) \/ InQueue(t, p)
  BY <1>5 DEF Queued
<1>7. \A p \in Slots : InFlight(p)' <=> InFlight(p)
  BY Zenon DEF InFlight
<1>8. ASSUME NEW p \in Slots
      PROVE  /\ CanRun(p)' <=> Queued(p)' \/ InFlight(p)'
             /\ ~(Queued(p)' /\ InFlight(p)')
  <2>1. /\ CanRun(p) <=> Queued(p) \/ InFlight(p)
        /\ ~(Queued(p) /\ InFlight(p))
    BY Zenon DEF QueueExact
  <2> QED BY <1>6, <1>7, <2>1, Zenon
<1>9. ASSUME NEW p \in Slots, NEW d \in CPUs, NEW k \in Levels, InQueue(q'[d][k], p)
      PROVE  proc'[p].rq = <<d, k>>
  <2>1. CASE InQueue(t, p)
    <3>1. ~InQueue(q[d][k], p)
      BY <2>1, Zenon DEF Queued
    <3> QED BY <1>5, <1>9, <2>1, <3>1, Zenon
  <2>2. CASE ~InQueue(t, p)
    BY <1>5, <1>9, <2>2 DEF QueueExact
  <2> QED BY <2>1, <2>2, Zenon
<1>10. QueueExact'
  <2>1. /\ \A d \in CPUs : \A k \in Levels : NoDup(q'[d][k]) /\ NoDup(bal'[d].moved[k])
        /\ \A p \in Slots : \A d \in CPUs : \A k \in Levels :
             InQueue(bal'[d].moved[k], p) =>
               \A e \in CPUs : \A m \in Levels : InQueue(bal'[e].moved[m], p) => e = d /\ m = k
    BY <1>5 DEF QueueExact
  <2> QED BY <1>8, <1>9, <2>1 DEF QueueExact
<1> QED BY <1>4, <1>5, <1>10, ZenonT(30)

\* What enqueue_proc does to a process
LEMMA EnqueuedFields ==
  ASSUME NEW r \in Procs, NEW c \in CPUs, NEW l \in Levels
  PROVE  /\ Enqueued(r, c, l) \in Procs
         /\ Enqueued(r, c, l).state = r.state /\ Enqueued(r, c, l).rq = <<c, l>>
         /\ Enqueued(r, c, l).parent = r.parent /\ Enqueued(r, c, l).np = r.np
         /\ Enqueued(r, c, l).left = r.left /\ Enqueued(r, c, l).chan = r.chan
         /\ \/ r.rq = <<c, l>> /\ Enqueued(r, c, l).timeslice = r.timeslice
            \/ Enqueued(r, c, l).timeslice >= 1
            \/ l = 3
<1> DEFINE ts == IF r.rq # <<c, l>> /\ l # 3 THEN MaxSlices[l] ELSE r.timeslice
<1>1. l \in 0..3 /\ <<c, l>> \in CPUs \X (0..3)
  BY DEF Levels
<1>2. l # 3 => MaxSlices[l] \in Nat \ {0}
  BY SchedAssumption DEF Levels
<1>3. r.timeslice \in Nat
  BY Zenon DEF Procs
<1>4. /\ ts \in Nat
      /\ \/ r.rq = <<c, l>> /\ ts = r.timeslice
         \/ ts >= 1
         \/ l = 3
  BY <1>2, <1>3
<1>5. Enqueued(r, c, l) = [r EXCEPT !.rq = <<c, l>>, !.timeslice = ts]
  BY Zenon DEF Enqueued
<1> HIDE DEF ts
<1>6. [r EXCEPT !.rq = <<c, l>>, !.timeslice = ts] \in Procs
  BY <1>1, <1>4, ZenonT(30) DEF Procs
<1>7. /\ Enqueued(r, c, l).state = r.state /\ Enqueued(r, c, l).rq = <<c, l>>
      /\ Enqueued(r, c, l).parent = r.parent /\ Enqueued(r, c, l).np = r.np
      /\ Enqueued(r, c, l).left = r.left /\ Enqueued(r, c, l).chan = r.chan
      /\ Enqueued(r, c, l).timeslice = ts
  BY <1>5, Zenon DEF Procs
<1> QED BY <1>4, <1>5, <1>6, <1>7, Zenon

\* A process made runnable and queued on level l
LEMMA RunnableFields ==
  ASSUME NEW r \in Procs, NEW c \in CPUs, NEW l \in Levels
  PROVE  LET w == Enqueued([r EXCEPT !.state = "RUNNABLE"], c, l) IN
         /\ w \in Procs /\ w.state = "RUNNABLE" /\ w.rq = <<c, l>>
         /\ w.parent = r.parent /\ w.np = r.np /\ w.left = r.left /\ w.chan = r.chan
         /\ \/ r.rq = <<c, l>> /\ w.timeslice = r.timeslice
            \/ w.timeslice >= 1
            \/ l = 3
<1> DEFINE t == [r EXCEPT !.state = "RUNNABLE"]
<1>1. /\ t \in Procs /\ t.state = "RUNNABLE" /\ t.parent = r.parent /\ t.np = r.np
      /\ t.left = r.left /\ t.chan = r.chan /\ t.rq = r.rq /\ t.timeslice = r.timeslice
  BY Zenon DEF Procs, States
<1> HIDE DEF t
<1>2. LET w == Enqueued(t, c, l) IN
         /\ w \in Procs /\ w.state = "RUNNABLE" /\ w.rq = <<c, l>>
         /\ w.parent = r.parent /\ w.np = r.np /\ w.left = r.left /\ w.chan = r.chan
         /\ \/ r.rq = <<c, l>> /\ w.timeslice = r.timeslice
            \/ w.timeslice >= 1
            \/ l = 3
  BY <1>1, EnqueuedFields, Zenon
<1> QED BY <1>2, Zenon DEF t

\* What becomes of a process that is woken or new on CPU c
LEMMA WokenFields ==
  ASSUME NEW r \in Procs, NEW c \in CPUs
  PROVE  /\ Woken(r, c) \in Procs
         /\ Woken(r, c).state = "RUNNABLE" /\ Woken(r, c).rq = <<c, 1>>
         /\ Woken(r, c).parent = r.parent /\ Woken(r, c).np = r.np
         /\ Woken(r, c).left = r.left /\ Woken(r, c).chan = r.chan
         /\ \/ r.rq = <<c, 1>> /\ Woken(r, c).timeslice = r.timeslice
            \/ Woken(r, c).timeslice >= 1
<1>1. 1 \in Levels
  BY DEF Levels
<1> QED BY <1>1, RunnableFields DEF Woken

\* A queue of one
LEMMA OneQueue ==
  ASSUME NEW S, NEW x \in S
  PROVE  /\ <<x>> \in Seq(S) /\ NoDup(<<x>>)
         /\ \A p : InQueue(<<x>>, p) <=> p = x
         /\ \A s \in Seq(S) : Append(s, x) = s \o <<x>>
BY DEF NoDup, InQueue

\* A sleeper that is in no queue was left by schedule(), or is about to be.
LEMMA SleeperGone ==
  ASSUME IInv, NEW s \in Slots, proc[s].state = "SLEEPING", ~Queued(s)
  PROVE  /\ s \notin Idles /\ ~CanRun(s) /\ ~InFlight(s)
         /\ \A d \in CPUs : curproc[d] = s => Where(d) = "pick"
<1> USE InvParts
<1>1. s \notin Idles
  BY Zenon DEF FamilyOK
<1>2. ASSUME NEW d \in CPUs, curproc[d] = s PROVE Where(d) = "pick"
  <2>1. curproc[d] # 0
    BY <1>2, Constants, Zenon
  <2>2. Where(d) \in InSchedule
    BY <1>2, <2>1, Zenon DEF RunningOK
  <2>3. Where(d) \notin {"sched", "dequeue"}
    BY <1>1, <1>2, <2>1, Zenon DEF ScheduleOK, Queued
  <2> QED BY <2>2, <2>3, Zenon DEF InSchedule
<1>3. ~CanRun(s)
  BY <1>2, Zenon DEF CanRun
<1>4. ~InFlight(s)
  BY <1>3, Zenon DEF QueueExact
<1> QED BY <1>1, <1>2, <1>3, <1>4, Zenon

\* A step that changes fields of the current process that no queue, slice or
\* family depends on
OwnFields(c) ==
  /\ proc' \in [Slots -> Procs]
  /\ \A p \in Slots \ {curproc[c]} : proc'[p] = proc[p]
  /\ LET r == proc[curproc[c]]
         s == proc'[curproc[c]]
     IN /\ s.state = r.state /\ s.parent = r.parent /\ s.np = r.np
        /\ s.rq = r.rq /\ s.timeslice = r.timeslice

\* A step on fields of its own process leaves the children being made alone.
LEMMA OwnSameNp ==
  ASSUME NEW c, OwnFields(c)
  PROVE  SameNp
BY Zenon DEF OwnFields, SameNp

\* A step on fields of the current process preserves IInv.
LEMMA FieldStepInv ==
  ASSUME IInv, NEW c \in CPUs, NEW g, At(c, g), NEW f, Moved(c, f), LocksOf(c, f),
         OwnFields(c), UNCHANGED <<q, bal, fault>>,
         g \notin InSchedule \cup {"bal_put", "tick"} \cup TmrFrames,
         f \notin InSchedule \cup {"bal_put", "tick", "wait_rq", "slp_rq"}
  PROVE  IInv'
<1>0. curproc[c] \in Slots
  BY AtWhere, Zenon
<1>1. TypeOK'
  BY Zenon DEF IInv, TypeOK, Moved, LocksOf, OwnFields
<1>2. LockDiscipline'
  BY LocksMove, Zenon DEF IInv
<1>3. Where(c) = g /\ curproc[c] # 0 /\ proc[curproc[c]].state = "RUNNING"
  BY AtWhere DEF IInv, RunningOK
<1>4. QuietProcs(c)
  BY <1>0, <1>3, Zenon DEF QuietProcs, OwnFields
<1> QED BY <1>1, <1>2, <1>3, <1>4, QuietInv, Zenon DEF TmrFrames


\* The current process gets a new stack, and processes that no CPU runs are born.
LEMMA NewStacks ==
  ASSUME TypeOK, StacksOK, RunningOK, NEW c \in CPUs, curproc[c] \in Slots,
         curproc' = curproc, kstack' \in [Slots -> Seq(Frames)],
         WellNested(kstack'[curproc[c]]),
         \A g \in Frames : OnStack(kstack'[curproc[c]], g) => Allowed(curproc[c], g)',
         \A p \in Slots \ {curproc[c]} :
           \/ kstack'[p] = kstack[p] /\ proc'[p].np = proc[p].np
           \/ kstack'[p] = Born /\ \A d \in CPUs : curproc[d] # p
  PROVE  Moved(c, Head(kstack'[curproc[c]]))
<1> DEFINE cp == curproc[c]
<1>1. /\ WellNested(Born) /\ Head(Born) \in SwitchFrames
      /\ \A f : OnStack(Born, f) => f \in {"forkret", "user"}
  <2>1. Len(Born) = 2 /\ Born[1] = "forkret" /\ Born[2] = "user" /\ Head(Born) = "forkret"
    BY DEF Born
  <2> QED BY <2>1 DEF WellNested, OnStack, SwitchFrames, Callers, InSchedule, TrapFrames
<1>2. ASSUME NEW p \in Slots \ {cp}
      PROVE  /\ WellNested(kstack'[p])
             /\ \A f \in Frames : OnStack(kstack'[p], f) => Allowed(p, f)'
             /\ (\A d \in CPUs : curproc'[d] # p) => Head(kstack'[p]) \in SwitchFrames
  <2>1. CASE kstack'[p] = kstack[p] /\ proc'[p].np = proc[p].np
    BY <2>1, Zenon DEF StacksOK, Allowed
  <2>2. CASE kstack'[p] = Born
    <3>1. \A f : OnStack(Born, f) => Allowed(p, f)'
      BY <1>1, Zenon DEF Allowed
    <3> QED BY <1>1, <2>2, <3>1, Zenon
  <2> QED BY <2>1, <2>2, Zenon
<1>3. /\ WellNested(kstack'[cp])
      /\ \A f \in Frames : OnStack(kstack'[cp], f) => Allowed(cp, f)'
      /\ \E d \in CPUs : curproc'[d] = cp
  BY Zenon
<1>4. StacksOK'
  <2> SUFFICES ASSUME NEW p \in Slots
      PROVE  /\ WellNested(kstack'[p])
             /\ \A f \in Frames : OnStack(kstack'[p], f) => Allowed(p, f)'
             /\ (\A d \in CPUs : curproc'[d] # p) => Head(kstack'[p]) \in SwitchFrames
    BY Zenon DEF StacksOK
  <2>1. CASE p = cp
    BY <1>3, <2>1, Zenon DEF Allowed
  <2>2. CASE p # cp
    BY <1>2, <2>2, Zenon
  <2> QED BY <2>1, <2>2, Zenon
<1>5. ASSUME NEW d \in CPUs \ {c} PROVE Where(d)' = Where(d)
  <2>1. CASE curproc[d] = 0
    BY <2>1, Zenon DEF Where
  <2>2. CASE curproc[d] # 0
    <3>1. curproc[d] \in Slots \ {cp}
      BY <2>2, Types, Zenon DEF RunningOK
    <3>2. kstack'[curproc[d]] = kstack[curproc[d]]
      BY <3>1, Zenon
    <3> QED BY <2>2, <3>2, Zenon DEF Where
  <2> QED BY <2>1, <2>2, Zenon
<1>6. Where(c)' = Head(kstack'[cp])
  BY Constants, Zenon DEF Where
<1> QED BY <1>4, <1>5, <1>6, Zenon DEF Moved

\* An unused slot, or a child in the making, is nobody's parent, runs nowhere
\* and is in no queue.
LEMMA NotYet ==
  ASSUME IInv, NEW x \in Slots, proc[x].state \in {"UNUSED", "EMBRYO"}
  PROVE  /\ x \notin Idles /\ x # InitProc /\ proc[x].np = 0
         /\ \A d \in CPUs : curproc[d] # x
         /\ \A p \in Slots \ (Idles \cup {InitProc}) : proc[p].state # "UNUSED" => proc[p].parent # x
         /\ ~CanRun(x) /\ ~Queued(x) /\ ~InFlight(x)
<1> USE InvParts
<1>1. x \notin Idles /\ x # InitProc
  BY Zenon DEF FamilyOK
<1>2. \A d \in CPUs : curproc[d] # x
  BY Constants, Zenon DEF RunningOK
<1>3. \A p \in Slots \ (Idles \cup {InitProc}) : proc[p].state # "UNUSED" => proc[p].parent # x
  BY Zenon DEF ParentAlive
<1>4. proc[x].np = 0
  <2> SUFFICES ASSUME proc[x].np # 0 PROVE FALSE
    BY Zenon
  <2> DEFINE y == proc[x].np
  <2>1. y \in Slots /\ proc[y].state = "EMBRYO" /\ proc[y].parent = x
    BY Types, Zenon DEF FamilyOK
  <2>2. y \notin Idles /\ y # InitProc
    BY <2>1, Zenon DEF FamilyOK
  <2> QED BY <1>3, <2>1, <2>2, Zenon
<1>5. ~CanRun(x)
  BY <1>2, Zenon DEF CanRun
<1>6. ~Queued(x) /\ ~InFlight(x)
  BY <1>5, Zenon DEF QueueExact
<1> QED BY <1>1, <1>2, <1>3, <1>4, <1>5, <1>6, Zenon

\* Slot x, which runs nowhere, is filled with a child of the current process or
\* emptied; a child in the making is known to its parent.
SlotChanged(c, x) ==
  LET cp == curproc[c] IN
  /\ x \in Slots \ (Idles \cup {InitProc, cp})
  /\ \A d \in CPUs : curproc[d] # x
  /\ proc[x].state \in {"UNUSED", "EMBRYO", "ZOMBIE"}
  /\ \A p \in Slots \ {cp} : proc[p].np = x => proc[p].state = "ZOMBIE"
  /\ \A p \in Slots \ (Idles \cup {InitProc}) : proc[p].state # "UNUSED" => proc[p].parent # x
  /\ proc' \in [Slots -> Procs]
  /\ \A p \in Slots \ {x, cp} : proc'[p] = proc[p]
  /\ proc'[x].np = 0
  /\ \/ proc'[x].state = "UNUSED" /\ proc'[x].parent = 0
     \/ proc'[x].state = "EMBRYO" /\ proc'[x].parent = cp /\ proc'[x].left = proc[x].left
  /\ proc'[x].rq = NoRq \/ (proc'[x].rq = proc[x].rq /\ proc'[x].timeslice = proc[x].timeslice)
  /\ proc'[cp].state = proc[cp].state /\ proc'[cp].parent = proc[cp].parent
  /\ proc'[cp].rq = proc[cp].rq /\ proc'[cp].timeslice = proc[cp].timeslice
  /\ proc'[cp].left = proc[cp].left /\ proc'[cp].chan = proc[cp].chan
  /\ \/ proc'[cp].np = 0
     \/ proc'[cp].np = x /\ proc'[x].state = "EMBRYO" /\ cp \notin Idles
     \/ proc'[cp].np = proc[cp].np /\ proc[cp].np # x

\* A step of fork or wait on a slot that is nobody's current process preserves IInv.
LEMMA SlotStepInv ==
  ASSUME IInv, NEW c \in CPUs, NEW g, At(c, g), NEW f, Moved(c, f), LocksOf(c, f),
         UNCHANGED <<q, bal, fault>>, NEW x, SlotChanged(c, x),
         {g, f} \subseteq {"user", "fork", "wait"}
  PROVE  IInv'
<1> USE InvParts
<1> DEFINE cp == curproc[c]
<1>1. cp \in Slots /\ cp # 0 /\ Where(c) = g /\ proc[cp].state = "RUNNING"
  BY AtWhere, Zenon DEF RunningOK, InSchedule
<1>m. /\ curproc' = curproc /\ Where(c)' = f /\ Elsewhere(c) /\ StacksOK'
      /\ kstack' \in [Slots -> Seq(Frames)]
  BY MovedElsewhere, Zenon DEF Moved
<1>x. /\ x \in Slots /\ x \notin Idles /\ x # InitProc /\ x # cp
      /\ \A d \in CPUs : curproc[d] # x
      /\ proc[x].state \in {"UNUSED", "EMBRYO", "ZOMBIE"}
      /\ \A p \in Slots \ {cp} : proc[p].np = x => proc[p].state = "ZOMBIE"
      /\ \A p \in Slots \ (Idles \cup {InitProc}) : proc[p].state # "UNUSED" => proc[p].parent # x
  BY Zenon DEF SlotChanged
<1>p. /\ proc' \in [Slots -> Procs]
      /\ \A p \in Slots \ {x, cp} : proc'[p] = proc[p]
      /\ proc'[x].np = 0
      /\ \/ proc'[x].state = "UNUSED" /\ proc'[x].parent = 0
         \/ proc'[x].state = "EMBRYO" /\ proc'[x].parent = cp /\ proc'[x].left = proc[x].left
      /\ proc'[x].rq = NoRq \/ (proc'[x].rq = proc[x].rq /\ proc'[x].timeslice = proc[x].timeslice)
      /\ proc'[cp].state = proc[cp].state /\ proc'[cp].parent = proc[cp].parent
      /\ proc'[cp].rq = proc[cp].rq /\ proc'[cp].timeslice = proc[cp].timeslice
      /\ proc'[cp].left = proc[cp].left /\ proc'[cp].chan = proc[cp].chan
  BY Zenon DEF SlotChanged
<1>n. \/ proc'[cp].np = 0
      \/ proc'[cp].np = x /\ proc'[x].state = "EMBRYO" /\ cp \notin Idles
      \/ proc'[cp].np = proc[cp].np /\ proc[cp].np # x
  BY Zenon DEF SlotChanged
<1>s. \A p \in Slots \ {x} : /\ proc'[p].state = proc[p].state /\ proc'[p].parent = proc[p].parent
                             /\ proc'[p].rq = proc[p].rq /\ proc'[p].timeslice = proc[p].timeslice
                             /\ proc'[p].left = proc[p].left /\ proc'[p].chan = proc[p].chan
  BY <1>p, Zenon
<1> HIDE DEF cp
<1>2. TypeOK' /\ LockDiscipline'
  BY <1>m, <1>p, LocksMove, ZenonT(30) DEF TypeOK, LocksOf
<1>o. OthersKept(c)
  <2>1. \A d \in CPUs : curproc[d] # 0 => curproc[d] \in Slots \ {x}
    BY <1>x, Types, Zenon
  <2> QED BY <1>s, <2>1, Zenon DEF OthersKept
<1>3. RunningOK'
  BY <1>1, <1>m, <1>s, <1>x, <1>o, RunningStays, Zenon DEF cp
<1>4. FamilyOK'
  <2>1. ASSUME NEW p \in Slots, proc'[p].np # 0, proc'[p].state # "ZOMBIE"
        PROVE  proc'[proc'[p].np].state = "EMBRYO" /\ proc'[proc'[p].np].parent = p
    <3>1. CASE p = x
      BY <1>p, <2>1, <3>1, Zenon
    <3>2. CASE p = cp /\ proc'[cp].np = x /\ proc'[x].state = "EMBRYO"
      BY <1>1, <1>p, <3>2, ZenonT(30)
    <3>3. CASE p # x /\ ~(p = cp /\ proc'[cp].np = x /\ proc'[x].state = "EMBRYO")
      <4>1. proc'[p].np = proc[p].np /\ proc[p].np # x /\ proc[p].np # 0
        BY <1>p, <1>n, <1>s, <1>x, <2>1, <3>3
      <4>2. proc[p].np \in Slots /\ proc[p].state # "ZOMBIE"
        BY <1>s, <2>1, <3>3, <4>1, Types, Zenon
      <4>3. proc[proc[p].np].state = "EMBRYO" /\ proc[proc[p].np].parent = p
        BY <4>1, <4>2, ZenonT(30) DEF FamilyOK
      <4> QED BY <1>s, <4>1, <4>2, <4>3, ZenonT(30)
    <3> QED BY <3>1, <3>2, <3>3, Zenon
  <2>2. \A p \in Slots : proc'[p].parent # p
    <3>1. x # 0
      BY <1>x, Constants, Zenon
    <3> QED BY <1>p, <1>s, <1>x, <3>1 DEF FamilyOK
  <2>3. \A p \in Idles : /\ proc'[p].state \notin {"UNUSED", "EMBRYO", "SLEEPING"}
                         /\ proc'[p].parent = 0 /\ proc'[p].np = 0
    <3> SUFFICES ASSUME NEW p \in Idles
                 PROVE  /\ proc'[p].state \notin {"UNUSED", "EMBRYO", "SLEEPING"}
                        /\ proc'[p].parent = 0 /\ proc'[p].np = 0
      BY Zenon
    <3>1. p \in Slots \ {x}
      BY <1>x, IdleSlots, Zenon
    <3> QED BY <1>p, <1>n, <1>s, <3>1 DEF FamilyOK
  <2>4. /\ proc'[InitProc].state \notin {"UNUSED", "EMBRYO", "ZOMBIE"}
        /\ proc'[InitProc].parent = 0
    BY <1>s, <1>x, Constants, ZenonT(30) DEF FamilyOK
  <2> QED BY <2>1, <2>2, <2>3, <2>4, Zenon DEF FamilyOK
<1>5. ParentAlive'
  <2> SUFFICES ASSUME NEW p \in Slots \ (Idles \cup {InitProc}), proc'[p].state # "UNUSED"
               PROVE  /\ proc'[p].parent # 0
                      /\ proc'[proc'[p].parent].state \notin {"UNUSED", "EMBRYO", "ZOMBIE"}
    BY Zenon DEF ParentAlive
  <2>1. CASE p = x
    BY <1>1, <1>p, <2>1, Zenon
  <2>2. CASE p # x
    <3>1. proc'[p].parent = proc[p].parent /\ proc[p].state # "UNUSED"
      BY <1>s, <2>2, ZenonT(30)
    <3>2. /\ proc[p].parent # 0 /\ proc[p].parent # x /\ proc[p].parent \in Slots
          /\ proc[proc[p].parent].state \notin {"UNUSED", "EMBRYO", "ZOMBIE"}
      BY <1>x, <3>1, Types, Zenon DEF ParentAlive
    <3> QED BY <1>s, <3>1, <3>2
  <2> QED BY <2>1, <2>2, Zenon
<1>6. QueueExact'
  <2>1. ASSUME NEW p \in Slots PROVE CanRun(p)' <=> CanRun(p)
    <3>1. \A d \in CPUs : (curproc'[d] = p /\ Where(d)' \in {"sched", "dequeue"}) <=>
                          (curproc[d] = p /\ Where(d) \in {"sched", "dequeue"})
      BY <1>1, <1>m, ZenonT(30) DEF Elsewhere
    <3>2. proc'[p].state \in {"RUNNABLE", "RUNNING"} <=> proc[p].state \in {"RUNNABLE", "RUNNING"}
      BY <1>p, <1>s, <1>x, Zenon
    <3> QED BY <3>1, <3>2, Zenon DEF CanRun
  <2>2. ~Queued(x)
    <3>1. ~CanRun(x)
      BY <1>x, Zenon DEF CanRun
    <3> QED BY <1>x, <3>1, Zenon DEF QueueExact
  <2> QED BY <1>s, <2>1, <2>2, QueuesStay, Zenon
<1>7. SlicesOK'
  <2>1. NoRq[2] \notin {1, 2}
    BY DEF NoRq
  <2> QED BY <1>1, <1>m, <1>p, <1>s, <2>1, SlicesStay, ZenonT(30)
<1>8. SleepOK' /\ NoLostWakeup'
  <2>1. ASSUME NEW p \in Slots
        PROVE /\ proc'[p].state = "ZOMBIE" =>
                   proc[p].state = "ZOMBIE" /\ proc'[p].parent = proc[p].parent
              /\ proc'[p].state = "SLEEPING" =>
                   proc[p].state = "SLEEPING" /\ proc'[p].chan = proc[p].chan
              /\ \/ proc'[p].left = proc[p].left
                 \/ proc'[p].state = "UNUSED" /\ \A d \in CPUs : curproc[d] # p
    <3>1. CASE p = x
      BY <1>p, <1>x, <3>1, Zenon
    <3>2. CASE p # x
      BY <1>s, <3>2, Zenon
    <3> QED BY <3>1, <3>2, Zenon
  <2> QED BY <1>1, <1>m, <2>1, SleepersStay, ZenonT(30) DEF TmrFrames
<1>9. CurrentIsHead' /\ ScheduleOK'
  <2>1. cp \notin Idles => HeadAt(c)'
    BY <1>1, <1>m, <1>p, ZenonT(30) DEF CurrentIsHead, HeadAt, InSchedule, cp
  <2>2. \A l \in Levels : bal[c].moved[l] = <<>>
    BY <1>1, Zenon DEF ScheduleOK
  <2> QED BY <1>1, <1>m, <1>o, <2>1, <2>2, OthersStay, Zenon DEF InSchedule, cp
<1> QED BY <1>2, <1>3, <1>4, <1>5, <1>6, <1>7, <1>8, <1>9, <1>m, InvWhole, ZenonT(30)

\* A system call returns to the program.
LEMMA BackToUser ==
  ASSUME TypeOK, StacksOK, NEW c \in CPUs, NEW g, At(c, g), g # "user", Callers(g) = {"user"}
  PROVE  Tail(kstack[curproc[c]]) = <<"user">>
<1> DEFINE s == kstack[curproc[c]]
<1>1. curproc[c] \in Slots /\ Head(s) = g
  BY AtWhere, Zenon
<1>2. s \in Seq(Frames) /\ WellNested(s)
  BY <1>1, Zenon DEF TypeOK, StacksOK
<1>3. Head(Tail(s)) \in Callers(Head(s)) /\ (Head(Tail(s)) = "user" => Tail(s) = <<"user">>)
  BY <1>1, <1>2, NestReturn, ZenonT(30)
<1> QED BY <1>1, <1>3, ZenonT(30)

\* The stack of a process in user mode.
LEMMA UserStack ==
  /\ <<"user">> \in Seq(Frames) /\ WellNested(<<"user">>) /\ Head(<<"user">>) = "user"
  /\ \A g : OnStack(<<"user">>, g) => g = "user"
BY DEF WellNested, OnStack, Frames, Interruptible

\* A new process stands at forkret.
LEMMA BornStack == Born \in Seq(Frames)
<1>1. "forkret" \in Frames /\ "user" \in Frames
  BY Zenon DEF Frames, SwitchFrames, Interruptible
<1> QED BY <1>1 DEF Born

-----------------------------------------------------------------------------
(* Level 3 of an idle CPU *)

\* The process at the ticks and at a demotion is not an idle one.
LEMMA TickNotIdle ==
  ASSUME IInv, NEW c \in CPUs, At(c, "tick")
  PROVE  curproc[c] \in Slots \ Idles
<1> USE InvParts
<1>1. curproc[c] \in Slots /\ Allowed(curproc[c], "tick")
  BY AtWhere, CurrentAllowed, Zenon
<1> QED BY <1>1, Zenon DEF Allowed

\* Steps that leave level 3 alone and let no other process run
LEMMA FifoStays ==
  ASSUME FifoIdle, curproc' = curproc,
         \A c \in CPUs : /\ q'[c][3] = q[c][3] \/ curproc[c] \in Slots \ Idles
                         /\ bal'[c].moved[3] = bal[c].moved[3]
  PROVE  FifoIdle'
BY Zenon DEF FifoIdle

\* The balancer of the only CPU takes from its own queues.
LEMMA FifoBalance ==
  ASSUME IInv, FifoIdle, NCPU = 1, NEW c \in CPUs, BalanceGet(c) \/ BalancePut(c)
  PROVE  FifoIdle'
<1> USE InvParts
<1> SUFFICES ASSUME curproc[c] \notin Slots \ Idles
             PROVE  q'[c][3] = <<>> /\ bal'[c].moved[3] = <<>>
  <2>1. \A d \in CPUs : d = c
    BY DEF CPUs
  <2>2. curproc' = curproc
    BY Zenon DEF BalanceGet, BalancePut
  <2> QED BY <2>1, <2>2, Zenon DEF FifoIdle
<1>0. 3 \in Levels
  BY DEF Levels
<1>1. q[c][3] = <<>> /\ bal[c].moved[3] = <<>>
  BY Zenon DEF FifoIdle
<1>2. CASE BalanceGet(c)
  <2>1. bal[c].src = c
    <3>1. bal[c].src \in CPUs
      BY Zenon DEF TypeOK
    <3> QED BY <3>1 DEF CPUs
  <2>2. /\ bal' = [bal EXCEPT ![c] =
                     [src |-> 0, moved |-> [l \in Levels |-> Taken(q[c][l])]]]
        /\ q' = [q EXCEPT ![c] = [l \in Levels |-> Kept(@[l])]]
    BY <1>2, <2>1, Zenon DEF BalanceGet
  <2>3. bal'[c].moved[3] = Taken(q[c][3]) /\ q'[c][3] = Kept(q[c][3])
    BY <1>0, <2>2, Zenon DEF TypeOK
  <2>4. Taken(<<>>) = <<>> /\ Kept(<<>>) = <<>>
    BY DEF Taken, Kept
  <2> QED BY <1>1, <2>3, <2>4, Zenon
<1>3. CASE BalancePut(c)
  <2>1. q'[c][3] = q[c][3] \o bal[c].moved[3] /\ bal'[c].moved[3] = <<>>
    BY <1>0, <1>3, Zenon DEF BalancePut, TypeOK, NoneMoved
  <2>2. <<>> \o <<>> = <<>>
    OBVIOUS
  <2> QED BY <1>1, <2>1, <2>2, Zenon
<1> QED BY <1>2, <1>3, Zenon

\* The idle process is picked when all levels are empty, and the balancer holds
\* nothing meanwhile.
LEMMA FifoPick ==
  ASSUME IInv, FifoIdle, NCPU = 1, NEW c \in CPUs, SchedulePick(c)
  PROVE  FifoIdle'
<1> USE InvParts
<1>1. At(c, "pick") /\ Where(c) = "pick" /\ UNCHANGED <<q, bal>>
  BY AtWhere, Zenon DEF SchedulePick, Panic
<1> SUFFICES ASSUME curproc'[c] \notin Slots \ Idles PROVE q[c][3] = <<>> /\ bal[c].moved[3] = <<>>
  <2>1. \A d \in CPUs : d = c
    BY DEF CPUs
  <2> QED BY <1>1, <2>1, Zenon DEF FifoIdle
<1>2. bal[c].moved[3] = <<>>
  <2>1. 3 \in Levels
    BY DEF Levels
  <2> QED BY <1>1, <2>1, Zenon DEF ScheduleOK
<1>3. CASE curproc' = curproc
  BY <1>2, <1>3, Zenon DEF FifoIdle
<1>4. CASE curproc' # curproc
  <2>1. curproc'[c] = PickNext(c)
    BY <1>4, Zenon DEF SchedulePick, Panic, TypeOK
  <2>2. ASSUME q[c][3] # <<>> PROVE PickNext(c) \in Slots \ Idles
    <3>1. PICK l \in Levels : q[c][l] # <<>> /\ PickNext(c) = Head(q[c][l])
      <4>1. 1 \in Levels /\ 2 \in Levels /\ 3 \in Levels
        BY DEF Levels
      <4> QED BY <2>2, <4>1, Zenon DEF PickNext
    <3>2. InQueue(q[c][l], PickNext(c)) /\ PickNext(c) \in Slots
      <4>1. q[c][l] \in Seq(Slots)
        BY Types, Zenon
      <4> QED BY <3>1, <4>1, HeadInQueue
    <3> QED BY <3>2, Zenon DEF QueueExact, Queued, CanRun
  <2> QED BY <1>2, <2>1, <2>2, Zenon
<1> QED BY <1>3, <1>4, Zenon

\* Steps that touch neither the queues, nor the balancer, nor who runs
LEMMA FifoUntouched ==
  ASSUME NEW c \in CPUs,
         \/ UserStep(c) \/ Timer(c) \/ Dump(c)
         \/ Forkret(c) \/ ForkFail(c) \/ ForkCpu(c) \/ ExitLock(c) \/ ZombieReturns(c)
         \/ WaitReap(c) \/ WaitNone(c) \/ WaitSleep(c) \/ WaitRq(c) \/ WaitWake(c)
         \/ SleepReturn(c) \/ SleepPtl(c) \/ SleepRq(c) \/ SleepWake(c) \/ SleepRelock(c)
         \/ ScheduleTest(c) \/ TimerPtl(c) \/ TimerRq(c) \/ TimerRelease(c) \/ TimerEnd(c)
         \/ TickRelease(c) \/ YieldRelease(c) \/ DumpLock(c) \/ DumpDone(c)
  PROVE  UNCHANGED <<q, bal, curproc>>
<1>1. CASE UserStep(c) \/ Timer(c) \/ Dump(c)
  BY <1>1, Zenon DEF UserStep, Fork, Exit, Wait, Sleep, Kill, Timer, Dump, Panic
<1>2. CASE Forkret(c) \/ ForkFail(c) \/ ForkCpu(c) \/ ExitLock(c) \/ ZombieReturns(c)
  BY <1>2, Zenon DEF Forkret, ForkFail, ForkCpu, ExitLock, ZombieReturns, Panic
<1>3. CASE WaitReap(c) \/ WaitNone(c) \/ WaitSleep(c) \/ WaitRq(c) \/ WaitWake(c)
  BY <1>3, Zenon DEF WaitReap, WaitNone, WaitSleep, WaitRq, WaitWake, Panic
<1>4. CASE SleepReturn(c) \/ SleepPtl(c) \/ SleepRq(c) \/ SleepWake(c) \/ SleepRelock(c)
  BY <1>4, Zenon DEF SleepReturn, SleepPtl, SleepRq, SleepWake, SleepRelock
<1>5. CASE ScheduleTest(c) \/ TimerPtl(c) \/ TimerRq(c) \/ TimerRelease(c) \/ TimerEnd(c)
  BY <1>5, Zenon DEF ScheduleTest, TimerPtl, TimerRq, TimerRelease, TimerEnd, Panic
<1>6. CASE TickRelease(c) \/ YieldRelease(c) \/ DumpLock(c) \/ DumpDone(c)
  BY <1>6, Zenon DEF TickRelease, YieldRelease, DumpLock, DumpDone, Panic
<1> QED BY <1>1, <1>2, <1>3, <1>4, <1>5, <1>6, Zenon

\* Every step on one CPU leaves level 3 empty while the CPU is idle.
LEMMA FifoStep ==
  ASSUME IInv, FifoIdle, NCPU = 1, NEW c \in CPUs,
         UserStep(c) \/ KernelStep(c) \/ Timer(c) \/ Dump(c)
  PROVE  FifoIdle'
<1> USE InvParts
<1>l. 1 \in Levels /\ 2 \in Levels /\ 3 \in Levels /\ 1 # 3 /\ 2 # 3
  BY DEF Levels
<1>t. q \in [CPUs -> [Levels -> Seq(Slots)]]
  BY Zenon DEF TypeOK
<1>1. CASE UNCHANGED <<q, bal, curproc>>
  BY <1>1, FifoStays, Zenon
<1>2. CASE ForkEnqueue(c) \/ ExitFinish(c) \/ TimerWake(c)
  <2>1. UNCHANGED <<bal, curproc>>
    BY <1>2, Zenon DEF ForkEnqueue, ExitFinish, TimerWake, Panic
  <2>2. q' = q \/ \E s : q' = [q EXCEPT ![c][1] = s]
    <3>1. CASE ForkEnqueue(c)
      BY <3>1, Zenon DEF ForkEnqueue, Panic
    <3>2. CASE ExitFinish(c)
      BY <3>2, Zenon DEF ExitFinish, Panic
    <3>3. CASE TimerWake(c)
      BY <3>3, Zenon DEF TimerWake, Panic
    <3> QED BY <1>2, <3>1, <3>2, <3>3, Zenon
  <2>3. ASSUME NEW d \in CPUs PROVE q'[d][3] = q[d][3]
    <3>1. CASE q' = q
      BY <3>1, Zenon
    <3>2. CASE q' # q
      <4>1. PICK s : q' = [q EXCEPT ![c][1] = s]
        BY <2>2, <3>2, Zenon
      <4>2. q'[c] = [q[c] EXCEPT ![1] = s] /\ (d # c => q'[d] = q[d])
        BY <1>t, <4>1, Zenon
      <4>3. q[c] \in [Levels -> Seq(Slots)]
        BY <1>t, Zenon
      <4>4. q'[c][3] = q[c][3]
        BY <1>l, <4>2, <4>3, Zenon
      <4> QED BY <4>2, <4>4, Zenon
    <3> QED BY <3>1, <3>2, Zenon
  <2> QED BY <2>1, <2>3, FifoStays, Zenon
<1>3. CASE RunIdle(c)
  <2>1. curproc[c] \notin Slots /\ curproc' = [curproc EXCEPT ![c] = Idle(c)] /\ UNCHANGED <<q, bal>>
    BY <1>3 DEF RunIdle, Slots
  <2> QED BY <2>1, Zenon DEF FifoIdle, TypeOK
<1>4. CASE ScheduleDequeue(c)
  <2>1. UNCHANGED <<bal, curproc>>
    BY <1>4, Zenon DEF ScheduleDequeue, Panic
  <2>2. q' = q \/ curproc[c] # Idle(c)
    BY <1>4, Zenon DEF ScheduleDequeue, Panic
  <2>3. curproc[c] \in Slots /\ (curproc[c] \in Idles => curproc[c] = Idle(c))
    BY <1>4, AtWhere, Zenon DEF ScheduleDequeue, RunningOK
  <2>4. \A d \in CPUs : d = c
    BY DEF CPUs
  <2> QED BY <2>1, <2>2, <2>3, <2>4, FifoStays, Zenon
<1>5. CASE TickDemote(c)
  <2>1. UNCHANGED <<bal, curproc>> /\ curproc[c] \in Slots \ Idles
    BY <1>5, TickNotIdle, Zenon DEF TickDemote, Panic
  <2>2. \A d \in CPUs : d = c
    BY DEF CPUs
  <2> QED BY <2>1, <2>2, FifoStays, Zenon
<1>6. CASE BalanceFind(c)
  <2>1. UNCHANGED <<q, curproc>>
    BY <1>6, Zenon DEF BalanceFind
  <2>2. bal' = bal \/ \E src : bal' = [bal EXCEPT ![c].src = src]
    BY <1>6, Zenon DEF BalanceFind
  <2>3. ASSUME NEW d \in CPUs PROVE bal'[d].moved = bal[d].moved
    <3>1. CASE bal' = bal
      BY <3>1, Zenon
    <3>2. CASE bal' # bal
      <4>1. PICK src : bal' = [bal EXCEPT ![c].src = src]
        BY <2>2, <3>2, Zenon
      <4>2. bal \in [CPUs -> [src : CPUs, moved : [Levels -> Seq(Slots)]]]
        BY Zenon DEF TypeOK
      <4>3. bal'[c] = [bal[c] EXCEPT !.src = src] /\ (d # c => bal'[d] = bal[d])
        BY <4>1, <4>2, Zenon
      <4>4. bal[c] \in [src : CPUs, moved : [Levels -> Seq(Slots)]]
        BY <4>2, Zenon
      <4>5. bal'[c].moved = bal[c].moved
        BY <4>3, <4>4, Zenon
      <4> QED BY <4>3, <4>5, Zenon
    <3> QED BY <3>1, <3>2, Zenon
  <2> QED BY <2>1, <2>3, FifoStays, Zenon
<1>7. CASE Yield(c)
  <2>1. UNCHANGED <<bal, curproc>>
    BY <1>7, Zenon DEF Yield, Panic
  <2>2. q' = q \/ q' = [q EXCEPT ![c] = Yielded(@)]
    BY <1>7, Zenon DEF Yield, Panic
  <2>3. Yielded(q[c])[3] = q[c][3]
    BY <1>l, <1>t, Zenon DEF Yielded
  <2>4. \A d \in CPUs : q'[d][3] = q[d][3]
    BY <1>t, <2>2, <2>3, Zenon
  <2> QED BY <2>1, <2>4, FifoStays, Zenon
<1> QED BY <1>1, <1>2, <1>3, <1>4, <1>5, <1>6, <1>7, FifoUntouched, FifoBalance, FifoPick, Zenon
    DEF KernelStep

-----------------------------------------------------------------------------
(* Frames that stand for a used up slice and for exit() *)

MarkFrames == {"tick", "exit", "exit_rq", "zombie"}

\* Of those frames, a step of c puts only members of S on a kernel stack, and
\* only on the stack of its current process.
Grows(c, S) ==
  \A p \in Slots : \A g \in MarkFrames :
    OnStack(kstack'[p], g) => OnStack(kstack[p], g) \/ (p = curproc[c] /\ g \in S)

\* A step that kills nobody, moves no process with its slice used up to another
\* queue and revives no process that has exited.
Tame ==
  \A p \in Slots :
    /\ proc'[p].killed = proc[p].killed \/ proc'[p].killed = 0
    /\ \/ proc'[p].rq = proc[p].rq
       \/ proc[p].state # "RUNNING" \/ InFlight(p) \/ ~OnStack(kstack'[p], "tick")
    /\ "kill" \notin Calls /\ proc[p].state = "ZOMBIE" =>
         \/ proc'[p].state = "ZOMBIE"
         \/ ~OnStack(kstack[p], "zombie") \/ kstack'[p] = Born

-----------------------------------------------------------------------------
(* Stacks *)

\* What is on a stack after a return was on it before.
LEMMA TailFrames ==
  ASSUME NEW s \in Seq(Frames), Len(s) >= 1, NEW g, OnStack(Tail(s), g)
  PROVE  OnStack(s, g)
BY StackParts DEF OnStack

\* What is on a stack after a call is the new frame or was on it before.
LEMMA ConsFrames ==
  ASSUME NEW s \in Seq(Frames), NEW f \in Frames, NEW g, OnStack(<<f>> \o s, g)
  PROVE  g = f \/ OnStack(s, g)
<1> DEFINE t == <<f>> \o s
<1>1. /\ Len(t) = Len(s) + 1 /\ t[1] = f /\ Len(s) \in Nat
      /\ \A i \in 1..Len(s) : t[i + 1] = s[i]
  BY StackCons
<1> HIDE DEF t
<1>2. PICK i \in 1..Len(t) : t[i] = g
  BY Zenon DEF OnStack, t
<1>3. CASE i = 1
  BY <1>1, <1>2, <1>3, Zenon
<1>4. CASE i # 1
  <2>1. i - 1 \in 1..Len(s) /\ t[i] = s[i - 1]
    BY <1>1, <1>2, <1>4
  <2> QED BY <1>2, <2>1, Zenon DEF OnStack
<1> QED BY <1>3, <1>4, Zenon

\* proc_tick_MLFQ is called by nobody's interrupted code: "tick" is on top.
LEMMA TickOnTop ==
  ASSUME NEW s \in Seq(Frames), WellNested(s), OnStack(s, "tick")
  PROVE  Head(s) = "tick"
<1>1. PICK i \in 1..Len(s) : s[i] = "tick"
  BY Zenon DEF OnStack
<1>2. Len(s) \in Nat /\ Len(s) >= 1 /\ Head(s) = s[1]
  BY StackParts, Zenon DEF WellNested
<1>3. CASE i # 1
  <2>1. i - 1 \in 1..(Len(s) - 1) /\ (i - 1) + 1 = i
    BY <1>2, <1>3
  <2>2. s[i] \in Callers(s[i - 1])
    BY <2>1, Zenon DEF WellNested
  <2> QED BY <1>1, <2>2, Zenon DEF Callers, SwitchFrames, Interruptible
<1> QED BY <1>1, <1>2, <1>3, Zenon

\* A new stack for the current process
LEMMA StackGrows ==
  ASSUME TypeOK, NEW c \in CPUs, curproc[c] \in Slots, NEW t, NEW f,
         kstack' = [kstack EXCEPT ![curproc[c]] = t],
         \A g : OnStack(t, g) => g = f \/ OnStack(kstack[curproc[c]], g)
  PROVE  Grows(c, {f})
<1>1. \A p \in Slots : kstack'[p] = IF p = curproc[c] THEN t ELSE kstack[p]
  BY Zenon DEF TypeOK
<1> QED BY <1>1, Zenon DEF Grows

\* The stack of a process at a frame
LEMMA AtStack ==
  ASSUME TypeOK, StacksOK, NEW c \in CPUs, NEW g, At(c, g)
  PROVE  /\ curproc[c] \in Slots /\ kstack[curproc[c]] \in Seq(Frames)
         /\ Len(kstack[curproc[c]]) >= 1
         /\ Tail(kstack[curproc[c]]) \in Seq(Frames)
         /\ OnStack(kstack[curproc[c]], g)
<1> DEFINE s == kstack[curproc[c]]
<1>1. curproc[c] \in Slots /\ s \in Seq(Frames) /\ WellNested(s) /\ Head(s) = g
  BY AtWhere, Zenon DEF TypeOK, StacksOK
<1>2. Len(s) >= 1 /\ Len(s) \in Nat
  BY <1>1 DEF WellNested
<1>3. Head(s) = s[1] /\ Tail(s) \in Seq(Frames)
  BY <1>1, <1>2, StackParts, Zenon
<1> HIDE DEF s
<1>4. OnStack(s, g)
  BY <1>1, <1>2, <1>3 DEF OnStack
<1> QED BY <1>1, <1>2, <1>3, <1>4, Zenon DEF s

\* Going on in the same function puts only the frame it goes to on the stack,
LEMMA GotoGrows ==
  ASSUME TypeOK, StacksOK, NEW c \in CPUs, NEW g, At(c, g), NEW f \in Frames, Goto(c, f)
  PROVE  Grows(c, {f})
<1>1. /\ curproc[c] \in Slots /\ kstack[curproc[c]] \in Seq(Frames)
      /\ Len(kstack[curproc[c]]) >= 1 /\ Tail(kstack[curproc[c]]) \in Seq(Frames)
  BY AtStack, Zenon
<1>2. \A x : OnStack(<<f>> \o Tail(kstack[curproc[c]]), x) =>
               x = f \/ OnStack(kstack[curproc[c]], x)
  BY <1>1, ConsFrames, TailFrames, Zenon
<1>3. kstack' = [kstack EXCEPT ![curproc[c]] = <<f>> \o Tail(kstack[curproc[c]])]
  BY Zenon DEF Goto
<1> QED BY <1>1, <1>2, <1>3, StackGrows, Zenon

\* a call only the one it calls,
LEMMA PushGrows ==
  ASSUME TypeOK, StacksOK, NEW c \in CPUs, NEW g, At(c, g), NEW f \in Frames, Push(c, f)
  PROVE  Grows(c, {f})
<1>1. curproc[c] \in Slots /\ kstack[curproc[c]] \in Seq(Frames)
  BY AtStack, Zenon
<1>2. \A x : OnStack(<<f>> \o kstack[curproc[c]], x) =>
               x = f \/ OnStack(kstack[curproc[c]], x)
  BY <1>1, ConsFrames, Zenon
<1>3. kstack' = [kstack EXCEPT ![curproc[c]] = <<f>> \o kstack[curproc[c]]]
  BY Zenon DEF Push
<1> QED BY <1>1, <1>2, <1>3, StackGrows, Zenon

\* a return at most the one that it leaves,
LEMMA ReturnGrows ==
  ASSUME TypeOK, StacksOK, NEW c \in CPUs, NEW g, At(c, g), Return(c)
  PROVE  Grows(c, {g})
<1>1. /\ curproc[c] \in Slots /\ kstack[curproc[c]] \in Seq(Frames)
      /\ Len(kstack[curproc[c]]) >= 1
  BY AtStack, Zenon
<1>2. \A x : OnStack(Tail(kstack[curproc[c]]), x) => OnStack(kstack[curproc[c]], x)
  BY <1>1, TailFrames, Zenon
<1>3. kstack' = [kstack EXCEPT ![curproc[c]] = Tail(kstack[curproc[c]])]
  BY Zenon DEF Return
<1> QED BY <1>1, <1>2, <1>3, StackGrows, Zenon

\* schedule() only the one to which it will return,
LEMMA ScheduleGrows ==
  ASSUME TypeOK, StacksOK, NEW c \in CPUs, NEW g, At(c, g), NEW f \in Frames, Schedule(c, f)
  PROVE  Grows(c, {f})
<1> DEFINE s == kstack[curproc[c]]
<1>1. /\ curproc[c] \in Slots /\ s \in Seq(Frames)
      /\ Len(s) >= 1 /\ Tail(s) \in Seq(Frames)
  BY AtStack, Zenon
<1>2. "sched" \in Frames
  BY Zenon DEF Frames
<1>3. <<f>> \o Tail(s) \in Seq(Frames)
  BY <1>1, StackCons, Zenon
<1>4. <<"sched", f>> \o Tail(s) = <<"sched">> \o (<<f>> \o Tail(s))
  BY <1>1, <1>2
<1>5. \A x : OnStack(<<"sched", f>> \o Tail(s), x) => x = "sched" \/ x = f \/ OnStack(s, x)
  BY <1>1, <1>2, <1>3, <1>4, ConsFrames, TailFrames, Zenon
<1>6. kstack' = [kstack EXCEPT ![curproc[c]] = <<"sched", f>> \o Tail(s)]
  BY Zenon DEF Schedule
<1>7. \A p \in Slots : kstack'[p] = IF p = curproc[c] THEN <<"sched", f>> \o Tail(s) ELSE kstack[p]
  BY <1>6, Zenon DEF TypeOK
<1> QED BY <1>5, <1>7, Zenon DEF Grows, MarkFrames

\* and a step that moves no stack none.
LEMMA StillGrows ==
  ASSUME NEW c, kstack' = kstack
  PROVE  Grows(c, {})
BY Zenon DEF Grows

-----------------------------------------------------------------------------
(* Keeping TickOK and ExitOK *)

\* A process whose slice is used up is running, and in no load balancer's hands.
LEMMA TickRunning ==
  ASSUME IInv, NEW p \in Slots, OnStack(kstack[p], "tick")
  PROVE  proc[p].state = "RUNNING" /\ ~InFlight(p)
<1> USE InvParts
<1>1. kstack[p] \in Seq(Frames) /\ WellNested(kstack[p])
  BY Zenon DEF TypeOK, StacksOK
<1>2. Head(kstack[p]) = "tick"
  BY <1>1, TickOnTop, Zenon
<1>3. PICK c \in CPUs : curproc[c] = p
  BY <1>2, Zenon DEF StacksOK, SwitchFrames
<1>4. p # 0 /\ Where(c) = "tick"
  BY <1>2, <1>3, Constants, Zenon DEF Where
<1>5. proc[p].state = "RUNNING"
  BY <1>3, <1>4, Zenon DEF RunningOK, InSchedule
<1>6. p \notin Idles
  <2>1. "tick" \in Frames
    BY Zenon DEF Frames
  <2> QED BY <2>1, Zenon DEF StacksOK, Allowed
<1>7. PICK l \in Levels : q[c][l] # <<>> /\ Head(q[c][l]) = p
  BY <1>3, <1>4, <1>6, ZenonT(30) DEF CurrentIsHead, InSchedule
<1>8. InQueue(q[c][l], p)
  BY <1>7, Types, HeadInQueue, Zenon
<1>9. Queued(p)
  BY <1>8, Zenon DEF Queued
<1> QED BY <1>5, <1>9, Zenon DEF QueueExact

\* A new process' stack has no mark on it.
LEMMA BornFrames ==
  ASSUME NEW g \in MarkFrames
  PROVE  ~OnStack(Born, g)
BY DEF OnStack, Born, MarkFrames

\* A tame step that starts no demotion
LEMMA TickKept ==
  ASSUME IInv, FInv, NEW c \in CPUs, NEW S, Grows(c, S), "tick" \notin S, Tame
  PROVE  TickOK'
<1> SUFFICES ASSUME NEW p \in Slots, OnStack(kstack'[p], "tick")
             PROVE  proc'[p].rq[2] \in {1, 2}
  BY Zenon DEF TickOK
<1>1. OnStack(kstack[p], "tick")
  BY Zenon DEF Grows, MarkFrames
<1> QED BY <1>1, TickRunning, Zenon DEF Tame, FInv, TickOK

\* A tame step that puts no mark on a stack
LEMMA FramesKept ==
  ASSUME IInv, FInv, NEW c \in CPUs, NEW S, Grows(c, S), Tame, fault' = fault,
         S \cap MarkFrames = {}
  PROVE  FInv'
<1>1. \A p \in Slots : \A g \in MarkFrames : OnStack(kstack'[p], g) => OnStack(kstack[p], g)
  BY Zenon DEF Grows
<1>2. TickOK'
  BY TickKept, Zenon DEF MarkFrames
<1>3. ASSUME "kill" \notin Calls PROVE ExitOK'
  <2>1. ExitOK
    BY <1>3, Zenon DEF FInv
  <2>2. ASSUME NEW p \in Slots PROVE proc'[p].killed = 0
    BY <2>1, Zenon DEF ExitOK, Tame
  <2>3. ASSUME NEW p \in Slots, OnStack(kstack'[p], "zombie")
        PROVE  proc'[p].state = "ZOMBIE"
    <3>1. OnStack(kstack[p], "zombie") /\ "zombie" \in MarkFrames
      BY <1>1, <2>3, Zenon DEF MarkFrames
    <3>2. kstack'[p] # Born
      BY <2>3, <3>1, BornFrames, Zenon
    <3> QED BY <1>3, <2>1, <3>1, <3>2, Zenon DEF ExitOK, Tame
  <2>4. ASSUME NEW p \in Idles, NEW f \in {"exit", "exit_rq", "zombie"}
        PROVE  ~OnStack(kstack'[p], f)
    BY <1>1, <2>1, IdleSlots, Zenon DEF ExitOK, MarkFrames
  <2> QED BY <2>2, <2>3, <2>4, Zenon DEF ExitOK
<1> QED BY <1>2, <1>3, Zenon DEF FInv, Found, ExitsFinal, OnlyKillPanics, NoFault

\* The machine stops for a reason that is not ruled out.
LEMMA StopsKept ==
  ASSUME FInv, NEW why, Panic(why),
         why \notin {"run queue corrupted", "Error in tick_MLFQ"},
         "kill" \notin Calls => why \notin {"init exiting", "zombie exit"},
         NCPU = 1 => why \in {"enqueue_proc no lock", "init exiting", "zombie exit"},
         NCPU = 1 => "kill" \in Calls
  PROVE  FInv'
<1>1. proc' = proc /\ kstack' = kstack /\ fault' = why
  BY Zenon DEF Panic
<1>2. TickOK'
  BY <1>1, Zenon DEF FInv, TickOK
<1>3. "kill" \notin Calls => ExitOK'
  BY <1>1, Zenon DEF FInv, ExitOK
<1> QED BY <1>1, <1>2, <1>3, Zenon DEF FInv, Found, ExitsFinal, OnlyKillPanics, NoFault

\* Steps that leave the processes alone but for fields no panic depends on
LEMMA OwnTame ==
  ASSUME TypeOK, NEW c \in CPUs, curproc[c] \in Slots,
         \A p \in Slots : p # curproc[c] => proc'[p] = proc[p],
         LET r == proc[curproc[c]] IN LET s == proc'[curproc[c]] IN
           s.killed = r.killed /\ s.rq = r.rq /\ s.state = r.state
  PROVE  Tame
BY Zenon DEF Tame

\* A step that leaves the processes alone is tame.
LEMMA SameTame ==
  ASSUME proc' = proc
  PROVE  Tame
BY Zenon DEF Tame

\* A tame step from one frame to another
LEMMA MoveKept ==
  ASSUME IInv, FInv, NEW c \in CPUs, NEW g, At(c, g), NEW f \in Frames \ MarkFrames,
         \/ Goto(c, f) \/ Push(c, f) \/ Schedule(c, f)
         \/ Return(c) /\ f = g,
         Tame, fault' = fault
  PROVE  FInv'
<1> USE InvParts
<1>1. Grows(c, {f})
  BY GotoGrows, PushGrows, ScheduleGrows, ReturnGrows, Zenon
<1>2. {f} \cap MarkFrames = {}
  BY Zenon
<1> QED BY <1>1, <1>2, FramesKept, Zenon

\* A CPU outside schedule() executes a running process.
LEMMA AtRunning ==
  ASSUME IInv, NEW c \in CPUs, NEW g, At(c, g), g \notin InSchedule
  PROVE  curproc[c] \in Slots /\ proc[curproc[c]].state = "RUNNING"
<1> USE InvParts
<1> QED BY AtWhere DEF RunningOK

-----------------------------------------------------------------------------
(* The steps *)

\* Steps that change no process
LEMMA SameSteps ==
  ASSUME IInv, FInv, NEW c \in CPUs,
         \/ Forkret(c) \/ Wait(c) \/ WaitNone(c) \/ WaitSleep(c) \/ SleepPtl(c)
         \/ SleepRelock(c) \/ ScheduleTest(c) \/ TimerPtl(c) \/ TimerRq(c)
         \/ TimerRelease(c) \/ BalanceFind(c) \/ BalanceGet(c) \/ YieldRelease(c)
         \/ Dump(c) \/ DumpLock(c) \/ DumpDone(c)
  PROVE  FInv'
<1>0. proc' = proc /\ fault' = fault
  BY Zenon DEF Forkret, Wait, WaitNone, WaitSleep, SleepPtl, SleepRelock, ScheduleTest,
         TimerPtl, TimerRq, TimerRelease, BalanceFind, BalanceGet, YieldRelease,
         Dump, DumpLock, DumpDone
<1>t. Tame
  BY <1>0, SameTame, Zenon
<1>f. {"wait", "wait_rq", "slp_rq", "slp", "pick", "dequeue", "tmr_rq", "tmr_wake",
       "tmr_end", "yield", "bal_get", "bal_put", "dump", "forkret", "yield_rel"}
        \subseteq Frames \ MarkFrames
  BY Zenon DEF Frames, MarkFrames, SwitchFrames
<1>1. CASE Forkret(c)
  BY <1>0, <1>t, <1>f, <1>1, MoveKept, Zenon DEF Forkret
<1>2. CASE Wait(c)
  BY <1>0, <1>t, <1>f, <1>2, MoveKept, Zenon DEF Wait, Calling
<1>3. CASE WaitNone(c)
  BY <1>0, <1>t, <1>f, <1>3, MoveKept, Zenon DEF WaitNone
<1>4. CASE WaitSleep(c)
  BY <1>0, <1>t, <1>f, <1>4, MoveKept, Zenon DEF WaitSleep
<1>5. CASE SleepPtl(c)
  BY <1>0, <1>t, <1>f, <1>5, MoveKept, Zenon DEF SleepPtl
<1>6. CASE SleepRelock(c)
  BY <1>0, <1>t, <1>f, <1>6, MoveKept, Zenon DEF SleepRelock
<1>7. CASE ScheduleTest(c)
  BY <1>0, <1>t, <1>f, <1>7, MoveKept, Zenon DEF ScheduleTest
<1>8. CASE TimerPtl(c)
  BY <1>0, <1>t, <1>f, <1>8, MoveKept, Zenon DEF TimerPtl
<1>9. CASE TimerRq(c)
  BY <1>0, <1>t, <1>f, <1>9, MoveKept, Zenon DEF TimerRq
<1>10. CASE TimerRelease(c)
  BY <1>0, <1>t, <1>f, <1>10, MoveKept, Zenon DEF TimerRelease
<1>11. CASE BalanceFind(c)
  BY <1>0, <1>t, <1>f, <1>11, MoveKept, Zenon DEF BalanceFind
<1>12. CASE BalanceGet(c)
  BY <1>0, <1>t, <1>f, <1>12, MoveKept, Zenon DEF BalanceGet
<1>13. CASE YieldRelease(c)
  BY <1>0, <1>t, <1>f, <1>13, MoveKept, Zenon DEF YieldRelease
<1>14. CASE Dump(c)
  BY <1>0, <1>t, <1>f, <1>14, MoveKept, Zenon DEF Dump
<1>15. CASE DumpLock(c)
  <2>1. Grows(c, {})
    BY <1>15, StillGrows, Zenon DEF DumpLock
  <2>2. {} \cap MarkFrames = {}
    BY Zenon
  <2> QED BY <1>0, <1>t, <2>1, <2>2, FramesKept, Zenon
<1>16. CASE DumpDone(c)
  BY <1>0, <1>t, <1>f, <1>16, MoveKept, Zenon DEF DumpDone
<1> QED BY <1>1, <1>2, <1>3, <1>4, <1>5, <1>6, <1>7, <1>8, <1>9, <1>10, <1>11, <1>12,
           <1>13, <1>14, <1>15, <1>16, Zenon

\* Steps that change fields of the current process, or let it wait
LEMMA OwnSteps ==
  ASSUME IInv, FInv, NEW c \in CPUs,
         \/ ForkCpu(c) \/ WaitRq(c) \/ WaitWake(c) \/ Sleep(c) \/ SleepReturn(c)
         \/ SleepRq(c) \/ SleepWake(c)
  PROVE  FInv'
<1> USE InvParts
<1> DEFINE cp == curproc[c]
<1>f. {"fork_rq", "wait_wake", "wait", "slp", "slp_wake", "slp_relk"}
        \subseteq Frames \ MarkFrames
  BY Zenon DEF Frames, MarkFrames, SwitchFrames, Interruptible
<1>1. PICK g \in {"fork", "wait_rq", "wait_wake", "user", "slp", "slp_rq", "slp_wake"} :
        At(c, g)
  BY Zenon DEF ForkCpu, WaitRq, WaitWake, Sleep, Calling, SleepReturn, SleepRq, SleepWake
<1>2. cp \in Slots /\ proc[cp].state = "RUNNING" /\ proc \in [Slots -> Procs]
  BY <1>1, AtRunning, Zenon DEF InSchedule, TypeOK
<1>3. fault' = fault
  BY Zenon DEF ForkCpu, WaitRq, WaitWake, Sleep, SleepReturn, SleepRq, SleepWake
<1>4. \A p \in Slots : p # cp => proc'[p] = proc[p]
  BY <1>2, Zenon DEF ForkCpu, WaitRq, WaitWake, Sleep, SleepReturn, SleepRq, SleepWake
<1>5. proc'[cp].killed = proc[cp].killed /\ proc'[cp].rq = proc[cp].rq
  <2>0. proc[cp] \in Procs
    BY <1>2, Zenon
  <2>1. CASE ForkCpu(c)
    BY <1>2, <2>0, <2>1, Zenon DEF ForkCpu, Procs
  <2>2. CASE WaitRq(c)
    BY <1>2, <2>0, <2>2, Zenon DEF WaitRq, Procs
  <2>3. CASE WaitWake(c)
    BY <1>2, <2>0, <2>3, Zenon DEF WaitWake, Procs
  <2>4. CASE Sleep(c)
    BY <1>2, <2>0, <2>4 DEF Sleep, Procs
  <2>5. CASE SleepReturn(c)
    BY <1>2, <2>0, <2>5, Zenon DEF SleepReturn, Procs
  <2>6. CASE SleepRq(c)
    BY <1>2, <2>0, <2>6, Zenon DEF SleepRq, Procs
  <2>7. CASE SleepWake(c)
    BY <1>2, <2>0, <2>7, Zenon DEF SleepWake, Procs
  <2> QED BY <2>1, <2>2, <2>3, <2>4, <2>5, <2>6, <2>7, Zenon
<1>t. Tame
  BY <1>2, <1>4, <1>5, Zenon DEF Tame
<1>6. CASE ForkCpu(c)
  BY <1>3, <1>t, <1>f, <1>6, MoveKept, Zenon DEF ForkCpu
<1>7. CASE WaitRq(c)
  BY <1>3, <1>t, <1>f, <1>7, MoveKept, Zenon DEF WaitRq
<1>8. CASE WaitWake(c)
  BY <1>3, <1>t, <1>f, <1>8, MoveKept, Zenon DEF WaitWake
<1>9. CASE Sleep(c)
  BY <1>3, <1>t, <1>f, <1>9, MoveKept, Zenon DEF Sleep, Calling
<1>10. CASE SleepReturn(c)
  BY <1>3, <1>t, <1>f, <1>10, MoveKept, Zenon DEF SleepReturn
<1>11. CASE SleepRq(c)
  BY <1>3, <1>t, <1>f, <1>11, MoveKept, Zenon DEF SleepRq
<1>12. CASE SleepWake(c)
  BY <1>3, <1>t, <1>f, <1>12, MoveKept, Zenon DEF SleepWake
<1> QED BY <1>6, <1>7, <1>8, <1>9, <1>10, <1>11, <1>12, Zenon

\* yield(): on one CPU, there is nothing on level 3 to turn.
LEMMA YieldKept ==
  ASSUME IInv, FInv, NCPU = 1 => FifoIdle, NEW c \in CPUs, Yield(c)
  PROVE  FInv'
<1> USE InvParts
<1> DEFINE cp == curproc[c]
<1>1. At(c, "yield") /\ cp \in Slots /\ proc[cp].state = "RUNNING"
  BY AtRunning, Zenon DEF Yield, InSchedule
<1>2. CASE FifoTurns(q[c])
  <2>1. Panic("run queue made a ring")
    BY <1>2, Zenon DEF Yield
  <2>2. q[c][3] # <<>>
    BY <1>2 DEF FifoTurns
  <2>3. cp \in Idles
    BY <1>1, CurrentAllowed, Zenon DEF Allowed
  <2>4. NCPU # 1
    BY <2>2, <2>3, Zenon DEF FifoIdle
  <2> QED BY <2>1, <2>4, StopsKept, Zenon
<1>3. CASE ~FifoTurns(q[c])
  <2>1. /\ proc' = [proc EXCEPT ![cp].state = "RUNNABLE"]
        /\ Schedule(c, "yield_rel") /\ fault' = fault
    BY <1>3, Zenon DEF Yield
  <2>2. proc \in [Slots -> Procs] /\ proc[cp] \in Procs
    BY <1>1, Zenon DEF TypeOK
  <2>3. /\ \A p \in Slots : p # cp => proc'[p] = proc[p]
        /\ proc'[cp].killed = proc[cp].killed /\ proc'[cp].rq = proc[cp].rq
    BY <1>1, <2>1, <2>2, Zenon DEF Procs
  <2>4. Tame
    BY <1>1, <2>3, Zenon DEF Tame
  <2>5. "yield_rel" \in Frames \ MarkFrames
    BY Zenon DEF Frames, MarkFrames, SwitchFrames
  <2> QED BY <1>1, <2>1, <2>4, <2>5, MoveKept, Zenon
<1> QED BY <1>2, <1>3, Zenon
=============================================================================
