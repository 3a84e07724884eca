---------------------------- MODULE FilesTables ----------------------------
(***************************************************************************)
(* Proofs about Files, first part: the reference counts, what processes    *)
(* have in hand, and the bytes in the ring of a pipe (AInv).               *)
(***************************************************************************)
EXTENDS Files, FiniteSetTheorems, TLAPS

\* Process p has a reference to file f that is in no descriptor.
Holds(p, f) ==
  \/ pc[p] \in {"pipealloc1", "pipealloc2", "undo1"} /\ cur[p].k = f
  \/ pc[p] \in {"pipealloc2", "undo1"} /\ cur[p].n = f
  \/ Pending(p, "undo2") /\ cur[p].n = f

\* A reference in hand is the file's only one; the others are descriptors.
RefOK(f) ==
  /\ (\A p \in Procs : ~Holds(p, f)) => file[f].ref = Cardinality(Descriptors(f))
  /\ \A p \in Procs : Holds(p, f) => /\ file[f].ref = 1 /\ Descriptors(f) = {}
                                     /\ \A r \in Procs : Holds(r, f) => r = p
  /\ (file[f].ref = 0) <=> (file[f].type = "CLOSED")
  /\ file[f].type = "NONE" => \E p \in Procs : Holds(p, f)
  /\ file[f].type = "PIPE" => file[f].pipe \in Pipes

RefsOK == \A f \in FileIds : RefOK(f)

\* What process p has in hand, and that a free process has no descriptors.
HandOK(p) ==
  /\ pc[p] = "unused" => \A fd \in Fds : ofile[p][fd] = 0
  /\ pc[p] = "pipealloc1" => cur[p].k \in FileIds /\ file[cur[p].k].type = "NONE"
  /\ pc[p] \in {"pipealloc2", "undo1"} =>
       /\ cur[p].k \in FileIds /\ cur[p].n \in FileIds /\ cur[p].k # cur[p].n
       /\ pc[p] = "pipealloc2" => file[cur[p].k].type = "NONE" /\ file[cur[p].n].type = "NONE"
       /\ pc[p] = "undo1" => file[cur[p].k].type = "PIPE" /\ file[cur[p].n].type = "PIPE"
  /\ Pending(p, "undo2") => cur[p].n \in FileIds /\ file[cur[p].n].type = "PIPE"
  /\ pc[p] \in {"pipeclose", "closetest", "closefree", "piperead", "pipewrite",
                "readsleep", "writesleep"} => cur[p].k \in Pipes

\* The bytes between readp and writep of pipe q
Ordered(q) ==
  /\ Count(q) <= PIPESIZE
  /\ \A j \in 0..(Count(q) - 1) :
       LET at == (q.readp + j) % Wrap IN q.data[at % PIPESIZE] = at

AInv == TypeOK /\ RefsOK /\ (\A p \in Procs : HandOK(p)) /\ \A k \in Pipes : Ordered(pipe[k])

-----------------------------------------------------------------------------
(* Counting descriptors *)

\* The sizes of the tables.
LEMMA Sizes ==
  /\ NPROC \in Nat \ {0} /\ NFILE \in Nat \ {0} /\ NOFILE \in Nat \ {0}
  /\ NPIPE \in Nat \ {0} /\ PIPESIZE \in Nat \ {0} /\ Wrap \in Nat /\ Wrap >= 2 * PIPESIZE
  /\ \E k \in Nat : Wrap = k * PIPESIZE
  /\ \A n \in Writes \cup Reads : n \in 0..(Wrap - 1)
<1>1. PICK k \in 2..Wrap : Wrap = k * PIPESIZE
  BY FilesAssumption, Zenon
<1>2. PIPESIZE \in Nat \ {0} /\ Wrap \in Nat
  BY FilesAssumption, Zenon
<1>3. k \in Nat /\ k >= 2
  BY <1>1, <1>2
<1>4. k * PIPESIZE >= 2 * PIPESIZE
  BY <1>2, <1>3
<1> QED BY <1>1, <1>2, <1>3, <1>4, FilesAssumption, Zenon

\* A file's descriptors are finitely many.
LEMMA DescFinite ==
  ASSUME NEW f
  PROVE  /\ IsFiniteSet(Descriptors(f)) /\ Cardinality(Descriptors(f)) \in Nat
         /\ Cardinality(Descriptors(f)) <= NPROC * NOFILE
<1>1. IsFiniteSet(Procs) /\ Cardinality(Procs) = NPROC
  BY Sizes, FS_Interval DEF Procs
<1>2. IsFiniteSet(Fds) /\ Cardinality(Fds) = NOFILE
  BY Sizes, FS_Interval DEF Fds
<1>3. IsFiniteSet(Procs \X Fds) /\ Cardinality(Procs \X Fds) = NPROC * NOFILE
  BY <1>1, <1>2, FS_Product, Zenon
<1>4. Descriptors(f) \in SUBSET (Procs \X Fds)
  BY Zenon DEF Descriptors
<1> QED BY <1>3, <1>4, FS_Subset, FS_CardinalityType, Zenon

\* A file has no references in descriptors iff no descriptor names it.
LEMMA NoDesc ==
  ASSUME NEW f
  PROVE  /\ (Descriptors(f) = {}) <=> (\A p \in Procs : \A fd \in Fds : ofile[p][fd] # f)
         /\ (Descriptors(f) = {}) <=> (Cardinality(Descriptors(f)) = 0)
<1>1. \A p \in Procs, fd \in Fds : ofile[p][fd] = f => <<p, fd>> \in Descriptors(f)
  BY Zenon DEF Descriptors
<1>2. \A d \in Descriptors(f) : d[1] \in Procs /\ d[2] \in Fds /\ ofile[d[1]][d[2]] = f
  BY Zenon DEF Descriptors
<1> QED BY <1>1, <1>2, DescFinite, FS_EmptySet, Zenon

\* The same of the state after a step.
LEMMA NoDescNext ==
  ASSUME NEW f, Cardinality(Descriptors(f)') = 0
  PROVE  \A p \in Procs : \A fd \in Fds : ofile'[p][fd] # f
<1>1. IsFiniteSet(Procs \X Fds)
  <2>1. IsFiniteSet(Procs) /\ IsFiniteSet(Fds)
    BY Sizes, FS_Interval DEF Procs, Fds
  <2> QED BY <2>1, FS_Product, Zenon
<1>2. Descriptors(f)' \in SUBSET (Procs \X Fds)
  BY Zenon DEF Descriptors
<1>3. Descriptors(f)' = {}
  BY <1>1, <1>2, FS_Subset, FS_EmptySet, Zenon
<1>4. \A p \in Procs, fd \in Fds : ofile'[p][fd] = f => <<p, fd>> \in Descriptors(f)'
  BY Zenon DEF Descriptors
<1> QED BY <1>3, <1>4, Zenon

\* Descriptors that name f after a step are those that did before.
LEMMA DescSame ==
  ASSUME NEW f, \A p \in Procs : \A fd \in Fds : ofile'[p][fd] = f <=> ofile[p][fd] = f
  PROVE  Descriptors(f)' = Descriptors(f)
BY Zenon DEF Descriptors

\* One more.
LEMMA DescAdd ==
  ASSUME NEW f, NEW p \in Procs, NEW fd \in Fds, ofile[p][fd] # f,
         \A r \in Procs : \A e \in Fds :
           ofile'[r][e] = f <=> ofile[r][e] = f \/ (r = p /\ e = fd)
  PROVE  Cardinality(Descriptors(f)') = Cardinality(Descriptors(f)) + 1
<1>1. Descriptors(f)' = Descriptors(f) \cup {<<p, fd>>}
  BY DEF Descriptors
<1>2. <<p, fd>> \notin Descriptors(f)
  BY Zenon DEF Descriptors
<1> QED BY <1>1, <1>2, DescFinite, FS_AddElement, Zenon

\* One fewer.
LEMMA DescDrop ==
  ASSUME NEW f, NEW p \in Procs, NEW fd \in Fds, ofile[p][fd] = f,
         \A r \in Procs : \A e \in Fds :
           ofile'[r][e] = f <=> ofile[r][e] = f /\ ~(r = p /\ e = fd)
  PROVE  /\ Cardinality(Descriptors(f)') = Cardinality(Descriptors(f)) - 1
         /\ Cardinality(Descriptors(f)) >= 1
<1>1. Descriptors(f)' = Descriptors(f) \ {<<p, fd>>}
  BY DEF Descriptors
<1>2. <<p, fd>> \in Descriptors(f)
  BY Zenon DEF Descriptors
<1>3. Cardinality(Descriptors(f) \ {<<p, fd>>}) = Cardinality(Descriptors(f)) - 1
  BY <1>2, DescFinite, FS_RemoveElement, Zenon
<1>4. Cardinality(Descriptors(f)) # 0 /\ Cardinality(Descriptors(f)) \in Nat
  BY <1>2, DescFinite, NoDesc, Zenon
<1> QED BY <1>1, <1>3, <1>4

\* fork: as many more as the parent has.
LEMMA DescCopy ==
  ASSUME NEW f, NEW p \in Procs, NEW c \in Procs, \A e \in Fds : ofile[c][e] # f,
         \A r \in Procs : \A e \in Fds :
           ofile'[r][e] = f <=> ofile[r][e] = f \/ (r = c /\ ofile[p][e] = f)
  PROVE  Cardinality(Descriptors(f)')
           = Cardinality(Descriptors(f)) + Cardinality({fd \in Fds : ofile[p][fd] = f})
<1> DEFINE S == {fd \in Fds : ofile[p][fd] = f}
<1>1. IsFiniteSet(Fds)
  BY Sizes, FS_Interval DEF Fds
<1>2. IsFiniteSet(S) /\ Cardinality(S) \in Nat
  BY <1>1, FS_Subset, FS_CardinalityType, Zenon
<1>3. IsFiniteSet({c} \X S) /\ Cardinality({c} \X S) = Cardinality(S)
  <2>1. IsFiniteSet({c}) /\ Cardinality({c}) = 1
    BY FS_Singleton, Zenon
  <2>2. IsFiniteSet({c} \X S) /\ Cardinality({c} \X S) = 1 * Cardinality(S)
    BY <1>2, <2>1, FS_Product
  <2> QED BY <1>2, <2>2
<1>4. Descriptors(f)' = Descriptors(f) \cup ({c} \X S)
  BY DEF Descriptors
<1>5. Descriptors(f) \cap ({c} \X S) = {}
  BY DEF Descriptors
<1>6. Cardinality(Descriptors(f)') = Cardinality(Descriptors(f)) + Cardinality({c} \X S) - 0
  BY <1>3, <1>4, <1>5, DescFinite, FS_Union, FS_EmptySet
<1> QED BY <1>2, <1>3, <1>6, DescFinite

-----------------------------------------------------------------------------
(* References *)

\* A free entry of the table has no references.
LEMMA FreeFile ==
  ASSUME RefsOK, NEW f \in FileIds, file[f].type = "CLOSED"
  PROVE  /\ file[f].ref = 0 /\ Cardinality(Descriptors(f)) = 0
         /\ \A p \in Procs : ~Holds(p, f)
         /\ \A p \in Procs : \A fd \in Fds : ofile[p][fd] # f
<1>1. file[f].ref = 0
  BY Zenon DEF RefsOK, RefOK
<1>2. \A p \in Procs : ~Holds(p, f)
  BY <1>1 DEF RefsOK, RefOK
<1>3. Cardinality(Descriptors(f)) = 0
  BY <1>1, <1>2, Zenon DEF RefsOK, RefOK
<1> QED BY <1>1, <1>2, <1>3, NoDesc, Zenon

\* A descriptor names an open file, which nobody holds otherwise.
LEMMA OpenFile ==
  ASSUME TypeOK, RefsOK, NEW p \in Procs, NEW fd \in Fds, NEW f, ofile[p][fd] = f, f # 0
  PROVE  /\ f \in FileIds /\ file[f].type \in {"PIPE", "INODE"}
         /\ file[f].ref = Cardinality(Descriptors(f)) /\ file[f].ref >= 1
         /\ \A r \in Procs : ~Holds(r, f)
<1>1. f \in FileIds
  BY Sizes DEF TypeOK, FileIds
<1>2. \A r \in Procs : ~Holds(r, f)
  BY <1>1, NoDesc, Zenon DEF RefsOK, RefOK
<1>3. file[f].ref = Cardinality(Descriptors(f))
  BY <1>1, <1>2, Zenon DEF RefsOK, RefOK
<1>4. Cardinality(Descriptors(f)) # 0 /\ Cardinality(Descriptors(f)) \in Nat
  BY NoDesc, DescFinite, Zenon
<1>5. file[f].type \in {"PIPE", "INODE"}
  BY <1>1, <1>2, <1>3, <1>4, Zenon DEF RefsOK, RefOK, TypeOK
<1> QED BY <1>1, <1>2, <1>3, <1>4, <1>5

\* A reference in hand is to an open file, and no descriptor names that.
LEMMA HeldFile ==
  ASSUME RefsOK, NEW p \in Procs, NEW f \in FileIds, Holds(p, f)
  PROVE  /\ file[f].ref = 1 /\ file[f].type # "CLOSED"
         /\ \A r \in Procs : Holds(r, f) => r = p
         /\ \A r \in Procs : \A fd \in Fds : ofile[r][fd] # f
<1>1. file[f].ref = 1 /\ Descriptors(f) = {} /\ \A r \in Procs : Holds(r, f) => r = p
  BY Zenon DEF RefsOK, RefOK
<1>2. file[f].type # "CLOSED"
  BY <1>1 DEF RefsOK, RefOK
<1> QED BY <1>1, <1>2, NoDesc, Zenon

FileRec == [type : {"CLOSED", "NONE", "PIPE", "INODE"}, ref : Nat,
            readable : {0, 1}, writable : {0, 1}, pipe : 0..NPIPE]

\* Counts are bounded by the number of descriptors there are.
LEMMA RefBound ==
  file \in [FileIds -> FileRec] /\ RefsOK =>
    file \in [FileIds -> [type : {"CLOSED", "NONE", "PIPE", "INODE"}, ref : 0..(NPROC * NOFILE),
                          readable : {0, 1}, writable : {0, 1}, pipe : 0..NPIPE]]
<1> SUFFICES ASSUME file \in [FileIds -> FileRec], RefsOK, NEW f \in FileIds
             PROVE  file[f].ref \in 0..(NPROC * NOFILE)
  BY Zenon DEF FileRec
<1>1. NPROC * NOFILE \in Nat /\ NPROC * NOFILE >= 1
  BY Sizes
<1>2. file[f].ref \in Nat
  BY Zenon DEF FileRec
<1>3. CASE \E p \in Procs : Holds(p, f)
  BY <1>1, <1>2, <1>3 DEF RefsOK, RefOK
<1>4. CASE \A p \in Procs : ~Holds(p, f)
  BY <1>1, <1>2, <1>4, DescFinite DEF RefsOK, RefOK
<1> QED BY <1>3, <1>4, Zenon

\* Steps that leave descriptors, files and what is in hand alone.
LEMMA QuietRefs ==
  ASSUME RefsOK, UNCHANGED <<ofile, file>>,
         \A p \in Procs, f \in FileIds : Holds(p, f)' <=> Holds(p, f)
  PROVE  RefsOK'
BY DEF RefsOK, RefOK, Descriptors

\* wakeup moves a sleeper back to its test.
Woken(r) == /\ cur'[r] = cur[r]
            /\ \/ pc'[r] = pc[r]
               \/ pc[r] = "readsleep" /\ pc'[r] = "piperead"
               \/ pc[r] = "writesleep" /\ pc'[r] = "pipewrite"

\* A process that is woken has in hand what it had.
LEMMA WokenHand ==
  ASSUME NEW r \in Procs, Woken(r)
  PROVE  /\ \A f \in FileIds : Holds(r, f)' <=> Holds(r, f)
         /\ HandOK(r) /\ UNCHANGED <<ofile, file>> => HandOK(r)'
<1>1. \A f \in FileIds : Holds(r, f)' <=> Holds(r, f)
  BY Zenon DEF Woken, Holds, Pending
<1>2. HandOK(r) /\ UNCHANGED <<ofile, file>> => HandOK(r)'
  <2> SUFFICES ASSUME HandOK(r), UNCHANGED <<ofile, file>>
               PROVE  HandOK(r)'
    BY Zenon
  <2>1. CASE pc'[r] = pc[r]
    <3>1. cur'[r] = cur[r]
      BY Zenon DEF Woken
    <3>2. Pending(r, "undo2")' <=> Pending(r, "undo2")
      BY <2>1, <3>1, Zenon DEF Pending
    <3> QED BY <2>1, <3>1, <3>2 DEF HandOK
  <2>2. CASE pc'[r] # pc[r]
    BY <2>2, Zenon DEF Woken, HandOK, Pending
  <2> QED BY <2>1, <2>2, Zenon
<1> QED BY <1>1, <1>2, Zenon

-----------------------------------------------------------------------------
(* Indices of the ring *)

\* Division with remainder.
LEMMA ModDiv ==
  ASSUME NEW a \in Int, NEW b \in Nat \ {0}
  PROVE  /\ a % b \in 0..(b - 1)
         /\ a \div b \in Int
         /\ a = (a \div b) * b + (a % b)
<1>1. a % b \in 0..(b - 1)
  OBVIOUS
<1>2. a \div b \in Int
  OBVIOUS
<1>3. a = b * (a \div b) + (a % b)
  OBVIOUS
<1>4. b * (a \div b) = (a \div b) * b
  BY <1>2
<1> QED BY <1>1, <1>2, <1>3, <1>4, Zenon

\* The remainder is the only one in its range.
LEMMA ModUnique ==
  ASSUME NEW a \in Int, NEW b \in Nat \ {0}, NEW q \in Int, NEW r \in 0..(b - 1), a = q * b + r
  PROVE  a % b = r
<1> DEFINE u == a \div b
           v == a % b
<1>1. u \in Int /\ v \in 0..(b - 1) /\ a = u * b + v
  BY ModDiv, Zenon
<1> HIDE DEF u, v
<1>2. (q - u) * b = v - r
  BY <1>1
<1>3. CASE q - u >= 1
  <2>1. (q - u) * b >= b
    BY <1>1, <1>3
  <2> QED BY <1>1, <1>2, <2>1
<1>4. CASE q - u <= -1
  <2>1. (q - u) * b <= -b
    BY <1>1, <1>4
  <2> QED BY <1>1, <1>2, <2>1
<1>5. CASE q = u
  BY <1>1, <1>5 DEF v
<1> QED BY <1>1, <1>3, <1>4, <1>5

\* Multiples of the divisor do not change it.
LEMMA ModPlus ==
  ASSUME NEW a \in Int, NEW b \in Nat \ {0}, NEW q \in Int
  PROVE  (a + q * b) % b = a % b
<1>1. a % b \in 0..(b - 1) /\ a \div b \in Int /\ a = (a \div b) * b + (a % b)
  BY ModDiv, Zenon
<1>2. q * b \in Int /\ a + q * b \in Int /\ q + (a \div b) \in Int
  BY <1>1
<1>3. a + q * b = (q + (a \div b)) * b + (a % b)
  <2> DEFINE u == a \div b
             m == a % b
  <2>1. u \in Int /\ m \in Int /\ a = u * b + m
    BY <1>1
  <2> HIDE DEF u, m
  <2>2. (q + u) * b = q * b + u * b
    BY <2>1
  <2>3. a + q * b = (q + u) * b + m
    BY <2>1, <2>2
  <2> QED BY <2>3, Zenon DEF u, m
<1> QED BY <1>1, <1>2, <1>3, ModUnique, Zenon

\* Numbers with the same remainder that are closer than the divisor are equal.
LEMMA ModEqual ==
  ASSUME NEW x \in Int, NEW y \in Int, NEW b \in Nat \ {0}, x % b = y % b, 0 <= x - y, x - y < b
  PROVE  x = y
<1> DEFINE u == x \div b
           v == y \div b
           m == x % b
<1>1. u \in Int /\ v \in Int /\ m \in 0..(b-1) /\ x = u * b + m /\ y = v * b + m
  BY ModDiv, Zenon
<1> HIDE DEF u, v, m
<1>2. x - y = (u - v) * b
  BY <1>1
<1>3. CASE u - v >= 1
  <2>1. (u - v) * b >= b
    BY <1>1, <1>3
  <2> QED BY <1>2, <2>1
<1>4. CASE u - v <= -1
  <2>1. (u - v) * b <= -b
    BY <1>1, <1>4
  <2> QED BY <1>2, <2>1
<1>5. CASE u = v
  BY <1>1, <1>5, Zenon
<1> QED BY <1>1, <1>3, <1>4, <1>5

\* Indices may be reduced before they are added.
LEMMA ModSame ==
  ASSUME NEW a \in Int, NEW d \in Int, NEW b \in Nat \ {0}
  PROVE  ((a % b) + d) % b = (a + d) % b
<1> DEFINE u == a \div b
           m == a % b
<1>1. m \in 0..(b - 1) /\ u \in Int /\ a = u * b + m
  BY ModDiv, Zenon
<1> HIDE DEF m, u
<1>2. m + d \in Int /\ a + d = (m + d) + u * b
  BY <1>1
<1>3. ((m + d) + u * b) % b = (m + d) % b
  BY <1>1, <1>2, ModPlus, Zenon
<1> QED BY <1>2, <1>3, Zenon DEF m

\* An index reduced modulo Wrap finds the same place in the ring: PIPESIZE
\* divides Wrap.
LEMMA ModRing ==
  ASSUME NEW a \in Int, NEW d \in Int
  PROVE  /\ ((a % Wrap) + d) % PIPESIZE = (a + d) % PIPESIZE
         /\ ((a % Wrap) + d) % Wrap = (a + d) % Wrap
         /\ a % Wrap \in 0..(Wrap - 1) /\ a % PIPESIZE \in 0..(PIPESIZE - 1)
<1>1. Wrap \in Nat \ {0} /\ PIPESIZE \in Nat \ {0}
  BY Sizes
<1>2. /\ ((a % Wrap) + d) % Wrap = (a + d) % Wrap
      /\ a % Wrap \in 0..(Wrap - 1) /\ a % PIPESIZE \in 0..(PIPESIZE - 1)
  <2>1. ((a % Wrap) + d) % Wrap = (a + d) % Wrap
    BY <1>1, ModSame, Zenon
  <2>2. a % Wrap \in 0..(Wrap - 1)
    BY <1>1, ModDiv, Zenon
  <2>3. a % PIPESIZE \in 0..(PIPESIZE - 1)
    BY <1>1, ModDiv, Zenon
  <2> QED BY <2>1, <2>2, <2>3, Zenon
<1>3. PICK k \in Nat : Wrap = k * PIPESIZE
  BY Sizes
<1> DEFINE u == a \div Wrap
           m == a % Wrap
<1>4. m \in 0..(Wrap - 1) /\ u \in Int /\ a = u * Wrap + m
  BY <1>1, ModDiv, Zenon
<1> HIDE DEF m, u
<1>5. u * Wrap = (u * k) * PIPESIZE /\ u * k \in Int /\ m + d \in Int
  BY <1>1, <1>3, <1>4
<1>6. a + d = (m + d) + (u * k) * PIPESIZE
  BY <1>1, <1>4, <1>5
<1>7. ((m + d) + (u * k) * PIPESIZE) % PIPESIZE = (m + d) % PIPESIZE
  BY <1>1, <1>5, ModPlus, Zenon
<1> QED BY <1>2, <1>6, <1>7, Zenon DEF m

\* The type of a pipe's page.
PipeRec == [used : BOOLEAN, readopen : {0, 1}, writeopen : {0, 1},
            writep : 0..(Wrap - 1), readp : 0..(Wrap - 1),
            data : [0..(PIPESIZE - 1) -> 0..(Wrap - 1)]]

\* Where writep is, counted from readp.
LEMMA WriteAt ==
  ASSUME NEW q \in PipeRec
  PROVE  Count(q) \in 0..(Wrap - 1) /\ q.writep = (q.readp + Count(q)) % Wrap
<1> DEFINE w == q.writep
           r == q.readp
<1>0. Wrap \in Nat \ {0}
  BY Sizes
<1>1. w \in 0..(Wrap - 1) /\ r \in 0..(Wrap - 1) /\ w \in Int /\ r \in Int /\ w - r \in Int
  BY <1>0 DEF PipeRec
<1>2. Count(q) = (w - r) % Wrap
  BY Zenon DEF Count
<1> HIDE DEF w, r
<1>3. Count(q) \in 0..(Wrap - 1)
  BY <1>0, <1>1, <1>2, ModDiv, Zenon
<1>4. (((w - r) % Wrap) + r) % Wrap = ((w - r) + r) % Wrap
  BY <1>0, <1>1, ModSame, Zenon
<1>5. (w - r) + r = w /\ w = 0 * Wrap + w
  BY <1>0, <1>1
<1>6. w % Wrap = w
  BY <1>0, <1>1, <1>5, ModUnique
<1>7. Count(q) + r = r + Count(q)
  BY <1>0, <1>1, <1>3
<1> QED BY <1>2, <1>3, <1>4, <1>5, <1>6, <1>7, Zenon DEF w, r

\* The count that two indices c apart stand for.
LEMMA CountIs ==
  ASSUME NEW x \in Int, NEW c \in 0..(Wrap - 1)
  PROVE  (((x + c) % Wrap) - (x % Wrap)) % Wrap = c
<1>0. Wrap \in Nat \ {0}
  BY Sizes
<1> DEFINE u == x \div Wrap
           m == x % Wrap
<1>1. m \in 0..(Wrap - 1) /\ u \in Int /\ x = u * Wrap + m
  BY <1>0, ModDiv, Zenon
<1> HIDE DEF u, m
<1>2. x + c \in Int /\ -m \in Int /\ c \in Int /\ u * Wrap \in Int
  BY <1>0, <1>1
<1>3. (((x + c) % Wrap) + (-m)) % Wrap = ((x + c) + (-m)) % Wrap
  BY <1>0, <1>2, ModSame, Zenon
<1>4. (x + c) + (-m) = c + u * Wrap
  BY <1>1, <1>2
<1>5. (c + u * Wrap) % Wrap = c % Wrap
  BY <1>0, <1>1, <1>2, ModPlus, Zenon
<1>6. c % Wrap = c
  <2>1. c = 0 * Wrap + c
    BY <1>0, <1>2
  <2> QED BY <1>0, <1>2, <2>1, ModUnique
<1>7. (x + c) % Wrap \in Int
  BY <1>0, <1>2, ModDiv
<1>8. ((x + c) % Wrap) - m = ((x + c) % Wrap) + (-m)
  BY <1>1, <1>7, Zenon
<1> QED BY <1>3, <1>4, <1>5, <1>6, <1>8, Zenon DEF m

\* The count is 0 where the indices are equal.
LEMMA EmptyCount ==
  ASSUME NEW q \in PipeRec
  PROVE  q.readp = q.writep <=> Count(q) = 0
<1> DEFINE w == q.writep
           r == q.readp
<1>1. Wrap \in Nat \ {0} /\ w \in 0..(Wrap - 1) /\ r \in 0..(Wrap - 1)
  BY Sizes DEF PipeRec
<1>2. Count(q) \in 0..(Wrap - 1) /\ w = (r + Count(q)) % Wrap /\ Count(q) = (w - r) % Wrap
  BY WriteAt, Zenon DEF Count
<1> HIDE DEF w, r
<1>3. \A x \in 0..(Wrap - 1) : x % Wrap = x
  <2> SUFFICES ASSUME NEW x \in 0..(Wrap - 1)
               PROVE  x % Wrap = x
    BY Zenon
  <2>1. x \in Int /\ x = 0 * Wrap + x
    BY <1>1
  <2> QED BY <1>1, <2>1, ModUnique
<1>4. CASE r = w
  <2>1. w - r = 0 /\ 0 \in 0..(Wrap - 1)
    BY <1>1, <1>4
  <2> QED BY <1>2, <1>3, <1>4, <2>1, Zenon DEF w, r
<1>5. CASE Count(q) = 0
  <2>1. r + Count(q) = r
    BY <1>1, <1>5
  <2> QED BY <1>1, <1>2, <1>3, <1>5, <2>1, Zenon DEF w, r
<1> QED BY <1>4, <1>5, Zenon DEF w, r

\* piperead takes m bytes: those that stay are in their places.
LEMMA Taken ==
  ASSUME NEW q \in PipeRec, Ordered(q), NEW m \in 0..Count(q),
         NEW t, t = [q EXCEPT !.readp = (@ + m) % Wrap]
  PROVE  t \in PipeRec /\ Count(t) = Count(q) - m /\ Ordered(t)
<1> DEFINE r == q.readp
           c == Count(q)
<1>0. Wrap \in Nat \ {0}
  BY Sizes
<1>1. r \in 0..(Wrap - 1) /\ r \in Int /\ c \in 0..(Wrap - 1) /\ q.writep = (r + c) % Wrap
  BY <1>0, WriteAt DEF PipeRec
<1>2. c - m \in 0..(Wrap - 1) /\ r + m \in Int /\ m \in Int /\ (r + m) + (c - m) = r + c
  BY <1>0, <1>1
<1>3. t.readp = (r + m) % Wrap /\ t.writep = (r + c) % Wrap /\ t.data = q.data
  BY <1>1, Zenon DEF PipeRec
<1>4. t \in PipeRec
  <2>1. (r + m) % Wrap \in 0..(Wrap - 1)
    BY <1>0, <1>2, ModDiv, Zenon
  <2> QED BY <2>1 DEF PipeRec
<1>5. Count(t) = c - m
  <2>1. ((((r + m) + (c - m)) % Wrap) - ((r + m) % Wrap)) % Wrap = c - m
    BY <1>2, CountIs, Zenon
  <2> QED BY <1>2, <1>3, <2>1 DEF Count
<1>6. \A j \in 0..(c - m - 1) : (t.readp + j) % Wrap = (r + (j + m)) % Wrap /\ j + m \in 0..(c - 1)
  <2> SUFFICES ASSUME NEW j \in 0..(c - m - 1)
               PROVE  (t.readp + j) % Wrap = (r + (j + m)) % Wrap /\ j + m \in 0..(c - 1)
    BY Zenon
  <2>1. j \in Int /\ j + m \in 0..(c - 1) /\ (r + m) + j = r + (j + m)
    BY <1>1, <1>2
  <2>2. (((r + m) % Wrap) + j) % Wrap = ((r + m) + j) % Wrap
    BY <1>0, <1>2, <2>1, ModSame, Zenon
  <2> QED BY <1>3, <2>1, <2>2
<1>7. Count(t) <= PIPESIZE
  BY <1>1, <1>2, <1>5, Sizes DEF Ordered
<1>8. \A j \in 0..(c - 1) : q.data[((r + j) % Wrap) % PIPESIZE] = (r + j) % Wrap
  BY Zenon DEF Ordered
<1> HIDE DEF r, c
<1>9. \A j \in 0..(Count(t) - 1) : t.data[((t.readp + j) % Wrap) % PIPESIZE] = (t.readp + j) % Wrap
  BY <1>3, <1>5, <1>6, <1>8
<1> QED BY <1>4, <1>5, <1>7, <1>9, Zenon DEF Ordered, c

\* pipewrite's m bytes fit: they go behind the others, which stay.
LEMMA Added ==
  ASSUME NEW q \in PipeRec, Ordered(q), NEW m \in 0..Room(q), NEW t, t = Put(q, m)
  PROVE  t \in PipeRec /\ Count(t) = Count(q) + m /\ Ordered(t)
<1> DEFINE r == q.readp
           c == Count(q)
           js(i) == {j \in 0..(m - 1) : (q.writep + j) % PIPESIZE = i}
<1>0. Wrap \in Nat \ {0} /\ PIPESIZE \in Nat \ {0} /\ Wrap > PIPESIZE
  BY Sizes
<1>1. r \in 0..(Wrap - 1) /\ r \in Int /\ c \in 0..(Wrap - 1) /\ q.writep = (r + c) % Wrap
  BY <1>0, WriteAt DEF PipeRec
<1>2. c + m \in 0..PIPESIZE /\ c + m \in 0..(Wrap - 1) /\ m \in Int /\ r + c \in Int /\ m >= 0
  BY <1>0, <1>1 DEF Ordered, Room
<1>w. \A j \in Int : /\ (q.writep + j) % Wrap = (r + c + j) % Wrap
                     /\ (q.writep + j) % PIPESIZE = (r + c + j) % PIPESIZE
  <2> SUFFICES ASSUME NEW j \in Int
               PROVE  /\ (q.writep + j) % Wrap = (r + c + j) % Wrap
                      /\ (q.writep + j) % PIPESIZE = (r + c + j) % PIPESIZE
    OBVIOUS
  <2>1. PICK a \in Int : a = r + c
    BY <1>2, Zenon
  <2>2. ((a % Wrap) + j) % PIPESIZE = (a + j) % PIPESIZE /\ ((a % Wrap) + j) % Wrap = (a + j) % Wrap
    BY ModRing, Zenon
  <2>3. q.writep = a % Wrap
    BY <1>1, <2>1, Zenon
  <2> QED BY <2>1, <2>2, <2>3, Zenon
<1>3. /\ t.readp = r /\ t.writep = (q.writep + m) % Wrap
      /\ t.data = [i \in 0..(PIPESIZE - 1) |->
           IF js(i) = {} THEN q.data[i]
           ELSE (q.writep + (CHOOSE j \in js(i) : \A h \in js(i) : h <= j)) % Wrap]
  BY DEF Put, PipeRec
<1> HIDE DEF js, r, c
\* no two of the bytes between readp and the new writep share a place
<1>4. \A x, y \in 0..(c + m - 1) : (r + x) % PIPESIZE = (r + y) % PIPESIZE => x = y
  <2> SUFFICES ASSUME NEW x \in 0..(c + m - 1), NEW y \in 0..(c + m - 1), x >= y,
                      (r + x) % PIPESIZE = (r + y) % PIPESIZE
               PROVE  x = y
    BY <1>1, <1>2
  <2>1. r + x \in Int /\ r + y \in Int /\ 0 <= (r + x) - (r + y) /\ (r + x) - (r + y) < PIPESIZE
    BY <1>0, <1>1, <1>2
  <2>2. r + x = r + y
    BY <1>0, <2>1, ModEqual, Zenon
  <2> QED BY <1>1, <1>2, <2>2
<1>5. \A j \in 0..(m - 1) : c + j \in 0..(c + m - 1) /\ r + c + j = r + (c + j) /\ j \in Int
  BY <1>1, <1>2
<1>6. \A j \in 0..(m - 1) : js((r + (c + j)) % PIPESIZE) = {j}
  <2> SUFFICES ASSUME NEW j \in 0..(m - 1), NEW h \in 0..(m - 1),
                      (q.writep + h) % PIPESIZE = (r + (c + j)) % PIPESIZE
               PROVE  h = j
    BY <1>5, <1>w DEF js
  <2>1. (r + (c + h)) % PIPESIZE = (r + (c + j)) % PIPESIZE
    BY <1>5, <1>w, Zenon
  <2>2. c + h = c + j
    BY <1>4, <1>5, <2>1, Zenon
  <2> QED BY <1>1, <1>2, <2>2
<1>7. \A j \in 0..(c - 1) : js((r + j) % PIPESIZE) = {}
  <2> SUFFICES ASSUME NEW j \in 0..(c - 1), NEW h \in 0..(m - 1),
                      (q.writep + h) % PIPESIZE = (r + j) % PIPESIZE
               PROVE  FALSE
    BY Zenon DEF js
  <2>1. (r + (c + h)) % PIPESIZE = (r + j) % PIPESIZE
    BY <1>5, <1>w, Zenon
  <2>2. j \in 0..(c + m - 1)
    BY <1>1, <1>2
  <2>3. c + h = j
    BY <1>4, <1>5, <2>1, <2>2, Zenon
  <2> QED BY <1>1, <1>2, <2>3
<1>8. Count(t) = c + m
  <2>1. r = r % Wrap
    <3>1. r = 0 * Wrap + r
      BY <1>0, <1>1
    <3> QED BY <1>0, <1>1, <3>1, ModUnique
  <2>2. (((r + (c + m)) % Wrap) - (r % Wrap)) % Wrap = c + m
    BY <1>1, <1>2, CountIs, Zenon
  <2>3. t.writep = (r + (c + m)) % Wrap
    BY <1>1, <1>2, <1>3, <1>w
  <2> QED BY <1>3, <2>1, <2>2, <2>3 DEF Count
<1>9. \A j \in 0..(c + m - 1) : /\ ((r + j) % Wrap) % PIPESIZE = (r + j) % PIPESIZE
                                /\ (r + j) % PIPESIZE \in 0..(PIPESIZE - 1)
                                /\ (r + j) % Wrap \in 0..(Wrap - 1)
  <2> SUFFICES ASSUME NEW j \in 0..(c + m - 1)
               PROVE  /\ ((r + j) % Wrap) % PIPESIZE = (r + j) % PIPESIZE
                      /\ (r + j) % PIPESIZE \in 0..(PIPESIZE - 1)
                      /\ (r + j) % Wrap \in 0..(Wrap - 1)
    BY Zenon
  <2>2. r + j \in Int /\ 0 \in Int /\ (r + j) + 0 = r + j
    BY <1>1, <1>2
  <2>3. (r + j) % PIPESIZE \in 0..(PIPESIZE - 1) /\ (r + j) % Wrap \in 0..(Wrap - 1)
    BY <2>2, ModRing, Zenon
  <2>4. ((r + j) % Wrap) + 0 = (r + j) % Wrap
    BY <2>3
  <2>5. (((r + j) % Wrap) + 0) % PIPESIZE = ((r + j) + 0) % PIPESIZE
    BY <2>2, ModRing, Zenon
  <2> QED BY <2>2, <2>3, <2>4, <2>5, Zenon
<1>10. \A j \in 0..(c + m - 1) : t.data[((r + j) % Wrap) % PIPESIZE] = (r + j) % Wrap
  <2> SUFFICES ASSUME NEW j \in 0..(c + m - 1)
               PROVE  t.data[(r + j) % PIPESIZE] = (r + j) % Wrap
    BY <1>9, Zenon
  <2>1. CASE j < c
    <3>1. j \in 0..(c - 1)
      BY <1>1, <1>2, <2>1
    <3>2. t.data[(r + j) % PIPESIZE] = q.data[(r + j) % PIPESIZE]
      BY <1>3, <1>7, <1>9, <3>1
    <3>3. q.data[((r + j) % Wrap) % PIPESIZE] = (r + j) % Wrap
      BY <3>1 DEF Ordered, r, c
    <3> QED BY <1>9, <3>2, <3>3, Zenon
  <2>2. CASE j >= c
    <3>1. j - c \in 0..(m - 1) /\ r + (c + (j - c)) = r + j
      BY <1>1, <1>2, <2>2
    <3>2. js((r + j) % PIPESIZE) = {j - c}
      BY <1>6, <3>1, Zenon
    <3>3. (CHOOSE i \in {j - c} : \A h \in {j - c} : h <= i) = j - c
      BY <3>1
    <3>4. t.data[(r + j) % PIPESIZE] = (q.writep + (j - c)) % Wrap
      <4>1. (r + j) % PIPESIZE \in 0..(PIPESIZE - 1) /\ {j - c} # {}
        BY <1>9, Zenon
      <4>2. \A i \in 0..(PIPESIZE - 1) : t.data[i] =
              IF js(i) = {} THEN q.data[i]
              ELSE (q.writep + (CHOOSE h \in js(i) : \A g \in js(i) : g <= h)) % Wrap
        BY <1>3, Zenon
      <4>3. PICK x \in 0..(PIPESIZE - 1) : x = (r + j) % PIPESIZE
        BY <4>1, Zenon
      <4>4. PICK S : S = js(x)
        OBVIOUS
      <4>5. S = {j - c}
        BY <3>2, <4>3, <4>4, Zenon
      <4>6. t.data[x] = IF S = {} THEN q.data[x]
                        ELSE (q.writep + (CHOOSE h \in S : \A g \in S : g <= h)) % Wrap
        BY <4>2, <4>4, Zenon
      <4>7. t.data[x] = (q.writep + (CHOOSE h \in {j - c} : \A g \in {j - c} : g <= h)) % Wrap
        BY <4>1, <4>5, <4>6, Zenon
      <4> QED BY <3>3, <4>3, <4>7, Zenon
    <3>5. (q.writep + (j - c)) % Wrap = (r + c + (j - c)) % Wrap /\ r + c + (j - c) = r + j
      BY <1>1, <1>2, <1>5, <1>w, <3>1
    <3> QED BY <3>4, <3>5, Zenon
  <2> QED BY <1>1, <1>2, <2>1, <2>2
<1>11. t \in PipeRec
  <2>1. (q.writep + m) % Wrap \in 0..(Wrap - 1)
    <3>1. q.writep + m \in Int
      BY <1>0, <1>2 DEF PipeRec
    <3> QED BY <3>1, ModRing, Zenon
  <2>2. \A i \in 0..(PIPESIZE - 1) : t.data[i] \in 0..(Wrap - 1)
    <3> SUFFICES ASSUME NEW i \in 0..(PIPESIZE - 1), js(i) # {}
                 PROVE  t.data[i] \in 0..(Wrap - 1)
      BY <1>3, ZenonT(30) DEF PipeRec
    <3>1. PICK j \in 0..(m - 1) : (q.writep + j) % PIPESIZE = i
      BY Zenon DEF js
    <3>2. i = (r + (c + j)) % PIPESIZE
      BY <1>5, <1>w, <3>1
    <3>3. t.data[i] = (r + (c + j)) % Wrap
      BY <1>5, <1>9, <1>10, <3>2
    <3> QED BY <1>5, <1>9, <3>3
  <2> QED BY <1>3, <2>1, <2>2, ZenonT(30) DEF PipeRec, Put
<1>12. Count(t) <= PIPESIZE
  BY <1>2, <1>8
<1>13. \A j \in 0..(Count(t) - 1) : t.data[((t.readp + j) % Wrap) % PIPESIZE] = (t.readp + j) % Wrap
  <2>1. t.readp = r
    BY <1>3, Zenon
  <2>2. Count(t) - 1 = c + m - 1
    BY <1>1, <1>2, <1>8
  <2> QED BY <1>10, <2>1, <2>2, Zenon
<1> QED BY <1>8, <1>11, <1>12, <1>13, Zenon DEF Ordered, c

-----------------------------------------------------------------------------
(* The tables: steps that leave descriptors and files alone *)

Pcs == {"unused", "user", "exit", "pipealloc1", "pipealloc2", "undo1", "undo2",
        "pipeclose", "closetest", "closefree", "piperead", "pipewrite",
        "readsleep", "writesleep"}

\* The parts of AInv after a step; RefsOK bounds the counts.
LEMMA AInvStep ==
  ASSUME ofile' \in [Procs -> [Fds -> 0..NFILE]], file' \in [FileIds -> FileRec],
         pipe' \in [Pipes -> PipeRec], pc' \in [Procs -> Pcs], cur' \in [Procs -> CallType],
         killed' \in [Procs -> BOOLEAN],
         RefsOK', \A p \in Procs : HandOK(p)', \A k \in Pipes : Ordered(pipe'[k])
  PROVE  AInv'
<1>1. (file \in [FileIds -> FileRec] /\ RefsOK =>
        file \in [FileIds -> [type : {"CLOSED", "NONE", "PIPE", "INODE"}, ref : 0..(NPROC * NOFILE),
                              readable : {0, 1}, writable : {0, 1}, pipe : 0..NPIPE]])'
  BY RefBound, PTL
<1>2. TypeOK'
  BY <1>1, Zenon DEF TypeOK, PipeRec, Pcs
<1> QED BY <1>2, Zenon DEF AInv

\* The parts of AInv before it.
LEMMA AParts ==
  ASSUME AInv
  PROVE  /\ ofile \in [Procs -> [Fds -> 0..NFILE]] /\ file \in [FileIds -> FileRec]
         /\ pipe \in [Pipes -> PipeRec] /\ pc \in [Procs -> Pcs] /\ cur \in [Procs -> CallType]
         /\ killed \in [Procs -> BOOLEAN]
         /\ TypeOK /\ RefsOK /\ \A k \in Pipes : Ordered(pipe[k])
<1>1. file \in [FileIds -> FileRec]
  BY Sizes DEF AInv, TypeOK, FileRec
<1> QED BY <1>1, Zenon DEF AInv, TypeOK, PipeRec, Pcs

\* A step of p that leaves descriptors, files and what p has in hand alone.
LEMMA QuietA ==
  ASSUME AInv, NEW p \in Procs, UNCHANGED <<ofile, file>>,
         \A r \in Procs \ {p} : Woken(r),
         \A f \in FileIds : Holds(p, f)' <=> Holds(p, f), HandOK(p)',
         pc' \in [Procs -> Pcs], cur' \in [Procs -> CallType], killed' \in [Procs -> BOOLEAN],
         pipe' \in [Pipes -> PipeRec], \A k \in Pipes : Ordered(pipe'[k])
  PROVE  AInv'
<1>1. RefsOK'
  BY WokenHand, QuietRefs, Zenon DEF AInv
<1>2. \A r \in Procs : HandOK(r)'
  BY WokenHand, Zenon DEF AInv
<1> QED BY <1>1, <1>2, AParts, AInvStep, Zenon

\* wakeup(): the sleepers over pipe k, and nobody else, test again.
LEMMA Wakes ==
  ASSUME NEW pcs \in [Procs -> Pcs], NEW k
  PROVE  /\ WakeReaders(pcs, k) \in [Procs -> Pcs] /\ WakeWriters(pcs, k) \in [Procs -> Pcs]
         /\ \A r \in Procs :
              /\ WakeReaders(pcs, k)[r] = IF pcs[r] = "readsleep" /\ cur[r].k = k
                                            THEN "piperead" ELSE pcs[r]
              /\ WakeWriters(pcs, k)[r] = IF pcs[r] = "writesleep" /\ cur[r].k = k
                                            THEN "pipewrite" ELSE pcs[r]
BY DEF WakeReaders, WakeWriters, Wake, Pcs

\* exit and kill
LEMMA ExitA ==
  ASSUME AInv, NEW p \in Procs, Exit(p)
  PROVE  AInv'
<1>1. /\ pc[p] = "user" /\ pc' = [pc EXCEPT ![p] = "exit"]
      /\ UNCHANGED <<ofile, file, pipe, cur, killed>>
  BY DEF Exit, At, Goto
<1>2. pc'[p] = "exit" /\ (\A r \in Procs \ {p} : pc'[r] = pc[r]) /\ pc' \in [Procs -> Pcs]
  BY <1>1, AParts, Zenon DEF Pcs
<1>3. \A r \in Procs \ {p} : Woken(r)
  BY <1>1, <1>2 DEF Woken
<1>4. HandOK(p)' /\ \A f \in FileIds : Holds(p, f)' <=> Holds(p, f)
  <2>1. HandOK(p)'
    BY <1>1, <1>2, Zenon DEF HandOK, Pending
  <2>2. \A f \in FileIds : Holds(p, f)' <=> Holds(p, f)
    BY <1>1, <1>2, Zenon DEF Holds, Pending
  <2> QED BY <2>1, <2>2, Zenon
<1> QED BY <1>1, <1>2, <1>3, <1>4, AParts, QuietA, Zenon

\* kill() only sets a flag.
LEMMA KillA ==
  ASSUME AInv, NEW p \in Procs, Kill(p)
  PROVE  AInv'
<1>1. killed' = [killed EXCEPT ![p] = TRUE] /\ UNCHANGED <<ofile, file, pipe, pc, cur>>
  BY DEF Kill
<1>2. killed' \in [Procs -> BOOLEAN]
  BY <1>1, AParts, Zenon
<1>3. \A r \in Procs : Woken(r)
  BY <1>1, Zenon DEF Woken
<1>4. HandOK(p)' /\ \A f \in FileIds : Holds(p, f)' <=> Holds(p, f)
  BY <1>1, <1>3, WokenHand, Zenon DEF AInv
<1> QED BY <1>1, <1>2, <1>3, <1>4, AParts, QuietA, Zenon

\* read and write enter pipe.c
LEMMA EnterA ==
  ASSUME AInv, NEW p \in Procs, Calls(p), NEW fd \in Fds, NEW n \in Writes \cup Reads,
         ofile[p][fd] # 0, file[ofile[p][fd]].type = "PIPE",
         NEW l \in {"piperead", "pipewrite"}, pc' = [pc EXCEPT ![p] = l],
         cur' = [cur EXCEPT ![p] = [NoCall EXCEPT !.k = file[ofile[p][fd]].pipe, !.n = n]],
         UNCHANGED <<ofile, file, pipe, killed>>
  PROVE  AInv'
<1>1. pc[p] = "user"
  BY DEF Calls, At
<1>2. file[ofile[p][fd]].pipe \in Pipes
  <2>1. ofile[p][fd] \in FileIds
    BY AParts, OpenFile
  <2> QED BY <2>1, AParts, Zenon DEF RefsOK, RefOK
<1>3. /\ pc'[p] = l /\ (\A r \in Procs \ {p} : pc'[r] = pc[r]) /\ pc' \in [Procs -> Pcs]
      /\ \A r \in Procs \ {p} : cur'[r] = cur[r]
  BY AParts DEF Pcs
<1>4. cur'[p] = [k |-> file[ofile[p][fd]].pipe, n |-> n, w |-> 0, then |-> "user"]
  BY AParts, Zenon DEF NoCall
<1>5. cur' \in [Procs -> CallType]
  <2>1. [k |-> file[ofile[p][fd]].pipe, n |-> n, w |-> 0, then |-> "user"] \in CallType
    BY <1>2, Sizes DEF CallType, Pipes
  <2> QED BY <2>1, AParts, ZenonT(30) DEF NoCall
<1>6. \A r \in Procs \ {p} : Woken(r)
  BY <1>3, Zenon DEF Woken
<1>7. cur'[p].k \in Pipes
  BY <1>2, <1>4
<1>8. HandOK(p)'
  BY <1>3, <1>7, Zenon DEF HandOK, Pending
<1>9. \A f \in FileIds : Holds(p, f)' <=> Holds(p, f)
  BY <1>1, <1>3, Zenon DEF Holds, Pending
<1> QED BY <1>3, <1>5, <1>6, <1>8, <1>9, AParts, QuietA

\* sys_read's way into piperead
LEMMA ReadA ==
  ASSUME AInv, NEW p \in Procs, Read(p)
  PROVE  AInv'
BY EnterA, ZenonT(30) DEF Read, Goto

\* sys_write's way into pipewrite
LEMMA WriteA ==
  ASSUME AInv, NEW p \in Procs, Write(p)
  PROVE  AInv'
BY EnterA, ZenonT(30) DEF Write, Goto

\* Closing an end leaves the ring alone.
LEMMA EndShut ==
  ASSUME NEW q \in PipeRec, NEW t,
         t = [q EXCEPT !.writeopen = 0] \/ t = [q EXCEPT !.readopen = 0]
  PROVE  /\ t \in PipeRec /\ t.used = q.used
         /\ t.readp = q.readp /\ t.writep = q.writep /\ t.data = q.data
<1>1. t.used = q.used /\ t.readp = q.readp /\ t.writep = q.writep /\ t.data = q.data
  BY Zenon DEF PipeRec
<1>2. t \in PipeRec
  <2>1. 0 \in {0, 1}
    BY Zenon
  <2> QED BY <2>1, Zenon DEF PipeRec
<1> QED BY <1>1, <1>2, Zenon

\* pipeclose, under the lock
LEMMA PipeCloseA ==
  ASSUME AInv, NEW p \in Procs, PipeClose(p)
  PROVE  AInv'
<1> DEFINE k == cur[p].k
           at == [pc EXCEPT ![p] = "closetest"]
<1>1. /\ pc[p] = "pipeclose" /\ UNCHANGED <<ofile, file, cur, killed>>
      /\ \/ pipe' = [pipe EXCEPT ![k].writeopen = 0] /\ pc' = WakeReaders(at, k)
         \/ pipe' = [pipe EXCEPT ![k].readopen = 0] /\ pc' = WakeWriters(at, k)
  BY Zenon DEF PipeClose, At
<1>2. k \in Pipes /\ at \in [Procs -> Pcs] /\ at[p] = "closetest"
      /\ \A r \in Procs \ {p} : at[r] = pc[r]
  BY <1>1, AParts DEF AInv, HandOK, Pcs
<1> HIDE DEF k, at
<1>3. /\ pc' \in [Procs -> Pcs] /\ pc'[p] = "closetest"
      /\ \A r \in Procs \ {p} : Woken(r)
  BY <1>1, <1>2, Wakes DEF Woken
<1>4. pipe' \in [Pipes -> PipeRec] /\ \A j \in Pipes : Ordered(pipe'[j])
  <2>1. pipe \in [Pipes -> PipeRec] /\ \A j \in Pipes : Ordered(pipe[j])
    BY AParts
  <2>2. PICK t : /\ t = [pipe[k] EXCEPT !.writeopen = 0] \/ t = [pipe[k] EXCEPT !.readopen = 0]
                 /\ pipe' = [pipe EXCEPT ![k] = t]
    BY <1>1, Zenon
  <2>3. /\ t \in PipeRec /\ t.readp = pipe[k].readp /\ t.writep = pipe[k].writep
        /\ t.data = pipe[k].data
    BY <1>2, <2>1, <2>2, EndShut
  <2>4. Ordered(t)
    BY <1>2, <2>1, <2>3, Zenon DEF Ordered, Count
  <2> QED BY <1>2, <2>1, <2>2, <2>3, <2>4, Zenon
<1>5. HandOK(p)' /\ \A f \in FileIds : Holds(p, f)' <=> Holds(p, f)
  <2>0. HandOK(p)
    BY Zenon DEF AInv
  <2>1. HandOK(p)'
    BY <1>1, <1>2, <1>3, <2>0, Zenon DEF HandOK, Pending, k
  <2>2. \A f \in FileIds : Holds(p, f)' <=> Holds(p, f)
    BY <1>1, <1>2, <1>3, Zenon DEF Holds, Pending, k
  <2> QED BY <2>1, <2>2, Zenon
<1> QED BY <1>1, <1>3, <1>4, <1>5, AParts, QuietA

\* A free page, and a fresh pipe, are empty.
LEMMA JunkOrdered ==
  /\ Junk \in PipeRec /\ Count(Junk) = 0 /\ Ordered(Junk)
  /\ [Junk EXCEPT !.used = TRUE] \in PipeRec /\ Count([Junk EXCEPT !.used = TRUE]) = 0
  /\ Ordered([Junk EXCEPT !.used = TRUE])
<1>1. Wrap \in Nat \ {0} /\ PIPESIZE \in Nat \ {0}
  BY Sizes
<1>2. (0 - 0) % Wrap = 0
  <2>1. 0 - 0 = 0 /\ 0 = 0 * Wrap + 0
    BY <1>1
  <2> QED BY <1>1, <2>1, ModUnique
<1>3. Count(Junk) = 0 /\ Count([Junk EXCEPT !.used = TRUE]) = 0
  BY <1>2, Zenon DEF Count, Junk
<1>4. Junk \in PipeRec /\ [Junk EXCEPT !.used = TRUE] \in PipeRec
  <2>1. 0 \in 0..(Wrap - 1) /\ 1 \in {0, 1}
    BY <1>1
  <2> QED BY <2>1, Zenon DEF Junk, PipeRec
<1>5. \A j : j \notin 0..(0 - 1)
  OBVIOUS
<1>6. 0 <= PIPESIZE
  BY <1>1
<1> QED BY <1>3, <1>4, <1>5, <1>6, Zenon DEF Ordered

\* pipeclose's return to its caller
LEMMA ReturnHand ==
  ASSUME AInv, NEW p \in Procs, pc[p] \in {"closetest", "closefree"}, Return(p),
         UNCHANGED <<ofile, file>>
  PROVE  /\ pc' \in [Procs -> Pcs] /\ cur' \in [Procs -> CallType]
         /\ \A r \in Procs \ {p} : Woken(r)
         /\ HandOK(p)' /\ \A f \in FileIds : Holds(p, f)' <=> Holds(p, f)
<1>1. cur[p].then \in {"user", "exit", "undo2"} /\ cur[p] \in CallType
  BY AParts DEF CallType
<1>2. /\ pc'[p] = cur[p].then /\ (\A r \in Procs \ {p} : pc'[r] = pc[r] /\ cur'[r] = cur[r])
      /\ pc' \in [Procs -> Pcs]
  BY <1>1, AParts DEF Return, Goto, Pcs
<1>3. cur'[p] = [k |-> 0, n |-> cur[p].n, w |-> 0, then |-> "user"]
  BY AParts DEF Return, NoCall
<1>4. cur' \in [Procs -> CallType]
  <2>1. [k |-> 0, n |-> cur[p].n, w |-> 0, then |-> "user"] \in CallType
    BY <1>1, Sizes DEF CallType
  <2> QED BY <2>1, AParts DEF Return, NoCall
<1>5. \A r \in Procs \ {p} : Woken(r)
  BY <1>2 DEF Woken
<1>6. \A f \in FileIds : Holds(p, f)' <=> Holds(p, f)
  BY <1>1, <1>2, <1>3 DEF Holds, Pending
<1>7. HandOK(p)'
  <2>1. cur'[p].n = cur[p].n /\ cur'[p].then = "user"
    BY <1>3
  <2>2. CASE cur[p].then = "undo2"
    <3>1. cur[p].n \in FileIds /\ file[cur[p].n].type = "PIPE"
      BY <2>2, Zenon DEF AInv, HandOK, Pending
    <3> QED BY <1>2, <2>1, <2>2, <3>1, Zenon DEF HandOK, Pending
  <2>3. CASE cur[p].then # "undo2"
    <3>1. pc'[p] = "user" \/ pc'[p] = "exit"
      BY <1>1, <1>2, <2>3, Zenon
    <3> QED BY <3>1, Zenon DEF HandOK, Pending
  <2> QED BY <2>2, <2>3, Zenon
<1> QED BY <1>2, <1>4, <1>5, <1>6, <1>7, Zenon

\* pipeclose, after the unlock
LEMMA CloseTestA ==
  ASSUME AInv, NEW p \in Procs, CloseTest(p)
  PROVE  AInv'
<1>1. pc[p] = "closetest"
  BY ZenonT(30) DEF CloseTest, At
<1>2. CASE Return(p) /\ UNCHANGED <<ofile, file, pipe, killed>>
  BY <1>1, <1>2, ReturnHand, AParts, QuietA, Zenon
<1>3. CASE Goto(p, "closefree") /\ UNCHANGED <<ofile, file, pipe, cur, killed>>
  <2>1. pc'[p] = "closefree" /\ (\A r \in Procs \ {p} : pc'[r] = pc[r]) /\ pc' \in [Procs -> Pcs]
    BY <1>3, AParts DEF Goto, Pcs
  <2>2. \A r \in Procs \ {p} : Woken(r)
    BY <1>3, <2>1, Zenon DEF Woken
  <2>3. HandOK(p)' /\ \A f \in FileIds : Holds(p, f)' <=> Holds(p, f)
    <3>0. HandOK(p)
      BY Zenon DEF AInv
    <3>1. HandOK(p)'
      BY <1>1, <1>3, <2>1, <3>0, Zenon DEF HandOK, Pending
    <3>2. \A f \in FileIds : Holds(p, f)' <=> Holds(p, f)
      BY <1>1, <1>3, <2>1, Zenon DEF Holds, Pending
    <3> QED BY <3>1, <3>2, Zenon
  <2> QED BY <1>3, <2>1, <2>2, <2>3, AParts, QuietA
<1>4. CASE UNCHANGED <<ofile, file, pipe, pc, cur, killed>>
  <2>1. \A r \in Procs : Woken(r)
    BY <1>4, Zenon DEF Woken
  <2>2. HandOK(p)' /\ \A f \in FileIds : Holds(p, f)' <=> Holds(p, f)
    BY <1>4, <2>1, WokenHand, Zenon DEF AInv
  <2> QED BY <1>4, <2>1, <2>2, AParts, QuietA
<1> QED BY <1>2, <1>3, <1>4, Zenon DEF CloseTest, Panic

\* kfree of the page
LEMMA CloseFreeA ==
  ASSUME AInv, NEW p \in Procs, CloseFree(p)
  PROVE  AInv'
<1>1. /\ pc[p] = "closefree" /\ pipe' = [pipe EXCEPT ![cur[p].k] = Junk] /\ Return(p)
      /\ UNCHANGED <<ofile, file, killed>>
  BY DEF CloseFree, At
<1>2. pipe' \in [Pipes -> PipeRec] /\ \A k \in Pipes : Ordered(pipe'[k])
  BY <1>1, AParts, JunkOrdered, Zenon
<1> QED BY <1>1, <1>2, ReturnHand, AParts, QuietA

\* How many bytes pipewrite puts: as many as there are, and as there is room for.
LEMMA WriteSize ==
  ASSUME NEW q \in PipeRec, Ordered(q), NEW n \in Nat, NEW m,
         m = IF n < Room(q) THEN n ELSE Room(q)
  PROVE  /\ m \in 0..Room(q) /\ m \in 0..n /\ Room(q) \in Nat /\ n - m \in 0..n
         /\ m # n => m < n /\ m = Room(q)
<1>1. Count(q) \in Nat /\ PIPESIZE \in Nat /\ Count(q) <= PIPESIZE
  BY WriteAt, Sizes DEF Ordered
<1>2. Room(q) \in Nat
  BY <1>1 DEF Room
<1> QED BY <1>2

\* wakeup() on pipe k by p: the others' state afterwards
WokeReaders(p, k) == \A r \in Procs \ {p} : cur'[r] = cur[r] /\
  pc'[r] = IF pc[r] = "readsleep" /\ cur[r].k = k THEN "piperead" ELSE pc[r]
WokeWriters(p, k) == \A r \in Procs \ {p} : cur'[r] = cur[r] /\
  pc'[r] = IF pc[r] = "writesleep" /\ cur[r].k = k THEN "pipewrite" ELSE pc[r]
Stay(p) == \A r \in Procs \ {p} : cur'[r] = cur[r] /\ pc'[r] = pc[r]

\* The flags of page k that pipeclose and kfree write
SameFlags(k) == /\ pipe'[k].used <=> pipe[k].used
                /\ pipe'[k].readopen = pipe[k].readopen
                /\ pipe'[k].writeopen = pipe[k].writeopen

\* The ring after bytes were put in or taken out of pipe k
RingStep(k) == /\ pipe' \in [Pipes -> PipeRec] /\ \A j \in Pipes : Ordered(pipe'[j])
               /\ \A j \in Pipes \ {k} : pipe'[j] = pipe[j]
               /\ SameFlags(k)

\* Whoever was woken, or stays.
LEMMA WokenOthers ==
  ASSUME NEW p, NEW k, WokeReaders(p, k) \/ WokeWriters(p, k) \/ Stay(p)
  PROVE  \A r \in Procs \ {p} : Woken(r)
BY Zenon DEF WokeReaders, WokeWriters, Stay, Woken

\* The arguments of a call in pipe.c
LEMMA InPipe ==
  ASSUME AInv, NEW p \in Procs
  PROVE  /\ cur[p].n \in 0..(NFILE + PIPESIZE + Wrap) /\ cur[p].n \in Nat
         /\ pc[p] \in {"pipeclose", "closetest", "closefree", "piperead", "pipewrite",
                        "readsleep", "writesleep"} => cur[p].k \in Pipes
<1>1. cur[p].n \in 0..(NFILE + PIPESIZE + Wrap) /\ cur[p].n \in Nat
  BY AParts, Sizes DEF CallType
<1>2. pc[p] \in {"pipeclose", "closetest", "closefree", "piperead", "pipewrite",
                 "readsleep", "writesleep"} => cur[p].k \in Pipes
  BY Zenon DEF AInv, HandOK
<1> QED BY <1>1, <1>2, Zenon

\* pipewrite fills the pipe as far as it can; it leaves without the wakeup only
\* where the readers are gone or p was killed, which missed then records; it
\* sleeps only over a full pipe that can be read.
LEMMA WriteStep ==
  ASSUME AInv, NEW p \in Procs, PipeWrite(p), NEW k, k = cur[p].k
  PROVE  /\ pc[p] = "pipewrite" /\ k \in Pipes /\ UNCHANGED <<ofile, file, killed, fault>>
         /\ pc' \in [Procs -> Pcs] /\ cur' \in [Procs -> CallType] /\ RingStep(k)
         /\ \A j \in Pipes \ {k} : j \in missed => j \in missed'
         /\ \/ pc'[p] = "user" /\ WokeReaders(p, k)
            \/ /\ pc'[p] = "user" /\ Stay(p) /\ (pipe[k].readopen = 0 \/ killed[p])
               /\ killed[p] => k \in missed'
            \/ /\ pc'[p] = "writesleep" /\ cur'[p].k = k /\ WokeReaders(p, k)
               /\ Count(pipe'[k]) = PIPESIZE /\ pipe[k].readopen # 0
<1> DEFINE n == cur[p].n
           m == IF n < Room(pipe[k]) THEN n ELSE Room(pipe[k])
<1>1. /\ pc[p] = "pipewrite" /\ pipe' = [pipe EXCEPT ![k] = Put(@, m)]
      /\ UNCHANGED <<ofile, file, killed, fault>>
      /\ \/ Done(p, WakeReaders(pc, k))
         \/ /\ Done(p, pc) /\ m # n /\ (pipe[k].readopen = 0 \/ killed[p])
            /\ missed' = IF killed[p] THEN missed \cup {k} ELSE missed
         \/ /\ pc' = WakeReaders([pc EXCEPT ![p] = "writesleep"], k) /\ m # n
            /\ cur' = [cur EXCEPT ![p].n = n - m] /\ (~(m < n) \/ pipe[k].readopen # 0)
  <2>1. (m < n) => (m # n)
    <3>1. n \in Int
      BY AParts DEF CallType
    <3> QED BY <3>1
  <2> QED BY <2>1, Zenon DEF PipeWrite, At
<1>2. k \in Pipes /\ n \in 0..(NFILE + PIPESIZE + Wrap) /\ n \in Nat
  BY <1>1, InPipe, Zenon
<1>3. pipe[k] \in PipeRec /\ Ordered(pipe[k])
  BY <1>2, AParts, Zenon
<1>m. m = IF n < Room(pipe[k]) THEN n ELSE Room(pipe[k])
  OBVIOUS
<1> HIDE DEF m, n
<1>4. m \in 0..Room(pipe[k]) /\ n - m \in 0..n /\ (m # n => m < n /\ m = Room(pipe[k]))
  BY <1>2, <1>3, <1>m, WriteSize, Zenon
<1> DEFINE t == Put(pipe[k], m)
<1>5. t \in PipeRec /\ Ordered(t) /\ Count(t) = Count(pipe[k]) + m
  BY <1>3, <1>4, Added, Zenon
<1>6. t.used = pipe[k].used /\ t.readopen = pipe[k].readopen /\ t.writeopen = pipe[k].writeopen
  BY <1>3, Zenon DEF Put, PipeRec
<1>7. pipe' = [pipe EXCEPT ![k] = t]
  BY <1>1, Zenon
<1> HIDE DEF t
<1>8. pipe'[k] = t /\ RingStep(k)
  BY <1>2, <1>5, <1>6, <1>7, AParts, Zenon DEF RingStep, SameFlags
<1>9. m # n => Count(pipe'[k]) = PIPESIZE
  <2>1. Count(pipe[k]) \in Int /\ PIPESIZE \in Int
    BY <1>3, WriteAt, Sizes
  <2> QED BY <1>4, <1>5, <1>8, <2>1 DEF Room
<1>10. pc \in [Procs -> Pcs] /\ "user" \in Pcs /\ "writesleep" \in Pcs /\ NoCall \in CallType
  BY AParts, Sizes DEF Pcs, NoCall, CallType
<1>11. \A j \in Pipes \ {k} : j \in missed => j \in missed'
  <2>1. missed' = missed \ {k} \/ missed' = IF killed[p] THEN missed \cup {k} ELSE missed
    BY Zenon DEF PipeWrite
  <2> QED BY <2>1, Zenon
<1>12. CASE Done(p, WakeReaders(pc, k))
  <2>1. pc'[p] = "user" /\ pc' \in [Procs -> Pcs]
        /\ \A r \in Procs \ {p} : pc'[r] = WakeReaders(pc, k)[r]
    BY <1>10, <1>12, Wakes DEF Done
  <2>2. cur' \in [Procs -> CallType] /\ \A r \in Procs \ {p} : cur'[r] = cur[r]
    BY <1>10, <1>12, AParts, Zenon DEF Done
  <2>3. WokeReaders(p, k)
    BY <1>10, <2>1, <2>2, Wakes DEF WokeReaders
  <2> QED BY <1>1, <1>2, <1>8, <1>11, <2>1, <2>2, <2>3, Zenon
<1>13. CASE /\ Done(p, pc) /\ m # n /\ (pipe[k].readopen = 0 \/ killed[p])
            /\ missed' = IF killed[p] THEN missed \cup {k} ELSE missed
  <2>1. pc'[p] = "user" /\ pc' \in [Procs -> Pcs] /\ \A r \in Procs \ {p} : pc'[r] = pc[r]
    BY <1>10, <1>13 DEF Done
  <2>2. cur' \in [Procs -> CallType] /\ \A r \in Procs \ {p} : cur'[r] = cur[r]
    BY <1>10, <1>13, AParts, Zenon DEF Done
  <2>3. Stay(p)
    BY <2>1, <2>2 DEF Stay
  <2>4. killed[p] => k \in missed'
    BY <1>13, Zenon
  <2> QED BY <1>1, <1>2, <1>8, <1>13, <1>11, <2>1, <2>2, <2>3, <2>4, Zenon
<1>14. CASE /\ pc' = WakeReaders([pc EXCEPT ![p] = "writesleep"], k) /\ m # n
            /\ cur' = [cur EXCEPT ![p].n = n - m] /\ (~(m < n) \/ pipe[k].readopen # 0)
  <2> DEFINE at == [pc EXCEPT ![p] = "writesleep"]
  <2>1. at \in [Procs -> Pcs] /\ at[p] = "writesleep" /\ \A r \in Procs \ {p} : at[r] = pc[r]
    BY <1>10
  <2>2. pc' = WakeReaders(at, k)
    BY <1>14
  <2> HIDE DEF at
  <2>3. pc'[p] = "writesleep" /\ pc' \in [Procs -> Pcs]
        /\ \A r \in Procs \ {p} : pc'[r] = IF pc[r] = "readsleep" /\ cur[r].k = k
                                             THEN "piperead" ELSE pc[r]
    BY <1>10, <2>1, <2>2, Wakes
  <2>4. n - m \in 0..(NFILE + PIPESIZE + Wrap)
    BY <1>2, <1>4, Sizes
  <2>5. cur' \in [Procs -> CallType] /\ (\A r \in Procs \ {p} : cur'[r] = cur[r])
        /\ cur'[p].k = cur[p].k
    BY <1>14, <2>4, AParts, ZenonT(30) DEF CallType
  <2>6. WokeReaders(p, k)
    BY <2>3, <2>5 DEF WokeReaders
  <2>7. pipe[k].readopen # 0 /\ Count(pipe'[k]) = PIPESIZE
    BY <1>4, <1>9, <1>14
  <2> QED BY <1>1, <1>2, <1>8, <1>11, <2>3, <2>5, <2>6, <2>7, Zenon
<1> QED BY <1>1, <1>12, <1>13, <1>14, Zenon

\* pipewrite
LEMMA PipeWriteA ==
  ASSUME AInv, NEW p \in Procs, PipeWrite(p)
  PROVE  AInv'
<1>1. PICK k : k = cur[p].k
  OBVIOUS
<1>2. /\ pc[p] = "pipewrite" /\ k \in Pipes /\ UNCHANGED <<ofile, file, killed>>
      /\ pc' \in [Procs -> Pcs] /\ cur' \in [Procs -> CallType] /\ RingStep(k)
      /\ pc'[p] = "user" \/ (pc'[p] = "writesleep" /\ cur'[p].k = k)
      /\ WokeReaders(p, k) \/ Stay(p)
  BY <1>1, WriteStep
<1>3. \A r \in Procs \ {p} : Woken(r)
  BY <1>2, WokenOthers, Zenon
<1>4. HandOK(p)' /\ \A f \in FileIds : Holds(p, f)' <=> Holds(p, f)
  <2>1. HandOK(p)'
    BY <1>2, Zenon DEF HandOK, Pending
  <2>2. \A f \in FileIds : Holds(p, f)' <=> Holds(p, f)
    BY <1>2, Zenon DEF Holds, Pending
  <2> QED BY <2>1, <2>2, Zenon
<1>5. pipe' \in [Pipes -> PipeRec] /\ \A j \in Pipes : Ordered(pipe'[j])
  BY <1>2, Zenon DEF RingStep
<1> QED BY <1>2, <1>3, <1>4, <1>5, AParts, QuietA

\* piperead takes what it can, and sleeps only over an empty pipe that can be
\* written.
LEMMA ReadStep ==
  ASSUME AInv, NEW p \in Procs, PipeRead(p), NEW k, k = cur[p].k
  PROVE  /\ pc[p] = "piperead" /\ k \in Pipes /\ UNCHANGED <<ofile, file, killed, fault>>
         /\ pc' \in [Procs -> Pcs] /\ cur' \in [Procs -> CallType] /\ RingStep(k)
         /\ \/ pc'[p] = "user" /\ WokeWriters(p, k)
            \/ pc'[p] = "user" /\ Stay(p) /\ UNCHANGED pipe
            \/ /\ pc'[p] = "readsleep" /\ cur'[p].k = k /\ Stay(p) /\ UNCHANGED pipe
               /\ Count(pipe[k]) = 0 /\ pipe[k].writeopen # 0
<1> DEFINE q == pipe[k]
           m == IF cur[p].n < Count(q) THEN cur[p].n ELSE Count(q)
           t == [q EXCEPT !.readp = (@ + m) % Wrap]
<1>1. /\ pc[p] = "piperead" /\ UNCHANGED <<ofile, file, killed, fault>>
      /\ \/ UNCHANGED pipe /\ Done(p, pc)
         \/ UNCHANGED <<pipe, cur>> /\ Goto(p, "readsleep") /\ q.readp = q.writep /\ q.writeopen # 0
         \/ pipe' = [pipe EXCEPT ![k].readp = (@ + m) % Wrap] /\ Done(p, WakeWriters(pc, k))
  BY Zenon DEF PipeRead, At
<1>2. k \in Pipes /\ cur[p].n \in Nat
  BY <1>1, InPipe, Zenon
<1>3. q \in PipeRec /\ Ordered(q)
  BY <1>2, AParts
<1>4. m \in 0..Count(q)
  BY <1>2, <1>3, WriteAt
<1> HIDE DEF m
<1>5. t \in PipeRec /\ Ordered(t)
  BY <1>3, <1>4, Taken, Zenon
<1>6. t.used = q.used /\ t.readopen = q.readopen /\ t.writeopen = q.writeopen
  BY <1>3, Zenon DEF PipeRec
<1>7. pipe' = pipe \/ pipe' = [pipe EXCEPT ![k] = t]
  BY <1>1, Zenon
<1> HIDE DEF t, q
<1>8. RingStep(k)
  <2>1. CASE pipe' = pipe
    BY <2>1, AParts, Zenon DEF RingStep, SameFlags
  <2>2. CASE pipe' = [pipe EXCEPT ![k] = t]
    BY <1>2, <1>5, <1>6, <2>2, AParts, Zenon DEF RingStep, SameFlags, q
  <2> QED BY <1>7, <2>1, <2>2
<1>9. pc \in [Procs -> Pcs] /\ "user" \in Pcs /\ "readsleep" \in Pcs /\ NoCall \in CallType
  BY AParts, Sizes DEF Pcs, NoCall, CallType
<1>10. CASE Done(p, WakeWriters(pc, k))
  <2>1. pc'[p] = "user" /\ pc' \in [Procs -> Pcs]
        /\ \A r \in Procs \ {p} : pc'[r] = WakeWriters(pc, k)[r]
    BY <1>9, <1>10, Wakes DEF Done
  <2>2. cur' \in [Procs -> CallType] /\ \A r \in Procs \ {p} : cur'[r] = cur[r]
    BY <1>9, <1>10, AParts, Zenon DEF Done
  <2>3. WokeWriters(p, k)
    BY <1>9, <2>1, <2>2, Wakes DEF WokeWriters
  <2> QED BY <1>1, <1>2, <1>8, <2>1, <2>2, <2>3, Zenon
<1>11. CASE UNCHANGED pipe /\ Done(p, pc)
  <2>1. pc'[p] = "user" /\ pc' \in [Procs -> Pcs] /\ \A r \in Procs \ {p} : pc'[r] = pc[r]
    BY <1>9, <1>11 DEF Done
  <2>2. cur' \in [Procs -> CallType] /\ \A r \in Procs \ {p} : cur'[r] = cur[r]
    BY <1>9, <1>11, AParts DEF Done
  <2>3. Stay(p)
    BY <2>1, <2>2, Zenon DEF Stay
  <2> QED BY <1>1, <1>2, <1>8, <1>11, <2>1, <2>2, <2>3, Zenon
<1>12. CASE UNCHANGED <<pipe, cur>> /\ Goto(p, "readsleep") /\ q.readp = q.writep /\ q.writeopen # 0
  <2>1. pc'[p] = "readsleep" /\ pc' \in [Procs -> Pcs] /\ \A r \in Procs \ {p} : pc'[r] = pc[r]
    BY <1>9, <1>12 DEF Goto
  <2>2. cur' \in [Procs -> CallType] /\ cur'[p].k = k
    BY <1>12, AParts
  <2>3. Stay(p)
    BY <1>12, <2>1 DEF Stay
  <2>4. Count(q) = 0
    BY <1>3, <1>12, EmptyCount
  <2> QED BY <1>1, <1>2, <1>8, <1>12, <2>1, <2>2, <2>3, <2>4, Zenon DEF q
<1> QED BY <1>1, <1>10, <1>11, <1>12, Zenon

\* piperead
LEMMA PipeReadA ==
  ASSUME AInv, NEW p \in Procs, PipeRead(p)
  PROVE  AInv'
<1>1. PICK k : k = cur[p].k
  BY Zenon
<1>2. /\ pc[p] = "piperead" /\ k \in Pipes /\ UNCHANGED <<ofile, file, killed>>
      /\ pc' \in [Procs -> Pcs] /\ cur' \in [Procs -> CallType] /\ RingStep(k)
      /\ pc'[p] = "user" \/ (pc'[p] = "readsleep" /\ cur'[p].k = k)
      /\ WokeWriters(p, k) \/ Stay(p)
  BY <1>1, ReadStep
<1>3. \A r \in Procs \ {p} : Woken(r)
  BY <1>2, WokenOthers, Zenon
<1>4. HandOK(p)' /\ \A f \in FileIds : Holds(p, f)' <=> Holds(p, f)
  <2>1. HandOK(p)'
    BY <1>2, Zenon DEF HandOK, Pending
  <2>2. \A f \in FileIds : Holds(p, f)' <=> Holds(p, f)
    BY <1>2, Zenon DEF Holds, Pending
  <2> QED BY <2>1, <2>2, Zenon
<1>5. pipe' \in [Pipes -> PipeRec] /\ \A j \in Pipes : Ordered(pipe'[j])
  BY <1>2, Zenon DEF RingStep
<1> QED BY <1>2, <1>3, <1>4, <1>5, AParts, QuietA

-----------------------------------------------------------------------------
(* The tables: steps that open and close files *)

\* A file that a step leaves alone, and whose references it leaves alone.
LEMMA RefSame ==
  ASSUME AInv, NEW f \in FileIds, file'[f] = file[f],
         \A r \in Procs : \A fd \in Fds : ofile'[r][fd] = f <=> ofile[r][fd] = f,
         \A r \in Procs : Holds(r, f)' <=> Holds(r, f)
  PROVE  RefOK(f)'
<1>1. Descriptors(f)' = Descriptors(f)
  BY DescSame
<1>2. RefOK(f)
  BY AParts, Zenon DEF RefsOK
<1> QED BY <1>1, <1>2, Zenon DEF RefOK

\* A process that a step leaves alone, and with it the types of its files.
LEMMA HandKept ==
  ASSUME AInv, NEW r \in Procs, pc'[r] = pc[r], cur'[r] = cur[r]
  PROVE  /\ \A g \in FileIds : Holds(r, g)' <=> Holds(r, g)
         /\ (\A g \in FileIds : Holds(r, g) => file'[g].type = file[g].type) /\
            (pc[r] = "unused" => \A fd \in Fds : ofile'[r][fd] = ofile[r][fd]) => HandOK(r)'
<1>1. \A g \in FileIds : Holds(r, g)' <=> Holds(r, g)
  BY DEF Holds, Pending
<1>2. HandOK(r)
  BY Zenon DEF AInv
<1>3. ASSUME \A g \in FileIds : Holds(r, g) => file'[g].type = file[g].type,
             pc[r] = "unused" => \A fd \in Fds : ofile'[r][fd] = ofile[r][fd]
      PROVE  HandOK(r)'
  <2>1. /\ pc[r] \in {"pipealloc1", "pipealloc2", "undo1"} =>
             cur[r].k \in FileIds /\ Holds(r, cur[r].k)
        /\ pc[r] \in {"pipealloc2", "undo1"} => cur[r].n \in FileIds /\ Holds(r, cur[r].n)
        /\ Pending(r, "undo2") => cur[r].n \in FileIds /\ Holds(r, cur[r].n)
    BY <1>2, Zenon DEF HandOK, Holds
  <2>2. Pending(r, "undo2")' <=> Pending(r, "undo2")
    BY DEF Pending
  <2> QED BY <1>2, <1>3, <2>1, <2>2 DEF HandOK
<1> QED BY <1>1, <1>3

\* A step of p that changes one file and p's references to it.
LEMMA OneFileA ==
  ASSUME AInv, NEW p \in Procs, NEW f \in FileIds, NEW x \in FileRec,
         file' = [file EXCEPT ![f] = x], RefOK(f)',
         ofile' \in [Procs -> [Fds -> 0..NFILE]],
         \A r \in Procs : \A fd \in Fds : \A g \in FileIds \ {f} :
           ofile'[r][fd] = g <=> ofile[r][fd] = g,
         \A r \in Procs \ {p} : \A fd \in Fds : ofile'[r][fd] = ofile[r][fd],
         \A r \in Procs \ {p} : ~Holds(r, f) /\ pc'[r] = pc[r] /\ cur'[r] = cur[r],
         \A g \in FileIds \ {f} : Holds(p, g)' <=> Holds(p, g), HandOK(p)',
         pc' \in [Procs -> Pcs], cur' \in [Procs -> CallType], UNCHANGED <<pipe, killed>>
  PROVE  AInv'
<1>1. file' \in [FileIds -> FileRec] /\ \A g \in FileIds \ {f} : file'[g] = file[g]
  BY AParts
<1>2. \A g \in FileIds \ {f} : RefOK(g)'
  <2> SUFFICES ASSUME NEW g \in FileIds \ {f}
               PROVE  RefOK(g)'
    OBVIOUS
  <2>1. \A r \in Procs : Holds(r, g)' <=> Holds(r, g)
    BY HandKept
  <2> QED BY <1>1, <2>1, RefSame
<1>3. RefsOK'
  BY <1>2, Zenon DEF RefsOK
<1>4. \A r \in Procs : HandOK(r)'
  <2> SUFFICES ASSUME NEW r \in Procs \ {p}
               PROVE  HandOK(r)'
    BY Zenon
  <2>1. \A g \in FileIds : Holds(r, g) => file'[g].type = file[g].type
    BY <1>1
  <2> QED BY <2>1, HandKept, Zenon
<1> QED BY <1>1, <1>3, <1>4, AParts, AInvStep, Zenon

\* The entries that filealloc, sys_open and fileclose write.
LEMMA NewFiles ==
  /\ NewFile \in FileRec /\ NewFile.type = "NONE" /\ NewFile.ref = 1
  /\ [NewFile EXCEPT !.type = "INODE", !.readable = 1] \in FileRec
  /\ [NewFile EXCEPT !.type = "INODE", !.readable = 1].type = "INODE"
  /\ [NewFile EXCEPT !.type = "INODE", !.readable = 1].ref = 1
  /\ Closed \in FileRec /\ Closed.type = "CLOSED" /\ Closed.ref = 0
<1>1. 0 \in 0..NPIPE /\ 0 \in Nat /\ 1 \in Nat /\ 0 \in {0, 1} /\ 1 \in {0, 1}
  BY Sizes
<1>2. Closed \in FileRec /\ Closed.type = "CLOSED" /\ Closed.ref = 0
  BY <1>1, Zenon DEF FileRec, Closed
<1>3. NewFile \in FileRec /\ NewFile.type = "NONE" /\ NewFile.ref = 1
  BY <1>1, Zenon DEF FileRec, Closed, NewFile
<1>4. [NewFile EXCEPT !.type = "INODE", !.readable = 1] \in FileRec
  BY <1>1, <1>3, Zenon DEF FileRec
<1>5. /\ [NewFile EXCEPT !.type = "INODE", !.readable = 1].type = "INODE"
      /\ [NewFile EXCEPT !.type = "INODE", !.readable = 1].ref = 1
  BY <1>3, Zenon DEF FileRec
<1> QED BY <1>2, <1>3, <1>4, <1>5, Zenon

\* A file all of whose references are descriptors.
LEMMA DescRef ==
  ASSUME NEW f \in FileIds, \A r \in Procs : ~Holds(r, f)',
         file'[f].ref = Cardinality(Descriptors(f)'), file'[f].ref # 0,
         file'[f].type \in {"INODE", "PIPE"}, file'[f].type = "PIPE" => file'[f].pipe \in Pipes
  PROVE  RefOK(f)'
BY Zenon DEF RefOK

\* A file with no reference left.
LEMMA ClosedRef ==
  ASSUME NEW f \in FileIds, \A r \in Procs : ~Holds(r, f)', file'[f] = Closed,
         Cardinality(Descriptors(f)') = 0
  PROVE  RefOK(f)'
<1>1. file'[f].ref = 0 /\ file'[f].type = "CLOSED"
  BY DEF Closed
<1> QED BY <1>1, Zenon DEF RefOK

\* A file that process p has in hand.
LEMMA HeldRef ==
  ASSUME NEW f \in FileIds, NEW p \in Procs, Holds(p, f)',
         \A r \in Procs \ {p} : ~Holds(r, f)', file'[f].ref = 1, Descriptors(f)' = {},
         file'[f].type # "CLOSED", file'[f].type = "PIPE" => file'[f].pipe \in Pipes
  PROVE  RefOK(f)'
<1>1. file'[f].ref # 0
  OBVIOUS
<1> QED BY <1>1, Zenon DEF RefOK

\* A panic changes nothing else.
LEMMA StillA ==
  ASSUME AInv, UNCHANGED <<ofile, file, pipe, pc, cur, killed>>
  PROVE  AInv'
<1>1. \A r \in Procs : Woken(r)
  BY DEF Woken
<1>2. \A r \in Procs : HandOK(r)'
  BY <1>1, WokenHand, Zenon DEF AInv
<1>3. RefsOK'
  BY <1>1, WokenHand, QuietRefs, Zenon DEF AInv
<1> QED BY <1>2, <1>3, AParts, AInvStep, Zenon

\* sys_open
LEMMA OpenA ==
  ASSUME AInv, NEW p \in Procs, Open(p)
  PROVE  AInv'
<1>1. CASE UNCHANGED <<ofile, file, pipe, pc, cur, killed>>
  BY <1>1, StillA
<1>2. CASE \E f \in FileIds, fd \in Fds :
        /\ file[f].type = "CLOSED" /\ ofile[p][fd] = 0
        /\ ofile' = [ofile EXCEPT ![p][fd] = f]
        /\ file' = [file EXCEPT ![f] = [NewFile EXCEPT !.type = "INODE", !.readable = 1]]
        /\ UNCHANGED <<pipe, pc, cur, killed>>
  <2>1. PICK f \in FileIds, fd \in Fds :
        /\ file[f].type = "CLOSED" /\ ofile[p][fd] = 0
        /\ ofile' = [ofile EXCEPT ![p][fd] = f]
        /\ file' = [file EXCEPT ![f] = [NewFile EXCEPT !.type = "INODE", !.readable = 1]]
        /\ UNCHANGED <<pipe, pc, cur, killed>>
    BY <1>2, ZenonT(30)
  <2> DEFINE x == [NewFile EXCEPT !.type = "INODE", !.readable = 1]
  <2>2. x \in FileRec /\ file' = [file EXCEPT ![f] = x] /\ x.type = "INODE" /\ x.ref = 1
    BY <2>1, NewFiles, Zenon
  <2> HIDE DEF x
  <2>3. file'[f].type = "INODE" /\ file'[f].ref = 1
    BY <2>2, AParts
  <2>4. /\ ofile' \in [Procs -> [Fds -> 0..NFILE]]
        /\ \A r \in Procs : \A e \in Fds :
             ofile'[r][e] = IF r = p /\ e = fd THEN f ELSE ofile[r][e]
    BY <2>1, AParts DEF FileIds
  <2>5. file[f].ref = 0 /\ Cardinality(Descriptors(f)) = 0 /\ (\A r \in Procs : ~Holds(r, f))
        /\ 0 \notin FileIds
    BY <2>1, AParts, FreeFile DEF FileIds
  <2>6. \A r \in Procs : pc'[r] = pc[r] /\ cur'[r] = cur[r]
    BY <2>1, Zenon
  <2>7. \A r \in Procs : \A g \in FileIds : Holds(r, g)' <=> Holds(r, g)
    BY <2>6, HandKept
  <2>8. RefOK(f)'
    <3>1. Cardinality(Descriptors(f)') = 0 + 1
      BY <2>1, <2>4, <2>5, DescAdd
    <3> QED BY <2>3, <2>5, <2>7, <3>1 DEF RefOK
  <2>9. HandOK(p)'
    <3>1. pc[p] = "user"
      BY DEF Open, Calls, At
    <3> QED BY <2>6, <3>1 DEF HandOK, Pending
  <2>10. \A r \in Procs : \A e \in Fds : \A g \in FileIds \ {f} :
           ofile'[r][e] = g <=> ofile[r][e] = g
    BY <2>1, <2>4, <2>5
  <2> HIDE DEF x
  <2> QED BY <2>1, <2>2, <2>4, <2>5, <2>6, <2>7, <2>8, <2>9, <2>10, AParts, OneFileA, ZenonT(30)
<1> QED BY <1>1, <1>2 DEF Open, Panic, IsLeast, FreeFds, FreeFiles

\* sys_dup
LEMMA DupA ==
  ASSUME AInv, NEW p \in Procs, Dup(p)
  PROVE  AInv' /\ fault' = fault
<1>1. PICK fd \in Fds, new \in Fds, f \in 0..NFILE :
        /\ ofile[p][fd] = f /\ f # 0 /\ ofile[p][new] = 0
        /\ IF file[f].ref < 1 \/ file[f].type = "CLOSED" THEN Panic("filedup")
           ELSE /\ ofile' = [ofile EXCEPT ![p][new] = f]
                /\ file' = [file EXCEPT ![f].ref = @ + 1]
                /\ UNCHANGED <<pipe, pc, cur, killed, fault>>
  BY AParts DEF Dup, IsLeast, FreeFds
<1> DEFINE x == [file[f] EXCEPT !.ref = @ + 1]
<1>2. /\ f \in FileIds /\ file[f].type \in {"PIPE", "INODE"}
      /\ file[f].ref = Cardinality(Descriptors(f)) /\ file[f].ref >= 1
      /\ \A r \in Procs : ~Holds(r, f)
  BY <1>1, AParts, OpenFile, Zenon
<1>n. file[f].ref \in Nat /\ file[f] \in FileRec
  BY <1>2, AParts DEF FileRec
<1>3. /\ ofile' = [ofile EXCEPT ![p][new] = f] /\ file' = [file EXCEPT ![f] = x]
      /\ UNCHANGED <<pipe, pc, cur, killed, fault>>
  BY <1>1, <1>2, <1>n
<1>4. x \in FileRec /\ x.ref = file[f].ref + 1 /\ x.type = file[f].type /\ x.pipe = file[f].pipe
  BY <1>n DEF FileRec
<1>5. file'[f].ref = file[f].ref + 1 /\ file'[f].type = file[f].type /\ file'[f].pipe = file[f].pipe
  BY <1>2, <1>3, <1>4, AParts
<1> HIDE DEF x
<1>6. /\ ofile' \in [Procs -> [Fds -> 0..NFILE]]
      /\ \A r \in Procs : \A e \in Fds :
           ofile'[r][e] = IF r = p /\ e = new THEN f ELSE ofile[r][e]
  BY <1>2, <1>3, AParts DEF FileIds
<1>7. \A r \in Procs : pc'[r] = pc[r] /\ cur'[r] = cur[r]
  BY <1>3
<1>8. \A r \in Procs : \A g \in FileIds : Holds(r, g)' <=> Holds(r, g)
  BY <1>7, HandKept
<1>9. 0 \notin FileIds
  BY DEF FileIds
<1>10. RefOK(f)'
  <2>1. Cardinality(Descriptors(f)') = Cardinality(Descriptors(f)) + 1
    <3>1. ofile[p][new] # f /\ \A r \in Procs : \A e \in Fds :
            ofile'[r][e] = f <=> ofile[r][e] = f \/ (r = p /\ e = new)
      BY <1>1, <1>2, <1>6, <1>9
    <3> QED BY <3>1, DescAdd, Zenon
  <2>2. file[f].type = "PIPE" => file[f].pipe \in Pipes
    BY <1>2, AParts DEF RefsOK, RefOK
  <2>3. file[f].ref + 1 # 0
    BY <1>n
  <2> QED BY <1>2, <1>5, <1>8, <2>1, <2>2, <2>3, DescRef, Zenon
<1>11. HandOK(p)'
  <2>1. pc[p] = "user"
    BY DEF Dup, Calls, At
  <2> QED BY <1>7, <2>1, Zenon DEF HandOK, Pending
<1>12. \A r \in Procs : \A e \in Fds : \A g \in FileIds \ {f} :
         ofile'[r][e] = g <=> ofile[r][e] = g
  BY <1>1, <1>6, <1>9
<1>13. \A r \in Procs \ {p} :
         /\ \A e \in Fds : ofile'[r][e] = ofile[r][e]
         /\ ~Holds(r, f) /\ pc'[r] = pc[r] /\ cur'[r] = cur[r]
  BY <1>2, <1>6, <1>7
<1>14. pc' \in [Procs -> Pcs] /\ cur' \in [Procs -> CallType] /\ UNCHANGED <<pipe, killed>>
  BY <1>3, AParts
<1> QED BY <1>2, <1>3, <1>4, <1>6, <1>8, <1>10, <1>11, <1>12, <1>13, <1>14, OneFileA, ZenonT(30)

\* What fileclose does to a file that is open and has a type: it never panics.
LEMMA FileCloses ==
  ASSUME AInv, NEW p \in Procs, NEW f \in FileIds, NEW then, file[f].type \in {"PIPE", "INODE"},
         file[f].ref >= 1, FileClose(p, f, then)
  PROVE  /\ UNCHANGED <<pipe, killed, fault>>
         /\ \/ /\ file[f].ref > 1 /\ file' = [file EXCEPT ![f].ref = @ - 1]
               /\ Goto(p, then) /\ UNCHANGED cur
            \/ /\ file[f].ref = 1 /\ file' = [file EXCEPT ![f] = Closed]
               /\ file[f].type = "INODE" /\ Goto(p, then) /\ UNCHANGED cur
            \/ /\ file[f].ref = 1 /\ file' = [file EXCEPT ![f] = Closed]
               /\ file[f].type = "PIPE" /\ Goto(p, "pipeclose")
               /\ cur' = [cur EXCEPT ![p] = [k |-> file[f].pipe, n |-> @.n,
                            w |-> EndOf(f), then |-> then]]
<1>1. file[f].ref \in Nat
  BY AParts DEF FileRec
<1>2. ~(file[f].ref < 1 \/ file[f].type = "CLOSED") /\ file[f].type # "NONE"
      /\ (file[f].ref > 1 \/ file[f].ref = 1) /\ ~(file[f].ref > 1 /\ file[f].ref = 1)
  BY <1>1
<1> QED BY <1>2, Zenon DEF FileClose

\* fileclose of a descriptor, by close or exit
LEMMA CloseFdA ==
  ASSUME AInv, NEW p \in Procs, NEW then \in {"user", "exit"}, pc[p] = then,
         NEW fd \in Fds, ofile[p][fd] # 0, ofile' = [ofile EXCEPT ![p][fd] = 0],
         FileClose(p, ofile[p][fd], then)
  PROVE  AInv' /\ fault' = fault
<1>1. PICK f \in 0..NFILE : ofile[p][fd] = f /\ f # 0 /\ FileClose(p, f, then)
  BY AParts
<1>2. /\ f \in FileIds /\ file[f].type \in {"PIPE", "INODE"}
      /\ file[f].ref = Cardinality(Descriptors(f)) /\ file[f].ref >= 1
      /\ \A r \in Procs : ~Holds(r, f)
  BY <1>1, AParts, OpenFile, Zenon
<1>3. file[f].ref \in Nat /\ file[f] \in FileRec /\ (file[f].type = "PIPE" => file[f].pipe \in Pipes)
      /\ 0 \notin FileIds
  BY <1>2, AParts DEF FileRec, RefsOK, RefOK, FileIds
<1>4. /\ ofile' \in [Procs -> [Fds -> 0..NFILE]]
      /\ \A r \in Procs : \A e \in Fds :
           ofile'[r][e] = IF r = p /\ e = fd THEN 0 ELSE ofile[r][e]
  BY AParts, Sizes
<1>5. /\ \A r \in Procs : \A e \in Fds : \A g \in FileIds \ {f} :
           ofile'[r][e] = g <=> ofile[r][e] = g
      /\ \A r \in Procs : \A e \in Fds :
           ofile'[r][e] = f <=> ofile[r][e] = f /\ ~(r = p /\ e = fd)
      /\ \A r \in Procs \ {p} : \A e \in Fds : ofile'[r][e] = ofile[r][e]
  BY <1>1, <1>2, <1>3, <1>4
<1>6. Cardinality(Descriptors(f)') = file[f].ref - 1
  <2>1. Cardinality(Descriptors(f)') = Cardinality(Descriptors(f)) - 1
    BY <1>1, <1>5, DescDrop
  <2> QED BY <1>2, <2>1, Zenon
<1>7. /\ UNCHANGED <<pipe, killed, fault>>
      /\ \/ /\ file[f].ref > 1 /\ file' = [file EXCEPT ![f].ref = @ - 1]
            /\ Goto(p, then) /\ UNCHANGED cur
         \/ /\ file[f].ref = 1 /\ file' = [file EXCEPT ![f] = Closed]
            /\ file[f].type = "INODE" /\ Goto(p, then) /\ UNCHANGED cur
         \/ /\ file[f].ref = 1 /\ file' = [file EXCEPT ![f] = Closed]
            /\ file[f].type = "PIPE" /\ Goto(p, "pipeclose")
            /\ cur' = [cur EXCEPT ![p] = [k |-> file[f].pipe, n |-> @.n,
                         w |-> EndOf(f), then |-> then]]
  <2>1. FileClose(p, f, then) /\ f \in FileIds /\ file[f].type \in {"PIPE", "INODE"} /\ file[f].ref >= 1
    BY <1>1, <1>2, Zenon
  <2> QED BY <2>1, FileCloses
<1>8. /\ pc' \in [Procs -> Pcs] /\ cur' \in [Procs -> CallType]
      /\ \A r \in Procs \ {p} : pc'[r] = pc[r] /\ cur'[r] = cur[r]
      /\ \/ pc'[p] = then
         \/ pc'[p] = "pipeclose" /\ cur'[p].then = then /\ cur'[p].k \in Pipes
  <2>1. "pipeclose" \in Pcs /\ then \in Pcs /\ pc \in [Procs -> Pcs] /\ cur \in [Procs -> CallType]
    BY AParts, Zenon DEF Pcs
  <2>2. CASE Goto(p, then) /\ UNCHANGED cur
    BY <2>1, <2>2 DEF Goto
  <2>3. CASE /\ Goto(p, "pipeclose") /\ file[f].type = "PIPE"
             /\ cur' = [cur EXCEPT ![p] = [k |-> file[f].pipe, n |-> @.n,
                          w |-> EndOf(f), then |-> then]]
    <3>1. [k |-> file[f].pipe, n |-> cur[p].n, w |-> EndOf(f), then |-> then] \in CallType
      BY <1>3, <2>1, <2>3, Sizes DEF CallType, EndOf, FileRec, Pipes
    <3>2. cur'[p] = [k |-> file[f].pipe, n |-> cur[p].n, w |-> EndOf(f), then |-> then]
      BY <2>1, <2>3
    <3>3. cur' \in [Procs -> CallType] /\ \A r \in Procs \ {p} : cur'[r] = cur[r]
      BY <2>1, <2>3, <3>1
    <3>4. pc' \in [Procs -> Pcs] /\ pc'[p] = "pipeclose" /\ \A r \in Procs \ {p} : pc'[r] = pc[r]
      BY <2>1, <2>3 DEF Goto
    <3> QED BY <1>3, <2>3, <3>2, <3>3, <3>4
  <2> QED BY <1>7, <2>2, <2>3, Zenon
<1>9. \A r \in Procs : \A g \in FileIds : Holds(r, g)' <=> Holds(r, g)
  <2>1. \A g \in FileIds : ~Holds(p, g)' /\ ~Holds(p, g)
    BY <1>8 DEF Holds, Pending
  <2> QED BY <1>8, <2>1, HandKept
<1>10. HandOK(p)'
  BY <1>8, Zenon DEF HandOK, Pending
<1>11. PICK x \in FileRec : /\ file' = [file EXCEPT ![f] = x]
                            /\ \/ x = Closed /\ file[f].ref = 1
                               \/ /\ file[f].ref > 1 /\ x.ref = file[f].ref - 1
                                  /\ x.type = file[f].type /\ x.pipe = file[f].pipe
  <2>1. CASE file[f].ref > 1 /\ file' = [file EXCEPT ![f].ref = @ - 1]
    <3>1. /\ [file[f] EXCEPT !.ref = @ - 1] \in FileRec
          /\ [file[f] EXCEPT !.ref = @ - 1].ref = file[f].ref - 1
          /\ [file[f] EXCEPT !.ref = @ - 1].type = file[f].type
          /\ [file[f] EXCEPT !.ref = @ - 1].pipe = file[f].pipe
      BY <1>3, <2>1 DEF FileRec
    <3> QED BY <2>1, <3>1, Zenon
  <2>2. CASE file[f].ref = 1 /\ file' = [file EXCEPT ![f] = Closed]
    BY <2>2, NewFiles, ZenonT(30)
  <2> QED BY <1>7, <2>1, <2>2, Zenon
<1>12. file'[f] = x
  BY <1>2, <1>11, AParts
<1>13. RefOK(f)'
  <2>1. CASE x = Closed /\ file[f].ref = 1
    <3>1. Cardinality(Descriptors(f)') = 0
      BY <1>6, <2>1
    <3> QED BY <1>2, <1>9, <1>12, <2>1, <3>1, ClosedRef, Zenon
  <2>2. CASE /\ file[f].ref > 1 /\ x.ref = file[f].ref - 1
             /\ x.type = file[f].type /\ x.pipe = file[f].pipe
    <3>1. x.ref # 0
      BY <1>3, <2>2
    <3> QED BY <1>2, <1>3, <1>6, <1>9, <1>12, <2>2, <3>1, DescRef, Zenon
  <2> QED BY <1>11, <2>1, <2>2
<1>14. UNCHANGED <<pipe, killed>> /\ fault' = fault
  BY <1>7
<1>15. \A r \in Procs \ {p} : ~Holds(r, f) /\ pc'[r] = pc[r] /\ cur'[r] = cur[r]
  BY <1>2, <1>8
<1> QED BY <1>2, <1>4, <1>5, <1>8, <1>9, <1>10, <1>11, <1>13, <1>14, <1>15, OneFileA, Zenon

\* sys_close
LEMMA CloseA ==
  ASSUME AInv, NEW p \in Procs, Close(p)
  PROVE  AInv' /\ fault' = fault
BY CloseFdA, Zenon DEF Close, Calls, At

\* exit's loop, and the end of it
LEMMA ExitCloseA ==
  ASSUME AInv, NEW p \in Procs, ExitClose(p)
  PROVE  AInv' /\ fault' = fault
<1>1. pc[p] = "exit"
  BY DEF ExitClose, At
<1>2. CASE /\ \A fd \in Fds : ofile[p][fd] = 0
           /\ Goto(p, "unused") /\ killed' = [killed EXCEPT ![p] = FALSE]
           /\ UNCHANGED <<ofile, file, pipe, cur, fault>>
  <2>1. pc'[p] = "unused" /\ (\A r \in Procs \ {p} : pc'[r] = pc[r]) /\ pc' \in [Procs -> Pcs]
    BY <1>2, AParts DEF Goto, Pcs
  <2>2. killed' \in [Procs -> BOOLEAN]
    BY <1>2, AParts, Zenon
  <2>3. \A r \in Procs \ {p} : Woken(r)
    BY <1>2, <2>1 DEF Woken
  <2>4. HandOK(p)' /\ \A f \in FileIds : Holds(p, f)' <=> Holds(p, f)
    <3>1. HandOK(p)'
      BY <1>1, <1>2, <2>1, Zenon DEF HandOK, Pending
    <3>2. \A f \in FileIds : Holds(p, f)' <=> Holds(p, f)
      BY <1>1, <1>2, <2>1, Zenon DEF Holds, Pending
    <3> QED BY <3>1, <3>2, Zenon
  <2> QED BY <1>2, <2>1, <2>2, <2>3, <2>4, AParts, QuietA, Zenon
<1>3. CASE \E fd \in Fds : /\ ofile[p][fd] # 0 /\ ofile' = [ofile EXCEPT ![p][fd] = 0]
                           /\ FileClose(p, ofile[p][fd], "exit")
  BY <1>1, <1>3, CloseFdA, Zenon
<1> QED BY <1>2, <1>3, Zenon DEF ExitClose, IsLeast, FreeFds

\* sys_pipe gives back an end: fileclose of a file in hand
LEMMA UndoA ==
  ASSUME AInv, NEW p \in Procs, Undo1(p) \/ Undo2(p)
  PROVE  AInv' /\ fault' = fault
<1>1. PICK f \in FileIds, then \in {"user", "undo2"} :
        /\ Holds(p, f) /\ file[f].type = "PIPE" /\ FileClose(p, f, then) /\ UNCHANGED ofile
        /\ pc[p] \in {"undo1", "undo2"}
        /\ then = "undo2" => pc[p] = "undo1" /\ f = cur[p].k
        /\ then = "user" => pc[p] = "undo2" /\ f = cur[p].n
  <2>1. CASE Undo1(p)
    <3>1. pc[p] = "undo1" /\ FileClose(p, cur[p].k, "undo2") /\ UNCHANGED ofile
      BY <2>1, Zenon DEF Undo1, At
    <3>2. cur[p].k \in FileIds /\ file[cur[p].k].type = "PIPE" /\ Holds(p, cur[p].k)
      BY <3>1 DEF AInv, HandOK, Holds
    <3> QED BY <3>1, <3>2
  <2>2. CASE Undo2(p)
    <3>1. pc[p] = "undo2" /\ FileClose(p, cur[p].n, "user") /\ UNCHANGED ofile
      BY <2>2, Zenon DEF Undo2, At
    <3>2. cur[p].n \in FileIds /\ file[cur[p].n].type = "PIPE" /\ Holds(p, cur[p].n)
      BY <3>1 DEF AInv, HandOK, Holds, Pending
    <3> QED BY <3>1, <3>2
  <2> QED BY <2>1, <2>2
<1>2. /\ file[f].ref = 1 /\ (\A r \in Procs : Holds(r, f) => r = p)
      /\ \A r \in Procs : \A fd \in Fds : ofile[r][fd] # f
  BY <1>1, AParts, HeldFile, ZenonT(30)
<1>3. file[f] \in FileRec /\ file[f].pipe \in Pipes
  BY <1>1, AParts DEF RefsOK, RefOK
<1>4. /\ UNCHANGED <<pipe, killed, fault>> /\ file' = [file EXCEPT ![f] = Closed]
      /\ Goto(p, "pipeclose")
      /\ cur' = [cur EXCEPT ![p] = [k |-> file[f].pipe, n |-> @.n, w |-> EndOf(f), then |-> then]]
  <2>1. FileClose(p, f, then) /\ file[f].type \in {"PIPE", "INODE"} /\ file[f].ref >= 1
        /\ ~(file[f].ref > 1) /\ file[f].type # "INODE"
    BY <1>1, <1>2
  <2> QED BY <2>1, FileCloses
<1>5. /\ pc' \in [Procs -> Pcs] /\ pc'[p] = "pipeclose"
      /\ \A r \in Procs \ {p} : pc'[r] = pc[r] /\ cur'[r] = cur[r]
  BY <1>4, AParts DEF Goto, Pcs
<1>6. cur'[p] = [k |-> file[f].pipe, n |-> cur[p].n, w |-> EndOf(f), then |-> then]
  BY <1>4, AParts
<1>7. cur' \in [Procs -> CallType]
  <2>1. [k |-> file[f].pipe, n |-> cur[p].n, w |-> EndOf(f), then |-> then] \in CallType
    BY <1>1, <1>3, AParts, Sizes DEF CallType, EndOf, FileRec, Pipes
  <2> QED BY <1>4, <2>1, AParts
<1>8. cur'[p].k \in Pipes /\ cur'[p].n = cur[p].n /\ cur'[p].then = then
  BY <1>3, <1>6
<1>9. then = "undo2" => cur[p].n \in FileIds /\ cur[p].n # f /\ file[cur[p].n].type = "PIPE"
  BY <1>1, ZenonT(30) DEF AInv, HandOK
<1>10. \A g \in FileIds : Holds(p, g)' <=> then = "undo2" /\ cur[p].n = g
  BY <1>5, <1>8 DEF Holds, Pending
<1>11. \A g \in FileIds \ {f} : Holds(p, g)' <=> Holds(p, g)
  <2>1. \A g \in FileIds : Holds(p, g) <=> \/ pc[p] = "undo1" /\ (g = cur[p].k \/ g = cur[p].n)
                                           \/ pc[p] = "undo2" /\ g = cur[p].n
    BY <1>1 DEF Holds, Pending
  <2> QED BY <1>1, <1>10, <2>1
<1>12. HandOK(p)'
  <2>1. then = "undo2" => file'[cur[p].n].type = "PIPE"
    BY <1>4, <1>9, AParts
  <2>2. Pending(p, "undo2")' => then = "undo2"
    BY <1>5, <1>8 DEF Pending
  <2>3. Pending(p, "undo2")' => cur'[p].n \in FileIds /\ file'[cur'[p].n].type = "PIPE"
    BY <1>8, <1>9, <2>1, <2>2, Zenon
  <2> QED BY <1>5, <1>8, <2>3, Zenon DEF HandOK
<1>13. RefOK(f)'
  <2>1. \A r \in Procs : ~Holds(r, f)'
    <3>1. ~Holds(p, f)'
      BY <1>9, <1>10
    <3>2. \A r \in Procs \ {p} : ~Holds(r, f)'
      BY <1>1, <1>2, <1>5, HandKept
    <3> QED BY <3>1, <3>2
  <2>2. Descriptors(f)' = Descriptors(f) /\ Cardinality(Descriptors(f)) = 0
    BY <1>1, <1>2, DescSame, NoDesc
  <2>3. file'[f] = Closed
    BY <1>1, <1>4, AParts
  <2> QED BY <1>1, <2>1, <2>2, <2>3, ClosedRef, Zenon
<1>14. ofile' \in [Procs -> [Fds -> 0..NFILE]] /\ \A r \in Procs : \A fd \in Fds : ofile'[r][fd] = ofile[r][fd]
  BY <1>1, AParts
<1>15. \A r \in Procs \ {p} : ~Holds(r, f) /\ pc'[r] = pc[r] /\ cur'[r] = cur[r]
  BY <1>2, <1>5
<1>16. UNCHANGED <<pipe, killed>> /\ Closed \in FileRec /\ fault' = fault
  BY <1>4, NewFiles
<1> QED BY <1>1, <1>4, <1>5, <1>7, <1>11, <1>12, <1>13, <1>14, <1>15, <1>16, OneFileA, Zenon

\* pipealloc's first filealloc
LEMMA PipeCallA ==
  ASSUME AInv, NEW p \in Procs, PipeCall(p)
  PROVE  AInv'
<1>1. PICK f \in FileIds : /\ file[f].type = "CLOSED" /\ file' = [file EXCEPT ![f] = NewFile]
                           /\ cur' = [cur EXCEPT ![p] = [NoCall EXCEPT !.k = f]]
                           /\ Goto(p, "pipealloc1") /\ UNCHANGED <<ofile, pipe, killed, fault>>
  BY ZenonT(30) DEF PipeCall, IsLeast, FreeFiles
<1>2. pc[p] = "user"
  BY DEF PipeCall, Calls, At
<1>3. /\ \A r \in Procs : ~Holds(r, f)
      /\ \A r \in Procs : \A fd \in Fds : ofile[r][fd] # f
  BY <1>1, AParts, FreeFile, Zenon
<1>4. /\ pc' \in [Procs -> Pcs] /\ pc'[p] = "pipealloc1"
      /\ \A r \in Procs \ {p} : pc'[r] = pc[r] /\ cur'[r] = cur[r]
  BY <1>1, AParts DEF Goto, Pcs
<1>5. cur' \in [Procs -> CallType] /\ cur'[p].k = f
  <2>1. [NoCall EXCEPT !.k = f] \in CallType /\ [NoCall EXCEPT !.k = f].k = f
    BY <1>1, Sizes DEF NoCall, CallType, FileIds
  <2> QED BY <1>1, <2>1, AParts
<1>6. file'[f] = NewFile /\ NewFile \in FileRec /\ NewFile.type = "NONE" /\ NewFile.ref = 1
  BY <1>1, NewFiles, AParts
<1>7. \A g \in FileIds : ~Holds(p, g) /\ (Holds(p, g)' <=> g = f)
  BY <1>2, <1>4, <1>5 DEF Holds, Pending
<1>8. HandOK(p)'
  BY <1>1, <1>4, <1>5, <1>6, Zenon DEF HandOK, Pending
<1>9. RefOK(f)'
  <2>1. \A r \in Procs \ {p} : ~Holds(r, f)'
    BY <1>1, <1>3, <1>4, HandKept
  <2>2. Descriptors(f)' = {}
    BY <1>1, <1>3, DescSame, NoDesc
  <2>3. "NONE" # "CLOSED" /\ "NONE" # "PIPE"
    OBVIOUS
  <2> QED BY <1>1, <1>6, <1>7, <2>1, <2>2, <2>3, HeldRef, Zenon
<1>10. ofile' \in [Procs -> [Fds -> 0..NFILE]] /\ \A r \in Procs : \A fd \in Fds : ofile'[r][fd] = ofile[r][fd]
  BY <1>1, AParts
<1>11. \A g \in FileIds \ {f} : Holds(p, g)' <=> Holds(p, g)
  BY <1>7
<1>12. \A r \in Procs \ {p} : ~Holds(r, f) /\ pc'[r] = pc[r] /\ cur'[r] = cur[r]
  BY <1>3, <1>4
<1>13. UNCHANGED <<pipe, killed>>
  BY <1>1
<1> QED BY <1>1, <1>4, <1>5, <1>6, <1>8, <1>9, <1>10, <1>11, <1>12, <1>13, OneFileA, Zenon

\* the second filealloc
LEMMA PipeAlloc1A ==
  ASSUME AInv, NEW p \in Procs, PipeAlloc1(p)
  PROVE  AInv'
<1>1. CASE UNCHANGED <<ofile, file, pipe, pc, cur, killed>>
  BY <1>1, StillA
<1>2. CASE \E f \in FileIds : /\ file[f].type = "CLOSED" /\ file' = [file EXCEPT ![f] = NewFile]
                              /\ cur' = [cur EXCEPT ![p].n = f]
                              /\ Goto(p, "pipealloc2") /\ UNCHANGED <<ofile, pipe, killed>>
  <2>1. PICK f \in FileIds : /\ file[f].type = "CLOSED" /\ file' = [file EXCEPT ![f] = NewFile]
                             /\ cur' = [cur EXCEPT ![p].n = f]
                             /\ Goto(p, "pipealloc2") /\ UNCHANGED <<ofile, pipe, killed>>
    BY <1>2, ZenonT(30)
  <2>2. pc[p] = "pipealloc1" /\ cur[p].k \in FileIds /\ file[cur[p].k].type = "NONE"
    BY DEF PipeAlloc1, At, AInv, HandOK
  <2>3. /\ \A r \in Procs : ~Holds(r, f)
        /\ \A r \in Procs : \A fd \in Fds : ofile[r][fd] # f
    BY <2>1, AParts, FreeFile, Zenon
  <2>4. /\ pc' \in [Procs -> Pcs] /\ pc'[p] = "pipealloc2"
        /\ \A r \in Procs \ {p} : pc'[r] = pc[r] /\ cur'[r] = cur[r]
    BY <2>1, AParts DEF Goto, Pcs
  <2>5. cur' \in [Procs -> CallType] /\ cur'[p].k = cur[p].k /\ cur'[p].n = f
    <3>1. f \in 0..(NFILE + PIPESIZE + Wrap)
      BY Sizes DEF FileIds
    <3> QED BY <2>1, <3>1, AParts, ZenonT(30) DEF CallType
  <2>6. file'[f] = NewFile /\ NewFile \in FileRec /\ NewFile.type = "NONE" /\ NewFile.ref = 1
    BY <2>1, NewFiles, AParts
  <2>7. \A g \in FileIds : /\ Holds(p, g) <=> g = cur[p].k
                           /\ Holds(p, g)' <=> g = cur[p].k \/ g = f
    BY <2>2, <2>4, <2>5 DEF Holds, Pending
  <2>8. cur[p].k # f /\ file'[cur[p].k] = file[cur[p].k]
    BY <2>1, <2>2, AParts
  <2>9. HandOK(p)'
    <3>1. cur'[p].k \in FileIds /\ cur'[p].n \in FileIds /\ cur'[p].k # cur'[p].n
      BY <2>2, <2>5, <2>8, Zenon
    <3>2. file'[cur'[p].k].type = "NONE" /\ file'[cur'[p].n].type = "NONE"
      BY <2>2, <2>5, <2>6, <2>8, Zenon
    <3> QED BY <2>4, <3>1, <3>2, Zenon DEF HandOK, Pending
  <2>10. RefOK(f)'
    <3>1. \A r \in Procs \ {p} : ~Holds(r, f)'
      BY <2>1, <2>3, <2>4, HandKept
    <3>2. Descriptors(f)' = {}
      BY <2>1, <2>3, DescSame, NoDesc
    <3>3. "NONE" # "CLOSED" /\ "NONE" # "PIPE"
      OBVIOUS
    <3> QED BY <2>1, <2>6, <2>7, <3>1, <3>2, <3>3, HeldRef, Zenon
  <2>11. ofile' \in [Procs -> [Fds -> 0..NFILE]]
         /\ \A r \in Procs : \A fd \in Fds : ofile'[r][fd] = ofile[r][fd]
    BY <2>1, AParts
  <2>12. \A g \in FileIds \ {f} : Holds(p, g)' <=> Holds(p, g)
    BY <2>7
  <2>13. \A r \in Procs \ {p} : ~Holds(r, f) /\ pc'[r] = pc[r] /\ cur'[r] = cur[r]
    BY <2>3, <2>4
  <2>14. UNCHANGED <<pipe, killed>>
    BY <2>1
  <2> QED BY <2>1, <2>4, <2>5, <2>6, <2>9, <2>10, <2>11, <2>12, <2>13, <2>14, OneFileA, Zenon
<1> QED BY <1>1, <1>2, Zenon DEF PipeAlloc1, Panic, IsLeast, FreeFiles

\* What pipealloc's success does.
AllocStep(p, k, rf, wf) ==
  /\ ~pipe[k].used
  /\ pipe' = [pipe EXCEPT ![k] = [Junk EXCEPT !.used = TRUE]]
  /\ file' = [file EXCEPT
       ![rf] = [@ EXCEPT !.type = "PIPE", !.readable = 1, !.pipe = k],
       ![wf] = [@ EXCEPT !.type = "PIPE", !.writable = 1, !.pipe = k]]
  /\ \/ /\ \E a, b \in Fds : /\ a # b /\ ofile[p][a] = 0 /\ ofile[p][b] = 0
                             /\ ofile' = [ofile EXCEPT ![p][a] = rf, ![p][b] = wf]
        /\ Goto(p, "user") /\ cur' = [cur EXCEPT ![p] = NoCall]
     \/ Goto(p, "undo1") /\ UNCHANGED <<ofile, cur>>
  /\ UNCHANGED <<killed, fault>>

\* kalloc fails and the machine stops, or there is a pipe with two ends.
LEMMA Allocs ==
  ASSUME AInv, NEW p \in Procs, PipeAlloc2(p)
  PROVE  /\ pc[p] = "pipealloc2"
         /\ \/ (\A k \in Pipes : pipe[k].used) /\ Panic("fileclose")
            \/ \E k \in Pipes, rf, wf \in FileIds :
                 rf = cur[p].k /\ wf = cur[p].n /\ rf # wf /\ AllocStep(p, k, rf, wf)
<1>1. /\ pc[p] = "pipealloc2" /\ cur[p].k \in FileIds /\ cur[p].n \in FileIds /\ cur[p].k # cur[p].n
  BY ZenonT(30) DEF PipeAlloc2, At, AInv, HandOK
<1>2. CASE (\A k \in Pipes : pipe[k].used) /\ Panic("fileclose")
  BY <1>1, <1>2
<1>3. CASE \E k \in Pipes : AllocStep(p, k, cur[p].k, cur[p].n)
  BY <1>1, <1>3, Zenon
<1> QED BY <1>2, <1>3, ZenonT(30) DEF PipeAlloc2, AllocStep, IsLeast, FreeFds

\* The entries of the two ends.
LEMMA EndFiles ==
  ASSUME AInv, NEW p, NEW k \in Pipes, NEW rf \in FileIds, NEW wf \in FileIds, rf # wf,
         AllocStep(p, k, rf, wf)
  PROVE  /\ file' \in [FileIds -> FileRec]
         /\ \A g \in FileIds \ {rf, wf} : file'[g] = file[g]
         /\ file'[rf].type = "PIPE" /\ file'[rf].pipe = k /\ file'[rf].ref = file[rf].ref
         /\ file'[rf].readable = 1 /\ file'[rf].writable = file[rf].writable
         /\ file'[wf].type = "PIPE" /\ file'[wf].pipe = k /\ file'[wf].ref = file[wf].ref
         /\ file'[wf].writable = 1 /\ file'[wf].readable = file[wf].readable
<1> DEFINE x == [file[rf] EXCEPT !.type = "PIPE", !.readable = 1, !.pipe = k]
           y == [file[wf] EXCEPT !.type = "PIPE", !.writable = 1, !.pipe = k]
<1>1. file \in [FileIds -> FileRec] /\ file[rf] \in FileRec /\ file[wf] \in FileRec /\ k \in 0..NPIPE
      /\ 1 \in {0, 1}
  BY AParts, Sizes DEF Pipes
<1>2. /\ x \in FileRec /\ x.type = "PIPE" /\ x.pipe = k /\ x.ref = file[rf].ref
      /\ x.readable = 1 /\ x.writable = file[rf].writable
  BY <1>1, Zenon DEF FileRec
<1>3. /\ y \in FileRec /\ y.type = "PIPE" /\ y.pipe = k /\ y.ref = file[wf].ref
      /\ y.writable = 1 /\ y.readable = file[wf].readable
  BY <1>1, Zenon DEF FileRec
<1>4. file' = [file EXCEPT ![rf] = x, ![wf] = y]
  BY DEF AllocStep
<1> HIDE DEF x, y
<1>5. file' \in [FileIds -> FileRec] /\ \A g \in FileIds \ {rf, wf} : file'[g] = file[g]
  BY <1>1, <1>2, <1>3, <1>4
<1>6. file'[rf] = x /\ file'[wf] = y
  BY <1>1, <1>4
<1> QED BY <1>2, <1>3, <1>5, <1>6

\* kalloc and the two fdallocs
LEMMA PipeAlloc2A ==
  ASSUME AInv, NEW p \in Procs, PipeAlloc2(p)
  PROVE  AInv'
<1>1. CASE Panic("fileclose")
  BY <1>1, StillA DEF Panic
<1>2. CASE /\ pc[p] = "pipealloc2"
           /\ \E k \in Pipes, rf, wf \in FileIds :
                rf = cur[p].k /\ wf = cur[p].n /\ rf # wf /\ AllocStep(p, k, rf, wf)
  <2>1. PICK k \in Pipes, rf \in FileIds, wf \in FileIds :
               rf = cur[p].k /\ wf = cur[p].n /\ rf # wf /\ AllocStep(p, k, rf, wf)
    BY <1>2
  <2>2. Holds(p, rf) /\ Holds(p, wf) /\ \A g \in FileIds \ {rf, wf} : ~Holds(p, g)
    BY <1>2, <2>1 DEF Holds, Pending
  <2>3. \A f \in {rf, wf} :
          /\ file[f].ref = 1 /\ (\A r \in Procs \ {p} : ~Holds(r, f))
          /\ \A r \in Procs : \A fd \in Fds : ofile[r][fd] # f
    BY <2>2, AParts, HeldFile
  <2>4. /\ file' \in [FileIds -> FileRec]
        /\ \A g \in FileIds \ {rf, wf} : file'[g] = file[g]
        /\ \A f \in {rf, wf} : file'[f].type = "PIPE" /\ file'[f].pipe = k /\ file'[f].ref = 1
    <3>1. /\ file' \in [FileIds -> FileRec]
          /\ \A g \in FileIds \ {rf, wf} : file'[g] = file[g]
          /\ file'[rf].type = "PIPE" /\ file'[rf].pipe = k /\ file'[rf].ref = file[rf].ref
          /\ file'[wf].type = "PIPE" /\ file'[wf].pipe = k /\ file'[wf].ref = file[wf].ref
      <4>1. rf # wf /\ AllocStep(p, k, rf, wf)
        BY <2>1
      <4> QED BY <4>1, EndFiles
    <3> QED BY <2>3, <3>1
  <2>5. pipe' \in [Pipes -> PipeRec] /\ \A j \in Pipes : Ordered(pipe'[j])
    BY <2>1, JunkOrdered, AParts, Zenon DEF AllocStep
  <2>6. /\ pc' \in [Procs -> Pcs] /\ cur' \in [Procs -> CallType] /\ killed' \in [Procs -> BOOLEAN]
        /\ \A r \in Procs \ {p} : pc'[r] = pc[r] /\ cur'[r] = cur[r]
        /\ pc'[p] = "user" \/ pc'[p] = "undo1"
    <3>1. "user" \in Pcs /\ "undo1" \in Pcs /\ NoCall \in CallType
      BY Sizes DEF Pcs, NoCall, CallType
    <3>2. killed' = killed /\ \/ Goto(p, "user") /\ cur' = [cur EXCEPT ![p] = NoCall]
                              \/ Goto(p, "undo1") /\ cur' = cur
      BY <2>1 DEF AllocStep
    <3> QED BY <3>1, <3>2, AParts, Zenon DEF Goto
  <2>7. CASE Goto(p, "undo1") /\ UNCHANGED <<ofile, cur>>
    <3>1. pc'[p] = "undo1" /\ cur'[p] = cur[p]
      BY <2>7, AParts DEF Goto
    <3>2. \A r \in Procs, g \in FileIds : Holds(r, g)' <=> Holds(r, g)
      <4>1. \A g \in FileIds : Holds(p, g)' <=> g = rf \/ g = wf
        BY <2>1, <3>1 DEF Holds, Pending
      <4> QED BY <2>2, <2>6, <4>1, HandKept
    <3>3. \A g \in FileIds \ {rf, wf} : RefOK(g)'
      BY <2>4, <2>7, <3>2, RefSame
    <3>4. \A f \in {rf, wf} : RefOK(f)'
      <4> SUFFICES ASSUME NEW f \in {rf, wf}
                   PROVE  RefOK(f)'
        OBVIOUS
      <4>1. f \in FileIds /\ Holds(p, f)' /\ \A r \in Procs \ {p} : ~Holds(r, f)'
        BY <2>2, <2>3, <3>2
      <4>2. Descriptors(f)' = {}
        BY <2>3, <2>7, DescSame, NoDesc
      <4>3. file'[f].ref = 1 /\ file'[f].type = "PIPE" /\ file'[f].pipe = k
        BY <2>4
      <4>4. "PIPE" # "CLOSED"
        OBVIOUS
      <4> QED BY <4>1, <4>2, <4>3, <4>4, HeldRef, Zenon
    <3>5. HandOK(p)'
      <4>1. cur'[p].k = rf /\ cur'[p].n = wf /\ rf \in FileIds /\ wf \in FileIds /\ rf # wf
        BY <2>1, <3>1
      <4>2. file'[rf].type = "PIPE" /\ file'[wf].type = "PIPE"
        BY <2>4
      <4>3. ~Pending(p, "undo2")'
        BY <3>1, Zenon DEF Pending
      <4> QED BY <3>1, <4>1, <4>2, <4>3, Zenon DEF HandOK
    <3>6. \A r \in Procs \ {p} : HandOK(r)'
      <4> SUFFICES ASSUME NEW r \in Procs \ {p}
                   PROVE  HandOK(r)'
        OBVIOUS
      <4>1. \A g \in FileIds : Holds(r, g) => file'[g].type = file[g].type
        BY <2>3, <2>4
      <4> QED BY <2>6, <2>7, <4>1, HandKept
    <3>7. RefsOK' /\ (\A r \in Procs : HandOK(r)') /\ ofile' \in [Procs -> [Fds -> 0..NFILE]]
      BY <2>7, <3>3, <3>4, <3>5, <3>6, AParts DEF RefsOK
    <3> QED BY <2>4, <2>5, <2>6, <3>7, AInvStep, Zenon
  <2>8. CASE /\ \E a, b \in Fds : /\ a # b /\ ofile[p][a] = 0 /\ ofile[p][b] = 0
                                  /\ ofile' = [ofile EXCEPT ![p][a] = rf, ![p][b] = wf]
             /\ Goto(p, "user")
    <3>1. PICK a \in Fds, b \in Fds : /\ a # b /\ ofile[p][a] = 0 /\ ofile[p][b] = 0
                                      /\ ofile' = [ofile EXCEPT ![p][a] = rf, ![p][b] = wf]
      BY <2>8, ZenonT(30)
    <3>2. pc'[p] = "user"
      BY <2>8, AParts DEF Goto
    <3>3. /\ ofile' \in [Procs -> [Fds -> 0..NFILE]]
          /\ \A r \in Procs : \A e \in Fds :
               ofile'[r][e] = IF r = p /\ e = a THEN rf ELSE IF r = p /\ e = b THEN wf ELSE ofile[r][e]
      BY <3>1, AParts DEF FileIds
    <3>4. 0 \notin FileIds
      BY DEF FileIds
    <3>5. \A r \in Procs \ {p} : \A g \in FileIds : Holds(r, g)' <=> Holds(r, g)
      BY <2>6, HandKept
    <3>6. \A g \in FileIds : ~Holds(p, g)'
      BY <3>2 DEF Holds, Pending
    <3>7. \A g \in FileIds \ {rf, wf} : RefOK(g)'
      <4> SUFFICES ASSUME NEW g \in FileIds \ {rf, wf}
                   PROVE  RefOK(g)'
        OBVIOUS
      <4>1. \A r \in Procs : Holds(r, g)' <=> Holds(r, g)
        BY <2>2, <3>5, <3>6
      <4>2. \A r \in Procs : \A e \in Fds : ofile'[r][e] = g <=> ofile[r][e] = g
        BY <3>1, <3>3, <3>4
      <4> QED BY <2>4, <4>1, <4>2, RefSame
    <3>8. \A f \in {rf, wf} : RefOK(f)'
      <4> SUFFICES ASSUME NEW f \in {rf, wf}
                   PROVE  RefOK(f)'
        OBVIOUS
      <4>1. f \in FileIds /\ \A r \in Procs : ~Holds(r, f)'
        BY <2>3, <3>5, <3>6
      <4>2. PICK c \in Fds : \A r \in Procs : \A e \in Fds :
              ofile'[r][e] = f <=> ofile[r][e] = f \/ (r = p /\ e = c)
        <5>1. \A r \in Procs : \A e \in Fds : ofile[r][e] # f
          BY <2>3, Zenon
        <5>2. rf # wf
          BY <2>1, Zenon
        <5>3. CASE f = rf
          <6>1. \A r \in Procs : \A e \in Fds : ofile'[r][e] = f <=> r = p /\ e = a
            BY <3>3, <5>1, <5>2, <5>3
          <6>2. \A r \in Procs : \A e \in Fds :
                  ofile'[r][e] = f <=> ofile[r][e] = f \/ (r = p /\ e = a)
            BY <5>1, <6>1, Zenon
          <6> WITNESS a \in Fds
          <6> QED BY <6>2, Zenon
        <5>4. CASE f = wf
          <6>1. \A r \in Procs : \A e \in Fds : ofile'[r][e] = f <=> r = p /\ e = b
            BY <3>1, <3>3, <5>1, <5>2, <5>4
          <6>2. \A r \in Procs : \A e \in Fds :
                  ofile'[r][e] = f <=> ofile[r][e] = f \/ (r = p /\ e = b)
            BY <5>1, <6>1, Zenon
          <6> WITNESS b \in Fds
          <6> QED BY <6>2, Zenon
        <5> QED BY <5>3, <5>4, Zenon
      <4>3. ofile[p][c] # f
        BY <2>3
      <4>4. Cardinality(Descriptors(f)') = Cardinality(Descriptors(f)) + 1
        BY <4>2, <4>3, DescAdd, Zenon
      <4>5. Cardinality(Descriptors(f)) = 0
        BY <2>3, NoDesc
      <4>6. Cardinality(Descriptors(f)') = 1 /\ 1 # 0
        BY <4>4, <4>5
      <4>7. file'[f].ref = 1 /\ file'[f].type = "PIPE" /\ file'[f].pipe = k
        BY <2>4
      <4> QED BY <4>1, <4>6, <4>7, DescRef, Zenon
    <3>9. HandOK(p)'
      BY <3>2, Zenon DEF HandOK, Pending
    <3>10. \A r \in Procs \ {p} : HandOK(r)'
      <4> SUFFICES ASSUME NEW r \in Procs \ {p}
                   PROVE  HandOK(r)'
        OBVIOUS
      <4>1. \A g \in FileIds : Holds(r, g) => file'[g].type = file[g].type
        BY <2>3, <2>4
      <4>2. \A e \in Fds : ofile'[r][e] = ofile[r][e]
        BY <3>3
      <4> QED BY <2>6, <4>1, <4>2, HandKept
    <3>11. RefsOK' /\ \A r \in Procs : HandOK(r)'
      BY <3>7, <3>8, <3>9, <3>10 DEF RefsOK
    <3> QED BY <2>4, <2>5, <2>6, <3>3, <3>11, AInvStep, Zenon
  <2> QED BY <2>1, <2>7, <2>8, Zenon DEF AllocStep
<1> QED BY <1>1, <1>2, Allocs, Zenon

\* fork: the child's descriptors
LEMMA ForkA ==
  ASSUME AInv, NEW p \in Procs, Fork(p)
  PROVE  AInv' /\ fault' = fault
<1>1. PICK c \in Procs :
        /\ pc[c] = "unused" /\ ofile' = [ofile EXCEPT ![c] = ofile[p]]
        /\ file' = [f \in FileIds |-> [file[f] EXCEPT
                      !.ref = @ + Cardinality({fd \in Fds : ofile[p][fd] = f})]]
        /\ Goto(c, "user") /\ UNCHANGED <<pipe, cur, killed, fault>>
  BY ZenonT(30) DEF Fork, IsLeast
<1> DEFINE S(f) == {fd \in Fds : ofile[p][fd] = f}
<1>2. \A f \in FileIds : Cardinality(S(f)) \in Nat
  <2>1. IsFiniteSet(Fds)
    BY Sizes, FS_Interval DEF Fds
  <2> QED BY <2>1, FS_Subset, FS_CardinalityType
<1>3. /\ file' \in [FileIds -> FileRec]
      /\ \A f \in FileIds : /\ file'[f].ref = file[f].ref + Cardinality(S(f))
                            /\ file'[f].type = file[f].type /\ file'[f].pipe = file[f].pipe
                            /\ file[f].ref \in Nat
  <2>1. \A f \in FileIds : file[f] \in FileRec
    BY AParts
  <2>2. file' = [f \in FileIds |-> [file[f] EXCEPT !.ref = @ + Cardinality(S(f))]]
    BY <1>1
  <2> HIDE DEF S
  <2>3. ASSUME NEW f \in FileIds
        PROVE  /\ [file[f] EXCEPT !.ref = @ + Cardinality(S(f))] \in FileRec
               /\ [file[f] EXCEPT !.ref = @ + Cardinality(S(f))].ref = file[f].ref + Cardinality(S(f))
               /\ [file[f] EXCEPT !.ref = @ + Cardinality(S(f))].type = file[f].type
               /\ [file[f] EXCEPT !.ref = @ + Cardinality(S(f))].pipe = file[f].pipe
               /\ file[f].ref \in Nat
    BY <1>2, <2>1 DEF FileRec
  <2> QED BY <2>2, <2>3, Zenon
<1>4. /\ ofile' \in [Procs -> [Fds -> 0..NFILE]]
      /\ \A r \in Procs : \A e \in Fds : ofile'[r][e] = IF r = c THEN ofile[p][e] ELSE ofile[r][e]
  BY <1>1, AParts
<1>5. /\ pc' \in [Procs -> Pcs] /\ pc'[c] = "user" /\ (\A r \in Procs \ {c} : pc'[r] = pc[r])
      /\ \A r \in Procs : cur'[r] = cur[r]
  BY <1>1, AParts DEF Goto, Pcs
<1>6. \A r \in Procs : \A f \in FileIds : Holds(r, f)' <=> Holds(r, f)
  <2>1. \A f \in FileIds : ~Holds(c, f)' /\ ~Holds(c, f)
    BY <1>1, <1>5 DEF Holds, Pending
  <2> QED BY <1>5, <2>1, HandKept
<1>7. \A e \in Fds : ofile[c][e] = 0
  BY <1>1 DEF AInv, HandOK
<1>8. 0 \notin FileIds
  BY DEF FileIds
<1>9. ASSUME NEW f \in FileIds
      PROVE  RefOK(f)'
  <2>1. Cardinality(Descriptors(f)') = Cardinality(Descriptors(f)) + Cardinality(S(f))
    <3>1. /\ \A e \in Fds : ofile[c][e] # f
          /\ \A r \in Procs : \A e \in Fds :
               ofile'[r][e] = f <=> ofile[r][e] = f \/ (r = c /\ ofile[p][e] = f)
      BY <1>4, <1>7, <1>8
    <3> QED BY <3>1, DescCopy
  <2>2. RefOK(f) /\ Cardinality(Descriptors(f)) \in Nat
    BY AParts, DescFinite DEF RefsOK
  <2>3. CASE \A r \in Procs : ~Holds(r, f)
    <3>1. file[f].ref = Cardinality(Descriptors(f)) /\ ((file[f].ref = 0) <=> (file[f].type = "CLOSED"))
          /\ file[f].type # "NONE" /\ (file[f].type = "PIPE" => file[f].pipe \in Pipes)
      BY <2>2, <2>3, Zenon DEF RefOK
    <3>2. CASE file[f].ref = 0
      <4>1. Descriptors(f) = {} /\ file[f].type = "CLOSED"
        BY <3>1, <3>2, NoDesc, ZenonT(30)
      <4>2. S(f) = {}
        BY <4>1, NoDesc
      <4>3. Cardinality(S(f)) = 0
        BY <4>2, FS_EmptySet, Zenon
      <4>4. file'[f].ref = 0 /\ Cardinality(Descriptors(f)') = 0 /\ file'[f].type = "CLOSED"
        BY <1>3, <2>1, <3>1, <3>2, <4>1, <4>3
      <4>5. "CLOSED" # "NONE" /\ "CLOSED" # "PIPE"
        OBVIOUS
      <4> QED BY <1>6, <2>3, <4>4, <4>5, Zenon DEF RefOK
    <3>3. CASE file[f].ref # 0
      <4>1. file'[f].ref = Cardinality(Descriptors(f)') /\ file'[f].ref # 0
        BY <1>2, <1>3, <2>1, <3>1, <3>3
      <4>2. file[f].type \in {"INODE", "PIPE"}
        BY <1>3, <3>1, <3>3, AParts DEF FileRec
      <4> QED BY <1>3, <1>6, <2>3, <3>1, <4>1, <4>2, DescRef, Zenon
    <3> QED BY <3>2, <3>3
  <2>4. CASE \E r \in Procs : Holds(r, f)
    <3>1. PICK r \in Procs : Holds(r, f)
      BY <2>4
    <3>2. file[f].ref = 1 /\ Descriptors(f) = {} /\ (\A q \in Procs : Holds(q, f) => q = r)
          /\ file[f].type # "CLOSED" /\ (file[f].type = "PIPE" => file[f].pipe \in Pipes)
      BY <2>2, <3>1 DEF RefOK
    <3>3. S(f) = {}
      BY <3>2, NoDesc
    <3>4. Cardinality(S(f)) = 0
      BY <3>3, FS_EmptySet, Zenon
    <3>5. file'[f].ref = 1
      BY <1>3, <3>2, <3>4
    <3>6. Descriptors(f)' = {}
      <4>1. \A q \in Procs : \A e \in Fds : ofile[q][e] # f
        BY <3>2, NoDesc
      <4>2. \A q \in Procs : \A e \in Fds : ofile'[q][e] = f <=> ofile[q][e] = f
        BY <1>4, <4>1
      <4> QED BY <3>2, <4>2, DescSame
    <3> QED BY <1>3, <1>6, <3>1, <3>2, <3>5, <3>6, HeldRef, Zenon
  <2> QED BY <2>3, <2>4
<1>10. \A r \in Procs : HandOK(r)'
  <2>1. HandOK(c)'
    BY <1>5, Zenon DEF HandOK, Pending
  <2>2. ASSUME NEW r \in Procs \ {c}
        PROVE  HandOK(r)'
    <3>1. \A g \in FileIds : Holds(r, g) => file'[g].type = file[g].type
      BY <1>3, ZenonT(30)
    <3>2. \A e \in Fds : ofile'[r][e] = ofile[r][e]
      BY <1>4
    <3> QED BY <1>5, <3>1, <3>2, HandKept, ZenonT(30)
  <2> QED BY <2>1, <2>2
<1>11. RefsOK' /\ fault' = fault
  BY <1>1, <1>9 DEF RefsOK
<1>12. pipe' \in [Pipes -> PipeRec] /\ cur' \in [Procs -> CallType] /\ killed' \in [Procs -> BOOLEAN]
       /\ \A k \in Pipes : Ordered(pipe'[k])
  BY <1>1, AParts
<1> QED BY <1>3, <1>4, <1>5, <1>10, <1>11, <1>12, AInvStep, Zenon

\* The tables hold together at boot.
LEMMA InitA ==
  ASSUME Init
  PROVE  AInv
<1>1. /\ ofile \in [Procs -> [Fds -> 0..NFILE]] /\ file = [f \in FileIds |-> Closed]
      /\ \A p \in Procs : /\ \A fd \in Fds : ofile[p][fd] = 0
                          /\ pc[p] \in {"user", "unused"}
  BY Sizes DEF Init
<1>2. \A p \in Procs : HandOK(p) /\ \A f \in FileIds : ~Holds(p, f)
  BY <1>1 DEF HandOK, Holds, Pending
<1>3. \A f \in FileIds : file[f] = Closed
  BY <1>1
<1>4. RefsOK
  <2> SUFFICES ASSUME NEW f \in FileIds
               PROVE  RefOK(f)
    BY DEF RefsOK
  <2>1. 0 \notin FileIds
    BY DEF FileIds
  <2>2. Cardinality(Descriptors(f)) = 0
    BY <1>1, <2>1, NoDesc
  <2>3. file[f].ref = 0 /\ file[f].type = "CLOSED" /\ "CLOSED" # "NONE" /\ "CLOSED" # "PIPE"
    BY <1>3 DEF Closed
  <2> QED BY <1>2, <2>2, <2>3, Zenon DEF RefOK
<1>5. file \in [FileIds -> FileRec]
  BY <1>1, NewFiles, Zenon
<1>6. file \in [FileIds -> [type : {"CLOSED", "NONE", "PIPE", "INODE"}, ref : 0..(NPROC * NOFILE),
                            readable : {0, 1}, writable : {0, 1}, pipe : 0..NPIPE]]
  BY <1>4, <1>5, RefBound, Zenon
<1>7. pipe \in [Pipes -> PipeRec] /\ \A k \in Pipes : Ordered(pipe[k])
  BY JunkOrdered, Zenon DEF Init
<1>8. pc \in [Procs -> Pcs]
  BY DEF Init, Pcs
<1>9. cur \in [Procs -> CallType]
  <2>1. NoCall \in CallType
    BY Sizes DEF NoCall, CallType
  <2> QED BY <2>1, Zenon DEF Init
<1>10. killed \in [Procs -> BOOLEAN]
  BY Zenon DEF Init
<1> QED BY <1>1, <1>2, <1>4, <1>6, <1>7, <1>8, <1>9, <1>10, Zenon DEF AInv, TypeOK, PipeRec, Pcs
=============================================================================
