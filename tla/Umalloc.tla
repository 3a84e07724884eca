------------------------------ MODULE Umalloc -------------------------------
(***************************************************************************)
(* malloc() and free() of user programs (umalloc.c): a circular list of    *)
(* free blocks in address order, entered at freep.  An address counts      *)
(* units of one Header; base, the list's own header, has address 0, below  *)
(* the heap that sbrk() extends.  A program is sequential, so each call is *)
(* one step.                                                               *)
(***************************************************************************)
EXTENDS Integers, FiniteSets

CONSTANTS
  HEAP,      \* units the kernel can give before sbrk() fails
  HDR,       \* sizeof(Header), in bytes
  MINU,      \* PAGE, the least number of units morecore() asks for
  PGU,       \* units in a page of the kernel
  Requests   \* nbytes of the calls of malloc() explored

VARIABLES
  heap,      \* hdr: the headers; freep; brk: the first unit past the heap
  inuse,     \* addresses of the blocks the program holds
  refused    \* the kernel panicked in kalloc(), which sbrk() leads to

uvars == <<heap, inuse, refused>>

Base == 0
Null == -1
NoHdr == [ptr |-> Null, size |-> 0]
Ptr(s, p) == s.hdr[p].ptr
Size(s, p) == s.hdr[p].size

-----------------------------------------------------------------------------
\* The loop of free(): the block after which bp belongs.
RECURSIVE Place(_, _, _)
Place(s, bp, p) ==
  IF \/ bp > p /\ bp < Ptr(s, p)
     \/ p >= Ptr(s, p) /\ (bp > p \/ bp < Ptr(s, p))
  THEN p ELSE Place(s, bp, Ptr(s, p))

\* Does free() join bp to the block after it?
\* Mutant of JoinsUp: it never does.
MJoinsUp(s, bp, n) == FALSE
JoinsUp(s, bp, n) == bp + Size(s, bp) = n

\* free(): bp joins the block after it, then the one before it joins bp.  A
\* header that ends up inside a block is not read again and is forgotten.
Freed(s, bp) ==
  LET p == Place(s, bp, s.freep)
      n == Ptr(s, p)
      up == JoinsUp(s, bp, n)
      down == p + Size(s, p) = bp
      b == IF up THEN [size |-> Size(s, bp) + Size(s, n), ptr |-> Ptr(s, n)]
           ELSE [size |-> Size(s, bp), ptr |-> n]
      q == IF down THEN [size |-> Size(s, p) + b.size, ptr |-> b.ptr]
           ELSE [size |-> Size(s, p), ptr |-> bp]
      joined == [s.hdr EXCEPT ![n] = IF up THEN NoHdr ELSE @]
  IN  [s EXCEPT !.hdr = [joined EXCEPT ![bp] = IF down THEN NoHdr ELSE b, ![p] = q],
                !.freep = p]

\* morecore(): at least MINU units, which become one block, freed at once.
\* sbrk() fails without memory, and kalloc() panics unless asked for pages.
Asks(n) == IF n < MINU THEN MINU ELSE n
SbrkFails(s, n) == s.brk + Asks(n) > HEAP + 1
SbrkPanics(n) == Asks(n) % PGU # 0
Morecore(s, n) ==
  Freed([s EXCEPT !.hdr[s.brk].size = Asks(n), !.brk = @ + Asks(n)], s.brk)

\* Taking n units from block p, which follows prevp: all of it, or its tail.
Cut(s, prevp, p, n) ==
  LET rest == Size(s, p) - n
  IN  IF rest = 0
      THEN [at |-> p, s |-> [s EXCEPT !.hdr = [@ EXCEPT ![prevp].ptr = Ptr(s, p), ![p].ptr = Null],
                                        !.freep = prevp]]
      ELSE [at |-> p + rest,
            s |-> [s EXCEPT !.hdr = [@ EXCEPT ![p].size = rest, ![p + rest].size = n],
                            !.freep = prevp]]

\* The loop of malloc(): the first block that is large enough; once around
\* the list, more memory, and on from where that went.
RECURSIVE Search(_, _, _, _)
Search(s, prevp, p, n) ==
  IF Size(s, p) >= n THEN Cut(s, prevp, p, n)
  ELSE IF p # s.freep THEN Search(s, p, Ptr(s, p), n)
  ELSE IF SbrkPanics(n) \/ SbrkFails(s, n) THEN [at |-> Null, s |-> s]
  ELSE LET m == Morecore(s, n) IN Search(m, m.freep, Ptr(m, m.freep), n)

Started(s) ==
  IF s.freep # Null THEN s
  ELSE [s EXCEPT !.hdr[Base] = [ptr |-> Base, size |-> 0], !.freep = Base]

Malloc(nbytes) ==
  /\ ~refused
  /\ LET n == (nbytes + HDR - 1) \div HDR + 1
         s == Started(heap)
         r == Search(s, s.freep, Ptr(s, s.freep), n)
     IN  /\ heap' = r.s
         /\ inuse' = inuse \cup ({r.at} \ {Null})
         /\ refused' = (r.at = Null /\ SbrkPanics(n))

Free(bp) ==
  /\ ~refused /\ bp \in inuse
  /\ heap' = Freed(heap, bp) /\ inuse' = inuse \ {bp}
  /\ UNCHANGED refused

Init ==
  /\ heap = [hdr |-> [a \in 0 .. HEAP |-> NoHdr], freep |-> Null, brk |-> 1]
  /\ inuse = {} /\ refused = FALSE

Next == (\E n \in Requests : Malloc(n)) \/ (\E bp \in inuse : Free(bp))

-----------------------------------------------------------------------------
\* The blocks on the free list: those a walk from base meets.
FreeBlocks ==
  LET Met[k \in 0 .. HEAP] == IF k = 0 THEN Ptr(heap, Base) ELSE Ptr(heap, Met[k - 1])
  IN  {Met[k] : k \in 0 .. HEAP} \ {Base}

Extent(p) == p .. p + Size(heap, p) - 1

\* Every unit of the heap is in one block, free or held by the program, the
\* free list is a ring in address order through base and freep, and no two
\* free blocks touch: free() finds the right place from wherever freep is
\* and joins both neighbours.
HeapExact ==
  heap.freep # Null =>
    LET blocks == FreeBlocks \cup inuse
    IN  /\ FreeBlocks \cap inuse = {} /\ heap.freep \in FreeBlocks \cup {Base}
        /\ \A p, q \in blocks : p # q => Extent(p) \cap Extent(q) = {}
        /\ UNION {Extent(p) : p \in blocks} = 1 .. heap.brk - 1
        /\ \A p \in FreeBlocks : Ptr(heap, p) = Base \/ Ptr(heap, p) > p + Size(heap, p)
=============================================================================
