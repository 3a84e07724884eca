-------------------------------- MODULE Lock --------------------------------
(***************************************************************************)
(* What struct spinlock (spinlock.h, spinlock.c) promises its users: a     *)
(* lock is free or owned by one CPU, acquire takes a free lock and release *)
(* gives up a lock of the caller's own.  Spinlock.tla, the instruction     *)
(* level model of spinlock.c, implements this specification.               *)
(***************************************************************************)
CONSTANTS CPU, NoCpu, Locks

VARIABLE owner

LInit == owner = [l \in Locks |-> NoCpu]

Take(c, l) ==
  /\ owner[l] = NoCpu
  /\ owner' = [owner EXCEPT ![l] = c]

Drop(c, l) ==
  /\ owner[l] = c
  /\ owner' = [owner EXCEPT ![l] = NoCpu]

LNext == \E c \in CPU, l \in Locks : Take(c, l) \/ Drop(c, l)

LSpec == LInit /\ [][LNext]_owner
=============================================================================
