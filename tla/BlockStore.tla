----------------------------- MODULE BlockStore -----------------------------
(***************************************************************************)
(* What the buffer cache promises the file system: disk blocks that one    *)
(* process at a time holds between bread and brelse, reads as they were    *)
(* last written, and writes as a whole.                                    *)
(***************************************************************************)
CONSTANTS Procs, Blocks, Values, NoProc, NoValue

VARIABLES content,   \* what is on each block
          owner,     \* the process between bread and brelse of it, or NoProc
          view       \* the data that process sees

Init ==
  /\ content \in [Blocks -> Values]
  /\ owner = [x \in Blocks |-> NoProc]
  /\ view = [x \in Blocks |-> NoValue]

\* bread returns
Get(p, x) ==
  /\ owner[x] = NoProc
  /\ owner' = [owner EXCEPT ![x] = p]
  /\ view' = [view EXCEPT ![x] = content[x]]
  /\ UNCHANGED content

\* bwrite has happened
Put(p, x, v) ==
  /\ owner[x] = p
  /\ content' = [content EXCEPT ![x] = v]
  /\ view' = [view EXCEPT ![x] = v]
  /\ UNCHANGED owner

\* brelse
Release(p, x) ==
  /\ owner[x] = p
  /\ owner' = [owner EXCEPT ![x] = NoProc]
  /\ view' = [view EXCEPT ![x] = NoValue]
  /\ UNCHANGED content

Next == \E p \in Procs, x \in Blocks :
          Get(p, x) \/ Release(p, x) \/ \E v \in Values : Put(p, x, v)

Spec == Init /\ [][Next]_<<content, owner, view>>
=============================================================================
