------------------------------ MODULE MCBcache ------------------------------
(* Bcache for TLC *)
EXTENDS Bcache, TLC

CONSTANTS p1, p2, p3, x1, x2, x3
MCProcs == {p1, p2, p3}
MCBlocks == {x1, x2, x3}
MCReadFails == {FALSE}
=============================================================================
