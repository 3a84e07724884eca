------------------------------ MODULE MCSched ------------------------------
(* Sched for TLC: short slices stand for 20 and 500 ticks.                  *)
EXTENDS SchedProps

MCMaxSlices == [l \in 1..2 |-> l]
=============================================================================
