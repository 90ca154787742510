--------------------------- MODULE MCFleetScheduler ---------------------------
(***************************************************************************)
(* Instances of the scheduler for TLC: one run with one worker, and one or *)
(* two tasks that share it.                                                *)
(***************************************************************************)
EXTENDS FleetScheduler, TLC

CONSTANTS r1, t1, t2, w1, s1, s2

MCRunOf       == [t \in Tasks |-> r1]
MCWorkersOf   == r1 :> {w1}
MCMaxActive   == r1 :> 1
MCMaxAttempts == [t \in Tasks |-> IF t = t1 THEN 2 ELSE 1]
=============================================================================
