---------------------------- MODULE MCFleetManager ----------------------------
(***************************************************************************)
(* Instances of the manager loop for TLC: one run with one or two tasks    *)
(* for one worker.                                                         *)
(***************************************************************************)
EXTENDS FleetManager, TLC

CONSTANTS r1, w1, m1, m2

\* Tasks are numbers in their queue order.
MCPriority == [t \in Tasks |-> t]

OneRunOf     == [t \in Tasks |-> r1]
OneWorkersOf == r1 :> {w1}
OneMaxActive == r1 :> 1
OneWorkerSeq == r1 :> <<w1>>
OneCreator   == r1 :> m1
=============================================================================
