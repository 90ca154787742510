---------------------------- MODULE MCFleetLedger ----------------------------
(***************************************************************************)
(* An instance of the ledger for TLC.  One run has two tasks and a single  *)
(* worker (capacity 1), so every lease and every restart competes for it;  *)
(* a second worker belongs to no run.                                      *)
(***************************************************************************)
EXTENDS FleetLedger, TLC

CONSTANTS r1, t1, t2, w1, w2

OneRunOf     == t1 :> r1 @@ t2 :> r1
OneWorkersOf == r1 :> {w1}
OneMaxActive == r1 :> 1
=============================================================================
