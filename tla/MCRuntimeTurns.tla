---------------------------- MODULE MCRuntimeTurns ----------------------------
(***************************************************************************)
(* Instances of the threads and turns for TLC.                             *)
(***************************************************************************)
EXTENDS RuntimeTurns, TLC

CONSTANTS t1, t2, q1, q2

\* Threads are alike, and so are calls.
MCSymmetry == Permutations(Threads) \cup Permutations(Requests)
=============================================================================
