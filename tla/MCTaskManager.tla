---------------------------- MODULE MCTaskManager ----------------------------
(***************************************************************************)
(* An instance of the task manager for TLC: two workers share two tasks.   *)
(***************************************************************************)
EXTENDS TaskManager, TLC

CONSTANTS t1, t2, w1, w2
=============================================================================
