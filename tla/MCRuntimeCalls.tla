---------------------------- MODULE MCRuntimeCalls ----------------------------
(***************************************************************************)
(* An instance of the calls of a turn for TLC.                             *)
(***************************************************************************)
EXTENDS RuntimeCalls, TLC

CONSTANTS c1, c2
=============================================================================
