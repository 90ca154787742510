------------------------- MODULE MCAutomationManager -------------------------
(***************************************************************************)
(* An instance of the automations for TLC.                                 *)
(***************************************************************************)
EXTENDS AutomationManager, TLC

CONSTANT a1
=============================================================================
