----------------------------- MODULE MCEventBus -----------------------------
(***************************************************************************)
(* Instances of EventBus for TLC: crash reports are errors, polls are      *)
(* routine.                                                                *)
(***************************************************************************)
EXTENDS EventBus

CONSTANTS crash, poll
=============================================================================
