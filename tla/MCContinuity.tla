---------------------------- MODULE MCContinuity ----------------------------
(***************************************************************************)
(* Instances of Continuity for TLC.  Processes and work are interchangeable *)
(* within each set.                                                        *)
(***************************************************************************)
EXTENDS Continuity, TLC

Symmetry == Permutations(Process) \cup Permutations(Work)
=============================================================================
