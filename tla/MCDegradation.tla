---------------------------- MODULE MCDegradation ----------------------------
(***************************************************************************)
(* Instances of Degradation for TLC.  reasoning belongs to the nominal     *)
(* profile and a new boot revalidates it; terminal is optional, so it      *)
(* matters only to the task, which cannot safely lose it.  Instances with  *)
(* one capability have reasoning alone, and the task requires that.        *)
(***************************************************************************)
EXTENDS Degradation

CONSTANTS reasoning, terminal, t1

Pick(a, b) == [c \in Capability |-> IF c = reasoning THEN a ELSE b]

MCNominalRequirement == Pick("required", "optional")
MCBothRequired == Pick("required", "required")
MCMaterialClass == Pick("cognitive", "operational")
MCTaskRequires ==
  [t \in Task |-> IF terminal \in Capability THEN {terminal} ELSE {reasoning}]
MCUnsafeIfLost == MCTaskRequires
MCVolatile == Capability \cap {reasoning}
=============================================================================
