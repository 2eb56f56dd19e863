----------------------------- MODULE MCSketches -----------------------------
(***************************************************************************)
(* Sketches on one metric, with buckets of one, two and four time units.   *)
(***************************************************************************)
EXTENDS Sketches

Items == 1..4

\* Items are interchangeable: they are first observed in the order of 1..4.
FirstInOrder ==
  update'.at = "observed" /\ update.at = "idle"
  => \A i \in 1..update'.item - 1 : \E o \in seen : o[1] = i
=============================================================================
