-------------------------- MODULE MCSectionUpdate --------------------------
(* Instances of SectionUpdate for TLC. *)
EXTENDS SectionUpdate, TLC

\* Callers and keys are interchangeable: no action or property names one.
Symmetries == Permutations(Callers) \cup Permutations(Keys)
=============================================================================
