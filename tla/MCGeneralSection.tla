-------------------------- MODULE MCGeneralSection --------------------------
(* Instances of GeneralSection for TLC. *)
EXTENDS GeneralSection, TLC

\* Callers and contents are interchangeable.  Only for runs without liveness.
Symmetries == Permutations(Callers) \cup Permutations(Contents)
=============================================================================
