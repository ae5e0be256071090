---------------------------- MODULE MCSyncQueue ----------------------------
(* Instances of SyncQueue for TLC. *)
EXTENDS SyncQueue, TLC

\* Getters are interchangeable.  Only for runs without liveness.
GetterSymmetry == Permutations(Getters)
=============================================================================
