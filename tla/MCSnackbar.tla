----------------------------- MODULE MCSnackbar -----------------------------
(* Instances of Snackbar for TLC. *)
EXTENDS Snackbar, TLC

\* Starts and callers of Stop are interchangeable.  Only for runs without
\* liveness.
BarSymmetry == Permutations(Getters) \cup Permutations(Stoppers)
=============================================================================
