------------------------------- MODULE MCStores -------------------------------
(* Two migrations, of two statements and of one, and two goroutines. *)
EXTENDS Stores

CONSTANTS u1, u2
TwoMigrations == <<2, 1>>
=============================================================================
