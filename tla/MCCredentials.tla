---------------------------- MODULE MCCredentials ----------------------------
(* The goroutines under which Credentials is checked. *)
EXTENDS Credentials

CONSTANTS r1, r2, l1, h1, h2
=============================================================================
