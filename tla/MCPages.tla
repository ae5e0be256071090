------------------------------ MODULE MCPages ------------------------------
(***************************************************************************)
(* Two characters; three events, two for the sources that most pages show. *)
(***************************************************************************)
EXTENDS Pages
CONSTANTS a, b
Symmetry == Permutations(Characters)
MCLimit == [s \in {"assets", "jump clones", "skills", "wallet balance"} |-> 2] @@ [s \in Sources |-> 3]
=============================================================================
