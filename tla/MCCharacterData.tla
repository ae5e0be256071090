--------------------------- MODULE MCCharacterData ---------------------------
(* The bounds under which CharacterData is checked. *)
EXTENDS CharacterData

CONSTANTS i1, i2, n1, n2

MCItems == {i1, i2}
MCNotifiers == {n1, n2}
MCTwoLabels == {i1}
MCAuctions == {i1}
MCLimit ==
    [s \in CharacterSections |->
        [notifiers |-> IF s = "contracts" THEN {n1, n2} ELSE {n1},
         items |-> IF s = "planets" THEN {i1} ELSE Items,
         events |-> IF s = "planets" THEN 2 ELSE 1,
         faults |-> 1, all |-> IF s = "mails" THEN 1 ELSE 2]]
=============================================================================
