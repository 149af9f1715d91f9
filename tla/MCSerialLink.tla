---------------------------- MODULE MCSerialLink ----------------------------
(* Instances of SerialLink for TLC. *)
EXTENDS SerialLink, TLC

CONSTANTS c1, c2

MCCallers == {c1, c2}

Symmetry == Permutations(MCCallers)

=============================================================================
