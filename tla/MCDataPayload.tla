--------------------------- MODULE MCDataPayload ---------------------------
(* Instances of DataPayload for TLC. *)
EXTENDS DataPayload

(* A brew lasts one tick of its clock. *)
MCBrewTime == [p \in Profile |-> 1]

=============================================================================
