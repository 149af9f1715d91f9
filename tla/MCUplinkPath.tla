---------------------------- MODULE MCUplinkPath ----------------------------
(* Instances of UplinkPath for TLC. *)
EXTENDS UplinkPath, TLC

CONSTANTS r1, r2

MCReader == {r1}
MCReaders == {r1, r2}

Symmetry == Permutations(MCReaders)

(* Three uplink packets, the second with a start mark in its payload, an    *)
(* acknowledgement between them, and a frame of a type the host does not    *)
(* know.  The last byte of a payload tells the frames apart.                *)
MCMessages ==
  << [type |-> DATA, payload |-> << <<21>> >>],
     [type |-> DATA, payload |-> << <<165>>, <<90>>, <<22>> >>],
     [type |-> <<7>>, payload |-> << <<23>> >>],
     [type |-> DATA, payload |-> << <<24>> >>],
     [type |-> <<9>>, payload |-> << <<25>> >>] >>

(* On a damaged line: without the acknowledgement, the unknown frame before *)
(* the last packet.                                                         *)
MCDamaged == <<MCMessages[1], MCMessages[2], MCMessages[5], MCMessages[4]>>

(* Read by two threads. *)
MCOvertaken == <<MCMessages[1], MCMessages[4]>>

ASSUME FramesTellable == Tellable

=============================================================================
