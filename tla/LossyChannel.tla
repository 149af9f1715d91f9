--------------------------- MODULE LossyChannel ---------------------------
(***************************************************************************)
(* What the uplink promises ("Non-synchronized best-effort channel"):      *)
(* packets may be lost anywhere, but what the application pops was sent,   *)
(* is popped once, and, InOrder, in the order it was sent.                 *)
(***************************************************************************)
EXTENDS Naturals, Sequences

CONSTANT InOrder  \* packets do not overtake each other

VARIABLES
  sent,      \* number of packets sent so far
  pending,   \* the packets that may still be delivered
  delivered  \* the packets delivered so far

channelVars == <<sent, pending, delivered>>

ChannelInit == sent = 0 /\ pending = {} /\ delivered = <<>>

SendPacket ==
  /\ sent' = sent + 1
  /\ pending' = pending \cup {sent'}
  /\ UNCHANGED delivered

LosePackets ==
  /\ pending' \in SUBSET pending
  /\ UNCHANGED <<sent, delivered>>

(* Once n is delivered it is not delivered again, nor, InOrder, is a packet *)
(* that was sent before it.                                                 *)
DeliverPacket(n) ==
  /\ n \in pending
  /\ delivered' = Append(delivered, n)
  /\ pending' \in SUBSET {m \in pending : m # n /\ (InOrder => m > n)}
  /\ UNCHANGED sent

ChannelNext == SendPacket \/ LosePackets \/ \E n \in pending : DeliverPacket(n)

ChannelSpec == ChannelInit /\ [][ChannelNext]_channelVars

===========================================================================
