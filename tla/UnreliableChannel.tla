------------------------- MODULE UnreliableChannel -------------------------
(***************************************************************************)
(* One direction of the path between the two programs of the reliable data *)
(* transport project: the proxy mock_network.py, which forwards one        *)
(* datagram at a time and may drop it, and the receive buffer of the UDP   *)
(* socket that UnreliableSocket::receive reads.                            *)
(*                                                                         *)
(* A channel is the sequence of the segments that are on their way, the    *)
(* oldest first.  The proxy is a single loop around recvfrom and sendto,   *)
(* so it neither reorders nor duplicates: every duplicate comes from a     *)
(* retransmission.  Real UDP may reorder; Reordering switches that on.     *)
(***************************************************************************)
EXTENDS Integers, Sequences, SequencesExt

CONSTANTS
  Cap,         \* how many segments a direction holds; one more is dropped
  Reordering,  \* TRUE: any segment on its way may be the next to arrive
  Lossy        \* TRUE: the proxy runs with a loss rate above 0

ASSUME CapAssumption == Cap \in Nat \ {0}
ASSUME ModeAssumption == Reordering \in BOOLEAN /\ Lossy \in BOOLEAN

\* UnreliableSocket::send never blocks and reports no loss: what does not fit
\* is gone.
Send(channel, segment) ==
  IF Len(channel) < Cap THEN Append(channel, segment) ELSE channel

\* The positions of the segments that UnreliableSocket::receive may return.
Deliverable(channel) ==
  {i \in DOMAIN channel : Reordering \/ i = 1}

\* What is still on its way once the segment at position i was received or
\* dropped.
Without(channel, i) == RemoveAt(channel, i)

\* The positions of the segments that the proxy may drop.
Droppable(channel) == {i \in DOMAIN channel : Lossy /\ i = 1}
=============================================================================
