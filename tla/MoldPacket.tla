----------------------------- MODULE MoldPacket -----------------------------
(***************************************************************************)
(* mold/packet.hpp: the header both ends of a MoldUDP64 stream agree on.   *)
(* A packet is its header and how many of the blocks its header promises   *)
(* its bytes hold; message i of a packet has the sequence number it was    *)
(* framed under.                                                           *)
(***************************************************************************)
EXTENDS Naturals

CONSTANT EndOfSession  \* kEndOfSession: the count that is not a count

ASSUME EndOfSessionAssumption == EndOfSession \in Nat /\ EndOfSession > 1

\* The number after the last one the header covers.
End(p) == p.sequence + p.count

\* Neither a heartbeat nor the end of the session.
IsData(p) == p.count \notin {0, EndOfSession}
=============================================================================
