--------------------------- MODULE MCPacketCapture ---------------------------
(* A small instance of PacketCapture for TLC. *)
EXTENDS PacketCapture

\* 0 and 1 are payload lengths, 2 is the magic byte and a length too large.
MCOctets == 0 .. 2
=============================================================================
