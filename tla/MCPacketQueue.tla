--------------------------- MODULE MCPacketQueue ---------------------------
(* Two requests race for the packets of one DPC and one hook.             *)
EXTENDS PacketQueue
=============================================================================
