-------------------------- MODULE MCPacketExchange --------------------------
(* A small instance of PacketExchange: two frames, a receiver for one. *)
EXTENDS PacketExchange

CONSTANTS f1, f2, r1

MCFrameFor == r1 :> f1
MCCallers  == {"connector", "router"}

=============================================================================
