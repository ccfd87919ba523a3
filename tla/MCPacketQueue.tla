--------------------------- MODULE MCPacketQueue ---------------------------
(***************************************************************************)
(* PacketQueue with little memory.                                         *)
(***************************************************************************)
EXTENDS PacketQueue

CONSTANTS p1, p2, c1, c2, c3, c4, a, b

=============================================================================
