--------------------------- MODULE MCPacketFilter ---------------------------
(***************************************************************************)
(* Instances of PacketFilter for TLC.                                      *)
(***************************************************************************)
EXTENDS PacketFilter, TLC

Symmetry == Permutations(Programs)
=============================================================================
