---------------------------- MODULE MCMemoryMap ----------------------------
(***************************************************************************)
(* Instances of MemoryMap for TLC.                                         *)
(***************************************************************************)
EXTENDS MemoryMap, TLC

Symmetry == Permutations(Threads) \cup Permutations(Files)
=============================================================================
