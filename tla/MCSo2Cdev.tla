---------------------------- MODULE MCSo2Cdev ----------------------------
(***************************************************************************)
(* Instances of So2Cdev for TLC.                                           *)
(***************************************************************************)
EXTENDS So2Cdev, TLC

CONSTANT a

Text1 == <<a>>

Symmetry == Permutations(Threads) \cup Permutations(Files)
=============================================================================
