------------------------- MODULE MCDeferredTimer -------------------------
(***************************************************************************)
(* Instances of DeferredTimer for TLC.                                     *)
(***************************************************************************)
EXTENDS DeferredTimer, TLC

Symmetry == Permutations(Threads) \cup Permutations(Tasks) \cup Permutations(Nodes)
=============================================================================
