------------------------------ MODULE MCKbd ------------------------------
(***************************************************************************)
(* Instances of Kbd for TLC.                                               *)
(***************************************************************************)
EXTENDS Kbd, TLC

\* a, b, and the release of a
Keys3 == {30, 48, 158}

Symmetry == Permutations(Threads) \cup Permutations(CPUs)
=============================================================================
