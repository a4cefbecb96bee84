--------------------------- MODULE MCAllModules --------------------------
(***************************************************************************)
(* An instance of AllModules for TLC.                                      *)
(***************************************************************************)
EXTENDS AllModules

\* A module that init loads: its parent is process 0, which is its own parent.
LoadedByInit == <<1, 0, 0>>
=============================================================================
