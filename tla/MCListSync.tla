--------------------------- MODULE MCListSync ----------------------------
(***************************************************************************)
(* Instances of ListSync for TLC.                                          *)
(***************************************************************************)
EXTENDS ListSync
=============================================================================
