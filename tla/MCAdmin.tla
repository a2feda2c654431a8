------------------------------- MODULE MCAdmin -------------------------------
(***************************************************************************)
(* Small instances of Admin for TLC.                                       *)
(***************************************************************************)
EXTENDS MCJobQueue, Admin

CONSTANT o1
=============================================================================
