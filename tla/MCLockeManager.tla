--------------------------- MODULE MCLockeManager ---------------------------
(***************************************************************************)
(* A small instance of LockeManager for TLC.                               *)
(***************************************************************************)
EXTENDS LockeManager
=============================================================================
