-------------------------- MODULE MCNumberSequence --------------------------
(***************************************************************************)
(* A small instance of NumberSequence for TLC.                             *)
(***************************************************************************)
EXTENDS NumberSequence, TLC

Symmetry == Permutations(Object) \cup Permutations(Thread)
=============================================================================
