---------------------- MODULE MCSnowFlakeAutoSequence -----------------------
(***************************************************************************)
(* Small instances of SnowFlakeAutoSequence for TLC.                       *)
(***************************************************************************)
EXTENDS SnowFlakeAutoSequence, TLC

Symmetry == Permutations(Jvm)

\* Nothing is claimed of ids once a renewal was late or failed: such states are
\* followed up without ids only.
IdsWhileTimely == Timely \/ issued = << >>
=============================================================================
