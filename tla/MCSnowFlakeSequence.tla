------------------------ MODULE MCSnowFlakeSequence -------------------------
(***************************************************************************)
(* A small instance of SnowFlakeSequence for TLC: two JVMs whose numbers   *)
(* differ in one field, so that the pair is distinct as it has to be.      *)
(***************************************************************************)
EXTENDS SnowFlakeSequence

CONSTANTS j1, j2

MCJvm == {j1, j2}

MCDatacenter == [j \in MCJvm |-> 1]
MCMachine == [j \in MCJvm |-> IF j = j1 THEN 0 ELSE 1]

\* An action constraint: clocks are set back or JVMs are started again, but not
\* both, because a clock that was set back is accepted after a restart.  Only
\* faults are cut off, and none of them is fair.
OneFaultStep == OneFault'
=============================================================================
