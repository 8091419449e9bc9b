------------------------- MODULE MCZookeeperSequence -------------------------
(***************************************************************************)
(* Small instances of ZookeeperSequence for TLC: two JVMs, and two threads *)
(* in the first of them.                                                   *)
(***************************************************************************)
EXTENDS ZookeeperSequence

CONSTANTS j1, j2, c1, c2, c3

MCJvm == {j1, j2}
MCCaller == {c1, c2, c3}
MCHome == [c \in MCCaller |-> IF c = c3 THEN j2 ELSE j1]
=============================================================================
