----------------------- MODULE MCZookeeperSequencePro -----------------------
(***************************************************************************)
(* Small instances of ZookeeperSequencePro for TLC.                        *)
(***************************************************************************)
EXTENDS ZookeeperSequencePro, TLC

Symmetry == Permutations(Jvm)

\* Nothing fails: no exception, lost answer, crash or expired session.
FaultFreeSpec == Init /\ [][\E j \in Jvm : Step(j)]_vars
=============================================================================
