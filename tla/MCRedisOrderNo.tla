--------------------------- MODULE MCRedisOrderNo ---------------------------
(***************************************************************************)
(* A small instance of RedisOrderNo for TLC.                               *)
(***************************************************************************)
EXTENDS RedisOrderNo, TLC

\* The JVMs are interchangeable, and so are the threads and the callers.
Symmetry == Permutations(Jvm) \cup Permutations(Thread) \cup Permutations(Caller)
=============================================================================
