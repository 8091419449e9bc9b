---------------------------- MODULE RedisCounter ----------------------------
(***************************************************************************)
(* The RAtomicLong in Redis under a sequence's key.                        *)
(***************************************************************************)
EXTENDS Naturals

CONSTANT MaxCounter  \* bound: Redis counts no further

ASSUME MaxCounterAssumption == MaxCounter \in Nat

VARIABLE counter
=============================================================================
