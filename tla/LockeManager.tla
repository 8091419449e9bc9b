---------------------------- MODULE LockeManager ----------------------------
(***************************************************************************)
(* LockeManager offers two locks, REDIS_ORDER_NO (RedisLock) and           *)
(* ZK_ORDER_NO (ZookeeperLock).  A thread is in one call of either at a    *)
(* time and may hold both, taken in any order.                             *)
(***************************************************************************)
EXTENDS RedisLock

CONSTANT Orphan  \* of ZookeeperLock

ASSUME OrphanAssumption == Orphan \notin Thread

VARIABLES nodes, local, zkPc, timed, zkDepth, unserved, zkLapsed

\* calls and faults are counted together.
Zk == INSTANCE ZookeeperLock
    WITH pc <- zkPc, depth <- zkDepth, lapsed <- zkLapsed

redisVars == <<keyVars, pc, depth, lapsed>>
zkVars == <<nodes, local, zkPc, timed, zkDepth, unserved, zkLapsed>>
lockVars == <<redisVars, zkVars, calls, faults>>

LockInit == Init /\ Zk!Init

\* A thread goes on in the call it is in, or calls.
RedisStep(t) == zkPc[t] = "idle" /\ Step(t) /\ UNCHANGED zkVars
ZkStep(t) == pc[t] = "idle" /\ Zk!Step(t) /\ UNCHANGED redisVars

LockNext ==
    \/ Tick /\ UNCHANGED zkVars
    \/ Zk!Server /\ UNCHANGED redisVars
    \/ \E t \in Thread :
        \/ RedisStep(t)
        \/ ZkStep(t)
        \/ Crash(t) /\ Zk!Crash(t)

LockSpec == LockInit /\ [][LockNext]_lockVars

\* A caller that is in no call unlocks what it has locked, as the finally
\* blocks of LockeManagerTest do, whatever else it calls before.
CallersUnlock ==
    \A t \in Thread :
        /\ SF_lockVars(depth[t] > 0 /\ UnlockCall(t) /\ RedisStep(t))
        /\ SF_lockVars(zkDepth[t] > 0 /\ Zk!Unlock(t) /\ ZkStep(t))

FairLockSpec == LockSpec /\ Fairness /\ Zk!Fairness /\ CallersUnlock

-----------------------------------------------------------------------------
\* The ZooKeeper lock is a distributed lock to the threads it has served, with
\* faults, expired leases and calls of the Redis lock between its steps.
ZkRefines == Zk!RefinesDistributedLock

\* Why it is: the nodes of the threads, and the locks their JVMs count.
ZkIInv == Zk!IInv

\* What the JVM remembers of the ZooKeeper lock agrees with its nodes.
ZkLocalAgrees == Zk!LocalAgrees

\* Every call ends, although two threads may take the two locks in opposite
\* orders and no wait needs to time out: the lease of the Redis lock ends.
CallsEnd ==
    \A t \in Thread :
        pc[t] # "idle" \/ zkPc[t] # "idle" ~> pc[t] = "idle" /\ zkPc[t] = "idle"
=============================================================================
