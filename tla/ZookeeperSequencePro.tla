------------------------ MODULE ZookeeperSequencePro ------------------------
(***************************************************************************)
(* ZookeeperSequencePro: identifiers from the data of a ZooKeeper node,    *)
(* granted in segments of Period under an InterProcessSemaphoreMutex and   *)
(* handed out from a cache that a pool thread refills ahead of need.       *)
(*                                                                         *)
(* next() and fetchSegment() are synchronized on the one object of a JVM   *)
(* (SequenceManager.ZK_PRO_ORDER_NO).  Threads that wait for that monitor  *)
(* have no state of their own, so a JVM has any number of callers: who[j]  *)
(* is the kind of thread inside, pc[j] where it is.  The code is broken    *)
(* where ZooKeeper or another JVM can interfere.                           *)
(***************************************************************************)
EXTENDS Integers, Sequences

CONSTANTS Jvm,          \* the JVMs that share the ZooKeeper node
          NoOne,        \* nobody has the ZooKeeper lock
          Period,       \* PERIOD (1000 in the code)
          LowWater,     \* fewer ids left start a prefetch (PERIOD / 5)
          MaxNode,      \* bound: no segment is granted beyond it
          MaxExpiries   \* bound: sessions that expire under a live holder

ASSUME PeriodAssumption == Period \in Nat \ {0}
ASSUME LowWaterAssumption == LowWater \in Nat
ASSUME BoundsAssumption == MaxNode \in Nat /\ MaxExpiries \in Nat
ASSUME NoOneAssumption == NoOne \notin Jvm

VARIABLES node,        \* the data of zNodeName, 0 when blank, or Absent
          lockHolder,  \* the JVM whose session owns the lease of the lock
          orphans,     \* JVMs with a lease they no longer mean to hold
          expiries,    \* sessions expired so far
          curNum,      \* curNum[j], the next id of the cache of JVM j
          maxNum,      \* maxNum[j], where its cache ends
          pending,     \* pending[j], prefetches queued in FIXED_THREAD_POOL
          who,         \* who[j], the kind of thread inside the monitor
          pc,          \* pc[j], where that thread is
          curVal,      \* curVal[j], the data it read from the node
          issued,      \* issued[j], the ids next() of JVM j returned
          granted      \* granted[j], the starts of the segments j obtained

lockVars == <<lockHolder, orphans, expiries>>
zkVars == <<node, lockVars>>
cacheVars == <<curNum, maxNum>>
ctlVars == <<pending, who, pc, curVal>>
history == <<issued, granted>>
vars == <<zkVars, cacheVars, ctlVars, history>>

Absent == -1  \* the node does not exist

Who == {"init",    \* the constructor
        "caller",  \* a thread that called next()
        "pool"}    \* the pool thread, running a prefetch

PC == {"out",       \* nobody inside the monitor
       "acquire",   \* in interProcessLock.acquire()
       "read",      \* lock held: checkExists, getData
       "create",    \* lock held: the node is missing, create it
       "write",     \* lock held: setData
       "release",   \* in finally, the segment obtained
       "unwind",    \* in finally, an exception on its way
       "take",      \* return curNum++
       "dead"}      \* the constructor threw: SequenceManager is unusable

Holding(j) == pc[j] \in {"read", "create", "write", "release", "unwind"}

\* The lock recipe uses zNodeName as its own parent path, so the node may be
\* there, with blank data, before any segment has been granted.
Init ==
    /\ node \in {Absent, 0}
    /\ lockHolder = NoOne
    /\ orphans = {}
    /\ expiries = 0
    /\ curNum = [j \in Jvm |-> 0]
    /\ maxNum = [j \in Jvm |-> 0]
    /\ pending = [j \in Jvm |-> 0]
    /\ who = [j \in Jvm |-> "init"]
    /\ pc = [j \in Jvm |-> "acquire"]
    /\ curVal = [j \in Jvm |-> 0]
    /\ issued = [j \in Jvm |-> << >>]
    /\ granted = [j \in Jvm |-> {}]

Goto(j, label) == pc' = [pc EXCEPT ![j] = label]

\* A defect: a cache counts as empty only when it is overrun.
CacheOverrun(j) == curNum[j] = 0 \/ curNum[j] > maxNum[j]
\* next() must fetch before it can return an id.
CacheEmpty(j) == curNum[j] = 0 \/ curNum[j] >= maxNum[j] - 1

-----------------------------------------------------------------------------
\* A caller gets the monitor of next() and looks at the cache.
NextEnter(j) ==
    /\ pc[j] = "out"
    /\ who' = [who EXCEPT ![j] = "caller"]
    /\ Goto(j, IF CacheEmpty(j) THEN "acquire" ELSE "take")
    /\ UNCHANGED <<zkVars, cacheVars, pending, curVal, history>>

\* A defect: the pool runs a prefetch nobody queued.
PoolEnterIdle(j) ==
    /\ pc[j] = "out"
    /\ pending' = [pending EXCEPT ![j] = @ - 1]
    /\ who' = [who EXCEPT ![j] = "pool"]
    /\ Goto(j, "acquire")
    /\ UNCHANGED <<zkVars, cacheVars, curVal, history>>

\* The pool thread gets the monitor of fetchSegment() for a queued prefetch.
PoolEnter(j) ==
    /\ pc[j] = "out"
    /\ pending[j] > 0
    /\ pending' = [pending EXCEPT ![j] = @ - 1]
    /\ who' = [who EXCEPT ![j] = "pool"]
    /\ Goto(j, "acquire")
    /\ UNCHANGED <<zkVars, cacheVars, curVal, history>>

\* A defect: the outcome of acquire() is ignored.
AcquireIgnored(j) ==
    /\ pc[j] = "acquire"
    /\ lockHolder' = j
    /\ Goto(j, "read")
    /\ UNCHANGED <<node, orphans, expiries, cacheVars, pending, who,
                   curVal, history>>

\* interProcessLock.acquire() succeeds.
Acquire(j) ==
    /\ pc[j] = "acquire"
    /\ lockHolder = NoOne
    /\ lockHolder' = j
    /\ Goto(j, "read")
    /\ UNCHANGED <<node, orphans, expiries, cacheVars, pending, who,
                   curVal, history>>

\* A defect: the test of curNum is inverted, a fresh cache starts at 0.
ReadKeepsZero(j) ==
    /\ pc[j] = "read"
    /\ IF node # Absent
       THEN /\ curVal' = [curVal EXCEPT ![j] = node]
            /\ curNum' = [curNum EXCEPT ![j] = IF @ # 0 THEN node ELSE @]
            /\ Goto(j, "write")
       ELSE /\ Goto(j, "create")
            /\ UNCHANGED <<curVal, curNum>>
    /\ UNCHANGED <<zkVars, maxNum, pending, who, history>>

\* checkExists and getData.  A cache that never held an id starts at the data
\* read, before the node is written.
Read(j) ==
    /\ pc[j] = "read"
    /\ IF node # Absent
       THEN /\ curVal' = [curVal EXCEPT ![j] = node]
            /\ curNum' = [curNum EXCEPT ![j] = IF @ = 0 THEN node ELSE @]
            /\ Goto(j, "write")
       ELSE /\ Goto(j, "create")
            /\ UNCHANGED <<curVal, curNum>>
    /\ UNCHANGED <<zkVars, maxNum, pending, who, history>>

\* The two requests that grant a segment, as ZooKeeper applies them: create
\* fails on a node that exists, setData asks for no version.
CreateNode(j) ==
    /\ pc[j] = "create"
    /\ node = Absent
    /\ Period <= MaxNode
    /\ node' = Period

\* A defect: one id is written off where a segment is granted.
SetDataOne(j) ==
    /\ pc[j] = "write"
    /\ curVal[j] + Period <= MaxNode
    /\ node' = curVal[j] + 1

\* A defect: the local cache is written back, not the value read.
SetDataFromCache(j) ==
    /\ pc[j] = "write"
    /\ curNum[j] + Period <= MaxNode
    /\ node' = curNum[j] + Period

SetData(j) ==
    /\ pc[j] = "write"
    /\ curVal[j] + Period <= MaxNode
    /\ node' = curVal[j] + Period

\* The segment that starts at start is JVM j's; its cache now ends with it.
Obtain(j, start) ==
    /\ maxNum' = [maxNum EXCEPT ![j] = start + Period]
    /\ granted' = [granted EXCEPT ![j] = @ \cup {start}]
    /\ Goto(j, "release")

Create(j) ==
    /\ CreateNode(j)
    /\ Obtain(j, 0)
    /\ curNum' = [curNum EXCEPT ![j] = 0]
    /\ UNCHANGED <<lockVars, pending, who, curVal, issued>>

Write(j) ==
    /\ SetData(j)
    /\ Obtain(j, curVal[j])
    /\ UNCHANGED <<lockVars, curNum, pending, who, curVal, issued>>

\* The request is applied and its answer lost: fetchSegment throws.
AnswerLost(j) ==
    /\ CreateNode(j) \/ SetData(j)
    /\ Goto(j, "unwind")
    /\ UNCHANGED <<lockVars, cacheVars, pending, who, curVal, history>>

\* checkExists, getData, create or setData throws and has changed nothing.
RequestThrows(j) ==
    /\ pc[j] \in {"read", "create", "write"}
    /\ Goto(j, "unwind")
    /\ UNCHANGED <<zkVars, cacheVars, pending, who, curVal, history>>

\* What follows fetchSegment: the constructor publishes the object, a caller
\* goes on in next(), the pool thread is done; an exception ends all three.
AfterFetch(j) == IF who[j] = "caller" THEN "take" ELSE "out"
AfterThrow(j) == IF who[j] = "init" THEN "dead" ELSE "out"

\* acquire() throws; release() in finally throws too and that is swallowed.
AcquireThrows(j) ==
    /\ pc[j] = "acquire"
    /\ Goto(j, AfterThrow(j))
    /\ UNCHANGED <<zkVars, cacheVars, pending, who, curVal, history>>

LeaveFetch(j) ==
    \/ pc[j] = "release" /\ Goto(j, AfterFetch(j))
    \/ pc[j] = "unwind" /\ Goto(j, AfterThrow(j))

\* A defect: release() after the try block and not in finally.
ReleaseOnSuccess(j) ==
    /\ LeaveFetch(j)
    /\ lockHolder' = IF lockHolder = j /\ pc[j] = "release" THEN NoOne ELSE lockHolder
    /\ UNCHANGED <<node, orphans, expiries, cacheVars, pending, who,
                   curVal, history>>

\* finally: the lease is given back, if the session still owns it.
Release(j) ==
    /\ LeaveFetch(j)
    /\ lockHolder' = IF lockHolder = j THEN NoOne ELSE lockHolder
    /\ UNCHANGED <<node, orphans, expiries, cacheVars, pending, who,
                   curVal, history>>

\* release() throws, which is swallowed: the lease stays behind.
ReleaseThrows(j) ==
    /\ LeaveFetch(j)
    /\ lockHolder = j
    /\ orphans' = orphans \cup {j}
    /\ UNCHANGED <<node, lockHolder, expiries, cacheVars, pending, who,
                   curVal, history>>

\* return curNum++; every call that leaves less than LowWater queues a prefetch.
Take(j) ==
    /\ pc[j] = "take"
    /\ issued' = [issued EXCEPT ![j] = Append(@, curNum[j])]
    /\ curNum' = [curNum EXCEPT ![j] = @ + 1]
    /\ pending' = [pending EXCEPT ![j] =
                      IF maxNum[j] - curNum'[j] < LowWater THEN @ + 1 ELSE @]
    /\ Goto(j, "out")
    /\ UNCHANGED <<zkVars, maxNum, who, curVal, granted>>

\* JVM j dies and is started again.  Its cache and its queued prefetches are
\* gone; a lease it had is its old session's until that session ends.
Restart(j) ==
    /\ curNum' = [curNum EXCEPT ![j] = 0]
    /\ maxNum' = [maxNum EXCEPT ![j] = 0]
    /\ pending' = [pending EXCEPT ![j] = 0]
    /\ who' = [who EXCEPT ![j] = "init"]
    /\ Goto(j, "acquire")
    /\ orphans' = IF lockHolder = j THEN orphans \cup {j} ELSE orphans
    /\ UNCHANGED <<node, lockHolder, expiries, curVal, history>>

\* ZooKeeper removes the lease of a session that ended, or Curator's
\* background delete of a failed release gets through.
LeaseRemoved(j) ==
    /\ j \in orphans
    /\ orphans' = orphans \ {j}
    /\ lockHolder' = NoOne
    /\ UNCHANGED <<node, expiries, cacheVars, ctlVars, history>>

\* The session of a JVM expires while it is between acquire and release (a
\* long pause, a partition): ZooKeeper frees the lock, the JVM goes on.
SessionExpires(j) ==
    /\ Holding(j)
    /\ lockHolder = j
    /\ expiries < MaxExpiries
    /\ expiries' = expiries + 1
    /\ lockHolder' = NoOne
    /\ UNCHANGED <<node, orphans, cacheVars, ctlVars, history>>

\* The steps of the program, and those of its environment.
Step(j) ==
    \/ NextEnter(j)
    \/ PoolEnter(j)
    \/ Acquire(j)
    \/ Read(j)
    \/ Create(j)
    \/ Write(j)
    \/ Release(j)
    \/ Take(j)

Fault(j) ==
    \/ AnswerLost(j)
    \/ RequestThrows(j)
    \/ AcquireThrows(j)
    \/ ReleaseThrows(j)
    \/ Restart(j)
    \/ SessionExpires(j)

Next == \E j \in Jvm : Step(j) \/ Fault(j) \/ LeaseRemoved(j)

Spec == Init /\ [][Next]_vars

\* Every live thread goes on, leases of dead sessions are removed, and the
\* lock recipe serves its waiters in order, so none is overtaken for ever.
\* Nobody is obliged to call next().
Fairness ==
    \A j \in Jvm :
        /\ WF_vars(Read(j) \/ Create(j) \/ Write(j) \/ RequestThrows(j))
        /\ WF_vars(Release(j))
        /\ WF_vars(Take(j))
        /\ WF_vars(LeaseRemoved(j))
        /\ SF_vars(Acquire(j))

LiveSpec == Spec /\ Fairness

-----------------------------------------------------------------------------
TypeOK ==
    /\ node \in {Absent} \cup 0 .. MaxNode
    /\ lockHolder \in Jvm \cup {NoOne}
    /\ orphans \subseteq Jvm
    /\ expiries \in 0 .. MaxExpiries
    /\ curNum \in [Jvm -> Nat]
    /\ maxNum \in [Jvm -> Nat]
    /\ pending \in [Jvm -> Nat]
    /\ who \in [Jvm -> Who]
    /\ pc \in [Jvm -> PC]
    /\ curVal \in [Jvm -> Nat]
    /\ issued \in [Jvm -> Seq(Nat)]
    /\ granted \in [Jvm -> SUBSET Nat]

\* The identifiers the node can grant within the bound.
Id == 0 .. MaxNode

Ids == INSTANCE DistributedIds WITH Client <- Jvm

\* No id is returned twice, by next() of one JVM or of two.
UniqueIds == Ids!UniqueIds

\* The ids one JVM returns grow, across prefetches, failed fetches, restarts.
IncreasingIds == Ids!IncreasingIds

\* next() is the abstract "issue an unused id".
RefinesDistributedIds == Ids!Spec

\* No two JVMs obtain overlapping segments: the read and the unversioned write
\* of fetchSegment are one step to everybody else, thanks to the ZooKeeper lock.
SegmentsExclusive ==
    \A j, k \in Jvm : j # k =>
        \A a \in granted[j], b \in granted[k] : a + Period <= b \/ b + Period <= a

\* Nobody returns an id that the node has not granted to some JVM yet.
IssuedBelowNode ==
    \A j \in Jvm : \A n \in DOMAIN issued[j] : issued[j][n] < node

\* The node never goes back, and while a JVM lives its cache neither ends
\* earlier nor starts again at an earlier id: a prefetch, a failed fetch and a
\* call of next() in any order leave the cache where it was or further on.
NeverBack ==
    [][ /\ node' >= node
        /\ \A j \in Jvm :
              \/ Restart(j)
              \/ curNum'[j] >= curNum[j] /\ maxNum'[j] >= maxNum[j] ]_vars

\* A thread that asks for the ZooKeeper lock gets it or an exception, however
\* often a release failed or a holder died before.
LockServesWaiters == \A j \in Jvm : (pc[j] = "acquire") ~> (pc[j] # "acquire")

-----------------------------------------------------------------------------
(***************************************************************************)
(* Why the lock works: unless sessions expire under live holders, the JVM  *)
(* between acquire and release is the owner of the lease, so what it read  *)
(* from the node is still there when it writes.                            *)
(***************************************************************************)
LockInv ==
    MaxExpiries = 0 =>
        /\ \A j \in Jvm : Holding(j) => lockHolder = j /\ j \notin orphans
        /\ \A j \in orphans : lockHolder = j

NodeInv ==
    \A j \in Jvm :
        /\ pc[j] = "write" => curVal[j] = node
        /\ \A start \in granted[j] : start + Period <= node

\* The end of the segments granted so far.
Frontier == IF node = Absent THEN 0 ELSE node

\* A cache lies below the end of what was granted and above what the JVM has returned.
CacheInv ==
    \A j \in Jvm :
        /\ curNum[j] <= Frontier
        /\ maxNum[j] <= Frontier
        /\ pc[j] \in {"release", "take"} => curNum[j] < maxNum[j]
        /\ curNum[j] = 0 /\ pc[j] \in {"write", "release", "take"} =>
               issued[j] = << >>
        /\ \A n \in DOMAIN issued[j] :
               curNum[j] # 0 => issued[j][n] < curNum[j]

IInv ==
    /\ TypeOK
    /\ LockInv
    /\ NodeInv
    /\ CacheInv
    /\ SegmentsExclusive
    /\ IssuedBelowNode
    /\ IncreasingIds
=============================================================================
