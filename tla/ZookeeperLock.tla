---------------------------- MODULE ZookeeperLock ---------------------------
(***************************************************************************)
(* ZookeeperLock: Curator's reentrant InterProcessMutex.  A thread creates *)
(* an ephemeral sequential node, has the lock when its node is the first,  *)
(* and deletes it in unlock().  lock() waits for ever; tryLock() and       *)
(* tryLock(timeout) wait that long and then answer true whether they were  *)
(* served or not, for the result of acquire() is not looked at.            *)
(*                                                                         *)
(* Sessions expire thread by thread here; several threads of one JVM lose  *)
(* theirs in several steps.                                                *)
(***************************************************************************)
EXTENDS Integers, Sequences, SequencesExt

CONSTANTS Thread,     \* the threads that call the lock, of all JVMs
          Orphan,     \* (no Thread) owner of a node nobody waits with or holds
          MaxCalls,   \* bound: the calls that lock, of one thread
          MaxFaults   \* bound: failed requests, expired sessions, crashes

VARIABLES nodes,     \* the owners of the nodes under the lock's, in order
          local,     \* local[t], the lockCount of t in Curator's threadData
          pc,        \* pc[t], where thread t is
          timed,     \* timed[t]: the call of t is a tryLock
          depth,     \* depth[t], locks its caller has and has not given back
          unserved,  \* threads a tryLock let in without the lock
          lapsed,    \* threads inside whose node was removed under them
          calls,     \* calls[t], how often t has called to lock
          faults     \* how many faults there were

callVars == <<timed, calls>>
vars == <<nodes, local, pc, depth, unserved, lapsed, callVars, faults>>

PC == {"idle",     \* outside the lock's methods
       "create",   \* acquire(), its node not yet created
       "wait",     \* acquire(), watching the node before its own
       "delete"}   \* release() of the last lock, its node not yet deleted

Init ==
    /\ nodes = << >>
    /\ local = [t \in Thread |-> 0]
    /\ pc = [t \in Thread |-> "idle"]
    /\ timed = [t \in Thread |-> FALSE]
    /\ depth = [t \in Thread |-> 0]
    /\ unserved = {} /\ lapsed = {}
    /\ calls = [t \in Thread |-> 0]
    /\ faults = 0

Inside == {t \in Thread : depth[t] > 0}

Goto(t, from, to) == pc[t] \in from /\ pc' = [pc EXCEPT ![t] = to]

\* One of the bounded number of faults.
Fault == faults < MaxFaults /\ faults' = faults + 1

\* A node of this owner is removed.
Removed(owner) ==
    \E i \in DOMAIN nodes : nodes[i] = owner /\ nodes' = RemoveAt(nodes, i)
\* The node of t goes; none, or one that has gone already, is as good.
NodeGoes(t) == Removed(t) \/ (t \notin ToSet(nodes) /\ UNCHANGED nodes)
\* The node of t stays, to be removed by Curator or with its session.
Orphaned(t) == [i \in DOMAIN nodes |-> IF nodes[i] = t THEN Orphan ELSE nodes[i]]

\* The call that locks answers normally: its caller takes that for the lock.
LetIn(t) == depth' = [depth EXCEPT ![t] = @ + 1]

-----------------------------------------------------------------------------
\* lock(), or tryLock() with its timeout, is called.  A thread that has the
\* lock is answered from the memory of its JVM.
LockCall(t) ==
    /\ calls[t] < MaxCalls
    /\ calls' = [calls EXCEPT ![t] = @ + 1]
    /\ \E isTry \in BOOLEAN : timed' = [timed EXCEPT ![t] = isTry]
    /\ \/ local[t] = 0 /\ Goto(t, {"idle"}, "create") /\ UNCHANGED <<local, depth>>
       \/ /\ local[t] > 0 /\ Goto(t, {"idle"}, "idle")
          /\ local' = [local EXCEPT ![t] = @ + 1]
          /\ LetIn(t)
    /\ UNCHANGED <<nodes, unserved, lapsed, faults>>

CreateNode(t) ==
    /\ Goto(t, {"create"}, "wait")
    /\ nodes' = Append(nodes, t)
    /\ UNCHANGED <<local, depth, unserved, lapsed, callVars, faults>>

\* A defect: the thread waits for its own node only, not for the first place.
AcquiredAnywhere(t) ==
    /\ nodes # << >>
    /\ Goto(t, {"wait"}, "idle")
    /\ local' = [local EXCEPT ![t] = 1]
    /\ LetIn(t)
    /\ UNCHANGED <<nodes, unserved, lapsed, callVars, faults>>

\* The node of t is the first: acquire() returns true.
Acquired(t) ==
    /\ nodes # << >> /\ Head(nodes) = t
    /\ Goto(t, {"wait"}, "idle")
    /\ local' = [local EXCEPT ![t] = 1]
    /\ LetIn(t)
    /\ UNCHANGED <<nodes, unserved, lapsed, callVars, faults>>

\* acquire(timeout) gives up, deletes its node and returns false; tryLock
\* answers true all the same.
TimesOut(t) ==
    /\ timed[t]
    /\ Goto(t, {"wait"}, "idle")
    /\ Removed(t)
    /\ LetIn(t)
    /\ unserved' = unserved \cup {t}
    /\ UNCHANGED <<local, lapsed, callVars, faults>>

\* A request of acquire() fails for good: lock() throws, tryLock() answers
\* false.  A node that was created is deleted, or left to be.
LockThrows(t) ==
    /\ Fault
    /\ Goto(t, {"create", "wait"}, "idle")
    /\ \/ NodeGoes(t)
       \/ nodes' = Orphaned(t)
       \/ pc[t] = "create" /\ nodes' = Append(nodes, Orphan)
    /\ UNCHANGED <<local, depth, unserved, lapsed, callVars>>

-----------------------------------------------------------------------------
\* unlock() is called.  release() throws for a thread without a lock, counts
\* down an inner one, and deletes the node for the last.
Unlock(t) ==
    /\ \/ local[t] = 0 /\ Goto(t, {"idle"}, "idle") /\ UNCHANGED local
       \/ /\ local[t] > 1 /\ Goto(t, {"idle"}, "idle")
          /\ local' = [local EXCEPT ![t] = @ - 1]
       \/ local[t] = 1 /\ Goto(t, {"idle"}, "delete") /\ UNCHANGED local
    /\ depth' = [depth EXCEPT ![t] = IF @ > 0 THEN @ - 1 ELSE 0]
    /\ unserved' = IF depth[t] > 1 THEN unserved ELSE unserved \ {t}
    /\ lapsed' = IF depth[t] > 1 THEN lapsed ELSE lapsed \ {t}
    /\ UNCHANGED <<nodes, callVars, faults>>

DeleteNode(t) ==
    /\ Goto(t, {"delete"}, "idle")
    /\ NodeGoes(t)
    /\ local' = [local EXCEPT ![t] = 0]
    /\ UNCHANGED <<depth, unserved, lapsed, callVars, faults>>

\* A defect: the lock stays with the thread when its node cannot be deleted.
DeleteFailsLocked(t) ==
    /\ Fault
    /\ Goto(t, {"delete"}, "idle")
    /\ nodes' = Orphaned(t)
    /\ UNCHANGED <<local, depth, unserved, lapsed, callVars>>

\* unlock() throws; the thread forgets the lock, and Curator deletes the node
\* in the background.
DeleteFails(t) ==
    /\ Fault
    /\ Goto(t, {"delete"}, "idle")
    /\ nodes' = Orphaned(t)
    /\ local' = [local EXCEPT ![t] = 0]
    /\ UNCHANGED <<depth, unserved, lapsed, callVars>>

-----------------------------------------------------------------------------
\* A node nobody claims is removed, by Curator or at the end of its session.
OrphanRemoved ==
    /\ Removed(Orphan)
    /\ UNCHANGED <<local, pc, depth, unserved, lapsed, callVars, faults>>

\* The session of t expires.  A thread that waits creates its node again; one
\* that is inside is not told.
SessionExpires(t) ==
    /\ Fault
    /\ Removed(t)
    /\ pc' = [pc EXCEPT ![t] = IF @ = "wait" THEN "create" ELSE @]
    /\ lapsed' = lapsed \cup (Inside \cap {t})
    /\ UNCHANGED <<local, depth, unserved, callVars>>

\* The JVM of t dies and is started again; its session lives a while longer.
Crash(t) ==
    /\ Fault
    /\ nodes' = Orphaned(t)
    /\ local' = [local EXCEPT ![t] = 0]
    /\ pc' = [pc EXCEPT ![t] = "idle"]
    /\ depth' = [depth EXCEPT ![t] = 0]
    /\ unserved' = unserved \ {t} /\ lapsed' = lapsed \ {t}
    /\ UNCHANGED callVars

\* What a thread does in its JVM or has ZooKeeper do for it.
Step(t) == LockCall(t) \/ CreateNode(t) \/ Acquired(t) \/ TimesOut(t) \/ LockThrows(t)
               \/ Unlock(t) \/ DeleteNode(t) \/ DeleteFails(t)

\* What ZooKeeper does of itself.
Server == OrphanRemoved \/ \E t \in Thread : SessionExpires(t)

Next == Server \/ \E t \in Thread : Step(t) \/ Crash(t)

Spec == Init /\ [][Next]_vars

\* ZooKeeper answers and orphans are removed.  No wait is assumed to time out.
Fairness ==
    /\ WF_vars(OrphanRemoved)
    /\ \A t \in Thread :
        WF_vars(CreateNode(t)) /\ WF_vars(Acquired(t)) /\ WF_vars(DeleteNode(t))

-----------------------------------------------------------------------------
TypeOK ==
    /\ nodes \in Seq(Thread \cup {Orphan})
    /\ local \in [Thread -> Nat]
    /\ pc \in [Thread -> PC]
    /\ timed \in [Thread -> BOOLEAN]
    /\ depth \in [Thread -> Nat]
    /\ unserved \subseteq Inside /\ lapsed \subseteq Inside
    /\ calls \in [Thread -> Nat] /\ faults \in Nat

\* The threads inside that were served and have their session still.
Served == Inside \ unserved

\* A thread that was served and whose session has not expired is alone, and
\* what its JVM remembers of the lock agrees with ZooKeeper: its node is there,
\* is its only one, and is the first.
LocalAgrees ==
    \A t \in Served \ lapsed :
        /\ local[t] = depth[t]
        /\ nodes # << >> /\ Head(nodes) = t
        /\ t \notin ToSet(Tail(nodes))

\* The locks of t its JVM counts, without one that is being given back.
Held(t) == IF pc[t] = "delete" THEN 0 ELSE local[t]

\* A thread in acquire() counts no lock, one in release() its last; a caller
\* that tryLock has let in unserved has more to give back than was ever counted.
CallInv ==
    \A t \in Thread :
        /\ pc[t] \in {"create", "wait"} => local[t] = 0
        /\ pc[t] = "delete" => local[t] = 1
        /\ t \in unserved => depth[t] > Held(t)
        /\ t \notin unserved => depth[t] = Held(t)

\* A thread has one node, and only when it waits or has the lock: then it is
\* the first, for nodes are created at the end.
NodesInv ==
    \A i \in DOMAIN nodes : nodes[i] # Orphan =>
        /\ pc[nodes[i]] = "wait" \/ (i = 1 /\ local[nodes[i]] > 0)
        /\ \A k \in DOMAIN nodes : nodes[k] = nodes[i] => k = i

First(t) == nodes # << >> /\ nodes[1] = t

\* The inductive invariant behind LocalAgrees: an unexpired session of a thread
\* that was served keeps the first node.
IInv ==
    /\ TypeOK
    /\ CallInv
    /\ NodesInv
    /\ \A t \in Served \ lapsed : First(t)

\* tryLock() tries to lock, and answers whether it has: a thread to which it
\* answered true, and whose session has not expired, is alone.
Exclusion == \A t, u \in Inside \ lapsed : t = u

\* Leaving out the threads that tryLock let in without the lock, ZookeeperLock
\* is a distributed lock.
AbstractLock == INSTANCE DistributedLock
    WITH inside <- Served, lapsed <- lapsed \ unserved
RefinesDistributedLock == AbstractLock!Spec
=============================================================================
