------------------------- MODULE LockeManager_proofs ------------------------
(***************************************************************************)
(* RedisLock is a distributed lock with a lease, and ZookeeperLock is one  *)
(* to the threads it has served, for any threads, leases and bounds: their *)
(* inductive invariants, the exclusion these imply, and the refinements of *)
(* DistributedLock, first of RedisLock alone and then of both locks called *)
(* by the same threads.                                                    *)
(***************************************************************************)
EXTENDS LockeManager, SequenceTheorems, TLAPS

\* No lock is held in the initial state.
LEMMA InitIInv == Init => IInv
BY HolderAssumption DEF Init, IInv, TypeOK, Inside, PC

\* A step of one thread in or below a call keeps the invariant.
LEMMA StepIInv ==
    ASSUME IInv, NEW t \in Thread, Step(t)
    PROVE  IInv'
<1> USE HolderAssumption, LeaseAssumption DEF IInv, TypeOK, PC, Inside, Owed, Goto, keyVars, SetKey, FreeKey
<1>1. CASE LockCall(t)
    BY <1>1 DEF LockCall
<1>2. CASE Grant(t)
    BY <1>2 DEF Grant
<1>3. CASE LockReturns(t)
    BY <1>3 DEF LockReturns
<1>4. CASE LockThrows(t)
    BY <1>4 DEF LockThrows, Forget, Fault
<1>5. CASE UnlockCall(t)
    BY <1>5 DEF UnlockCall, Forget
<1>6. CASE Unlock(t)
    BY <1>6 DEF Unlock
<1>7. CASE UnlockLost(t)
    BY <1>7 DEF UnlockLost, Fault
<1> QED
    BY <1>1, <1>2, <1>3, <1>4, <1>5, <1>6, <1>7 DEF Step

\* The end of a lease keeps the invariant: whoever loses the lock has lapsed.
LEMMA TickIInv == IInv /\ Tick => IInv'
BY HolderAssumption DEF IInv, TypeOK, PC, Inside, Owed, Tick, SetKey, FreeKey

\* The key of a dead JVM belongs to no thread.
LEMMA CrashIInv ==
    ASSUME IInv, NEW t \in Thread, Crash(t)
    PROVE  IInv'
BY HolderAssumption DEF IInv, TypeOK, PC, Inside, Owed, Crash, Fault

\* The invariant of RedisLock: Redis counts at least the locks a thread has.
THEOREM Invariance == Spec => []IInv
<1>1. IInv /\ [Next]_vars => IInv'
    <2> SUFFICES ASSUME IInv, [Next]_vars PROVE IInv'
        OBVIOUS
    <2>1. CASE UNCHANGED vars
        BY <2>1 DEF vars, keyVars, IInv, TypeOK, Inside, Owed
    <2>2. CASE Next
        BY <2>2, StepIInv, TickIInv, CrashIInv DEF Next
    <2> QED BY <2>1, <2>2
<1> QED BY InitIInv, <1>1, PTL DEF Spec

\* Two threads that are inside with their leases running are one thread.
THEOREM MutualExclusion == Spec => []Exclusion
<1>1. IInv => Exclusion
    BY DEF IInv, Exclusion
<1> QED BY <1>1, Invariance, PTL

-----------------------------------------------------------------------------
\* A step of one thread is a step of the abstract lock: what Redis grants to
\* a thread outside lets it in, its last unlock() or lost answer lets it out.
LEMMA StepRefines ==
    ASSUME IInv, NEW t \in Thread, Step(t)
    PROVE  AbstractLock!Next \/ UNCHANGED <<Inside, lapsed>>
<1> USE HolderAssumption DEF IInv, TypeOK, PC, Goto, keyVars, SetKey, FreeKey
<1>1. CASE LockCall(t)
    <2>1. Inside' = Inside
        BY <1>1 DEF LockCall, Inside
    <2> QED BY <1>1, <2>1 DEF LockCall
<1>2. CASE Grant(t)
    <2>1. CASE depth[t] > 0
        BY <1>2, <2>1 DEF Grant, Inside
    <2>2. CASE depth[t] = 0
        <3>1. Inside' = Inside \cup {t} /\ t \notin Inside
            BY <1>2, <2>2 DEF Grant, Inside
        <3>2. holder \in {t, NoOne}
            BY <1>2 DEF Grant
        <3>3. Inside \ lapsed = {}
            BY <3>1, <3>2 DEF Inside
        <3>4. AbstractLock!Enter(t)
            BY <1>2, <3>1, <3>3 DEF Grant, AbstractLock!Enter
        <3> QED BY <3>4 DEF AbstractLock!Next
    <2> QED BY <2>1, <2>2
<1>3. CASE LockReturns(t)
    BY <1>3 DEF LockReturns, Inside
<1>4. CASE LockThrows(t)
    <2>1. CASE depth[t] > 0 \/ pc[t] = "lock"
        <3>1. Inside' = Inside
            BY <1>4, <2>1 DEF LockThrows, Inside
        <3>2. lapsed' = lapsed
            BY <1>4, <2>1 DEF LockThrows, Forget, Inside
        <3> QED BY <3>1, <3>2
    <2>2. CASE depth[t] = 0 /\ pc[t] = "granted"
        <3>1. t \in Inside /\ Inside' = Inside \ {t} /\ lapsed' = lapsed \ {t}
            BY <1>4, <2>2 DEF LockThrows, Forget, Inside
        <3> QED BY <3>1 DEF AbstractLock!Next, AbstractLock!Leave
    <2> QED BY <1>4, <2>1, <2>2 DEF LockThrows
<1>5. CASE UnlockCall(t)
    <2>1. CASE depth[t] # 1
        <3>1. Inside' = Inside
            BY <1>5, <2>1 DEF UnlockCall, Inside
        <3>2. lapsed' = lapsed
            BY <1>5, <2>1 DEF UnlockCall, Forget, Inside
        <3> QED BY <3>1, <3>2
    <2>2. CASE depth[t] = 1
        <3>1. t \in Inside /\ Inside' = Inside \ {t} /\ lapsed' = lapsed \ {t}
            BY <1>5, <2>2 DEF UnlockCall, Forget, Inside
        <3> QED BY <3>1 DEF AbstractLock!Next, AbstractLock!Leave
    <2> QED BY <2>1, <2>2
<1>6. CASE Unlock(t)
    BY <1>6 DEF Unlock, Inside
<1>7. CASE UnlockLost(t)
    BY <1>7 DEF UnlockLost, Inside
<1> QED
    BY <1>1, <1>2, <1>3, <1>4, <1>5, <1>6, <1>7 DEF Step

\* The end of a lease is the abstract lapse of the holder, if it is inside.
LEMMA TickRefines ==
    IInv /\ Tick => AbstractLock!Next \/ UNCHANGED <<Inside, lapsed>>
<1> SUFFICES ASSUME IInv, Tick
             PROVE  AbstractLock!Next \/ UNCHANGED <<Inside, lapsed>>
    OBVIOUS
<1>1. Inside' = Inside
    BY DEF Tick, Inside
<1>2. CASE lapsed' = lapsed
    BY <1>1, <1>2
<1>3. CASE lapsed' # lapsed
    <2>1. holder \in Inside \ lapsed /\ lapsed' = lapsed \cup {holder}
        BY <1>3 DEF Tick
    <2>2. holder \in Thread
        BY <2>1 DEF Inside
    <2> QED BY <1>1, <2>1, <2>2 DEF AbstractLock!Next, AbstractLock!Lapse
<1> QED BY <1>2, <1>3

\* A JVM that dies leaves the abstract lock, if it was inside.
LEMMA CrashRefines ==
    ASSUME IInv, NEW t \in Thread, Crash(t)
    PROVE  AbstractLock!Next \/ UNCHANGED <<Inside, lapsed>>
<1>1. Inside' = Inside \ {t} /\ lapsed' = lapsed \ {t}
    BY DEF Crash, Inside, IInv, TypeOK
<1>2. CASE t \in Inside
    BY <1>1, <1>2 DEF AbstractLock!Next, AbstractLock!Leave
<1>3. CASE t \notin Inside
    BY <1>1, <1>3 DEF IInv, TypeOK
<1> QED BY <1>2, <1>3

\* RedisLock implements DistributedLock.
THEOREM Refinement == Spec => RefinesDistributedLock
<1>1. Init => AbstractLock!Init
    BY DEF Init, AbstractLock!Init, Inside
<1>2. IInv /\ [Next]_vars => [AbstractLock!Next]_<<Inside, lapsed>>
    <2> SUFFICES ASSUME IInv, [Next]_vars
                 PROVE  AbstractLock!Next \/ UNCHANGED <<Inside, lapsed>>
        OBVIOUS
    <2>1. CASE UNCHANGED vars
        BY <2>1 DEF vars, keyVars, Inside
    <2>2. CASE Next
        BY <2>2, StepRefines, TickRefines, CrashRefines DEF Next
    <2> QED BY <2>1, <2>2
<1> QED
    BY <1>1, <1>2, Invariance, PTL DEF Spec, RefinesDistributedLock, AbstractLock!Spec

-----------------------------------------------------------------------------
\* Removing an element of a sequence moves those behind it up by one.
LEMMA RemoveAtProperties ==
    ASSUME NEW S, NEW s \in Seq(S), NEW i \in 1 .. Len(s)
    PROVE  /\ Zk!RemoveAt(s, i) \in Seq(S)
           /\ Len(Zk!RemoveAt(s, i)) = Len(s) - 1
           /\ \A k \in 1 .. Len(s) - 1 :
                 Zk!RemoveAt(s, i)[k] = IF k < i THEN s[k] ELSE s[k + 1]
<1> DEFINE before == SubSeq(s, 1, i - 1)
           after == SubSeq(s, i + 1, Len(s))
<1>1. /\ Len(s) \in Nat /\ i \in Int /\ i >= 1 /\ i <= Len(s)
      /\ \A k \in 1 .. Len(s) : s[k] \in S
    OBVIOUS
<1>2. /\ before \in Seq(S) /\ Len(before) = i - 1
      /\ \A k \in 1 .. i - 1 : before[k] = s[k]
    <2>1. \A k \in 1 .. i - 1 : s[k] \in S
        BY <1>1
    <2>2. /\ before \in Seq(S)
          /\ Len(before) = IF 1 <= i - 1 THEN (i - 1) - 1 + 1 ELSE 0
          /\ \A k \in 1 .. (i - 1) - 1 + 1 : before[k] = s[1 + k - 1]
        BY <1>1, <2>1, SubSeqProperties
    <2> HIDE DEF before
    <2> QED BY <1>1, <2>2
<1>3. /\ after \in Seq(S) /\ Len(after) = Len(s) - i
      /\ \A k \in 1 .. Len(s) - i : after[k] = s[i + k]
    <2>1. \A k \in i + 1 .. Len(s) : s[k] \in S
        BY <1>1
    <2>2. /\ after \in Seq(S)
          /\ Len(after) = IF i + 1 <= Len(s) THEN Len(s) - (i + 1) + 1 ELSE 0
          /\ \A k \in 1 .. Len(s) - (i + 1) + 1 : after[k] = s[(i + 1) + k - 1]
        BY <1>1, <2>1, SubSeqProperties
    <2> HIDE DEF after
    <2> QED BY <1>1, <2>2
<1>4. Zk!RemoveAt(s, i) = before \o after
    BY DEF Zk!RemoveAt
<1> HIDE DEF before, after
<1>5. /\ before \o after \in Seq(S)
      /\ Len(before \o after) = Len(before) + Len(after)
      /\ \A k \in 1 .. Len(before) + Len(after) : (before \o after)[k] =
            IF k <= Len(before) THEN before[k] ELSE after[k - Len(before)]
    BY <1>2, <1>3, ConcatProperties
<1>6. ASSUME NEW k \in 1 .. Len(s) - 1
      PROVE  (before \o after)[k] = IF k < i THEN s[k] ELSE s[k + 1]
    <2>1. k \in 1 .. Len(before) + Len(after)
        BY <1>1, <1>2, <1>3
    <2>2. CASE k < i
        BY <1>1, <1>2, <1>5, <2>1, <2>2
    <2>3. CASE ~(k < i)
        <3>1. k - (i - 1) \in 1 .. Len(s) - i /\ i + (k - (i - 1)) = k + 1
            BY <1>1, <2>3
        <3>2. (before \o after)[k] = after[k - (i - 1)]
            BY <1>1, <1>2, <1>5, <2>1, <2>3
        <3> QED BY <1>3, <2>3, <3>1, <3>2
    <2> QED BY <2>2, <2>3
<1> QED BY <1>1, <1>2, <1>3, <1>4, <1>5, <1>6

\* A node that goes, or loses its owner, leaves the other nodes in their order.
LEMMA NodeLost ==
    ASSUME Zk!TypeOK, Zk!NodesInv, NEW owner \in Thread \cup {Orphan},
           Zk!NodeGoes(owner) \/ nodes' = Zk!Orphaned(owner),
           \A u \in Thread \ {owner} : zkPc'[u] = zkPc[u] /\ local'[u] = local[u]
    PROVE  /\ nodes' \in Seq(Thread \cup {Orphan})
           /\ Zk!NodesInv'
           /\ \A u \in Thread \ {owner} : Zk!First(u) => Zk!First(u)'
<1> USE OrphanAssumption
<1>0. nodes \in Seq(Thread \cup {Orphan})
    BY DEF Zk!TypeOK
<1>1. CASE nodes' = Zk!Orphaned(owner)
    <2>1. /\ nodes' \in Seq(Thread \cup {Orphan})
          /\ DOMAIN nodes' = DOMAIN nodes
          /\ \A i \in DOMAIN nodes :
                nodes'[i] = IF nodes[i] = owner THEN Orphan ELSE nodes[i]
        BY <1>0, <1>1 DEF Zk!Orphaned
    <2>2. Zk!NodesInv'
        BY <1>0, <2>1 DEF Zk!NodesInv
    <2>3. \A u \in Thread \ {owner} : Zk!First(u) => Zk!First(u)'
        BY <1>0, <2>1 DEF Zk!First
    <2> QED BY <2>1, <2>2, <2>3
<1>2. CASE Zk!Removed(owner)
    <2>1. PICK i \in DOMAIN nodes : nodes[i] = owner /\ nodes' = Zk!RemoveAt(nodes, i)
        BY <1>2 DEF Zk!Removed
    <2>2. /\ nodes' \in Seq(Thread \cup {Orphan})
          /\ Len(nodes') = Len(nodes) - 1
          /\ \A k \in 1 .. Len(nodes) - 1 :
                nodes'[k] = IF k < i THEN nodes[k] ELSE nodes[k + 1]
        <3>1. i \in 1 .. Len(nodes)
            BY <1>0, <2>1
        <3> QED BY <1>0, <2>1, <3>1, RemoveAtProperties
    <2> DEFINE old(k) == IF k < i THEN k ELSE k + 1
    <2>3. ASSUME NEW k \in DOMAIN nodes'
          PROVE  /\ old(k) \in DOMAIN nodes /\ old(k) # i
                 /\ nodes'[k] = nodes[old(k)]
                 /\ old(k) = 1 => k = 1
        <3>1. k \in 1 .. Len(nodes) - 1 /\ i \in 1 .. Len(nodes) /\ Len(nodes) \in Nat
            BY <1>0, <2>1, <2>2
        <3>2. DOMAIN nodes = 1 .. Len(nodes)
            BY <1>0
        <3>3. nodes'[k] = IF k < i THEN nodes[k] ELSE nodes[k + 1]
            BY <2>2, <3>1
        <3> QED BY <3>1, <3>2, <3>3
    <2>4. Zk!NodesInv'
        <3> SUFFICES ASSUME NEW k \in DOMAIN nodes', nodes'[k] # Orphan
                     PROVE  /\ \/ zkPc'[nodes'[k]] = "wait"
                               \/ k = 1 /\ local'[nodes'[k]] > 0
                            /\ \A m \in DOMAIN nodes' : nodes'[m] = nodes'[k] => m = k
            BY DEF Zk!NodesInv
        <3>1. old(k) \in DOMAIN nodes /\ nodes'[k] = nodes[old(k)] /\ old(k) # i
            BY <2>3
        <3>2. /\ nodes[old(k)] # owner /\ nodes[old(k)] \in Thread
              /\ \/ zkPc[nodes[old(k)]] = "wait"
                 \/ old(k) = 1 /\ local[nodes[old(k)]] > 0
            BY <1>0, <2>1, <3>1 DEF Zk!NodesInv
        <3>3. ASSUME NEW m \in DOMAIN nodes', nodes'[m] = nodes'[k] PROVE m = k
            <4>1. old(m) = old(k)
                BY <2>3, <3>1, <3>3 DEF Zk!NodesInv
            <4>2. m \in Int /\ k \in Int /\ i \in Int
                BY <1>0, <2>2
            <4> QED BY <4>1, <4>2, <2>3
        <3> QED BY <2>3, <3>1, <3>2, <3>3
    <2>5. ASSUME NEW u \in Thread \ {owner}, Zk!First(u) PROVE Zk!First(u)'
        <3>1. Len(nodes) >= 1 /\ nodes[1] = u /\ i # 1
            BY <1>0, <2>1, <2>5 DEF Zk!First
        <3>2. i >= 2 /\ i <= Len(nodes)
            BY <1>0, <2>1, <3>1
        <3>3. nodes'[1] = u /\ Len(nodes') >= 1
            BY <1>0, <2>2, <3>1, <3>2
        <3> QED BY <3>3 DEF Zk!First
    <2> QED BY <2>2, <2>4, <2>5
<1>3. CASE owner \notin Zk!ToSet(nodes) /\ UNCHANGED nodes
    BY <1>0, <1>3 DEF Zk!ToSet, Zk!NodesInv, Zk!First
<1> QED BY <1>1, <1>2, <1>3 DEF Zk!NodeGoes

\* Nobody holds or waits for the ZooKeeper lock in the initial state.
LEMMA ZkInitIInv == Zk!Init => Zk!IInv
BY DEF Zk!Init, Zk!IInv, Zk!TypeOK, Zk!CallInv, Zk!NodesInv, Zk!Inside, Zk!Served,
       Zk!PC, Zk!Held

\* A step of one thread keeps what its JVM counts of the ZooKeeper lock, and its
\* nodes, in agreement.
LEMMA ZkStepIInv ==
    ASSUME Zk!IInv, NEW t \in Thread, Zk!Step(t)
    PROVE  Zk!IInv'
<1> USE OrphanAssumption DEF Zk!IInv, Zk!TypeOK, Zk!CallInv, Zk!PC, Zk!Inside,
        Zk!Served, Zk!Held, Zk!Goto, Zk!LetIn, Zk!callVars
<1>1. CASE Zk!LockCall(t)
    <2>1. CASE local[t] = 0
        <3>1. /\ zkPc[t] = "idle" /\ zkPc' = [zkPc EXCEPT ![t] = "create"]
              /\ UNCHANGED <<nodes, local, zkDepth, unserved, zkLapsed, faults>>
            BY <1>1, <2>1 DEF Zk!LockCall
        <3>2. Zk!TypeOK'
            BY <1>1, <3>1 DEF Zk!LockCall
        <3>3. Zk!CallInv'
            BY <2>1, <3>1
        <3>4. Zk!NodesInv'
            BY <2>1, <3>1 DEF Zk!NodesInv
        <3> QED BY <3>1, <3>2, <3>3, <3>4 DEF Zk!First
    <2>2. CASE local[t] > 0
        <3>1. /\ zkPc[t] = "idle" /\ zkPc' = zkPc
              /\ local' = [local EXCEPT ![t] = @ + 1]
              /\ zkDepth' = [zkDepth EXCEPT ![t] = @ + 1]
              /\ UNCHANGED <<nodes, unserved, zkLapsed, faults>>
            BY <1>1, <2>2 DEF Zk!LockCall
        <3>2. Zk!TypeOK'
            BY <1>1, <3>1 DEF Zk!LockCall
        <3>3. Zk!CallInv'
            BY <3>1
        <3>4. Zk!NodesInv'
            BY <2>2, <3>1 DEF Zk!NodesInv
        <3>5. (Zk!Served \ zkLapsed)' = Zk!Served \ zkLapsed
            <4>1. zkDepth[t] > 0
                BY <2>2, <3>1
            <4>2. \A u \in Thread : zkDepth'[u] > 0 <=> zkDepth[u] > 0
                BY <3>1, <4>1
            <4> QED BY <3>1, <4>2
        <3> QED BY <3>1, <3>2, <3>3, <3>4, <3>5 DEF Zk!First
    <2>3. local[t] = 0 \/ local[t] > 0
        OBVIOUS
    <2> HIDE DEF Zk!IInv
    <2> QED BY <2>1, <2>2, <2>3
<1>2. CASE Zk!CreateNode(t)
    BY <1>2, SMTT(20) DEF Zk!CreateNode, Zk!NodesInv, Zk!First
<1>3. CASE Zk!Acquired(t)
    BY <1>3 DEF Zk!Acquired, Zk!NodesInv, Zk!First
<1>4. CASE Zk!TimesOut(t)
    <2>1. Zk!NodesInv' /\ nodes' \in Seq(Thread \cup {Orphan})
          /\ \A u \in Thread \ {t} : Zk!First(u) => Zk!First(u)'
        BY <1>4, NodeLost DEF Zk!TimesOut, Zk!NodeGoes
    <2> QED BY <1>4, <2>1 DEF Zk!TimesOut
<1>5. CASE Zk!LockThrows(t)
    <2>1. CASE zkPc[t] = "create" /\ nodes' = Append(nodes, Orphan)
        <3>1. /\ zkPc' = [zkPc EXCEPT ![t] = "idle"]
              /\ UNCHANGED <<local, zkDepth, unserved, zkLapsed, timed, calls>>
              /\ faults' \in Nat
            BY <1>5 DEF Zk!LockThrows, Zk!Fault
        <3>2. /\ nodes' \in Seq(Thread \cup {Orphan})
              /\ DOMAIN nodes' = 1 .. Len(nodes) + 1
              /\ \A i \in DOMAIN nodes : nodes'[i] = nodes[i]
              /\ nodes'[Len(nodes) + 1] = Orphan
            BY <2>1
        <3>3. Zk!NodesInv'
            BY <2>1, <3>1, <3>2 DEF Zk!NodesInv
        <3>4. \A u \in Thread : Zk!First(u) => Zk!First(u)'
            BY <3>2 DEF Zk!First
        <3>5. Zk!TypeOK' /\ Zk!CallInv'
            BY <2>1, <3>1, <3>2
        <3> QED BY <3>1, <3>3, <3>4, <3>5
    <2>2. CASE Zk!NodeGoes(t) \/ nodes' = Zk!Orphaned(t)
        <3>1. Zk!NodesInv' /\ nodes' \in Seq(Thread \cup {Orphan})
              /\ \A u \in Thread \ {t} : Zk!First(u) => Zk!First(u)'
            BY <1>5, <2>2, NodeLost DEF Zk!LockThrows
        <3> QED BY <1>5, <3>1 DEF Zk!LockThrows, Zk!Fault
    <2> QED BY <1>5, <2>1, <2>2 DEF Zk!LockThrows
<1>6. CASE Zk!Unlock(t)
    <2>1. /\ zkDepth' = [zkDepth EXCEPT ![t] = IF @ > 0 THEN @ - 1 ELSE 0]
          /\ unserved' = IF zkDepth[t] > 1 THEN unserved ELSE unserved \ {t}
          /\ zkLapsed' = IF zkDepth[t] > 1 THEN zkLapsed ELSE zkLapsed \ {t}
          /\ UNCHANGED <<nodes, timed, calls, faults>>
          /\ zkPc[t] = "idle"
        BY <1>6 DEF Zk!Unlock
    <2>2. /\ zkDepth' \in [Thread -> Nat]
          /\ \A u \in Thread \ {t} : zkDepth'[u] = zkDepth[u]
          /\ zkDepth'[t] = IF zkDepth[t] > 0 THEN zkDepth[t] - 1 ELSE 0
        BY <2>1
    <2>3. unserved' \subseteq Zk!Inside' /\ zkLapsed' \subseteq Zk!Inside'
        BY <2>1, <2>2
    <2>4. \/ local[t] = 0 /\ UNCHANGED <<zkPc, local>>
          \/ local[t] > 1 /\ UNCHANGED zkPc /\ local' = [local EXCEPT ![t] = @ - 1]
          \/ /\ local[t] = 1 /\ UNCHANGED local
             /\ zkPc' = [zkPc EXCEPT ![t] = "delete"]
        BY <1>6 DEF Zk!Unlock
    <2>5. /\ \A u \in Thread \ {t} : zkPc'[u] = zkPc[u] /\ local'[u] = local[u]
          /\ local'[t] > 0 <=> local[t] > 0
          /\ zkPc'[t] # "wait" /\ zkPc'[t] # "create"
          /\ zkPc' \in [Thread -> Zk!PC] /\ local' \in [Thread -> Nat]
        BY <2>1, <2>4, SMTT(20)
    <2>6. Zk!TypeOK'
        BY <2>1, <2>2, <2>3, <2>5
    <2>7. Zk!CallInv'
        <3> SUFFICES ASSUME NEW u \in Thread
                     PROVE  /\ zkPc'[u] \in {"create", "wait"} => local'[u] = 0
                            /\ zkPc'[u] = "delete" => local'[u] = 1
                            /\ u \in unserved' => zkDepth'[u] > Zk!Held(u)'
                            /\ u \notin unserved' => zkDepth'[u] = Zk!Held(u)'
            OBVIOUS
        <3>1. CASE u # t
            BY <2>1, <2>2, <2>5, <3>1
        <3>2. CASE u = t
            BY <2>1, <2>2, <2>4, <3>2
        <3> QED BY <3>1, <3>2
    <2>8. Zk!NodesInv'
        BY <2>1, <2>5 DEF Zk!NodesInv
    <2>9. Zk!Served' \ zkLapsed' \subseteq Zk!Served \ zkLapsed
        BY <2>1, <2>2
    <2> QED BY <2>1, <2>6, <2>7, <2>8, <2>9 DEF Zk!First
<1>7. CASE Zk!DeleteNode(t)
    <2>1. Zk!NodesInv' /\ nodes' \in Seq(Thread \cup {Orphan})
          /\ \A u \in Thread \ {t} : Zk!First(u) => Zk!First(u)'
        BY <1>7, NodeLost DEF Zk!DeleteNode
    <2> QED BY <1>7, <2>1 DEF Zk!DeleteNode
<1>8. CASE Zk!DeleteFails(t)
    <2>1. Zk!NodesInv' /\ nodes' \in Seq(Thread \cup {Orphan})
          /\ \A u \in Thread \ {t} : Zk!First(u) => Zk!First(u)'
        BY <1>8, NodeLost DEF Zk!DeleteFails
    <2> QED BY <1>8, <2>1 DEF Zk!DeleteFails, Zk!Fault
<1> QED
    BY <1>1, <1>2, <1>3, <1>4, <1>5, <1>6, <1>7, <1>8 DEF Zk!Step

\* So does a node that goes of itself: its thread is marked as lapsed.
LEMMA ZkServerIInv == Zk!IInv /\ Zk!Server => Zk!IInv'
<1> SUFFICES ASSUME Zk!IInv, Zk!Server PROVE Zk!IInv'
    OBVIOUS
<1> USE OrphanAssumption DEF Zk!IInv, Zk!TypeOK, Zk!CallInv, Zk!PC, Zk!Inside,
        Zk!Served, Zk!Held, Zk!callVars
<1>1. CASE Zk!OrphanRemoved
    <2>1. Zk!NodesInv' /\ nodes' \in Seq(Thread \cup {Orphan})
          /\ \A u \in Thread : Zk!First(u) => Zk!First(u)'
        BY <1>1, NodeLost DEF Zk!OrphanRemoved, Zk!NodeGoes
    <2> QED BY <1>1, <2>1 DEF Zk!OrphanRemoved
<1>2. ASSUME NEW t \in Thread, Zk!SessionExpires(t) PROVE Zk!IInv'
    <2>1. Zk!NodesInv' /\ nodes' \in Seq(Thread \cup {Orphan})
          /\ \A u \in Thread \ {t} : Zk!First(u) => Zk!First(u)'
        BY <1>2, NodeLost DEF Zk!SessionExpires, Zk!NodeGoes
    <2> QED BY <1>2, <2>1 DEF Zk!SessionExpires, Zk!Fault
<1> QED BY <1>1, <1>2 DEF Zk!Server

\* The nodes of a dead JVM belong to no thread.
LEMMA ZkCrashIInv ==
    ASSUME Zk!IInv, NEW t \in Thread, Zk!Crash(t)
    PROVE  Zk!IInv'
<1> USE OrphanAssumption DEF Zk!IInv, Zk!TypeOK, Zk!CallInv, Zk!PC, Zk!Inside,
        Zk!Served, Zk!Held, Zk!callVars
<1>1. Zk!NodesInv' /\ nodes' \in Seq(Thread \cup {Orphan})
      /\ \A u \in Thread \ {t} : Zk!First(u) => Zk!First(u)'
    BY NodeLost DEF Zk!Crash
<1> QED BY <1>1 DEF Zk!Crash, Zk!Fault

-----------------------------------------------------------------------------
\* A call of one lock leaves the other as it is; calls and faults are common.
LEMMA RedisUnmoved ==
    IInv /\ UNCHANGED redisVars /\ calls' \in [Thread -> Nat] /\ faults' \in Nat => IInv'
BY DEF IInv, TypeOK, redisVars, keyVars, Inside, Owed

LEMMA ZkUnmoved ==
    Zk!IInv /\ UNCHANGED zkVars /\ calls' \in [Thread -> Nat] /\ faults' \in Nat
        => Zk!IInv'
BY DEF Zk!IInv, Zk!TypeOK, Zk!CallInv, Zk!NodesInv, Zk!First, zkVars, Zk!Inside,
       Zk!Served, Zk!Held

\* Every step of the two locks keeps the invariants of both.
LEMMA LockStep == IInv /\ Zk!IInv /\ [LockNext]_lockVars => IInv' /\ Zk!IInv'
<1> SUFFICES ASSUME IInv, Zk!IInv, [LockNext]_lockVars PROVE IInv' /\ Zk!IInv'
    OBVIOUS
<1>0. /\ IInv' => calls' \in [Thread -> Nat] /\ faults' \in Nat
      /\ Zk!IInv' => calls' \in [Thread -> Nat] /\ faults' \in Nat
      /\ calls \in [Thread -> Nat] /\ faults \in Nat
    BY DEF IInv, TypeOK, Zk!IInv, Zk!TypeOK
<1>1. CASE Tick /\ UNCHANGED zkVars
    BY <1>0, <1>1, TickIInv, ZkUnmoved
<1>2. CASE Zk!Server /\ UNCHANGED redisVars
    BY <1>0, <1>2, ZkServerIInv, RedisUnmoved
<1>3. ASSUME NEW t \in Thread, RedisStep(t) PROVE IInv' /\ Zk!IInv'
    BY <1>0, <1>3, StepIInv, ZkUnmoved DEF RedisStep
<1>4. ASSUME NEW t \in Thread, ZkStep(t) PROVE IInv' /\ Zk!IInv'
    BY <1>0, <1>4, ZkStepIInv, RedisUnmoved DEF ZkStep
<1>5. ASSUME NEW t \in Thread, Crash(t) /\ Zk!Crash(t) PROVE IInv' /\ Zk!IInv'
    BY <1>5, CrashIInv, ZkCrashIInv
<1>6. CASE UNCHANGED lockVars
    BY <1>0, <1>6, RedisUnmoved, ZkUnmoved DEF lockVars
<1> QED BY <1>1, <1>2, <1>3, <1>4, <1>5, <1>6 DEF LockNext

\* The invariants of both locks, called by the same threads: Redis counts at
\* least the locks a thread has, and the session of a served thread keeps the
\* first node.
THEOREM BothInvariant == LockSpec => [](IInv /\ ZkIInv)
<1>1. LockInit => IInv /\ Zk!IInv
    BY InitIInv, ZkInitIInv DEF LockInit
<1>2. IInv /\ Zk!IInv /\ [LockNext]_lockVars => (IInv /\ Zk!IInv)'
    BY LockStep
<1>3. LockSpec => [](IInv /\ Zk!IInv)
    BY <1>1, <1>2, PTL DEF LockSpec
<1> QED BY <1>3 DEF ZkIInv

\* What the JVM of a thread remembers of the ZooKeeper lock agrees with its nodes:
\* the session of a thread that was served keeps its only node, the first.
THEOREM ZkAgrees == LockSpec => []ZkLocalAgrees
<1>1. IInv /\ ZkIInv => ZkLocalAgrees
    <2> SUFFICES ASSUME Zk!IInv, NEW t \in Zk!Served \ zkLapsed
                 PROVE  /\ local[t] = zkDepth[t]
                        /\ nodes # << >> /\ Head(nodes) = t
                        /\ t \notin Zk!ToSet(Tail(nodes))
        BY DEF ZkIInv, ZkLocalAgrees, Zk!LocalAgrees
    <2>1. /\ nodes \in Seq(Thread \cup {Orphan}) /\ nodes # << >> /\ nodes[1] = t
          /\ t \in Thread /\ t # Orphan
        BY OrphanAssumption DEF Zk!IInv, Zk!TypeOK, Zk!First, Zk!Served, Zk!Inside
    <2>2. local[t] = zkDepth[t]
        BY DEF Zk!IInv, Zk!TypeOK, Zk!CallInv, Zk!Served, Zk!Inside, Zk!Held
    <2>3. \A k \in DOMAIN nodes : nodes[k] = t => k = 1
        BY <2>1 DEF Zk!IInv, Zk!NodesInv
    <2>4. \A k \in DOMAIN Tail(nodes) :
              k + 1 \in DOMAIN nodes /\ k + 1 # 1 /\ Tail(nodes)[k] = nodes[k + 1]
        BY <2>1
    <2>5. t \notin Zk!ToSet(Tail(nodes))
        BY <2>3, <2>4 DEF Zk!ToSet
    <2> QED BY <2>1, <2>2, <2>5
<1> QED BY <1>1, BothInvariant, PTL

-----------------------------------------------------------------------------
\* RedisLock implements DistributedLock also when its threads call the ZooKeeper
\* lock between the steps.
THEOREM BothRefine == LockSpec => RefinesDistributedLock
<1>1. LockInit => AbstractLock!Init
    BY DEF LockInit, Init, AbstractLock!Init, Inside
<1>2. IInv /\ ZkIInv /\ [LockNext]_lockVars => [AbstractLock!Next]_<<Inside, lapsed>>
    <2> SUFFICES ASSUME IInv, [LockNext]_lockVars
                 PROVE  AbstractLock!Next \/ UNCHANGED <<Inside, lapsed>>
        OBVIOUS
    <2>1. CASE UNCHANGED redisVars
        BY <2>1 DEF redisVars, Inside
    <2>2. CASE Tick
        BY <2>2, TickRefines
    <2>3. ASSUME NEW t \in Thread, Step(t) \/ Crash(t)
          PROVE  AbstractLock!Next \/ UNCHANGED <<Inside, lapsed>>
        BY <2>3, StepRefines, CrashRefines
    <2> QED BY <2>1, <2>2, <2>3 DEF LockNext, RedisStep, ZkStep, lockVars
<1> QED
    BY <1>1, <1>2, BothInvariant, PTL
       DEF LockSpec, RefinesDistributedLock, AbstractLock!Spec

\* A step of one thread in the ZooKeeper lock is a step of the abstract lock of
\* those it has served: the first node lets its thread in, unlock() lets it out.
LEMMA ZkStepRefines ==
    ASSUME Zk!IInv, NEW t \in Thread, Zk!Step(t)
    PROVE  \/ Zk!AbstractLock!Next
           \/ UNCHANGED <<Zk!Served, zkLapsed \ unserved>>
<1>0. /\ zkDepth \in [Thread -> Nat] /\ local \in [Thread -> Nat]
      /\ unserved \subseteq Zk!Inside /\ zkLapsed \subseteq Zk!Inside
      /\ t \notin unserved => zkDepth[t] = Zk!Held(t)
      /\ t \in unserved => zkDepth[t] > 0
    BY DEF Zk!IInv, Zk!TypeOK, Zk!CallInv, Zk!Inside
<1> USE DEF Zk!Served, Zk!Inside, Zk!Goto, Zk!LetIn, Zk!callVars
<1>1. CASE Zk!LockCall(t)
    <2>1. zkDepth[t] > 0 \/ UNCHANGED zkDepth
        BY <1>0, <1>1 DEF Zk!LockCall, Zk!Held
    <2>2. \A u \in Thread : zkDepth'[u] > 0 <=> zkDepth[u] > 0
        BY <1>0, <1>1, <2>1 DEF Zk!LockCall
    <2> QED BY <1>1, <2>2 DEF Zk!LockCall
<1>2. CASE Zk!CreateNode(t)
    BY <1>2 DEF Zk!CreateNode
<1>3. CASE Zk!Acquired(t)
    <2>1. Zk!Inside' = Zk!Inside \cup {t} /\ UNCHANGED <<unserved, zkLapsed>>
        BY <1>0, <1>3 DEF Zk!Acquired
    <2>2. CASE t \in unserved
        BY <1>0, <2>1, <2>2
    <2>3. CASE t \notin unserved
        <3>1. t \notin Zk!Served
            BY <1>0, <1>3, <2>3 DEF Zk!Acquired, Zk!Held, Zk!IInv, Zk!CallInv
        <3>2. Zk!Served \ zkLapsed = {}
            <4>1. Zk!First(t)
                BY <1>3 DEF Zk!Acquired, Zk!First, Zk!IInv, Zk!TypeOK
            <4>2. \A u \in Zk!Served \ zkLapsed : u = t
                BY <4>1 DEF Zk!First, Zk!IInv
            <4> QED BY <3>1, <4>2
        <3>3. Zk!AbstractLock!Enter(t)
            BY <2>1, <2>3, <3>1, <3>2 DEF Zk!AbstractLock!Enter
        <3> QED BY <3>3 DEF Zk!AbstractLock!Next
    <2> QED BY <2>2, <2>3
<1>4. CASE Zk!TimesOut(t)
    <2>1. t \in unserved \/ zkDepth[t] = 0
        BY <1>0, <1>4 DEF Zk!TimesOut, Zk!Held, Zk!IInv, Zk!CallInv
    <2>2. /\ Zk!Inside' = Zk!Inside \cup {t} /\ zkLapsed' = zkLapsed
          /\ unserved' = unserved \cup {t}
        BY <1>0, <1>4 DEF Zk!TimesOut
    <2> QED BY <1>0, <2>1, <2>2
<1>5. CASE Zk!LockThrows(t)
    BY <1>5 DEF Zk!LockThrows
<1>6. CASE Zk!Unlock(t)
    <2>1. /\ zkDepth' = [zkDepth EXCEPT ![t] = IF @ > 0 THEN @ - 1 ELSE 0]
          /\ unserved' = IF zkDepth[t] > 1 THEN unserved ELSE unserved \ {t}
          /\ zkLapsed' = IF zkDepth[t] > 1 THEN zkLapsed ELSE zkLapsed \ {t}
        BY <1>6 DEF Zk!Unlock
    <2>2. CASE zkDepth[t] > 1
        BY <1>0, <2>1, <2>2
    <2>3. CASE zkDepth[t] <= 1
        <3>1. /\ Zk!Inside' = Zk!Inside \ {t}
              /\ unserved' = unserved \ {t} /\ zkLapsed' = zkLapsed \ {t}
            BY <1>0, <2>1, <2>3
        <3>2. CASE t \in Zk!Served
            BY <3>1, <3>2 DEF Zk!AbstractLock!Next, Zk!AbstractLock!Leave
        <3>3. CASE t \notin Zk!Served
            BY <1>0, <3>1, <3>3
        <3> QED BY <3>2, <3>3
    <2> QED BY <1>0, <2>2, <2>3
<1>7. CASE Zk!DeleteNode(t)
    BY <1>7 DEF Zk!DeleteNode
<1>8. CASE Zk!DeleteFails(t)
    BY <1>8 DEF Zk!DeleteFails
<1> QED
    BY <1>1, <1>2, <1>3, <1>4, <1>5, <1>6, <1>7, <1>8 DEF Zk!Step

\* An expired session is the abstract lapse of a thread inside that was served.
LEMMA ZkServerRefines ==
    Zk!IInv /\ Zk!Server =>
        Zk!AbstractLock!Next \/ UNCHANGED <<Zk!Served, zkLapsed \ unserved>>
<1> SUFFICES ASSUME Zk!IInv, Zk!Server
             PROVE  \/ Zk!AbstractLock!Next
                    \/ UNCHANGED <<Zk!Served, zkLapsed \ unserved>>
    OBVIOUS
<1> USE DEF Zk!Served, Zk!Inside
<1>1. CASE Zk!OrphanRemoved
    BY <1>1 DEF Zk!OrphanRemoved
<1>2. ASSUME NEW t \in Thread, Zk!SessionExpires(t)
      PROVE  \/ Zk!AbstractLock!Next
             \/ UNCHANGED <<Zk!Served, zkLapsed \ unserved>>
    <2>1. /\ zkLapsed' = zkLapsed \cup (Zk!Inside \cap {t})
          /\ UNCHANGED <<zkDepth, unserved>>
        BY <1>2 DEF Zk!SessionExpires
    <2>2. CASE t \in Zk!Served \ zkLapsed
        BY <2>1, <2>2 DEF Zk!AbstractLock!Next, Zk!AbstractLock!Lapse
    <2>3. CASE t \notin Zk!Served \ zkLapsed
        BY <2>1, <2>3
    <2> QED BY <2>2, <2>3
<1> QED BY <1>1, <1>2 DEF Zk!Server

\* A JVM that dies leaves the abstract lock, if its thread was served.
LEMMA ZkCrashRefines ==
    ASSUME Zk!IInv, NEW t \in Thread, Zk!Crash(t)
    PROVE  Zk!AbstractLock!Next \/ UNCHANGED <<Zk!Served, zkLapsed \ unserved>>
<1> USE DEF Zk!Served, Zk!Inside
<1>1. /\ Zk!Inside' = Zk!Inside \ {t}
      /\ unserved' = unserved \ {t} /\ zkLapsed' = zkLapsed \ {t}
      /\ zkLapsed \subseteq Zk!Inside
    BY DEF Zk!Crash, Zk!IInv, Zk!TypeOK
<1>2. CASE t \in Zk!Served
    BY <1>1, <1>2 DEF Zk!AbstractLock!Next, Zk!AbstractLock!Leave
<1>3. CASE t \notin Zk!Served
    BY <1>1, <1>3
<1> QED BY <1>2, <1>3

\* ZookeeperLock implements DistributedLock, to the threads it has served, with
\* faults and calls of the Redis lock between its steps.
THEOREM ZkRefinement == LockSpec => ZkRefines
<1>1. LockInit => Zk!AbstractLock!Init
    BY DEF LockInit, Zk!Init, Zk!AbstractLock!Init, Zk!Served, Zk!Inside
<1>2. IInv /\ ZkIInv /\ [LockNext]_lockVars =>
          [Zk!AbstractLock!Next]_<<Zk!Served, zkLapsed \ unserved>>
    <2> SUFFICES ASSUME Zk!IInv, [LockNext]_lockVars
                 PROVE  \/ Zk!AbstractLock!Next
                        \/ UNCHANGED <<Zk!Served, zkLapsed \ unserved>>
        BY DEF ZkIInv
    <2>1. CASE UNCHANGED zkVars
        BY <2>1 DEF zkVars, Zk!Served, Zk!Inside
    <2>2. CASE Zk!Server
        BY <2>2, ZkServerRefines
    <2>3. ASSUME NEW t \in Thread, Zk!Step(t) \/ Zk!Crash(t)
          PROVE  \/ Zk!AbstractLock!Next
                 \/ UNCHANGED <<Zk!Served, zkLapsed \ unserved>>
        BY <2>3, ZkStepRefines, ZkCrashRefines
    <2> QED BY <2>1, <2>2, <2>3 DEF LockNext, RedisStep, ZkStep, lockVars
<1> QED
    BY <1>1, <1>2, BothInvariant, PTL
       DEF LockSpec, ZkRefines, Zk!RefinesDistributedLock, Zk!AbstractLock!Spec
=============================================================================
