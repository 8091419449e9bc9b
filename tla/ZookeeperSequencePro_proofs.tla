--------------------- MODULE ZookeeperSequencePro_proofs --------------------
(***************************************************************************)
(* What the ZooKeeper lock gives ZookeeperSequencePro, for any number of   *)
(* JVMs and any segment size: segments never overlap, no id is returned    *)
(* before it is granted, and the ids of one JVM grow.                      *)
(***************************************************************************)
EXTENDS ZookeeperSequencePro, TLAPS

USE PeriodAssumption, LowWaterAssumption, BoundsAssumption, NoOneAssumption

\* When a JVM has received id, an id is an old one at its old place or the new
\* one, in the last place of that JVM.
LEMMA IssuedBefore ==
  ASSUME issued \in [Jvm -> Seq(Nat)], NEW j \in Jvm, NEW id \in Nat,
         issued' = [issued EXCEPT ![j] = Append(@, id)],
         NEW k \in Jvm, NEW n \in DOMAIN issued'[k]
  PROVE  \/ n \in DOMAIN issued[k] /\ issued'[k][n] = issued[k][n]
         \/ k = j /\ n = Len(issued[j]) + 1 /\ issued'[k][n] = id
<1>1. CASE k = j
  <2>1. issued'[k] = Append(issued[j], id)
    BY <1>1
  <2> QED BY <1>1, <2>1
<1>2. CASE k # j
  BY <1>2
<1> QED BY <1>1, <1>2

\* An id above all that its JVM has received keeps the ids growing.
LEMMA HigherKeepsIncreasing ==
  ASSUME issued \in [Jvm -> Seq(Nat)], NEW j \in Jvm, NEW id \in Nat,
         issued' = [issued EXCEPT ![j] = Append(@, id)],
         \A i \in DOMAIN issued[j] : issued[j][i] < id,
         IncreasingIds
  PROVE  IncreasingIds'
<1> SUFFICES ASSUME NEW a \in Jvm, NEW m \in DOMAIN issued'[a],
                    NEW n \in DOMAIN issued'[a], m < n
             PROVE  issued'[a][m] < issued'[a][n]
  BY DEF IncreasingIds, Ids!IncreasingIds
<1>1. \/ m \in DOMAIN issued[a] /\ issued'[a][m] = issued[a][m]
      \/ a = j /\ m = Len(issued[j]) + 1 /\ issued'[a][m] = id
  BY IssuedBefore
<1>2. \/ n \in DOMAIN issued[a] /\ issued'[a][n] = issued[a][n]
      \/ a = j /\ n = Len(issued[j]) + 1 /\ issued'[a][n] = id
  BY IssuedBefore
<1>3. issued[a] \in Seq(Nat)
  OBVIOUS
<1> QED BY <1>1, <1>2, <1>3 DEF IncreasingIds, Ids!IncreasingIds

\* The lock protects the node: no session expires under a live holder, or
\* there is no second JVM.
Protected == MaxExpiries = 0 \/ \A j, k \in Jvm : j = k

-----------------------------------------------------------------------------
\* Every action keeps the types of the state.
LEMMA TypeStep == TypeOK /\ [Next]_vars => TypeOK'
<1> SUFFICES ASSUME TypeOK, [Next]_vars PROVE TypeOK'
  OBVIOUS
<1> USE DEF TypeOK, Goto, Absent, lockVars, zkVars, cacheVars, ctlVars, history
<1>1. ASSUME NEW j \in Jvm, NextEnter(j) PROVE TypeOK'
  BY <1>1 DEF NextEnter, PC, Who
<1>2. ASSUME NEW j \in Jvm, PoolEnter(j) PROVE TypeOK'
  BY <1>2, SMTT(20) DEF PoolEnter, PC, Who
<1>3. ASSUME NEW j \in Jvm, Acquire(j) PROVE TypeOK'
  BY <1>3 DEF Acquire, PC
<1>4. ASSUME NEW j \in Jvm, Read(j) PROVE TypeOK'
  <2>1. CASE node # Absent
    <3>1. /\ curVal' = [curVal EXCEPT ![j] = node]
          /\ curNum' \in {curNum, [curNum EXCEPT ![j] = node]}
      BY <1>4, <2>1 DEF Read
    <3>2. node \in Nat
      BY <2>1
    <3>3. curVal' \in [Jvm -> Nat] /\ curNum' \in [Jvm -> Nat]
      BY <3>1, <3>2
    <3>4. pc' \in [Jvm -> PC]
      BY <1>4, <2>1, ZenonT(30) DEF Read, PC
    <3> QED BY <1>4, <3>3, <3>4 DEF Read
  <2>2. CASE node = Absent
    BY <1>4, <2>2 DEF Read, PC
  <2> QED BY <2>1, <2>2
<1>5. ASSUME NEW j \in Jvm, Create(j) PROVE TypeOK'
  <2>1. node' \in 0 .. MaxNode
    BY <1>5 DEF Create, CreateNode
  <2>2. /\ maxNum' \in [Jvm -> Nat] /\ granted' \in [Jvm -> SUBSET Nat]
        /\ curNum' \in [Jvm -> Nat]
    BY <1>5 DEF Create, Obtain
  <2>3. pc' \in [Jvm -> PC]
    BY <1>5 DEF Create, Obtain, PC
  <2> QED BY <1>5, <2>1, <2>2, <2>3 DEF Create
<1>6. ASSUME NEW j \in Jvm, Write(j) PROVE TypeOK'
  <2>1. node' \in 0 .. MaxNode
    BY <1>6 DEF Write, SetData
  <2>2. maxNum' \in [Jvm -> Nat] /\ granted' \in [Jvm -> SUBSET Nat]
    <3>1. maxNum' \in [Jvm -> Nat]
      BY <1>6 DEF Write, Obtain
    <3>2. granted' \in [Jvm -> SUBSET Nat]
      BY <1>6 DEF Write, Obtain
    <3> QED BY <3>1, <3>2
  <2>3. pc' \in [Jvm -> PC]
    BY <1>6 DEF Write, Obtain, PC
  <2> QED BY <1>6, <2>1, <2>2, <2>3 DEF Write, SetData
<1>7. ASSUME NEW j \in Jvm, Release(j) PROVE TypeOK'
  BY <1>7 DEF Release, LeaveFetch, AfterFetch, AfterThrow, PC
<1>8. ASSUME NEW j \in Jvm, Take(j) PROVE TypeOK'
  <2>1. /\ curNum \in [Jvm -> Nat] /\ issued \in [Jvm -> Seq(Nat)]
        /\ pending \in [Jvm -> Nat] /\ pc \in [Jvm -> PC]
    OBVIOUS
  <2>2. /\ curNum' = [curNum EXCEPT ![j] = @ + 1]
        /\ issued' = [issued EXCEPT ![j] = Append(@, curNum[j])]
        /\ pc' = [pc EXCEPT ![j] = "out"]
        /\ pending' \in {pending, [pending EXCEPT ![j] = @ + 1]}
    <3> HIDE DEF TypeOK
    <3> QED BY <1>8, <2>1 DEF Take
  <2>3. /\ curNum' \in [Jvm -> Nat] /\ issued' \in [Jvm -> Seq(Nat)]
        /\ pending' \in [Jvm -> Nat] /\ pc' \in [Jvm -> PC]
    <3> HIDE DEF TypeOK
    <3>1. curNum' \in [Jvm -> Nat]
      BY <2>1, <2>2
    <3>2. issued' \in [Jvm -> Seq(Nat)]
      BY <2>1, <2>2
    <3>3. [pending EXCEPT ![j] = @ + 1] \in [Jvm -> Nat]
      BY <2>1
    <3>4. pc' \in [Jvm -> PC]
      BY <2>1, <2>2 DEF PC
    <3> QED BY <2>1, <2>2, <3>1, <3>2, <3>3, <3>4
  <2> QED BY <1>8, <2>3 DEF Take
<1>9. ASSUME NEW j \in Jvm, AnswerLost(j) PROVE TypeOK'
  <2>1. node' \in 0 .. MaxNode
    BY <1>9 DEF AnswerLost, CreateNode, SetData
  <2>2. pc' \in [Jvm -> PC]
    BY <1>9 DEF AnswerLost, PC
  <2> QED BY <1>9, <2>1, <2>2 DEF AnswerLost
<1>10. ASSUME NEW j \in Jvm, RequestThrows(j) PROVE TypeOK'
  BY <1>10 DEF RequestThrows, PC
<1>11. ASSUME NEW j \in Jvm, AcquireThrows(j) PROVE TypeOK'
  BY <1>11 DEF AcquireThrows, AfterThrow, PC
<1>12. ASSUME NEW j \in Jvm, ReleaseThrows(j) PROVE TypeOK'
  BY <1>12 DEF ReleaseThrows, LeaveFetch, AfterFetch, AfterThrow, PC
<1>13. ASSUME NEW j \in Jvm, Restart(j) PROVE TypeOK'
  BY <1>13 DEF Restart, PC, Who
<1>14. ASSUME NEW j \in Jvm, SessionExpires(j) PROVE TypeOK'
  BY <1>14 DEF SessionExpires
<1>15. ASSUME NEW j \in Jvm, LeaseRemoved(j) PROVE TypeOK'
  BY <1>15 DEF LeaseRemoved
<1>16. CASE UNCHANGED vars
  BY <1>16 DEF vars
<1> QED
  BY <1>1, <1>2, <1>3, <1>4, <1>5, <1>6, <1>7, <1>8, <1>9, <1>10, <1>11,
     <1>12, <1>13, <1>14, <1>15, <1>16 DEF Next, Step, Fault

\* The state of ZookeeperSequencePro always has its types.
THEOREM TypeCorrect == Spec => []TypeOK
<1>1. Init => TypeOK
  BY DEF Init, TypeOK, Absent, PC, Who
<1> QED BY <1>1, TypeStep, PTL DEF Spec

-----------------------------------------------------------------------------
\* The JVM between acquire and release owns the lease of the lock.
LEMMA LockStep == TypeOK /\ LockInv /\ [Next]_vars => LockInv'
<1> SUFFICES ASSUME TypeOK, LockInv, [Next]_vars, MaxExpiries = 0 PROVE LockInv'
  BY DEF LockInv
<1> USE DEF TypeOK, LockInv, Holding, Goto, PC,
            lockVars, zkVars, cacheVars, ctlVars, history
<1>1. ASSUME NEW j \in Jvm, NextEnter(j) PROVE LockInv'
  BY <1>1 DEF NextEnter
<1>2. ASSUME NEW j \in Jvm, PoolEnter(j) PROVE LockInv'
  BY <1>2 DEF PoolEnter
<1>3. ASSUME NEW j \in Jvm, Acquire(j) PROVE LockInv'
  BY <1>3 DEF Acquire
<1>4. ASSUME NEW j \in Jvm, Read(j) PROVE LockInv'
  BY <1>4 DEF Read
<1>5. ASSUME NEW j \in Jvm, Create(j) PROVE LockInv'
  BY <1>5 DEF Create, CreateNode, Obtain
<1>6. ASSUME NEW j \in Jvm, Write(j) PROVE LockInv'
  BY <1>6 DEF Write, SetData, Obtain
<1>7. ASSUME NEW j \in Jvm, Release(j) PROVE LockInv'
  BY <1>7 DEF Release, LeaveFetch, AfterFetch, AfterThrow
<1>8. ASSUME NEW j \in Jvm, Take(j) PROVE LockInv'
  BY <1>8 DEF Take
<1>9. ASSUME NEW j \in Jvm, AnswerLost(j) PROVE LockInv'
  BY <1>9 DEF AnswerLost, CreateNode, SetData
<1>10. ASSUME NEW j \in Jvm, RequestThrows(j) PROVE LockInv'
  BY <1>10 DEF RequestThrows
<1>11. ASSUME NEW j \in Jvm, AcquireThrows(j) PROVE LockInv'
  BY <1>11 DEF AcquireThrows, AfterThrow
<1>12. ASSUME NEW j \in Jvm, ReleaseThrows(j) PROVE LockInv'
  BY <1>12 DEF ReleaseThrows, LeaveFetch, AfterFetch, AfterThrow
<1>13. ASSUME NEW j \in Jvm, Restart(j) PROVE LockInv'
  BY <1>13 DEF Restart
<1>14. ASSUME NEW j \in Jvm, SessionExpires(j) PROVE LockInv'
  BY <1>14 DEF SessionExpires
<1>15. ASSUME NEW j \in Jvm, LeaseRemoved(j) PROVE LockInv'
  BY <1>15 DEF LeaseRemoved
<1>16. CASE UNCHANGED vars
  BY <1>16 DEF vars
<1> QED
  BY <1>1, <1>2, <1>3, <1>4, <1>5, <1>6, <1>7, <1>8, <1>9, <1>10, <1>11,
     <1>12, <1>13, <1>14, <1>15, <1>16 DEF Next, Step, Fault

\* While the lock protects the node, no two JVMs are between acquire and
\* release.
LEMMA HoldersAlone ==
  ASSUME Protected, LockInv, NEW j \in Jvm, NEW k \in Jvm, Holding(j), Holding(k)
  PROVE  j = k
BY DEF Protected, LockInv

-----------------------------------------------------------------------------
\* A request that is applied moves the node a segment further.
LEMMA Extends ==
  ASSUME TypeOK, NodeInv, NEW j \in Jvm, CreateNode(j) \/ SetData(j)
  PROVE  /\ node' = Frontier + Period
         /\ node < node'
         /\ pc[j] = "write" => curVal[j] = Frontier
<1> USE DEF TypeOK, Frontier, Absent
<1>1. CASE CreateNode(j)
  BY <1>1 DEF CreateNode
<1>2. CASE SetData(j)
  <2>1. pc[j] = "write" /\ curVal[j] = node /\ node' = curVal[j] + Period
    BY <1>2 DEF SetData, NodeInv
  <2> QED BY <2>1
<1> QED BY <1>1, <1>2

\* Whoever else has read the node is not there when a request is applied.
LEMMA NoOtherWriter ==
  ASSUME Protected, TypeOK, LockInv, NEW j \in Jvm, pc[j] \in {"create", "write"},
         NEW label \in PC \ {"write"}, Goto(j, label)
  PROVE  \A k \in Jvm : pc'[k] # "write"
<1>1. \A k \in Jvm : pc[k] = "write" => k = j
  BY HoldersAlone DEF Holding
<1>2. pc' = [pc EXCEPT ![j] = label] /\ pc \in [Jvm -> PC]
  BY DEF Goto, TypeOK
<1> QED BY <1>1, <1>2

\* The JVM that is about to write has read the present value of the node, and
\* everything granted lies below that value.
LEMMA NodeStep ==
  ASSUME Protected, TypeOK, LockInv, NodeInv, [Next]_vars
  PROVE  NodeInv'
<1> USE DEF PC, lockVars, zkVars, cacheVars, ctlVars, history
<1> DEFINE Below == \A k \in Jvm : \A start \in granted[k] : start + Period <= node
<1>0. Below /\ pc \in [Jvm -> PC] /\ granted \in [Jvm -> SUBSET Nat]
  BY DEF NodeInv, TypeOK
\* A step that leaves the node alone and leads to no write.
<1>a. ASSUME UNCHANGED <<node, granted, curVal>>,
             \A k \in Jvm : pc'[k] = "write" => pc[k] = "write"
      PROVE  NodeInv'
  BY <1>a DEF NodeInv
<1>1. ASSUME NEW j \in Jvm, NextEnter(j) PROVE NodeInv'
  BY <1>0, <1>1, <1>a DEF NextEnter, Goto
<1>2. ASSUME NEW j \in Jvm, PoolEnter(j) PROVE NodeInv'
  BY <1>0, <1>2, <1>a DEF PoolEnter, Goto
<1>3. ASSUME NEW j \in Jvm, Acquire(j) PROVE NodeInv'
  BY <1>0, <1>3, <1>a DEF Acquire, Goto
<1>4. ASSUME NEW j \in Jvm, Read(j) PROVE NodeInv'
  BY <1>4 DEF Read, NodeInv, TypeOK, Goto
<1>5. ASSUME NEW j \in Jvm, Create(j) PROVE NodeInv'
  <2>1. node' = Period /\ node < node' /\ node \in Int
    BY <1>5, Extends DEF Create, CreateNode, TypeOK, Absent
  <2>2. \A k \in Jvm : pc'[k] # "write"
    BY <1>5, NoOtherWriter DEF Create, CreateNode, Obtain
  <2>3. \A k \in Jvm : granted'[k] \subseteq granted[k] \cup {0}
    BY <1>0, <1>5 DEF Create, Obtain
  <2>4. Below'
    BY <1>0, <2>1, <2>3
  <2> QED BY <2>2, <2>4 DEF NodeInv
<1>6. ASSUME NEW j \in Jvm, Write(j) PROVE NodeInv'
  <2>1. /\ node' = curVal[j] + Period /\ node < node'
        /\ node \in Int /\ curVal[j] \in Nat
    BY <1>6, Extends, SMTT(20) DEF Write, SetData, TypeOK, Absent
  <2>2. \A k \in Jvm : pc'[k] # "write"
    BY <1>6, NoOtherWriter DEF Write, SetData, Obtain
  <2>3. \A k \in Jvm : granted'[k] \subseteq granted[k] \cup {curVal[j]}
    BY <1>0, <1>6 DEF Write, Obtain
  <2>4. Below'
    BY <1>0, <2>1, <2>3
  <2> QED BY <2>2, <2>4 DEF NodeInv
<1>7. ASSUME NEW j \in Jvm, AnswerLost(j) PROVE NodeInv'
  <2>1. node < node' /\ node \in Int /\ node' \in Int
    BY <1>7, Extends DEF AnswerLost, TypeOK, Absent, Frontier
  <2>2. \A k \in Jvm : pc'[k] # "write"
    BY <1>7, NoOtherWriter DEF AnswerLost, CreateNode, SetData
  <2>3. granted' = granted
    BY <1>7 DEF AnswerLost
  <2>4. Below'
    BY <1>0, <2>1, <2>3
  <2> QED BY <2>2, <2>4 DEF NodeInv
<1>8. ASSUME NEW j \in Jvm, Release(j) PROVE NodeInv'
  BY <1>0, <1>8, <1>a DEF Release, LeaveFetch, AfterFetch, AfterThrow, Goto
<1>9. ASSUME NEW j \in Jvm, Take(j) PROVE NodeInv'
  BY <1>0, <1>9, <1>a DEF Take, Goto
<1>10. ASSUME NEW j \in Jvm, RequestThrows(j) PROVE NodeInv'
  BY <1>0, <1>10, <1>a DEF RequestThrows, Goto
<1>11. ASSUME NEW j \in Jvm, AcquireThrows(j) PROVE NodeInv'
  BY <1>0, <1>11, <1>a DEF AcquireThrows, AfterThrow, Goto
<1>12. ASSUME NEW j \in Jvm, ReleaseThrows(j) PROVE NodeInv'
  BY <1>0, <1>12, <1>a DEF ReleaseThrows, LeaveFetch, AfterFetch, AfterThrow, Goto
<1>13. ASSUME NEW j \in Jvm, Restart(j) PROVE NodeInv'
  BY <1>0, <1>13, <1>a DEF Restart, Goto
<1>14. ASSUME NEW j \in Jvm, SessionExpires(j) PROVE NodeInv'
  BY <1>14, <1>a DEF SessionExpires
<1>15. ASSUME NEW j \in Jvm, LeaseRemoved(j) PROVE NodeInv'
  BY <1>15, <1>a DEF LeaseRemoved
<1>16. CASE UNCHANGED vars
  BY <1>16, <1>a DEF vars
<1> QED
  BY <1>1, <1>2, <1>3, <1>4, <1>5, <1>6, <1>7, <1>8, <1>9, <1>10, <1>11,
     <1>12, <1>13, <1>14, <1>15, <1>16 DEF Next, Step, Fault

-----------------------------------------------------------------------------
\* Segments are disjoint: a new one begins where everything granted ends.
LEMMA SegmentsStep ==
  ASSUME Protected, TypeOK, LockInv, NodeInv, SegmentsExclusive, [Next]_vars
  PROVE  SegmentsExclusive'
<1> USE DEF lockVars, zkVars, cacheVars, ctlVars, history
<1>1. CASE UNCHANGED granted
  BY <1>1 DEF SegmentsExclusive
<1>2. ASSUME NEW j \in Jvm, NEW start \in Nat, node <= start,
             granted' = [granted EXCEPT ![j] = @ \cup {start}]
      PROVE  SegmentsExclusive'
  <2>1. \A k \in Jvm : \A a \in granted[k] : a \in Nat /\ a + Period <= node
    BY DEF NodeInv, TypeOK
  <2>2. \A k \in Jvm : \A a \in granted'[k] :
           a \in granted[k] \/ (k = j /\ a = start)
    BY <1>2 DEF TypeOK
  <2>3. node \in Int
    BY DEF TypeOK, Absent
  <2> SUFFICES ASSUME NEW k \in Jvm, NEW m \in Jvm, k # m,
                      NEW a \in granted'[k], NEW b \in granted'[m]
               PROVE  a + Period <= b \/ b + Period <= a
    BY DEF SegmentsExclusive
  <2> QED BY <1>2, <2>1, <2>2, <2>3 DEF SegmentsExclusive
<1>3. ASSUME NEW j \in Jvm, Create(j) PROVE SegmentsExclusive'
  <2>1. node = Absent /\ granted' = [granted EXCEPT ![j] = @ \cup {0}]
    BY <1>3 DEF Create, CreateNode, Obtain
  <2>2. 0 \in Nat /\ node <= 0
    BY <2>1 DEF Absent
  <2> QED BY <1>2, <2>1, <2>2
<1>4. ASSUME NEW j \in Jvm, Write(j) PROVE SegmentsExclusive'
  <2>1. curVal[j] \in Nat /\ node <= curVal[j]
    BY <1>4 DEF Write, SetData, NodeInv, TypeOK
  <2> QED BY <1>2, <1>4, <2>1 DEF Write, Obtain
<1>5. UNCHANGED granted \/ \E j \in Jvm : Create(j) \/ Write(j)
  BY DEF Next, Step, Fault, NextEnter, PoolEnter, Acquire, Read, Release, Take,
         AnswerLost, RequestThrows, AcquireThrows, ReleaseThrows, Restart,
         SessionExpires, LeaseRemoved, vars
<1> QED BY <1>1, <1>3, <1>4, <1>5

-----------------------------------------------------------------------------
\* A JVM whose returned ids would lie below 0 has returned none.
LEMMA NothingBelow ==
  ASSUME NEW s \in Seq(Nat), NEW bound \in {Absent, 0},
         \A n \in DOMAIN s : s[n] < bound
  PROVE  s = << >>
<1>1. Len(s) = 0
  <2> SUFFICES ASSUME Len(s) # 0 PROVE FALSE
    OBVIOUS
  <2>1. 1 \in DOMAIN s /\ s[1] \in Nat
    OBVIOUS
  <2> QED BY <2>1 DEF Absent
<1> QED BY <1>1

\* What a JVM has cached stays below the end of what was granted and above what
\* the JVM has returned.
LEMMA CacheStep ==
  ASSUME Protected, IInv, [Next]_vars
  PROVE  CacheInv'
<1> USE DEF lockVars, zkVars, cacheVars, ctlVars, history
<1>0. /\ node \in {Absent} \cup 0 .. MaxNode
      /\ curNum \in [Jvm -> Nat] /\ maxNum \in [Jvm -> Nat]
      /\ pc \in [Jvm -> PC] /\ curVal \in [Jvm -> Nat] /\ issued \in [Jvm -> Seq(Nat)]
  BY DEF IInv, TypeOK
<1>1. TypeOK /\ LockInv /\ NodeInv /\ CacheInv /\ IssuedBelowNode
  BY DEF IInv
<1>2. Frontier \in Nat /\ (node # Absent => Frontier = node)
  BY <1>0 DEF Frontier
\* A step that moves neither cache nor node and enters next() at no new place.
<1>a. ASSUME UNCHANGED <<node, curNum, maxNum, issued>>,
             \A k \in Jvm : \/ pc'[k] \notin {"write", "release", "take"}
                            \/ pc'[k] = pc[k]
                            \/ pc[k] = "release"
      PROVE  CacheInv'
  BY <1>1, <1>a DEF CacheInv, Frontier
<1>3. ASSUME NEW j \in Jvm, NextEnter(j) PROVE CacheInv'
  <2>1. /\ UNCHANGED <<node, curNum, maxNum, issued>>
        /\ pc' = [pc EXCEPT ![j] = IF CacheEmpty(j) THEN "acquire" ELSE "take"]
    BY <1>3 DEF NextEnter, Goto
  <2>2. CASE CacheEmpty(j)
    BY <1>0, <1>a, <2>1, <2>2
  <2>3. CASE ~CacheEmpty(j)
    <3>1. curNum[j] # 0 /\ curNum[j] < maxNum[j]
      BY <1>0, <2>3 DEF CacheEmpty
    <3> QED BY <1>0, <1>1, <2>1, <2>3, <3>1 DEF CacheInv, Frontier
  <2> QED BY <2>2, <2>3
<1>4. ASSUME NEW j \in Jvm, PoolEnter(j) PROVE CacheInv'
  BY <1>0, <1>4, <1>a DEF PoolEnter, Goto
<1>5. ASSUME NEW j \in Jvm, Acquire(j) PROVE CacheInv'
  BY <1>0, <1>5, <1>a DEF Acquire, Goto
<1>6. ASSUME NEW j \in Jvm, Read(j) PROVE CacheInv'
  <2>1. CASE node = Absent
    BY <1>0, <1>6, <1>a, <2>1 DEF Read, Goto
  <2>2. CASE node # Absent
    <3>1. /\ UNCHANGED <<node, maxNum, issued>>
          /\ curNum' = [curNum EXCEPT ![j] = IF @ = 0 THEN node ELSE @]
          /\ pc' = [pc EXCEPT ![j] = "write"]
      BY <1>6, <2>2 DEF Read, Goto
    <3>2. node \in Nat /\ Frontier = node /\ Frontier' = node
      BY <1>0, <2>2, <3>1 DEF Frontier
    <3>3. \A k \in Jvm : \A n \in DOMAIN issued[k] :
             issued[k][n] \in Nat /\ issued[k][n] < node
      BY <1>0, <1>1 DEF IssuedBelowNode
    <3>4. ASSUME node = 0 PROVE issued[j] = << >>
      BY <1>0, <3>3, <3>4, NothingBelow
    <3> SUFFICES ASSUME NEW k \in Jvm
                 PROVE  /\ curNum'[k] <= node /\ maxNum[k] <= node
                        /\ pc'[k] \in {"release", "take"} => curNum'[k] < maxNum[k]
                        /\ curNum'[k] = 0 /\ pc'[k] \in {"write", "release", "take"}
                             => issued[k] = << >>
                        /\ \A n \in DOMAIN issued[k] :
                              curNum'[k] # 0 => issued[k][n] < curNum'[k]
      BY <3>1, <3>2 DEF CacheInv
    <3>5. CASE k # j
      BY <1>0, <1>1, <3>1, <3>2, <3>5 DEF CacheInv
    <3>6. CASE k = j
      <4>1. curNum'[k] = (IF curNum[j] = 0 THEN node ELSE curNum[j]) /\ pc'[k] = "write"
        BY <1>0, <3>1, <3>6
      <4> QED BY <1>1, <3>2, <3>3, <3>4, <3>6, <4>1 DEF CacheInv
    <3> QED BY <3>5, <3>6
  <2> QED BY <2>1, <2>2
<1>7. ASSUME NEW j \in Jvm, Create(j) PROVE CacheInv'
  <2>1. /\ node = Absent /\ node' = Period /\ issued' = issued
        /\ curNum' = [curNum EXCEPT ![j] = 0]
        /\ maxNum' = [maxNum EXCEPT ![j] = Period]
        /\ pc' = [pc EXCEPT ![j] = "release"]
    BY <1>7 DEF Create, CreateNode, Obtain, Goto
  <2>2. Frontier = 0 /\ Frontier' = Period
    BY <2>1 DEF Frontier, Absent
  <2>3. \A k \in Jvm : issued[k] = << >>
    BY <1>0, <1>1, <2>1, NothingBelow DEF IssuedBelowNode
  <2> QED BY <1>0, <1>1, <2>1, <2>2, <2>3 DEF CacheInv
<1>8. ASSUME NEW j \in Jvm, Write(j) PROVE CacheInv'
  <2>1. /\ pc[j] = "write" /\ node' = curVal[j] + Period
        /\ UNCHANGED <<curNum, issued>>
        /\ maxNum' = [maxNum EXCEPT ![j] = curVal[j] + Period]
        /\ pc' = [pc EXCEPT ![j] = "release"]
    BY <1>8 DEF Write, SetData, Obtain, Goto
  <2>2. curVal[j] = Frontier /\ Frontier' = Frontier + Period
    BY <1>0, <1>1, <1>2, <2>1 DEF NodeInv, Frontier, Absent
  <2> QED BY <1>0, <1>1, <1>2, <2>1, <2>2 DEF CacheInv
<1>9. ASSUME NEW j \in Jvm, AnswerLost(j) PROVE CacheInv'
  <2>1. /\ UNCHANGED <<curNum, maxNum, issued>>
        /\ pc' = [pc EXCEPT ![j] = "unwind"]
    BY <1>9 DEF AnswerLost, Goto
  <2>2. Frontier' = Frontier + Period
    <3>1. node' = Frontier + Period
      BY <1>1, <1>9, Extends DEF AnswerLost
    <3> QED BY <1>2, <3>1 DEF Frontier, Absent
  <2> QED BY <1>0, <1>1, <1>2, <2>1, <2>2 DEF CacheInv
<1>10. ASSUME NEW j \in Jvm, Release(j) PROVE CacheInv'
  BY <1>0, <1>10, <1>a DEF Release, LeaveFetch, AfterFetch, AfterThrow, Goto
<1>11. ASSUME NEW j \in Jvm, Take(j) PROVE CacheInv'
  <2>1. /\ pc[j] = "take" /\ UNCHANGED <<node, maxNum>>
        /\ curNum' = [curNum EXCEPT ![j] = @ + 1]
        /\ issued' = [issued EXCEPT ![j] = Append(@, curNum[j])]
        /\ pc' = [pc EXCEPT ![j] = "out"]
    BY <1>11 DEF Take, Goto
  <2>2. curNum[j] < maxNum[j] /\ maxNum[j] <= Frontier /\ Frontier' = Frontier
    BY <1>1, <2>1 DEF CacheInv, Frontier
  <2>3. \A n \in DOMAIN issued[j] : issued[j][n] < curNum[j]
    BY <1>0, <1>1, <2>1 DEF CacheInv
  <2>4. ASSUME NEW n \in DOMAIN issued'[j] PROVE issued'[j][n] < curNum[j] + 1
    BY <1>0, <2>1, <2>3
  <2> SUFFICES ASSUME NEW k \in Jvm
               PROVE  /\ curNum'[k] <= Frontier /\ maxNum[k] <= Frontier
                      /\ pc'[k] \in {"release", "take"} => curNum'[k] < maxNum[k]
                      /\ curNum'[k] = 0 /\ pc'[k] \in {"write", "release", "take"}
                           => issued'[k] = << >>
                      /\ \A n \in DOMAIN issued'[k] :
                            curNum'[k] # 0 => issued'[k][n] < curNum'[k]
    BY <2>1, <2>2 DEF CacheInv
  <2>5. CASE k # j
    BY <1>0, <1>1, <2>1, <2>5 DEF CacheInv
  <2>6. CASE k = j
    <3>1. curNum'[k] = curNum[j] + 1 /\ pc'[k] = "out"
      BY <1>0, <2>1, <2>6
    <3> QED BY <1>0, <1>1, <1>2, <2>2, <2>4, <2>6, <3>1 DEF CacheInv
  <2> QED BY <2>5, <2>6
<1>12. ASSUME NEW j \in Jvm, RequestThrows(j) PROVE CacheInv'
  BY <1>0, <1>12, <1>a DEF RequestThrows, Goto
<1>13. ASSUME NEW j \in Jvm, AcquireThrows(j) PROVE CacheInv'
  BY <1>0, <1>13, <1>a DEF AcquireThrows, AfterThrow, Goto
<1>14. ASSUME NEW j \in Jvm, ReleaseThrows(j) PROVE CacheInv'
  BY <1>0, <1>14, <1>a DEF ReleaseThrows, LeaveFetch, AfterFetch, AfterThrow, Goto
<1>15. ASSUME NEW j \in Jvm, Restart(j) PROVE CacheInv'
  BY <1>0, <1>1, <1>2, <1>15 DEF Restart, Goto, CacheInv, Frontier
<1>16. ASSUME NEW j \in Jvm, SessionExpires(j) \/ LeaseRemoved(j) PROVE CacheInv'
  BY <1>16, <1>a DEF SessionExpires, LeaseRemoved
<1>17. CASE UNCHANGED vars
  BY <1>17, <1>a DEF vars
<1> QED
  BY <1>3, <1>4, <1>5, <1>6, <1>7, <1>8, <1>9, <1>10, <1>11, <1>12, <1>13,
     <1>14, <1>15, <1>16, <1>17 DEF Next, Step, Fault

-----------------------------------------------------------------------------
\* Only the return of next() touches what has been returned.
LEMMA OnlyTakeIssues ==
  ASSUME [Next]_vars
  PROVE  UNCHANGED issued \/ \E j \in Jvm : Take(j)
BY DEF Next, Step, Fault, NextEnter, PoolEnter, Acquire, Read, Create, Write,
       Release, AnswerLost, RequestThrows, AcquireThrows, ReleaseThrows, Restart,
       SessionExpires, LeaseRemoved, vars, zkVars, cacheVars, ctlVars, history

\* The node stays where it is or moves a segment further.
LEMMA NodeGrows ==
  ASSUME TypeOK, NodeInv, [Next]_vars
  PROVE  node' \in Int /\ node' >= node
<1>1. node \in Int
  BY DEF TypeOK, Absent
<1>2. ASSUME NEW j \in Jvm, CreateNode(j) \/ SetData(j)
      PROVE  node' \in Int /\ node < node'
  <2>1. node < node' /\ node' = Frontier + Period
    BY <1>2, Extends
  <2> QED BY <1>1, <2>1 DEF Frontier
<1>3. UNCHANGED node \/ \E j \in Jvm : CreateNode(j) \/ SetData(j)
  BY DEF Next, Step, Fault, NextEnter, PoolEnter, Acquire, Read, Create, Write,
         Release, Take, AnswerLost, RequestThrows, AcquireThrows, ReleaseThrows,
         Restart, SessionExpires, LeaseRemoved, vars, zkVars, cacheVars, ctlVars,
         history, lockVars
<1> QED BY <1>1, <1>2, <1>3

\* The id next() returns lies in the cache, below the node and above all that
\* its JVM has returned.
LEMMA TakeFromCache ==
  ASSUME IInv, NEW j \in Jvm, Take(j)
  PROVE  /\ curNum[j] \in Nat /\ curNum[j] < node
         /\ issued' = [issued EXCEPT ![j] = Append(@, curNum[j])]
         /\ \A n \in DOMAIN issued[j] : issued[j][n] < curNum[j]
<1>1. pc[j] = "take" /\ issued' = [issued EXCEPT ![j] = Append(@, curNum[j])]
  BY DEF Take
<1>2. curNum[j] \in Nat /\ maxNum[j] \in Nat /\ node \in {Absent} \cup 0 .. MaxNode
  BY DEF IInv, TypeOK
<1>3. curNum[j] < maxNum[j] /\ maxNum[j] <= Frontier
  BY <1>1 DEF IInv, CacheInv
<1>4. curNum[j] < node
  BY <1>2, <1>3 DEF Frontier
<1>5. \A n \in DOMAIN issued[j] : issued[j][n] < curNum[j]
  BY <1>1 DEF IInv, CacheInv
<1> QED BY <1>1, <1>2, <1>4, <1>5

\* What is returned has been granted, and the ids of one JVM grow.
LEMMA IssuedStep ==
  ASSUME IInv, [Next]_vars
  PROVE  IssuedBelowNode' /\ IncreasingIds'
<1>1. issued \in [Jvm -> Seq(Nat)] /\ node \in Int /\ node' \in Int /\ node' >= node
  BY NodeGrows DEF IInv, TypeOK, Absent
<1>2. CASE UNCHANGED issued
  <2>1. \A k \in Jvm : \A n \in DOMAIN issued[k] :
           issued[k][n] \in Nat /\ issued[k][n] < node
    BY <1>1 DEF IInv, IssuedBelowNode
  <2>2. IssuedBelowNode'
    BY <1>1, <1>2, <2>1 DEF IssuedBelowNode
  <2>3. IncreasingIds'
    BY <1>2 DEF IInv, IncreasingIds, Ids!IncreasingIds
  <2> QED BY <2>2, <2>3
<1>3. ASSUME NEW j \in Jvm, Take(j) PROVE IssuedBelowNode' /\ IncreasingIds'
  <2>1. PICK id \in Nat : id = curNum[j]
    BY <1>3, TakeFromCache
  <2>2. /\ issued' = [issued EXCEPT ![j] = Append(@, id)]
        /\ id < node
        /\ \A n \in DOMAIN issued[j] : issued[j][n] < id
    BY <1>3, <2>1, TakeFromCache
  <2>3. IncreasingIds
    BY DEF IInv
  <2>4. IncreasingIds'
    BY <1>1, <2>2, <2>3, HigherKeepsIncreasing
  <2>5. IssuedBelowNode'
    <3> SUFFICES ASSUME NEW k \in Jvm, NEW n \in DOMAIN issued'[k]
                 PROVE  issued'[k][n] < node'
      BY DEF IssuedBelowNode
    <3>1. \/ n \in DOMAIN issued[k] /\ issued'[k][n] = issued[k][n]
          \/ k = j /\ n = Len(issued[j]) + 1 /\ issued'[k][n] = id
      BY <1>1, <2>2, IssuedBefore
    <3>2. node' = node
      BY <1>3 DEF Take, zkVars
    <3> QED BY <2>2, <3>1, <3>2 DEF IInv, IssuedBelowNode
  <2> QED BY <2>4, <2>5
<1> QED BY <1>2, <1>3, OnlyTakeIssues

-----------------------------------------------------------------------------
\* IInv holds initially.
LEMMA InvInit == Init => IInv
<1> SUFFICES ASSUME Init PROVE IInv
  OBVIOUS
<1>1. TypeOK
  BY DEF Init, TypeOK, Absent, PC, Who
<1>2. LockInv
  BY DEF Init, LockInv, Holding
<1>3. NodeInv /\ SegmentsExclusive
  BY DEF Init, NodeInv, SegmentsExclusive
<1>4. CacheInv
  <2>1. Frontier = 0
    BY DEF Init, Frontier
  <2>2. \A j \in Jvm : curNum[j] = 0 /\ maxNum[j] = 0 /\ pc[j] = "acquire"
    BY DEF Init
  <2> SUFFICES ASSUME NEW j \in Jvm
               PROVE  /\ curNum[j] <= Frontier
                      /\ maxNum[j] <= Frontier
                      /\ pc[j] \in {"release", "take"} => curNum[j] < maxNum[j]
                      /\ curNum[j] = 0 /\ pc[j] \in {"write", "release", "take"}
                           => issued[j] = << >>
                      /\ \A n \in DOMAIN issued[j] :
                            curNum[j] # 0 => issued[j][n] < curNum[j]
    BY DEF CacheInv
  <2>3. curNum[j] = 0 /\ maxNum[j] = 0 /\ pc[j] = "acquire"
    BY <2>2
  <2> QED BY <2>1, <2>3
<1>5. IssuedBelowNode /\ IncreasingIds
  BY DEF Init, IssuedBelowNode, IncreasingIds, Ids!IncreasingIds
<1> QED BY <1>1, <1>2, <1>3, <1>4, <1>5 DEF IInv

\* The lock, the node, the segments, the caches and what was returned always fit
\* together as IInv says, as long as the lock protects the node.
THEOREM Inductive == Protected => (Spec => []IInv)
<1> SUFFICES ASSUME Protected PROVE Spec => []IInv
  OBVIOUS
<1>1. IInv /\ [Next]_vars => IInv'
  BY TypeStep, LockStep, NodeStep, SegmentsStep, CacheStep, IssuedStep DEF IInv
<1> QED BY <1>1, InvInit, PTL DEF Spec

\* No two JVMs obtain overlapping segments, as long as no session expires
\* under a JVM that is between acquire and release.
THEOREM Exclusive == Protected => (Spec => []SegmentsExclusive)
<1> SUFFICES ASSUME Protected PROVE Spec => []SegmentsExclusive
  OBVIOUS
<1>1. IInv => SegmentsExclusive
  BY DEF IInv
<1>2. Spec => []IInv
  BY Inductive
<1> QED BY <1>1, <1>2, PTL

\* The ids one JVM returns grow, whatever prefetch, failure or restart comes
\* between them.
THEOREM Increasing == Protected => (Spec => []IncreasingIds)
<1> SUFFICES ASSUME Protected PROVE Spec => []IncreasingIds
  OBVIOUS
<1>1. IInv => IncreasingIds
  BY DEF IInv
<1>2. Spec => []IInv
  BY Inductive
<1> QED BY <1>1, <1>2, PTL

-----------------------------------------------------------------------------
\* A step never moves the node back, nor the cache of a JVM that lives on.
LEMMA BackStep ==
  ASSUME IInv, [Next]_vars
  PROVE  /\ node' >= node
         /\ \A j \in Jvm : \/ Restart(j)
                           \/ curNum'[j] >= curNum[j] /\ maxNum'[j] >= maxNum[j]
<1> USE DEF lockVars, zkVars, cacheVars, ctlVars, history
<1> DEFINE Kept == \A k \in Jvm : curNum'[k] >= curNum[k] /\ maxNum'[k] >= maxNum[k]
<1>0. /\ node \in {Absent} \cup 0 .. MaxNode
      /\ curNum \in [Jvm -> Nat] /\ maxNum \in [Jvm -> Nat] /\ curVal \in [Jvm -> Nat]
      /\ \A k \in Jvm : curNum[k] <= Frontier /\ maxNum[k] <= Frontier
  BY DEF IInv, TypeOK, CacheInv
<1>1. node' >= node
  BY NodeGrows DEF IInv
<1>2. ASSUME NEW j \in Jvm, Read(j) PROVE Kept
  <2>1. /\ maxNum' = maxNum
        /\ \/ curNum' = curNum
           \/ curNum' = [curNum EXCEPT ![j] = node] /\ node \in Nat /\ curNum[j] = 0
    BY <1>0, <1>2 DEF Read
  <2> QED BY <1>0, <2>1
<1>3. ASSUME NEW j \in Jvm, Create(j) PROVE Kept
  <2>1. /\ curNum' = [curNum EXCEPT ![j] = 0]
        /\ maxNum' = [maxNum EXCEPT ![j] = 0 + Period]
        /\ Frontier = 0
    BY <1>3 DEF Create, CreateNode, Obtain, Frontier
  <2> QED BY <1>0, <2>1
<1>4. ASSUME NEW j \in Jvm, Write(j) PROVE Kept
  <2>1. /\ curNum' = curNum
        /\ maxNum' = [maxNum EXCEPT ![j] = curVal[j] + Period]
    BY <1>4 DEF Write, Obtain
  <2>2. curVal[j] = Frontier
    BY <1>4, Extends DEF Write, SetData, IInv
  <2> QED BY <1>0, <2>1, <2>2
<1>5. ASSUME NEW j \in Jvm, Take(j) PROVE Kept
  <2>1. maxNum' = maxNum /\ curNum' = [curNum EXCEPT ![j] = @ + 1]
    BY <1>5 DEF Take
  <2> QED BY <1>0, <2>1
<1>6. ASSUME NEW j \in Jvm, Restart(j)
      PROVE  \A k \in Jvm : \/ Restart(k)
                            \/ curNum'[k] >= curNum[k] /\ maxNum'[k] >= maxNum[k]
  <2>1. /\ curNum' = [curNum EXCEPT ![j] = 0]
        /\ maxNum' = [maxNum EXCEPT ![j] = 0]
    BY <1>6 DEF Restart
  <2>2. \A k \in Jvm \ {j} : curNum'[k] = curNum[k] /\ maxNum'[k] = maxNum[k]
    BY <1>0, <2>1
  <2> QED BY <1>0, <1>6, <2>2
<1>7. ASSUME UNCHANGED <<curNum, maxNum>> PROVE Kept
  BY <1>0, <1>7
<1>8. \/ UNCHANGED <<curNum, maxNum>>
      \/ \E j \in Jvm : Read(j) \/ Create(j) \/ Write(j) \/ Take(j)
      \/ \E j \in Jvm : Restart(j)
  BY DEF Next, Step, Fault, NextEnter, PoolEnter, Acquire, Release, AnswerLost,
         RequestThrows, AcquireThrows, ReleaseThrows, SessionExpires, LeaseRemoved,
         vars
<1>9. Kept \/ \E j \in Jvm : Restart(j)
  <2> HIDE DEF Kept
  <2> QED BY <1>2, <1>3, <1>4, <1>5, <1>7, <1>8
<1> QED BY <1>1, <1>6, <1>9

\* A prefetch, a failed fetch and a call of next(), in any order, leave node and
\* cache where they were or further on.
THEOREM Forward == Protected => (Spec => NeverBack)
<1> SUFFICES ASSUME Protected PROVE Spec => NeverBack
  OBVIOUS
<1>1. IInv /\ [Next]_vars
        => [ /\ node' >= node
             /\ \A j \in Jvm :
                   \/ Restart(j)
                   \/ curNum'[j] >= curNum[j] /\ maxNum'[j] >= maxNum[j] ]_vars
  BY BackStep
<1>2. Spec => []IInv
  BY Inductive
<1> QED BY <1>1, <1>2, PTL DEF Spec, NeverBack

\* A JVM that has the node to itself implements DistributedIds, although its
\* session may expire: what it returns is above all it has returned.
THEOREM SingleRefinement ==
  (\A j, k \in Jvm : j = k) => (Spec => RefinesDistributedIds)
<1> SUFFICES ASSUME \A j, k \in Jvm : j = k PROVE Spec => RefinesDistributedIds
  OBVIOUS
<1>1. Init => Ids!Init
  BY DEF Init, Ids!Init
<1>2. IInv /\ [Next]_vars => [Ids!Next]_issued
  <2> SUFFICES ASSUME IInv, [Next]_vars PROVE [Ids!Next]_issued
    OBVIOUS
  <2>1. ASSUME NEW j \in Jvm, Take(j) PROVE Ids!Next
    <3>1. /\ curNum[j] \in Nat /\ curNum[j] < node
          /\ issued' = [issued EXCEPT ![j] = Append(@, curNum[j])]
          /\ \A n \in DOMAIN issued[j] : issued[j][n] < curNum[j]
      BY <2>1, TakeFromCache
    <3>2. curNum[j] \in Id
      BY <3>1 DEF Id, IInv, TypeOK, Absent
    <3>3. ~Ids!IsIssued(curNum[j])
      <4>1. \A k \in Jvm : k = j
        OBVIOUS
      <4>2. \A n \in DOMAIN issued[j] : issued[j][n] # curNum[j]
        BY <3>1 DEF IInv, TypeOK
      <4> QED BY <4>1, <4>2 DEF Ids!IsIssued
    <3> QED BY <3>1, <3>2, <3>3 DEF Ids!Next, Ids!Issue
  <2> QED BY <2>1, OnlyTakeIssues
<1>3. Spec => []IInv
  BY Inductive DEF Protected
<1> QED BY <1>1, <1>2, <1>3, PTL DEF Spec, RefinesDistributedIds, Ids!Spec
=============================================================================
