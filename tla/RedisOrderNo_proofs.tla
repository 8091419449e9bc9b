------------------------- MODULE RedisOrderNo_proofs ------------------------
(***************************************************************************)
(* The two Redis sequences of one key, for any JVMs, threads, callers,     *)
(* segment size and reserve.  First NumberCacheSequence alone, then        *)
(* RedisSequence alone (Plain): the inductive invariant, distinct and      *)
(* growing ids, the refinement of DistributedIds.  Then both on one        *)
(* counter: a step of one is, to the other, a counter that has moved up by *)
(* itself.                                                                 *)
(***************************************************************************)
EXTENDS RedisOrderNo, TLAPS

\* When a client c of C has received id, an id is an old one at its old place or
\* the new one, in the last place of c.
LEMMA IssuedBefore ==
  ASSUME NEW C, NEW old \in [C -> Seq(Nat)], NEW c \in C, NEW id \in Nat,
         NEW new, new = [old EXCEPT ![c] = Append(@, id)],
         NEW k \in C, NEW n \in DOMAIN new[k]
  PROVE  \/ n \in DOMAIN old[k] /\ new[k][n] = old[k][n]
         \/ k = c /\ n = Len(old[c]) + 1 /\ new[k][n] = id
<1>1. CASE k = c
  <2>1. new[k] = Append(old[c], id)
    BY <1>1
  <2> QED BY <1>1, <2>1
<1>2. CASE k # c
  BY <1>2
<1> QED BY <1>1, <1>2

\* An id nobody has received leaves the ids distinct.
LEMMA FreshKeepsUnique ==
  ASSUME NEW C, NEW old \in [C -> Seq(Nat)], NEW c \in C, NEW id \in Nat,
         NEW new, new = [old EXCEPT ![c] = Append(@, id)],
         \A k \in C : \A n \in DOMAIN old[k] : old[k][n] # id,
         \A a, b \in C : \A m \in DOMAIN old[a], n \in DOMAIN old[b] :
            old[a][m] = old[b][n] => a = b /\ m = n,
         NEW a \in C, NEW b \in C, NEW m \in DOMAIN new[a], NEW n \in DOMAIN new[b],
         new[a][m] = new[b][n]
  PROVE  a = b /\ m = n
<1>1. \/ m \in DOMAIN old[a] /\ new[a][m] = old[a][m]
      \/ a = c /\ m = Len(old[c]) + 1 /\ new[a][m] = id
  BY IssuedBefore
<1>2. \/ n \in DOMAIN old[b] /\ new[b][n] = old[b][n]
      \/ b = c /\ n = Len(old[c]) + 1 /\ new[b][n] = id
  BY IssuedBefore
<1>3. CASE m \in DOMAIN old[a] /\ new[a][m] = old[a][m]
  <2>1. old[a][m] # id
    BY <1>3
  <2>2. n \in DOMAIN old[b] /\ new[b][n] = old[b][n]
    BY <1>2, <1>3, <2>1
  <2> QED BY <1>3, <2>2
<1>4. CASE a = c /\ m = Len(old[c]) + 1 /\ new[a][m] = id
  <2>1. ~(n \in DOMAIN old[b] /\ new[b][n] = old[b][n])
    BY <1>4
  <2> QED BY <1>2, <1>4, <2>1
<1> QED BY <1>1, <1>3, <1>4

\* An id above all that its client has received keeps the ids growing.
LEMMA HigherKeepsIncreasing ==
  ASSUME NEW C, NEW old \in [C -> Seq(Nat)], NEW c \in C, NEW id \in Nat,
         NEW new, new = [old EXCEPT ![c] = Append(@, id)],
         \A n \in DOMAIN old[c] : old[c][n] < id,
         \A a \in C : \A m, n \in DOMAIN old[a] : m < n => old[a][m] < old[a][n],
         NEW a \in C, NEW m \in DOMAIN new[a], NEW n \in DOMAIN new[a], m < n
  PROVE  new[a][m] < new[a][n]
<1>1. \/ m \in DOMAIN old[a] /\ new[a][m] = old[a][m]
      \/ a = c /\ m = Len(old[c]) + 1 /\ new[a][m] = id
  BY IssuedBefore
<1>2. \/ n \in DOMAIN old[a] /\ new[a][n] = old[a][n]
      \/ a = c /\ n = Len(old[c]) + 1 /\ new[a][n] = id
  BY IssuedBefore
<1>3. old[a] \in Seq(Nat)
  OBVIOUS
<1> QED BY <1>1, <1>2, <1>3

\* What next() promises implies that no id is handed out twice.
THEOREM AbstractUnique == Ids!Spec => []Ids!UniqueIds
<1> DEFINE Promise == Ids!TypeOK /\ Ids!UniqueIds
<1> USE DEF Ids!TypeOK, Ids!UniqueIds, Id
<1>1. Ids!Init => Promise
  BY DEF Ids!Init
<1>2. Promise /\ [Ids!Next]_issued => Promise'
  <2> SUFFICES ASSUME Promise, [Ids!Next]_issued PROVE Promise'
    OBVIOUS
  <2>1. ASSUME NEW c \in Jvm, NEW id \in Id, Ids!Issue(c, id) PROVE Promise'
    <3>1. Ids!TypeOK'
      BY <2>1 DEF Ids!Issue
    <3>2. id \in Nat /\ issued \in [Jvm -> Seq(Nat)]
      BY MaxCounterAssumption
    <3>3. Ids!UniqueIds'
      BY <2>1, <3>2, FreshKeepsUnique DEF Ids!Issue, Ids!IsIssued
    <3> QED BY <3>1, <3>3
  <2>2. CASE UNCHANGED issued
    BY <2>2
  <2> QED BY <2>1, <2>2 DEF Ids!Next
<1> QED BY <1>1, <1>2, PTL DEF Ids!Spec

USE PeriodAssumption, ReserveAssumption, MaxCounterAssumption,
    NoThreadAssumption DEF Id

\* Every action of the code keeps the types of the state.
LEMMA TypeStep == TypeOK /\ [Next]_vars => TypeOK'
<1> SUFFICES ASSUME TypeOK, [Next]_vars PROVE TypeOK'
  OBVIOUS
<1> USE DEF TypeOK, PC, Goto, ExitMonitor
<1>1. ASSUME NEW j \in Jvm, Restart(j) PROVE TypeOK'
  BY <1>1 DEF Restart, FreshPc
<1>2. ASSUME NEW j \in Jvm, NEW t \in Thread, Enter(j, t) PROVE TypeOK'
  BY <1>2 DEF Enter, EnterMonitor
<1>3. ASSUME NEW j \in Jvm, NEW t \in Thread, RedisAdds(j, t) PROVE TypeOK'
  BY <1>3 DEF RedisAdds
<1>4. ASSUME NEW j \in Jvm, NEW t \in Thread, FetchReturns(j, t) PROVE TypeOK'
  BY <1>4 DEF FetchReturns
<1>5. ASSUME NEW j \in Jvm, NEW t \in Thread, FetchThrows(j, t) PROVE TypeOK'
  BY <1>5 DEF FetchThrows
<1>6. ASSUME NEW j \in Jvm, NEW t \in Thread, Take(j, t) PROVE TypeOK'
  BY <1>6 DEF Take
<1>7. CASE UNCHANGED vars
  BY <1>7 DEF vars, jvmVars
<1> QED BY <1>1, <1>2, <1>3, <1>4, <1>5, <1>6, <1>7 DEF Next

\* The state of NumberCacheSequence always has its types.
THEOREM TypeCorrect == Spec => []TypeOK
<1>1. Init => TypeOK
  BY DEF Init, TypeOK, FreshPc, PC
<1> QED BY <1>1, TypeStep, PTL DEF Spec

-----------------------------------------------------------------------------
\* The monitor of next() keeps one thread inside, and that thread returns
\* from the cache only when an id is there.
LEMMA MonitorStep == IInv /\ [Next]_vars => MonitorInv'
<1> SUFFICES ASSUME IInv, [Next]_vars PROVE MonitorInv'
  OBVIOUS
<1> USE DEF IInv, TypeOK, MonitorInv, Cached, Goto, ExitMonitor, PC
<1>1. ASSUME NEW j \in Jvm, Restart(j) PROVE MonitorInv'
  BY <1>1 DEF Restart, FreshPc
<1>2. ASSUME NEW j \in Jvm, NEW t \in Thread, Enter(j, t) PROVE MonitorInv'
  BY <1>2 DEF Enter, EnterMonitor, CacheLow
<1>3. ASSUME NEW j \in Jvm, NEW t \in Thread, RedisAdds(j, t) PROVE MonitorInv'
  BY <1>3 DEF RedisAdds
<1>4. ASSUME NEW j \in Jvm, NEW t \in Thread, FetchReturns(j, t) PROVE MonitorInv'
  BY <1>4 DEF FetchReturns
<1>5. ASSUME NEW j \in Jvm, NEW t \in Thread, FetchThrows(j, t) PROVE MonitorInv'
  BY <1>5 DEF FetchThrows
<1>6. ASSUME NEW j \in Jvm, NEW t \in Thread, Take(j, t) PROVE MonitorInv'
  BY <1>6 DEF Take
<1>7. CASE UNCHANGED vars
  BY <1>7 DEF vars, jvmVars
<1> QED BY <1>1, <1>2, <1>3, <1>4, <1>5, <1>6, <1>7 DEF Next

-----------------------------------------------------------------------------
\* No JVM caches, awaits or has returned an id the counter has not granted.
LEMMA GrantedStep == IInv /\ [Next]_vars => GrantedInv'
<1> SUFFICES ASSUME IInv, [Next]_vars PROVE GrantedInv'
  OBVIOUS
<1> USE DEF IInv, TypeOK, GrantedInv, Goto, ExitMonitor, PC
<1>1. ASSUME NEW j \in Jvm, Restart(j) PROVE GrantedInv'
  BY <1>1 DEF Restart, FreshPc
<1>2. ASSUME NEW j \in Jvm, NEW t \in Thread, Enter(j, t) PROVE GrantedInv'
  BY <1>2 DEF Enter, EnterMonitor
<1>3. ASSUME NEW j \in Jvm, NEW t \in Thread, RedisAdds(j, t) PROVE GrantedInv'
  BY <1>3, SMTT(20) DEF RedisAdds
<1>4. ASSUME NEW j \in Jvm, NEW t \in Thread, FetchReturns(j, t) PROVE GrantedInv'
  BY <1>4 DEF FetchReturns
<1>5. ASSUME NEW j \in Jvm, NEW t \in Thread, FetchThrows(j, t) PROVE GrantedInv'
  BY <1>5 DEF FetchThrows
<1>6. ASSUME NEW j \in Jvm, NEW t \in Thread, Take(j, t) PROVE GrantedInv'
  BY <1>6 DEF Take, MonitorInv, Cached
<1>7. CASE UNCHANGED vars
  BY <1>7 DEF vars, jvmVars
<1> QED BY <1>1, <1>2, <1>3, <1>4, <1>5, <1>6, <1>7 DEF Next

\* Whatever a JVM holds lies below the counter.
LEMMA HeldIsGranted ==
  ASSUME IInv, NEW j \in Jvm, NEW id \in Id, Holds(j, id)
  PROVE  id < counter
BY DEF IInv, TypeOK, GrantedInv, Holds, Cached, InReply

\* An action that returns no id and lets no JVM hold a new one keeps holdings
\* exclusive.
LEMMA ExclusiveKept ==
  ASSUME IInv, UNCHANGED issued,
         \A j \in Jvm, id \in Id : Holds(j, id)' => Holds(j, id)
  PROVE  ExclusiveInv'
BY DEF IInv, ExclusiveInv

\* What a JVM holds stays its own, unreturned and above what it has returned.
LEMMA ExclusiveStep == IInv /\ [Next]_vars => ExclusiveInv'
<1> SUFFICES ASSUME IInv, [Next]_vars PROVE ExclusiveInv'
  OBVIOUS
<1> USE DEF Goto, ExitMonitor, PC
<1> DEFINE Kept == \A k \in Jvm, id \in Id : Holds(k, id)' => Holds(k, id)
<1>1. ASSUME NEW j \in Jvm, Restart(j) PROVE ExclusiveInv'
  <2>1. Kept
    BY <1>1 DEF Restart, FreshPc, Holds, Cached, InReply, IInv, TypeOK
  <2> QED BY <1>1, <2>1, ExclusiveKept DEF Restart
<1>2. ASSUME NEW j \in Jvm, NEW t \in Thread, Enter(j, t) PROVE ExclusiveInv'
  <2>1. Kept
    BY <1>2 DEF Enter, Holds, Cached, InReply, IInv, TypeOK
  <2> QED BY <1>2, <2>1, ExclusiveKept DEF Enter
<1>3. ASSUME NEW j \in Jvm, NEW t \in Thread, RedisAdds(j, t) PROVE ExclusiveInv'
  <2>1. \A k \in Jvm, id \in Id :
           Holds(k, id)' => Holds(k, id) \/ (k = j /\ counter <= id)
    BY <1>3 DEF RedisAdds, Holds, Cached, InReply, IInv, TypeOK
  <2>2. \A k \in Jvm : \A n \in DOMAIN issued[k] :
           issued[k][n] \in Nat /\ issued[k][n] < counter
    BY DEF IInv, TypeOK, GrantedInv
  <2>3. \A k \in Jvm, id \in Id : Holds(k, id) => id < counter
    BY HeldIsGranted
  <2>4. issued' = issued /\ counter \in Nat
    BY <1>3 DEF RedisAdds, IInv, TypeOK
  <2> SUFFICES ASSUME NEW k \in Jvm, NEW m \in Jvm, NEW id \in Id, Holds(k, id)'
               PROVE  /\ Holds(m, id)' => k = m
                      /\ \A n \in DOMAIN issued[m] :
                            issued[m][n] # id /\ (k = m => issued[m][n] < id)
    BY <2>4 DEF ExclusiveInv
  <2>5. CASE Holds(k, id)
    <3>1. Holds(m, id)' => Holds(m, id)
      BY <2>1, <2>3, <2>4, <2>5
    <3> QED BY <2>5, <3>1 DEF IInv, ExclusiveInv
  <2>6. CASE k = j /\ counter <= id
    BY <2>1, <2>2, <2>3, <2>4, <2>6
  <2> QED BY <2>1, <2>5, <2>6
<1>4. ASSUME NEW j \in Jvm, NEW t \in Thread, FetchReturns(j, t) PROVE ExclusiveInv'
  <2>1. Kept
    BY <1>4 DEF FetchReturns, Holds, Cached, InReply, IInv, TypeOK
  <2> QED BY <1>4, <2>1, ExclusiveKept DEF FetchReturns
<1>5. ASSUME NEW j \in Jvm, NEW t \in Thread, FetchThrows(j, t) PROVE ExclusiveInv'
  <2>1. Kept
    BY <1>5 DEF FetchThrows, Holds, Cached, InReply, IInv, TypeOK
  <2> QED BY <1>5, <2>1, ExclusiveKept DEF FetchThrows
<1>6. ASSUME NEW j \in Jvm, NEW t \in Thread, Take(j, t) PROVE ExclusiveInv'
  <2>1. Holds(j, curValue[j]) /\ curValue[j] \in Id
    BY <1>6 DEF Take, Holds, Cached, IInv, MonitorInv, GrantedInv, TypeOK
  <2>2. \A k \in Jvm, id \in Id :
           Holds(k, id)' => Holds(k, id) /\ (k = j => curValue[j] < id)
    <3>1. \A u \in Thread : u # t => pc[j][u] = "idle"
      BY <1>6 DEF Take, IInv, MonitorInv
    <3>2. \A u \in Thread : pc'[j][u] # "replied"
      BY <1>6, <3>1 DEF Take, IInv, TypeOK
    <3> QED BY <1>6, <3>2 DEF Take, Holds, Cached, InReply, IInv, TypeOK
  <2>3. issued' = [issued EXCEPT ![j] = Append(@, curValue[j])]
    BY <1>6 DEF Take
  <2> SUFFICES ASSUME NEW k \in Jvm, NEW m \in Jvm, NEW id \in Id, Holds(k, id)'
               PROVE  /\ Holds(m, id)' => k = m
                      /\ \A n \in DOMAIN issued'[m] :
                            issued'[m][n] # id /\ (k = m => issued'[m][n] < id)
    BY DEF ExclusiveInv
  <2>4. Holds(k, id) /\ (Holds(m, id)' => k = m)
    BY <2>2 DEF IInv, ExclusiveInv
  <2>5. \A n \in DOMAIN issued[m] : issued[m][n] # id /\ (k = m => issued[m][n] < id)
    BY <2>4 DEF IInv, ExclusiveInv
  <2>6. curValue[j] # id /\ (k = j => curValue[j] < id)
    BY <2>1, <2>2, <2>4 DEF IInv, ExclusiveInv, TypeOK
  <2>7. issued \in [Jvm -> Seq(Nat)] /\ curValue[j] \in Nat
    BY <2>1 DEF IInv, TypeOK
  <2>8. \A n \in DOMAIN issued'[m] :
           \/ n \in DOMAIN issued[m] /\ issued'[m][n] = issued[m][n]
           \/ m = j /\ issued'[m][n] = curValue[j]
    <3>1. PICK new \in Nat : new = curValue[j]
      BY <2>7
    <3>2. issued' = [issued EXCEPT ![j] = Append(@, new)]
      BY <2>3, <3>1
    <3> SUFFICES ASSUME NEW n \in DOMAIN issued'[m]
                 PROVE  \/ n \in DOMAIN issued[m] /\ issued'[m][n] = issued[m][n]
                        \/ m = j /\ issued'[m][n] = curValue[j]
      OBVIOUS
    <3>3. \/ n \in DOMAIN issued[m] /\ issued'[m][n] = issued[m][n]
          \/ m = j /\ n = Len(issued[j]) + 1 /\ issued'[m][n] = new
      BY <2>7, <3>2, IssuedBefore
    <3> QED BY <3>1, <3>3
  <2> QED BY <2>4, <2>5, <2>6, <2>8
<1>7. CASE UNCHANGED vars
  <2>1. Kept
    BY <1>7 DEF vars, jvmVars, Holds, Cached, InReply
  <2> QED BY <1>7, <2>1, ExclusiveKept DEF vars, jvmVars
<1> QED BY <1>1, <1>2, <1>3, <1>4, <1>5, <1>6, <1>7 DEF Next

-----------------------------------------------------------------------------
\* Only the return of next() touches what has been returned.
LEMMA OnlyTakeIssues ==
  ASSUME [Next]_vars
  PROVE  \/ UNCHANGED issued
         \/ \E j \in Jvm, t \in Thread : Take(j, t)
BY DEF Next, Restart, Enter, RedisAdds, FetchReturns, FetchThrows, vars, jvmVars

\* The id a call returns was returned by no JVM, and lies above all that the
\* JVM of the call has returned: it is an Issue step of DistributedIds.
LEMMA TakeIssuesFresh ==
  ASSUME IInv, NEW j \in Jvm, NEW t \in Thread, Take(j, t)
  PROVE  /\ curValue[j] \in Id
         /\ issued' = [issued EXCEPT ![j] = Append(@, curValue[j])]
         /\ \A k \in Jvm : \A n \in DOMAIN issued[k] :
               issued[k][n] # curValue[j] /\ (k = j => issued[k][n] < curValue[j])
<1>1. Holds(j, curValue[j]) /\ curValue[j] \in Id
  BY DEF Take, Holds, Cached, IInv, MonitorInv, GrantedInv, TypeOK
<1>2. issued' = [issued EXCEPT ![j] = Append(@, curValue[j])]
  BY DEF Take
<1> QED BY <1>1, <1>2 DEF IInv, ExclusiveInv

\* A return keeps the ids returned so far distinct.
LEMMA UniqueStep == IInv /\ [Next]_vars => UniqueIds'
<1> SUFFICES ASSUME IInv, [Next]_vars PROVE UniqueIds'
  OBVIOUS
<1>1. CASE UNCHANGED issued
  BY <1>1 DEF IInv, UniqueIds, Ids!UniqueIds
<1>2. ASSUME NEW j \in Jvm, NEW t \in Thread, Take(j, t) PROVE UniqueIds'
  <2>1. issued \in [Jvm -> Seq(Nat)] /\ curValue[j] \in Nat
    BY DEF IInv, TypeOK
  <2>2. PICK id \in Nat : id = curValue[j]
    BY <2>1
  <2>3. /\ issued' = [issued EXCEPT ![j] = Append(@, id)]
        /\ \A k \in Jvm : \A n \in DOMAIN issued[k] : issued[k][n] # id
    BY <1>2, <2>2, TakeIssuesFresh
  <2>4. Ids!UniqueIds
    BY DEF IInv, UniqueIds
  <2> QED BY <2>1, <2>3, <2>4, FreshKeepsUnique DEF UniqueIds, Ids!UniqueIds
<1> QED BY <1>1, <1>2, OnlyTakeIssues

\* A return keeps the ids of every JVM growing.
LEMMA IncreasingStep == IInv /\ [Next]_vars => IncreasingIds'
<1> SUFFICES ASSUME IInv, [Next]_vars PROVE IncreasingIds'
  OBVIOUS
<1>1. CASE UNCHANGED issued
  BY <1>1 DEF IInv, IncreasingIds, Ids!IncreasingIds
<1>2. ASSUME NEW j \in Jvm, NEW t \in Thread, Take(j, t) PROVE IncreasingIds'
  <2>1. issued \in [Jvm -> Seq(Nat)] /\ curValue[j] \in Nat
    BY DEF IInv, TypeOK
  <2>2. PICK id \in Nat : id = curValue[j]
    BY <2>1
  <2>3. /\ issued' = [issued EXCEPT ![j] = Append(@, id)]
        /\ \A n \in DOMAIN issued[j] : issued[j][n] < id
    BY <1>2, <2>2, TakeIssuesFresh
  <2>4. Ids!IncreasingIds
    BY DEF IInv, IncreasingIds
  <2> QED BY <2>1, <2>3, <2>4, HigherKeepsIncreasing DEF IncreasingIds, Ids!IncreasingIds
<1> QED BY <1>1, <1>2, OnlyTakeIssues

\* IInv holds initially.
LEMMA InvInit == Init => IInv
<1> SUFFICES ASSUME Init PROVE IInv
  OBVIOUS
<1>1. TypeOK
  BY DEF Init, TypeOK, FreshPc, PC
<1>2. MonitorInv /\ GrantedInv /\ ExclusiveInv
  BY DEF Init, FreshPc, MonitorInv, GrantedInv, ExclusiveInv, Holds, Cached,
         InReply
<1>3. UniqueIds /\ IncreasingIds
  BY DEF Init, UniqueIds, Ids!UniqueIds, IncreasingIds, Ids!IncreasingIds
<1> QED BY <1>1, <1>2, <1>3 DEF IInv

\* Every step of the code keeps IInv.
LEMMA InvStep == IInv /\ [Next]_vars => IInv'
BY TypeStep, MonitorStep, GrantedStep, ExclusiveStep, UniqueStep, IncreasingStep
   DEF IInv

\* IInv holds of NumberCacheSequence.
THEOREM Inductive == Spec => []IInv
BY InvInit, InvStep, PTL DEF Spec

\* A step returns one unused id or changes nothing that has been returned.
LEMMA IssueOrStutter == IInv /\ [Next]_vars => [Ids!Next]_issued
<1> SUFFICES ASSUME IInv, [Next]_vars PROVE [Ids!Next]_issued
  OBVIOUS
<1>1. CASE UNCHANGED issued
  BY <1>1
<1>2. ASSUME NEW j \in Jvm, NEW t \in Thread, Take(j, t) PROVE Ids!Next
  <2>1. Ids!Issue(j, curValue[j]) /\ curValue[j] \in Id
    BY <1>2, TakeIssuesFresh DEF Ids!Issue, Ids!IsIssued
  <2> QED BY <2>1 DEF Ids!Next
<1> QED BY <1>1, <1>2, OnlyTakeIssues

\* NumberCacheSequence alone on its counter implements DistributedIds with one
\* client per JVM.
THEOREM Refinement == Spec => RefinesDistributedIds
<1>1. Init => Ids!Init
  BY DEF Init, Ids!Init
<1> QED BY <1>1, IssueOrStutter, Inductive, PTL
        DEF Spec, RefinesDistributedIds, Ids!Spec

-----------------------------------------------------------------------------
USE DEF Plain!Id, Plain!NoReply

\* Every action keeps the types of the state.
LEMMA PlainTypeStep == Plain!TypeOK /\ [Plain!Next]_(Plain!vars) => Plain!TypeOK'
<1> SUFFICES ASSUME Plain!TypeOK, [Plain!Next]_(Plain!vars) PROVE Plain!TypeOK'
  OBVIOUS
<1> USE DEF Plain!TypeOK, Plain!Leave
<1>1. ASSUME NEW c \in Caller, Plain!Enter(c) PROVE Plain!TypeOK'
  BY <1>1 DEF Plain!Enter
<1>2. ASSUME NEW c \in Caller, Plain!RedisIncrements(c) PROVE Plain!TypeOK'
  BY <1>2 DEF Plain!RedisIncrements
<1>3. ASSUME NEW c \in Caller, Plain!Returns(c) PROVE Plain!TypeOK'
  <2>1. plainIssued' \in [Caller -> Seq(1 .. MaxCounter)]
    BY <1>3 DEF Plain!Returns, Plain!Replied
  <2> QED BY <1>3, <2>1 DEF Plain!Returns
<1>4. ASSUME NEW c \in Caller, Plain!Fails(c) PROVE Plain!TypeOK'
  BY <1>4 DEF Plain!Fails
<1>5. CASE UNCHANGED Plain!vars
  BY <1>5 DEF Plain!vars
<1> QED BY <1>1, <1>2, <1>3, <1>4, <1>5 DEF Plain!Next

\* The state of RedisSequence always has its types.
THEOREM PlainTypeCorrect == Plain!Spec => []Plain!TypeOK
<1>1. Plain!Init => Plain!TypeOK
  BY DEF Plain!Init, Plain!TypeOK
<1> QED BY <1>1, PlainTypeStep, PTL DEF Plain!Spec

-----------------------------------------------------------------------------
\* The id a call returns is its caller's alone, unissued and above all the
\* caller has received.
LEMMA PlainReturnsFresh ==
  ASSUME PlainIInv, NEW c \in Caller, Plain!Returns(c)
  PROVE  /\ plainReply[c] \in Plain!Id
         /\ plainIssued' = [plainIssued EXCEPT ![c] = Append(@, plainReply[c])]
         /\ ~Plain!Ids!IsIssued(plainReply[c])
         /\ \A i \in DOMAIN plainIssued[c] : plainIssued[c][i] < plainReply[c]
BY DEF Plain!Returns, Plain!Replied, PlainIInv, Plain!IInv, Plain!TypeOK,
       Plain!ReplyInv, Plain!Ids!IsIssued

\* Replies on their way stay granted, unissued and each with one caller.
LEMMA PlainReplyStep ==
  PlainIInv /\ [Plain!Next]_(Plain!vars) => Plain!ReplyInv' /\ Plain!IssuedInv'
<1> SUFFICES ASSUME PlainIInv, [Plain!Next]_(Plain!vars)
             PROVE  Plain!ReplyInv' /\ Plain!IssuedInv'
  OBVIOUS
<1> USE DEF PlainIInv, Plain!IInv, Plain!TypeOK, Plain!ReplyInv, Plain!IssuedInv,
            Plain!Leave
<1>1. ASSUME NEW c \in Caller, Plain!Enter(c)
      PROVE  Plain!ReplyInv' /\ Plain!IssuedInv'
  BY <1>1 DEF Plain!Enter
<1>2. ASSUME NEW c \in Caller, Plain!RedisIncrements(c)
      PROVE  Plain!ReplyInv' /\ Plain!IssuedInv'
  BY <1>2 DEF Plain!RedisIncrements, Plain!Pending
<1>3. ASSUME NEW c \in Caller, Plain!Returns(c)
      PROVE  Plain!ReplyInv' /\ Plain!IssuedInv'
  <2>1. \A d \in Caller : \A n \in DOMAIN plainIssued'[d] :
           \/ n \in DOMAIN plainIssued[d] /\ plainIssued'[d][n] = plainIssued[d][n]
           \/ d = c /\ plainIssued'[d][n] = plainReply[c]
    <3>1. plainIssued' = [plainIssued EXCEPT ![c] = Append(@, plainReply[c])]
      BY <1>3 DEF Plain!Returns
    <3>2. plainIssued \in [Caller -> Seq(Nat)] /\ plainReply[c] \in Nat
      OBVIOUS
    <3> SUFFICES ASSUME NEW d \in Caller, NEW n \in DOMAIN plainIssued'[d]
                 PROVE  \/ /\ n \in DOMAIN plainIssued[d]
                           /\ plainIssued'[d][n] = plainIssued[d][n]
                        \/ d = c /\ plainIssued'[d][n] = plainReply[c]
      OBVIOUS
    <3>3. PICK id \in Nat : id = plainReply[c]
      BY <3>2
    <3> HIDE DEF PlainIInv, Plain!IInv, Plain!TypeOK, Plain!ReplyInv, Plain!IssuedInv
    <3>4. plainIssued' = [plainIssued EXCEPT ![c] = Append(@, id)]
      BY <3>1, <3>3
    <3>5. \/ /\ n \in DOMAIN plainIssued[d]
             /\ plainIssued'[d][n] = plainIssued[d][n]
          \/ d = c /\ n = Len(plainIssued[c]) + 1 /\ plainIssued'[d][n] = id
      BY <3>2, <3>4, IssuedBefore
    <3> QED BY <3>3, <3>5
  <2>2. /\ plainReply' = [plainReply EXCEPT ![c] = Plain!NoReply]
        /\ plainReply[c] # Plain!NoReply
        /\ counter' = counter
    BY <1>3 DEF Plain!Returns, Plain!Replied
  <2>3. \A d \in Caller :
           plainReply[d] # Plain!NoReply /\ d # c => plainReply[d] # plainReply[c]
    BY <2>2
  <2>4. Plain!ReplyInv'
    <3> SUFFICES ASSUME NEW d \in Caller, NEW e \in Caller,
                        plainReply'[d] # Plain!NoReply
                 PROVE  /\ plainReply'[d] <= counter
                        /\ plainReply'[d] = plainReply'[e] => d = e
                        /\ \A n \in DOMAIN plainIssued'[e] :
                              /\ plainIssued'[e][n] # plainReply'[d]
                              /\ d = e => plainIssued'[e][n] < plainReply'[d]
      BY <2>2
    <3>1. d # c /\ plainReply'[d] = plainReply[d]
      BY <2>2
    <3> QED BY <2>1, <2>2, <2>3, <3>1
  <2>5. Plain!IssuedInv'
    BY <2>1, <2>2
  <2> QED BY <2>4, <2>5
<1>4. ASSUME NEW c \in Caller, Plain!Fails(c)
      PROVE  Plain!ReplyInv' /\ Plain!IssuedInv'
  BY <1>4 DEF Plain!Fails
<1>5. CASE UNCHANGED Plain!vars
  BY <1>5 DEF Plain!vars
<1> QED BY <1>1, <1>2, <1>3, <1>4, <1>5 DEF Plain!Next

\* Only the return of next() touches what has been returned.
LEMMA PlainOnlyReturnsIssues ==
  ASSUME [Plain!Next]_(Plain!vars)
  PROVE  UNCHANGED plainIssued \/ \E c \in Caller : Plain!Returns(c)
BY DEF Plain!Next, Plain!Enter, Plain!RedisIncrements, Plain!Fails, Plain!vars

\* A return keeps the ids distinct, and those of each caller growing.
LEMMA PlainIssueStep ==
  PlainIInv /\ [Plain!Next]_(Plain!vars) => Plain!UniqueIds' /\ Plain!IncreasingIds'
<1> SUFFICES ASSUME PlainIInv, [Plain!Next]_(Plain!vars)
             PROVE  Plain!UniqueIds' /\ Plain!IncreasingIds'
  OBVIOUS
<1> USE DEF Plain!UniqueIds, Plain!IncreasingIds, Plain!Ids!UniqueIds,
            Plain!Ids!IncreasingIds
<1>1. CASE UNCHANGED plainIssued
  BY <1>1 DEF PlainIInv, Plain!IInv
<1>2. ASSUME NEW c \in Caller, Plain!Returns(c)
      PROVE  Plain!UniqueIds' /\ Plain!IncreasingIds'
  <2>1. plainIssued \in [Caller -> Seq(Nat)] /\ plainReply[c] \in Nat
    BY DEF PlainIInv, Plain!IInv, Plain!TypeOK
  <2>2. PICK id \in Nat : id = plainReply[c]
    BY <2>1
  <2>3. /\ plainIssued' = [plainIssued EXCEPT ![c] = Append(@, id)]
        /\ \A d \in Caller : \A n \in DOMAIN plainIssued[d] : plainIssued[d][n] # id
        /\ \A n \in DOMAIN plainIssued[c] : plainIssued[c][n] < id
    BY <1>2, <2>2, PlainReturnsFresh DEF Plain!Ids!IsIssued
  <2>4. Plain!UniqueIds /\ Plain!IncreasingIds
    BY DEF PlainIInv, Plain!IInv
  <2>5. Plain!UniqueIds'
    BY <2>1, <2>3, <2>4, FreshKeepsUnique
  <2>6. Plain!IncreasingIds'
    BY <2>1, <2>3, <2>4, HigherKeepsIncreasing
  <2> QED BY <2>5, <2>6
<1> QED BY <1>1, <1>2, PlainOnlyReturnsIssues

\* IInv holds initially.
LEMMA PlainInvInit == Plain!Init => PlainIInv
BY DEF Plain!Init, PlainIInv, Plain!IInv, Plain!TypeOK, Plain!ReplyInv,
       Plain!IssuedInv, Plain!UniqueIds, Plain!Ids!UniqueIds, Plain!IncreasingIds,
       Plain!Ids!IncreasingIds

\* Every step of the code keeps IInv.
LEMMA PlainInvStep == PlainIInv /\ [Plain!Next]_(Plain!vars) => PlainIInv'
BY PlainTypeStep, PlainReplyStep, PlainIssueStep DEF PlainIInv, Plain!IInv

\* IInv, and with it distinct and growing ids, holds of RedisSequence.
THEOREM PlainInductive == Plain!Spec => []PlainIInv
BY PlainInvInit, PlainInvStep, PTL DEF Plain!Spec

\* A step returns one unused id or changes nothing that has been returned.
LEMMA PlainIssueOrStutter ==
  PlainIInv /\ [Plain!Next]_(Plain!vars) => [Plain!Ids!Next]_plainIssued
<1> SUFFICES ASSUME PlainIInv, [Plain!Next]_(Plain!vars)
             PROVE  [Plain!Ids!Next]_plainIssued
  OBVIOUS
<1>1. ASSUME NEW c \in Caller, Plain!Returns(c) PROVE Plain!Ids!Next
  <2>1. Plain!Ids!Issue(c, plainReply[c]) /\ plainReply[c] \in Plain!Id
    BY <1>1, PlainReturnsFresh DEF Plain!Ids!Issue
  <2> QED BY <2>1 DEF Plain!Ids!Next
<1> QED BY <1>1, PlainOnlyReturnsIssues

\* RedisSequence alone on its counter implements DistributedIds with one client
\* per thread.
THEOREM PlainRefinement == Plain!Spec => PlainRefines
<1>1. Plain!Init => Plain!Ids!Init
  BY DEF Plain!Init, Plain!Ids!Init
<1> QED BY <1>1, PlainIssueOrStutter, PlainInductive, PTL
        DEF Plain!Spec, PlainRefines, Plain!RefinesDistributedIds, Plain!Ids!Spec

-----------------------------------------------------------------------------
\* What the other sequence does to the counter.
Advance == counter' \in counter .. MaxCounter

\* The cached sequence keeps its invariant when the counter moves up.
LEMMA CacheKept ==
  ASSUME IInv, Advance, UNCHANGED jvmVars
  PROVE  IInv'
<1> USE DEF jvmVars
<1>1. TypeOK'
  BY DEF IInv, TypeOK, Advance
<1>2. MonitorInv'
  BY DEF IInv, MonitorInv, Cached
<1>3. GrantedInv'
  <2>1. counter \in Nat /\ counter' \in Nat /\ counter <= counter'
    BY DEF IInv, TypeOK, Advance
  <2>2. /\ \A j \in Jvm : maxCacheValue[j] \in Nat
        /\ \A j \in Jvm, t \in Thread : reply[j][t] \in Nat
        /\ \A j \in Jvm : \A n \in DOMAIN issued[j] : issued[j][n] \in Nat
    <3>1. /\ maxCacheValue \in [Jvm -> Nat]
          /\ reply \in [Jvm -> [Thread -> Nat]]
          /\ issued \in [Jvm -> Seq(Nat)]
      BY DEF IInv, TypeOK
    <3>2. \A s \in Seq(Nat) : \A n \in DOMAIN s : s[n] \in Nat
      OBVIOUS
    <3> QED BY <3>1, <3>2
  <2> QED BY <2>1, <2>2, PeriodAssumption DEF IInv, GrantedInv
<1>4. ExclusiveInv'
  BY DEF IInv, ExclusiveInv, Holds, Cached, InReply
<1>5. UniqueIds' /\ IncreasingIds'
  BY DEF IInv, UniqueIds, IncreasingIds, Ids!UniqueIds, Ids!IncreasingIds
<1> QED BY <1>1, <1>2, <1>3, <1>4, <1>5 DEF IInv

\* The plain sequence keeps its invariant when the counter moves up.
LEMMA PlainKept ==
  ASSUME PlainIInv, Advance, UNCHANGED plainVars
  PROVE  PlainIInv'
<1> USE DEF plainVars, PlainIInv, Plain!IInv
<1>1. /\ counter \in Nat /\ counter' \in Nat /\ counter <= counter'
      /\ counter' <= MaxCounter
  BY DEF Plain!TypeOK, Advance
<1>2. Plain!TypeOK'
  BY <1>1 DEF Plain!TypeOK
<1>3. Plain!ReplyInv' /\ Plain!IssuedInv'
  <2>1. /\ \A c \in Caller : plainReply[c] \in Nat
        /\ \A c \in Caller : \A n \in DOMAIN plainIssued[c] : plainIssued[c][n] \in Nat
    <3>1. /\ plainReply \in [Caller -> Nat]
          /\ plainIssued \in [Caller -> Seq(Plain!Id)]
      BY DEF Plain!TypeOK, Plain!Id, Plain!NoReply
    <3>2. \A s \in Seq(Plain!Id) : \A n \in DOMAIN s : s[n] \in Plain!Id
      OBVIOUS
    <3>3. Plain!Id \subseteq Nat
      BY DEF Plain!Id
    <3> QED BY <3>1, <3>2, <3>3
  <2>2. Plain!ReplyInv'
    BY <1>1, <2>1 DEF Plain!ReplyInv
  <2>3. Plain!IssuedInv'
    BY <1>1, <2>1 DEF Plain!IssuedInv
  <2> QED BY <2>2, <2>3
<1>4. Plain!UniqueIds' /\ Plain!IncreasingIds'
  BY DEF Plain!UniqueIds, Plain!IncreasingIds, Plain!Ids!UniqueIds,
         Plain!Ids!IncreasingIds
<1> QED BY <1>2, <1>3, <1>4

-----------------------------------------------------------------------------
\* A step of either sequence only ever moves the counter up.
LEMMA CacheAdvances == IInv /\ Next => Advance
BY MaxCounterAssumption, PeriodAssumption
   DEF IInv, TypeOK, Next, Advance, Restart, Enter, RedisAdds, FetchReturns,
       FetchThrows, Take

LEMMA PlainAdvances == PlainIInv /\ Plain!Next => Advance
BY MaxCounterAssumption
   DEF PlainIInv, Plain!IInv, Plain!TypeOK, Plain!Next, Advance, Plain!Enter,
       Plain!RedisIncrements, Plain!Returns, Plain!Fails, Plain!Pending

\* What a JVM is granted in a step lies at or above the counter, what a caller is
\* granted is the number above it.
LEMMA GrantedByCache ==
  ASSUME IInv, Next, NEW j \in Jvm, NEW id \in Id, Granted(j, id)'
  PROVE  Granted(j, id) \/ counter <= id
<1> USE DEF IInv, TypeOK, PC, Goto, ExitMonitor, Granted, Holds, Cached, InReply
<1>1. ASSUME NEW k \in Jvm, Restart(k) PROVE Granted(j, id)
  BY <1>1 DEF Restart, FreshPc
<1>2. ASSUME NEW k \in Jvm, NEW t \in Thread, Enter(k, t) PROVE Granted(j, id)
  BY <1>2 DEF Enter
<1>3. ASSUME NEW k \in Jvm, NEW t \in Thread, RedisAdds(k, t)
      PROVE  Granted(j, id) \/ counter <= id
  BY <1>3 DEF RedisAdds
<1>4. ASSUME NEW k \in Jvm, NEW t \in Thread, FetchReturns(k, t) PROVE Granted(j, id)
  BY <1>4 DEF FetchReturns
<1>5. ASSUME NEW k \in Jvm, NEW t \in Thread, FetchThrows(k, t) PROVE Granted(j, id)
  BY <1>5 DEF FetchThrows
<1>6. ASSUME NEW k \in Jvm, NEW t \in Thread, Take(k, t) PROVE Granted(j, id)
  <2>1. Holds(j, id)' => Holds(j, id)
    BY <1>6 DEF Take
  <2>2. ASSUME NEW n \in DOMAIN issued'[j], issued'[j][n] = id PROVE Granted(j, id)
    BY <1>6, <2>2, SMTT(20) DEF Take, MonitorInv
  <2> HIDE DEF Holds
  <2> QED BY <2>1, <2>2
<1> HIDE DEF Granted
<1> QED BY <1>1, <1>2, <1>3, <1>4, <1>5, <1>6 DEF Next

LEMMA GrantedByPlain ==
  ASSUME PlainIInv, Plain!Next, NEW c \in Caller, NEW id \in Nat, PlainGranted(c, id)'
  PROVE  PlainGranted(c, id) \/ id = counter + 1
<1> USE DEF PlainIInv, Plain!IInv, Plain!TypeOK, PlainGranted, Plain!Leave
<1>1. ASSUME NEW d \in Caller, Plain!Enter(d) PROVE PlainGranted(c, id)
  BY <1>1 DEF Plain!Enter
<1>2. ASSUME NEW d \in Caller, Plain!RedisIncrements(d)
      PROVE  PlainGranted(c, id) \/ id = counter + 1
  BY <1>2 DEF Plain!RedisIncrements
<1>3. ASSUME NEW d \in Caller, Plain!Returns(d) PROVE PlainGranted(c, id)
  BY <1>3 DEF Plain!Returns, Plain!Replied
<1>4. ASSUME NEW d \in Caller, Plain!Fails(d) PROVE PlainGranted(c, id)
  BY <1>4 DEF Plain!Fails
<1> HIDE DEF PlainGranted
<1> QED BY <1>1, <1>2, <1>3, <1>4 DEF Plain!Next

\* Whatever has been granted is on its side of the counter.
LEMMA GrantedBelow ==
  ASSUME IInv, NEW j \in Jvm, NEW id \in Id, Granted(j, id)
  PROVE  id < counter
BY HeldIsGranted DEF Granted, IInv, GrantedInv

LEMMA PlainGrantedBelow ==
  ASSUME PlainIInv, NEW c \in Caller, NEW id, PlainGranted(c, id)
  PROVE  id <= counter
BY DEF PlainGranted, PlainIInv, Plain!IInv, Plain!ReplyInv, Plain!IssuedInv

-----------------------------------------------------------------------------
\* Every step keeps the invariant of the two sequences.
LEMMA OrderNoStep == OrderNoIInv /\ [OrderNoNext]_orderNoVars => OrderNoIInv'
<1> SUFFICES ASSUME OrderNoIInv, [OrderNoNext]_orderNoVars PROVE OrderNoIInv'
  OBVIOUS
<1>0. IInv /\ PlainIInv /\ ApartInv /\ counter \in Nat
  BY DEF OrderNoIInv, IInv, TypeOK
<1>1. CASE Next /\ UNCHANGED plainVars
  <2>1. IInv' /\ PlainIInv'
    BY <1>0, <1>1, InvStep, CacheAdvances, PlainKept
  <2>2. ApartInv'
    <3> SUFFICES ASSUME NEW j \in Jvm, NEW c \in Caller, NEW id \in Id,
                        Granted(j, id)', PlainGranted(c, id + 1)
                 PROVE  FALSE
      BY <1>1 DEF ApartInv, PlainGranted, plainVars
    <3>1. id + 1 <= counter
      BY <1>0, PlainGrantedBelow
    <3>2. Granted(j, id)
      BY <1>0, <1>1, <3>1, GrantedByCache
    <3> QED BY <1>0, <3>2 DEF ApartInv
  <2> QED BY <2>1, <2>2 DEF OrderNoIInv
<1>2. CASE Plain!Next /\ UNCHANGED jvmVars
  <2>1. IInv' /\ PlainIInv'
    BY <1>0, <1>2, PlainInvStep, PlainAdvances, CacheKept
  <2>2. ApartInv'
    <3> SUFFICES ASSUME NEW j \in Jvm, NEW c \in Caller, NEW id \in Id,
                        Granted(j, id), PlainGranted(c, id + 1)'
                 PROVE  FALSE
      BY <1>2 DEF ApartInv, Granted, Holds, Cached, InReply, jvmVars
    <3>1. id < counter
      BY <1>0, GrantedBelow
    <3>2. PlainGranted(c, id + 1)
      BY <1>0, <1>2, <3>1, GrantedByPlain
    <3> QED BY <1>0, <3>2 DEF ApartInv
  <2> QED BY <2>1, <2>2 DEF OrderNoIInv
<1>3. CASE UNCHANGED orderNoVars
  <2>1. Advance /\ UNCHANGED jvmVars /\ UNCHANGED plainVars
    BY <1>0, <1>3, MaxCounterAssumption DEF orderNoVars, vars, Advance, IInv, TypeOK
  <2>2. ApartInv'
    BY <1>0, <2>1 DEF ApartInv, Granted, Holds, Cached, InReply, jvmVars,
                      PlainGranted, plainVars
  <2> QED BY <1>0, <2>1, <2>2, CacheKept, PlainKept DEF OrderNoIInv
<1> QED BY <1>1, <1>2, <1>3 DEF OrderNoNext

\* Both sequences of SequenceManager on one Redis key: each keeps the invariant
\* behind its ids, and no segment reaches below a number of the other.
THEOREM BothInductive == OrderNoSpec => []OrderNoIInv
<1>1. OrderNoInit => OrderNoIInv
  <2> SUFFICES ASSUME OrderNoInit PROVE OrderNoIInv
    OBVIOUS
  <2>1. ApartInv
    BY DEF OrderNoInit, Plain!Init, ApartInv, PlainGranted
  <2> QED BY <2>1, InvInit, PlainInvInit DEF OrderNoInit, OrderNoIInv
<1> QED BY <1>1, OrderNoStep, PTL DEF OrderNoSpec

\* The ids one JVM returns from its cache grow, although REDIS_ORDER_NO counts on the
\* same number.
THEOREM Increasing == OrderNoSpec => []IncreasingIds
<1>1. OrderNoIInv => IncreasingIds
  BY DEF OrderNoIInv, IInv
<1> QED BY <1>1, BothInductive, PTL

\* An id that both sequences return is the first of its segment: the id below it
\* is never returned from a cache.
THEOREM SharedStarts == OrderNoSpec => []SharedIdStartsSegment
<1>1. OrderNoIInv => SharedIdStartsSegment
  <2> SUFFICES ASSUME OrderNoIInv,
                      NEW j \in Jvm, NEW c \in Caller, NEW m \in DOMAIN issued[j],
                      NEW n \in DOMAIN plainIssued[c], issued[j][m] = plainIssued[c][n],
                      NEW k \in Jvm, NEW i \in DOMAIN issued[k],
                      issued[k][i] = issued[j][m] - 1
               PROVE  FALSE
    BY DEF SharedIdStartsSegment
  <2>1. issued[k][i] \in Id /\ issued[j][m] \in Nat
    <3>1. /\ issued[k] \in Seq(Nat) /\ issued[j] \in Seq(Nat)
          /\ counter \in 0 .. MaxCounter
      BY DEF OrderNoIInv, IInv, TypeOK
    <3>2. issued[k][i] \in Nat /\ issued[j][m] \in Nat
      <4>1. issued[k][i] \in Nat
        BY <3>1
      <4>2. issued[j][m] \in Nat
        BY <3>1
      <4> QED BY <4>1, <4>2
    <3>3. issued[k][i] < counter
      BY DEF OrderNoIInv, IInv, GrantedInv
    <3> QED BY <3>1, <3>2, <3>3
  <2>2. Granted(k, issued[k][i]) /\ PlainGranted(c, issued[k][i] + 1)
    BY <2>1 DEF Granted, PlainGranted
  <2> QED BY <2>1, <2>2 DEF OrderNoIInv, ApartInv
<1> QED BY <1>1, BothInductive, PTL

\* On the shared counter both sequences implement DistributedIds: a step of the
\* other one is a stutter.
THEOREM BothRefine == OrderNoSpec => RefinesDistributedIds /\ PlainRefines
<1>1. OrderNoInit => Ids!Init /\ Plain!Ids!Init
  BY DEF OrderNoInit, Init, Ids!Init, Plain!Init, Plain!Ids!Init
<1>2. OrderNoIInv /\ [OrderNoNext]_orderNoVars
        => [Ids!Next]_issued /\ [Plain!Ids!Next]_plainIssued
  <2> SUFFICES ASSUME OrderNoIInv, [OrderNoNext]_orderNoVars
               PROVE  [Ids!Next]_issued /\ [Plain!Ids!Next]_plainIssued
    OBVIOUS
  <2>1. CASE Next /\ UNCHANGED plainVars
    BY <2>1, IssueOrStutter DEF OrderNoIInv, plainVars
  <2>2. CASE Plain!Next /\ UNCHANGED jvmVars
    BY <2>2, PlainIssueOrStutter DEF OrderNoIInv, jvmVars
  <2>3. CASE UNCHANGED orderNoVars
    BY <2>3 DEF orderNoVars, vars, jvmVars, plainVars
  <2> QED BY <2>1, <2>2, <2>3 DEF OrderNoNext
<1> QED BY <1>1, <1>2, BothInductive, PTL
        DEF OrderNoSpec, RefinesDistributedIds, Ids!Spec, PlainRefines,
            Plain!RefinesDistributedIds, Plain!Ids!Spec

=============================================================================
