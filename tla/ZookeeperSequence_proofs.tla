---------------------- MODULE ZookeeperSequence_proofs ----------------------
(***************************************************************************)
(* ZookeeperSequence never hands out an id twice and deletes nothing but   *)
(* what is older than an id returned, for any number of JVMs and threads.  *)
(***************************************************************************)
EXTENDS ZookeeperSequence, TLAPS

USE HomeAssumption, BoundsAssumption DEF Id

\* When a thread has received id, an id is an old one at its old place or the new
\* one, in the last place of that thread.
LEMMA IssuedBefore ==
  ASSUME issued \in [Caller -> Seq(Nat)], NEW c \in Caller, NEW id \in Nat,
         issued' = [issued EXCEPT ![c] = Append(@, id)],
         NEW k \in Caller, NEW n \in DOMAIN issued'[k]
  PROVE  \/ n \in DOMAIN issued[k] /\ issued'[k][n] = issued[k][n]
         \/ k = c /\ n = Len(issued[c]) + 1 /\ issued'[k][n] = id
<1>1. CASE k = c
  <2>1. issued'[k] = Append(issued[c], id)
    BY <1>1
  <2> QED BY <1>1, <2>1
<1>2. CASE k # c
  BY <1>2
<1> QED BY <1>1, <1>2

\* An id above all that its thread has received keeps the ids growing.
LEMMA HigherKeepsIncreasing ==
  ASSUME issued \in [Caller -> Seq(Nat)], NEW c \in Caller, NEW id \in Nat,
         issued' = [issued EXCEPT ![c] = Append(@, id)],
         \A i \in DOMAIN issued[c] : issued[c][i] < id,
         IncreasingIds
  PROVE  IncreasingIds'
<1> SUFFICES ASSUME NEW a \in Caller, NEW m \in DOMAIN issued'[a],
                    NEW n \in DOMAIN issued'[a], m < n
             PROVE  issued'[a][m] < issued'[a][n]
  BY DEF IncreasingIds, Ids!IncreasingIds
<1>1. \/ m \in DOMAIN issued[a] /\ issued'[a][m] = issued[a][m]
      \/ a = c /\ m = Len(issued[c]) + 1 /\ issued'[a][m] = id
  BY IssuedBefore
<1>2. \/ n \in DOMAIN issued[a] /\ issued'[a][n] = issued[a][n]
      \/ a = c /\ n = Len(issued[c]) + 1 /\ issued'[a][n] = id
  BY IssuedBefore
<1>3. issued[a] \in Seq(Nat)
  OBVIOUS
<1> QED BY <1>1, <1>2, <1>3 DEF IncreasingIds, Ids!IncreasingIds

\* An id nobody has received leaves the ids distinct.
LEMMA FreshKeepsUnique ==
  ASSUME issued \in [Caller -> Seq(Nat)], NEW c \in Caller, NEW id \in Nat,
         issued' = [issued EXCEPT ![c] = Append(@, id)],
         ~Ids!IsIssued(id),
         UniqueIds
  PROVE  UniqueIds'
<1> SUFFICES ASSUME NEW a \in Caller, NEW b \in Caller,
                    NEW m \in DOMAIN issued'[a], NEW n \in DOMAIN issued'[b],
                    issued'[a][m] = issued'[b][n]
             PROVE  a = b /\ m = n
  BY DEF UniqueIds, Ids!UniqueIds
<1>1. \A k \in Caller : \A i \in DOMAIN issued[k] : issued[k][i] # id
  BY DEF Ids!IsIssued
<1>2. \/ m \in DOMAIN issued[a] /\ issued'[a][m] = issued[a][m]
      \/ a = c /\ m = Len(issued[c]) + 1 /\ issued'[a][m] = id
  BY IssuedBefore
<1>3. \/ n \in DOMAIN issued[b] /\ issued'[b][n] = issued[b][n]
      \/ b = c /\ n = Len(issued[c]) + 1 /\ issued'[b][n] = id
  BY IssuedBefore
<1>4. CASE m \in DOMAIN issued[a] /\ issued'[a][m] = issued[a][m]
  <2>1. issued[a][m] # id
    BY <1>1, <1>4
  <2>2. n \in DOMAIN issued[b] /\ issued'[b][n] = issued[b][n]
    BY <1>3, <1>4, <2>1
  <2> QED BY <1>4, <2>2 DEF UniqueIds, Ids!UniqueIds
<1>5. CASE a = c /\ m = Len(issued[c]) + 1 /\ issued'[a][m] = id
  <2>1. ~(n \in DOMAIN issued[b] /\ issued'[b][n] = issued[b][n])
    BY <1>1, <1>5
  <2> QED BY <1>3, <1>5, <2>1
<1> QED BY <1>2, <1>4, <1>5

\* Every action keeps the types of the state.
LEMMA TypeStep == TypeOK /\ [Next]_vars => TypeOK'
<1> SUFFICES ASSUME TypeOK, [Next]_vars PROVE TypeOK'
  OBVIOUS
<1> USE DEF TypeOK, PC, None, Goto, Leave, Fault, CreateSequential, callVars, poolVars
<1>1. ASSUME NEW j \in Jvm, Construct(j) PROVE TypeOK'
  BY <1>1 DEF Construct
<1>2. ASSUME NEW j \in Jvm, ConstructFails(j) PROVE TypeOK'
  BY <1>2 DEF ConstructFails
<1>3. ASSUME NEW j \in Jvm, List(j) PROVE TypeOK'
  <2>1. Tail(queue[j]) \in Seq(0 .. MaxNumber)
    BY <1>3 DEF List
  <2> QED BY <1>3, <2>1 DEF List, Older
<1>4. ASSUME NEW j \in Jvm, Delete(j) PROVE TypeOK'
  BY <1>4 DEF Delete
<1>5. ASSUME NEW j \in Jvm, Abort(j) PROVE TypeOK'
  BY <1>5 DEF Abort
<1>6. ASSUME NEW j \in Jvm, CleanFails(j) PROVE TypeOK'
  BY <1>6 DEF CleanFails
<1>7. ASSUME NEW j \in Jvm, Restart(j) PROVE TypeOK'
  BY <1>7 DEF Restart
<1>8. ASSUME NEW c \in Caller, Enter(c) PROVE TypeOK'
  BY <1>8 DEF Enter
<1>9. ASSUME NEW c \in Caller, Create(c) PROVE TypeOK'
  BY <1>9 DEF Create
<1>10. ASSUME NEW c \in Caller, Retry(c) PROVE TypeOK'
  BY <1>10 DEF Retry
<1>11. ASSUME NEW c \in Caller, Throw(c) PROVE TypeOK'
  BY <1>11 DEF Throw
<1>12. ASSUME NEW c \in Caller, Return(c) PROVE TypeOK'
  <2>1. issued' \in [Caller -> Seq(0 .. MaxNumber)]
    BY <1>12 DEF Return
  <2>2. queue' \in [Jvm -> Seq(0 .. MaxNumber)]
    BY <1>12 DEF Return
  <2> QED BY <1>12, <2>1, <2>2 DEF Return
<1>13. CASE UNCHANGED vars
  BY <1>13 DEF vars
<1> QED BY <1>1, <1>2, <1>3, <1>4, <1>5, <1>6, <1>7, <1>8, <1>9, <1>10, <1>11,
           <1>12, <1>13 DEF Next

\* The state of ZookeeperSequence always has its types.
THEOREM TypeCorrect == Spec => []TypeOK
<1>1. Init => TypeOK
  BY DEF Init, TypeOK, PC, None
<1> QED BY <1>1, TypeStep, PTL DEF Spec
-----------------------------------------------------------------------------
\* Only the return of next() touches what has been returned.
LEMMA OnlyReturnIssues ==
  ASSUME [Next]_vars
  PROVE  UNCHANGED issued \/ \E c \in Caller : Return(c)
BY DEF Next, Construct, ConstructFails, List, Delete, Abort, CleanFails, Restart,
       Enter, Create, Retry, Throw, callVars, vars

\* A return adds the number of the node to what its thread has received.
LEMMA ReturnIssues ==
  ASSUME TypeOK, NEW c \in Caller, Return(c)
  PROVE  \A d \in Caller : \A n \in DOMAIN issued'[d] :
             \/ n \in DOMAIN issued[d] /\ issued'[d][n] = issued[d][n]
             \/ d = c /\ issued'[d][n] = reply[c]
<1> SUFFICES ASSUME NEW d \in Caller, NEW n \in DOMAIN issued'[d]
             PROVE  \/ n \in DOMAIN issued[d] /\ issued'[d][n] = issued[d][n]
                    \/ d = c /\ issued'[d][n] = reply[c]
  OBVIOUS
<1>1. issued' = [issued EXCEPT ![c] = Append(@, reply[c])]
  BY DEF Return
<1>2. issued \in [Caller -> Seq(Nat)] /\ reply[c] \in Nat
  BY DEF TypeOK
<1>3. CASE d = c
  <2>1. issued'[d] = Append(issued[c], reply[c])
    BY <1>1, <1>2, <1>3
  <2> QED BY <1>2, <1>3, <2>1
<1>4. CASE d # c
  BY <1>1, <1>2, <1>4
<1> QED BY <1>3, <1>4

\* Numbers on their way stay granted, unissued and each with one caller.
LEMMA CreatedStep == IInv /\ [Next]_vars => CreatedInv' /\ IssuedInv'
<1> SUFFICES ASSUME IInv, [Next]_vars PROVE CreatedInv' /\ IssuedInv'
  OBVIOUS
<1> USE DEF IInv, TypeOK, CreatedInv, IssuedInv, Goto, Leave, callVars
<1>1. ASSUME UNCHANGED callVars, number' >= number PROVE CreatedInv' /\ IssuedInv'
  <2>1. number' \in Int /\ number \in Int
    BY TypeStep
  <2> QED BY <1>1, <2>1
<1>2. ASSUME NEW j \in Jvm, Restart(j) PROVE CreatedInv' /\ IssuedInv'
  <2>1. \A c \in Caller : pc'[c] = "created" =>
            pc[c] = "created" /\ reply'[c] = reply[c]
    BY <1>2 DEF Restart
  <2>2. number' = number /\ issued' = issued
    BY <1>2 DEF Restart
  <2> QED BY <2>1, <2>2
<1>3. ASSUME NEW c \in Caller, Enter(c) PROVE CreatedInv' /\ IssuedInv'
  BY <1>3 DEF Enter
<1>4. ASSUME NEW c \in Caller, Create(c) PROVE CreatedInv' /\ IssuedInv'
  <2>1. /\ number' = number + 1
        /\ reply' = [reply EXCEPT ![c] = number]
        /\ pc' = [pc EXCEPT ![c] = "created"]
        /\ issued' = issued
    BY <1>4 DEF Create, CreateSequential
  <2>2. number \in Nat
    OBVIOUS
  <2>3. IssuedInv'
    BY <2>1, <2>2
  <2>4. CreatedInv'
    <3> SUFFICES ASSUME NEW d \in Caller, NEW e \in Caller, pc'[d] = "created"
                 PROVE  /\ reply'[d] < number + 1
                        /\ pc'[e] = "created" /\ reply'[d] = reply'[e] => d = e
                        /\ \A n \in DOMAIN issued[e] :
                              /\ issued[e][n] # reply'[d]
                              /\ d = e => issued[e][n] < reply'[d]
      BY <2>1
    <3>1. CASE d = c
      BY <2>1, <2>2, <3>1
    <3>2. CASE d # c
      BY <2>1, <2>2, <3>2
    <3> QED BY <3>1, <3>2
  <2> QED BY <2>3, <2>4
<1>5. ASSUME NEW c \in Caller, Retry(c) \/ Throw(c) PROVE CreatedInv' /\ IssuedInv'
  <2>1. \A d \in Caller : pc'[d] = "created" =>
            pc[d] = "created" /\ reply'[d] = reply[d]
    BY <1>5 DEF Retry, Throw
  <2>2. number' = number /\ issued' = issued
    BY <1>5 DEF Retry, Throw
  <2>3. CreatedInv /\ IssuedInv
    OBVIOUS
  <2>4. CreatedInv'
    <3> SUFFICES ASSUME NEW d \in Caller, NEW e \in Caller, pc'[d] = "created"
                 PROVE  /\ reply'[d] < number
                        /\ pc'[e] = "created" /\ reply'[d] = reply'[e] => d = e
                        /\ \A n \in DOMAIN issued[e] :
                              /\ issued[e][n] # reply'[d]
                              /\ d = e => issued[e][n] < reply'[d]
      BY <2>2
    <3> HIDE DEF IInv, TypeOK
    <3> QED BY <2>1, <2>3
  <2> QED BY <2>2, <2>3, <2>4
<1>6. ASSUME NEW c \in Caller, Return(c) PROVE CreatedInv' /\ IssuedInv'
  <2>1. \A d \in Caller : \A n \in DOMAIN issued'[d] :
           \/ n \in DOMAIN issued[d] /\ issued'[d][n] = issued[d][n]
           \/ d = c /\ issued'[d][n] = reply[c]
    BY <1>6, ReturnIssues
  <2>2. /\ pc[c] = "created"
        /\ pc' = [pc EXCEPT ![c] = "idle"]
        /\ reply' = [reply EXCEPT ![c] = 0]
        /\ number' = number
    BY <1>6 DEF Return
  <2>3. CreatedInv'
    <3> SUFFICES ASSUME NEW d \in Caller, NEW e \in Caller, pc'[d] = "created"
                 PROVE  /\ reply'[d] < number
                        /\ pc'[e] = "created" /\ reply'[d] = reply'[e] => d = e
                        /\ \A n \in DOMAIN issued'[e] :
                              /\ issued'[e][n] # reply'[d]
                              /\ d = e => issued'[e][n] < reply'[d]
      BY <2>2
    <3>1. d # c /\ reply'[d] = reply[d] /\ pc[d] = "created"
      BY <2>2
    <3>2. reply[d] # reply[c]
      BY <2>2, <3>1
    <3> QED BY <2>1, <2>2, <3>1, <3>2
  <2>4. IssuedInv'
    BY <2>1, <2>2
  <2> QED BY <2>3, <2>4
<1>7. number' >= number
  BY DEF Next, Construct, ConstructFails, List, Delete, Abort, CleanFails, Restart,
         Enter, Create, Retry, Throw, Return, CreateSequential, vars
<1> QED BY <1>1, <1>2, <1>3, <1>4, <1>5, <1>6, <1>7
        DEF Next, Construct, ConstructFails, List, Delete, Abort, CleanFails, vars

-----------------------------------------------------------------------------
\* What is outdated stays so.
LEMMA OutdatedStays ==
  ASSUME TypeOK, [Next]_vars, NEW p \in Id, Outdated(p)
  PROVE  Outdated(p)'
<1>1. CASE UNCHANGED issued
  BY <1>1 DEF Outdated
<1>2. ASSUME NEW c \in Caller, Return(c) PROVE Outdated(p)'
  <2>1. PICK d \in Caller : \E n \in DOMAIN issued[d] : p < issued[d][n]
    BY DEF Outdated
  <2>2. PICK n \in DOMAIN issued[d] : p < issued[d][n]
    BY <2>1
  <2>3. n \in DOMAIN issued'[d] /\ issued'[d][n] = issued[d][n]
    BY <1>2 DEF Return, TypeOK
  <2> QED BY <2>2, <2>3 DEF Outdated
<1> QED BY <1>1, <1>2, OnlyReturnIssues

\* After a return all that is older than its number is outdated.
LEMMA ReturnOutdates ==
  ASSUME TypeOK, NEW c \in Caller, Return(c), NEW p \in Id, p < reply[c]
  PROVE  Outdated(p)'
<1>1. issued'[c] = Append(issued[c], reply[c]) /\ issued[c] \in Seq(Id)
  BY DEF Return, TypeOK
<1>2. reply[c] \in Id
  BY DEF TypeOK
<1>3. Len(issued[c]) + 1 \in DOMAIN issued'[c]
      /\ issued'[c][Len(issued[c]) + 1] = reply[c]
  BY <1>1, <1>2
<1> QED BY <1>3 DEF Outdated

\* Tasks are only queued by calls that return, so what they list is outdated.
LEMMA TasksStep == IInv /\ [Next]_vars => TasksInv'
<1> SUFFICES ASSUME IInv, [Next]_vars PROVE TasksInv'
  OBVIOUS
<1>0. TypeOK /\ TasksInv /\ \A p \in Id : Outdated(p) => Outdated(p)'
  BY OutdatedStays DEF IInv
<1> HIDE DEF Id
<1>1. CASE UNCHANGED poolVars
  BY <1>0, <1>1 DEF TasksInv, poolVars, TypeOK
<1>2. ASSUME NEW j \in Jvm, List(j) PROVE TasksInv'
  <2>1. /\ queue[j] \in Seq(Id)
        /\ queue[j] # << >>
        /\ queue' = [queue EXCEPT ![j] = Tail(@)]
        /\ doomed' = [doomed EXCEPT ![j] = Older(Head(queue[j]))]
        /\ \A p \in Older(Head(queue[j])) : p \in Id /\ p < Head(queue[j])
    BY <1>0, <1>2 DEF List, TypeOK, Older
  <2>2. \A p \in Older(Head(queue[j])) : Outdated(p)
    BY <1>0, <2>1 DEF TasksInv
  <2>3. \A n \in DOMAIN Tail(queue[j]) :
            n + 1 \in DOMAIN queue[j] /\ Tail(queue[j])[n] = queue[j][n + 1]
    BY <2>1
  <2> QED BY <1>0, <2>1, <2>2, <2>3 DEF TasksInv, TypeOK
<1>3. ASSUME NEW j \in Jvm, Delete(j) PROVE TasksInv'
  BY <1>0, <1>3 DEF Delete, TasksInv, TypeOK
<1>4. ASSUME NEW j \in Jvm, Abort(j) \/ CleanFails(j) PROVE TasksInv'
  BY <1>0, <1>4 DEF Abort, CleanFails, TasksInv, TypeOK, None
<1>5. ASSUME NEW j \in Jvm, Restart(j) PROVE TasksInv'
  BY <1>0, <1>5 DEF Restart, TasksInv, TypeOK, None
<1>6. ASSUME NEW c \in Caller, Return(c) PROVE TasksInv'
  <2>1. /\ queue' = [queue EXCEPT ![Home[c]] = Append(@, reply[c])]
        /\ doomed' = doomed
        /\ Home[c] \in Jvm
    BY <1>6 DEF Return
  <2>2. \A p \in Id : p < reply[c] => Outdated(p)'
    BY <1>0, <1>6, ReturnOutdates
  <2>3. /\ queue \in [Jvm -> Seq(Id)]
        /\ reply[c] \in Id
        /\ doomed \in [Jvm -> SUBSET Id]
    BY <1>0 DEF TypeOK
  <2>4. ASSUME NEW j \in Jvm, NEW n \in DOMAIN queue'[j]
        PROVE  \/ n \in DOMAIN queue[j] /\ queue'[j][n] = queue[j][n]
               \/ queue'[j][n] = reply[c]
    BY <2>1, <2>3
  <2> QED BY <1>0, <2>1, <2>2, <2>3, <2>4 DEF TasksInv
<1> QED BY <1>1, <1>2, <1>3, <1>4, <1>5, <1>6
        DEF Next, Construct, ConstructFails, Enter, Create, Retry, Throw, poolVars,
            vars

\* A node goes only as an element of such a list.
LEMMA DeletedStep == IInv /\ [Next]_vars => DeletedWereOlder'
<1> SUFFICES ASSUME IInv, [Next]_vars PROVE DeletedWereOlder'
  OBVIOUS
<1>0. /\ TypeOK /\ TasksInv /\ DeletedWereOlder
      /\ \A p \in Id : Outdated(p) => Outdated(p)'
  BY OutdatedStays DEF IInv
<1>1. CASE UNCHANGED <<number, nodes>>
  BY <1>0, <1>1 DEF DeletedWereOlder
<1>2. CASE CreateSequential
  BY <1>0, <1>2 DEF CreateSequential, DeletedWereOlder, TypeOK
<1>3. ASSUME NEW j \in Jvm, Delete(j) PROVE DeletedWereOlder'
  BY <1>0, <1>3 DEF Delete, DeletedWereOlder, TasksInv, TypeOK
<1> QED BY <1>1, <1>2, <1>3
        DEF Next, Construct, ConstructFails, List, Abort, CleanFails, Restart,
            Enter, Create, Retry, Throw, Return, vars

-----------------------------------------------------------------------------
\* A call that returns has queued the task that covers what its id outdates.
LEMMA CoverReturn ==
  ASSUME IInv, NEW c \in Caller, Return(c), aborted = {}, faults = 0
  PROVE  CoverInv'
<1>1. /\ TypeOK /\ CoverInv
      /\ queue' = [queue EXCEPT ![Home[c]] = Append(@, reply[c])]
      /\ doomed' = doomed /\ nodes' = nodes
      /\ Home \in [Caller -> Jvm]
  BY DEF Return, IInv
<1>2. /\ queue \in [Jvm -> Seq(Nat)]
      /\ reply[c] \in Nat
      /\ nodes \subseteq Nat
  BY DEF IInv, TypeOK
<1>3. ASSUME NEW j \in Jvm, NEW p, Covers(j, p) PROVE Covers(j, p)'
  <2>1. \A n \in DOMAIN queue[j] : n \in DOMAIN queue'[j] /\ queue'[j][n] = queue[j][n]
    BY <1>1, <1>2
  <2> QED BY <1>1, <1>3, <2>1 DEF Covers
<1>4. ASSUME NEW p, p < reply[c] PROVE Covers(Home[c], p)'
  <2>1. queue'[Home[c]] = Append(queue[Home[c]], reply[c])
        /\ queue[Home[c]] \in Seq(Nat)
    BY <1>1, <1>2
  <2>2. Len(queue[Home[c]]) + 1 \in DOMAIN queue'[Home[c]]
        /\ queue'[Home[c]][Len(queue[Home[c]]) + 1] = reply[c]
    BY <1>2, <2>1
  <2> QED BY <1>4, <2>2 DEF Covers
<1>5. SUFFICES ASSUME NEW d \in Caller, NEW n \in DOMAIN issued'[d],
                      NEW p \in nodes, p < issued'[d][n]
               PROVE  Covers(Home[d], p)'
  BY <1>1 DEF CoverInv
<1>6. CASE n \in DOMAIN issued[d] /\ issued'[d][n] = issued[d][n]
  <2>1. Covers(Home[d], p)
    BY <1>1, <1>5, <1>6 DEF CoverInv
  <2> QED BY <1>1, <1>3, <2>1
<1>7. CASE d = c /\ issued'[d][n] = reply[c]
  BY <1>4, <1>5, <1>7
<1> QED BY <1>1, <1>6, <1>7, ReturnIssues

\* While no pass ends early, what is older than an id is deleted or still listed.
LEMMA CoverStep == IInv /\ [Next]_vars => CoverInv'
<1> SUFFICES ASSUME IInv, [Next]_vars, aborted' = {}, faults' = 0 PROVE CoverInv'
  BY DEF CoverInv
<1>0. /\ TypeOK /\ CoverInv /\ IssuedInv
      /\ \A c \in Caller : Home[c] \in Jvm
  BY DEF IInv
<1>1. ASSUME UNCHANGED <<issued, aborted, faults>>,
             \A j \in Jvm, p \in nodes' : p \in nodes /\ Covers(j, p) => Covers(j, p)',
             nodes' \subseteq nodes \cup {number}
      PROVE  CoverInv'
  <2>1. SUFFICES ASSUME NEW c \in Caller, NEW n \in DOMAIN issued[c],
                        NEW p \in nodes', p < issued[c][n]
                 PROVE  Covers(Home[c], p)'
    BY <1>1 DEF CoverInv
  <2>2. issued[c][n] < number /\ issued[c][n] \in Int /\ number \in Int
    BY <1>0 DEF IssuedInv, TypeOK
  <2>3. p \in nodes
    BY <1>1, <2>1, <2>2
  <2>4. Covers(Home[c], p)
    BY <1>0, <1>1, <2>1, <2>3 DEF CoverInv
  <2> QED BY <1>0, <1>1, <2>3, <2>4
<1>2. CASE UNCHANGED <<poolVars, issued, aborted, faults>>
           /\ (nodes' = nodes \/ CreateSequential)
  <2>1. \A j \in Jvm, p \in nodes' : Covers(j, p) => Covers(j, p)'
    BY <1>2 DEF Covers, poolVars
  <2> QED BY <1>1, <1>2, <2>1 DEF CreateSequential
<1>3. ASSUME NEW j \in Jvm, List(j) PROVE CoverInv'
  <2>1. /\ queue[j] \in Seq(Nat)
        /\ queue[j] # << >>
        /\ doomed[j] = {}
        /\ queue' = [queue EXCEPT ![j] = Tail(@)]
        /\ doomed' = [doomed EXCEPT ![j] = Older(Head(queue[j]))]
        /\ UNCHANGED <<nodes, issued, aborted, faults>>
    BY <1>0, <1>3 DEF List, TypeOK, None, callVars
  <2>2. ASSUME NEW p \in nodes, Covers(j, p) PROVE Covers(j, p)'
    <3>1. PICK n \in DOMAIN queue[j] : p < queue[j][n]
      BY <2>1, <2>2 DEF Covers
    <3>2. CASE n = 1
      <4>1. p \in Older(Head(queue[j]))
        BY <2>1, <3>1, <3>2 DEF Older
      <4>2. doomed'[j] = Older(Head(queue[j]))
        BY <1>0, <2>1 DEF TypeOK
      <4> QED BY <4>1, <4>2 DEF Covers
    <3>3. CASE n # 1
      <4>1. n - 1 \in DOMAIN Tail(queue[j]) /\ Tail(queue[j])[n - 1] = queue[j][n]
        BY <2>1, <3>3
      <4>2. queue'[j] = Tail(queue[j])
        BY <1>0, <2>1 DEF TypeOK
      <4> QED BY <3>1, <4>1, <4>2 DEF Covers
    <3> QED BY <3>2, <3>3
  <2>3. \A k \in Jvm, p \in nodes : Covers(k, p) => Covers(k, p)'
    <3> SUFFICES ASSUME NEW k \in Jvm, k # j, NEW p \in nodes, Covers(k, p)
                 PROVE  Covers(k, p)'
      BY <2>2
    <3>1. queue'[k] = queue[k] /\ doomed'[k] = doomed[k]
      BY <1>0, <2>1 DEF TypeOK
    <3> QED BY <3>1 DEF Covers
  <2> QED BY <1>1, <2>1, <2>3
<1>4. ASSUME NEW j \in Jvm, Delete(j) PROVE CoverInv'
  <2>1. PICK p \in doomed[j] \cap nodes :
            /\ nodes' = nodes \ {p}
            /\ doomed' = [doomed EXCEPT ![j] = @ \ {p}]
            /\ UNCHANGED <<issued, queue, aborted, faults>>
    BY <1>4 DEF Delete, callVars
  <2>2. \A k \in Jvm, r \in nodes' : Covers(k, r) => Covers(k, r)'
    BY <1>0, <2>1 DEF Covers, TypeOK
  <2> QED BY <1>1, <2>1, <2>2
<1>5. ASSUME NEW j \in Jvm, Abort(j) PROVE CoverInv'
  BY <1>5 DEF Abort
<1>6. ASSUME NEW j \in Jvm, CleanFails(j) \/ Restart(j) PROVE CoverInv'
  BY <1>0, <1>6 DEF CleanFails, Restart, Fault, TypeOK
<1>7. ASSUME NEW c \in Caller, Return(c) PROVE CoverInv'
  BY <1>7, CoverReturn DEF Return
<1> QED BY <1>2, <1>3, <1>4, <1>5, <1>6, <1>7
        DEF Next, Construct, ConstructFails, Enter, Create, Retry, Throw, callVars,
            poolVars, vars

-----------------------------------------------------------------------------
\* The number a call returns is unissued and above all its thread has received.
LEMMA ReturnFresh ==
  ASSUME IInv, NEW c \in Caller, Return(c)
  PROVE  /\ reply[c] \in Id
         /\ issued' = [issued EXCEPT ![c] = Append(@, reply[c])]
         /\ ~Ids!IsIssued(reply[c])
         /\ \A i \in DOMAIN issued[c] : issued[c][i] < reply[c]
BY DEF Return, IInv, TypeOK, CreatedInv, Ids!IsIssued

\* A return keeps the ids distinct, and those of each thread growing.
LEMMA IssueStep == IInv /\ [Next]_vars => UniqueIds' /\ IncreasingIds'
<1> SUFFICES ASSUME IInv, [Next]_vars PROVE UniqueIds' /\ IncreasingIds'
  OBVIOUS
<1> USE DEF UniqueIds, IncreasingIds, Ids!UniqueIds, Ids!IncreasingIds
<1>1. CASE UNCHANGED issued
  BY <1>1 DEF IInv
<1>2. ASSUME NEW c \in Caller, Return(c) PROVE UniqueIds' /\ IncreasingIds'
  <2>1. issued \in [Caller -> Seq(Nat)] /\ reply[c] \in Nat
    BY DEF IInv, TypeOK
  <2>2. PICK id \in Nat : id = reply[c]
    BY <2>1
  <2>3. /\ issued' = [issued EXCEPT ![c] = Append(@, id)]
        /\ ~Ids!IsIssued(id)
        /\ \A i \in DOMAIN issued[c] : issued[c][i] < id
    BY <1>2, <2>2, ReturnFresh
  <2>4. UniqueIds /\ IncreasingIds
    BY DEF IInv
  <2> HIDE DEF UniqueIds, IncreasingIds
  <2>5. UniqueIds'
    BY <2>1, <2>3, <2>4, FreshKeepsUnique
  <2>6. IncreasingIds'
    BY <2>1, <2>3, <2>4, HigherKeepsIncreasing
  <2> QED BY <2>5, <2>6
<1> QED BY <1>1, <1>2, OnlyReturnIssues

\* IInv holds initially and is kept by every step of the code.
THEOREM Inductive == Spec => []IInv
<1>1. Init => IInv
  <2> SUFFICES ASSUME Init PROVE IInv
    OBVIOUS
  <2>1. TypeOK
    BY DEF Init, TypeOK, PC, None
  <2>2. \A c \in Caller : issued[c] = << >> /\ pc[c] = "idle"
    BY DEF Init
  <2>3. TasksInv
    <3>1. \A j \in Jvm : queue[j] = << >> /\ doomed[j] = {}
      BY DEF Init, None
    <3> SUFFICES ASSUME NEW j \in Jvm
                 PROVE  /\ \A n \in DOMAIN queue[j] : \A p \in Id :
                              p < queue[j][n] => Outdated(p)
                        /\ \A p \in doomed[j] : Outdated(p)
      BY DEF TasksInv
    <3>2. queue[j] = << >>
      BY <3>1
    <3>3. DOMAIN << >> = {}
      OBVIOUS
    <3>4. DOMAIN queue[j] = {}
      BY <3>2, <3>3
    <3> QED BY <3>1, <3>4
  <2>4. DeletedWereOlder
    BY DEF Init, DeletedWereOlder
  <2>5. CreatedInv /\ IssuedInv
    BY <2>2 DEF CreatedInv, IssuedInv
  <2>6. UniqueIds /\ IncreasingIds
    BY <2>2 DEF UniqueIds, Ids!UniqueIds, IncreasingIds, Ids!IncreasingIds
  <2>7. CoverInv
    BY DEF Init, CoverInv
  <2> QED BY <2>1, <2>3, <2>4, <2>5, <2>6, <2>7 DEF IInv
<1>2. IInv /\ [Next]_vars => IInv'
  BY TypeStep, CreatedStep, TasksStep, CoverStep, DeletedStep, IssueStep DEF IInv
<1> QED BY <1>1, <1>2, PTL DEF Spec

\* Whatever is retried, lost or restarted, only nodes older than an id that some
\* call has returned are deleted.
THEOREM Deleted == Spec => []DeletedWereOlder
<1>1. IInv => DeletedWereOlder
  BY DEF IInv
<1> QED BY <1>1, Inductive, PTL

\* As long as no pass failed, no JVM died and no two cleaners met, nothing older
\* than an id that was issued is left when all calls and all tasks are done.
THEOREM Clean == Spec => []CleanUndisturbed
<1>1. IInv => CleanUndisturbed
  <2> SUFFICES ASSUME IInv, aborted = {}, faults = 0, Idle,
                      NEW c \in Caller, NEW n \in DOMAIN issued[c], NEW p \in nodes
               PROVE  p >= issued[c][n]
    BY DEF CleanUndisturbed, CleanWhenIdle
  <2>1. p \in Int /\ issued[c][n] \in Int /\ Home[c] \in Jvm
    BY DEF IInv, TypeOK
  <2>2. ~Covers(Home[c], p)
    <3>1. queue[Home[c]] = << >> /\ doomed[Home[c]] = {}
      BY <2>1 DEF Idle, None
    <3> QED BY <3>1 DEF Covers
  <2> QED BY <2>1, <2>2 DEF IInv, CoverInv
<1> QED BY <1>1, Inductive, PTL

\* ZookeeperSequence implements DistributedIds with one client per thread.
THEOREM Refinement == Spec => RefinesDistributedIds
<1>1. Init => Ids!Init
  BY DEF Init, Ids!Init
<1>2. IInv /\ [Next]_vars => [Ids!Next]_issued
  <2> SUFFICES ASSUME IInv, [Next]_vars PROVE [Ids!Next]_issued
    OBVIOUS
  <2>1. ASSUME NEW c \in Caller, Return(c) PROVE Ids!Next
    <3>1. Ids!Issue(c, reply[c]) /\ reply[c] \in Id
      BY <2>1, ReturnFresh DEF Ids!Issue
    <3> QED BY <3>1 DEF Ids!Next
  <2> QED BY <2>1, OnlyReturnIssues
<1> QED BY <1>1, <1>2, Inductive, PTL DEF Spec, RefinesDistributedIds, Ids!Spec
=============================================================================
