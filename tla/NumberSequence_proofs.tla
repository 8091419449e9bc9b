----------------------- MODULE NumberSequence_proofs -----------------------
(***************************************************************************)
(* NumberSequence, whose next() is not synchronized: what its races leave  *)
(* intact, for any objects, threads, counter and maxValue.                 *)
(***************************************************************************)
EXTENDS NumberSequence, TLAPS

USE MaxCounterAssumption, MaxValueAssumption, MaxCallsAssumption

\* Every action keeps the types of the state.
LEMMA TypeStep == IInv /\ [Next]_vars => TypeOK'
<1> SUFFICES ASSUME IInv, [Next]_vars PROVE TypeOK'
  OBVIOUS
<1> USE DEF IInv, TypeOK, Goto, PC
<1>1. ASSUME NEW o \in Object, Restart(o) PROVE TypeOK'
  BY <1>1 DEF Restart, Fresh
<1>2. ASSUME NEW o \in Object, NEW t \in Thread, Enter(o, t) PROVE TypeOK'
  BY <1>2 DEF Enter
<1>3. ASSUME NEW o \in Object, NEW t \in Thread, RedisIncrements(o, t) PROVE TypeOK'
  BY <1>3 DEF RedisIncrements
<1>4. ASSUME NEW o \in Object, NEW t \in Thread, Store(o, t) PROVE TypeOK'
  BY <1>4 DEF Store
<1>5. ASSUME NEW o \in Object, NEW t \in Thread, Compare(o, t) PROVE TypeOK'
  BY <1>5 DEF Compare
<1>6. ASSUME NEW o \in Object, NEW t \in Thread, ReturnValue(o, t) PROVE TypeOK'
  BY <1>6 DEF ReturnValue, Return, FieldInv, Stored
<1>7. ASSUME NEW o \in Object, NEW t \in Thread, ReturnMax(o, t) PROVE TypeOK'
  BY <1>7 DEF ReturnMax, Return, FieldInv
<1>8. ASSUME NEW o \in Object, NEW t \in Thread, Throw(o, t) PROVE TypeOK'
  BY <1>8 DEF Throw
<1>9. CASE UNCHANGED vars
  BY <1>9 DEF vars
<1> QED BY <1>1, <1>2, <1>3, <1>4, <1>5, <1>6, <1>7, <1>8, <1>9 DEF Next

\* After a return, what is returned is what was, or what the call returns.
LEMMA ReturnedBefore ==
  ASSUME IInv, NEW o \in Object, NEW t \in Thread, NEW from, NEW value \in Nat,
         Return(o, t, from, value), NEW n \in DOMAIN returned'
  PROVE  \/ n \in DOMAIN returned /\ returned'[n] = returned[n]
         \/ /\ n = Len(returned) + 1
            /\ returned'[n].object = o
            /\ returned'[n].value = value
            /\ returned'[n].alone <=> t \in alone[o]
<1>1. returned \in Seq([object : Object, value : 1 .. MaxCounter, alone : BOOLEAN])
  BY DEF IInv, TypeOK
<1>2. PICK new : new = [object |-> o, value |-> value, alone |-> t \in alone[o]]
  OBVIOUS
<1>3. returned' = Append(returned, new)
  BY <1>2 DEF Return
<1>4. \/ n \in DOMAIN returned /\ returned'[n] = returned[n]
      \/ n = Len(returned) + 1 /\ returned'[n] = new
  BY <1>1, <1>3
<1>5. new.object = o /\ new.value = value /\ (new.alone <=> t \in alone[o])
  BY <1>2
<1> QED BY <1>4, <1>5

\* The fields stay within what the counter granted.
LEMMA FieldStep == IInv /\ [Next]_vars => FieldInv'
<1> SUFFICES ASSUME IInv, [Next]_vars PROVE FieldInv'
  OBVIOUS
<1> USE DEF IInv, TypeOK, FieldInv, Stored, Goto
<1>1. ASSUME NEW o \in Object, Restart(o) PROVE FieldInv'
  BY <1>1 DEF Restart, Fresh
<1>2. ASSUME NEW o \in Object, NEW t \in Thread, Enter(o, t) PROVE FieldInv'
  BY <1>2 DEF Enter
<1>3. ASSUME NEW o \in Object, NEW t \in Thread, RedisIncrements(o, t) PROVE FieldInv'
  BY <1>3 DEF RedisIncrements
<1>4. ASSUME NEW o \in Object, NEW t \in Thread, Store(o, t) PROVE FieldInv'
  BY <1>4 DEF Store, SentInv, Sent
<1>5. ASSUME NEW o \in Object, NEW t \in Thread, Compare(o, t) PROVE FieldInv'
  BY <1>5 DEF Compare
<1>6. ASSUME NEW o \in Object, NEW t \in Thread, ReturnValue(o, t) PROVE FieldInv'
  BY <1>6 DEF ReturnValue, Return
<1>7. ASSUME NEW o \in Object, NEW t \in Thread, ReturnMax(o, t) PROVE FieldInv'
  BY <1>7 DEF ReturnMax, Return
<1>8. ASSUME NEW o \in Object, NEW t \in Thread, Throw(o, t) PROVE FieldInv'
  BY <1>8 DEF Throw
<1>9. CASE UNCHANGED vars
  BY <1>9 DEF vars
<1> QED BY <1>1, <1>2, <1>3, <1>4, <1>5, <1>6, <1>7, <1>8, <1>9 DEF Next

\* A number on its way stays that of one call.
LEMMA SentStep == IInv /\ [Next]_vars => SentInv'
<1> SUFFICES ASSUME IInv, [Next]_vars PROVE SentInv'
  OBVIOUS
<1> USE DEF IInv, TypeOK, SentInv, Sent, Goto
<1>1. ASSUME NEW o \in Object, Restart(o) PROVE SentInv'
  BY <1>1 DEF Restart, Fresh
<1>2. ASSUME NEW o \in Object, NEW t \in Thread, Enter(o, t) PROVE SentInv'
  BY <1>2 DEF Enter
<1>3. ASSUME NEW o \in Object, NEW t \in Thread, RedisIncrements(o, t) PROVE SentInv'
  <2>1. /\ \A p \in Object : curValue[p] # counter + 1
        /\ \A n \in DOMAIN returned : returned[n].value # counter + 1
        /\ \A p \in Object, u \in Thread : Sent(p, u) => reply[p][u] # counter + 1
    <3>1. \A p \in Object : curValue[p] # counter + 1
      BY DEF FieldInv
    <3>2. \A n \in DOMAIN returned : returned[n].value # counter + 1
      BY DEF ReturnedInv
    <3>3. \A p \in Object, u \in Thread : Sent(p, u) => reply[p][u] # counter + 1
      OBVIOUS
    <3> QED BY <3>1, <3>2, <3>3
  <2>2. UNCHANGED <<curValue, returned>> /\ counter' = counter + 1
    BY <1>3 DEF RedisIncrements
  <2>3. reply'[o][t] = counter + 1
    BY <1>3 DEF RedisIncrements
  <2>4. \A p \in Object, u \in Thread : Sent(p, u)' =>
           \/ p = o /\ u = t
           \/ Sent(p, u) /\ reply'[p][u] = reply[p][u]
    BY <1>3 DEF RedisIncrements
  <2> SUFFICES ASSUME NEW p \in Object, NEW u \in Thread, Sent(p, u)'
               PROVE  /\ reply'[p][u] \in 1 .. counter'
                      /\ \A q \in Object : curValue'[q] # reply'[p][u]
                      /\ \A q \in Object, v \in Thread :
                            Sent(q, v)' /\ reply'[q][v] = reply'[p][u]
                               => q = p /\ v = u
                      /\ \A n \in DOMAIN returned' :
                            returned'[n].value # MaxValue
                               => returned'[n].value # reply'[p][u]
    OBVIOUS
  <2> HIDE DEF Sent
  <2>5. CASE p = o /\ u = t
    BY <2>1, <2>2, <2>3, <2>4, <2>5
  <2>6. CASE ~(p = o /\ u = t)
    <3>1. Sent(p, u) /\ reply'[p][u] = reply[p][u]
      BY <2>4, <2>6
    <3>2. reply[p][u] \in 1 .. counter /\ reply[p][u] # counter + 1
      BY <2>1, <3>1
    <3>3. ASSUME NEW q \in Object, NEW v \in Thread, Sent(q, v)',
                 reply'[q][v] = reply'[p][u]
          PROVE  q = p /\ v = u
      <4>1. Sent(q, v) /\ reply'[q][v] = reply[q][v]
        BY <2>3, <2>4, <3>1, <3>2, <3>3
      <4>2. reply[q][v] = reply[p][u]
        BY <3>1, <3>3, <4>1
      <4> QED BY <3>1, <4>1, <4>2
    <3>4. reply'[p][u] \in 1 .. counter'
      BY <2>2, <3>1, <3>2
    <3>5. \A q \in Object : curValue'[q] # reply'[p][u]
      BY <2>2, <3>1
    <3>6. \A n \in DOMAIN returned :
             returned[n].value # MaxValue => returned[n].value # reply[p][u]
      BY <3>1
    <3>7. \A n \in DOMAIN returned' :
             returned'[n].value # MaxValue => returned'[n].value # reply'[p][u]
      BY <2>2, <3>1, <3>6
    <3> QED BY <3>3, <3>4, <3>5, <3>7
  <2> QED BY <2>5, <2>6
<1>4. ASSUME NEW o \in Object, NEW t \in Thread, Store(o, t) PROVE SentInv'
  BY <1>4 DEF Store
<1>5. ASSUME NEW o \in Object, NEW t \in Thread, Compare(o, t) PROVE SentInv'
  BY <1>5 DEF Compare
<1>6. ASSUME NEW o \in Object, NEW t \in Thread, ReturnValue(o, t) PROVE SentInv'
  <2>1. \A n \in DOMAIN returned' :
           \/ n \in DOMAIN returned /\ returned'[n] = returned[n]
           \/ returned'[n].value = curValue[o]
    BY <1>6, ReturnedBefore DEF ReturnValue
  <2>2. UNCHANGED <<counter, curValue, reply>>
    BY <1>6 DEF ReturnValue, Return
  <2>3. \A p \in Object, u \in Thread : Sent(p, u)' => Sent(p, u)
    BY <1>6 DEF ReturnValue, Return
  <2> HIDE DEF Sent
  <2> QED BY <2>1, <2>2, <2>3
<1>7. ASSUME NEW o \in Object, NEW t \in Thread, ReturnMax(o, t) PROVE SentInv'
  <2>1. \A n \in DOMAIN returned' :
           \/ n \in DOMAIN returned /\ returned'[n] = returned[n]
           \/ returned'[n].value = MaxValue
    BY <1>7, ReturnedBefore DEF ReturnMax
  <2>2. UNCHANGED <<counter, curValue, reply>>
    BY <1>7 DEF ReturnMax, Return
  <2>3. \A p \in Object, u \in Thread : Sent(p, u)' => Sent(p, u)
    BY <1>7 DEF ReturnMax, Return
  <2> HIDE DEF Sent
  <2> QED BY <2>1, <2>2, <2>3
<1>8. ASSUME NEW o \in Object, NEW t \in Thread, Throw(o, t) PROVE SentInv'
  BY <1>8 DEF Throw
<1>9. CASE UNCHANGED vars
  BY <1>9 DEF vars
<1> QED BY <1>1, <1>2, <1>3, <1>4, <1>5, <1>6, <1>7, <1>8, <1>9 DEF Next

\* What is returned was granted.
LEMMA ReturnedStep == IInv /\ [Next]_vars => ReturnedInv'
<1> SUFFICES ASSUME IInv, [Next]_vars PROVE ReturnedInv'
  OBVIOUS
<1> USE DEF IInv, TypeOK, ReturnedInv
<1>1. ASSUME NEW o \in Object, NEW t \in Thread, ReturnValue(o, t) PROVE ReturnedInv'
  <2>1. counter' = counter /\ curValue[o] \in 1 .. counter
    BY <1>1 DEF ReturnValue, Return, FieldInv, Stored, Goto
  <2>2. \A n \in DOMAIN returned' :
           \/ n \in DOMAIN returned /\ returned'[n] = returned[n]
           \/ returned'[n].object = o /\ returned'[n].value = curValue[o]
    BY <1>1, ReturnedBefore DEF ReturnValue
  <2> QED BY <2>1, <2>2
<1>2. ASSUME NEW o \in Object, NEW t \in Thread, ReturnMax(o, t) PROVE ReturnedInv'
  <2>1. counter' = counter /\ MaxValue \in 1 .. counter
    BY <1>2 DEF ReturnMax, Return, FieldInv, Goto
  <2>2. \A n \in DOMAIN returned' :
           \/ n \in DOMAIN returned /\ returned'[n] = returned[n]
           \/ returned'[n].object = o /\ returned'[n].value = MaxValue
    BY <1>2, ReturnedBefore DEF ReturnMax
  <2> QED BY <2>1, <2>2
<1>3. CASE returned' = returned /\ counter' \in {counter, counter + 1}
  BY <1>3
<1> QED BY <1>1, <1>2, <1>3 DEF Next, Restart, Enter, RedisIncrements, Store, Compare,
                                Throw, vars

\* The number in a field stays that of one object.
LEMMA OwnStep == IInv /\ [Next]_vars => OwnFieldInv'
<1> SUFFICES ASSUME IInv, [Next]_vars PROVE OwnFieldInv'
  OBVIOUS
<1> USE DEF IInv, TypeOK, OwnFieldInv
<1>1. ASSUME NEW o \in Object, Restart(o) PROVE OwnFieldInv'
  BY <1>1 DEF Restart
<1>2. ASSUME NEW o \in Object, NEW t \in Thread, Store(o, t) PROVE OwnFieldInv'
  <2>1. /\ UNCHANGED returned
        /\ curValue' = [curValue EXCEPT ![o] = reply[o][t]]
        /\ Sent(o, t)
    BY <1>2 DEF Store, Goto, Sent
  <2>2. /\ \A p \in Object : curValue[p] # reply[o][t]
        /\ \A n \in DOMAIN returned :
              returned[n].value # MaxValue => returned[n].value # reply[o][t]
    BY <2>1 DEF SentInv
  <2> QED BY <2>1, <2>2
<1>3. ASSUME NEW o \in Object, NEW t \in Thread, ReturnValue(o, t) PROVE OwnFieldInv'
  <2>1. curValue' = curValue /\ curValue[o] > 0
    BY <1>3 DEF ReturnValue, Return, FieldInv, Stored, Goto
  <2>2. \A n \in DOMAIN returned' :
           \/ n \in DOMAIN returned /\ returned'[n] = returned[n]
           \/ returned'[n].object = o /\ returned'[n].value = curValue[o]
    BY <1>3, ReturnedBefore DEF ReturnValue
  <2> SUFFICES ASSUME NEW a \in Object, curValue[a] > 0,
                      NEW n \in DOMAIN returned', returned'[n].value = curValue[a],
                      returned'[n].value # MaxValue
               PROVE  returned'[n].object = a
    BY <2>1
  <2>3. CASE n \in DOMAIN returned /\ returned'[n] = returned[n]
    BY <2>3
  <2>4. CASE returned'[n].object = o /\ returned'[n].value = curValue[o]
    BY <2>1, <2>4
  <2> QED BY <2>2, <2>3, <2>4
<1>4. ASSUME NEW o \in Object, NEW t \in Thread, ReturnMax(o, t) PROVE OwnFieldInv'
  <2>1. curValue' = curValue
    BY <1>4 DEF ReturnMax, Return
  <2>2. \A n \in DOMAIN returned' :
           \/ n \in DOMAIN returned /\ returned'[n] = returned[n]
           \/ returned'[n].value = MaxValue
    BY <1>4, ReturnedBefore DEF ReturnMax
  <2> QED BY <2>1, <2>2
<1>5. CASE UNCHANGED <<curValue, returned>>
  BY <1>5
<1> QED BY <1>1, <1>2, <1>3, <1>4, <1>5
        DEF Next, Enter, RedisIncrements, Compare, Throw, vars

\* A call marked alone stays the only one in its object, with a number of its
\* own.
LEMMA AloneStep == IInv /\ [Next]_vars => AloneInv'
<1> SUFFICES ASSUME IInv, [Next]_vars PROVE AloneInv'
  OBVIOUS
<1> USE DEF IInv, TypeOK, AloneInv, AloneAt, Stored, Goto
<1>1. ASSUME NEW o \in Object, Restart(o) PROVE AloneInv'
  BY <1>1, SMTT(20) DEF Restart
<1>2. ASSUME NEW o \in Object, NEW t \in Thread, Enter(o, t) PROVE AloneInv'
  <2>1. /\ UNCHANGED <<curValue, returned>>
        /\ pc[o][t] = "idle"
        /\ pc' = [pc EXCEPT ![o][t] =
                     IF curValue[o] < MaxValue THEN "fetch" ELSE "saturated"]
        /\ \A u \in alone'[o] : u = t /\ \A v \in Thread : pc[o][v] = "idle"
        /\ \A p \in Object : p # o => alone'[p] = alone[p]
    BY <1>2 DEF Enter, InNext
  <2> SUFFICES ASSUME NEW p \in Object, NEW u \in alone'[p] PROVE AloneAt(p, u)'
    OBVIOUS
  <2>2. CASE p = o
    <3>1. u = t /\ \A v \in Thread : pc[p][v] = "idle"
      BY <2>1, <2>2
    <3>2. pc'[p][t] \in {"fetch", "saturated"} /\ \A v \in Thread : v # t => pc'[p][v] = "idle"
      BY <2>1, <2>2, <3>1
    <3> QED BY <2>1, <3>1, <3>2
  <2>3. CASE p # o
    <3>1. u \in alone[p] /\ pc'[p] = pc[p]
      BY <2>1, <2>3
    <3> QED BY <2>1, <3>1
  <2> QED BY <2>2, <2>3
<1>3. ASSUME NEW o \in Object, NEW t \in Thread, RedisIncrements(o, t) PROVE AloneInv'
  <2>1. /\ UNCHANGED <<curValue, returned, alone>>
        /\ pc[o][t] = "fetch"
        /\ pc' = [pc EXCEPT ![o][t] = "replied"]
    BY <1>3 DEF RedisIncrements
  <2> SUFFICES ASSUME NEW p \in Object, NEW u \in alone'[p] PROVE AloneAt(p, u)'
    OBVIOUS
  <2>2. CASE p = o
    BY <2>1, <2>2
  <2>3. CASE p # o
    BY <2>1, <2>3
  <2> QED BY <2>2, <2>3
<1>4. ASSUME NEW o \in Object, NEW t \in Thread, Store(o, t) PROVE AloneInv'
  <2>1. /\ UNCHANGED <<returned, alone>>
        /\ pc[o][t] = "replied"
        /\ pc' = [pc EXCEPT ![o][t] = "compare"]
        /\ curValue' = [curValue EXCEPT ![o] = reply[o][t]]
    BY <1>4 DEF Store
  <2>2. \A n \in DOMAIN returned :
           returned[n].value # MaxValue => returned[n].value # reply[o][t]
    BY <2>1 DEF SentInv, Sent
  <2> SUFFICES ASSUME NEW p \in Object, NEW u \in alone'[p] PROVE AloneAt(p, u)'
    OBVIOUS
  <2>3. AloneAt(p, u)
    BY <2>1
  <2>4. CASE p = o
    <3>1. u = t
      BY <2>1, <2>3, <2>4
    <3>2. \A v \in Thread : pc'[o][v] # "idle" => v = t
      BY <2>1, <2>3, <2>4, <3>1
    <3>3. pc'[o][t] = "compare" /\ curValue'[o] = reply[o][t]
      BY <2>1
    <3> QED BY <2>1, <2>2, <2>4, <3>1, <3>2, <3>3
  <2>5. CASE p # o
    BY <2>1, <2>3, <2>5
  <2> QED BY <2>4, <2>5
<1>5. ASSUME NEW o \in Object, NEW t \in Thread, Compare(o, t) PROVE AloneInv'
  <2>1. /\ UNCHANGED <<curValue, returned, alone>>
        /\ pc[o][t] = "compare"
        /\ pc' = [pc EXCEPT ![o][t] =
                     IF curValue[o] < MaxValue THEN "read" ELSE "saturated"]
    BY <1>5 DEF Compare
  <2> SUFFICES ASSUME NEW p \in Object, NEW u \in alone'[p] PROVE AloneAt(p, u)'
    OBVIOUS
  <2>2. CASE p = o
    BY <2>1, <2>2, SMTT(20)
  <2>3. CASE p # o
    BY <2>1, <2>3
  <2> QED BY <2>2, <2>3
<1>6. ASSUME NEW o \in Object, NEW t \in Thread, ReturnValue(o, t) PROVE AloneInv'
  <2>1. /\ UNCHANGED curValue
        /\ curValue[o] > 0
        /\ pc' = [pc EXCEPT ![o][t] = "idle"]
        /\ pc[o][t] = "read"
        /\ alone' = [alone EXCEPT ![o] = @ \ {t}]
    BY <1>6 DEF ReturnValue, Return, FieldInv
  <2>2. \A n \in DOMAIN returned' :
           \/ n \in DOMAIN returned /\ returned'[n] = returned[n]
           \/ returned'[n].value = curValue[o]
    BY <1>6, ReturnedBefore DEF ReturnValue
  <2> SUFFICES ASSUME NEW p \in Object, NEW u \in alone'[p]
               PROVE  AloneAt(p, u)'
    OBVIOUS
  <2>3. p # o
    BY <2>1
  <2>4. u \in alone[p] /\ pc'[p] = pc[p]
    BY <2>1, <2>3
  <2>5. curValue[p] # curValue[o]
    BY <2>1, <2>3 DEF OwnFieldInv
  <2> QED BY <2>1, <2>2, <2>4, <2>5
<1>7. ASSUME NEW o \in Object, NEW t \in Thread, ReturnMax(o, t) PROVE AloneInv'
  <2>1. /\ UNCHANGED curValue
        /\ pc' = [pc EXCEPT ![o][t] = "idle"]
        /\ pc[o][t] = "saturated"
        /\ alone' = [alone EXCEPT ![o] = @ \ {t}]
    BY <1>7 DEF ReturnMax, Return
  <2>2. \A n \in DOMAIN returned' :
           \/ n \in DOMAIN returned /\ returned'[n] = returned[n]
           \/ returned'[n].value = MaxValue
    BY <1>7, ReturnedBefore DEF ReturnMax
  <2> SUFFICES ASSUME NEW p \in Object, NEW u \in alone'[p] PROVE AloneAt(p, u)'
    OBVIOUS
  <2>3. CASE p = o
    BY <2>1, <2>2, <2>3
  <2>4. CASE p # o
    BY <2>1, <2>2, <2>4
  <2> QED BY <2>3, <2>4
<1>8. ASSUME NEW o \in Object, NEW t \in Thread, Throw(o, t) PROVE AloneInv'
  <2>1. /\ UNCHANGED <<curValue, returned>>
        /\ pc' = [pc EXCEPT ![o][t] = "idle"]
        /\ alone' = [alone EXCEPT ![o] = @ \ {t}]
    BY <1>8 DEF Throw
  <2> SUFFICES ASSUME NEW p \in Object, NEW u \in alone'[p] PROVE AloneAt(p, u)'
    OBVIOUS
  <2>2. CASE p = o
    BY <2>1, <2>2
  <2>3. CASE p # o
    BY <2>1, <2>3
  <2> QED BY <2>2, <2>3
<1>9. CASE UNCHANGED vars
  BY <1>9 DEF vars
<1> QED BY <1>1, <1>2, <1>3, <1>4, <1>5, <1>6, <1>7, <1>8, <1>9 DEF Next

\* The number of a call that was alone stays out of the fields that are read.
LEMMA SpentStep == IInv /\ [Next]_vars => SpentInv'
<1> SUFFICES ASSUME IInv, [Next]_vars PROVE SpentInv'
  OBVIOUS
<1> USE DEF IInv, TypeOK, SpentInv, Stored, Goto
<1>1. ASSUME NEW o \in Object, Restart(o) PROVE SpentInv'
  BY <1>1 DEF Restart, Fresh
<1>2. ASSUME NEW o \in Object, NEW t \in Thread, Enter(o, t) PROVE SpentInv'
  BY <1>2 DEF Enter
<1>3. ASSUME NEW o \in Object, NEW t \in Thread, RedisIncrements(o, t) PROVE SpentInv'
  BY <1>3 DEF RedisIncrements
<1>4. ASSUME NEW o \in Object, NEW t \in Thread, Store(o, t) PROVE SpentInv'
  <2>1. /\ UNCHANGED returned
        /\ curValue' = [curValue EXCEPT ![o] = reply[o][t]]
        /\ Sent(o, t)
    BY <1>4 DEF Store, Sent
  <2>2. \A n \in DOMAIN returned :
           returned[n].value # MaxValue => returned[n].value # reply[o][t]
    BY <2>1 DEF SentInv
  <2>3. \A p \in Object, u \in Thread : Stored(p, u)' => p = o \/ Stored(p, u)
    BY <1>4 DEF Store
  <2> HIDE DEF Stored
  <2> QED BY <2>1, <2>2, <2>3
<1>5. ASSUME NEW o \in Object, NEW t \in Thread, Compare(o, t) PROVE SpentInv'
  BY <1>5, SMTT(20) DEF Compare
<1>6. ASSUME NEW o \in Object, NEW t \in Thread, ReturnValue(o, t) PROVE SpentInv'
  <2>1. /\ UNCHANGED curValue
        /\ curValue[o] > 0
        /\ pc' = [pc EXCEPT ![o][t] = "idle"]
        /\ pc[o][t] = "read"
    BY <1>6 DEF ReturnValue, Return, FieldInv
  <2>2. \A n \in DOMAIN returned' :
           \/ n \in DOMAIN returned /\ returned'[n] = returned[n]
           \/ returned'[n].value = curValue[o] /\ (returned'[n].alone <=> t \in alone[o])
    BY <1>6, ReturnedBefore DEF ReturnValue
  <2> SUFFICES ASSUME NEW n \in DOMAIN returned', returned'[n].alone,
                      NEW p \in Object, NEW u \in Thread, Stored(p, u)',
                      curValue[p] = returned'[n].value
               PROVE  curValue[p] = MaxValue
    BY <2>1
  <2>3. Stored(p, u) /\ ~(p = o /\ u = t)
    BY <2>1
  <2>4. CASE n \in DOMAIN returned /\ returned'[n] = returned[n]
    BY <2>3, <2>4
  <2>5. CASE returned'[n].value = curValue[o] /\ t \in alone[o]
    <3>1. p # o
      BY <2>1, <2>3, <2>5 DEF AloneInv, AloneAt
    <3> QED BY <2>1, <2>5, <3>1 DEF OwnFieldInv
  <2> QED BY <2>2, <2>4, <2>5
<1>7. ASSUME NEW o \in Object, NEW t \in Thread, ReturnMax(o, t) PROVE SpentInv'
  <2>1. UNCHANGED curValue /\ pc' = [pc EXCEPT ![o][t] = "idle"]
    BY <1>7 DEF ReturnMax, Return
  <2>2. \A n \in DOMAIN returned' :
           \/ n \in DOMAIN returned /\ returned'[n] = returned[n]
           \/ returned'[n].value = MaxValue
    BY <1>7, ReturnedBefore DEF ReturnMax
  <2> QED BY <2>1, <2>2
<1>8. ASSUME NEW o \in Object, NEW t \in Thread, Throw(o, t) PROVE SpentInv'
  BY <1>8 DEF Throw
<1>9. CASE UNCHANGED vars
  BY <1>9 DEF vars
<1> QED BY <1>1, <1>2, <1>3, <1>4, <1>5, <1>6, <1>7, <1>8, <1>9 DEF Next

\* A return keeps the numbers of objects distinct, and those of calls alone.
LEMMA DistinctStep ==
  IInv /\ [Next]_vars => ObjectsDistinct' /\ AloneCorrect'
<1> SUFFICES ASSUME IInv, [Next]_vars PROVE ObjectsDistinct' /\ AloneCorrect'
  OBVIOUS
<1> USE DEF IInv, TypeOK, ObjectsDistinct, AloneCorrect, Repeated
<1>1. ASSUME NEW o \in Object, NEW t \in Thread, ReturnValue(o, t)
      PROVE  ObjectsDistinct' /\ AloneCorrect'
  <2>1. Stored(o, t) /\ pc[o][t] = "read" /\ curValue[o] > 0
    BY <1>1 DEF ReturnValue, Return, Goto, FieldInv, Stored
  <2>2. \A n \in DOMAIN returned' :
           \/ n \in DOMAIN returned /\ returned'[n] = returned[n]
           \/ /\ n = Len(returned) + 1
              /\ returned'[n].object = o
              /\ returned'[n].value = curValue[o]
              /\ returned'[n].alone <=> t \in alone[o]
    BY <1>1, ReturnedBefore DEF ReturnValue
  <2>3. \A n \in DOMAIN returned :
           returned[n].value = curValue[o] /\ curValue[o] # MaxValue =>
              /\ returned[n].object = o
              /\ ~returned[n].alone
              /\ t \notin alone[o]
    BY <2>1 DEF OwnFieldInv, SpentInv, AloneInv, AloneAt
  <2>4. t \in alone[o] => curValue[o] < MaxValue
    BY <2>1 DEF AloneInv, AloneAt
  <2>5. ObjectsDistinct'
    <3> SUFFICES ASSUME NEW m \in DOMAIN returned', NEW n \in DOMAIN returned',
                        returned'[m].value = returned'[n].value,
                        returned'[m].value # MaxValue
                 PROVE  returned'[m].object = returned'[n].object
      OBVIOUS
    <3>1. CASE /\ m \in DOMAIN returned /\ returned'[m] = returned[m]
               /\ n \in DOMAIN returned /\ returned'[n] = returned[n]
      BY <3>1
    <3>2. ASSUME NEW i \in DOMAIN returned', returned'[i].value = curValue[o],
                 curValue[o] # MaxValue
          PROVE  returned'[i].object = o
      BY <2>2, <2>3, <3>2
    <3>3. CASE returned'[m].value = curValue[o]
      BY <3>2, <3>3
    <3>4. CASE returned'[m].value # curValue[o]
      BY <2>2, <3>1, <3>4
    <3> QED BY <3>3, <3>4
  <2>6. AloneCorrect'
    <3> SUFFICES ASSUME NEW m \in DOMAIN returned', returned'[m].alone
                 PROVE  /\ returned'[m].value <= MaxValue
                        /\ \A n \in DOMAIN returned' :
                              ~(/\ m # n
                                /\ returned'[m].value = returned'[n].value
                                /\ returned'[m].value # MaxValue)
      OBVIOUS
    <3>1. CASE m \in DOMAIN returned /\ returned'[m] = returned[m]
      BY <2>2, <2>3, <3>1, SMTT(20)
    <3>2. CASE ~(m \in DOMAIN returned /\ returned'[m] = returned[m])
      BY <2>2, <2>3, <2>4, <3>2, SMTT(20)
    <3> QED BY <3>1, <3>2
  <2> QED BY <2>5, <2>6
<1>2. ASSUME NEW o \in Object, NEW t \in Thread, ReturnMax(o, t)
      PROVE  ObjectsDistinct' /\ AloneCorrect'
  <2>1. \A n \in DOMAIN returned' :
           \/ n \in DOMAIN returned /\ returned'[n] = returned[n]
           \/ returned'[n].value = MaxValue
    BY <1>2, ReturnedBefore DEF ReturnMax
  <2>2. \A n \in DOMAIN returned' : returned'[n].value # MaxValue =>
           n \in DOMAIN returned /\ returned'[n] = returned[n]
    BY <2>1
  <2>3. ObjectsDistinct'
    BY <2>2, ZenonT(30)
  <2>4. AloneCorrect'
    <3> SUFFICES ASSUME NEW m \in DOMAIN returned', returned'[m].alone
                 PROVE  /\ returned'[m].value <= MaxValue
                        /\ \A n \in DOMAIN returned' :
                              ~(/\ m # n
                                /\ returned'[m].value = returned'[n].value
                                /\ returned'[m].value # MaxValue)
      OBVIOUS
    <3>1. CASE returned'[m].value = MaxValue
      BY <3>1
    <3>2. CASE returned'[m].value # MaxValue
      BY <2>2, <3>2
    <3> QED BY <3>1, <3>2
  <2> QED BY <2>3, <2>4
<1>3. CASE UNCHANGED returned
  BY <1>3
<1> QED BY <1>1, <1>2, <1>3
        DEF Next, Restart, Enter, RedisIncrements, Store, Compare, Throw, vars

\* In NumberSequence, numbers on their way are each for one call, a field and
\* what is returned from it belong to one object, and what a call that is alone
\* stores is its own.
THEOREM Inductive == Spec => []IInv
<1>1. Init => IInv
  <2> SUFFICES ASSUME Init PROVE IInv
    OBVIOUS
  <2>1. TypeOK
    BY DEF Init, TypeOK, Fresh, PC
  <2>2. FieldInv /\ SentInv /\ OwnFieldInv /\ AloneInv
    BY DEF Init, Fresh, FieldInv, SentInv, OwnFieldInv, AloneInv, Stored, Sent
  <2>3. ReturnedInv /\ SpentInv /\ ObjectsDistinct /\ AloneCorrect
    BY DEF Init, ReturnedInv, SpentInv, ObjectsDistinct, AloneCorrect
  <2> QED BY <2>1, <2>2, <2>3 DEF IInv
<1>2. IInv /\ [Next]_vars => IInv'
  <2> SUFFICES ASSUME IInv, [Next]_vars PROVE IInv'
    OBVIOUS
  <2>1. TypeOK' /\ FieldInv' /\ ReturnedInv'
    BY TypeStep, FieldStep, ReturnedStep
  <2>2. SentInv' /\ OwnFieldInv' /\ AloneInv' /\ SpentInv'
    BY SentStep, OwnStep, AloneStep, SpentStep
  <2>3. ObjectsDistinct' /\ AloneCorrect'
    BY DistinctStep
  <2> QED BY <2>1, <2>2, <2>3 DEF IInv
<1> QED BY <1>1, <1>2, PTL DEF Spec

\* Two objects never return the same number, but for maxValue.
THEOREM DistinctObjects == Spec => []ObjectsDistinct
<1>1. IInv => ObjectsDistinct
  BY DEF IInv
<1> QED BY <1>1, Inductive, PTL

\* Whatever races in its object before and after, a call that met no other in
\* it returns a number of its own, within maxValue.
THEOREM AloneIsCorrect == Spec => []AloneCorrect
<1>1. IInv => AloneCorrect
  BY DEF IInv
<1> QED BY <1>1, Inductive, PTL
=============================================================================
