---------------------- MODULE SnowFlakeSequence_proofs ----------------------
(***************************************************************************)
(* SnowFlakeSequence for any JVMs, field sizes and bounds: the ids of a    *)
(* JVM grow, and those of JVMs with distinct pairs of numbers never meet,  *)
(* as long as no clock is set back in a run in which a JVM restarts.       *)
(***************************************************************************)
EXTENDS SnowFlakeSequence, TLAPS

\* When a JVM has received id, an id is an old one at its old place or the new
\* one, in the last place of that JVM.
LEMMA IssuedBefore ==
  ASSUME issued \in [Jvm -> Seq(Nat)], NEW j \in Jvm, NEW id \in Nat,
         issued' = [issued EXCEPT ![j] = Append(@, id)],
         NEW k \in Jvm, NEW n \in DOMAIN issued'[k]
  PROVE  \/ n \in DOMAIN issued[k] /\ issued'[k][n] = issued[k][n]
         \/ k = j /\ n = Len(issued[j]) + 1 /\ issued'[k][n] = id
<1>1. CASE k = j
  <2>1. issued'[k] = Append(issued[j], id)
    BY <1>1
  <2> QED BY <1>1, <2>1
<1>2. CASE k # j
  BY <1>2
<1> QED BY <1>1, <1>2

\* An id above all that its JVM has received keeps the ids growing.
LEMMA HigherKeepsIncreasing ==
  ASSUME issued \in [Jvm -> Seq(Nat)], NEW j \in Jvm, NEW id \in Nat,
         issued' = [issued EXCEPT ![j] = Append(@, id)],
         \A i \in DOMAIN issued[j] : issued[j][i] < id,
         IncreasingIds
  PROVE  IncreasingIds'
<1> SUFFICES ASSUME NEW a \in Jvm, NEW m \in DOMAIN issued'[a],
                    NEW n \in DOMAIN issued'[a], m < n
             PROVE  issued'[a][m] < issued'[a][n]
  BY DEF IncreasingIds, Ids!IncreasingIds
<1>1. \/ m \in DOMAIN issued[a] /\ issued'[a][m] = issued[a][m]
      \/ a = j /\ m = Len(issued[j]) + 1 /\ issued'[a][m] = id
  BY IssuedBefore
<1>2. \/ n \in DOMAIN issued[a] /\ issued'[a][n] = issued[a][n]
      \/ a = j /\ n = Len(issued[j]) + 1 /\ issued'[a][n] = id
  BY IssuedBefore
<1>3. issued[a] \in Seq(Nat)
  OBVIOUS
<1> QED BY <1>1, <1>2, <1>3 DEF IncreasingIds, Ids!IncreasingIds

\* Every JVM is given a pair of numbers of its own.
DistinctNumbers ==
    \A j, k \in Jvm : Datacenter[j] = Datacenter[k] /\ Machine[j] = Machine[k] => j = k

Time == 0 .. MaxTime
Number == 0 .. SequenceSize - 1

-----------------------------------------------------------------------------
\* A field of n values below another one: the upper field decides.
LEMMA FieldOrder ==
  ASSUME NEW n \in Nat \ {0}, NEW a \in Nat, NEW b \in Nat, a < b,
         NEW x \in 0 .. n - 1, NEW y \in 0 .. n - 1
  PROVE  a * n + x < b * n + y
<1>1. b - a - 1 \in Nat /\ (b - a - 1) * n >= 0
  OBVIOUS
<1>2. b * n = a * n + n + (b - a - 1) * n
  OBVIOUS
<1>3. a * n \in Nat /\ b * n \in Nat /\ (b - a - 1) * n \in Nat
  OBVIOUS
<1> QED BY <1>1, <1>2, <1>3

\* Both fields can be read back.
LEMMA FieldsApart ==
  ASSUME NEW n \in Nat \ {0}, NEW a \in Nat, NEW b \in Nat,
         NEW x \in 0 .. n - 1, NEW y \in 0 .. n - 1, a * n + x = b * n + y
  PROVE  a = b /\ x = y
<1>1. ~(a < b) /\ ~(b < a)
  BY FieldOrder
<1>2. a = b
  BY <1>1
<1> QED BY <1>2

\* An id is a natural number.
LEMMA PackType ==
  ASSUME NEW t \in Nat, NEW d \in Nat, NEW m \in Nat, NEW s \in Nat
  PROVE  Pack(t, d, m, s) \in Nat
BY SizeAssumption DEF Pack

\* The time stamp is the most significant field of an id.
LEMMA PackTime ==
  ASSUME NEW t \in Nat, NEW u \in Nat, t < u,
         NEW d \in 0 .. DatacenterSize - 1, NEW e \in 0 .. DatacenterSize - 1,
         NEW m \in 0 .. MachineSize - 1, NEW l \in 0 .. MachineSize - 1,
         NEW s \in Number, NEW r \in Number
  PROVE  Pack(t, d, m, s) < Pack(u, e, l, r)
<1> USE SizeAssumption DEF Number
<1> DEFINE dt == t * DatacenterSize + d
           du == u * DatacenterSize + e
<1>1. dt < du /\ dt \in Nat /\ du \in Nat
  BY FieldOrder
<1> DEFINE mt == dt * MachineSize + m
           mu == du * MachineSize + l
<1>2. mt < mu /\ mt \in Nat /\ mu \in Nat
  <2> HIDE DEF dt, du
  <2> QED BY <1>1, FieldOrder
<1>3. mt * SequenceSize + s < mu * SequenceSize + r
  <2> HIDE DEF dt, du, mt, mu
  <2> QED BY <1>2, FieldOrder
<1> QED BY <1>3 DEF Pack

\* The number is the least significant one.
LEMMA PackNumber ==
  ASSUME NEW t \in Nat, NEW d \in Nat, NEW m \in Nat,
         NEW s \in Number, NEW r \in Number, s < r
  PROVE  Pack(t, d, m, s) < Pack(t, d, m, r)
<1> DEFINE upper == ((t * DatacenterSize + d) * MachineSize + m) * SequenceSize
<1>1. upper \in Nat
  BY SizeAssumption
<1>2. upper + s < upper + r
  <2> HIDE DEF upper
  <2> QED BY <1>1, SizeAssumption DEF Number
<1> QED BY <1>2 DEF Pack

\* No two ids have the same fields, down to the data center and the machine.
LEMMA PackApart ==
  ASSUME NEW t \in Nat, NEW u \in Nat,
         NEW d \in 0 .. DatacenterSize - 1, NEW e \in 0 .. DatacenterSize - 1,
         NEW m \in 0 .. MachineSize - 1, NEW l \in 0 .. MachineSize - 1,
         NEW s \in Number, NEW r \in Number, Pack(t, d, m, s) = Pack(u, e, l, r)
  PROVE  d = e /\ m = l
<1> USE SizeAssumption DEF Number
<1> DEFINE dt == t * DatacenterSize + d
           du == u * DatacenterSize + e
           mt == dt * MachineSize + m
           mu == du * MachineSize + l
<1>1. dt \in Nat /\ du \in Nat
  OBVIOUS
<1>2. mt \in Nat /\ mu \in Nat
  <2> HIDE DEF dt, du
  <2> QED BY <1>1
<1>3. mt * SequenceSize + s = mu * SequenceSize + r
  BY DEF Pack
<1>4. mt = mu
  <2> HIDE DEF mt, mu
  <2> QED BY <1>2, <1>3, FieldsApart
<1>5. dt = du /\ m = l
  <2> HIDE DEF dt, du
  <2> QED BY <1>1, <1>4, FieldsApart
<1>6. d = e
  BY <1>5, FieldsApart
<1> QED BY <1>5, <1>6

-----------------------------------------------------------------------------
\* The return of an id that is packed from the clock and a number of the
\* millisecond keeps the types.
LEMMA ReturnType ==
  ASSUME TypeOK, NEW j \in Jvm, NEW seq \in Number, Return(j, seq), clock' = clock,
         lastStmp[j] < clock[j] \/ lastStmp[j] = clock[j]
  PROVE  /\ lastStmp' \in [Jvm -> -1 .. MaxTime]
         /\ sequence' \in [Jvm -> Number]
         /\ issued' \in [Jvm -> Seq(Nat)]
<1>1. clock[j] \in Time /\ clock[j] \in Nat
  BY BoundsAssumption DEF TypeOK, Time
<1>2. Datacenter[j] \in Nat /\ Machine[j] \in Nat /\ seq \in Nat
  BY ConstructorAssumption, SizeAssumption DEF Number
<1>3. Pack(clock[j], Datacenter[j], Machine[j], seq) \in Nat
  BY <1>1, <1>2, PackType
<1> QED BY <1>1, <1>3 DEF TypeOK, Return, Time, Number

\* Every action keeps the types of the state.
LEMMA TypeStep == TypeOK /\ [Next]_vars => TypeOK'
<1> SUFFICES ASSUME TypeOK, [Next]_vars PROVE TypeOK'
  OBVIOUS
<1> USE SizeAssumption, BoundsAssumption DEF faultVars
<1>0. \A j \in Jvm : NextInMill(j) \in Number /\ sequence[j] \in Number /\ 0 \in Number
  BY DEF TypeOK, NextInMill, Number
<1>1. ASSUME NEW j \in Jvm, Refuse(j) \/ Spin(j) PROVE TypeOK'
  BY <1>1 DEF Refuse, Spin, vars, TypeOK
<1>2. ASSUME NEW j \in Jvm, NewMill(j) PROVE TypeOK'
  BY <1>0, <1>2, ReturnType DEF NewMill, TypeOK, Number
<1>3. ASSUME NEW j \in Jvm, SameMill(j) PROVE TypeOK'
  BY <1>0, <1>3, ReturnType DEF SameMill, TypeOK, Number
<1>4. ASSUME NEW j \in Jvm, StartSpin(j) PROVE TypeOK'
  BY <1>4 DEF StartSpin, TypeOK
<1>5. ASSUME NEW j \in Jvm, EndSpin(j) PROVE TypeOK'
  BY <1>0, <1>5, ReturnType DEF EndSpin, TypeOK, Number
<1>6. ASSUME NEW j \in Jvm, Tick(j) PROVE TypeOK'
  BY <1>6 DEF Tick, TypeOK
<1>7. ASSUME NEW j \in Jvm, SetBack(j) PROVE TypeOK'
  BY <1>7 DEF SetBack, TypeOK
<1>8. ASSUME NEW j \in Jvm, Restart(j) PROVE TypeOK'
  BY <1>8 DEF Restart, TypeOK
<1>9. CASE UNCHANGED vars
  BY <1>9 DEF vars, TypeOK
<1> QED BY <1>1, <1>2, <1>3, <1>4, <1>5, <1>6, <1>7, <1>8, <1>9 DEF Next

-----------------------------------------------------------------------------
\* An id is returned by a step that packs it from the time of the clock and a
\* number that was not used at that time.
Issues(j, seq) ==
    /\ Return(j, seq)
    /\ UNCHANGED <<clock, faultVars>>
    /\ \/ lastStmp[j] < clock[j]
       \/ lastStmp[j] = clock[j] /\ sequence[j] < seq /\ j \notin spinning
    /\ spinning' = spinning \ {j}

\* Only those three actions touch what has been returned.
LEMMA OnlyReturnIssues ==
  ASSUME TypeOK, [Next]_vars
  PROVE  UNCHANGED issued \/ \E j \in Jvm, seq \in Number : Issues(j, seq)
<1> USE SizeAssumption
<1>1. ASSUME NEW j \in Jvm, NewMill(j) PROVE Issues(j, 0) /\ 0 \in Number
  BY <1>1 DEF NewMill, Issues, Number, TypeOK
<1>2. ASSUME NEW j \in Jvm, SameMill(j)
      PROVE  Issues(j, sequence[j] + 1) /\ sequence[j] + 1 \in Number
  <2>1. sequence[j] \in Number /\ NextInMill(j) # 0
    BY <1>2 DEF SameMill, TypeOK, Number
  <2>2. NextInMill(j) = sequence[j] + 1 /\ sequence[j] + 1 \in Number
    BY <2>1 DEF NextInMill, Number
  <2> QED BY <1>2, <2>1, <2>2 DEF SameMill, Issues, TypeOK, Number
<1>3. ASSUME NEW j \in Jvm, EndSpin(j) PROVE Issues(j, sequence[j]) /\ sequence[j] \in Number
  BY <1>3 DEF EndSpin, Issues, Number, TypeOK
<1>4. UNCHANGED issued \/ \E j \in Jvm : NewMill(j) \/ SameMill(j) \/ EndSpin(j)
  BY DEF Next, Refuse, StartSpin, Spin, Tick, SetBack, Restart, vars
<1> QED BY <1>1, <1>2, <1>3, <1>4

-----------------------------------------------------------------------------
\* The id that next() is about to return in JVM j.
NewId(j, seq) == Pack(clock[j], Datacenter[j], Machine[j], seq)

\* The numbers of a JVM fit their fields.
LEMMA NumbersFit ==
  ASSUME NEW j \in Jvm
  PROVE  Datacenter[j] \in 0 .. DatacenterSize - 1 /\ Machine[j] \in 0 .. MachineSize - 1
BY ConstructorAssumption

\* It is above all that the JVM has returned.
LEMMA NewIdAbove ==
  ASSUME IInv, OneFault, NEW j \in Jvm, NEW seq \in Number, Issues(j, seq),
         NEW n \in DOMAIN issued[j]
  PROVE  issued[j][n] < NewId(j, seq)
<1>1. PICK t \in Time, s \in Number :
         issued[j][n] = Pack(t, Datacenter[j], Machine[j], s) /\ Past(j, t, s)
  BY DEF IInv, StampInv, Time, Number
<1>2. clock[j] \in Nat /\ lastStmp[j] \in Int /\ sequence[j] \in Nat /\ t \in Nat
  BY DEF IInv, TypeOK, Time
<1>3. t < clock[j] \/ (t = clock[j] /\ s < seq)
  BY <1>1, <1>2 DEF Past, Issues, Number
<1>4. CASE t < clock[j]
  BY <1>1, <1>2, <1>4, NumbersFit, PackTime DEF NewId
<1>5. CASE t = clock[j] /\ s < seq
  <2>1. Datacenter[j] \in Nat /\ Machine[j] \in Nat
    BY NumbersFit
  <2> QED BY <1>1, <1>2, <1>5, <2>1, PackNumber DEF NewId
<1> QED BY <1>3, <1>4, <1>5

\* No JVM with other numbers has returned it.
LEMMA NewIdFresh ==
  ASSUME IInv, OneFault, DistinctNumbers, NEW j \in Jvm, NEW seq \in Number,
         Issues(j, seq), NEW k \in Jvm, NEW n \in DOMAIN issued[k]
  PROVE  issued[k][n] # NewId(j, seq)
<1> SUFFICES ASSUME issued[k][n] = NewId(j, seq) PROVE FALSE
  OBVIOUS
<1>1. PICK t \in Time, s \in Number :
         issued[k][n] = Pack(t, Datacenter[k], Machine[k], s)
  BY DEF IInv, StampInv, Time, Number
<1>2. clock[j] \in Nat /\ t \in Nat
  BY DEF IInv, TypeOK, Time
<1>3. Datacenter[k] = Datacenter[j] /\ Machine[k] = Machine[j]
  <2>1. Pack(t, Datacenter[k], Machine[k], s)
            = Pack(clock[j], Datacenter[j], Machine[j], seq)
    BY <1>1 DEF NewId
  <2>2. /\ Datacenter[j] \in 0 .. DatacenterSize - 1 /\ Machine[j] \in 0 .. MachineSize - 1
        /\ Datacenter[k] \in 0 .. DatacenterSize - 1 /\ Machine[k] \in 0 .. MachineSize - 1
    BY NumbersFit
  <2> QED BY <1>2, <2>1, <2>2, PackApart
<1>4. k = j
  BY <1>3 DEF DistinctNumbers
<1>5. issued[k][n] \in Nat
  BY DEF IInv, TypeOK
<1> QED BY <1>4, <1>5, NewIdAbove

\* It is within the bound of the instance.
LEMMA NewIdBounded ==
  ASSUME IInv, NEW j \in Jvm, NEW seq \in Number
  PROVE  NewId(j, seq) \in Id
<1>1. clock[j] \in Nat /\ MaxTime + 1 \in Nat /\ clock[j] < MaxTime + 1
  BY BoundsAssumption DEF IInv, TypeOK
<1>2. 0 \in Number /\ 0 \in 0 .. DatacenterSize - 1 /\ 0 \in 0 .. MachineSize - 1
  BY SizeAssumption DEF Number
<1>3. NewId(j, seq) < Pack(MaxTime + 1, 0, 0, 0)
  BY <1>1, <1>2, NumbersFit, PackTime DEF NewId
<1>4. Datacenter[j] \in Nat /\ Machine[j] \in Nat /\ seq \in Nat
  BY NumbersFit DEF Number
<1>5. NewId(j, seq) \in Nat
  BY <1>1, <1>4, PackType DEF NewId
<1>6. Pack(MaxTime + 1, 0, 0, 0) \in Nat
  BY <1>1, PackType
<1> QED BY <1>3, <1>5, <1>6 DEF Id

-----------------------------------------------------------------------------
\* What a step that returns an id makes of what was in the past: more is.
LEMMA PastKept ==
  ASSUME IInv, NEW j \in Jvm, NEW seq \in Number, Issues(j, seq), NEW k \in Jvm,
         NEW t \in Time, NEW s \in Number, Past(k, t, s)
  PROVE  Past(k, t, s)'
BY SMTT(20) DEF Past, Issues, Return, IInv, TypeOK, Time, Number

\* A return keeps the invariant.
LEMMA IssuesKeeps ==
  ASSUME IInv, OneFault, NEW j \in Jvm, NEW seq \in Number, Issues(j, seq)
  PROVE  StampInv' /\ ClockInv' /\ IncreasingIds'
<1>1. issued' = [issued EXCEPT ![j] = Append(@, NewId(j, seq))]
  BY DEF Issues, Return, NewId
<1>2. issued \in [Jvm -> Seq(Nat)] /\ NewId(j, seq) \in Nat
  BY NewIdBounded DEF IInv, TypeOK, Id
<1>3. StampInv'
  <2> SUFFICES ASSUME NEW k \in Jvm, NEW n \in DOMAIN issued'[k]
               PROVE  \E t \in Time, s \in Number :
                         /\ issued'[k][n] = Pack(t, Datacenter[k], Machine[k], s)
                         /\ Past(k, t, s)'
    BY DEF StampInv, Time, Number
  <2>1. CASE n \in DOMAIN issued[k] /\ issued'[k][n] = issued[k][n]
    <3>1. PICK t \in Time, s \in Number :
             issued[k][n] = Pack(t, Datacenter[k], Machine[k], s) /\ Past(k, t, s)
      BY <2>1 DEF IInv, StampInv, Time, Number
    <3> QED BY <2>1, <3>1, PastKept
  <2>2. CASE k = j /\ issued'[k][n] = NewId(j, seq)
    <3>1. PICK t \in Time : t = clock[j]
      BY DEF IInv, TypeOK, Time
    <3>2. Past(j, t, seq)'
      BY <3>1 DEF Issues, Return, Past, IInv, TypeOK, Number
    <3> QED BY <2>2, <3>1, <3>2 DEF NewId
  <2>3. \/ n \in DOMAIN issued[k] /\ issued'[k][n] = issued[k][n]
        \/ k = j /\ n = Len(issued[j]) + 1 /\ issued'[k][n] = NewId(j, seq)
    <3>1. PICK id \in Nat : id = NewId(j, seq)
      BY <1>2
    <3>2. issued' = [issued EXCEPT ![j] = Append(@, id)]
      BY <1>1, <3>1
    <3> HIDE DEF NewId
    <3>3. \/ n \in DOMAIN issued[k] /\ issued'[k][n] = issued[k][n]
          \/ k = j /\ n = Len(issued[j]) + 1 /\ issued'[k][n] = id
      BY <1>2, <3>2, IssuedBefore
    <3> QED BY <3>1, <3>3
  <2> QED BY <2>1, <2>2, <2>3
<1>4. ClockInv'
  BY DEF ClockInv, Issues, Return, IInv, TypeOK, faultVars
<1>5. IncreasingIds'
  <2>1. PICK id \in Nat : id = NewId(j, seq)
    BY <1>2
  <2>2. /\ issued' = [issued EXCEPT ![j] = Append(@, id)]
        /\ \A i \in DOMAIN issued[j] : issued[j][i] < id
    BY <1>1, <2>1, NewIdAbove
  <2>3. IncreasingIds
    BY DEF IInv
  <2> QED BY <1>2, <2>2, <2>3, HigherKeepsIncreasing
<1> QED BY <1>3, <1>4, <1>5

\* The steps that return nothing keep what was returned in the past: a clock is
\* set back only where no JVM has forgotten its last id, and a JVM is started
\* again only where no clock has been set back.
LEMMA OthersKeep ==
  ASSUME IInv, OneFault, [Next]_vars, OneFault', UNCHANGED issued
  PROVE  StampInv' /\ ClockInv' /\ IncreasingIds'
<1> USE DEF faultVars
<1> DEFINE PastStays == \A k \in Jvm, t \in Time, s \in Number :
                           issued[k] # << >> /\ Past(k, t, s) => Past(k, t, s)'
<1>1. ASSUME PastStays PROVE StampInv'
  <2> SUFFICES ASSUME NEW k \in Jvm, NEW n \in DOMAIN issued[k]
               PROVE  \E t \in Time, s \in Number :
                         /\ issued[k][n] = Pack(t, Datacenter[k], Machine[k], s)
                         /\ Past(k, t, s)'
    BY DEF StampInv, Time, Number
  <2>1. PICK t \in Time, s \in Number :
           issued[k][n] = Pack(t, Datacenter[k], Machine[k], s) /\ Past(k, t, s)
    BY DEF IInv, StampInv, Time, Number
  <2>2. issued[k] # << >>
    OBVIOUS
  <2> QED BY <1>1, <2>1, <2>2
<1>2. TypeOK /\ ClockInv
  BY DEF IInv
<1> HIDE DEF PastStays
<1>3. ASSUME NEW j \in Jvm, StartSpin(j) PROVE PastStays /\ ClockInv'
  BY <1>2, <1>3 DEF StartSpin, PastStays, ClockInv, Past, TypeOK, Time, Number
<1>4. ASSUME NEW j \in Jvm, Tick(j) PROVE PastStays /\ ClockInv'
  BY <1>2, <1>4 DEF Tick, PastStays, ClockInv, Past, TypeOK, Time, Number
<1>5. ASSUME NEW j \in Jvm, SetBack(j) PROVE PastStays /\ ClockInv'
  <2>1. setBacks' # 0 /\ restarts = 0
    BY <1>2, <1>5 DEF SetBack, TypeOK, OneFault
  <2>2. PastStays
    BY <1>2, <1>5, <2>1 DEF SetBack, PastStays, ClockInv, Past
  <2>3. ClockInv'
    BY <1>2, <1>5, <2>1 DEF SetBack, ClockInv
  <2> QED BY <2>2, <2>3
<1>6. ASSUME NEW j \in Jvm, Restart(j) PROVE PastStays /\ ClockInv'
  <2>1. restarts' # 0 /\ setBacks = 0
    BY <1>2, <1>6 DEF Restart, TypeOK, OneFault
  <2>2. lastStmp[j] <= clock[j] /\ clock'[j] = clock[j] + 1
    BY <1>2, <1>6, <2>1 DEF Restart, ClockInv, TypeOK
  <2>3. PastStays
    BY <1>2, <1>6, <2>2, SMTT(20) DEF Restart, PastStays, Past, TypeOK, Time, Number
  <2>4. ClockInv'
    BY <1>2, <1>6, <2>1 DEF Restart, ClockInv, TypeOK
  <2> QED BY <2>3, <2>4
<1>7. ASSUME UNCHANGED vars PROVE PastStays /\ ClockInv'
  BY <1>2, <1>7 DEF vars, PastStays, ClockInv, Past
<1>8. PastStays /\ ClockInv'
  <2>1. ASSUME NEW j \in Jvm, NewMill(j) \/ SameMill(j) \/ EndSpin(j) PROVE FALSE
    <3>1. issued[j] \in Seq(Nat)
      BY <1>2 DEF TypeOK
    <3>2. \E seq : issued' = [issued EXCEPT ![j] = Append(@, NewId(j, seq))]
      BY <2>1 DEF NewMill, SameMill, EndSpin, Return, NewId
    <3>3. PICK seq : issued'[j] = Append(issued[j], NewId(j, seq))
      BY <1>2, <3>2 DEF TypeOK
    <3>4. issued[j] = Append(issued[j], NewId(j, seq))
      BY <3>3
    <3> HIDE DEF NewId
    <3>5. Len(Append(issued[j], NewId(j, seq))) = Len(issued[j]) + 1
      BY <3>1
    <3>6. Len(issued[j]) \in Nat
      BY <3>1
    <3> QED BY <3>4, <3>5, <3>6
  <2>2. ASSUME NEW j \in Jvm, Refuse(j) \/ Spin(j) PROVE UNCHANGED vars
    BY <2>2 DEF Refuse, Spin
  <2> QED BY <1>3, <1>4, <1>5, <1>6, <1>7, <2>1, <2>2 DEF Next
<1>9. IncreasingIds'
  BY DEF IInv, IncreasingIds, Ids!IncreasingIds
<1> QED BY <1>1, <1>8, <1>9

-----------------------------------------------------------------------------
\* IInv holds initially.
LEMMA InvInit == Init => IInv
<1> SUFFICES ASSUME Init PROVE IInv
  OBVIOUS
<1>1. TypeOK
  BY SizeAssumption, BoundsAssumption DEF Init, TypeOK
<1>2. StampInv /\ ClockInv /\ IncreasingIds
  BY BoundsAssumption DEF Init, StampInv, ClockInv, IncreasingIds, Ids!IncreasingIds
<1> QED BY <1>1, <1>2 DEF IInv

\* Every step of the code and of its environment keeps IInv.
LEMMA InvStep == IInv /\ [Next]_vars => IInv'
<1> SUFFICES ASSUME IInv, [Next]_vars, OneFault'
             PROVE  StampInv' /\ ClockInv' /\ IncreasingIds'
  BY TypeStep DEF IInv
<1>1. OneFault
  <2>1. setBacks \in Nat /\ restarts \in Nat
    BY DEF IInv, TypeOK
  <2>2. setBacks' \in {setBacks, setBacks + 1} /\ restarts' \in {restarts, restarts + 1}
    BY DEF Next, Refuse, NewMill, SameMill, StartSpin, Spin, EndSpin, Tick, SetBack,
           Restart, vars, faultVars
  <2> QED BY <2>1, <2>2 DEF OneFault
<1>2. TypeOK
  BY DEF IInv
<1> QED BY <1>1, <1>2, OnlyReturnIssues, IssuesKeeps, OthersKeep

\* IInv holds of SnowFlakeSequence.
THEOREM Inductive == Spec => []IInv
BY InvInit, InvStep, PTL DEF Spec

\* The ids one JVM returns grow, unless a clock was set back and a JVM, that one
\* or another, was started again.
THEOREM Increasing == Spec => [](OneFault => IncreasingIds)
<1>1. IInv => (OneFault => IncreasingIds)
  BY DEF IInv
<1> QED BY <1>1, Inductive, PTL

\* SnowFlakeSequence implements DistributedIds, and so never returns an id
\* twice, if no two JVMs are given the same pair of numbers and clocks that are
\* set back do not meet restarts.
THEOREM Refinement ==
  DistinctNumbers => (Spec /\ []OneFault => RefinesDistributedIds)
<1> SUFFICES ASSUME DistinctNumbers PROVE Spec /\ []OneFault => RefinesDistributedIds
  OBVIOUS
<1>1. Init => Ids!Init
  BY DEF Init, Ids!Init
<1>2. IInv /\ OneFault /\ [Next]_vars => [Ids!Next]_issued
  <2> SUFFICES ASSUME IInv, OneFault, [Next]_vars, issued' # issued PROVE Ids!Next
    OBVIOUS
  <2>1. PICK j \in Jvm, seq \in Number : Issues(j, seq)
    BY OnlyReturnIssues DEF IInv
  <2>2. NewId(j, seq) \in Id /\ ~Ids!IsIssued(NewId(j, seq))
    BY <2>1, NewIdBounded, NewIdFresh DEF Ids!IsIssued
  <2>3. Ids!Issue(j, NewId(j, seq))
    BY <2>1, <2>2 DEF Ids!Issue, Issues, Return, NewId
  <2> QED BY <2>2, <2>3 DEF Ids!Next
<1> QED BY <1>1, <1>2, Inductive, PTL DEF Spec, RefinesDistributedIds, Ids!Spec
=============================================================================
