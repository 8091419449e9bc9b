-------------------- MODULE SnowFlakeAutoSequence_proofs --------------------
(***************************************************************************)
(* For any number of JVMs and numbers.  Of the registration alone: two     *)
(* JVMs share a machine number only after a key has expired under one of   *)
(* them, and never when every renewal is on time and gets through.  Of the *)
(* sequence: as long as renewals are timely, no time, machine number and   *)
(* number within the millisecond are used together twice, and an id shows  *)
(* them unless the machine number is too large for its field.              *)
(***************************************************************************)
EXTENDS SnowFlakeAutoSequence, WellFoundedInduction, TLAPS

USE MachinesAssumption, DurationAssumption, BoundsAssumption DEF Machine

\* Every action keeps the types of the state.
LEMMA TypeStep == TypeOK /\ [Next]_vars => TypeOK'
<1> SUFFICES ASSUME TypeOK, [Next]_vars PROVE TypeOK'
  OBVIOUS
<1> USE DEF TypeOK, State, SetKey
<1>1. CASE Tick
  BY <1>1 DEF Tick, RenewalDue
<1>2. ASSUME NEW j \in Jvm, Start(j) PROVE TypeOK'
  BY <1>2 DEF Start
<1>3. ASSUME NEW j \in Jvm, Register(j) PROVE TypeOK'
  BY <1>3 DEF Register
<1>4. ASSUME NEW j \in Jvm, TryNext(j) PROVE TypeOK'
  <2>1. (machineId[j] % Machines) + 1 \in Machine
    OBVIOUS
  <2> QED BY <1>4, <2>1 DEF TryNext
<1>5. ASSUME NEW j \in Jvm, Renew(j) PROVE TypeOK'
  <2>1. due[j] + Interval \in Nat /\ now + Valid \in Nat
    BY DEF Interval
  <2> QED BY <1>5, <2>1 DEF Renew
<1>6. ASSUME NEW j \in Jvm, RenewFails(j) PROVE TypeOK'
  <2>1. due[j] + Interval \in Nat /\ (failures < MaxFailures => failures + 1 \in 0 .. MaxFailures)
    BY DEF Interval
  <2> QED BY <1>6, <2>1 DEF RenewFails
<1>7. ASSUME NEW j \in Jvm, Crash(j) PROVE TypeOK'
  BY <1>7 DEF Crash
<1>8. CASE UNCHANGED vars
  BY <1>8 DEF vars
<1> QED BY <1>1, <1>2, <1>3, <1>4, <1>5, <1>6, <1>7, <1>8 DEF Next

\* The state of the registration always has its types.
THEOREM TypeCorrect == Spec => []TypeOK
<1>1. Init => TypeOK
  BY DEF Init, TypeOK, State
<1> QED BY <1>1, TypeStep, PTL DEF Spec

-----------------------------------------------------------------------------
\* Whoever hands out ids and has not lapsed has its key in Redis.
UnlapsedTaken ==
    \A j \in Jvm : state[j] = "up" /\ j \notin lapsed => Taken(machineId[j])

LapseInv == TypeOK /\ UnlapsedTaken /\ SharedOnlyAfterLapse

\* Every action keeps LapseInv.
LEMMA LapseStep == LapseInv /\ [Next]_vars => LapseInv'
<1> SUFFICES ASSUME LapseInv, [Next]_vars PROVE LapseInv'
  OBVIOUS
<1> USE DEF LapseInv
<1>0. TypeOK'
  BY TypeStep
<1> SUFFICES UnlapsedTaken' /\ SharedOnlyAfterLapse'
  BY <1>0
<1> USE DEF TypeOK, State, UnlapsedTaken, SharedOnlyAfterLapse, Sharing, Taken,
            SetKey
<1>1. CASE Tick
  <2>1. /\ now' = now + 1
        /\ lapsed' = lapsed \cup
               {j \in Jvm : state[j] = "up" /\ expires[machineId[j]] = now'}
        /\ UNCHANGED <<expires, state, machineId>>
    BY <1>1 DEF Tick
  <2>2. UnlapsedTaken'
    <3> SUFFICES ASSUME NEW j \in Jvm, (state[j] = "up")', j \notin lapsed'
                 PROVE now' < expires'[machineId'[j]]
      OBVIOUS
    <3>1. expires[machineId[j]] # now' /\ now < expires[machineId[j]]
      BY <2>1
    <3>2. now \in Int /\ expires[machineId[j]] \in Int
      OBVIOUS
    <3> QED BY <2>1, <3>1, <3>2
  <2>3. SharedOnlyAfterLapse'
    BY <2>1
  <2> QED BY <2>2, <2>3
<1>2. ASSUME NEW j \in Jvm, Start(j) PROVE UnlapsedTaken' /\ SharedOnlyAfterLapse'
  BY <1>2 DEF Start
<1>3. ASSUME NEW j \in Jvm, Register(j) PROVE UnlapsedTaken' /\ SharedOnlyAfterLapse'
  <2>1. /\ state' = [state EXCEPT ![j] = "up"]
        /\ expires' = [expires EXCEPT ![machineId[j]] = now + Valid]
        /\ UNCHANGED <<now, machineId, lapsed>>
    BY <1>3 DEF Register
  <2>2. \A k \in Jvm : state[k] = "up" /\ k \notin lapsed => machineId[k] # machineId[j]
    BY <1>3 DEF Register
  <2>3. UnlapsedTaken'
    BY <2>1
  <2>4. SharedOnlyAfterLapse'
    BY <2>1, <2>2
  <2> QED BY <2>3, <2>4
<1>4. ASSUME NEW j \in Jvm, TryNext(j) PROVE UnlapsedTaken' /\ SharedOnlyAfterLapse'
  BY <1>4 DEF TryNext
<1>5. ASSUME NEW j \in Jvm, Renew(j) PROVE UnlapsedTaken' /\ SharedOnlyAfterLapse'
  <2>1. /\ UNCHANGED <<now, state, machineId, lapsed>>
        /\ expires' = [expires EXCEPT ![machineId[j]] = now + Valid]
    BY <1>5 DEF Renew
  <2>2. \A m \in Machine : now < expires[m] => now' < expires'[m]
    BY <2>1
  <2> QED BY <2>1, <2>2
<1>6. ASSUME NEW j \in Jvm, RenewFails(j) PROVE UnlapsedTaken' /\ SharedOnlyAfterLapse'
  <2>1. UNCHANGED <<now, expires, state, machineId, lapsed>>
    BY <1>6 DEF RenewFails
  <2> QED BY <2>1
<1>7. ASSUME NEW j \in Jvm, Crash(j) PROVE UnlapsedTaken' /\ SharedOnlyAfterLapse'
  <2>1. /\ UNCHANGED <<now, expires>> /\ state'[j] = "down"
        /\ \A k \in Jvm : k # j =>
              /\ state'[k] = state[k] /\ machineId'[k] = machineId[k]
              /\ k \in lapsed' <=> k \in lapsed
    BY <1>7 DEF Crash
  <2> QED BY <2>1
<1>8. CASE UNCHANGED vars
  BY <1>8 DEF vars
<1> QED BY <1>1, <1>2, <1>3, <1>4, <1>5, <1>6, <1>7, <1>8 DEF Next

\* However late renewals run and however many fail, registration never gives a
\* number away while the JVM that has it keeps its key alive.
THEOREM SharedAfterLapse == Spec => []SharedOnlyAfterLapse
<1>1. Init => LapseInv
  BY DEF Init, LapseInv, TypeOK, State, UnlapsedTaken, SharedOnlyAfterLapse,
         Sharing
<1>2. LapseInv => SharedOnlyAfterLapse
  BY DEF LapseInv
<1> QED BY <1>1, <1>2, LapseStep, PTL DEF Spec

-----------------------------------------------------------------------------
\* A renewal that is timely comes before the key expires.
TimelyInv == TypeOK /\ (Timely => RenewedInTime /\ DistinctMachines)

\* Every action keeps TimelyInv.
LEMMA TimelyStep == TimelyInv /\ [Next]_vars => TimelyInv'
<1> SUFFICES ASSUME TimelyInv, [Next]_vars PROVE TimelyInv'
  OBVIOUS
<1> USE DEF TimelyInv
<1>0. TypeOK'
  BY TypeStep
<1> SUFFICES ASSUME Timely' PROVE RenewedInTime' /\ DistinctMachines'
  BY <1>0
<1> USE DEF Timely, TypeOK, State, RenewedInTime, DistinctMachines, Sharing,
            SetKey
<1>1. CASE Tick
  <2>1. now' = now + 1 /\ UNCHANGED <<expires, state, machineId, due, failures>>
    BY <1>1 DEF Tick
  <2>2. late = {} /\ \A j \in Jvm : ~RenewalDue(j)
    BY <1>1 DEF Tick
  <2>3. \A j \in Jvm : state[j] = "up" => now < due[j]
    BY <2>2 DEF RenewalDue
  <2> QED BY <2>1, <2>2, <2>3
<1>2. ASSUME NEW j \in Jvm, Start(j) PROVE RenewedInTime' /\ DistinctMachines'
  BY <1>2 DEF Start
<1>3. ASSUME NEW j \in Jvm, Register(j) PROVE RenewedInTime' /\ DistinctMachines'
  <2>1. \A k \in Jvm : state[k] = "up" => machineId[k] # machineId[j]
    BY <1>3 DEF Register, Taken
  <2>2. /\ state' = [state EXCEPT ![j] = "up"]
        /\ expires' = [expires EXCEPT ![machineId[j]] = now + Valid]
        /\ due' = [due EXCEPT ![j] = now + FirstRenewal]
        /\ UNCHANGED <<now, machineId, failures, late>>
    BY <1>3 DEF Register
  <2>3. RenewedInTime'
    BY <2>1, <2>2
  <2>4. DistinctMachines'
    BY <2>1, <2>2
  <2> QED BY <2>3, <2>4
<1>4. ASSUME NEW j \in Jvm, TryNext(j) PROVE RenewedInTime' /\ DistinctMachines'
  BY <1>4 DEF TryNext
<1>5. ASSUME NEW j \in Jvm, Renew(j) PROVE RenewedInTime' /\ DistinctMachines'
  BY <1>5 DEF Renew, RenewalDue, Interval
<1>6. ASSUME NEW j \in Jvm, RenewFails(j) PROVE RenewedInTime' /\ DistinctMachines'
  BY <1>6 DEF RenewFails
<1>7. ASSUME NEW j \in Jvm, Crash(j) PROVE RenewedInTime' /\ DistinctMachines'
  BY <1>7 DEF Crash
<1>8. CASE UNCHANGED vars
  BY <1>8 DEF vars
<1> QED BY <1>1, <1>2, <1>3, <1>4, <1>5, <1>6, <1>7, <1>8 DEF Next

\* TimelyInv always holds.
LEMMA TimelyInductive == Spec => []TimelyInv
<1>1. Init => TimelyInv
  BY DEF Init, TimelyInv, TypeOK, State, RenewedInTime, DistinctMachines, Sharing
<1> QED BY <1>1, TimelyStep, PTL DEF Spec

\* Until a renewal is late or fails, no two JVMs ever hand out ids under one
\* number.
THEOREM TimelyDistinct == Spec => []DistinctWhileTimely
<1>1. TimelyInv => DistinctWhileTimely
  BY DEF TimelyInv, DistinctWhileTimely
<1> QED BY <1>1, TimelyInductive, PTL

\* Until a renewal is late or fails, a JVM that hands out ids has its key in
\* Redis.
THEOREM TimelyRegistered == Spec => []RegisteredWhileTimely
<1>1. TimelyInv => RegisteredWhileTimely
  BY DEF TimelyInv, TypeOK, RenewedInTime, RegisteredWhileTimely, Taken
<1> QED BY <1>1, TimelyInductive, PTL

-----------------------------------------------------------------------------
\* The sequence uses the registration as it is: a step of next() leaves it
\* alone, every other step is one of the registration.
LEMMA LeaseSpec == AutoSpec => Spec
<1>1. AutoInit => Init
  BY DEF AutoInit
<1>2. [AutoNext]_autoVars => [Next]_vars
  BY DEF AutoNext, LeaseStep, NewMill, SameMill, StartSpin, EndSpin, Call,
         autoVars
<1> QED BY <1>1, <1>2, PTL DEF AutoSpec, Spec

\* So what is proved of the registration holds of the sequence.
THEOREM AutoLease ==
  AutoSpec => [](SharedOnlyAfterLapse /\ DistinctWhileTimely /\ RegisteredWhileTimely)
BY LeaseSpec, SharedAfterLapse, TimelyDistinct, TimelyRegistered, PTL

-----------------------------------------------------------------------------
\* What an id shows of its parts; this is about numbers alone.
USE BitAssumption
HIDE DurationAssumption

\* A set of natural numbers has a least element.
LEMMA Least ==
  ASSUME NEW T \in SUBSET Nat, T # {}
  PROVE  \E m \in T : \A k \in T : m <= k
<1> DEFINE R == {p \in Nat \X Nat : p[1] < p[2]}
<1>1. IsWellFoundedOn(R, Nat)
  BY NatLessThanWellFounded DEF OpToRel
<1>2. PICK m \in T : \A k \in T : <<k, m>> \notin R
  <2> HIDE DEF R
  <2> QED BY <1>1, WFMin
<1>3. ASSUME NEW k \in T PROVE m <= k
  <2>1. <<k, m>> \notin R
    BY <1>2
  <2>2. ~(k < m)
    BY <2>1
  <2> QED BY <2>2
<1> QED BY <1>3

\* Powers of two are above their exponents.
LEMMA Powers == \A i \in 0 .. LastBit + 1 : 2 ^ i \in Nat \ {0} /\ i < 2 ^ i
<1> DEFINE T == {i \in 0 .. LastBit + 1 : ~(2 ^ i \in Nat \ {0} /\ i < 2 ^ i)}
<1> SUFFICES ASSUME T # {} PROVE FALSE
  OBVIOUS
<1>1. LastBit \in Nat
  BY DEF LastBit
<1>2. PICK m \in T : \A k \in T : m <= k
  <2>1. T \in SUBSET Nat
    BY <1>1
  <2> HIDE DEF T
  <2> QED BY <2>1, Least
<1>3. m # 0
  <2> SUFFICES ASSUME m = 0 PROVE FALSE
    OBVIOUS
  <2>1. 2 ^ m = 1
    BY PowerAssumption
  <2> QED BY <2>1
<1>4. m - 1 \in 0 .. LastBit /\ m - 1 \notin T
  BY <1>1, <1>2, <1>3
<1>5. 2 ^ (m - 1) \in Nat \ {0} /\ m - 1 < 2 ^ (m - 1)
  BY <1>1, <1>4
<1>6. 2 ^ m = 2 * 2 ^ (m - 1)
  <2>1. 2 ^ ((m - 1) + 1) = 2 * 2 ^ (m - 1)
    BY <1>4, PowerAssumption
  <2>2. (m - 1) + 1 = m
    BY <1>1
  <2> QED BY <2>1, <2>2
<1>7. 2 ^ m \in Nat \ {0} /\ m < 2 ^ m
  <2>1. PICK a \in Nat \ {0} : a = 2 ^ (m - 1) /\ m - 1 < a
    BY <1>5
  <2>2. 2 ^ m = 2 * a
    BY <1>6, <2>1
  <2> QED BY <1>1, <2>1, <2>2
<1> QED BY <1>7

\* A higher power is an even multiple of a lower one.
LEMMA Multiples ==
  ASSUME NEW j \in Nat, NEW i \in 0 .. LastBit + 1, j < i
  PROVE  \E c \in Nat \ {0} : 2 ^ i = 2 ^ j * (2 * c)
<1> DEFINE Multiple(k) == \E c \in Nat \ {0} : 2 ^ k = 2 ^ j * (2 * c)
           T == {k \in j + 1 .. LastBit + 1 : ~Multiple(k)}
<1>1. LastBit \in Nat
  BY DEF LastBit
<1> SUFFICES ASSUME T # {} PROVE FALSE
  <2>1. i \in j + 1 .. LastBit + 1
    BY <1>1
  <2> HIDE DEF Multiple
  <2>2. Multiple(i)
    BY <2>1
  <2> QED BY <2>2 DEF Multiple
<1>2. PICK m \in T : \A k \in T : m <= k
  <2>1. T \in SUBSET Nat
    BY <1>1
  <2> HIDE DEF T
  <2> QED BY <2>1, Least
<1>3. m - 1 \in j .. LastBit
  BY <1>1
<1>4. 2 ^ m = 2 * 2 ^ (m - 1)
  <2>1. 2 ^ ((m - 1) + 1) = 2 * 2 ^ (m - 1)
    BY <1>3, PowerAssumption
  <2>2. (m - 1) + 1 = m
    BY <1>1
  <2> QED BY <2>1, <2>2
<1>5. 2 ^ j \in Nat
  BY <1>1, Powers
<1>6. CASE m = j + 1
  <2>1. 2 ^ m = 2 ^ j * (2 * 1)
    BY <1>3, <1>4, <1>5, <1>6
  <2>2. Multiple(m)
    BY <2>1
  <2> QED BY <2>2
<1>7. CASE m # j + 1
  <2>1. PICK k \in j + 1 .. LastBit + 1 : k = m - 1 /\ k < m
    BY <1>1, <1>3, <1>7
  <2>2. PICK c \in Nat \ {0} : 2 ^ (m - 1) = 2 ^ j * (2 * c)
    <3> HIDE DEF Multiple
    <3>1. k \notin T
      BY <1>1, <1>2, <2>1
    <3>2. Multiple(k)
      BY <3>1
    <3> QED BY <2>1, <3>2 DEF Multiple
  <2>3. 2 * (2 ^ j * (2 * c)) = 2 ^ j * (2 * (2 * c))
    BY <1>5
  <2>4. PICK d \in Nat \ {0} : d = 2 * c
    OBVIOUS
  <2>5. 2 ^ m = 2 ^ j * (2 * d)
    BY <1>4, <2>2, <2>3, <2>4
  <2>6. Multiple(m)
    BY <2>5
  <2> QED BY <2>6
<1> QED BY <1>6, <1>7

\* Without its last bit, a number is half of what it was.
LEMMA Halves ==
  ASSUME NEW a \in Nat \ {0}, NEW n \in Nat
  PROVE  n \div a = 2 * (n \div (2 * a)) + ((n \div a) % 2)
<1>1. PICK q \in Nat, r \in 0 .. a - 1 : n = a * q + r /\ q = n \div a
  <2>1. n = a * (n \div a) + (n % a) /\ n % a \in 0 .. a - 1 /\ n \div a \in Nat
    OBVIOUS
  <2> QED BY <2>1
<1>2. PICK h \in Nat, b \in 0 .. 1 : q = 2 * h + b
  <2>1. q = 2 * (q \div 2) + (q % 2) /\ q \div 2 \in Nat /\ q % 2 \in 0 .. 1
    OBVIOUS
  <2> QED BY <2>1
<1>3. n = (2 * a) * h + (a * b + r) /\ a * b + r \in 0 .. 2 * a - 1
  <2>1. a * b \in {0, a}
    BY <1>2
  <2>2. n = a * (2 * h + b) + r
    BY <1>1, <1>2
  <2>3. a * (2 * h + b) = (2 * a) * h + a * b
    BY <1>2
  <2> QED BY <1>1, <2>1, <2>2, <2>3
<1>4. n \div (2 * a) = h
  BY <1>3
<1>5. q % 2 = b
  BY <1>2
<1> QED BY <1>1, <1>2, <1>4, <1>5

\* Bit i of n, as Shifted finds it.
Bit(n, i) == (n \div 2 ^ i) % 2 = 1

\* The bits from the first power of two above a number on are 0.
LEMMA NoHighBits ==
  ASSUME NEW n \in Nat, NEW k \in Nat, n < 2 ^ k, NEW i \in 0 .. LastBit + 1, k <= i
  PROVE  n \div 2 ^ i = 0 /\ ~Bit(n, i)
<1>1. 2 ^ i \in Nat \ {0} /\ 2 ^ k \in Nat \ {0}
  <2>1. k \in 0 .. LastBit + 1
    BY DEF LastBit
  <2> QED BY <2>1, Powers
<1>2. 2 ^ k <= 2 ^ i
  <2>1. CASE k = i
    BY <1>1, <2>1
  <2>2. CASE k # i
    <3>1. PICK c \in Nat \ {0} : 2 ^ i = 2 ^ k * (2 * c)
      BY <2>2, Multiples
    <3>2. PICK a \in Nat : a = 2 ^ k
      BY <1>1
    <3>3. a * (2 * c) >= a
      OBVIOUS
    <3> QED BY <3>1, <3>2, <3>3
  <2> QED BY <2>1, <2>2
<1>3. PICK b \in Nat \ {0} : b = 2 ^ i
  BY <1>1
<1>4. n < b
  BY <1>1, <1>2, <1>3
<1>5. n \div b = 0
  BY <1>4
<1>6. 0 % 2 # 1
  OBVIOUS
<1> QED BY <1>3, <1>5, <1>6 DEF Bit

\* A power of two has no bit below its own.
LEMMA NoLowBits ==
  ASSUME NEW k \in 0 .. LastBit + 1, NEW i \in Nat, i < k
  PROVE  ~Bit(2 ^ k, i)
<1>1. PICK c \in Nat \ {0} : 2 ^ k = 2 ^ i * (2 * c)
  BY Multiples
<1>2. PICK a \in Nat \ {0} : a = 2 ^ i
  <2>1. i \in 0 .. LastBit + 1
    BY DEF LastBit
  <2> QED BY <2>1, Powers
<1>3. PICK d \in Nat : d = 2 * c
  OBVIOUS
<1>4. 2 ^ k = a * d
  BY <1>1, <1>2, <1>3
<1>5. (a * d) \div a = d
  OBVIOUS
<1>6. d % 2 # 1
  BY <1>3
<1>7. 2 ^ k \div 2 ^ i = d
  BY <1>2, <1>4, <1>5, Zenon
<1> QED BY <1>6, <1>7 DEF Bit

\* Numbers with the same bits are the same.
LEMMA BitsDetermine ==
  ASSUME NEW n \in 0 .. LastBit, NEW m \in 0 .. LastBit,
         \A i \in 0 .. LastBit : Bit(n, i) <=> Bit(m, i)
  PROVE  n = m
<1> DEFINE T == {t \in 0 .. LastBit + 1 : n \div 2 ^ t = m \div 2 ^ t}
<1>0. LastBit \in Nat
  BY DEF LastBit
<1>1. LastBit + 1 \in T
  <2>1. n < 2 ^ (LastBit + 1) /\ m < 2 ^ (LastBit + 1)
    <3>1. LastBit + 1 \in 0 .. LastBit + 1
      BY <1>0
    <3>2. 2 ^ (LastBit + 1) \in Nat /\ LastBit + 1 < 2 ^ (LastBit + 1)
      BY <3>1, Powers
    <3> QED BY <1>0, <3>2
  <2>2. n \div 2 ^ (LastBit + 1) = 0 /\ m \div 2 ^ (LastBit + 1) = 0
    <3>1. /\ LastBit + 1 \in 0 .. LastBit + 1 /\ LastBit + 1 \in Nat
          /\ n \in Nat /\ m \in Nat
      BY <1>0
    <3>2. LastBit + 1 <= LastBit + 1
      BY <1>0
    <3> QED BY <2>1, <3>1, <3>2, NoHighBits
  <2> QED BY <1>0, <2>2
<1>2. PICK t \in T : \A k \in T : t <= k
  <2>1. T \in SUBSET Nat
    BY <1>0
  <2> HIDE DEF T
  <2> QED BY <1>1, <2>1, Least
<1>3. t = 0
  <2> SUFFICES ASSUME t # 0 PROVE FALSE
    OBVIOUS
  <2>1. t - 1 \in 0 .. LastBit
    BY <1>0
  <2>2. PICK s \in 0 .. LastBit : s = t - 1 /\ t = s + 1
    BY <1>0, <2>1
  <2>3. PICK a \in Nat \ {0} : a = 2 ^ s
    BY <1>0, Powers
  <2>4. 2 ^ t = 2 * a
    BY <2>2, <2>3, PowerAssumption
  <2>5. n \div (2 * a) = m \div (2 * a)
    BY <2>4
  <2>6. (n \div a) % 2 = (m \div a) % 2
    <3>1. (n \div a) % 2 \in {0, 1} /\ (m \div a) % 2 \in {0, 1}
      BY <1>0
    <3>2. Bit(n, s) <=> Bit(m, s)
      OBVIOUS
    <3> QED BY <2>3, <3>1, <3>2 DEF Bit
  <2>7. n \div a = m \div a
    <3>1. n \in Nat /\ m \in Nat
      BY <1>0
    <3>2. n \div a = 2 * (n \div (2 * a)) + ((n \div a) % 2)
      BY <3>1, Halves
    <3>3. m \div a = 2 * (m \div (2 * a)) + ((m \div a) % 2)
      BY <3>1, Halves
    <3> QED BY <2>5, <2>6, <3>2, <3>3
  <2>8. s \in T
    BY <1>0, <2>3, <2>7
  <2>9. t <= s
    BY <1>2, <2>8
  <2> QED BY <1>0, <2>2, <2>9
<1>4. n \div 1 = m \div 1
  <2>1. n \div 2 ^ 0 = m \div 2 ^ 0
    BY <1>3
  <2> QED BY <2>1, PowerAssumption
<1> QED BY <1>0, <1>4

-----------------------------------------------------------------------------
\* The bits of a part are where it was shifted to.
LEMMA InShifted ==
  ASSUME NEW n \in 0 .. LastBit, NEW left \in Nat, NEW b
  PROVE  b \in Shifted(n, left) <=> \E i \in 0 .. LastBit : b = left + i /\ Bit(n, i)
<1>0. LastBit \in Nat /\ n \in Nat
  BY DEF LastBit
<1>1. ASSUME NEW i \in 0 .. LastBit, Bit(n, i) PROVE i \in 0 .. n
  <2>1. n < 2 ^ n
    BY <1>0, Powers
  <2>2. ~(n <= i)
    BY <1>0, <1>1, <2>1, NoHighBits
  <2> QED BY <1>0, <2>2
<1>2. \A i \in 0 .. n : i \in 0 .. LastBit
  BY <1>0
<1> QED BY <1>1, <1>2 DEF Shifted, Bit

\* The places of the fields, and the parts of an id are numbers whose bits the
\* lemmas above are about.
LEMMA Fields ==
  /\ LastBit \in Nat
  /\ MachineLeft \in Nat /\ DatacenterLeft \in Nat /\ TimestmpLeft \in Nat
  /\ MachineLeft = SequenceBit
  /\ DatacenterLeft = SequenceBit + MachineBit
  /\ TimestmpLeft > DatacenterLeft
  /\ SequenceBit \in 0 .. LastBit /\ MachineBit \in 0 .. LastBit
  /\ datacenterId \in 0 .. LastBit
BY DEF LastBit, MachineLeft, DatacenterLeft, TimestmpLeft, datacenterId

LEMMA Parts ==
  ASSUME NEW p \in Part
  PROVE  /\ p.stamp \in 0 .. LastBit
         /\ p.machine \in 0 .. LastBit /\ p.machine # 0
         /\ p.seq \in 0 .. LastBit /\ p.seq < 2 ^ SequenceBit
<1>1. p.stamp \in 0 .. LastBit
  BY DEF Part, LastBit
<1>2. p.machine \in 0 .. LastBit /\ p.machine # 0
  BY DEF Part, LastBit
<1>3. PICK a \in Nat \ {0} : a = 2 ^ SequenceBit
  BY Fields, Powers
<1>4. a <= LastBit
  BY <1>3, LoopAssumption DEF LastBit, MachineLeft
<1>5. p.seq \in 0 .. a - 1
  BY <1>3 DEF Part, Sequence
<1> QED BY <1>1, <1>2, <1>3, <1>4, <1>5, Fields

HIDE MachinesAssumption
HIDE BoundsAssumption
HIDE BitAssumption

\* Where each field of an id has its bits: the sequence below MachineLeft, the
\* machine from there on, the data center one bit, the time above.
LEMMA SeqField ==
  ASSUME NEW p \in Part, NEW b \in Shifted(p.seq, 0)
  PROVE  b \in Nat /\ b < MachineLeft /\ Bit(p.seq, b)
<1>1. PICK i \in 0 .. LastBit : b = 0 + i /\ Bit(p.seq, i)
  BY Parts, InShifted
<1>2. ~(SequenceBit <= i)
  BY <1>1, Parts, Fields, NoHighBits
<1> QED BY <1>1, <1>2, Fields

LEMMA MachineField ==
  ASSUME NEW p \in Part, NEW b
  PROVE  b \in Shifted(p.machine, MachineLeft) <=>
            \E i \in 0 .. LastBit : b = MachineLeft + i /\ Bit(p.machine, i)
BY Parts, Fields, InShifted

LEMMA DatacenterField ==
  ASSUME NEW b \in Shifted(datacenterId, DatacenterLeft)
  PROVE  b = DatacenterLeft
<1>1. PICK i \in 0 .. LastBit : b = DatacenterLeft + i /\ Bit(1, i)
  BY Fields, InShifted DEF datacenterId
<1>2. PICK k \in Nat : k = 1
  OBVIOUS
<1>3. k < 2 ^ k
  BY <1>2, Fields, Powers
<1>4. Bit(k, i) /\ i \in 0 .. LastBit + 1
  BY <1>1, <1>2, Fields
<1>5. ~(k <= i)
  BY <1>3, <1>4, NoHighBits
<1> QED BY <1>1, <1>2, <1>5, Fields

LEMMA StampField ==
  ASSUME NEW p \in Part, NEW b
  PROVE  b \in Shifted(p.stamp, TimestmpLeft) <=>
            \E i \in 0 .. LastBit : b = TimestmpLeft + i /\ Bit(p.stamp, i)
BY Parts, Fields, InShifted

\* The parts are what the id shows.
LEMMA SeqShown ==
  ASSUME NEW p \in Part, NEW i \in 0 .. LastBit
  PROVE  Bit(p.seq, i) <=> i < MachineLeft /\ i \in Pack(p)
<1>1. ASSUME Bit(p.seq, i) PROVE i < MachineLeft /\ i \in Pack(p)
  <2>1. i = 0 + i
    BY Fields
  <2>2. i \in Shifted(p.seq, 0)
    BY <1>1, <2>1, Parts, InShifted
  <2> QED BY <2>2, SeqField DEF Pack
<1>2. ASSUME i < MachineLeft, i \in Pack(p) PROVE Bit(p.seq, i)
  <2>1. i \notin Shifted(p.stamp, TimestmpLeft)
    BY <1>2, StampField, Fields
  <2>2. i \notin Shifted(datacenterId, DatacenterLeft)
    BY <1>2, DatacenterField, Fields
  <2>3. i \notin Shifted(p.machine, MachineLeft)
    BY <1>2, MachineField, Fields
  <2>4. i \in Shifted(p.seq, 0)
    BY <1>2, <2>1, <2>2, <2>3 DEF Pack
  <2> QED BY <2>4, SeqField
<1> QED BY <1>1, <1>2

LEMMA MachineShown ==
  ASSUME NEW p \in Part, NEW i \in 0 .. LastBit, i < MachineBit
  PROVE  Bit(p.machine, i) <=> MachineLeft + i \in Pack(p)
<1>1. ASSUME Bit(p.machine, i) PROVE MachineLeft + i \in Pack(p)
  BY <1>1, MachineField DEF Pack
<1>2. ASSUME MachineLeft + i \in Pack(p) PROVE Bit(p.machine, i)
  <2>1. MachineLeft + i \notin Shifted(p.stamp, TimestmpLeft)
    BY StampField, Fields
  <2>2. MachineLeft + i \notin Shifted(datacenterId, DatacenterLeft)
    BY DatacenterField, Fields
  <2>3. MachineLeft + i \notin Shifted(p.seq, 0)
    BY SeqField, Fields
  <2>4. MachineLeft + i \in Shifted(p.machine, MachineLeft)
    BY <1>2, <2>1, <2>2, <2>3 DEF Pack
  <2>5. PICK k \in 0 .. LastBit : MachineLeft + i = MachineLeft + k /\ Bit(p.machine, k)
    BY <2>4, MachineField
  <2>6. k = i
    BY <2>5, Fields
  <2> QED BY <2>5, <2>6
<1> QED BY <1>1, <1>2

LEMMA StampShown ==
  ASSUME NEW p \in Part, p.machine <= 2 ^ MachineBit, NEW i \in 0 .. LastBit
  PROVE  Bit(p.stamp, i) <=> TimestmpLeft + i \in Pack(p)
<1>1. ASSUME Bit(p.stamp, i) PROVE TimestmpLeft + i \in Pack(p)
  BY <1>1, StampField DEF Pack
<1>2. ASSUME TimestmpLeft + i \in Pack(p) PROVE Bit(p.stamp, i)
  <2>1. TimestmpLeft + i \notin Shifted(datacenterId, DatacenterLeft)
    BY DatacenterField, Fields
  <2>2. TimestmpLeft + i \notin Shifted(p.seq, 0)
    BY SeqField, Fields
  <2>3. TimestmpLeft + i \notin Shifted(p.machine, MachineLeft)
    <3> SUFFICES ASSUME NEW k \in 0 .. LastBit,
                        TimestmpLeft + i = MachineLeft + k, Bit(p.machine, k)
                 PROVE  FALSE
      BY MachineField
    <3>1. PICK above \in Nat : above = MachineBit + 1
      BY Fields
    <3>2. above <= k
      BY <3>1, Fields
    <3>3. p.machine < 2 ^ above
      <4>1. PICK a \in Nat \ {0} : a = 2 ^ MachineBit
        BY Fields, Powers
      <4>2. 2 ^ (MachineBit + 1) = 2 * a
        BY <4>1, Fields, PowerAssumption
      <4>3. p.machine \in Nat /\ p.machine <= a
        BY <4>1, Parts, Fields
      <4>4. 2 ^ above = 2 * a
        BY <3>1, <4>2
      <4> QED BY <4>3, <4>4
    <3>4. p.machine \in Nat /\ k \in 0 .. LastBit + 1
      BY Parts, Fields
    <3> QED BY <3>2, <3>3, <3>4, NoHighBits
  <2>4. TimestmpLeft + i \in Shifted(p.stamp, TimestmpLeft)
    BY <1>2, <2>1, <2>2, <2>3 DEF Pack
  <2>5. PICK k \in 0 .. LastBit : TimestmpLeft + i = TimestmpLeft + k /\ Bit(p.stamp, k)
    BY <2>4, StampField
  <2>6. k = i
    BY <2>5, Fields
  <2> QED BY <2>5, <2>6
<1> QED BY <1>1, <1>2

\* A machine number below 2 ^ MachineBit has bits in its field, and one of
\* 2 ^ MachineBit has none there.
LEMMA MachineBits ==
  ASSUME NEW p \in Part, p.machine <= 2 ^ MachineBit
  PROVE  \/ /\ p.machine = 2 ^ MachineBit
            /\ \A i \in 0 .. LastBit : i < MachineBit => ~Bit(p.machine, i)
         \/ /\ \A i \in 0 .. LastBit : MachineBit <= i => ~Bit(p.machine, i)
            /\ \E i \in 0 .. LastBit : i < MachineBit /\ Bit(p.machine, i)
<1>1. CASE p.machine = 2 ^ MachineBit
  BY <1>1, Fields, NoLowBits
<1>2. CASE p.machine # 2 ^ MachineBit
  <2>1. p.machine < 2 ^ MachineBit
    <3>1. PICK a \in Nat \ {0} : a = 2 ^ MachineBit
      BY Fields, Powers
    <3> QED BY <1>2, <3>1, Parts, Fields
  <2>2. \A i \in 0 .. LastBit : MachineBit <= i => ~Bit(p.machine, i)
    BY <2>1, Parts, Fields, NoHighBits
  <2>3. \A i \in 0 .. LastBit : ~Bit(0, i)
    <3>1. PICK zero \in Nat : zero = 0
      OBVIOUS
    <3>2. zero < 2 ^ zero
      BY <3>1, Fields, Powers
    <3>3. \A i \in 0 .. LastBit : i \in 0 .. LastBit + 1 /\ zero <= i
      BY <3>1, Fields
    <3>4. \A i \in 0 .. LastBit : ~Bit(zero, i)
      BY <3>2, <3>3, NoHighBits
    <3> QED BY <3>1, <3>4
  <2>4. PICK i \in 0 .. LastBit : ~(Bit(p.machine, i) <=> Bit(0, i))
    <3>1. 0 \in 0 .. LastBit
      BY Fields
    <3> QED BY <3>1, Parts, BitsDetermine
  <2>5. Bit(p.machine, i) /\ i < MachineBit
    BY <2>2, <2>3, <2>4, Fields
  <2> QED BY <2>2, <2>5
<1> QED BY <1>1, <1>2

\* An id tells its parts, unless the machine number is too large.
LEMMA PackTells ==
  ASSUME NEW p \in Part, NEW q \in Part, p.machine <= 2 ^ MachineBit,
         q.machine <= 2 ^ MachineBit, Pack(p) = Pack(q)
  PROVE  p = q
<1>1. p.seq = q.seq
  <2>1. \A i \in 0 .. LastBit : Bit(p.seq, i) <=> Bit(q.seq, i)
    BY SeqShown
  <2> QED BY <2>1, Parts, BitsDetermine
<1>2. p.stamp = q.stamp
  <2>1. \A i \in 0 .. LastBit : Bit(p.stamp, i) <=> Bit(q.stamp, i)
    BY StampShown
  <2> QED BY <2>1, Parts, BitsDetermine
<1>3. p.machine = q.machine
  <2>1. \A i \in 0 .. LastBit : i < MachineBit => (Bit(p.machine, i) <=> Bit(q.machine, i))
    BY MachineShown
  <2>2. CASE p.machine = 2 ^ MachineBit /\ q.machine = 2 ^ MachineBit
    BY <2>2
  <2>3. CASE \A i \in 0 .. LastBit :
                MachineBit <= i => ~Bit(p.machine, i) /\ ~Bit(q.machine, i)
    <3>1. \A i \in 0 .. LastBit : Bit(p.machine, i) <=> Bit(q.machine, i)
      BY <2>1, <2>3, Fields
    <3> QED BY <3>1, Parts, BitsDetermine
  <2> QED BY <2>1, <2>2, <2>3, MachineBits
<1>4. /\ p = [stamp |-> p.stamp, machine |-> p.machine, seq |-> p.seq]
      /\ q = [stamp |-> q.stamp, machine |-> q.machine, seq |-> q.seq]
  BY DEF Part
<1> QED BY <1>1, <1>2, <1>3, <1>4

-----------------------------------------------------------------------------
USE MachinesAssumption, DurationAssumption, BoundsAssumption, BitAssumption

\* There is a number within the millisecond.
LEMMA SequenceSize == 2 ^ SequenceBit \in Nat \ {0}
BY Powers DEF LastBit

USE SequenceSize

\* The next number of a millisecond, unless the numbers are used up.
LEMMA NextNumber ==
  ASSUME NEW size \in Nat \ {0}, NEW n \in 0 .. size - 1, (n + 1) % size # 0
  PROVE  (n + 1) % size = n + 1
<1>1. n + 1 # size
  OBVIOUS
<1> QED BY <1>1

\* The steps in which next() returns.
Issues(j, seq) ==
    /\ state[j] = "up"
    /\ UNCHANGED vars
    /\ Return(j, seq)
    /\ now >= lastStmp[j]
    /\ now = lastStmp[j] => seq > sequence[j] /\ j \notin spinning
    /\ spinning' = spinning \ {j}

\* A step of the sequence is one of the registration, a return or the start of
\* a wait.
LEMMA AutoSteps ==
  ASSUME AutoTypeOK, AutoNext
  PROVE  \/ LeaseStep
         \/ \E j \in Jvm : StartSpin(j)
         \/ \E j \in Jvm, seq \in Sequence : Issues(j, seq)
<1> USE DEF AutoTypeOK, TypeOK, Issues
<1>1. 0 \in Sequence
  BY DEF Sequence
<1>2. ASSUME NEW j \in Jvm, NewMill(j) PROVE Issues(j, 0)
  BY <1>2 DEF NewMill, Call
<1>3. ASSUME NEW j \in Jvm, SameMill(j)
      PROVE  NextInMill(j) \in Sequence /\ Issues(j, NextInMill(j))
  <2>1. PICK size \in Nat \ {0} : size = 2 ^ SequenceBit
    OBVIOUS
  <2>2. sequence[j] \in 0 .. size - 1 /\ (sequence[j] + 1) % size # 0
    BY <1>3, <2>1 DEF SameMill, NextInMill, Sequence
  <2>3. (sequence[j] + 1) % size = sequence[j] + 1
    BY <2>2, NextNumber
  <2> HIDE DEF AutoTypeOK, TypeOK, Issues
  <2>4. NextInMill(j) = (sequence[j] + 1) % size /\ Sequence = 0 .. size - 1
    BY <2>1 DEF NextInMill, Sequence
  <2> HIDE DEF NextInMill, Sequence
  <2>5. NextInMill(j) = sequence[j] + 1 /\ NextInMill(j) \in Sequence
    BY <2>2, <2>3, <2>4
  <2>6. NextInMill(j) > sequence[j]
    BY <2>2, <2>5
  <2> QED BY <1>3, <2>5, <2>6 DEF SameMill, Call, Issues, AutoTypeOK, TypeOK
<1>4. ASSUME NEW j \in Jvm, EndSpin(j) PROVE Issues(j, 0)
  BY <1>4 DEF EndSpin
<1> QED BY <1>1, <1>2, <1>3, <1>4 DEF AutoNext

\* What next() returns has the types of its parts.
LEMMA PartType ==
  ASSUME AutoTypeOK, NEW j \in Jvm, NEW seq \in Sequence
  PROVE  [stamp |-> now, machine |-> machineId[j], seq |-> seq] \in Part
BY DEF AutoTypeOK, TypeOK, Part

\* Every action keeps the types of the state.
LEMMA AutoTypeStep == AutoTypeOK /\ [AutoNext]_autoVars => AutoTypeOK'
<1> SUFFICES ASSUME AutoTypeOK, [AutoNext]_autoVars PROVE AutoTypeOK'
  OBVIOUS
<1> USE DEF AutoTypeOK
<1>0. 0 \in Sequence
  BY DEF Sequence
<1>1. CASE LeaseStep
  <2>1. TypeOK'
    BY <1>1, TypeStep DEF LeaseStep
  <2>2. spinning' \subseteq {j \in Jvm : (state[j] = "up")'}
    <3> SUFFICES ASSUME NEW j \in spinning' PROVE state'[j] = "up"
      BY <1>1 DEF LeaseStep
    <3>1. state[j] = "up" /\ state'[j] # "down"
      BY <1>1 DEF LeaseStep
    <3>2. state'[j] = state[j]
      BY <1>1, <3>1 DEF LeaseStep, Next, Tick, Start, Register, TryNext, Renew,
                        RenewFails, Crash, TypeOK
    <3> QED BY <3>1, <3>2
  <2> QED BY <1>0, <1>1, <2>1, <2>2 DEF LeaseStep
<1>2. ASSUME NEW j \in Jvm, NEW seq \in Sequence, Issues(j, seq) PROVE AutoTypeOK'
  <2>1. TypeOK' /\ state' = state
    BY <1>2 DEF Issues, vars, TypeOK
  <2>2. issued' \in Seq(Part)
    BY <1>2, PartType DEF Issues, Return
  <2>3. lastStmp' \in [Jvm -> -1 .. MaxNow] /\ sequence' \in [Jvm -> Sequence]
    BY <1>2 DEF Issues, Return, TypeOK
  <2>4. spinning' \subseteq {k \in Jvm : (state[k] = "up")'}
    BY <1>2, <2>1 DEF Issues
  <2> QED BY <2>1, <2>2, <2>3, <2>4
<1>3. ASSUME NEW j \in Jvm, StartSpin(j) PROVE AutoTypeOK'
  BY <1>0, <1>3 DEF StartSpin, Call, vars, TypeOK
<1>4. CASE UNCHANGED autoVars
  BY <1>4 DEF autoVars, idVars, vars, TypeOK
<1> QED BY <1>1, <1>2, <1>3, <1>4, AutoSteps

-----------------------------------------------------------------------------
\* What a return adds: a part that is new, in the past of its JVM, and under a
\* number whose key is in Redis.
LEMMA IssuesKeeps ==
  ASSUME AutoIInv, NEW j \in Jvm, NEW seq \in Sequence, Issues(j, seq)
  PROVE  /\ StampInv'
         /\ Timely' => IssuedInv' /\ PartsUnique'
<1> DEFINE p == [stamp |-> now, machine |-> machineId[j], seq |-> seq]
<1> USE DEF AutoIInv, AutoTypeOK, TypeOK
<1>1. StampInv'
  BY DEF StampInv, Issues, Return, vars
<1> SUFFICES ASSUME Timely' PROVE IssuedInv' /\ PartsUnique'
  BY <1>1
<1>2. Timely /\ RenewedInTime /\ DistinctMachines /\ IssuedInv /\ PartsUnique
  BY DEF Timely, Issues, vars
<1>3. p \in Part /\ issued' = Append(issued, p)
  BY PartType DEF Issues, Return
<1>4. now < expires[machineId[j]]
  BY <1>2 DEF RenewedInTime, Issues
<1> HIDE DEF p
<1>5. \A n \in DOMAIN issued' :
         \/ n \in DOMAIN issued /\ issued'[n] = issued[n]
         \/ n = Len(issued) + 1 /\ issued'[n] = p
  BY <1>3
<1>6. ASSUME NEW k \in Jvm, NEW t \in 0 .. now, NEW s \in Sequence,
             k = j \/ machineId[k] # machineId[j], Past(k, t, s)
      PROVE  Past(k, t, s)'
  <2>1. /\ lastStmp' = [lastStmp EXCEPT ![j] = now]
        /\ sequence' = [sequence EXCEPT ![j] = seq]
        /\ spinning' = spinning \ {j} /\ now' = now
        /\ now >= lastStmp[j]
        /\ now = lastStmp[j] => seq > sequence[j] /\ j \notin spinning
    BY DEF Issues, Return, vars
  <2>2. seq \in Int /\ sequence[j] \in Int /\ s \in Int /\ lastStmp[j] \in Int
    BY DEF Sequence
  <2>3. CASE k = j
    BY <1>6, <2>1, <2>2, <2>3 DEF Past
  <2>4. CASE k # j
    BY <1>6, <2>1, <2>4 DEF Past
  <2> QED BY <2>3, <2>4
<1>7. ASSUME NEW n \in DOMAIN issued PROVE issued[n] # p
  <2>1. Past(j, issued[n].stamp, issued[n].seq) \/ issued[n].machine # machineId[j]
    BY <1>2 DEF IssuedInv, Issues
  <2>2. ~Past(j, now, seq)
    <3>1. seq \in Int /\ sequence[j] \in Int
      BY DEF Sequence
    <3> QED BY <3>1 DEF Past, Issues
  <2> QED BY <2>1, <2>2 DEF p
<1>8. IssuedInv'
  <2> SUFFICES ASSUME NEW n \in DOMAIN issued', NEW q, q = issued'[n]
               PROVE  /\ q.stamp <= now
                      /\ q.stamp < expires[q.machine]
                      /\ \A k \in Jvm : state[k] = "up" /\ machineId[k] = q.machine
                                           => Past(k, q.stamp, q.seq)'
    BY DEF IssuedInv, Issues, vars
  <2>1. CASE n \in DOMAIN issued /\ q = issued[n]
    <3> HIDE DEF AutoIInv, AutoTypeOK, TypeOK
    <3>0. q \in Part
      BY <2>1 DEF AutoIInv, AutoTypeOK
    <3>1. /\ q.stamp <= now
          /\ q.stamp < expires[q.machine]
          /\ \A k \in Jvm : state[k] = "up" /\ machineId[k] = q.machine
                               => Past(k, q.stamp, q.seq)
      BY <1>2, <2>1 DEF IssuedInv
    <3>2. \A k \in Jvm : state[k] = "up" /\ k # j => machineId[k] # machineId[j]
      BY <1>2 DEF DistinctMachines, Sharing, Issues
    <3>3. q.stamp \in 0 .. now /\ q.seq \in Sequence
      BY <3>0, <3>1 DEF Part, AutoIInv, AutoTypeOK, TypeOK
    <3>4. ASSUME NEW k \in Jvm, state[k] = "up", machineId[k] = q.machine
          PROVE  Past(k, q.stamp, q.seq)'
      BY <1>6, <3>1, <3>2, <3>3, <3>4
    <3> QED BY <3>1, <3>4
  <2>2. CASE q = p
    <3>1. q.stamp = now /\ q.machine = machineId[j] /\ q.seq = seq
      BY <2>2 DEF p
    <3>2. ASSUME NEW k \in Jvm, state[k] = "up", machineId[k] = q.machine
          PROVE  Past(k, q.stamp, q.seq)'
      <4>1. k = j
        BY <1>2, <3>1, <3>2 DEF DistinctMachines, Sharing, Issues
      <4>2. lastStmp'[j] = now /\ sequence'[j] = seq 
        BY DEF Issues, Return
      <4>3. seq \in Int
        BY DEF Sequence
      <4> QED BY <3>1, <4>1, <4>2, <4>3 DEF Past
    <3> QED BY <1>4, <3>1, <3>2
  <2> QED BY <1>5, <2>1, <2>2
<1>9. PartsUnique'
  <2> SUFFICES ASSUME NEW m \in DOMAIN issued', NEW n \in DOMAIN issued',
                      issued'[m] = issued'[n]
               PROVE  m = n
    BY DEF PartsUnique
  <2>1. \A i, k \in DOMAIN issued : issued[i] = issued[k] => i = k
    BY <1>2 DEF PartsUnique
  <2> QED BY <1>5, <1>7, <2>1
<1> QED BY <1>8, <1>9

\* A step of the registration, a renewal, a crash or a tick: who registers a
\* number does so after its key has expired, later than all ids issued under it.
LEMMA LeaseKeeps ==
  ASSUME AutoIInv, LeaseStep
  PROVE  /\ StampInv'
         /\ Timely' => IssuedInv' /\ PartsUnique'
<1> USE DEF AutoIInv, AutoTypeOK, TypeOK
<1> DEFINE Lives(j) == state[j] = "down" \/ state'[j] # "down"
<1>1. /\ [Next]_vars /\ Next /\ issued' = issued
      /\ \A j \in Jvm : Lives(j) => /\ lastStmp'[j] = lastStmp[j]
                                    /\ sequence'[j] = sequence[j]
                                    /\ j \in spinning' <=> j \in spinning
      /\ \A j \in Jvm : ~Lives(j) => lastStmp'[j] = -1
  BY DEF LeaseStep
<1>2. /\ now' \in Int /\ now' >= now
      /\ \A m \in Machine : expires'[m] = expires[m] \/ expires'[m] = now + Valid
  <2>1. CASE Tick
    BY <2>1 DEF Tick
  <2>2. ASSUME NEW j \in Jvm, SetKey(machineId[j]), now' = now
        PROVE  \A m \in Machine : expires'[m] = expires[m] \/ expires'[m] = now + Valid
    BY <2>2 DEF SetKey
  <2>3. \/ Tick
        \/ \E j \in Jvm : SetKey(machineId[j]) /\ now' = now
        \/ UNCHANGED <<now, expires>>
    BY <1>1 DEF Next, Start, Register, TryNext, Renew, RenewFails, Crash
  <2> QED BY <2>1, <2>2, <2>3
<1>3. ASSUME NEW j \in Jvm, state'[j] = "up"
      PROVE  /\ Lives(j)
             /\ machineId'[j] = machineId[j]
             /\ \/ state[j] = "up"
                \/ lastStmp[j] = -1 /\ ~Taken(machineId[j])
  BY <1>1, <1>3, SMTT(20) DEF Next, Tick, Start, Register, TryNext, Renew, RenewFails, Crash,
                    SetKey, StampInv
<1>4. StampInv'
  <2> SUFFICES ASSUME NEW j \in Jvm
               PROVE  /\ lastStmp'[j] <= now'
                      /\ state'[j] # "up" => lastStmp'[j] = -1
    BY DEF StampInv
  <2>1. lastStmp'[j] <= now'
    <3>1. lastStmp[j] \in Int /\ lastStmp[j] <= now /\ now \in Nat
      BY DEF StampInv
    <3>2. lastStmp'[j] \in {lastStmp[j], -1}
      BY <1>1
    <3> QED BY <1>2, <3>1, <3>2
  <2>2. ASSUME state'[j] # "up", Lives(j) PROVE state[j] # "up"
    BY <1>1, <2>2 DEF Next, Tick, Start, Register, TryNext, Renew, RenewFails, Crash
  <2> QED BY <1>1, <2>1, <2>2 DEF StampInv
<1> SUFFICES ASSUME Timely' PROVE IssuedInv' /\ PartsUnique'
  BY <1>4
<1>5. Timely
  BY <1>1, SMTT(20) DEF Timely, Next, Tick, Start, Register, TryNext, Renew, RenewFails, Crash
<1>6. IssuedInv /\ PartsUnique'
  BY <1>1, <1>5 DEF PartsUnique
<1>7. IssuedInv'
  <2> SUFFICES ASSUME NEW n \in DOMAIN issued
               PROVE  /\ issued[n].stamp <= now'
                      /\ issued[n].stamp < expires'[issued[n].machine]
                      /\ \A j \in Jvm :
                            state'[j] = "up" /\ machineId'[j] = issued[n].machine
                               => Past(j, issued[n].stamp, issued[n].seq)'
    BY <1>1 DEF IssuedInv
  <2>0. PICK q \in Part : q = issued[n]
    BY DEF AutoIInv, AutoTypeOK
  <2>1. /\ q.stamp \in 0 .. now /\ q.machine \in Machine /\ q.stamp < expires[q.machine]
        /\ \A j \in Jvm : state[j] = "up" /\ machineId[j] = q.machine
                             => Past(j, q.stamp, q.seq)
    BY <1>6, <2>0 DEF IssuedInv, Part
  <2>2. q.stamp <= now' /\ q.stamp < expires'[q.machine]
    <3>1. expires'[q.machine] \in {expires[q.machine], now + Valid}
      BY <1>2, <2>1
    <3>2. expires[q.machine] \in Int /\ now \in Nat
      BY <2>1
    <3> QED BY <1>2, <2>1, <3>1, <3>2
  <2>3. ASSUME NEW j \in Jvm, state'[j] = "up", machineId'[j] = q.machine
        PROVE  Past(j, q.stamp, q.seq)'
    <3>1. /\ lastStmp'[j] = lastStmp[j] /\ sequence'[j] = sequence[j]
          /\ j \in spinning' <=> j \in spinning
          /\ machineId[j] = q.machine
          /\ now \in Nat /\ lastStmp[j] \in Int /\ q.stamp \in Nat
      <4>1. lastStmp[j] \in -1 .. MaxNow /\ now \in 0 .. MaxNow
        OBVIOUS
      <4>2. lastStmp[j] \in Int /\ now \in Nat /\ q.stamp \in Nat
        BY <2>1, <4>1
      <4>3. Lives(j) /\ machineId[j] = q.machine
        BY <1>3, <2>3
      <4> QED BY <1>1, <4>2, <4>3
    <3>2. CASE state[j] = "up"
      <4> HIDE DEF AutoIInv, AutoTypeOK, TypeOK
      <4>1. Past(j, q.stamp, q.seq)
        BY <2>1, <3>1, <3>2
      <4>2. now' >= now /\ now' \in Int /\ now \in Int /\ q.stamp \in Int
        BY <1>2, <3>1
      <4> QED BY <3>1, <4>1, <4>2 DEF Past
    <3>3. CASE lastStmp[j] = -1 /\ ~Taken(machineId[j])
      <4> HIDE DEF AutoIInv, AutoTypeOK, TypeOK
      <4>1. q.stamp < now
        <5>1. expires[q.machine] \in Int /\ now \in Int
          BY <2>1, <3>1 DEF AutoIInv, AutoTypeOK, TypeOK
        <5>2. expires[q.machine] <= now
          BY <3>1, <3>3, <5>1 DEF Taken
        <5> QED BY <2>1, <3>1, <5>1, <5>2
      <4>2. now' >= now /\ now' \in Int /\ now \in Int /\ q.stamp \in Int
        BY <1>2, <3>1
      <4> QED BY <3>1, <3>3, <4>1, <4>2 DEF Past
    <3> QED BY <1>3, <2>3, <3>2, <3>3
  <2> QED BY <1>1, <2>0, <2>2, <2>3
<1> QED BY <1>6, <1>7

\* Every step keeps AutoIInv.
LEMMA AutoStep == AutoIInv /\ [AutoNext]_autoVars => AutoIInv'
<1> SUFFICES ASSUME AutoIInv, [AutoNext]_autoVars PROVE AutoIInv'
  OBVIOUS
<1>1. AutoTypeOK /\ AutoTypeOK'
  BY AutoTypeStep DEF AutoIInv
<1>2. TimelyInv'
  <2>1. TimelyInv
    BY DEF AutoIInv, AutoTypeOK, TimelyInv
  <2>2. [Next]_vars
    BY DEF AutoNext, LeaseStep, NewMill, SameMill, StartSpin, EndSpin, Call, autoVars
  <2> QED BY <2>1, <2>2, TimelyStep
<1>3. StampInv' /\ (Timely' => IssuedInv' /\ PartsUnique')
  <2>1. ASSUME NEW j \in Jvm, StartSpin(j)
        PROVE  StampInv' /\ (Timely' => IssuedInv' /\ PartsUnique')
    <3>1. StampInv' /\ (Timely' => Timely /\ PartsUnique')
      BY <2>1 DEF StartSpin, Call, vars, AutoIInv, StampInv, PartsUnique, Timely
    <3>2. ASSUME IssuedInv PROVE IssuedInv'
      BY <2>1, <3>2 DEF StartSpin, Call, vars, IssuedInv, Past
    <3> QED BY <3>1, <3>2 DEF AutoIInv
  <2>2. CASE UNCHANGED autoVars
    BY <2>2 DEF autoVars, idVars, vars, AutoIInv, StampInv, PartsUnique, Timely,
                IssuedInv, Past
  <2> QED BY <1>1, <2>1, <2>2, LeaseKeeps, IssuesKeeps, AutoSteps
<1> QED BY <1>1, <1>2, <1>3 DEF AutoIInv, TimelyInv, PartsUnique

\* The parts of the ids and the registration always fit together as AutoIInv says.
THEOREM AutoInductive == AutoSpec => []AutoIInv
<1>1. AutoInit => AutoIInv
  BY DEF AutoInit, Init, AutoIInv, AutoTypeOK, TypeOK, State, StampInv,
         RenewedInTime, DistinctMachines, Sharing, IssuedInv, PartsUnique, Sequence
<1> QED BY <1>1, AutoStep, PTL DEF AutoSpec

\* Until a renewal is late or fails, no JVM issues a time, machine number and
\* number within the millisecond that any JVM, then or before a crash, issued.
THEOREM Unique == AutoSpec => []PartsUnique
<1>1. AutoIInv => PartsUnique
  BY DEF AutoIInv
<1> QED BY <1>1, AutoInductive, PTL

\* Until a renewal is late or fails, two calls that return the same id have a
\* machine number between them that is too large for its field.
THEOREM FittingUnique == AutoSpec => []IdsUniqueWhenFitting
<1>1. AutoIInv => IdsUniqueWhenFitting
  <2> SUFFICES ASSUME AutoIInv, Timely, NEW m \in DOMAIN issued, NEW n \in DOMAIN issued,
                      Fits(m), Fits(n), Id[issued[m]] = Id[issued[n]]
               PROVE  m = n
    BY DEF IdsUniqueWhenFitting
  <2>1. issued[m] \in Part /\ issued[n] \in Part
    BY DEF AutoIInv, AutoTypeOK
  <2>2. Pack(issued[m]) = Pack(issued[n])
    BY <2>1 DEF Id
  <2>3. issued[m] = issued[n]
    BY <2>1, <2>2, PackTells DEF Fits
  <2> QED BY <2>3 DEF AutoIInv, PartsUnique
<1> QED BY <1>1, AutoInductive, PTL
=============================================================================
