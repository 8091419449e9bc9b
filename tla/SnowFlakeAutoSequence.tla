------------------------ MODULE SnowFlakeAutoSequence -----------------------
(***************************************************************************)
(* SnowFlakeAutoSequence: ids packed from a time stamp, a data center, the *)
(* machine number leased in Redis (MachineLease) and a number within the   *)
(* millisecond.  The loop of registerMachine is bounded by MACHINE_LEFT    *)
(* where MACHINE_BIT is meant, so it may register numbers that do not fit  *)
(* their field, and the fields of an id are joined by a plain OR.          *)
(*                                                                         *)
(* A tick of MachineLease's clock is a millisecond here, and the JVMs read *)
(* that clock; SnowFlakeSequence, whose next() is the same line for line,  *)
(* has clocks that differ and are set back.                                *)
(***************************************************************************)
EXTENDS MachineLease, Sequences

CONSTANTS DatacenterBit,  \* DATACENTER_BIT (5 in the code)
          MachineBit,     \* MACHINE_BIT (5 in the code)
          SequenceBit,    \* SEQUENCE_BIT (12 in the code)
          MaxCrashes,     \* bound: how often JVMs die
          MaxIds          \* bound: the ids issued by all JVMs together

MachineLeft == SequenceBit
DatacenterLeft == SequenceBit + MachineBit
TimestmpLeft == DatacenterLeft + DatacenterBit

\* The last number that registerMachine tries.
ASSUME LoopAssumption == Machines = 2 ^ MachineLeft + 1

ASSUME BitAssumption ==
    DatacenterBit \in Nat \ {0} /\ MachineBit \in Nat /\ SequenceBit \in Nat

\* A power of two is twice the one before, which the provers do not know; as far
\* as a part of an id or the place of its field may reach.
LastBit == MaxNow + Machines + SequenceBit + MachineBit
ASSUME PowerAssumption ==
    2 ^ 0 = 1 /\ \A i \in 0 .. LastBit : 2 ^ (i + 1) = 2 * 2 ^ i
ASSUME AutoBoundsAssumption == MaxCrashes \in Nat /\ MaxIds \in Nat

VARIABLES lastStmp,  \* lastStmp[j], the time of the last id of JVM j
          sequence,  \* sequence[j], the number of that id in its millisecond
          spinning,  \* the JVMs whose next() is in getNextMill
          issued,    \* the ids next() returned, in parts, oldest first
          crashes    \* how often a JVM died

idVars == <<lastStmp, sequence, spinning, issued>>
autoVars == <<vars, idVars, crashes>>

Sequence == 0 .. 2 ^ SequenceBit - 1

\* The parts of an id.  The data center of every JVM is 1: the loop of register
\* increments the field and passes on its local variable.
Part == [stamp : 0 .. MaxNow, machine : Machine, seq : Sequence]
datacenterId == 1

\* An id is the set of its 1 bits: n << left, and a | b is the union.
Shifted(n, left) == {left + i : i \in {i \in 0 .. n : (n \div 2 ^ i) % 2 = 1}}

\* A defect: the machine is not shifted, and meets the sequence.
PackUnshifted(p) ==
    Shifted(p.stamp, TimestmpLeft) \cup Shifted(datacenterId, DatacenterLeft)
        \cup Shifted(p.machine, 0) \cup Shifted(p.seq, 0)

\* The id: each part is shifted to its place and may reach into the next one.
Pack(p) ==
    Shifted(p.stamp, TimestmpLeft) \cup Shifted(datacenterId, DatacenterLeft)
        \cup Shifted(p.machine, MachineLeft) \cup Shifted(p.seq, 0)

\* The ids, tabulated.
Id == [p \in Part |-> Pack(p)]

AutoInit ==
    /\ Init
    /\ lastStmp = [j \in Jvm |-> -1]
    /\ sequence = [j \in Jvm |-> 0]
    /\ spinning = {}
    /\ issued = << >>
    /\ crashes = 0

\* A step of the registration, a renewal or the clock; a JVM that dies takes
\* the fields of its object with it.
LeaseStep ==
    LET lives(j) == state[j] = "down" \/ state'[j] # "down" IN
    /\ Next
    /\ crashes' = crashes + IF \A j \in Jvm : lives(j) THEN 0 ELSE 1
    /\ crashes' <= MaxCrashes
    /\ lastStmp' = [j \in Jvm |-> IF lives(j) THEN lastStmp[j] ELSE -1]
    /\ sequence' = [j \in Jvm |-> IF lives(j) THEN sequence[j] ELSE 0]
    /\ spinning' = {j \in spinning : lives(j)}
    /\ UNCHANGED issued

\* The end of next(): lastStmp = currStmp, and the id is returned.
Return(j, seq) ==
    /\ Len(issued) < MaxIds
    /\ lastStmp' = [lastStmp EXCEPT ![j] = now]
    /\ sequence' = [sequence EXCEPT ![j] = seq]
    /\ issued' = Append(issued, [stamp |-> now, machine |-> machineId[j], seq |-> seq])

\* next() is called in a JVM that has its object; it is synchronized.
Call(j) == state[j] = "up" /\ j \notin spinning /\ UNCHANGED <<vars, crashes>>

NewMill(j) ==
    /\ Call(j)
    /\ now > lastStmp[j]
    /\ Return(j, 0)
    /\ UNCHANGED spinning

NextInMill(j) == (sequence[j] + 1) % 2 ^ SequenceBit

SameMill(j) ==
    /\ Call(j)
    /\ now = lastStmp[j]
    /\ NextInMill(j) # 0
    /\ Return(j, NextInMill(j))
    /\ UNCHANGED spinning

\* The numbers of the millisecond are used up: getNextMill begins to spin.
StartSpin(j) ==
    /\ Call(j)
    /\ now = lastStmp[j]
    /\ NextInMill(j) = 0
    /\ sequence' = [sequence EXCEPT ![j] = 0]
    /\ spinning' = spinning \cup {j}
    /\ UNCHANGED <<lastStmp, issued>>

\* A defect: getNextMill waits for lastStmp, not for the time after it.
EndSpinEarly(j) ==
    /\ j \in spinning
    /\ now >= lastStmp[j]
    /\ Return(j, 0)
    /\ spinning' = spinning \ {j}
    /\ UNCHANGED <<vars, crashes>>

EndSpin(j) ==
    /\ j \in spinning
    /\ now > lastStmp[j]
    /\ Return(j, 0)
    /\ spinning' = spinning \ {j}
    /\ UNCHANGED <<vars, crashes>>

AutoNext ==
    \/ LeaseStep
    \/ \E j \in Jvm : NewMill(j) \/ SameMill(j) \/ StartSpin(j) \/ EndSpin(j)

AutoSpec == AutoInit /\ [][AutoNext]_autoVars

-----------------------------------------------------------------------------
AutoTypeOK ==
    /\ TypeOK
    /\ lastStmp \in [Jvm -> -1 .. MaxNow]
    /\ sequence \in [Jvm -> Sequence]
    /\ spinning \subseteq {j \in Jvm : state[j] = "up"}
    /\ issued \in Seq(Part)

\* As long as renewals are timely, no time, machine number and number within
\* the millisecond are used together twice, in whichever JVM, before or after a
\* crash: who takes a number over is later than all that was issued under it.
PartsUnique ==
    Timely => \A m, n \in DOMAIN issued : issued[m] = issued[n] => m = n

\* The machine number of the nth id fits in its field, or all its bits are 0
\* there and the bit above is the data center's.
Fits(n) == issued[n].machine <= 2 ^ MachineBit

\* As long as renewals are timely, ids are distinct, or one of them has a
\* machine number that reaches beyond the bits left for it.
IdsUniqueWhenFitting ==
    Timely => \A m, n \in DOMAIN issued :
        Fits(m) /\ Fits(n) /\ Id[issued[m]] = Id[issued[n]] => m = n

\* The same without the restriction: what the registration is there for.
IdsUnique ==
    Timely => \A m, n \in DOMAIN issued :
        Id[issued[m]] = Id[issued[n]] => m = n

-----------------------------------------------------------------------------
(***************************************************************************)
(* Why the parts are unique: while renewals are timely, nothing was issued *)
(* under a machine number after its key expired, so that who registers it  *)
(* next is later than all of it.                                           *)
(***************************************************************************)
\* The next id of j comes after an id of time t and number s.
Past(j, t, s) ==
    \/ t < lastStmp[j]
    \/ t = lastStmp[j] /\ (s <= sequence[j] \/ j \in spinning)
    \/ lastStmp[j] = -1 /\ t < now

\* An id was issued while the key of its machine number was in Redis, and is in
\* the past of the JVM that now has the number.
IssuedInv ==
    \A n \in DOMAIN issued :
        LET p == issued[n] IN
        /\ p.stamp <= now
        /\ p.stamp < expires[p.machine]
        /\ \A j \in Jvm :
              state[j] = "up" /\ machineId[j] = p.machine => Past(j, p.stamp, p.seq)

\* lastStmp is not ahead of the clock, and a new object has none.
StampInv ==
    \A j \in Jvm :
        /\ lastStmp[j] <= now
        /\ state[j] # "up" => lastStmp[j] = -1

AutoIInv ==
    /\ AutoTypeOK
    /\ StampInv
    /\ Timely => RenewedInTime /\ DistinctMachines /\ IssuedInv
    /\ PartsUnique
=============================================================================
