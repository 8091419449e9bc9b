---------------------------- MODULE MachineLease ----------------------------
(***************************************************************************)
(* How SnowFlakeAutoSequence gets its machine number: every JVM registers  *)
(* the first free key namespace:1:machine in Redis with a time to live,    *)
(* and a scheduled task sets the key again, whoever has it by then, just   *)
(* before it would expire.                                                 *)
(*                                                                         *)
(* now is one clock for Redis and the JVMs, which only measure durations   *)
(* on it.  A key of Redis is the time at which it expires.                 *)
(***************************************************************************)
EXTENDS Integers

CONSTANTS Jvm,          \* the JVMs that register
          Machines,     \* the numbers registerMachine tries: 1 .. Machines
          Valid,        \* VALID_SECONDS, the time to live of a key (60)
          FirstRenewal, \* the delay of the first renewal (1)
          MaxLate,      \* bound: a renewal runs at most so late
          MaxFailures,  \* bound: renewals whose Redis command fails
          MaxNow        \* bound: the last moment of the instance

ASSUME MachinesAssumption == Machines \in Nat \ {0}
ASSUME DurationAssumption ==
    Valid \in Nat \ {0, 1} /\ FirstRenewal \in 1 .. Valid - 1
ASSUME BoundsAssumption ==
    MaxLate \in Nat /\ MaxFailures \in Nat /\ MaxNow \in Nat

VARIABLES now,       \* the time, in seconds
          expires,   \* expires[m], when the key of machine m expires
          state,     \* state[j], of the sequence object of JVM j
          machineId, \* machineId[j], the number it tries or has
          due,       \* due[j], when its next renewal is scheduled
          lapsed,    \* the JVMs whose key expired while they had its number
          failures,  \* renewals failed so far
          late       \* the JVMs whose renewals have been overdue

vars == <<now, expires, state, machineId, due, lapsed, failures, late>>

Machine == 1 .. Machines

State == {"down",         \* no object
          "registering",  \* in the loops of register and registerMachine
          "up"}           \* registered: next() hands out ids

\* A defect: the renewal is scheduled for the moment the key expires.
IntervalValid == Valid
\* The delay between two renewals at a fixed rate.
Interval == Valid - 1

\* The key of machine m is in Redis.
Taken(m) == now < expires[m]

Init ==
    /\ now = 0
    /\ expires = [m \in Machine |-> 0]
    /\ state = [j \in Jvm |-> "down"]
    /\ machineId = [j \in Jvm |-> 1]
    /\ due = [j \in Jvm |-> 0]
    /\ lapsed = {}
    /\ failures = 0
    /\ late = {}

\* The object is constructed: register() starts with the first machine.
Start(j) ==
    /\ state[j] = "down"
    /\ state' = [state EXCEPT ![j] = "registering"]
    /\ UNCHANGED <<now, expires, machineId, due, lapsed, failures, late>>

SetKey(m) == expires' = [expires EXCEPT ![m] = now + Valid]

\* A defect: set, and not setIfAbsent.
RegisterOver(j) ==
    /\ state[j] = "registering"
    /\ SetKey(machineId[j])
    /\ state' = [state EXCEPT ![j] = "up"]
    /\ due' = [due EXCEPT ![j] = now + FirstRenewal]
    /\ UNCHANGED <<now, machineId, lapsed, failures, late>>

\* setIfAbsent creates the key: the number is registered and the renewals
\* are scheduled.
Register(j) ==
    /\ state[j] = "registering"
    /\ ~Taken(machineId[j])
    /\ SetKey(machineId[j])
    /\ state' = [state EXCEPT ![j] = "up"]
    /\ due' = [due EXCEPT ![j] = now + FirstRenewal]
    /\ UNCHANGED <<now, machineId, lapsed, failures, late>>

\* A defect: the loop has no last number.
TryNextForever(j) ==
    /\ state[j] = "registering"
    /\ Taken(machineId[j])
    /\ machineId' = [machineId EXCEPT ![j] = @ + 1]
    /\ UNCHANGED <<now, expires, state, due, lapsed, failures, late>>

\* setIfAbsent finds the key: the loop goes on, and register starts over
\* when the last number is taken too.
TryNext(j) ==
    /\ state[j] = "registering"
    /\ Taken(machineId[j])
    /\ machineId' = [machineId EXCEPT ![j] = (@ % Machines) + 1]
    /\ UNCHANGED <<now, expires, state, due, lapsed, failures, late>>

RenewalDue(j) == state[j] = "up" /\ due[j] <= now

\* renewalMachine: set, and not "set if it is still mine".
Renew(j) ==
    /\ RenewalDue(j)
    /\ SetKey(machineId[j])
    /\ due' = [due EXCEPT ![j] = @ + Interval]
    /\ UNCHANGED <<now, state, machineId, lapsed, failures, late>>

\* The command fails, which is swallowed: the next renewal comes as scheduled.
RenewFails(j) ==
    /\ RenewalDue(j)
    /\ failures < MaxFailures
    /\ failures' = failures + 1
    /\ due' = [due EXCEPT ![j] = @ + Interval]
    /\ UNCHANGED <<now, expires, state, machineId, lapsed, late>>

\* JVM j dies; its key stays until it expires.
Crash(j) ==
    /\ state[j] # "down"
    /\ state' = [state EXCEPT ![j] = "down"]
    /\ machineId' = [machineId EXCEPT ![j] = 1]
    /\ due' = [due EXCEPT ![j] = 0]
    /\ lapsed' = lapsed \ {j}
    /\ UNCHANGED <<now, expires, failures, late>>

\* A second passes; no renewal is more than MaxLate behind its schedule.
Tick ==
    /\ now < MaxNow
    /\ \A j \in Jvm : state[j] = "up" => now < due[j] + MaxLate
    /\ now' = now + 1
    /\ lapsed' = lapsed \cup
           {j \in Jvm : state[j] = "up" /\ expires[machineId[j]] = now'}
    /\ late' = late \cup {j \in Jvm : RenewalDue(j)}
    /\ UNCHANGED <<expires, state, machineId, due, failures>>

Next ==
    \/ Tick
    \/ \E j \in Jvm :
          \/ Start(j)
          \/ Register(j)
          \/ TryNext(j)
          \/ Renew(j)
          \/ RenewFails(j)
          \/ Crash(j)

Spec == Init /\ [][Next]_vars

-----------------------------------------------------------------------------
TypeOK ==
    /\ now \in 0 .. MaxNow
    /\ expires \in [Machine -> 0 .. MaxNow + Valid]
    /\ state \in [Jvm -> State]
    /\ machineId \in [Jvm -> Machine]
    /\ due \in [Jvm -> Nat]
    /\ lapsed \subseteq Jvm
    /\ failures \in 0 .. MaxFailures
    /\ late \subseteq Jvm

Sharing(j, k) ==
    /\ j # k
    /\ state[j] = "up"
    /\ state[k] = "up"
    /\ machineId[j] = machineId[k]

\* No two JVMs hand out ids under one machine number, whatever becomes of the
\* renewals.
DistinctMachines == \A j, k \in Jvm : ~Sharing(j, k)

\* Two JVMs share a number only after the key of one of them has expired under
\* it: registration itself never gives a live number away.
SharedOnlyAfterLapse ==
    \A j, k \in Jvm : Sharing(j, k) => j \in lapsed \/ k \in lapsed

\* Every renewal so far was on time and got through.
Timely == failures = 0 /\ late = {}

\* As long as renewals are timely, JVMs that come, crash and come back never
\* share a machine number.
DistinctWhileTimely == Timely => DistinctMachines

\* As long as renewals are timely, a JVM that hands out ids has its key in Redis:
\* a period one second short of the time to live is enough.
RegisteredWhileTimely ==
    Timely => \A j \in Jvm : state[j] = "up" => Taken(machineId[j])

\* The next renewal is not overdue and comes before the key expires.
RenewedInTime ==
    \A j \in Jvm :
        state[j] = "up" => now <= due[j] /\ due[j] < expires[machineId[j]]
=============================================================================
