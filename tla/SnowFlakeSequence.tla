------------------------- MODULE SnowFlakeSequence --------------------------
(***************************************************************************)
(* SnowFlakeSequence: identifiers packed from the clock of the machine,    *)
(* the data center and machine numbers given to the constructor, and a     *)
(* sequence number within the millisecond.                                 *)
(*                                                                         *)
(* next() is synchronized and reads the clock once, so a call is one step, *)
(* except the one that finds the numbers of its millisecond used up: it    *)
(* spins in getNextMill, inside the monitor, until the clock has advanced. *)
(* A clock is counted from START_STMP.  It may be set back, and a JVM may  *)
(* be started again; lastStmp does not survive that.                       *)
(***************************************************************************)
EXTENDS Integers, Sequences

CONSTANTS Jvm,           \* the JVMs, one generator object each
          Datacenter,    \* Datacenter[j], Machine[j]: the arguments of the
          Machine,       \*   constructor in JVM j
          DatacenterSize,\* 2 to the power DATACENTER_BIT (5 in the code)
          MachineSize,   \* 2 to the power MACHINE_BIT (5 in the code)
          SequenceSize,  \* 2 to the power SEQUENCE_BIT (12 in the code)
          MaxTime,       \* bound: the last millisecond of the instance
          MaxSetBacks,   \* bound: how often clocks are set back
          MaxRestarts    \* bound: how often JVMs are started again

ASSUME SizeAssumption ==
    /\ DatacenterSize \in Nat \ {0}
    /\ MachineSize \in Nat \ {0}
    /\ SequenceSize \in Nat \ {0}
\* The range checks of the constructor.
ASSUME ConstructorAssumption ==
    /\ Datacenter \in [Jvm -> 0 .. DatacenterSize - 1]
    /\ Machine \in [Jvm -> 0 .. MachineSize - 1]
ASSUME BoundsAssumption ==
    MaxTime \in Nat \ {0} /\ MaxSetBacks \in Nat /\ MaxRestarts \in Nat

VARIABLES clock,     \* clock[j], System.currentTimeMillis() in JVM j
          lastStmp,  \* lastStmp[j], the millisecond of the last id, or -1
          sequence,  \* sequence[j], the number within that millisecond
          spinning,  \* the JVMs whose next() is in getNextMill
          issued,    \* issued[j], the ids next() of JVM j returned
          setBacks,  \* how often a clock was set back
          restarts   \* how often a JVM was started again

faultVars == <<setBacks, restarts>>
vars == <<clock, lastStmp, sequence, spinning, issued, faultVars>>

\* A defect: MACHINE_LEFT one bit short.
PackOverlap(time, datacenter, machine, seq) ==
    ((time * DatacenterSize + datacenter) * MachineSize) * SequenceSize
        + machine * (SequenceSize \div 2) + seq

\* The fields of an id, from the most significant: no field exceeds its bits,
\* so the shifts and the disjunction of the code are a positional number.
Pack(time, datacenter, machine, seq) ==
    ((time * DatacenterSize + datacenter) * MachineSize + machine)
        * SequenceSize + seq

Init ==
    /\ clock \in [Jvm -> 0 .. 1]
    /\ lastStmp = [j \in Jvm |-> -1]
    /\ sequence = [j \in Jvm |-> 0]
    /\ spinning = {}
    /\ issued = [j \in Jvm |-> << >>]
    /\ setBacks = 0
    /\ restarts = 0

\* The end of next(): lastStmp = currStmp, and the id is packed and returned.
Return(j, seq) ==
    /\ lastStmp' = [lastStmp EXCEPT ![j] = clock[j]]
    /\ sequence' = [sequence EXCEPT ![j] = seq]
    /\ issued' = [issued EXCEPT ![j] =
                     Append(@, Pack(clock[j], Datacenter[j], Machine[j], seq))]

-----------------------------------------------------------------------------
\* The clock is behind lastStmp: next() throws.
Refuse(j) ==
    /\ j \notin spinning
    /\ clock[j] < lastStmp[j]
    /\ UNCHANGED vars

\* A defect: a clock that moved backwards is not refused.
NewMillBackwards(j) ==
    /\ j \notin spinning
    /\ clock[j] # lastStmp[j]
    /\ Return(j, 0)
    /\ UNCHANGED <<clock, spinning, faultVars>>

\* The first id of a millisecond.
NewMill(j) ==
    /\ j \notin spinning
    /\ clock[j] > lastStmp[j]
    /\ Return(j, 0)
    /\ UNCHANGED <<clock, spinning, faultVars>>

\* A defect: the number is not masked.
NextInMillUnmasked(j) == sequence[j] + 1

NextInMill(j) == (sequence[j] + 1) % SequenceSize

\* A defect: the number wraps within the millisecond.
SameMillWraps(j) ==
    /\ j \notin spinning
    /\ clock[j] = lastStmp[j]
    /\ Return(j, NextInMill(j))
    /\ UNCHANGED <<clock, spinning, faultVars>>

\* A further id of the millisecond.
SameMill(j) ==
    /\ j \notin spinning
    /\ clock[j] = lastStmp[j]
    /\ NextInMill(j) # 0
    /\ Return(j, NextInMill(j))
    /\ UNCHANGED <<clock, spinning, faultVars>>

\* The numbers of the millisecond are used up: getNextMill begins to spin.
StartSpin(j) ==
    /\ j \notin spinning
    /\ clock[j] = lastStmp[j]
    /\ NextInMill(j) = 0
    /\ spinning' = spinning \cup {j}
    /\ sequence' = [sequence EXCEPT ![j] = 0]
    /\ UNCHANGED <<clock, lastStmp, issued, faultVars>>

\* One turn of the loop of getNextMill.
Spin(j) ==
    /\ j \in spinning
    /\ clock[j] <= lastStmp[j]
    /\ UNCHANGED vars

\* Defects: the loop waits for another millisecond, not for a later one; the
\* loop misses the first later one.
EndSpinAnother(j) ==
    /\ j \in spinning
    /\ clock[j] # lastStmp[j]
    /\ Return(j, sequence[j])
    /\ spinning' = spinning \ {j}
    /\ UNCHANGED <<clock, faultVars>>

EndSpinLate(j) ==
    /\ j \in spinning
    /\ clock[j] > lastStmp[j] + 1
    /\ Return(j, sequence[j])
    /\ spinning' = spinning \ {j}
    /\ UNCHANGED <<clock, faultVars>>

\* The loop sees a later millisecond, and next() returns its first id.
EndSpin(j) ==
    /\ j \in spinning
    /\ clock[j] > lastStmp[j]
    /\ Return(j, sequence[j])
    /\ spinning' = spinning \ {j}
    /\ UNCHANGED <<clock, faultVars>>

Tick(j) ==
    /\ clock[j] < MaxTime
    /\ clock' = [clock EXCEPT ![j] = @ + 1]
    /\ UNCHANGED <<lastStmp, sequence, spinning, issued, faultVars>>

\* The clock of the machine of j is set back.
SetBack(j) ==
    /\ setBacks < MaxSetBacks
    /\ setBacks' = setBacks + 1
    /\ \E t \in 0 .. clock[j] - 1 : clock' = [clock EXCEPT ![j] = t]
    /\ UNCHANGED <<lastStmp, sequence, spinning, issued, restarts>>

\* JVM j dies and is started again, which takes longer than a millisecond.
Restart(j) ==
    /\ restarts < MaxRestarts
    /\ clock[j] < MaxTime
    /\ restarts' = restarts + 1
    /\ clock' = [clock EXCEPT ![j] = @ + 1]
    /\ lastStmp' = [lastStmp EXCEPT ![j] = -1]
    /\ sequence' = [sequence EXCEPT ![j] = 0]
    /\ spinning' = spinning \ {j}
    /\ UNCHANGED <<issued, setBacks>>

Next ==
    \E j \in Jvm :
        \/ Refuse(j)
        \/ NewMill(j)
        \/ SameMill(j)
        \/ StartSpin(j)
        \/ Spin(j)
        \/ EndSpin(j)
        \/ Tick(j)
        \/ SetBack(j)
        \/ Restart(j)

Spec == Init /\ [][Next]_vars

\* Clocks advance and a spinning thread goes on; nobody has to call next().
Fairness == \A j \in Jvm : WF_vars(Tick(j)) /\ WF_vars(EndSpin(j))

LiveSpec == Spec /\ Fairness

-----------------------------------------------------------------------------
Id == 0 .. Pack(MaxTime + 1, 0, 0, 0)

TypeOK ==
    /\ clock \in [Jvm -> 0 .. MaxTime]
    /\ lastStmp \in [Jvm -> -1 .. MaxTime]
    /\ sequence \in [Jvm -> 0 .. SequenceSize - 1]
    /\ spinning \subseteq Jvm
    /\ issued \in [Jvm -> Seq(Nat)]
    /\ setBacks \in 0 .. MaxSetBacks
    /\ restarts \in 0 .. MaxRestarts

Ids == INSTANCE DistributedIds WITH Client <- Jvm

\* No id is returned twice, by next() of one JVM or of two.
UniqueIds == Ids!UniqueIds

\* The ids one JVM returns grow, across milliseconds and clock corrections.
IncreasingIds == Ids!IncreasingIds

\* next() is the abstract "issue an unused id".
RefinesDistributedIds == Ids!Spec

\* A call that waits for the next millisecond, with the monitor in its hands,
\* returns, although the clock may be set back under it.
SpinEnds ==
    \A j \in Jvm : (j \in spinning /\ lastStmp[j] < MaxTime) ~> (j \notin spinning)

-----------------------------------------------------------------------------
(***************************************************************************)
(* Why the ids grow and are unique, as long as no clock that was set back  *)
(* meets a JVM that has forgotten lastStmp.                                *)
(***************************************************************************)
OneFault == setBacks = 0 \/ restarts = 0

\* The next id of j comes after an id of time t and number s.
Past(j, t, s) ==
    \/ t < lastStmp[j]
    \/ t = lastStmp[j] /\ (s <= sequence[j] \/ j \in spinning)
    \/ lastStmp[j] = -1 /\ t < clock[j]

\* Every id carries the numbers of its JVM, and a time and number in the past.
StampInv ==
    \A j \in Jvm : \A n \in DOMAIN issued[j] :
        \E t \in 0 .. MaxTime, s \in 0 .. SequenceSize - 1 :
            /\ issued[j][n] = Pack(t, Datacenter[j], Machine[j], s)
            /\ Past(j, t, s)

\* Without a clock set back, none is behind lastStmp; without a restart, a JVM
\* that has issued ids remembers the last.
ClockInv ==
    \A j \in Jvm :
        /\ setBacks = 0 => lastStmp[j] <= clock[j]
        /\ restarts = 0 /\ lastStmp[j] = -1 => issued[j] = << >>

IInv ==
    /\ TypeOK
    /\ OneFault => StampInv /\ ClockInv /\ IncreasingIds
=============================================================================
