--------------------------- MODULE NumberSequence ---------------------------
(***************************************************************************)
(* NumberSequence: a Redis counter whose numbers stop at maxValue, as the  *)
(* numeric part of a MixedSequence.  Every MixedSequence has an object of  *)
(* its own, in whichever JVM; those of one namespace share the counter.    *)
(*                                                                         *)
(* next() is not synchronized and goes through the field curValue: the     *)
(* reply is written to it, compared there and read again to be returned,   *)
(* each of which is a step here.                                           *)
(***************************************************************************)
EXTENDS RedisCounter, Sequences

CONSTANTS Object,    \* the NumberSequence objects of one namespace
          Thread,    \* the threads that call an object
          MaxValue,  \* maxValue
          MaxCalls   \* bound: the calls of next()

\* A last number of 0 or less leaves no number to count.
ASSUME MaxValueAssumption == MaxValue \in Nat \ {0}
ASSUME MaxCallsAssumption == MaxCalls \in Nat

VARIABLES curValue,  \* curValue[o], the field of object o
          pc,        \* pc[o][t], where thread t is in next() of object o
          reply,     \* reply[o][t], what incrementAndGet answered to it
          alone,     \* alone[o], the threads inside that met no other inside
          returned,  \* what the calls returned, oldest first
          calls      \* how often next() was called

vars == <<counter, curValue, pc, reply, alone, returned, calls>>

PC == {"idle",     \* outside next()
       "fetch",    \* incrementAndGet sent
       "replied",  \* incrementAndGet applied, its reply on the way
       "compare",  \* curValue written, to be compared with maxValue
       "read",     \* found below maxValue, to be read and returned
       "saturated"}\* about to return maxValue

Fresh == [t \in Thread |-> "idle"]

Init ==
    /\ counter = 0
    /\ curValue = [o \in Object |-> 0]
    /\ pc = [o \in Object |-> Fresh]
    /\ reply = [o \in Object |-> [t \in Thread |-> 0]]
    /\ alone = [o \in Object |-> {}]
    /\ returned = << >>
    /\ calls = 0

Goto(o, t, from, to) == pc[o][t] = from /\ pc' = [pc EXCEPT ![o][t] = to]

InNext(o) == {t \in Thread : pc[o][t] # "idle"}

\* next() is called: the field decides whether Redis is asked.
Enter(o, t) ==
    /\ calls < MaxCalls
    /\ calls' = calls + 1
    /\ Goto(o, t, "idle", IF curValue[o] < MaxValue THEN "fetch" ELSE "saturated")
    /\ alone' = [alone EXCEPT ![o] = IF InNext(o) = {} THEN {t} ELSE {}]
    /\ UNCHANGED <<counter, curValue, reply, returned>>

\* A defect: a GET, with the increment left to a later SET that is lost.
RedisReads(o, t) ==
    /\ counter < MaxCounter
    /\ Goto(o, t, "fetch", "replied")
    /\ reply' = [reply EXCEPT ![o][t] = counter + 1]
    /\ UNCHANGED <<counter, curValue, alone, returned, calls>>

RedisIncrements(o, t) ==
    /\ counter < MaxCounter
    /\ Goto(o, t, "fetch", "replied")
    /\ counter' = counter + 1
    /\ reply' = [reply EXCEPT ![o][t] = counter + 1]
    /\ UNCHANGED <<curValue, alone, returned, calls>>

\* curValue = atomicLong.incrementAndGet()
Store(o, t) ==
    /\ Goto(o, t, "replied", "compare")
    /\ curValue' = [curValue EXCEPT ![o] = reply[o][t]]
    /\ UNCHANGED <<counter, reply, alone, returned, calls>>

\* A defect: the reply is returned without the comparison.
CompareSkipped(o, t) ==
    /\ Goto(o, t, "compare", "read")
    /\ UNCHANGED <<counter, curValue, reply, alone, returned, calls>>

\* if (curValue < maxValue), of whichever thread the value is by now.
Compare(o, t) ==
    /\ Goto(o, t, "compare", IF curValue[o] < MaxValue THEN "read" ELSE "saturated")
    /\ UNCHANGED <<counter, curValue, reply, alone, returned, calls>>

Return(o, t, from, value) ==
    /\ Goto(o, t, from, "idle")
    /\ returned' = Append(returned,
           [object |-> o, value |-> value, alone |-> t \in alone[o]])
    /\ alone' = [alone EXCEPT ![o] = @ \ {t}]
    /\ UNCHANGED <<counter, curValue, reply, calls>>

ReturnValue(o, t) == Return(o, t, "read", curValue[o])
ReturnMax(o, t) == Return(o, t, "saturated", MaxValue)

\* incrementAndGet throws, whether Redis has executed it or not.
Throw(o, t) ==
    /\ pc[o][t] \in {"fetch", "replied"}
    /\ pc' = [pc EXCEPT ![o][t] = "idle"]
    /\ alone' = [alone EXCEPT ![o] = @ \ {t}]
    /\ UNCHANGED <<counter, curValue, reply, returned, calls>>

\* A defect: the field is reset under calls that are running.
Reset(o) ==
    /\ curValue' = [curValue EXCEPT ![o] = 0]
    /\ UNCHANGED <<counter, pc, reply, alone, returned, calls>>

\* The JVM of object o is started again.
Restart(o) ==
    /\ curValue' = [curValue EXCEPT ![o] = 0]
    /\ pc' = [pc EXCEPT ![o] = Fresh]
    /\ alone' = [alone EXCEPT ![o] = {}]
    /\ UNCHANGED <<counter, reply, returned, calls>>

Next ==
    \E o \in Object :
        \/ Restart(o)
        \/ \E t \in Thread :
              \/ Enter(o, t)
              \/ RedisIncrements(o, t)
              \/ Store(o, t)
              \/ Compare(o, t)
              \/ ReturnValue(o, t)
              \/ ReturnMax(o, t)
              \/ Throw(o, t)

Spec == Init /\ [][Next]_vars

-----------------------------------------------------------------------------
TypeOK ==
    /\ counter \in 0 .. MaxCounter
    /\ curValue \in [Object -> 0 .. MaxCounter]
    /\ pc \in [Object -> [Thread -> PC]]
    /\ reply \in [Object -> [Thread -> 0 .. MaxCounter]]
    /\ alone \in [Object -> SUBSET Thread]
    /\ returned \in Seq([object : Object, value : 1 .. MaxCounter, alone : BOOLEAN])
    /\ calls \in 0 .. MaxCalls

\* The nth and the mth call returned one number, which is not the last one.
Repeated(m, n) ==
    m # n /\ returned[m].value = returned[n].value /\ returned[m].value # MaxValue

\* Two objects, of one JVM or of two, never return the same number, but for
\* maxValue, which all of them end with.
ObjectsDistinct ==
    \A m, n \in DOMAIN returned :
        Repeated(m, n) => returned[m].object = returned[n].object

\* A call that met no other in its object returns a number of its own and no
\* larger one than maxValue, although calls before and after it may race and
\* leave each other's replies in the field.
AloneCorrect ==
    \A m \in DOMAIN returned : returned[m].alone =>
        /\ returned[m].value <= MaxValue
        /\ \A n \in DOMAIN returned : ~Repeated(m, n)

Sent(o, t) == pc[o][t] = "replied"
Stored(o, t) == pc[o][t] \in {"compare", "read"}

\* A call that reads the field finds what a call has stored there, and one that
\* is about to return maxValue has seen the counter reach it.
FieldInv ==
    \A o \in Object :
        /\ curValue[o] <= counter
        /\ \A t \in Thread :
              /\ Stored(o, t) => curValue[o] > 0
              /\ pc[o][t] = "saturated" => MaxValue <= counter

\* What the calls returned was granted by the counter.
ReturnedInv ==
    \A n \in DOMAIN returned :
        returned[n].object \in Object /\ returned[n].value \in 1 .. counter

\* A number on its way to a call is in no field, on its way to no other call,
\* and not returned, unless it is the last one.
SentInv ==
    \A o \in Object, t \in Thread : Sent(o, t) =>
        /\ reply[o][t] \in 1 .. counter
        /\ \A p \in Object : curValue[p] # reply[o][t]
        /\ \A p \in Object, u \in Thread :
              Sent(p, u) /\ reply[p][u] = reply[o][t] => p = o /\ u = t
        /\ \A n \in DOMAIN returned :
              returned[n].value # MaxValue => returned[n].value # reply[o][t]

\* The number in an object's field is in no other's, nor returned by another.
OwnFieldInv ==
    \A o \in Object : curValue[o] > 0 =>
        /\ \A p \in Object : curValue[p] = curValue[o] => p = o
        /\ \A n \in DOMAIN returned :
              /\ returned[n].value = curValue[o]
              /\ returned[n].value # MaxValue
              => returned[n].object = o

\* Call t is the only one in object o, and a number it has stored there is not
\* returned yet.
AloneAt(o, t) ==
    /\ pc[o][t] # "idle"
    /\ \A u \in Thread : pc[o][u] # "idle" => u = t
    /\ pc[o][t] = "read" => curValue[o] < MaxValue
    /\ Stored(o, t) =>
          \A n \in DOMAIN returned :
              returned[n].value = curValue[o] => curValue[o] = MaxValue

\* A call marked alone is alone.
AloneInv == \A o \in Object : \A t \in alone[o] : AloneAt(o, t)

\* The number of a call that was alone is in no field that a call may return.
SpentInv ==
    \A n \in DOMAIN returned : returned[n].alone =>
        \A o \in Object, t \in Thread :
            Stored(o, t) /\ curValue[o] = returned[n].value
                => curValue[o] = MaxValue

\* The inductive invariant.
IInv ==
    /\ TypeOK
    /\ FieldInv
    /\ ReturnedInv
    /\ SentInv
    /\ OwnFieldInv
    /\ AloneInv
    /\ SpentInv
    /\ ObjectsDistinct
    /\ AloneCorrect
=============================================================================
