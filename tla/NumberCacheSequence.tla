------------------------ MODULE NumberCacheSequence -------------------------
(***************************************************************************)
(* NumberCacheSequence: identifiers from a Redis counter, taken by every   *)
(* JVM in segments of Period and handed out from a local cache.            *)
(*                                                                         *)
(* Every JVM has one object (SequenceManager.REDIS_CACHE_ORDER_NO) whose   *)
(* synchronized next() is called by any number of threads.  The call is    *)
(* broken where another actor can interfere: at the monitor, when the      *)
(* command reaches Redis, and when its reply comes back or is lost.        *)
(***************************************************************************)
EXTENDS RedisCounter, Integers, Sequences

CONSTANTS Jvm,         \* the JVMs that share the Redis counter
          Thread,      \* the threads that call next() in one JVM
          NoThread,    \* the monitor is free
          Period,      \* PERIOD, the size of a segment (100 in the code)
          Reserve      \* a call with fewer cached ids fetches (10 in the code)

ASSUME PeriodAssumption == Period \in Nat \ {0}
ASSUME ReserveAssumption == Reserve \in Nat \ {0}
ASSUME NoThreadAssumption == NoThread \notin Thread

VARIABLES curValue,       \* curValue[j], the next cached id of JVM j
          maxCacheValue,  \* maxCacheValue[j], one past its last cached id
          monitor,        \* monitor[j], the thread inside next() of JVM j
          pc,             \* pc[j][t], where thread t of JVM j is
          reply,          \* reply[j][t], what getAndAdd answered to it
          issued          \* issued[j], the ids next() of JVM j returned

jvmVars == <<curValue, maxCacheValue, monitor, pc, reply, issued>>
vars == <<counter, jvmVars>>

PC == {"idle",     \* outside next()
       "fetch",    \* getAndAdd sent, not yet applied by Redis
       "replied",  \* getAndAdd applied, its reply on the way
       "take"}     \* enough ids cached: about to return curValue++

\* A JVM as it starts, and as it is after a crash: nothing cached, no caller.
FreshPc == [t \in Thread |-> "idle"]

Init ==
    /\ counter = 0
    /\ curValue = [j \in Jvm |-> 0]
    /\ maxCacheValue = [j \in Jvm |-> 0]
    /\ monitor = [j \in Jvm |-> NoThread]
    /\ pc = [j \in Jvm |-> FreshPc]
    /\ reply = [j \in Jvm |-> [t \in Thread |-> 0]]
    /\ issued = [j \in Jvm |-> << >>]

Goto(j, t, label) == pc' = [pc EXCEPT ![j][t] = label]
EnterMonitor(j, t) ==
    /\ monitor[j] = NoThread
    /\ monitor' = [monitor EXCEPT ![j] = t]
ExitMonitor(j) == monitor' = [monitor EXCEPT ![j] = NoThread]

\* A defect: only an overrun cache fetches.
CacheOverrun(j) == maxCacheValue[j] - curValue[j] < 0
\* Fewer ids cached than the reserve: the call must fetch a segment first.
CacheLow(j) == maxCacheValue[j] - curValue[j] < Reserve

-----------------------------------------------------------------------------
\* A defect: next() is not synchronized.
EnterUnsynchronized(j, t) ==
    /\ pc[j][t] = "idle"
    /\ monitor' = [monitor EXCEPT ![j] = t]
    /\ Goto(j, t, IF CacheLow(j) THEN "fetch" ELSE "take")
    /\ UNCHANGED <<counter, curValue, maxCacheValue, reply, issued>>

\* synchronized next(): thread t gets the monitor and looks at the cache.
Enter(j, t) ==
    /\ pc[j][t] = "idle"
    /\ EnterMonitor(j, t)
    /\ Goto(j, t, IF CacheLow(j) THEN "fetch" ELSE "take")
    /\ UNCHANGED <<counter, curValue, maxCacheValue, reply, issued>>

\* Redis executes getAndAdd(PERIOD), atomically.
RedisAdds(j, t) ==
    /\ pc[j][t] = "fetch"
    /\ counter + Period <= MaxCounter
    /\ reply' = [reply EXCEPT ![j][t] = counter]
    /\ counter' = counter + Period
    /\ Goto(j, t, "replied")
    /\ UNCHANGED <<curValue, maxCacheValue, monitor, issued>>

\* A defect: the reply is taken for the last id used, and next() pre-increments.
FetchReturnsLast(j, t) ==
    /\ pc[j][t] = "replied"
    /\ curValue' = [curValue EXCEPT ![j] = reply[j][t] - 1]
    /\ maxCacheValue' = [maxCacheValue EXCEPT ![j] = reply[j][t] + Period]
    /\ Goto(j, t, "take")
    /\ UNCHANGED <<counter, monitor, reply, issued>>

\* The reply arrives: the new segment replaces what was left of the old one.
FetchReturns(j, t) ==
    /\ pc[j][t] = "replied"
    /\ curValue' = [curValue EXCEPT ![j] = reply[j][t]]
    /\ maxCacheValue' = [maxCacheValue EXCEPT ![j] = reply[j][t] + Period]
    /\ Goto(j, t, "take")
    /\ UNCHANGED <<counter, monitor, reply, issued>>

\* A defect: the lock of next() is not released when getAndAdd throws.
FetchThrowsLocked(j, t) ==
    /\ pc[j][t] \in {"fetch", "replied"}
    /\ Goto(j, t, "idle")
    /\ UNCHANGED <<counter, curValue, maxCacheValue, monitor, reply, issued>>

\* getAndAdd throws, whether Redis has executed it ("replied") or not.
FetchThrows(j, t) ==
    /\ pc[j][t] \in {"fetch", "replied"}
    /\ Goto(j, t, "idle")
    /\ ExitMonitor(j)
    /\ UNCHANGED <<counter, curValue, maxCacheValue, reply, issued>>

\* return curValue++, and the monitor is released.
Take(j, t) ==
    /\ pc[j][t] = "take"
    /\ issued' = [issued EXCEPT ![j] = Append(@, curValue[j])]
    /\ curValue' = [curValue EXCEPT ![j] = @ + 1]
    /\ Goto(j, t, "idle")
    /\ ExitMonitor(j)
    /\ UNCHANGED <<counter, maxCacheValue, reply>>

\* JVM j dies and is started again; Redis keeps the counter.
Restart(j) ==
    /\ curValue' = [curValue EXCEPT ![j] = 0]
    /\ maxCacheValue' = [maxCacheValue EXCEPT ![j] = 0]
    /\ monitor' = [monitor EXCEPT ![j] = NoThread]
    /\ pc' = [pc EXCEPT ![j] = FreshPc]
    /\ UNCHANGED <<counter, reply, issued>>

Next ==
    \E j \in Jvm :
        \/ Restart(j)
        \/ \E t \in Thread :
              \/ Enter(j, t)
              \/ RedisAdds(j, t)
              \/ FetchReturns(j, t)
              \/ FetchThrows(j, t)
              \/ Take(j, t)

Spec == Init /\ [][Next]_vars

-----------------------------------------------------------------------------
TypeOK ==
    /\ counter \in 0 .. MaxCounter
    /\ curValue \in [Jvm -> Nat]
    /\ maxCacheValue \in [Jvm -> Nat]
    /\ monitor \in [Jvm -> Thread \cup {NoThread}]
    /\ pc \in [Jvm -> [Thread -> PC]]
    /\ reply \in [Jvm -> [Thread -> Nat]]
    /\ issued \in [Jvm -> Seq(Nat)]

\* The identifiers the counter can grant within the bound.
Id == 0 .. MaxCounter

Ids == INSTANCE DistributedIds WITH Client <- Jvm

\* No id is returned twice, by one JVM or by two, whatever is lost and
\* whoever restarts: next() and fetchSegment() of NumberCacheSequence.
UniqueIds == Ids!UniqueIds

\* The ids one JVM returns grow, across its threads, segments and restarts.
IncreasingIds == Ids!IncreasingIds

\* next() is the abstract "issue an unused id": nothing else is observable.
RefinesDistributedIds == Ids!Spec

-----------------------------------------------------------------------------
(***************************************************************************)
(* Why the ids are unique: what a JVM holds, in its cache or in a reply it *)
(* has not read yet, was granted to it alone and has not been returned.    *)
(***************************************************************************)
Cached(j, id) == curValue[j] <= id /\ id < maxCacheValue[j]
InReply(j, t, id) ==
    /\ pc[j][t] = "replied"
    /\ reply[j][t] <= id
    /\ id < reply[j][t] + Period
Holds(j, id) == Cached(j, id) \/ \E t \in Thread : InReply(j, t, id)

\* A thread is inside next() exactly when it has the monitor, and it returns
\* from the cache only an id that is there.
MonitorInv ==
    \A j \in Jvm, t \in Thread :
        /\ pc[j][t] # "idle" <=> monitor[j] = t
        /\ pc[j][t] = "take" => Cached(j, curValue[j])

\* Nothing at or beyond the counter is held or has been returned.
GrantedInv ==
    \A j \in Jvm :
        /\ maxCacheValue[j] <= counter
        /\ \A t \in Thread : pc[j][t] = "replied" => reply[j][t] + Period <= counter
        /\ \A n \in DOMAIN issued[j] : issued[j][n] < counter

\* What one JVM holds no other JVM holds or has returned, and it lies above
\* everything the JVM itself has returned.
ExclusiveInv ==
    \A j, k \in Jvm : \A id \in Id :
        Holds(j, id) =>
            /\ Holds(k, id) => j = k
            /\ \A n \in DOMAIN issued[k] :
                  /\ issued[k][n] # id
                  /\ j = k => issued[k][n] < id

IInv ==
    /\ TypeOK
    /\ MonitorInv
    /\ GrantedInv
    /\ ExclusiveInv
    /\ UniqueIds
    /\ IncreasingIds
=============================================================================
