------------------------------ MODULE RedisLock -----------------------------
(***************************************************************************)
(* RedisLock: a reentrant lock of Redisson with a lease.  lock(),          *)
(* tryLock() and tryLock(timeout) all wait until Redis grants the lock and *)
(* give it a lease; unlock() is refused to a thread that does not hold it. *)
(* A call is broken where Redis executes its script and where the answer   *)
(* comes back or is lost.                                                  *)
(***************************************************************************)
EXTENDS Integers

CONSTANTS Thread,     \* the threads that call the lock, of all JVMs
          NoOne,      \* the key is not in Redis
          Dead,       \* the key belongs to a thread of a JVM that has died
          Lease,      \* the leases: DEFAULT_TIMEOUT, timeouts of tryLock
          Watchdog,   \* the lease after a partial unlock (30 s in Redisson)
          MaxCalls,   \* bound: the calls that lock, of one thread
          MaxFaults   \* bound: lost answers and crashes

ASSUME LeaseAssumption == Lease \subseteq Nat \ {0} /\ Watchdog \in Nat \ {0}
ASSUME HolderAssumption == {NoOne, Dead} \cap Thread = {} /\ NoOne # Dead

VARIABLES holder,  \* the thread whose field is in the hash of lockKey
          count,   \* its value: how often that thread has locked
          ttl,     \* the time the key has left
          pc,      \* pc[t], where thread t is
          depth,   \* depth[t], locks its caller has and has not given back
          lapsed,  \* the threads inside whose lock was released under them
          calls,   \* calls[t], how often t has called to lock
          faults   \* how many faults there were

keyVars == <<holder, count, ttl>>
vars == <<keyVars, pc, depth, lapsed, calls, faults>>

PC == {"idle",     \* outside the lock's methods
       "lock",     \* waiting for Redis to grant the lock
       "granted",  \* granted, the answer on its way
       "unlock"}   \* unlock() called, not yet executed by Redis

Init ==
    /\ holder = NoOne /\ count = 0 /\ ttl = 0
    /\ pc = [t \in Thread |-> "idle"]
    /\ depth = [t \in Thread |-> 0]
    /\ lapsed = {}
    /\ calls = [t \in Thread |-> 0]
    /\ faults = 0

Inside == {t \in Thread : depth[t] > 0 \/ pc[t] = "granted"}

Goto(t, from, to) == pc[t] \in from /\ pc' = [pc EXCEPT ![t] = to]

\* One of the bounded number of faults.
Fault == faults < MaxFaults /\ faults' = faults + 1

SetKey(h, n, time) == holder' = h /\ count' = n /\ ttl' = time
FreeKey == SetKey(NoOne, 0, 0)

-----------------------------------------------------------------------------
\* lock(), tryLock() or tryLock(timeout) is called.
LockCall(t) ==
    /\ calls[t] < MaxCalls
    /\ calls' = [calls EXCEPT ![t] = @ + 1]
    /\ Goto(t, {"idle"}, "lock")
    /\ UNCHANGED <<keyVars, depth, lapsed, faults>>

\* A defect: lock() without a lease, which Redisson keeps alive.
GrantForever(t) ==
    /\ Goto(t, {"lock"}, "granted")
    /\ \/ holder = t /\ SetKey(t, count + 1, 0)
       \/ holder = NoOne /\ SetKey(t, 1, 0)
    /\ UNCHANGED <<depth, lapsed, calls, faults>>

\* A defect: a thread that locks again is not counted.
GrantUncounted(t) ==
    /\ Goto(t, {"lock"}, "granted")
    /\ holder \in {t, NoOne}
    /\ \E lease \in Lease : SetKey(t, 1, lease)
    /\ UNCHANGED <<depth, lapsed, calls, faults>>

\* Redis grants the lock to t, again if t holds it; either way the key gets
\* the lease of this call.
Grant(t) ==
    /\ Goto(t, {"lock"}, "granted")
    /\ \E lease \in Lease :
        \/ holder = t /\ SetKey(t, count + 1, lease)
        \/ holder = NoOne /\ SetKey(t, 1, lease)
    /\ UNCHANGED <<depth, lapsed, calls, faults>>

LockReturns(t) ==
    /\ Goto(t, {"granted"}, "idle")
    /\ depth' = [depth EXCEPT ![t] = @ + 1]
    /\ UNCHANGED <<keyVars, lapsed, calls, faults>>

\* A thread that is no longer inside is no longer lapsed.
Forget(t, inside) == lapsed' = IF inside THEN lapsed ELSE lapsed \ {t}

\* The request or its answer is lost: lock() throws, tryLock() answers false.
\* A lock that was granted stays in Redis until its lease ends.
LockThrows(t) ==
    /\ Fault
    /\ Goto(t, {"lock", "granted"}, "idle")
    /\ Forget(t, depth[t] > 0)
    /\ UNCHANGED <<keyVars, depth, calls>>

\* unlock() is called, also by callers that never got the lock (a finally).
UnlockCall(t) ==
    /\ Goto(t, {"idle"}, "unlock")
    /\ depth' = [depth EXCEPT ![t] = IF @ > 0 THEN @ - 1 ELSE 0]
    /\ Forget(t, depth[t] > 1)
    /\ UNCHANGED <<keyVars, calls, faults>>

\* A defect: unlock() deletes the key, whoever holds it.
UnlockAnybody(t) ==
    /\ Goto(t, {"unlock"}, "idle")
    /\ FreeKey
    /\ UNCHANGED <<depth, lapsed, calls, faults>>

\* Redis executes unlock(): it takes one lock of t back and renews the lease
\* of what is left, or frees the key, or refuses (unlock() then throws).
Unlock(t) ==
    /\ Goto(t, {"unlock"}, "idle")
    /\ \/ holder = t /\ count > 1 /\ SetKey(t, count - 1, Watchdog)
       \/ holder = t /\ count = 1 /\ FreeKey
       \/ holder # t /\ UNCHANGED keyVars
    /\ UNCHANGED <<depth, lapsed, calls, faults>>

\* unlock() throws before Redis has executed it.
UnlockLost(t) ==
    /\ Fault
    /\ Goto(t, {"unlock"}, "idle")
    /\ UNCHANGED <<keyVars, depth, lapsed, calls>>

-----------------------------------------------------------------------------
\* Time passes; at the end of its lease the key goes, and with it the lock of
\* a thread that may still be inside.
Tick ==
    /\ ttl > 0
    /\ IF ttl > 1
       THEN SetKey(holder, count, ttl - 1) /\ UNCHANGED lapsed
       ELSE FreeKey /\ lapsed' = lapsed \cup (Inside \cap {holder})
    /\ UNCHANGED <<pc, depth, calls, faults>>

\* The JVM of t dies and is started again; its threads get new names, and the
\* key of the old one stays.
Crash(t) ==
    /\ Fault
    /\ pc' = [pc EXCEPT ![t] = "idle"]
    /\ depth' = [depth EXCEPT ![t] = 0]
    /\ lapsed' = lapsed \ {t}
    /\ holder' = IF holder = t THEN Dead ELSE holder
    /\ UNCHANGED <<count, ttl, calls>>

\* What a thread does in its JVM or has Redis do for it.
Step(t) == LockCall(t) \/ Grant(t) \/ LockReturns(t) \/ LockThrows(t)
               \/ UnlockCall(t) \/ Unlock(t) \/ UnlockLost(t)

Next == Tick \/ \E t \in Thread : Step(t) \/ Crash(t)

Spec == Init /\ [][Next]_vars

\* Time passes and Redis answers.
Fairness ==
    /\ WF_vars(Tick)
    /\ \A t \in Thread :
        WF_vars(Grant(t)) /\ WF_vars(LockReturns(t)) /\ WF_vars(Unlock(t))

-----------------------------------------------------------------------------
TypeOK ==
    /\ holder \in Thread \cup {NoOne, Dead}
    /\ count \in Nat /\ ttl \in Nat
    /\ pc \in [Thread -> PC]
    /\ depth \in [Thread -> Nat]
    /\ lapsed \subseteq Inside
    /\ calls \in [Thread -> Nat] /\ faults \in Nat

\* The locks t is to have in Redis, counted on the side of t.
Owed(t) == depth[t] + IF pc[t] = "granted" \/ (pc[t] = "unlock" /\ depth[t] > 0)
                      THEN 1 ELSE 0

\* The inductive invariant: Redis never counts fewer locks of a thread than
\* the thread has, or the last unlock but one would let another thread in.
IInv ==
    /\ TypeOK
    /\ holder \in Thread => count > 0 /\ ttl > 0
    /\ holder = NoOne => ttl = 0
    /\ \A t \in Inside \ lapsed : holder = t /\ count >= Owed(t)

\* A thread that is inside and whose lease has not ended is alone: no unlock
\* of another, lost answer or late caller lets a second one in.
Exclusion == \A t, u \in Inside \ lapsed : t = u

\* RedisLock is a distributed lock with a lease.
AbstractLock == INSTANCE DistributedLock WITH inside <- Inside
RefinesDistributedLock == AbstractLock!Spec
=============================================================================
