--------------------------- MODULE DistributedLock --------------------------
(***************************************************************************)
(* What IDistributedLock promises the threads that call it: of those that  *)
(* are inside at most one still has the lock.  A thread whose lock was     *)
(* released under it (the automatic release that DEFAULT_TIMEOUT speaks    *)
(* of, an expired session) is inside without it: it has lapsed.  It is not *)
(* told, and it stays lapsed until it leaves.                              *)
(***************************************************************************)
CONSTANT Thread  \* the threads that call the lock, of all JVMs

VARIABLES inside,  \* the threads between lock() and their last unlock()
          lapsed   \* those of them whose lock was released under them

Init == inside = {} /\ lapsed = {}

\* lock() or tryLock() lets t in: nobody inside has the lock.
Enter(t) ==
    /\ t \notin inside
    /\ inside \ lapsed = {}
    /\ inside' = inside \cup {t}
    /\ UNCHANGED lapsed

\* unlock(), or the end of the JVM of t.
Leave(t) ==
    /\ t \in inside
    /\ inside' = inside \ {t}
    /\ lapsed' = lapsed \ {t}

\* The lock of t is released although t is inside.
Lapse(t) ==
    /\ t \in inside \ lapsed
    /\ lapsed' = lapsed \cup {t}
    /\ UNCHANGED inside

Next == \E t \in Thread : Enter(t) \/ Leave(t) \/ Lapse(t)

Spec == Init /\ [][Next]_<<inside, lapsed>>

\* Two threads that are inside and have not lapsed are one thread.
Exclusion == \A t, u \in inside \ lapsed : t = u
=============================================================================
