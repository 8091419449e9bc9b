---------------------------- MODULE RedisOrderNo ----------------------------
(***************************************************************************)
(* SequenceManager makes two sequences of the same name, REDIS_ORDER_NO    *)
(* (RedisSequence) and REDIS_CACHE_ORDER_NO (NumberCacheSequence), and     *)
(* both build the same Redis key from it: they count on one RAtomicLong.   *)
(***************************************************************************)
EXTENDS NumberCacheSequence

CONSTANT Caller  \* of RedisSequence

VARIABLES calling, plainReply, plainIssued

\* Both share the variable counter of RedisCounter.
Plain == INSTANCE RedisSequence WITH reply <- plainReply, issued <- plainIssued

plainVars == <<calling, plainReply, plainIssued>>
orderNoVars == <<vars, plainVars>>

OrderNoInit == Init /\ Plain!Init

OrderNoNext ==
    \/ Next /\ UNCHANGED plainVars
    \/ Plain!Next /\ UNCHANGED jvmVars

OrderNoSpec == OrderNoInit /\ [][OrderNoNext]_orderNoVars

-----------------------------------------------------------------------------
\* REDIS_ORDER_NO keeps the invariant behind its ids while the cached sequence
\* moves the counter between and under its calls (IInv says the same of the
\* cached sequence).
PlainIInv == Plain!IInv

\* REDIS_ORDER_NO implements DistributedIds on the shared counter.
PlainRefines == Plain!RefinesDistributedIds

\* The two conventions overlap in one number only: the last id of a run of
\* incrementAndGet calls is the first id of the segment granted next.
SharedIdStartsSegment ==
    \A j \in Jvm, c \in Caller :
        \A m \in DOMAIN issued[j], n \in DOMAIN plainIssued[c] :
            issued[j][m] = plainIssued[c][n] =>
                \A k \in Jvm : \A i \in DOMAIN issued[k] :
                    issued[k][i] # issued[j][m] - 1

-----------------------------------------------------------------------------
\* The numbers one JVM, or one caller of REDIS_ORDER_NO, has been granted.
Granted(j, id) == Holds(j, id) \/ \E n \in DOMAIN issued[j] : issued[j][n] = id
PlainGranted(c, id) ==
    \/ plainReply[c] = id /\ id # Plain!NoReply
    \/ \E n \in DOMAIN plainIssued[c] : plainIssued[c][n] = id

\* Why: who is answered id + 1 has moved the counter on from id, and no segment
\* that contains id can have done so.
ApartInv ==
    \A j \in Jvm, c \in Caller, id \in Id : Granted(j, id) => ~PlainGranted(c, id + 1)

OrderNoIInv ==
    /\ IInv
    /\ PlainIInv
    /\ ApartInv
=============================================================================
