--------------------------- MODULE DistributedIds ---------------------------
(***************************************************************************)
(* What every ISequence<Long> of SequenceManager promises its callers: a   *)
(* call of next() hands out an identifier that no call on any client has   *)
(* handed out before, and what has been handed out stays handed out.       *)
(*                                                                         *)
(* issued[c] is the sequence of identifiers client c has received so far,  *)
(* oldest first.  What a client is depends on the implementation: a JVM    *)
(* for the sequences whose next() is synchronized, a thread for those      *)
(* whose next() is not.                                                    *)
(***************************************************************************)
EXTENDS Naturals, Sequences

CONSTANTS Client,  \* the callers of next()
          Id       \* the identifiers that can be handed out

VARIABLE issued

IsIssued(id) == \E c \in Client : \E n \in DOMAIN issued[c] : issued[c][n] = id

Init == issued = [c \in Client |-> << >>]

\* One call of next() by client c returns id.
Issue(c, id) ==
    /\ ~IsIssued(id)
    /\ issued' = [issued EXCEPT ![c] = Append(@, id)]

Next == \E c \in Client, id \in Id : Issue(c, id)

Spec == Init /\ [][Next]_issued

TypeOK == issued \in [Client -> Seq(Id)]

\* No identifier is handed out twice, neither to one client nor to two.
UniqueIds ==
    \A c, d \in Client :
        \A m \in DOMAIN issued[c], n \in DOMAIN issued[d] :
            issued[c][m] = issued[d][n] => c = d /\ m = n

\* Every client sees its identifiers grow ("the next id", not just another).
IncreasingIds ==
    \A c \in Client :
        \A m, n \in DOMAIN issued[c] : m < n => issued[c][m] < issued[c][n]
=============================================================================
