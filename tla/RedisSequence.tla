--------------------------- MODULE RedisSequence ----------------------------
(***************************************************************************)
(* RedisSequence: every next() is one incrementAndGet of a Redis counter.  *)
(*                                                                         *)
(* next() is not synchronized, so the client of DistributedIds is a        *)
(* calling thread, of whichever JVM.  The call is broken in two: Redis     *)
(* executes the command, and its reply reaches the caller or is lost.      *)
(***************************************************************************)
EXTENDS RedisCounter, Sequences

CONSTANT Caller  \* the threads that call next()

VARIABLES calling,  \* the callers inside next()
          reply,    \* reply[c], the id on its way to c, or NoReply
          issued    \* issued[c], the ids next() returned to c

vars == <<counter, calling, reply, issued>>

\* The counter starts at 0 and is incremented first: no reply is 0.
NoReply == 0

Init ==
    /\ counter = 0
    /\ calling = {}
    /\ reply = [c \in Caller |-> NoReply]
    /\ issued = [c \in Caller |-> << >>]

Pending(c) == c \in calling /\ reply[c] = NoReply
Replied(c) == c \in calling /\ reply[c] # NoReply
Leave(c) ==
    /\ calling' = calling \ {c}
    /\ reply' = [reply EXCEPT ![c] = NoReply]

\* next(): the command leaves for Redis.
Enter(c) ==
    /\ c \notin calling
    /\ calling' = calling \cup {c}
    /\ UNCHANGED <<counter, reply, issued>>

\* A defect: a GET, with the increment left to a later SET that is lost.
RedisReads(c) ==
    /\ Pending(c)
    /\ counter < MaxCounter
    /\ reply' = [reply EXCEPT ![c] = counter + 1]
    /\ UNCHANGED <<counter, calling, issued>>

\* Redis executes the incrementAndGet of the call by c.
RedisIncrements(c) ==
    /\ Pending(c)
    /\ counter < MaxCounter
    /\ counter' = counter + 1
    /\ reply' = [reply EXCEPT ![c] = counter + 1]
    /\ UNCHANGED <<calling, issued>>

\* A defect: the value of the counter at the return is taken for the reply.
ReturnsCounter(c) ==
    /\ Replied(c)
    /\ issued' = [issued EXCEPT ![c] = Append(@, counter)]
    /\ Leave(c)
    /\ UNCHANGED counter

\* The reply arrives and next() returns it.
Returns(c) ==
    /\ Replied(c)
    /\ issued' = [issued EXCEPT ![c] = Append(@, reply[c])]
    /\ Leave(c)
    /\ UNCHANGED counter

\* The command or its reply is lost, or the JVM of the caller dies: the call
\* ends without an id.
Fails(c) ==
    /\ c \in calling
    /\ Leave(c)
    /\ UNCHANGED <<counter, issued>>

Next ==
    \E c \in Caller :
        \/ Enter(c)
        \/ RedisIncrements(c)
        \/ Returns(c)
        \/ Fails(c)

Spec == Init /\ [][Next]_vars

-----------------------------------------------------------------------------
Id == 1 .. MaxCounter

TypeOK ==
    /\ counter \in 0 .. MaxCounter
    /\ calling \subseteq Caller
    /\ reply \in [Caller -> Id \cup {NoReply}]
    /\ issued \in [Caller -> Seq(Id)]

Ids == INSTANCE DistributedIds WITH Client <- Caller

\* No two calls of next(), by any threads of any JVMs, return the same id.
UniqueIds == Ids!UniqueIds

\* The ids returned to one thread grow, although replies overtake each other.
IncreasingIds == Ids!IncreasingIds

\* next() is the abstract "issue an unused id" to the calling thread.
RefinesDistributedIds == Ids!Spec

-----------------------------------------------------------------------------
\* A reply on its way is an id that was granted to that call alone, above all
\* that its caller has received.
ReplyInv ==
    \A c, d \in Caller :
        reply[c] # NoReply =>
            /\ reply[c] <= counter
            /\ reply[c] = reply[d] => c = d
            /\ \A n \in DOMAIN issued[d] :
                  issued[d][n] # reply[c] /\ (c = d => issued[d][n] < reply[c])

IssuedInv == \A c \in Caller : \A n \in DOMAIN issued[c] : issued[c][n] <= counter

IInv ==
    /\ TypeOK
    /\ ReplyInv
    /\ IssuedInv
    /\ UniqueIds
    /\ IncreasingIds
=============================================================================
