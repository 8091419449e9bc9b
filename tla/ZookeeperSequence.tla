-------------------------- MODULE ZookeeperSequence --------------------------
(***************************************************************************)
(* ZookeeperSequence: every next() creates a sequential node, whose number *)
(* ZooKeeper takes from a counter of the parent, and hands the pool thread *)
(* of its JVM the task to delete all nodes with smaller numbers.           *)
(*                                                                         *)
(* next() is not synchronized, so the client of DistributedIds is a        *)
(* calling thread.  The parent is the node of ZookeeperSequencePro of the  *)
(* same name; its children "locks" and "leases" never start with the       *)
(* prefix of a sequential node and are left out.                           *)
(***************************************************************************)
EXTENDS Integers, Sequences

CONSTANTS Jvm,       \* the JVMs, one object and one pool thread each
          Caller,    \* the threads that call next()
          Home,      \* Home[c], the JVM of thread c
          MaxNumber, \* bound: ZooKeeper gives no number beyond it
          MaxFaults  \* bound: passes that fail and JVMs that restart

ASSUME HomeAssumption == Home \in [Caller -> Jvm]
ASSUME BoundsAssumption == MaxNumber \in Nat /\ MaxFaults \in Nat

VARIABLES number,  \* the counter of the parent: the next sequential node
          nodes,   \* the sequential nodes that exist
          up,      \* the JVMs whose object is constructed
          pc,      \* pc[c], where thread c is
          reply,   \* reply[c], the number of the node it has created
          queue,   \* queue[j], the tasks of the pool, by the id of their call
          doomed,  \* doomed[j], the rest of the list the task at work goes through
          issued,  \* issued[c], the ids next() returned to c
          aborted, \* the JVMs a pass of which ended early: a node was gone already
          faults   \* passes that failed, JVMs that restarted

callVars == <<pc, reply, issued>>
poolVars == <<queue, doomed>>
vars == <<number, nodes, up, callVars, poolVars, aborted, faults>>

PC == {"idle", "create", "created"}

\* Nothing to delete: the pool thread is between two tasks.
None == {}

Init ==
    /\ number = 0
    /\ nodes = {}
    /\ up = {}
    /\ pc = [c \in Caller |-> "idle"]
    /\ reply = [c \in Caller |-> 0]
    /\ queue = [j \in Jvm |-> << >>]
    /\ doomed = [j \in Jvm |-> None]
    /\ issued = [c \in Caller |-> << >>]
    /\ aborted = {}
    /\ faults = 0

Goto(c, label) == pc' = [pc EXCEPT ![c] = label]
Leave(c, label) ==
    /\ Goto(c, label)
    /\ reply' = [reply EXCEPT ![c] = 0]
Fault == faults < MaxFaults /\ faults' = faults + 1

\* ZooKeeper executes a create of mode PERSISTENT_SEQUENTIAL.
CreateSequential ==
    /\ number <= MaxNumber
    /\ nodes' = nodes \cup {number}
    /\ number' = number + 1

-----------------------------------------------------------------------------
\* The constructor creates a node of its own, to skip the number 0.
Construct(j) ==
    /\ j \notin up
    /\ CreateSequential
    /\ up' = up \cup {j}
    /\ UNCHANGED <<callVars, poolVars, aborted, faults>>

\* The create of the constructor fails, which is swallowed.
ConstructFails(j) ==
    /\ j \notin up
    /\ up' = up \cup {j}
    /\ UNCHANGED <<number, nodes, callVars, poolVars, aborted, faults>>

\* next(): the request leaves for ZooKeeper.
Enter(c) ==
    /\ Home[c] \in up
    /\ pc[c] = "idle"
    /\ Goto(c, "create")
    /\ UNCHANGED <<number, nodes, up, reply, issued, poolVars, aborted, faults>>

\* A defect: a retried create takes whatever node it finds for its own.
CreateFindsAny(c) ==
    /\ pc[c] = "create"
    /\ CreateSequential
    /\ \E p \in nodes' : reply' = [reply EXCEPT ![c] = p]
    /\ Goto(c, "created")
    /\ UNCHANGED <<up, issued, poolVars, aborted, faults>>

\* ZooKeeper executes the create of the call and takes the next number.
Create(c) ==
    /\ pc[c] = "create"
    /\ CreateSequential
    /\ reply' = [reply EXCEPT ![c] = number]
    /\ Goto(c, "created")
    /\ UNCHANGED <<up, issued, poolVars, aborted, faults>>

\* The connection is lost before or after the create, and Curator retries it:
\* ZooKeeper may create a second node.
Retry(c) ==
    /\ pc[c] = "created"
    /\ Leave(c, "create")
    /\ UNCHANGED <<number, nodes, up, issued, poolVars, aborted, faults>>

\* The retries are used up: next() throws, whether there is a node or not.
Throw(c) ==
    /\ pc[c] \in {"create", "created"}
    /\ Leave(c, "idle")
    /\ UNCHANGED <<number, nodes, up, issued, poolVars, aborted, faults>>

\* A defect: the cleaner is handed over and next() counts on its own.
ReturnNext(c) ==
    /\ pc[c] = "created"
    /\ issued' = [issued EXCEPT ![c] = Append(@, number)]
    /\ queue' = [queue EXCEPT ![Home[c]] = Append(@, reply[c])]
    /\ Leave(c, "idle")
    /\ UNCHANGED <<number, nodes, up, doomed, aborted, faults>>

\* The path arrives: next() queues its task and returns the number.
Return(c) ==
    /\ pc[c] = "created"
    /\ issued' = [issued EXCEPT ![c] = Append(@, reply[c])]
    /\ queue' = [queue EXCEPT ![Home[c]] = Append(@, reply[c])]
    /\ Leave(c, "idle")
    /\ UNCHANGED <<number, nodes, up, doomed, aborted, faults>>

\* Defects: the node of the call is deleted too; the task deletes its
\* immediate predecessor only.
OlderOrSame(num) == {p \in nodes : p <= num}
Predecessor(num) == {p \in nodes : p = num - 1}

\* The children a task deletes.
Older(num) == {p \in nodes : p < num}

\* The pool thread takes the next task: getChildren, and what it will delete.
List(j) ==
    /\ queue[j] # << >>
    /\ doomed[j] = None
    /\ doomed' = [doomed EXCEPT ![j] = Older(Head(queue[j]))]
    /\ queue' = [queue EXCEPT ![j] = Tail(@)]
    /\ UNCHANGED <<number, nodes, up, callVars, aborted, faults>>

\* One delete.  The order of getChildren is ZooKeeper's.
Delete(j) ==
    \E p \in doomed[j] \cap nodes :
        /\ nodes' = nodes \ {p}
        /\ doomed' = [doomed EXCEPT ![j] = @ \ {p}]
        /\ UNCHANGED <<number, up, callVars, queue, aborted, faults>>

\* A node of the list is gone: delete throws, and the pass ends there.
Abort(j) ==
    /\ doomed[j] \ nodes # {}
    /\ doomed' = [doomed EXCEPT ![j] = None]
    /\ aborted' = aborted \cup {j}
    /\ UNCHANGED <<number, nodes, up, callVars, queue, faults>>

\* getChildren or delete fails for another reason, which ends the pass too.
CleanFails(j) ==
    /\ doomed[j] # None
    /\ Fault
    /\ doomed' = [doomed EXCEPT ![j] = None]
    /\ UNCHANGED <<number, nodes, up, callVars, queue, aborted>>

\* JVM j dies; its threads, queued tasks and pass are gone.
Restart(j) ==
    /\ j \in up
    /\ Fault
    /\ up' = up \ {j}
    /\ pc' = [c \in Caller |-> IF Home[c] = j THEN "idle" ELSE pc[c]]
    /\ reply' = [c \in Caller |-> IF Home[c] = j THEN 0 ELSE reply[c]]
    /\ queue' = [queue EXCEPT ![j] = << >>]
    /\ doomed' = [doomed EXCEPT ![j] = None]
    /\ UNCHANGED <<number, nodes, issued, aborted>>

Next ==
    \/ \E j \in Jvm :
          \/ Construct(j)
          \/ ConstructFails(j)
          \/ List(j)
          \/ Delete(j)
          \/ Abort(j)
          \/ CleanFails(j)
          \/ Restart(j)
    \/ \E c \in Caller :
          \/ Enter(c)
          \/ Create(c)
          \/ Retry(c)
          \/ Throw(c)
          \/ Return(c)

Spec == Init /\ [][Next]_vars

-----------------------------------------------------------------------------
Id == 0 .. MaxNumber

TypeOK ==
    /\ number \in 0 .. MaxNumber + 1
    /\ nodes \subseteq Id
    /\ up \subseteq Jvm
    /\ pc \in [Caller -> PC]
    /\ reply \in [Caller -> Id]
    /\ queue \in [Jvm -> Seq(Id)]
    /\ doomed \in [Jvm -> SUBSET Id]
    /\ issued \in [Caller -> Seq(Id)]
    /\ aborted \subseteq Jvm
    /\ faults \in 0 .. MaxFaults

Ids == INSTANCE DistributedIds WITH Client <- Caller

\* No two calls of next(), by any threads of any JVMs, return the same id,
\* although creates are retried and nodes are deleted under them.
UniqueIds == Ids!UniqueIds

\* The ids returned to one thread grow.
IncreasingIds == Ids!IncreasingIds

\* next() is the abstract "issue an unused id" to the calling thread.
RefinesDistributedIds == Ids!Spec

Idle ==
    /\ up = Jvm
    /\ \A c \in Caller : pc[c] = "idle"
    /\ \A j \in Jvm : queue[j] = << >> /\ doomed[j] = None

\* Every call deletes the nodes before its own: when all calls and all tasks
\* are done, nothing older than the newest id that was issued is left.
CleanWhenIdle ==
    Idle => \A c \in Caller : \A n \in DOMAIN issued[c] :
                \A p \in nodes : p >= issued[c][n]

\* That is so as long as no pass failed, no JVM died and no two cleaners got in
\* each other's way; creates may be retried and calls may throw.
CleanUndisturbed == aborted = {} /\ faults = 0 => CleanWhenIdle

\* p is older than an id that some call has returned.
Outdated(p) == \E c \in Caller : \E n \in DOMAIN issued[c] : p < issued[c][n]

\* Even disturbed cleaners delete nothing but what is older than an id that a
\* call has returned, so the newest node stays until a newer one is there.
DeletedWereOlder ==
    \A p \in Id : p < number /\ p \notin nodes => Outdated(p)

-----------------------------------------------------------------------------
(***************************************************************************)
(* Why ids are unique and cleaners harmless: a number on its way to a      *)
(* caller is that caller's alone, and a task was queued by a call that has *)
(* returned.  Why undisturbed cleaners leave nothing: what is older than   *)
(* the id of a call is still to be deleted by the pool thread of its JVM.  *)
(***************************************************************************)
CreatedInv ==
    \A c, d \in Caller :
        pc[c] = "created" =>
            /\ reply[c] < number
            /\ pc[d] = "created" /\ reply[c] = reply[d] => c = d
            /\ \A n \in DOMAIN issued[d] :
                  issued[d][n] # reply[c] /\ (c = d => issued[d][n] < reply[c])

IssuedInv == \A c \in Caller : \A n \in DOMAIN issued[c] : issued[c][n] < number

TasksInv ==
    \A j \in Jvm :
        /\ \A n \in DOMAIN queue[j] : \A p \in Id : p < queue[j][n] => Outdated(p)
        /\ \A p \in doomed[j] : Outdated(p)

\* The pool thread of j has still to delete p, or to go through a task that will.
Covers(j, p) == p \in doomed[j] \/ \E n \in DOMAIN queue[j] : p < queue[j][n]

CoverInv ==
    aborted = {} /\ faults = 0 =>
        \A c \in Caller : \A n \in DOMAIN issued[c] :
            \A p \in nodes : p < issued[c][n] => Covers(Home[c], p)

IInv ==
    /\ TypeOK
    /\ CreatedInv
    /\ IssuedInv
    /\ TasksInv
    /\ CoverInv
    /\ DeletedWereOlder
    /\ UniqueIds
    /\ IncreasingIds
=============================================================================
