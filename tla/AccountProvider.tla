--------------------------- MODULE AccountProvider --------------------------
(***************************************************************************)
(* web-api-provider: AccountApi over one table.  Every write is one        *)
(* statement; list() is two, a count and a select, with no transaction     *)
(* around them.  An exception is answered by GlobalExceptionHandler, with  *)
(* HTTP status 200 and code 0.                                             *)
(*                                                                         *)
(* A request is a record in the sequence requests and stays there: phase   *)
(* is how far the provider is with it, told what its client has seen of    *)
(* it.  The provider serves requests in any order, and also those whose    *)
(* clients have given up.                                                  *)
(***************************************************************************)
EXTENDS Integers, Sequences, FiniteSetsExt, FiniteSets

CONSTANTS Account,     \* what the fields of an account can be
          Gone,        \* (no Account) a row that was deleted
          FirstRows,   \* the table at the start
          PageSizes,   \* the page sizes a client can ask for
          MaxCalls     \* bound: once that many requests were sent, no client starts
                       \* another; the page's own reloads come on top

ASSUME RowsAssumption == Gone \notin Account /\ FirstRows \in Seq(Account)
ASSUME SizesAssumption ==
    /\ PageSizes \subseteq Nat \ {0}
    /\ \E least, most \in PageSizes : \A size \in PageSizes : size \in least .. most
ASSUME CallsAssumption == MaxCalls \in Nat

VARIABLES rows,      \* rows[id], the row of that id (AUTO increment)
          requests,  \* the requests sent to the provider, oldest first
          writes     \* how many statements have written so far

providerVars == <<rows, requests, writes>>

CODE_SUCCESS == 1
CODE_SYSTEM_ERROR == 0

Reads == {"list"}
Writes == {"add", "update", "delete"}

Live == {id \in DOMAIN rows : rows[id] # Gone}
Row == [id : Nat, account : Account]

Rank(id) == Cardinality({other \in Live : other >= id})

\* A defect: the page is not cut at its end.
PageUnlimited(pageNo, pageSize) ==
    LET ids == {id \in Live : Rank(id) > (pageNo - 1) * pageSize}
        nth(i) == CHOOSE id \in ids : Cardinality({other \in ids : other >= id}) = i
    IN  [i \in 1 .. Cardinality(ids) |-> [id |-> nth(i), account |-> rows[nth(i)]]]

\* "order by id desc", and the limit the PaginationInterceptor adds.
Page(pageNo, pageSize) ==
    LET ids == {id \in Live : Rank(id) - (pageNo - 1) * pageSize \in 1 .. pageSize}
        nth(i) == CHOOSE id \in ids : Cardinality({other \in ids : other >= id}) = i
    IN  [i \in 1 .. Cardinality(ids) |-> [id |-> nth(i), account |-> rows[nth(i)]]]

\* A request as it leaves its client.
Request(by, op, id, account, page) ==
    [by |-> by, op |-> op, id |-> id, account |-> account, page |-> page,
     phase |-> "sent", told |-> "waiting",
     code |-> CODE_SUCCESS, at |-> 0, total |-> 0, records |-> <<>>]

\* The answer has reached its client, which keeps what it wants of it.
Told(k) == [requests EXCEPT ![k].told = "answer", ![k].total = 0, ![k].records = <<>>]

\* The client stops waiting.  What the provider goes on to do is of no
\* consequence for a list, and of every consequence for a write.
GivenUp(k) == [requests EXCEPT ![k] =
                 IF @.op \in Writes THEN [@ EXCEPT !.told = "error"]
                 ELSE [@ EXCEPT !.told = "error", !.phase = "answered", !.total = 0,
                                !.records = <<>>, !.at = 0, !.code = CODE_SYSTEM_ERROR]]

Send(r) == requests' = Append(requests, r)

\* A defect: saveOrUpdate instead of updateById: an update brings back a deleted row.
EffectUpsert(r) ==
    IF r.op = "add" THEN Append(rows, r.account)
    ELSE IF r.id \notin DOMAIN rows THEN rows
    ELSE [rows EXCEPT ![r.id] = IF r.op = "update" THEN r.account ELSE Gone]

\* What save, updateById and removeById do to the table.  The last two touch
\* no row when there is none of that id, and nobody looks at their result.
Effect(r) ==
    IF r.op = "add" THEN Append(rows, r.account)
    ELSE IF r.id \notin Live THEN rows
    ELSE [rows EXCEPT ![r.id] = IF r.op = "update" THEN r.account ELSE Gone]

-----------------------------------------------------------------------------
ProviderInit == rows = FirstRows /\ writes = 0

\* add(), update() and delete(): one statement, committed by itself.  The
\* connection can break after that, and the answer is an error even so.  A row
\* without fields is refused (NOT NULL), which leaves it to Throw.  The code
\* of an answer nobody waits for does not matter.
Write(k) ==
    LET r == requests[k]
    IN  /\ r.phase = "sent" /\ r.op \in Writes
        /\ r.account = Gone => r.op = "delete"
        /\ rows' = Effect(r)
        /\ writes' = writes + 1
        /\ \E code \in IF r.told = "waiting" THEN {CODE_SUCCESS, CODE_SYSTEM_ERROR}
                       ELSE {CODE_SYSTEM_ERROR} :
             requests' = [requests EXCEPT ![k].phase = "answered", ![k].code = code,
                                          ![k].at = writes',
                                          ![k].id = IF r.op = "add" THEN Len(rows') ELSE @]

\* list(), first statement.  Nothing counted, nothing is selected.
Count(k) ==
    /\ requests[k].phase = "sent" /\ requests[k].op = "list"
    /\ requests' = [requests EXCEPT ![k].total = Cardinality(Live), ![k].at = writes,
                                    ![k].phase = IF Live = {} THEN "answered" ELSE "counted"]
    /\ UNCHANGED <<rows, writes>>

\* list(), second statement.
Select(k) ==
    /\ requests[k].phase = "counted"
    /\ requests' = [requests EXCEPT ![k].phase = "answered",
                                    ![k].records = Page(requests[k].page[1], requests[k].page[2])]
    /\ UNCHANGED <<rows, writes>>

\* A statement fails and GlobalExceptionHandler answers.  (When nobody waits
\* for the answer, that is a request never served.)
Throw(k) ==
    /\ requests[k].told = "waiting"
    /\ requests[k].phase \in {"sent", "counted"}
    /\ requests' = [requests EXCEPT ![k].phase = "answered", ![k].code = CODE_SYSTEM_ERROR,
                                    ![k].at = 0, ![k].total = 0]
    /\ UNCHANGED <<rows, writes>>

ProviderStep == \E k \in DOMAIN requests : Write(k) \/ Count(k) \/ Select(k) \/ Throw(k)

-----------------------------------------------------------------------------
Requests ==
    [by : {"page", "consumer"}, op : Reads \union Writes, id : Nat,
     account : Account \union {Gone}, page : Nat \X Nat,
     phase : {"sent", "counted", "answered"}, told : {"waiting", "answer", "error"},
     code : {CODE_SUCCESS, CODE_SYSTEM_ERROR}, at : Nat, total : Nat,
     records : Seq(Row)]

\* The writes that were executed.
Written == {k \in DOMAIN requests : requests[k].op \in Writes /\ requests[k].at > 0}

\* The state is well formed: no page is longer than it was asked to be, every
\* write is that of one served request, and only answers are told.
ProviderTypeOK ==
    /\ rows \in Seq(Account \union {Gone})
    /\ requests \in Seq(Requests)
    /\ writes \in Nat /\ writes = Cardinality(Written)
    /\ \A k \in DOMAIN requests :
         /\ requests[k].op = "list" => Len(requests[k].records) <= requests[k].page[2]
         /\ requests[k].told = "answer" => requests[k].phase = "answered"
         /\ requests[k].phase # "answered" => requests[k].records = << >>

\* The row that write k has left is as k left it, or a later write has changed it.
Kept(k) ==
    LET r == requests[k]
    IN  \/ r.id \notin Live /\ r.op # "add"
        \/ /\ r.op # "delete" /\ r.id \in DOMAIN rows
           /\ \/ rows[r.id] = r.account
              \/ \E j \in Written : requests[j].id = r.id /\ requests[j].at > r.at

\* A write that was answered with success is in the table: a deleted account
\* stays deleted, whatever is sent later for it, and an added or updated one
\* has the fields it was given until a later write to it.  (An update of an
\* account that is gone is answered with success as well and does nothing.)
SuccessKept ==
    \A k \in DOMAIN requests :
        /\ requests[k].told = "answer" /\ requests[k].code = CODE_SUCCESS
        /\ requests[k].op \in Writes
        => Kept(k)

\* Ids are those of rows there are or were, so no write is for a row to come.
IdsInv ==
    \A k \in DOMAIN requests :
        /\ requests[k].id <= Len(rows)
        /\ \A i \in DOMAIN requests[k].records : requests[k].records[i].id \in DOMAIN rows

\* A write is executed once, when it is served, and its success is kept from
\* then on, before anybody is told of it.
WritesInv ==
    \A k \in DOMAIN requests :
        /\ requests[k].at <= writes
        /\ requests[k].op \in Writes =>
              /\ requests[k].phase # "counted"
              /\ requests[k].phase = "sent" => requests[k].at = 0
              /\ requests[k].phase = "answered" /\ requests[k].code = CODE_SUCCESS => Kept(k)

\* Until the next write, a list that is begun is that of the table.
ReadsInv ==
    \A k \in DOMAIN requests : LET r == requests[k] IN
        /\ r.op = "list" /\ r.told = "waiting" /\ r.code = CODE_SUCCESS
        /\ r.phase # "sent" /\ r.at = writes
        => /\ r.total = Cardinality(Live)
           /\ r.phase = "answered" => r.records = Page(r.page[1], r.page[2])

\* The first n writes, as far as they were for row id.
WritesTo(id, n) == {k \in Written : requests[k].id = id /\ requests[k].at <= n}

\* The table has had this row at some moment since its first n writes: as it was
\* at the start, if none of them was for it, or as an add or update left it that is
\* not older than any of them, and that no delete came before.
HadSince(row, n) ==
    \/ /\ row.id \in DOMAIN FirstRows /\ row.account = FirstRows[row.id]
       /\ WritesTo(row.id, n) = {}
    \/ \E k \in Written :
         /\ requests[k].id = row.id /\ requests[k].account = row.account
         /\ \A m \in WritesTo(row.id, n) : requests[m].at <= requests[k].at
         /\ \A m \in WritesTo(row.id, requests[k].at) : requests[m].op # "delete"

\* The table has what the last write to a row has left, and an answer under way has
\* rows the table has had since the list was begun.
VersionsInv ==
    /\ \A id \in Live : HadSince([id |-> id, account |-> rows[id]], writes)
    /\ \A k \in DOMAIN requests : \A i \in DOMAIN requests[k].records :
          HadSince(requests[k].records[i], requests[k].at)

ProviderInv == ProviderTypeOK /\ IdsInv /\ WritesInv /\ ReadsInv
=============================================================================
