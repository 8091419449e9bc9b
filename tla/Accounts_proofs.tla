--------------------------- MODULE Accounts_proofs --------------------------
(***************************************************************************)
(* The account service with both of its clients, for any accounts, table   *)
(* and bounds: a write answered with success stays in the table until a    *)
(* later write, a page that has settled shows the table, and at no time is *)
(* a row on the screen older than the list it came with.                   *)
(***************************************************************************)
EXTENDS Accounts, FiniteSetTheorems, TLAPS

\* The page starts with the smallest page size; the consumer asks for the largest.
LEMMA SizesBounds == Min(PageSizes) \in PageSizes /\ Max(PageSizes) \in PageSizes
<1>1. PICK least \in PageSizes, most \in PageSizes :
          \A size \in PageSizes : size \in least .. most
    BY SizesAssumption
<1>2. \A size \in PageSizes : least =< size /\ most >= size
    BY <1>1, SizesAssumption
<1> QED BY <1>2 DEF Min, Max

-----------------------------------------------------------------------------
\* The rank of an element of a finite set of integers, counted from the largest,
\* tells it apart from the others.
LEMMA RankType ==
    ASSUME NEW S, S \subseteq Int, IsFiniteSet(S), NEW x \in S
    PROVE  /\ IsFiniteSet({y \in S : y >= x})
           /\ Cardinality({y \in S : y >= x}) \in 1 .. Cardinality(S)
           /\ Cardinality(S) \in Nat
<1> DEFINE up == {y \in S : y >= x}
<1>1. up \in SUBSET S /\ x \in up
    OBVIOUS
<1> HIDE DEF up
<1>2. IsFiniteSet(up) /\ Cardinality(up) <= Cardinality(S)
    BY <1>1, FS_Subset
<1>3. Cardinality(up) \in Nat /\ Cardinality(up) # 0 /\ Cardinality(S) \in Nat
    BY <1>1, <1>2, FS_CardinalityType, FS_EmptySet
<1>4. IsFiniteSet(up) /\ Cardinality(up) \in 1 .. Cardinality(S) /\ Cardinality(S) \in Nat
    BY <1>2, <1>3
<1> QED BY <1>4 DEF up

LEMMA RankDistinct ==
    ASSUME NEW S, S \subseteq Int, IsFiniteSet(S), NEW x \in S, NEW z \in S, x < z
    PROVE  Cardinality({y \in S : y >= x}) # Cardinality({y \in S : y >= z})
<1> DEFINE up(v) == {y \in S : y >= v}
<1>1. /\ \A y \in up(z) : y \in up(x)
      /\ x \in up(x) /\ x \notin up(z)
    OBVIOUS
<1>2. IsFiniteSet(up(x))
    BY RankType
<1>3. up(x) # up(z) /\ up(z) \in SUBSET up(x)
    BY <1>1, Zenon
<1> HIDE DEF up
<1>4. Cardinality(up(x)) # Cardinality(up(z))
    BY <1>2, <1>3, FS_Subset
<1> QED BY <1>4 DEF up

\* And there is an element of every rank.
LEMMA RankOnto ==
    ASSUME NEW S, S \subseteq Int, IsFiniteSet(S), NEW i \in 1 .. Cardinality(S)
    PROVE  \E x \in S : Cardinality({y \in S : y >= x}) = i
<1> DEFINE rank == [x \in S |-> Cardinality({y \in S : y >= x})]
<1>1. Cardinality(S) \in Nat
    BY FS_CardinalityType
<1>2. rank \in Injection(S, 1 .. Cardinality(S))
    <2>1. rank \in [S -> 1 .. Cardinality(S)]
        BY RankType
    <2>2. ASSUME NEW x \in S, NEW z \in S, x # z PROVE rank[x] # rank[z]
        <3>1. x < z \/ z < x
            BY <2>2
        <3> QED BY <3>1, RankDistinct
    <2> HIDE DEF rank
    <2> QED BY <2>1, <2>2 DEF Injection, IsInjective
<1>3. /\ IsFiniteSet(1 .. Cardinality(S))
      /\ Cardinality(1 .. Cardinality(S)) = Cardinality(S)
    BY <1>1, FS_Interval
<1>4. rank \in Surjection(S, 1 .. Cardinality(S))
    <2> HIDE DEF rank
    <2> QED BY <1>2, <1>3, FS_Injection
<1>5. PICK x \in S : rank[x] = i
    <2> HIDE DEF rank
    <2> QED BY <1>4 DEF Surjection
<1> QED BY <1>5

-----------------------------------------------------------------------------
\* The rows that are there are finitely many.
LEMMA LiveFinite ==
    ASSUME rows \in Seq(Account \union {Gone})
    PROVE  /\ IsFiniteSet(Live) /\ Cardinality(Live) \in Nat
           /\ Live \subseteq 1 .. Len(rows)
<1>1. Live \in SUBSET (1 .. Len(rows)) /\ Len(rows) \in Nat
    BY DEF Live
<1>2. IsFiniteSet(1 .. Len(rows))
    BY <1>1, FS_Interval
<1>3. IsFiniteSet(Live)
    BY <1>1, <1>2, FS_Subset
<1> QED BY <1>1, <1>3, FS_CardinalityType

\* A page is a sequence of rows that are there, and no longer than was asked for.
LEMMA PageProperties ==
    ASSUME rows \in Seq(Account \union {Gone}), NEW no \in Nat, NEW size \in Nat
    PROVE  /\ Page(no, size) \in Seq(Row)
           /\ Len(Page(no, size)) <= size
           /\ \A i \in DOMAIN Page(no, size) :
                 \E id \in Live : Page(no, size)[i] = [id |-> id, account |-> rows[id]]
           /\ \A i \in DOMAIN Page(no, size) : Page(no, size)[i].id \in Live
           /\ Live = {} => Page(no, size) = << >>
<1> DEFINE skip == (no - 1) * size
           ids == {id \in Live : Rank(id) - skip \in 1 .. size}
           nth(i) == CHOOSE id \in ids : Cardinality({other \in ids : other >= id}) = i
<1>1. Page(no, size) = [i \in 1 .. Cardinality(ids) |-> [id |-> nth(i), account |-> rows[nth(i)]]]
    BY DEF Page
<1>2. skip \in Int
    OBVIOUS
<1> HIDE DEF skip
<1>3. Live \subseteq Int /\ IsFiniteSet(Live) /\ Live \subseteq DOMAIN rows
    BY LiveFinite
<1>4. ids \in SUBSET Live
    OBVIOUS
<1>5. IsFiniteSet(ids) /\ Cardinality(ids) \in Nat /\ ids \subseteq Int
    <2> HIDE DEF ids
    <2> QED BY <1>3, <1>4, FS_Subset, FS_CardinalityType
<1>6. Cardinality(ids) <= size
    <2> DEFINE place == [id \in ids |-> Rank(id) - skip]
    <2>1. place \in Injection(ids, 1 .. size)
        <3>1. place \in [ids -> 1 .. size]
            OBVIOUS
        <3>2. ASSUME NEW x \in ids, NEW z \in ids, x # z PROVE place[x] # place[z]
            <4>1. x < z \/ z < x
                BY <1>5, <3>2
            <4>2. Rank(x) # Rank(z)
                BY <1>3, <4>1, RankDistinct, ZenonT(30) DEF Rank
            <4>3. Rank(x) \in Int /\ Rank(z) \in Int
                <5>1. \A v \in Live : Rank(v) \in 1 .. Cardinality(Live) /\ Cardinality(Live) \in Nat
                    BY <1>3, RankType DEF Rank
                <5>2. x \in Live /\ z \in Live
                    OBVIOUS
                <5> QED BY <5>1, <5>2
            <4> QED BY <1>2, <4>2, <4>3
        <3> HIDE DEF place
        <3> QED BY <3>1, <3>2 DEF Injection, IsInjective
    <2>2. IsFiniteSet(1 .. size) /\ Cardinality(1 .. size) = size
        BY FS_Interval
    <2> HIDE DEF place, ids
    <2> QED BY <2>1, <2>2, FS_Injection
<1>7. ASSUME NEW i \in 1 .. Cardinality(ids) PROVE nth(i) \in ids
    <2> HIDE DEF ids
    <2>1. \E id \in ids : Cardinality({other \in ids : other >= id}) = i
        BY <1>5, RankOnto
    <2> QED BY <2>1
<1> HIDE DEF nth
<1>8. ASSUME NEW i \in 1 .. Cardinality(ids)
      PROVE  nth(i) \in Live /\ nth(i) \in Nat /\ rows[nth(i)] \in Account
    <2>1. nth(i) \in Live /\ nth(i) \in 1 .. Len(rows) /\ Len(rows) \in Nat
        BY <1>4, <1>7, LiveFinite
    <2> QED BY <2>1 DEF Live
<1>9. Live = {} => Cardinality(ids) = 0
    BY FS_EmptySet
<1> HIDE DEF ids
<1>10. Page(no, size) \in Seq(Row) /\ Len(Page(no, size)) = Cardinality(ids)
    <2>1. \A i \in 1 .. Cardinality(ids) : [id |-> nth(i), account |-> rows[nth(i)]] \in Row
        BY <1>8 DEF Row
    <2>2. Page(no, size) \in [1 .. Cardinality(ids) -> Row]
        BY <1>1, <2>1
    <2> QED BY <1>5, <2>2
<1>11. \A i \in DOMAIN Page(no, size) :
          \E id \in Live : Page(no, size)[i] = [id |-> id, account |-> rows[id]]
    BY <1>1, <1>8
<1>12. Live = {} => Page(no, size) = << >>
    BY <1>9, <1>10
<1>13. \A i \in DOMAIN Page(no, size) : Page(no, size)[i].id \in Live
    BY <1>11
<1> QED BY <1>6, <1>10, <1>11, <1>12, <1>13

-----------------------------------------------------------------------------
(***************************************************************************)
(* All steps but a write leave the table alone and move requests on, one   *)
(* by one, or add new ones.  What a request can become in such a step:     *)
(***************************************************************************)
ToldOf(r) == [r EXCEPT !.told = "answer", !.total = 0, !.records = << >>]

GivenUpOf(r) ==
    IF r.op \in Writes THEN [r EXCEPT !.told = "error"]
    ELSE [r EXCEPT !.told = "error", !.phase = "answered", !.total = 0,
                   !.records = << >>, !.at = 0, !.code = CODE_SYSTEM_ERROR]

ThrownOf(r) == [r EXCEPT !.phase = "answered", !.code = CODE_SYSTEM_ERROR,
                         !.at = 0, !.total = 0]

CountedOf(r) == [r EXCEPT !.total = Cardinality(Live), !.at = writes,
                          !.phase = IF Live = {} THEN "answered" ELSE "counted"]

SelectedOf(r) == [r EXCEPT !.phase = "answered",
                           !.records = Page(r.page[1], r.page[2])]

Moved(r, s) ==
    \/ s = r
    \/ r.told = "waiting" /\ r.phase = "answered" /\ s = ToldOf(r)
    \/ r.told = "waiting" /\ s = GivenUpOf(r)
    \/ r.told = "waiting" /\ r.phase \in {"sent", "counted"} /\ s = ThrownOf(r)
    \/ r.phase = "sent" /\ r.op = "list" /\ s = CountedOf(r)
    \/ r.phase = "counted" /\ s = SelectedOf(r)

Sent(r) ==
    /\ r \in Requests /\ r.phase = "sent" /\ r.told = "waiting"
    /\ r.at = 0 /\ r.records = << >> /\ r.id <= Len(rows)

\* A step that writes nothing.
Quiet ==
    /\ UNCHANGED <<rows, writes>>
    /\ \E s : requests' \in Seq(s)
    /\ Len(requests) <= Len(requests')
    /\ \A k \in DOMAIN requests : Moved(requests[k], requests'[k])
    /\ \A k \in DOMAIN requests' \ DOMAIN requests : Sent(requests'[k])

\* A request stays a request of the same client, for the same.
LEMMA MovedType ==
    ASSUME rows \in Seq(Account \union {Gone}), writes \in Nat,
           NEW r \in Requests, NEW s, Moved(r, s)
    PROVE  /\ s \in Requests
           /\ s.by = r.by /\ s.op = r.op /\ s.id = r.id
           /\ s.account = r.account /\ s.page = r.page
<1>1. /\ Cardinality(Live) \in Nat /\ Page(r.page[1], r.page[2]) \in Seq(Row)
      /\ << >> \in Seq(Row)
    <2>1. r.page[1] \in Nat /\ r.page[2] \in Nat
        BY DEF Requests
    <2>2. Cardinality(Live) \in Nat
        BY LiveFinite
    <2>3. Page(r.page[1], r.page[2]) \in Seq(Row)
        BY <2>1, PageProperties
    <2> QED BY <2>2, <2>3
<1>2. CASE s = r
    BY <1>2
<1>3. CASE s = ToldOf(r)
    BY <1>1, <1>3 DEF ToldOf, Requests
<1>4. CASE s = GivenUpOf(r)
    BY <1>1, <1>4 DEF GivenUpOf, Requests
<1>5. CASE s = ThrownOf(r)
    BY <1>5 DEF ThrownOf, Requests
<1>6. CASE s = CountedOf(r)
    BY <1>1, <1>6 DEF CountedOf, Requests
<1>7. CASE s = SelectedOf(r)
    BY <1>1, <1>7 DEF SelectedOf, Requests
<1> QED BY <1>2, <1>3, <1>4, <1>5, <1>6, <1>7 DEF Moved

\* A write moves on without being executed: it is not told otherwise.
LEMMA MovedWrite ==
    ASSUME NEW r \in Requests, r.op \in Writes, r.phase # "counted",
           r.phase = "sent" => r.at = 0, NEW s, Moved(r, s)
    PROVE  /\ s.at = r.at /\ s.phase # "counted"
           /\ s.phase = "sent" => s.at = 0
           /\ s.phase = "answered" /\ s.code = CODE_SUCCESS =>
                  r.phase = "answered" /\ r.code = CODE_SUCCESS
<1> USE DEF Requests, Writes, CODE_SUCCESS, CODE_SYSTEM_ERROR
<1>1. CASE s = r \/ (r.phase = "answered" /\ s = ToldOf(r))
    BY <1>1 DEF ToldOf
<1>2. CASE s = GivenUpOf(r)
    BY <1>2 DEF GivenUpOf
<1>3. CASE r.phase \in {"sent", "counted"} /\ s = ThrownOf(r)
    BY <1>3 DEF ThrownOf
<1> QED BY <1>1, <1>2, <1>3 DEF Moved

\* The facts about a request that hold for as long as the table does not change.
ListOK(r) ==
    /\ r.op = "list" => Len(r.records) <= r.page[2]
    /\ r.told = "answer" => r.phase = "answered"
    /\ r.phase # "answered" => r.records = << >>
    /\ r.at <= writes
    /\ \A i \in DOMAIN r.records : r.records[i].id \in DOMAIN rows
    /\ /\ r.op = "list" /\ r.told = "waiting" /\ r.code = CODE_SUCCESS
       /\ r.phase # "sent" /\ r.at = writes
       => /\ r.total = Cardinality(Live)
          /\ r.phase = "answered" => r.records = Page(r.page[1], r.page[2])

\* They are kept as a request moves on: what is counted and selected is the table.
LEMMA MovedList ==
    ASSUME rows \in Seq(Account \union {Gone}), writes \in Nat,
           NEW r \in Requests, ListOK(r), r.op \in Writes => r.phase # "counted",
           NEW s, Moved(r, s)
    PROVE  ListOK(s)
<1>0. /\ Cardinality(Live) \in Nat /\ r.at \in Nat
      /\ r.page[1] \in Nat /\ r.page[2] \in Nat
      /\ Len(<< >>) = 0 /\ DOMAIN << >> = {}
    BY LiveFinite DEF Requests
<1>1. CASE s = r
    BY <1>1
<1>2. CASE r.phase = "answered" /\ s = ToldOf(r)
    BY <1>0, <1>2 DEF ToldOf, ListOK, Requests
<1>3. CASE s = GivenUpOf(r)
    BY <1>0, <1>3 DEF GivenUpOf, ListOK, Requests
<1>4. CASE r.told = "waiting" /\ s = ThrownOf(r)
    BY <1>0, <1>4 DEF ThrownOf, ListOK, Requests, CODE_SUCCESS, CODE_SYSTEM_ERROR
<1>5. CASE r.phase = "sent" /\ r.op = "list" /\ s = CountedOf(r)
    <2>1. Live = {} => Page(r.page[1], r.page[2]) = << >>
        BY <1>0, PageProperties
    <2> QED BY <1>0, <1>5, <2>1 DEF CountedOf, ListOK, Requests
<1>6. CASE r.phase = "counted" /\ s = SelectedOf(r)
    <2>1. /\ Len(Page(r.page[1], r.page[2])) <= r.page[2]
          /\ \A i \in DOMAIN Page(r.page[1], r.page[2]) :
                Page(r.page[1], r.page[2])[i].id \in Live
          /\ Live \subseteq DOMAIN rows
        BY <1>0, PageProperties DEF Live
    <2> QED BY <1>0, <1>6, <2>1 DEF SelectedOf, ListOK, Requests
<1> QED BY <1>1, <1>2, <1>3, <1>4, <1>5, <1>6 DEF Moved

\* What is in the table is read from its rows only.
LEMMA SameTable ==
    ASSUME rows' = rows
    PROVE  /\ Live' = Live
           /\ \A no, size : Page(no, size)' = Page(no, size)
BY DEF Live, Page, Rank

\* The invariant of the provider, request by request.
RequestOK(k) ==
    /\ ListOK(requests[k])
    /\ requests[k].id <= Len(rows)
    /\ requests[k].op \in Writes =>
          /\ requests[k].phase # "counted"
          /\ requests[k].phase = "sent" => requests[k].at = 0
          /\ requests[k].phase = "answered" /\ requests[k].code = CODE_SUCCESS => Kept(k)

ServedOK ==
    /\ rows \in Seq(Account \union {Gone})
    /\ requests \in Seq(Requests)
    /\ writes \in Nat /\ writes = Cardinality(Written)
    /\ \A k \in DOMAIN requests : RequestOK(k)

LEMMA ProviderInvDef == (ProviderInv <=> ServedOK) /\ (ProviderInv' <=> ServedOK')
BY DEF ProviderInv, ServedOK, ProviderTypeOK, IdsInv, WritesInv, ReadsInv, RequestOK, ListOK

\* Who waits for what, and what was written, in a step that writes nothing.
LEMMA QuietRequests ==
    ASSUME ProviderInv, Quiet
    PROVE  /\ requests' \in Seq(Requests)
           /\ DOMAIN requests \subseteq DOMAIN requests'
           /\ Written' = Written
           /\ \A k \in DOMAIN requests :
                 /\ requests'[k].by = requests[k].by /\ requests'[k].op = requests[k].op
                 /\ requests'[k].id = requests[k].id
                 /\ requests'[k].account = requests[k].account
                 /\ requests'[k].page = requests[k].page
                 /\ requests[k].op \in Writes => requests'[k].at = requests[k].at
<1>0. /\ rows \in Seq(Account \union {Gone}) /\ writes \in Nat
      /\ requests \in Seq(Requests)
      /\ \A k \in DOMAIN requests : RequestOK(k) /\ requests[k] \in Requests
    BY ProviderInvDef DEF ServedOK
<1>1. PICK s : requests' \in Seq(s)
    BY DEF Quiet
<1>2. /\ DOMAIN requests \subseteq DOMAIN requests'
      /\ \A k \in DOMAIN requests : Moved(requests[k], requests'[k])
      /\ \A k \in DOMAIN requests' \ DOMAIN requests : Sent(requests'[k])
    BY <1>0, <1>1 DEF Quiet
<1>3. ASSUME NEW k \in DOMAIN requests
      PROVE  /\ requests'[k] \in Requests
             /\ requests'[k].by = requests[k].by /\ requests'[k].op = requests[k].op
             /\ requests'[k].id = requests[k].id
             /\ requests'[k].account = requests[k].account
             /\ requests'[k].page = requests[k].page
    BY <1>0, <1>2, MovedType
<1>4. ASSUME NEW k \in DOMAIN requests, requests[k].op \in Writes
      PROVE  requests'[k].at = requests[k].at
    BY <1>0, <1>2, <1>4, MovedWrite DEF RequestOK
<1>5. requests' \in Seq(Requests)
    <2>1. \A k \in DOMAIN requests' : requests'[k] \in Requests
        BY <1>2, <1>3 DEF Sent
    <2>2. DOMAIN requests' = 1 .. Len(requests') /\ Len(requests') \in Nat
          /\ requests' = [k \in 1 .. Len(requests') |-> requests'[k]]
        BY <1>1
    <2>3. requests' \in [1 .. Len(requests') -> Requests]
        BY <2>1, <2>2
    <2> QED BY <2>2, <2>3
<1>6. Written' = Written
    <2>1. \A k \in DOMAIN requests' \ DOMAIN requests : ~(requests'[k].at > 0)
        BY <1>2 DEF Sent
    <2>2. ASSUME NEW k \in DOMAIN requests
          PROVE  requests'[k].op \in Writes /\ requests'[k].at > 0
                    <=> requests[k].op \in Writes /\ requests[k].at > 0
        BY <1>3, <1>4
    <2> QED BY <1>2, <2>1, <2>2 DEF Written
<1> QED BY <1>2, <1>3, <1>4, <1>5, <1>6

\* Steps that write nothing keep the invariant of the provider.
LEMMA QuietInv ==
    ASSUME ProviderInv, Quiet
    PROVE  ProviderInv'
<1>0. /\ rows \in Seq(Account \union {Gone}) /\ writes \in Nat
      /\ requests \in Seq(Requests) /\ writes = Cardinality(Written)
      /\ \A k \in DOMAIN requests : RequestOK(k) /\ requests[k] \in Requests
    BY ProviderInvDef DEF ServedOK
<1>1. /\ rows' = rows /\ writes' = writes
      /\ \A k \in DOMAIN requests : Moved(requests[k], requests'[k])
      /\ \A k \in DOMAIN requests' \ DOMAIN requests : Sent(requests'[k])
    BY DEF Quiet
<1>2. Live' = Live /\ \A no, size : Page(no, size)' = Page(no, size)
    BY <1>1, SameTable
<1>3. \A r : ListOK(r)' <=> ListOK(r)
    BY <1>1, <1>2 DEF ListOK
<1>4. ASSUME NEW k \in DOMAIN requests PROVE RequestOK(k)'
    <2>1. ListOK(requests'[k])
        BY <1>0, <1>1, MovedList DEF RequestOK
    <2>2. requests'[k].id <= Len(rows)
        BY <1>0, QuietRequests DEF RequestOK
    <2>3. ASSUME requests[k].op \in Writes, Kept(k) PROVE Kept(k)'
        BY <1>1, <1>2, <2>3, QuietRequests DEF Kept, Written
    <2>4. requests[k].op \in Writes =>
              /\ requests'[k].phase # "counted"
              /\ requests'[k].phase = "sent" => requests'[k].at = 0
              /\ requests'[k].phase = "answered" /\ requests'[k].code = CODE_SUCCESS
                    => Kept(k)'
        BY <1>0, <1>1, <2>3, MovedWrite DEF RequestOK
    <2>5. requests'[k].op = requests[k].op
        BY QuietRequests
    <2> QED BY <1>1, <1>3, <2>1, <2>2, <2>4, <2>5 DEF RequestOK
<1>5. ASSUME NEW k \in DOMAIN requests' \ DOMAIN requests PROVE RequestOK(k)'
    <2>1. ListOK(requests'[k])
        BY <1>0, <1>1 DEF Sent, ListOK, Requests
    <2> QED BY <1>1, <1>3, <2>1 DEF RequestOK, Sent
<1>6. writes' = Cardinality(Written')
    BY <1>0, <1>1, QuietRequests
<1> QED BY <1>0, <1>1, <1>4, <1>5, <1>6, QuietRequests, ProviderInvDef
       DEF ServedOK

-----------------------------------------------------------------------------
\* What one statement does to the table: it adds a row, changes or deletes the row
\* of its id if there is one, and never brings a deleted row back.
LEMMA EffectRows ==
    ASSUME rows \in Seq(Account \union {Gone}), NEW r \in Requests,
           r.op \in Writes, r.account = Gone => r.op = "delete", rows' = Effect(r)
    PROVE  /\ rows' \in Seq(Account \union {Gone})
           /\ Len(rows) <= Len(rows') /\ DOMAIN rows \subseteq DOMAIN rows'
           /\ \A id \in DOMAIN rows :
                 rows'[id] = rows[id] \/ (r.op # "add" /\ id = r.id)
           /\ \A id \in 0 .. Len(rows) : id \notin Live => id \notin Live'
           /\ r.op = "add" => Len(rows') \in DOMAIN rows' /\ rows'[Len(rows')] = r.account
           /\ r.op = "update" /\ r.id \in Live => rows'[r.id] = r.account
           /\ r.op = "delete" => r.id \notin Live'
           /\ r.op # "add" => Len(rows') = Len(rows)
           /\ r.op # "add" /\ r.id \notin Live => rows' = rows
<1> USE RowsAssumption
<1>1. r.op \in {"add", "update", "delete"} /\ r.account \in Account \union {Gone}
    BY DEF Requests, Writes
<1>2. CASE r.op = "add"
    <2>1. rows' = Append(rows, r.account)
        BY <1>2 DEF Effect
    <2> QED BY <1>1, <1>2, <2>1 DEF Live
<1>3. CASE r.op # "add" /\ r.id \notin Live
    <2>1. rows' = rows
        BY <1>3 DEF Effect
    <2> QED BY <1>1, <1>3, <2>1 DEF Live
<1>4. CASE r.op # "add" /\ r.id \in Live
    <2>1. rows' = [rows EXCEPT ![r.id] = IF r.op = "update" THEN r.account ELSE Gone]
        BY <1>4 DEF Effect
    <2>2. r.id \in DOMAIN rows /\ rows[r.id] # Gone
        BY <1>4 DEF Live
    <2> QED BY <1>1, <1>4, <2>1, <2>2 DEF Live
<1> QED BY <1>2, <1>3, <1>4

WrittenOf(r, code, at, id) ==
    [r EXCEPT !.phase = "answered", !.code = code, !.at = at, !.id = id]

LEMMA WrittenType ==
    ASSUME NEW r \in Requests, NEW at \in Nat, NEW id \in Nat,
           NEW code \in {CODE_SUCCESS, CODE_SYSTEM_ERROR}
    PROVE  WrittenOf(r, code, at, id) \in Requests
BY DEF WrittenOf, Requests

\* A write makes its request one that was written, and changes no other request.
LEMMA WriteRequests ==
    ASSUME ProviderInv, NEW k \in DOMAIN requests, Write(k)
    PROVE  /\ requests[k] \in Requests /\ requests[k].op \in Writes
           /\ requests[k].phase = "sent" /\ requests[k].at = 0
           /\ requests[k].account = Gone => requests[k].op = "delete"
           /\ rows' = Effect(requests[k]) /\ writes' = writes + 1
           /\ \E code \in {CODE_SUCCESS, CODE_SYSTEM_ERROR} :
                 requests'[k] = WrittenOf(requests[k], code, writes + 1,
                     IF requests[k].op = "add" THEN Len(rows') ELSE requests[k].id)
           /\ requests' \in Seq(Requests) /\ DOMAIN requests' = DOMAIN requests
           /\ \A m \in DOMAIN requests \ {k} : requests'[m] = requests[m]
<1>1. /\ requests \in Seq(Requests) /\ requests[k] \in Requests /\ writes \in Nat
      /\ rows \in Seq(Account \union {Gone}) /\ RequestOK(k)
    BY ProviderInvDef DEF ServedOK
<1>2. /\ requests[k].op \in Writes /\ requests[k].phase = "sent"
      /\ requests[k].account = Gone => requests[k].op = "delete"
      /\ rows' = Effect(requests[k]) /\ writes' = writes + 1
    BY DEF Write
<1>3. requests[k].at = 0
    BY <1>1, <1>2 DEF RequestOK
<1>4. PICK code \in {CODE_SUCCESS, CODE_SYSTEM_ERROR} :
          requests' = [requests EXCEPT ![k].phase = "answered", ![k].code = code,
                          ![k].at = writes',
                          ![k].id = IF requests[k].op = "add" THEN Len(rows') ELSE @]
    BY DEF Write
<1>5. Len(rows') \in Nat
    BY <1>1, <1>2, EffectRows
<1> DEFINE id == IF requests[k].op = "add" THEN Len(rows') ELSE requests[k].id
           s == WrittenOf(requests[k], code, writes + 1, id)
<1>6. s \in Requests
    <2>1. id \in Nat
        BY <1>1, <1>5 DEF Requests
    <2>2. writes + 1 \in Nat
        BY <1>1
    <2> HIDE DEF id
    <2> QED BY <1>1, <2>1, <2>2, WrittenType
<1>7. requests' = [requests EXCEPT ![k] = s]
    BY <1>1, <1>2, <1>4 DEF WrittenOf
<1> HIDE DEF s
<1>8. /\ requests'[k] = s /\ requests' \in Seq(Requests)
      /\ DOMAIN requests' = DOMAIN requests
      /\ \A m \in DOMAIN requests \ {k} : requests'[m] = requests[m]
    BY <1>1, <1>6, <1>7
<1> QED BY <1>1, <1>2, <1>3, <1>8 DEF s

\* What a write has left is left, or a later write is known to have changed it.
LEMMA WriteInv ==
    ASSUME ProviderInv, NEW k \in DOMAIN requests, Write(k)
    PROVE  ProviderInv'
<1> DEFINE r == requests[k]
<1>0. /\ rows \in Seq(Account \union {Gone}) /\ writes \in Nat
      /\ requests \in Seq(Requests) /\ writes = Cardinality(Written)
      /\ \A m \in DOMAIN requests : RequestOK(m) /\ requests[m] \in Requests
    BY ProviderInvDef DEF ServedOK
<1>1. /\ r \in Requests /\ r.op \in Writes /\ r.phase = "sent" /\ r.at = 0
      /\ r.account = Gone => r.op = "delete"
      /\ rows' = Effect(r) /\ writes' = writes + 1
      /\ requests' \in Seq(Requests) /\ DOMAIN requests' = DOMAIN requests
      /\ \A m \in DOMAIN requests \ {k} : requests'[m] = requests[m]
    BY WriteRequests
<1>2. /\ requests'[k].by = r.by /\ requests'[k].op = r.op /\ requests'[k].told = r.told
      /\ requests'[k].account = r.account /\ requests'[k].page = r.page
      /\ requests'[k].records = r.records /\ requests'[k].phase = "answered"
      /\ requests'[k].at = writes + 1
      /\ requests'[k].id = IF r.op = "add" THEN Len(rows') ELSE r.id
    <2>1. PICK code \in {CODE_SUCCESS, CODE_SYSTEM_ERROR} :
              requests'[k] = WrittenOf(r, code, writes + 1,
                                 IF r.op = "add" THEN Len(rows') ELSE r.id)
        BY WriteRequests
    <2> QED BY <1>1, <2>1 DEF WrittenOf, Requests
<1> HIDE DEF r
<1>3. /\ rows' \in Seq(Account \union {Gone})
      /\ Len(rows) <= Len(rows') /\ DOMAIN rows \subseteq DOMAIN rows'
      /\ \A id \in DOMAIN rows : rows'[id] = rows[id] \/ (r.op # "add" /\ id = r.id)
      /\ \A id \in 0 .. Len(rows) : id \notin Live => id \notin Live'
      /\ r.op = "add" => Len(rows') \in DOMAIN rows' /\ rows'[Len(rows')] = r.account
      /\ r.op = "update" /\ r.id \in Live => rows'[r.id] = r.account
      /\ r.op = "delete" => r.id \notin Live'
      /\ r.op # "add" => Len(rows') = Len(rows)
      /\ r.op # "add" /\ r.id \notin Live => rows' = rows
    BY <1>0, <1>1, EffectRows
<1>4. Written' = Written \cup {k} /\ k \notin Written
    BY <1>0, <1>1, <1>2 DEF Written, r
<1>5. writes' = Cardinality(Written')
    <2>1. Written \in SUBSET (1 .. Len(requests)) /\ Len(requests) \in Nat
        BY <1>0 DEF Written
    <2>2. IsFiniteSet(1 .. Len(requests))
        BY <2>1, FS_Interval
    <2>3. IsFiniteSet(Written)
        BY <2>1, <2>2, FS_Subset
    <2> QED BY <1>0, <1>1, <1>4, <2>3, FS_AddElement
<1>6. ASSUME NEW m \in DOMAIN requests, m # k, requests[m].op \in Writes, Kept(m)
      PROVE  Kept(m)'
    <2>1. /\ requests'[m] = requests[m] /\ requests[m] \in Requests
          /\ requests[m].at <= writes /\ requests[m].id <= Len(rows)
          /\ requests[m].id \in Nat /\ requests[m].at \in Nat
        BY <1>0, <1>1, <1>6 DEF RequestOK, ListOK, Requests
    <2>2. CASE requests[m].id \notin Live /\ requests[m].op # "add"
        <3>1. requests[m].id \notin Live'
            BY <1>0, <1>3, <2>1, <2>2
        <3> QED BY <2>1, <2>2, <3>1 DEF Kept
    <2>3. CASE /\ requests[m].op # "delete" /\ requests[m].id \in DOMAIN rows
               /\ rows[requests[m].id] = requests[m].account
        <3>1. CASE rows'[requests[m].id] = rows[requests[m].id]
            BY <1>3, <2>1, <2>3, <3>1 DEF Kept
        <3>2. CASE r.op # "add" /\ requests[m].id = r.id
            <4>1. k \in Written' /\ requests'[k].id = requests[m].id
                  /\ requests'[k].at > requests[m].at
                BY <1>0, <1>2, <1>4, <2>1, <3>2
            <4> QED BY <1>3, <2>1, <2>3, <4>1 DEF Kept
        <3> QED BY <1>3, <2>3, <3>1, <3>2
    <2>4. CASE /\ requests[m].op # "delete" /\ requests[m].id \in DOMAIN rows
               /\ \E j \in Written : /\ requests[j].id = requests[m].id
                                     /\ requests[j].at > requests[m].at
        <3>1. PICK j \in Written : /\ requests[j].id = requests[m].id
                                   /\ requests[j].at > requests[m].at
            BY <2>4
        <3>2. j \in Written' /\ requests'[j] = requests[j]
            BY <1>1, <1>4, <3>1 DEF Written
        <3> QED BY <1>3, <2>1, <2>4, <3>1, <3>2 DEF Kept
    <2> QED BY <1>6, <2>2, <2>3, <2>4 DEF Kept
<1>7. Kept(k)'
    <2>1. CASE r.op = "add"
        BY <1>2, <1>3, <2>1 DEF Kept
    <2>2. CASE r.op = "delete"
        BY <1>2, <1>3, <2>2 DEF Kept
    <2>3. CASE r.op = "update" /\ r.id \in Live
        <3>1. r.id \in DOMAIN rows'
            BY <1>3, <2>3 DEF Live
        <3> QED BY <1>2, <1>3, <2>3, <3>1 DEF Kept
    <2>4. CASE r.op = "update" /\ r.id \notin Live
        <3>1. Live' = Live
            BY <1>3, <2>4 DEF Live
        <3> QED BY <1>2, <2>4, <3>1 DEF Kept
    <2> QED BY <1>1, <2>1, <2>2, <2>3, <2>4 DEF Writes
<1>8. ASSUME NEW m \in DOMAIN requests PROVE RequestOK(m)'
    <2>1. RequestOK(m) /\ requests[m] \in Requests /\ Len(rows') \in Nat
          /\ Len(rows) \in Nat
        BY <1>0, <1>3
    <2>2. CASE m # k
        <3>1. requests'[m] = requests[m] /\ requests[m].at \in Nat /\ requests[m].id \in Nat
            BY <1>1, <2>1, <2>2 DEF Requests
        <3>2. ListOK(requests[m])'
            BY <1>0, <1>1, <1>3, <2>1, <3>1 DEF RequestOK, ListOK
        <3>3. requests[m].op \in Writes /\ Kept(m) => Kept(m)'
            BY <1>6, <2>2
        <3> QED BY <1>0, <1>1, <1>3, <2>1, <3>1, <3>2, <3>3 DEF RequestOK
    <2>3. CASE m = k
        <3>1. r = requests[m] /\ r.id \in Nat
            BY <1>1, <2>3 DEF r, Requests
        <3>2. requests'[m].op # "list"
            BY <1>1, <1>2, <2>3 DEF Writes
        <3>3. ListOK(requests[m])'
            BY <1>0, <1>1, <1>2, <1>3, <2>1, <2>3, <3>1, <3>2 DEF RequestOK, ListOK
        <3>4. requests'[m].id <= Len(rows')
            BY <1>1, <1>2, <1>3, <2>1, <2>3, <3>1 DEF RequestOK
        <3> QED BY <1>1, <1>2, <1>7, <2>3, <3>3, <3>4 DEF RequestOK
    <2> QED BY <2>2, <2>3
<1> QED BY <1>0, <1>1, <1>3, <1>5, <1>8, ProviderInvDef DEF ServedOK

-----------------------------------------------------------------------------
(***************************************************************************)
(* The versions of a row.                                                  *)
(***************************************************************************)
LEMMA WrittenFacts ==
    ASSUME ProviderInv
    PROVE  \A k \in Written : /\ k \in DOMAIN requests /\ requests[k] \in Requests
                              /\ requests[k].at \in Nat /\ requests[k].at <= writes
                              /\ requests[k].op \in Writes /\ writes \in Nat
<1> SUFFICES ASSUME NEW k \in Written
             PROVE  /\ k \in DOMAIN requests /\ requests[k] \in Requests
                    /\ requests[k].at \in Nat /\ requests[k].at <= writes
                    /\ requests[k].op \in Writes /\ writes \in Nat
    OBVIOUS
<1>1. k \in DOMAIN requests /\ requests[k].op \in Writes
    BY DEF Written
<1>2. requests[k] \in Requests /\ RequestOK(k) /\ writes \in Nat
    BY <1>1, ProviderInvDef DEF ServedOK
<1> QED BY <1>1, <1>2 DEF RequestOK, ListOK, Requests

\* What the table has had since some writes, it has had since fewer.
LEMMA HadEarlier ==
    ASSUME ProviderInv, NEW row, NEW n \in Nat, NEW m \in Nat, m <= n, HadSince(row, n)
    PROVE  HadSince(row, m)
<1>1. WritesTo(row.id, m) \subseteq WritesTo(row.id, n)
    BY WrittenFacts DEF WritesTo
<1> QED BY <1>1 DEF HadSince

\* A step that writes nothing does not change what the table has had.
LEMMA QuietHad ==
    ASSUME ProviderInv, Quiet
    PROVE  \A row, n : HadSince(row, n) => HadSince(row, n)'
<1>1. /\ Written' = Written
      /\ \A k \in Written : /\ requests'[k].op = requests[k].op
                            /\ requests'[k].id = requests[k].id
                            /\ requests'[k].account = requests[k].account
                            /\ requests'[k].at = requests[k].at
    BY QuietRequests, WrittenFacts
<1>2. \A id, n : WritesTo(id, n)' = WritesTo(id, n)
    BY <1>1 DEF WritesTo
<1>3. \A id, n : WritesTo(id, n) \subseteq Written
    BY DEF WritesTo
<1> SUFFICES ASSUME NEW row, NEW n, HadSince(row, n) PROVE HadSince(row, n)'
    OBVIOUS
<1>4. CASE /\ row.id \in DOMAIN FirstRows /\ row.account = FirstRows[row.id]
           /\ WritesTo(row.id, n) = {}
    BY <1>2, <1>4 DEF HadSince
<1>5. CASE \E k \in Written :
         /\ requests[k].id = row.id /\ requests[k].account = row.account
         /\ \A m \in WritesTo(row.id, n) : requests[m].at <= requests[k].at
         /\ \A m \in WritesTo(row.id, requests[k].at) : requests[m].op # "delete"
    <2>1. PICK k \in Written :
         /\ requests[k].id = row.id /\ requests[k].account = row.account
         /\ \A m \in WritesTo(row.id, n) : requests[m].at <= requests[k].at
         /\ \A m \in WritesTo(row.id, requests[k].at) : requests[m].op # "delete"
        BY <1>5
    <2>2. /\ \A m \in WritesTo(row.id, n)' : requests'[m].at <= requests'[k].at
          /\ \A m \in WritesTo(row.id, requests[k].at)' : requests'[m].op # "delete"
        BY <1>1, <1>2, <1>3, <2>1
    <2> QED BY <1>1, <2>1, <2>2 DEF HadSince
<1> QED BY <1>4, <1>5 DEF HadSince

\* Nor does a write change what the table has had since the writes before it.
LEMMA WriteHad ==
    ASSUME ProviderInv, NEW k \in DOMAIN requests, Write(k),
           NEW row, NEW n \in Nat, n <= writes, HadSince(row, n)
    PROVE  HadSince(row, n)'
<1>1. /\ requests[k] \in Requests /\ requests[k].op \in Writes /\ requests[k].at = 0
      /\ \E code, id : requests'[k] = WrittenOf(requests[k], code, writes + 1, id)
      /\ DOMAIN requests' = DOMAIN requests /\ writes \in Nat
      /\ \A m \in DOMAIN requests \ {k} : requests'[m] = requests[m]
    BY WriteRequests, ProviderInvDef DEF ServedOK
<1>2. requests'[k].at = writes + 1 /\ requests'[k].op = requests[k].op
    BY <1>1 DEF WrittenOf, Requests
<1>3. Written' = Written \cup {k} /\ k \notin Written
    BY <1>1, <1>2 DEF Written
<1>4. \A m \in Written : requests'[m] = requests[m]
    BY <1>1, <1>3, WrittenFacts
<1>5. ASSUME NEW id, NEW h \in Nat, h <= writes
      PROVE  WritesTo(id, h)' = WritesTo(id, h)
    BY <1>1, <1>2, <1>3, <1>4, <1>5, WrittenFacts DEF WritesTo
<1>6. \A id, h : WritesTo(id, h) \subseteq Written
    BY DEF WritesTo
<1>7. WritesTo(row.id, n)' = WritesTo(row.id, n)
    BY <1>5
<1>8. CASE /\ row.id \in DOMAIN FirstRows /\ row.account = FirstRows[row.id]
           /\ WritesTo(row.id, n) = {}
    BY <1>7, <1>8 DEF HadSince
<1>9. CASE \E j \in Written :
         /\ requests[j].id = row.id /\ requests[j].account = row.account
         /\ \A m \in WritesTo(row.id, n) : requests[m].at <= requests[j].at
         /\ \A m \in WritesTo(row.id, requests[j].at) : requests[m].op # "delete"
    <2>1. PICK j \in Written :
         /\ requests[j].id = row.id /\ requests[j].account = row.account
         /\ \A m \in WritesTo(row.id, n) : requests[m].at <= requests[j].at
         /\ \A m \in WritesTo(row.id, requests[j].at) : requests[m].op # "delete"
        BY <1>9
    <2>2. requests'[j] = requests[j] /\ j \in Written'
        BY <1>3, <1>4
    <2>3. WritesTo(row.id, requests[j].at)' = WritesTo(row.id, requests[j].at)
        <3>1. requests[j].at \in Nat /\ requests[j].at <= writes
            BY WrittenFacts
        <3> QED BY <1>5, <2>2, <3>1 DEF WritesTo
    <2>4. /\ \A m \in WritesTo(row.id, n)' : requests'[m].at <= requests'[j].at
          /\ \A m \in WritesTo(row.id, requests[j].at)' : requests'[m].op # "delete"
        BY <1>4, <1>6, <1>7, <2>1, <2>2, <2>3
    <2> QED BY <2>1, <2>2, <2>4 DEF HadSince
<1> QED BY <1>8, <1>9 DEF HadSince

\* The rows of an answer are rows the table has had since the list was begun.
RecordsFresh(r) == \A i \in DOMAIN r.records : HadSince(r.records[i], r.at)

LEMMA VersionsDef ==
    /\ VersionsInv <=> /\ \A id \in Live : HadSince([id |-> id, account |-> rows[id]], writes)
                       /\ \A k \in DOMAIN requests : RecordsFresh(requests[k])
    /\ VersionsInv' <=> /\ \A id \in Live' :
                              HadSince([id |-> id, account |-> rows[id]], writes)'
                        /\ \A k \in DOMAIN requests' : RecordsFresh(requests[k])'
BY DEF VersionsInv, RecordsFresh

\* They stay so as a request moves on: what is selected is in the table.
LEMMA MovedFresh ==
    ASSUME ProviderInv, VersionsInv, NEW k \in DOMAIN requests, NEW s, Moved(requests[k], s)
    PROVE  RecordsFresh(s)
<1> DEFINE r == requests[k]
<1>0. /\ r \in Requests /\ ListOK(r) /\ rows \in Seq(Account \union {Gone})
      /\ writes \in Nat /\ RecordsFresh(r) /\ DOMAIN << >> = {}
    BY ProviderInvDef, VersionsDef DEF ServedOK, RequestOK
<1>1. Moved(r, s)
    OBVIOUS
<1> HIDE DEF r
<1>2. CASE s.records = << >>
    BY <1>0, <1>2 DEF RecordsFresh
<1>3. CASE s.records = r.records /\ s.at = r.at
    BY <1>0, <1>3 DEF RecordsFresh
<1>4. CASE s = ToldOf(r) \/ s = r
    BY <1>0, <1>2, <1>3, <1>4 DEF ToldOf, Requests
<1>5. CASE s = GivenUpOf(r)
    BY <1>0, <1>2, <1>3, <1>5 DEF GivenUpOf, Requests
<1>6. CASE r.phase \in {"sent", "counted"} /\ s = ThrownOf(r)
    BY <1>0, <1>2, <1>6 DEF ThrownOf, ListOK, Requests
<1>7. CASE r.phase = "sent" /\ s = CountedOf(r)
    BY <1>0, <1>2, <1>7 DEF CountedOf, ListOK, Requests
<1>8. CASE s = SelectedOf(r)
    <2> DEFINE page == Page(r.page[1], r.page[2])
    <2>1. s.records = page /\ s.at = r.at
        BY <1>0, <1>8 DEF SelectedOf, Requests
    <2>2. \A i \in DOMAIN page : \E id \in Live : page[i] = [id |-> id, account |-> rows[id]]
        <3>1. r.page[1] \in Nat /\ r.page[2] \in Nat
            BY <1>0 DEF Requests
        <3> QED BY <1>0, <3>1, PageProperties
    <2>3. r.at \in Nat /\ r.at <= writes
        BY <1>0 DEF Requests, ListOK
    <2> HIDE DEF page
    <2>4. ASSUME NEW i \in DOMAIN page PROVE HadSince(page[i], r.at)
        <3>1. PICK id \in Live : page[i] = [id |-> id, account |-> rows[id]]
            BY <2>2
        <3>2. HadSince(page[i], writes)
            BY <3>1, VersionsDef
        <3> QED BY <1>0, <2>3, <3>2, HadEarlier
    <2> QED BY <2>1, <2>4 DEF RecordsFresh
<1> QED BY <1>1, <1>4, <1>5, <1>6, <1>7, <1>8 DEF Moved

LEMMA QuietVersions ==
    ASSUME ProviderInv, VersionsInv, Quiet
    PROVE  VersionsInv'
<1>1. /\ rows' = rows /\ writes' = writes
      /\ \A k \in DOMAIN requests : Moved(requests[k], requests'[k])
      /\ \A k \in DOMAIN requests' \ DOMAIN requests : Sent(requests'[k])
    BY DEF Quiet
<1>2. \A row, n : HadSince(row, n) => HadSince(row, n)'
    BY QuietHad
<1>3. ASSUME NEW id \in Live' PROVE HadSince([id |-> id, account |-> rows[id]], writes)'
    <2>1. HadSince([id |-> id, account |-> rows[id]], writes)
        BY <1>1, SameTable, VersionsDef
    <2> QED BY <1>1, <1>2, <2>1
<1>4. ASSUME NEW k \in DOMAIN requests' PROVE RecordsFresh(requests[k])'
    <2>1. RecordsFresh(requests'[k])
        <3>1. CASE k \in DOMAIN requests
            BY <1>1, <3>1, MovedFresh
        <3>2. CASE k \notin DOMAIN requests
            BY <1>1, <3>2 DEF Sent, RecordsFresh
        <3> QED BY <3>1, <3>2
    <2> QED BY <1>2, <2>1 DEF RecordsFresh
<1> QED BY <1>3, <1>4, VersionsDef

\* The row a write leaves is the version of that write, and it is a row that was there.
LEMMA WriteVersions ==
    ASSUME ProviderInv, VersionsInv, NEW k \in DOMAIN requests, Write(k)
    PROVE  VersionsInv'
<1> DEFINE r == requests[k]
<1>0. /\ rows \in Seq(Account \union {Gone}) /\ writes \in Nat
      /\ requests \in Seq(Requests)
      /\ \A m \in DOMAIN requests : RequestOK(m) /\ requests[m] \in Requests
    BY ProviderInvDef DEF ServedOK
<1>1. /\ r \in Requests /\ r.op \in Writes /\ r.phase = "sent" /\ r.at = 0
      /\ r.account = Gone => r.op = "delete"
      /\ rows' = Effect(r) /\ writes' = writes + 1
      /\ requests' \in Seq(Requests) /\ DOMAIN requests' = DOMAIN requests
      /\ \A m \in DOMAIN requests \ {k} : requests'[m] = requests[m]
    BY WriteRequests
<1>2. /\ requests'[k].op = r.op /\ requests'[k].account = r.account
      /\ requests'[k].records = r.records /\ requests'[k].at = writes + 1
      /\ requests'[k].id = IF r.op = "add" THEN Len(rows') ELSE r.id
    <2>1. PICK code \in {CODE_SUCCESS, CODE_SYSTEM_ERROR} :
              requests'[k] = WrittenOf(r, code, writes + 1,
                                 IF r.op = "add" THEN Len(rows') ELSE r.id)
        BY WriteRequests
    <2> QED BY <1>1, <2>1 DEF WrittenOf, Requests
<1>3. Written' = Written \cup {k} /\ k \notin Written
    BY <1>0, <1>1, <1>2 DEF Written
<1>4. \A m \in Written : /\ requests'[m] = requests[m] /\ requests[m].at \in Nat
                         /\ requests[m].at <= writes /\ requests[m].id <= Len(rows)
                         /\ requests[m].id \in Nat
    BY <1>0, <1>1, <1>3, WrittenFacts DEF RequestOK, Requests
<1>5. \A row : \A n \in Nat : n <= writes /\ HadSince(row, n) => HadSince(row, n)'
    BY WriteHad
<1> HIDE DEF r
<1>8. /\ r.op = "add" => Len(rows') \in DOMAIN rows' /\ rows'[Len(rows')] = r.account
      /\ r.op = "update" /\ r.id \in Live => rows'[r.id] = r.account
      /\ r.op = "delete" => r.id \notin Live'
      /\ r.op # "add" /\ r.id \notin Live => rows' = rows
    BY <1>0, <1>1, EffectRows
<1>6. ASSUME NEW id \in Live' PROVE HadSince([id |-> id, account |-> rows[id]], writes)'
    <2>1. CASE requests'[k].id # id
        <3>1. id \in Live /\ rows'[id] = rows[id]
            <4>1. CASE r.op = "add"
                <5>1. rows' = Append(rows, r.account) /\ id # Len(rows')
                    BY <1>1, <1>2, <2>1, <4>1 DEF Effect
                <5> QED BY <1>0, <1>6, <5>1 DEF Live
            <4>2. CASE r.op # "add"
                <5>1. id # r.id
                    BY <1>2, <2>1, <4>2
                <5> QED BY <1>0, <1>1, <1>6, <4>2, <5>1 DEF Effect, Live
            <4> QED BY <4>1, <4>2
        <3> DEFINE row == [id |-> id, account |-> rows'[id]]
        <3>2. row.id = id /\ row.account = rows'[id]
            OBVIOUS
        <3>3. HadSince(row, writes)
            BY <3>1, VersionsDef
        <3> HIDE DEF row
        <3>4. WritesTo(id, writes)' = WritesTo(id, writes)
            <4>1. k \notin WritesTo(id, writes)'
                BY <2>1 DEF WritesTo
            <4>2. ASSUME NEW m \in Written
                  PROVE  m \in WritesTo(id, writes)' <=> m \in WritesTo(id, writes)
                BY <1>0, <1>1, <1>3, <1>4 DEF WritesTo
            <4> QED BY <1>3, <4>1, <4>2 DEF WritesTo
        <3>5. CASE WritesTo(id, writes) = {} /\ id \in DOMAIN FirstRows
                   /\ rows'[id] = FirstRows[id]
            BY <3>4, <3>5 DEF HadSince
        <3>6. CASE \E j \in Written :
                     /\ requests[j].id = id /\ requests[j].account = rows'[id]
                     /\ \A m \in WritesTo(id, writes) : requests[m].at <= requests[j].at
                     /\ \A m \in WritesTo(id, requests[j].at) : requests[m].op # "delete"
            <4>1. PICK j \in Written :
                     /\ requests[j].id = id /\ requests[j].account = rows'[id]
                     /\ \A m \in WritesTo(id, writes) : requests[m].at <= requests[j].at
                     /\ \A m \in WritesTo(id, requests[j].at) : requests[m].op # "delete"
                BY <3>6
            <4>2. /\ j \in Written' /\ requests'[j] = requests[j]
                  /\ \A m \in WritesTo(id, writes)' : requests'[m].at <= requests'[j].at
                BY <1>3, <1>4, <3>4, <4>1 DEF WritesTo
            <4>3. \A m \in WritesTo(id, requests[j].at)' : requests'[m].op # "delete"
                <5>1. ASSUME NEW m \in Written', requests'[m].id = id,
                             requests'[m].at <= requests'[j].at
                      PROVE  requests'[m].op # "delete"
                    <6>1. m \in Written /\ requests'[m] = requests[m]
                        BY <1>3, <1>4, <2>1, <5>1
                    <6> QED BY <4>1, <4>2, <5>1, <6>1 DEF WritesTo
                <5> QED BY <5>1 DEF WritesTo
            <4> QED BY <4>1, <4>2, <4>3 DEF HadSince
        <3> QED BY <3>2, <3>3, <3>5, <3>6 DEF HadSince
    <2>2. CASE requests'[k].id = id
        <3>1. r.op # "delete" /\ rows'[id] = r.account
            <4>1. CASE r.op = "add"
                BY <1>1, <1>2, <1>8, <2>2, <4>1 DEF Writes
            <4>2. CASE r.op # "add"
                <5>1. id = r.id
                    BY <1>2, <2>2, <4>2
                <5>2. r.id \in Live
                    BY <1>1, <1>6, <1>8, <4>2, <5>1 DEF Live
                <5> QED BY <1>1, <1>6, <1>8, <4>2, <5>1, <5>2 DEF Writes
            <4> QED BY <4>1, <4>2
        <3>2. \A m \in WritesTo(id, writes) : requests[m].op # "delete"
            <4>1. CASE r.op = "add"
                <5>1. id = Len(rows) + 1 /\ Len(rows) \in Nat
                    BY <1>0, <1>1, <1>2, <2>2, <4>1 DEF Effect
                <5> QED BY <1>4, <5>1 DEF WritesTo
            <4>2. CASE r.op # "add"
                <5>1. id \in Live
                    BY <1>1, <1>2, <1>6, <1>8, <2>2, <4>2 DEF Live
                <5> DEFINE row == [id |-> id, account |-> rows[id]]
                <5>2. HadSince(row, writes) /\ row.id = id
                    BY <5>1, VersionsDef
                <5> HIDE DEF row
                <5>3. CASE WritesTo(row.id, writes) = {}
                    BY <5>2, <5>3
                <5>4. CASE \E j \in Written :
                             /\ \A m \in WritesTo(row.id, writes) :
                                   requests[m].at <= requests[j].at
                             /\ \A m \in WritesTo(row.id, requests[j].at) :
                                   requests[m].op # "delete"
                    BY <5>2, <5>4 DEF WritesTo
                <5> QED BY <5>2, <5>3, <5>4 DEF HadSince
            <4> QED BY <4>1, <4>2
        <3>3. \A m \in WritesTo(id, writes)' :
                  /\ requests'[m].at <= writes + 1 /\ requests'[m].op # "delete"
            <4>1. ASSUME NEW m \in Written', requests'[m].id = id
                  PROVE  requests'[m].at <= writes + 1 /\ requests'[m].op # "delete"
                <5>1. CASE m = k
                    BY <1>0, <1>2, <3>1, <5>1
                <5>2. CASE m # k
                    <6>1. m \in Written /\ m \in WritesTo(id, writes) /\ requests'[m] = requests[m]
                        BY <1>3, <1>4, <4>1, <5>2 DEF WritesTo
                    <6> QED BY <1>0, <1>4, <3>2, <6>1
                <5> QED BY <5>1, <5>2
            <4> QED BY <4>1 DEF WritesTo
        <3>4. WritesTo(id, requests[k].at)' = WritesTo(id, writes)'
            BY <1>1, <1>2 DEF WritesTo
        <3> QED BY <1>1, <1>2, <1>3, <2>2, <3>1, <3>3, <3>4 DEF HadSince
    <2> QED BY <2>1, <2>2
<1>7. ASSUME NEW m \in DOMAIN requests' PROVE RecordsFresh(requests[m])'
    <2>1. m \in DOMAIN requests /\ requests'[m].records = requests[m].records
        BY <1>1, <1>2, <1>7 DEF r
    <2>2. CASE m = k
        <3>1. requests'[m].records = << >>
            BY <1>0, <1>1, <2>1, <2>2 DEF r, RequestOK, ListOK
        <3> QED BY <3>1 DEF RecordsFresh
    <2>3. CASE m # k
        <3>1. /\ requests'[m] = requests[m] /\ requests[m].at \in Nat
              /\ requests[m].at <= writes /\ RecordsFresh(requests[m])
            BY <1>0, <1>1, <2>1, <2>3, VersionsDef DEF RequestOK, ListOK, Requests
        <3> QED BY <1>5, <3>1 DEF RecordsFresh
    <2> QED BY <2>2, <2>3
<1> QED BY <1>6, <1>7, VersionsDef

-----------------------------------------------------------------------------
\* A step that changes one request, or adds one, or both, writes nothing.
LEMMA QuietStep ==
    ASSUME ProviderInv, UNCHANGED <<rows, writes>>,
           \/ \E k \in DOMAIN requests : \E s :
                  Moved(requests[k], s) /\ requests' = [requests EXCEPT ![k] = s]
           \/ \E s : Sent(s) /\ requests' = Append(requests, s)
           \/ \E k \in DOMAIN requests : \E s, t :
                  /\ Moved(requests[k], s) /\ Sent(t)
                  /\ requests' = Append([requests EXCEPT ![k] = s], t)
    PROVE  Quiet
<1>0. /\ rows \in Seq(Account \union {Gone}) /\ writes \in Nat
      /\ requests \in Seq(Requests)
      /\ \A k \in DOMAIN requests : requests[k] \in Requests
      /\ \A k \in DOMAIN requests : Moved(requests[k], requests[k])
      /\ \A s : Sent(s) => s \in Requests
    BY ProviderInvDef DEF ServedOK, Moved, Sent
<1>1. ASSUME NEW k \in DOMAIN requests, NEW s, Moved(requests[k], s)
      PROVE  s \in Requests
    BY <1>0, <1>1, MovedType
<1>2. ASSUME NEW k \in DOMAIN requests, NEW s, Moved(requests[k], s),
             requests' = [requests EXCEPT ![k] = s]
      PROVE  Quiet
    BY <1>0, <1>1, <1>2 DEF Quiet
<1>3. ASSUME NEW s, Sent(s), requests' = Append(requests, s)
      PROVE  Quiet
    BY <1>0, <1>3 DEF Quiet
<1>4. ASSUME NEW k \in DOMAIN requests, NEW s, NEW t, Moved(requests[k], s), Sent(t),
             requests' = Append([requests EXCEPT ![k] = s], t)
      PROVE  Quiet
    <2>1. [requests EXCEPT ![k] = s] \in Seq(Requests)
        BY <1>0, <1>1, <1>4
    <2> QED BY <1>0, <1>4, <2>1 DEF Quiet
<1> QED BY <1>2, <1>3, <1>4

\* What a client sends is a request for a row there is or was.
LEMMA RequestSent ==
    ASSUME rows \in Seq(Account \union {Gone}),
           NEW by \in {"page", "consumer"}, NEW op \in Reads \union Writes,
           NEW id \in Nat, id <= Len(rows), NEW account \in Account \union {Gone},
           NEW page \in Nat \X Nat
    PROVE  Sent(Request(by, op, id, account, page))
BY DEF Sent, Request, Requests

\* Counting, selecting, failing, and giving answers write nothing.
LEMMA ProviderMoves ==
    ASSUME ProviderInv, NEW k \in DOMAIN requests
    PROVE  /\ Count(k) => Quiet
           /\ Select(k) => Quiet
           /\ Throw(k) => Quiet
           /\ /\ requests[k].told = "waiting" /\ requests' = GivenUp(k)
              /\ UNCHANGED <<rows, writes>>
              => Quiet
           /\ /\ requests[k].told = "waiting" /\ requests[k].phase = "answered"
              /\ requests' = Told(k) /\ UNCHANGED <<rows, writes>>
              => Quiet
           /\ Told(k) = [requests EXCEPT ![k] = ToldOf(requests[k])]
<1>0. requests \in Seq(Requests) /\ requests[k] \in Requests
    BY ProviderInvDef DEF ServedOK
<1>1. ASSUME Count(k) PROVE Quiet
    <2>1. requests' = [requests EXCEPT ![k] = CountedOf(requests[k])]
        BY <1>0, <1>1 DEF Count, CountedOf
    <2>2. Moved(requests[k], CountedOf(requests[k])) /\ UNCHANGED <<rows, writes>>
        BY <1>1 DEF Count, Moved
    <2> QED BY <2>1, <2>2, QuietStep
<1>2. ASSUME Select(k) PROVE Quiet
    <2>1. requests' = [requests EXCEPT ![k] = SelectedOf(requests[k])]
        BY <1>0, <1>2 DEF Select, SelectedOf
    <2>2. Moved(requests[k], SelectedOf(requests[k])) /\ UNCHANGED <<rows, writes>>
        BY <1>2 DEF Select, Moved
    <2> QED BY <2>1, <2>2, QuietStep
<1>3. ASSUME Throw(k) PROVE Quiet
    <2>1. requests' = [requests EXCEPT ![k] = ThrownOf(requests[k])]
        BY <1>0, <1>3 DEF Throw, ThrownOf
    <2>2. Moved(requests[k], ThrownOf(requests[k])) /\ UNCHANGED <<rows, writes>>
        BY <1>3 DEF Throw, Moved
    <2> QED BY <2>1, <2>2, QuietStep
<1>4. ASSUME requests[k].told = "waiting", requests' = GivenUp(k), UNCHANGED <<rows, writes>>
      PROVE  Quiet
    <2>1. requests' = [requests EXCEPT ![k] = GivenUpOf(requests[k])]
        BY <1>0, <1>4 DEF GivenUp, GivenUpOf
    <2>2. Moved(requests[k], GivenUpOf(requests[k]))
        BY <1>4 DEF Moved
    <2> QED BY <1>4, <2>1, <2>2, QuietStep
<1>5. Told(k) = [requests EXCEPT ![k] = ToldOf(requests[k])]
    BY <1>0 DEF Told, ToldOf
<1>6. ASSUME requests[k].told = "waiting", requests[k].phase = "answered",
             requests' = Told(k), UNCHANGED <<rows, writes>>
      PROVE  Quiet
    <2>1. Moved(requests[k], ToldOf(requests[k]))
        BY <1>6 DEF Moved
    <2> QED BY <1>5, <1>6, <2>1, QuietStep
<1> QED BY <1>1, <1>2, <1>3, <1>4, <1>5, <1>6

-----------------------------------------------------------------------------
(***************************************************************************)
(* The steps of the clients.                                               *)
(***************************************************************************)
LEMMA PageFacts ==
    ASSUME IInv
    PROVE  /\ ProviderInv /\ PageTypeOK /\ KnownInv /\ NewestInv /\ ShownInv /\ PagerInRange
           /\ VersionsInv
           /\ rows \in Seq(Account \union {Gone}) /\ writes \in Nat
           /\ requests \in Seq(Requests)
           /\ \A k \in DOMAIN requests : RequestOK(k) /\ requests[k] \in Requests
           /\ pageNo \in Nat /\ pageSize \in Nat /\ PageSizes \subseteq Nat
           /\ \A i \in DOMAIN list : list[i] \in Row /\ list[i].id \in Nat
                                      /\ list[i].id <= Len(rows)
<1>1. /\ ProviderInv /\ PageTypeOK /\ KnownInv /\ NewestInv /\ ShownInv /\ PagerInRange
      /\ VersionsInv
    BY DEF IInv, PageInv
<1>2. /\ rows \in Seq(Account \union {Gone}) /\ writes \in Nat
      /\ requests \in Seq(Requests)
      /\ \A k \in DOMAIN requests : RequestOK(k) /\ requests[k] \in Requests
    BY <1>1, ProviderInvDef DEF ServedOK
<1>3. pageNo \in Nat /\ pageSize \in Nat /\ PageSizes \subseteq Nat
    BY <1>1, SizesAssumption DEF PageTypeOK
<1>4. ASSUME NEW i \in DOMAIN list
      PROVE  list[i] \in Row /\ list[i].id \in Nat /\ list[i].id <= Len(rows)
    <2>1. list[i] \in Row
        BY <1>1 DEF PageTypeOK
    <2>2. list[i].id \in 1 .. Len(rows)
        BY <1>1, <1>2 DEF KnownInv
    <2> QED BY <1>2, <2>1, <2>2
<1> QED BY <1>1, <1>2, <1>3, <1>4

\* The pager is of its type, at a page there is and not after the one that is listed.
PagerOK ==
    /\ internalCurrentPage \in Nat \ {0} /\ lastEmittedPage \in Nat
    /\ userChangePageSize \in BOOLEAN /\ emitting \in BOOLEAN
    /\ PagerInRange

LEMMA PageCounts ==
    ASSUME NEW rowCount \in Nat, NEW size \in PageSizes
    PROVE  internalPageCount(rowCount, size) \in Nat
<1>1. size \in Nat /\ size > 0
    BY SizesAssumption
<1>2. rowCount + size - 1 \in Nat
    BY <1>1
<1> DEFINE n == rowCount + size - 1
<1> HIDE DEF n
<1>3. n \div size \in Nat
    BY <1>1, <1>2 DEF n
<1> QED BY <1>3 DEF internalPageCount, n

\* Whether the number of pages changes or not, the current page is there after it.
LEMMA PagerFollowed ==
    ASSUME IInv, pageNo' = pageNo, total' \in Nat, pageSize' \in PageSizes,
           NEW byUser \in BOOLEAN, PagerFollows(total', pageSize', byUser)
    PROVE  PagerOK'
<1> DEFINE before == internalPageCount(total, pageSize)
           after == internalPageCount(total', pageSize')
           page == IF internalCurrentPage > after THEN LastPage(after)
                   ELSE internalCurrentPage
<1>1. /\ total \in Nat /\ pageSize \in PageSizes /\ pageNo \in Nat
      /\ internalCurrentPage \in Nat \ {0} /\ lastEmittedPage \in Nat
      /\ userChangePageSize \in BOOLEAN /\ emitting \in BOOLEAN
    BY PageFacts DEF PageTypeOK
<1>2. /\ internalCurrentPage \in 1 .. LastPage(before)
      /\ internalCurrentPage <= pageNo
    BY PageFacts DEF PagerInRange
<1>3. before \in Nat /\ after \in Nat
    BY <1>1, PageCounts
<1>4. internalPageCount(total, pageSize)' = after
    OBVIOUS
<1>5. /\ after = before =>
            /\ userChangePageSize' = byUser
            /\ UNCHANGED <<internalCurrentPage, lastEmittedPage, emitting>>
      /\ after # before =>
            /\ internalCurrentPage' = page /\ userChangePageSize' = FALSE
            /\ lastEmittedPage' = IF page = internalCurrentPage THEN lastEmittedPage ELSE 0
            /\ emitting' \in BOOLEAN
    BY DEF PagerFollows
<1> HIDE DEF before
<1> HIDE DEF after
<1>6. page \in 1 .. LastPage(after) /\ page <= pageNo
    BY <1>1, <1>2, <1>3 DEF LastPage
<1> HIDE DEF page
<1>7. internalCurrentPage' \in 1 .. LastPage(after) /\ internalCurrentPage' <= pageNo'
    BY <1>2, <1>5, <1>6
<1>8. lastEmittedPage' \in Nat /\ userChangePageSize' \in BOOLEAN /\ emitting' \in BOOLEAN
    <2>1. lastEmittedPage' \in Nat
        BY <1>1, <1>5
    <2>2. userChangePageSize' \in BOOLEAN
        BY <1>1, <1>5, Zenon
    <2>3. emitting' \in BOOLEAN
        BY <1>1, <1>5, Zenon
    <2> QED BY <2>1, <2>2, <2>3
<1>9. LastPage(after) \in Nat
    BY <1>3 DEF LastPage
<1>10. internalCurrentPage' \in Nat \ {0}
    BY <1>7, <1>9
<1>11. PagerInRange'
    BY <1>4, <1>7 DEF PagerInRange, after
<1> QED BY <1>8, <1>10, <1>11 DEF PagerOK

\* The page turns, by a click or by the event that was put off, to a page there is.
Turns == \E no \in 1 .. LastPage(internalPageCount(total, pageSize)) :
            /\ handleCurrentChange(no)
            /\ internalCurrentPage' = no /\ emitting' \in BOOLEAN

LEMMA PageTurns ==
    ASSUME IInv, PageStep
    PROVE  \/ Turns \/ Query \/ handleAdd \/ Close \/ Submit
           \/ \E size \in PageSizes : handleSizeChange(size)
           \/ \E i \in DOMAIN list : handleUpdate(i) \/ handleDelete(list[i].id)
           \/ \E account \in Account : Type(account)
           \/ \E k \in DOMAIN requests : ListAnswered(k) \/ WriteAnswered(k) \/ Fails(k)
<1>1. /\ internalCurrentPage \in 1 .. LastPage(internalPageCount(total, pageSize))
      /\ emitting \in BOOLEAN
    BY PageFacts DEF PagerInRange, PageTypeOK
<1>2. CASE EmitChange
    BY <1>1, <1>2 DEF EmitChange, Turns
<1>3. CASE Handler
    BY <1>1, <1>3 DEF Handler, TurnTo, Turns
<1> QED BY <1>2, <1>3 DEF PageStep

\* The consumer hands calls and answers on, and writes nothing itself.
LEMMA ConsumerQuiet ==
    ASSUME ProviderInv, ConsumerStep
    PROVE  /\ Quiet
           /\ \A k \in DOMAIN requests' \ DOMAIN requests : requests'[k].by # "page"
           /\ \A k \in DOMAIN requests :
                 requests[k].by = "page" => requests'[k] = requests[k]
<1>0. /\ rows \in Seq(Account \union {Gone}) /\ requests \in Seq(Requests)
      /\ \A k \in DOMAIN requests : requests[k] \in Requests
    BY ProviderInvDef DEF ServedOK
<1>1. ASSUME NEW op \in Reads \union Writes, NEW id \in Nat, id <= Len(rows),
             NEW account \in Account \union {Gone}, NEW page \in Nat \X Nat,
             Call(op, id, account, page)
      PROVE  /\ Quiet
             /\ \A k \in DOMAIN requests' \ DOMAIN requests : requests'[k].by # "page"
             /\ \A k \in DOMAIN requests :
                   requests[k].by = "page" => requests'[k] = requests[k]
    <2> DEFINE s == Request("consumer", op, id, account, page)
    <2>1. Sent(s) /\ s.by = "consumer"
        BY <1>0, <1>1, RequestSent DEF Request
    <2>2. requests' = Append(requests, s) /\ UNCHANGED <<rows, writes>>
        BY <1>1 DEF Call, Send
    <2> HIDE DEF s
    <2>3. Quiet
        BY <2>1, <2>2, QuietStep
    <2> QED BY <1>0, <2>1, <2>2, <2>3
<1>2. CASE openFeignList
    <2>1. Max(PageSizes) \in Nat
        BY SizesBounds, SizesAssumption
    <2>2. <<1, Max(PageSizes)>> \in Nat \X Nat /\ 0 <= Len(rows)
        BY <1>0, <2>1
    <2> QED BY <1>1, <1>2, <2>2 DEF openFeignList, Reads
<1>3. ASSUME NEW account \in Account, add(account)
      PROVE  Call("add", 0, account, <<0, 0>>) /\ 0 <= Len(rows)
    BY <1>0, <1>3 DEF add
<1>4. ASSUME NEW id \in DOMAIN rows
      PROVE  id \in Nat /\ id <= Len(rows)
    BY <1>0, <1>4
<1>5. CASE \E account \in Account : add(account)
    BY <1>1, <1>3, <1>5 DEF Writes
<1>6. CASE \E id \in DOMAIN rows : delete(id)
    BY <1>1, <1>4, <1>6 DEF delete, Writes
<1>7. CASE \E id \in DOMAIN rows : \E account \in Account : update(id, account)
    BY <1>1, <1>4, <1>7 DEF update, Writes
<1>8. ASSUME NEW k \in DOMAIN requests, HandOn(k) \/ Fallback(k)
      PROVE  /\ Quiet
             /\ \A n \in DOMAIN requests' \ DOMAIN requests : requests'[n].by # "page"
             /\ \A n \in DOMAIN requests :
                   requests[n].by = "page" => requests'[n] = requests[n]
    <2>1. Quiet
        BY <1>8, ProviderMoves DEF HandOn, Fallback, CallWaits
    <2>2. \E s : requests' = [requests EXCEPT ![k] = s]
        BY <1>0, <1>8 DEF HandOn, Fallback, Told, GivenUp
    <2>3. requests[k].by # "page"
        BY <1>8 DEF HandOn, Fallback, CallWaits
    <2> QED BY <1>0, <2>1, <2>2, <2>3
<1> QED BY <1>2, <1>5, <1>6, <1>7, <1>8 DEF ConsumerStep

\* A step that leaves the requests alone writes nothing.
LEMMA NothingSent ==
    ASSUME ProviderInv, UNCHANGED <<rows, writes, requests>>
    PROVE  Quiet
BY ProviderInvDef DEF ServedOK, Quiet, Moved

\* The list the page asks for.
LEMMA ListSent ==
    ASSUME IInv, NEW no \in Nat, NEW size \in Nat
    PROVE  Sent(Request("page", "list", 0, Gone, <<no, size>>))
<1>1. 0 <= Len(rows) /\ <<no, size>> \in Nat \X Nat
    BY PageFacts
<1> QED BY <1>1, PageFacts, RequestSent DEF Reads

\* An answer to a write is told, and the list is asked for again.
LEMMA AnsweredQuiet ==
    ASSUME IInv, NEW k \in DOMAIN requests, WriteAnswered(k), UNCHANGED <<rows, writes>>
    PROVE  Quiet
<1>1. /\ requests[k].told = "waiting" /\ requests[k].phase = "answered"
      /\ requests' = Append(Told(k),
                            Request("page", "list", 0, Gone, <<pageNo, pageSize>>))
    BY DEF WriteAnswered, Waits
<1>2. Moved(requests[k], ToldOf(requests[k]))
    BY <1>1 DEF Moved
<1>3. Told(k) = [requests EXCEPT ![k] = ToldOf(requests[k])]
    BY PageFacts, ProviderMoves
<1>4. Sent(Request("page", "list", 0, Gone, <<pageNo, pageSize>>))
    BY PageFacts, ListSent
<1> QED BY <1>1, <1>2, <1>3, <1>4, PageFacts, QuietStep

\* The page only asks and listens.
LEMMA PageQuiet ==
    ASSUME IInv, PageStep, UNCHANGED <<rows, writes>>
    PROVE  Quiet
<1>0. ProviderInv
    BY PageFacts
<1>1. ASSUME NEW s, Sent(s), requests' = Append(requests, s)
      PROVE  Quiet
    BY <1>0, <1>1, QuietStep
<1>2. CASE Query
    BY <1>1, <1>2, PageFacts, ListSent DEF Query, getListData, Send
<1>3. CASE \E size \in PageSizes : handleSizeChange(size)
    <2>1. PICK size \in PageSizes : handleSizeChange(size)
        BY <1>3
    <2>2. size \in Nat /\ pageNo \in Nat /\ pageSize' = size
        BY <2>1, PageFacts DEF handleSizeChange
    <2>3. requests' = Append(requests, Request("page", "list", 0, Gone, <<pageNo, size>>))
        BY <2>1, <2>2 DEF handleSizeChange, getListData, Send
    <2> QED BY <1>1, <2>2, <2>3, ListSent
<1>4. CASE Turns
    <2>1. PICK no \in Int : handleCurrentChange(no) /\ no >= 1
        BY <1>4 DEF Turns
    <2>2. no \in Nat /\ pageSize \in Nat /\ pageNo' = no
        BY <2>1, PageFacts DEF handleCurrentChange
    <2>3. requests' = Append(requests, Request("page", "list", 0, Gone, <<no, pageSize>>))
        BY <2>1, <2>2 DEF handleCurrentChange, getListData, Send
    <2> QED BY <1>1, <2>2, <2>3, ListSent
<1>5. CASE \E i \in DOMAIN list : handleDelete(list[i].id)
    <2>1. PICK i \in DOMAIN list : handleDelete(list[i].id)
        BY <1>5
    <2>2. Sent(Request("page", "delete", list[i].id, Gone, <<0, 0>>))
        BY PageFacts, RequestSent DEF Writes
    <2> QED BY <1>1, <2>1, <2>2 DEF handleDelete, Send
<1>6. CASE Submit
    <2> DEFINE op == IF editType = "create" THEN "add" ELSE "update"
    <2>1. /\ editUser.id \in Nat /\ editUser.id <= Len(rows)
          /\ editUser.account \in Account \union {Gone}
        BY PageFacts DEF PageTypeOK, KnownInv
    <2>2. op \in Reads \union Writes
        BY DEF Writes
    <2>3. requests' = Append(requests,
                             Request("page", op, editUser.id, editUser.account, <<0, 0>>))
        BY <1>6 DEF Submit, Send
    <2> HIDE DEF op
    <2>4. Sent(Request("page", op, editUser.id, editUser.account, <<0, 0>>))
        BY <2>1, <2>2, PageFacts, RequestSent
    <2> QED BY <1>1, <2>3, <2>4
<1>7. CASE \/ handleAdd \/ Close
           \/ \E i \in DOMAIN list : handleUpdate(i)
           \/ \E a \in Account : Type(a)
    <2>1. UNCHANGED requests
        BY <1>7 DEF handleAdd, Close, handleUpdate, Dialog, Type
    <2> QED BY <1>0, <2>1, NothingSent
<1>8. CASE \E k \in DOMAIN requests : ListAnswered(k) \/ Fails(k)
    BY <1>0, <1>8, ProviderMoves DEF ListAnswered, Fails, Waits
<1>9. CASE \E k \in DOMAIN requests : WriteAnswered(k)
    BY <1>9, AnsweredQuiet
<1> QED BY <1>2, <1>3, <1>4, <1>5, <1>6, <1>7, <1>8, <1>9, PageTurns

-----------------------------------------------------------------------------
(***************************************************************************)
(* What the page knows.                                                    *)
(***************************************************************************)
\* What a list becomes: begun now, or still the one that was begun.
LEMMA MovedNewest ==
    ASSUME NEW r \in Requests, r.op = "list", NEW s, Moved(r, s),
           s.phase # "sent", s.code = CODE_SUCCESS
    PROVE  \/ s.at = writes
           \/ s.at = r.at /\ r.phase # "sent" /\ r.code = CODE_SUCCESS
<1> USE DEF Requests, Writes, CODE_SUCCESS, CODE_SYSTEM_ERROR
<1>1. CASE s = r \/ (r.phase = "answered" /\ s = ToldOf(r))
    BY <1>1 DEF ToldOf
<1>2. CASE s = GivenUpOf(r) \/ s = ThrownOf(r)
    <2>1. r.op \notin Writes
        OBVIOUS
    <2>2. s.code = CODE_SYSTEM_ERROR
        BY <1>2, <2>1 DEF GivenUpOf, ThrownOf
    <2> QED BY <2>2
<1>3. CASE s = CountedOf(r)
    BY <1>3 DEF CountedOf
<1>4. CASE r.phase = "counted" /\ s = SelectedOf(r)
    BY <1>4 DEF SelectedOf
<1> QED BY <1>1, <1>2, <1>3, <1>4 DEF Moved

\* No step but one that tells the page of a write, or turns the page, needs a new
\* list to keep the last one good.
LEMMA NewestKept ==
    ASSUME IInv, Quiet, UNCHANGED <<pageNo, pageSize>>,
           \A k \in DOMAIN requests' \ DOMAIN requests :
              ~(requests'[k].by = "page" /\ requests'[k].op = "list"),
           \A k \in DOMAIN requests :
              /\ requests[k].by = "page" /\ requests[k].op \in Writes
              /\ requests'[k].told = "answer"
              => requests[k].told = "answer"
    PROVE  NewestInv'
<1>1. PICK m \in Lists :
        /\ Newest(m) /\ requests[m].page = <<pageNo, pageSize>>
        /\ requests[m].phase # "sent" /\ requests[m].code = CODE_SUCCESS =>
              \A k \in DOMAIN requests :
                  /\ requests[k].by = "page" /\ requests[k].op \in Writes
                  /\ requests[k].told = "answer"
                  => requests[k].at <= requests[m].at
    BY PageFacts DEF NewestInv
<1>2. /\ DOMAIN requests \subseteq DOMAIN requests'
      /\ \A k \in DOMAIN requests :
            /\ requests'[k].by = requests[k].by /\ requests'[k].op = requests[k].op
            /\ requests'[k].page = requests[k].page
            /\ requests[k].op \in Writes => requests'[k].at = requests[k].at
    BY PageFacts, QuietRequests
<1>3. /\ \A k \in DOMAIN requests : Moved(requests[k], requests'[k])
      /\ \A k \in DOMAIN requests' \ DOMAIN requests : Sent(requests'[k])
    BY DEF Quiet
<1>4. Lists' = Lists
    BY <1>2 DEF Lists
<1>5. ASSUME requests'[m].phase # "sent", requests'[m].code = CODE_SUCCESS,
             NEW k \in DOMAIN requests', requests'[k].by = "page",
             requests'[k].op \in Writes, requests'[k].told = "answer"
      PROVE  requests'[k].at <= requests'[m].at
    <2>1. k \in DOMAIN requests
        BY <1>3, <1>5 DEF Sent
    <2>2. /\ requests'[k].at = requests[k].at /\ requests[k].told = "answer"
          /\ requests[k].by = "page" /\ requests[k].op \in Writes
          /\ requests[k].at <= writes
        BY <1>2, <1>5, <2>1, PageFacts DEF RequestOK, ListOK
    <2>3. \/ requests'[m].at = writes
          \/ /\ requests'[m].at = requests[m].at /\ requests[m].phase # "sent"
             /\ requests[m].code = CODE_SUCCESS
        BY <1>1, <1>3, <1>5, PageFacts, MovedNewest DEF Lists
    <2> QED BY <1>1, <2>1, <2>2, <2>3
<1>6. m \in Lists' /\ Newest(m)'
    BY <1>1, <1>4 DEF Newest
<1>7. requests'[m].page = <<pageNo', pageSize'>>
    BY <1>1, <1>2 DEF Lists
<1> QED BY <1>5, <1>6, <1>7 DEF NewestInv

\* A list that was just asked for is not begun, and the newest.
LEMMA NewestSent ==
    ASSUME NEW q \in Seq(Requests),
           requests' = Append(q, Request("page", "list", 0, Gone, <<pageNo', pageSize'>>))
    PROVE  NewestInv'
<1> DEFINE m == Len(q) + 1
<1>1. /\ DOMAIN requests' = 1 .. m /\ m \in DOMAIN requests'
      /\ requests'[m] = Request("page", "list", 0, Gone, <<pageNo', pageSize'>>)
    OBVIOUS
<1>2. /\ requests'[m].by = "page" /\ requests'[m].op = "list"
      /\ requests'[m].phase = "sent" /\ requests'[m].page = <<pageNo', pageSize'>>
    BY <1>1 DEF Request
<1>3. m \in Lists' /\ \A n \in Lists' : n <= m
    BY <1>1, <1>2 DEF Lists
<1> HIDE DEF m
<1> QED BY <1>2, <1>3 DEF NewestInv, Newest

\* The list shown stays as it is, and the table with it.
LEMMA ShownKept ==
    ASSUME IInv, Quiet, UNCHANGED <<list, total, listOf, typed>>
    PROVE  ShownInv'
<1>1. /\ rows' = rows /\ writes' = writes
      /\ \A k \in DOMAIN requests : Moved(requests[k], requests'[k])
    BY DEF Quiet
<1>2. Live' = Live /\ \A no, size : Page(no, size)' = Page(no, size)
    BY <1>1, SameTable
<1>3. DOMAIN requests \subseteq DOMAIN requests'
    BY PageFacts, QuietRequests
<1> SUFFICES ASSUME listOf # 0
             PROVE  /\ listOf \in Lists' /\ requests'[listOf] = requests[listOf]
                    /\ listOf \in Lists
    BY <1>1, <1>2, PageFacts DEF ShownInv
<1>4. /\ listOf \in Lists /\ listOf \in DOMAIN requests
      /\ requests[listOf].told = "answer"
    BY PageFacts DEF ShownInv, Lists
<1>5. requests[listOf].phase = "answered" /\ requests[listOf] \in Requests
    BY <1>4, PageFacts DEF RequestOK, ListOK
<1>6. requests'[listOf] = requests[listOf]
    BY <1>1, <1>4, <1>5 DEF Moved
<1> QED BY <1>3, <1>4, <1>6 DEF Lists

\* The list just answered is that of the table.
LEMMA ShownAnswered ==
    ASSUME IInv, NEW k \in DOMAIN requests, ListAnswered(k), UNCHANGED <<rows, writes>>,
           requests[k].code = CODE_SUCCESS
    PROVE  ShownInv'
<1> DEFINE r == requests[k]
<1>1. /\ r.told = "waiting" /\ r.by = "page" /\ r.op = "list" /\ r.phase = "answered"
      /\ requests' = Told(k) /\ list' = r.records /\ total' = r.total
      /\ listOf' = k /\ typed' = {}
    BY DEF ListAnswered, Waits
<1>2. RequestOK(k) /\ r \in Requests /\ requests \in Seq(Requests)
    BY PageFacts
<1>3. requests' = [requests EXCEPT ![k] = ToldOf(r)]
    BY <1>1, PageFacts, ProviderMoves
<1>4. requests'[k] = ToldOf(r) /\ k \in DOMAIN requests'
    BY <1>2, <1>3
<1> HIDE DEF r
<1>5. /\ requests'[k].by = "page" /\ requests'[k].op = "list"
      /\ requests'[k].told = "answer" /\ requests'[k].code = CODE_SUCCESS
      /\ requests'[k].at = r.at /\ requests'[k].page = r.page
    BY <1>1, <1>2, <1>4 DEF ToldOf, Requests, r
<1>6. r.at = writes => r.total = Cardinality(Live) /\ r.records = Page(r.page[1], r.page[2])
    BY <1>1, <1>2 DEF RequestOK, ListOK, r
<1>7. Live' = Live /\ \A no, size : Page(no, size)' = Page(no, size)
    BY SameTable
<1>8. k \in Lists'
    BY <1>4, <1>5 DEF Lists
<1>9. r.at = writes =>
          /\ total' = Cardinality(Live) /\ Len(list') = Len(Page(r.page[1], r.page[2]))
          /\ \A i \in DOMAIN list' \ typed' : list'[i] = Page(r.page[1], r.page[2])[i]
    BY <1>1, <1>6
<1> QED BY <1>1, <1>5, <1>7, <1>8, <1>9 DEF ShownInv

\* What the user types changes a row of the list, and is not held against it.
LEMMA ShownTyped ==
    ASSUME IInv, NEW account \in Account, Type(account), UNCHANGED <<rows, writes>>
    PROVE  ShownInv' /\ PageTypeOK' /\ KnownInv'
<1>1. UNCHANGED <<rows, writes, requests, total, listOf, pageNo, pageSize,
                  editType, editDialogVisible, internalCurrentPage, lastEmittedPage,
                  userChangePageSize, emitting>>
    BY DEF Type, pagerVars
<1>2. Live' = Live /\ \A no, size : Page(no, size)' = Page(no, size)
    BY <1>1, SameTable
<1>3. /\ list \in Seq(Row) /\ typed \subseteq DOMAIN list
      /\ editUser \in [id : Nat, account : Account \union {Gone}, row : 0 .. Len(list)]
      /\ \A i \in DOMAIN list : list[i].id \in DOMAIN rows
      /\ editUser.id <= Len(rows)
    BY PageFacts DEF PageTypeOK, KnownInv
<1>4. editUser' = [editUser EXCEPT !.account = account]
    BY DEF Type
<1>5. /\ list' \in Seq(Row) /\ Len(list') = Len(list) /\ typed' \subseteq DOMAIN list'
      /\ typed \subseteq typed'
      /\ \A i \in DOMAIN list : list'[i].id = list[i].id
      /\ \A i \in DOMAIN list \ typed' : list'[i] = list[i]
    <2>1. CASE editUser.row = 0
        BY <1>3, <2>1 DEF Type
    <2>2. CASE editUser.row # 0
        <3>1. /\ list' = [list EXCEPT ![editUser.row].account = account]
              /\ typed' = typed \union {editUser.row}
            BY <2>2 DEF Type
        <3>2. editUser.row \in DOMAIN list
            BY <1>3, <2>2
        <3>3. list[editUser.row] \in Row
            BY <1>3, <3>2
        <3>4. [list[editUser.row] EXCEPT !.account = account] \in Row
              /\ [list[editUser.row] EXCEPT !.account = account].id = list[editUser.row].id
            BY <3>3 DEF Row
        <3> QED BY <1>3, <3>1, <3>2, <3>4
    <2> QED BY <2>1, <2>2
<1>6. /\ editUser' \in [id : Nat, account : Account \union {Gone}, row : 0 .. Len(list)]
      /\ editUser'.id = editUser.id
    BY <1>3, <1>4
<1>7. PageTypeOK'
    BY <1>1, <1>5, <1>6, PageFacts DEF PageTypeOK
<1>8. KnownInv'
    BY <1>1, <1>3, <1>5, <1>6 DEF KnownInv
<1>9. Lists' = Lists
    BY <1>1 DEF Lists
<1>10. ShownInv'
    <2>1. ASSUME NEW page, Len(list) = Len(page),
                 \A i \in DOMAIN list \ typed : list[i] = page[i]
          PROVE  /\ Len(list') = Len(page)
                 /\ \A i \in DOMAIN list' \ typed' : list'[i] = page[i]
        <3>1. DOMAIN list' = DOMAIN list
            BY <1>3, <1>5
        <3> QED BY <1>5, <2>1, <3>1
    <2> QED BY <1>1, <1>2, <1>9, <2>1, PageFacts DEF ShownInv
<1> QED BY <1>7, <1>8, <1>10

\* What the page is at and knows of stays, and rows and requests are only added.
LEMMA PageIdle ==
    ASSUME IInv, UNCHANGED pageVars,
           rows' \in Seq(Account \union {Gone}), DOMAIN rows \subseteq DOMAIN rows',
           Len(rows) <= Len(rows'), requests' \in Seq(Requests),
           DOMAIN requests \subseteq DOMAIN requests'
    PROVE  PageTypeOK' /\ KnownInv'
<1>1. Len(requests) <= Len(requests') /\ Len(requests') \in Nat /\ Len(requests) \in Nat
    BY PageFacts
<1>2. PageTypeOK'
    BY <1>1, PageFacts DEF PageTypeOK, pageVars, dialogVars, listVars, pagerVars
<1>3. editUser.id \in Nat /\ Len(rows) \in Nat /\ Len(rows') \in Nat
    BY PageFacts DEF PageTypeOK
<1>4. KnownInv'
    BY <1>3, PageFacts DEF KnownInv, pageVars, dialogVars, listVars
<1> QED BY <1>2, <1>4

LEMMA PageKnows ==
    ASSUME IInv, PageStep, UNCHANGED <<rows, writes>>
    PROVE  PageTypeOK' /\ KnownInv'
<1>0. /\ PageTypeOK /\ KnownInv /\ requests' \in Seq(Requests)
      /\ DOMAIN requests \subseteq DOMAIN requests'
      /\ Len(requests) \in Nat /\ Len(requests') \in Nat
      /\ Len(requests) <= Len(requests') /\ Len(rows) \in Nat
    <2>1. Quiet
        BY PageQuiet
    <2>2. /\ requests' \in Seq(Requests) /\ DOMAIN requests \subseteq DOMAIN requests'
          /\ Len(requests) <= Len(requests')
        BY <2>1, PageFacts, QuietRequests DEF Quiet
    <2> QED BY <2>2, PageFacts
<1>1. CASE UNCHANGED pageVars
    BY <1>0, <1>1, PageFacts, PageIdle
<1>2. CASE \E size \in PageSizes : handleSizeChange(size)
    <2>1. /\ pageSize' \in PageSizes /\ PagerFollows(total', pageSize', TRUE)
          /\ UNCHANGED <<pageNo, list, total, listOf, typed, editType, editDialogVisible,
                         editUser>>
        BY <1>2 DEF handleSizeChange, listVars, dialogVars
    <2>2. PagerOK'
        BY <1>0, <2>1, PagerFollowed DEF PageTypeOK
    <2> QED BY <1>0, <2>1, <2>2 DEF PageTypeOK, PagerOK, KnownInv
<1>3. CASE Turns
    <2>1. PICK no \in Nat \ {0} :
            /\ pageNo' = no /\ internalCurrentPage' = no /\ lastEmittedPage' = no
            /\ userChangePageSize' = FALSE /\ emitting' \in BOOLEAN
            /\ UNCHANGED <<pageSize, list, total, listOf, typed, editType, editDialogVisible,
                           editUser>>
        BY <1>3 DEF Turns, handleCurrentChange, listVars, dialogVars
    <2>2. pageNo' \in Nat \ {0} /\ internalCurrentPage' \in Nat \ {0} /\ lastEmittedPage' \in Nat
        BY <2>1
    <2>3. userChangePageSize' \in BOOLEAN /\ emitting' \in BOOLEAN
        BY <2>1
    <2> QED BY <1>0, <2>1, <2>2, <2>3 DEF PageTypeOK, KnownInv
<1>4. ASSUME NEW type \in {"?", "create", "update"}, NEW visible \in BOOLEAN,
             NEW user \in [id : Nat, account : Account \union {Gone}, row : 0 .. Len(list)],
             user.id <= Len(rows),
             editType' = type, editDialogVisible' = visible, editUser' = user,
             UNCHANGED <<pageNo, pageSize, listVars, pagerVars>>
      PROVE  PageTypeOK' /\ KnownInv'
    BY <1>0, <1>4 DEF PageTypeOK, KnownInv, listVars, pagerVars
<1>5. /\ NoUser \in [id : Nat, account : Account \union {Gone}, row : 0 .. Len(list)]
      /\ NoUser.id <= Len(rows)
    BY <1>0 DEF NoUser, PageTypeOK
<1>6. CASE handleAdd \/ Close
    BY <1>4, <1>5, <1>6 DEF handleAdd, Dialog, Close, Closed
<1>7. CASE \E i \in DOMAIN list : handleUpdate(i)
    <2>1. PICK i \in DOMAIN list : handleUpdate(i)
        BY <1>7
    <2>2. list[i] \in Row /\ list[i].id <= Len(rows) /\ i \in 0 .. Len(list)
        BY <1>0, PageFacts DEF PageTypeOK
    <2> DEFINE user == [id |-> list[i].id, account |-> list[i].account, row |-> i]
    <2>3. /\ user \in [id : Nat, account : Account \union {Gone}, row : 0 .. Len(list)]
          /\ user.id <= Len(rows)
        BY <2>2 DEF Row
    <2>4. /\ editType' = "update" /\ editDialogVisible' = TRUE /\ editUser' = user
          /\ UNCHANGED <<pageNo, pageSize, listVars, pagerVars>>
        BY <2>1 DEF handleUpdate, Dialog
    <2> HIDE DEF user
    <2> QED BY <1>4, <2>3, <2>4
<1>8. CASE \E a \in Account : Type(a)
    BY <1>8, ShownTyped
<1>9. ASSUME NEW k \in DOMAIN requests, ListAnswered(k)
      PROVE  PageTypeOK' /\ KnownInv'
    <2>1. CASE requests[k].code # CODE_SUCCESS
        BY <1>1, <1>9, <2>1 DEF ListAnswered, pageVars, dialogVars
    <2>2. CASE requests[k].code = CODE_SUCCESS
        <3>1. /\ list' = requests[k].records /\ total' = requests[k].total
              /\ editUser' = [editUser EXCEPT !.row = 0] /\ listOf' = k /\ typed' = {}
              /\ UNCHANGED <<pageNo, pageSize, editType, editDialogVisible>>
            BY <1>9, <2>2 DEF ListAnswered
        <3>2. /\ requests[k].records \in Seq(Row) /\ requests[k].total \in Nat
              /\ \A i \in DOMAIN requests[k].records :
                    requests[k].records[i].id \in DOMAIN rows
            BY PageFacts DEF Requests, RequestOK, ListOK
        <3>3. /\ editUser' \in [id : Nat, account : Account \union {Gone},
                                row : 0 .. Len(list')]
              /\ editUser'.id = editUser.id
            <4>1. 0 \in 0 .. Len(list')
                BY <3>1, <3>2
            <4> QED BY <1>0, <3>1, <4>1 DEF PageTypeOK
        <3>4. k \in 0 .. Len(requests')
            BY <1>0, PageFacts
        <3>5. PagerOK'
            <4>1. PagerFollows(total', pageSize', userChangePageSize)
                BY <1>9, <2>2 DEF ListAnswered
            <4> QED BY <1>0, <3>1, <3>2, <4>1, PagerFollowed DEF PageTypeOK
        <3> QED BY <1>0, <3>1, <3>2, <3>3, <3>4, <3>5 DEF PageTypeOK, PagerOK, KnownInv
    <2> QED BY <2>1, <2>2
<1>10. ASSUME NEW k \in DOMAIN requests, WriteAnswered(k)
       PROVE  PageTypeOK' /\ KnownInv'
    <2>1. CASE requests[k].op = "delete"
        BY <1>1, <1>10, <2>1 DEF WriteAnswered, pageVars
    <2>2. CASE requests[k].op # "delete"
        BY <1>4, <1>5, <1>10, <2>2 DEF WriteAnswered, Closed
    <2> QED BY <2>1, <2>2
<1> QED BY <1>1, <1>2, <1>3, <1>6, <1>7, <1>8, <1>9, <1>10, PageTurns
       DEF Query, handleDelete, Submit, Fails

LEMMA PageNewest ==
    ASSUME IInv, PageStep, UNCHANGED <<rows, writes>>
    PROVE  NewestInv'
<1>0. /\ Quiet /\ requests \in Seq(Requests)
      /\ \A k \in DOMAIN requests : requests[k] \in Requests
    BY PageFacts, PageQuiet
<1>1. CASE \/ Query
           \/ \E size \in PageSizes : handleSizeChange(size)
           \/ Turns
    <2>1. requests' = Append(requests, Request("page", "list", 0, Gone, <<pageNo', pageSize'>>))
        BY <1>1 DEF Query, handleSizeChange, Turns, handleCurrentChange, getListData, Send,
                    pageVars
    <2> QED BY <1>0, <2>1, NewestSent
<1>2. ASSUME UNCHANGED <<pageNo, pageSize>>, NEW s, s.op # "list",
             requests' = Append(requests, s)
      PROVE  NewestInv'
    BY <1>0, <1>2, NewestKept
<1>3. CASE Submit
    <2> DEFINE op == IF editType = "create" THEN "add" ELSE "update"
               s == Request("page", op, editUser.id, editUser.account, <<0, 0>>)
    <2>1. s.op # "list"
        BY DEF Request
    <2>2. requests' = Append(requests, s) /\ UNCHANGED <<pageNo, pageSize>>
        BY <1>3 DEF Submit, Send, pageVars
    <2> HIDE DEF s
    <2> QED BY <1>2, <2>1, <2>2
<1>4. CASE \E i \in DOMAIN list : handleDelete(list[i].id)
    <2>1. PICK i \in DOMAIN list : handleDelete(list[i].id)
        BY <1>4
    <2> DEFINE s == Request("page", "delete", list[i].id, Gone, <<0, 0>>)
    <2>2. s.op # "list"
        BY DEF Request
    <2>3. requests' = Append(requests, s) /\ UNCHANGED <<pageNo, pageSize>>
        BY <2>1 DEF handleDelete, Send, pageVars
    <2> HIDE DEF s
    <2> QED BY <1>2, <2>2, <2>3
<1>5. ASSUME UNCHANGED <<pageNo, pageSize>>, UNCHANGED requests
      PROVE  NewestInv'
    BY <1>0, <1>5, NewestKept
<1>6. CASE \/ handleAdd \/ Close
           \/ \E i \in DOMAIN list : handleUpdate(i)
           \/ \E a \in Account : Type(a)
    BY <1>5, <1>6 DEF handleAdd, Close, handleUpdate, Dialog, Type
<1>7. ASSUME NEW k \in DOMAIN requests, ListAnswered(k)
      PROVE  NewestInv'
    <2>1. requests' = [requests EXCEPT ![k] = ToldOf(requests[k])]
        BY <1>7, PageFacts, ProviderMoves DEF ListAnswered
    <2>2. requests[k].op \notin Writes /\ UNCHANGED <<pageNo, pageSize>>
        BY <1>7 DEF ListAnswered, Writes
    <2>3. /\ DOMAIN requests' = DOMAIN requests
          /\ \A n \in DOMAIN requests : n # k => requests'[n] = requests[n]
        BY <1>0, <2>1
    <2> QED BY <1>0, <2>2, <2>3, NewestKept
<1>8. ASSUME NEW k \in DOMAIN requests, Fails(k)
      PROVE  NewestInv'
    <2>1. /\ requests' = [requests EXCEPT ![k] = GivenUpOf(requests[k])]
          /\ UNCHANGED <<pageNo, pageSize>>
        BY <1>0, <1>8 DEF Fails, GivenUp, GivenUpOf, pageVars
    <2>2. GivenUpOf(requests[k]).told = "error"
        BY <1>0 DEF GivenUpOf, Requests
    <2>3. /\ DOMAIN requests' = DOMAIN requests /\ requests'[k].told # "answer"
          /\ \A n \in DOMAIN requests : n # k => requests'[n] = requests[n]
        BY <1>0, <2>1, <2>2
    <2> QED BY <1>0, <2>1, <2>3, NewestKept
<1>9. ASSUME NEW k \in DOMAIN requests, WriteAnswered(k)
      PROVE  NewestInv'
    <2>1. /\ Told(k) = [requests EXCEPT ![k] = ToldOf(requests[k])]
          /\ requests[k].told = "waiting" /\ requests[k].phase = "answered"
        BY <1>9, PageFacts, ProviderMoves DEF WriteAnswered, Waits
    <2>2. ToldOf(requests[k]) \in Requests
        BY <2>1, PageFacts, MovedType DEF Moved
    <2>3. Told(k) \in Seq(Requests)
        BY <1>0, <2>1, <2>2
    <2>4. requests' = Append(Told(k), Request("page", "list", 0, Gone, <<pageNo', pageSize'>>))
        BY <1>9 DEF WriteAnswered
    <2> QED BY <2>3, <2>4, NewestSent
<1> QED BY <1>1, <1>3, <1>4, <1>6, <1>7, <1>8, <1>9, PageTurns

LEMMA PageShown ==
    ASSUME IInv, PageStep, UNCHANGED <<rows, writes>>
    PROVE  ShownInv'
<1>0. Quiet
    BY PageQuiet
<1>1. CASE \E a \in Account : Type(a)
    BY <1>1, ShownTyped
<1>2. CASE \E k \in DOMAIN requests : ListAnswered(k)
    <2>1. PICK k \in DOMAIN requests : ListAnswered(k)
        BY <1>2
    <2>2. CASE requests[k].code = CODE_SUCCESS
        BY <2>1, <2>2, ShownAnswered
    <2>3. CASE requests[k].code # CODE_SUCCESS
        BY <1>0, <2>1, <2>3, ShownKept DEF ListAnswered, listVars
    <2> QED BY <2>2, <2>3
<1>3. CASE UNCHANGED <<list, total, listOf, typed>>
    BY <1>0, <1>3, ShownKept
<1>4. \/ UNCHANGED <<list, total, listOf, typed>>
      \/ \E a \in Account : Type(a)
      \/ \E k \in DOMAIN requests : ListAnswered(k)
    BY PageTurns DEF Query, handleAdd, Close, Submit, handleSizeChange, Turns,
           handleCurrentChange, handleUpdate, handleDelete, Dialog, WriteAnswered, Fails,
           pageVars, listVars
<1> QED BY <1>1, <1>2, <1>3, <1>4

\* The pager keeps to the pages there are.
LEMMA PageInRange ==
    ASSUME IInv, PageStep
    PROVE  PagerInRange'
<1>1. CASE \E size \in PageSizes : handleSizeChange(size)
    <2>1. /\ pageSize' \in PageSizes /\ PagerFollows(total', pageSize', TRUE)
          /\ pageNo' = pageNo /\ total' = total
        BY <1>1 DEF handleSizeChange, listVars
    <2> QED BY <2>1, PageFacts, PagerFollowed DEF PageTypeOK, PagerOK
<1>2. CASE Turns
    <2>1. PICK no \in 1 .. LastPage(internalPageCount(total, pageSize)) :
            /\ pageNo' = no /\ internalCurrentPage' = no
            /\ total' = total /\ pageSize' = pageSize
        BY <1>2 DEF Turns, handleCurrentChange, listVars
    <2> QED BY <2>1 DEF PagerInRange
<1>3. ASSUME UNCHANGED <<pageNo, pageSize, total, pagerVars>>
      PROVE  PagerInRange'
    BY <1>3, PageFacts DEF PagerInRange, pagerVars
<1>4. CASE \E k \in DOMAIN requests : ListAnswered(k)
    <2>1. PICK k \in DOMAIN requests : ListAnswered(k)
        BY <1>4
    <2>2. CASE requests[k].code = CODE_SUCCESS
        <3>1. /\ PagerFollows(total', pageSize', userChangePageSize)
              /\ pageNo' = pageNo /\ pageSize' = pageSize /\ total' = requests[k].total
            BY <2>1, <2>2 DEF ListAnswered
        <3>2. requests[k].total \in Nat
            BY PageFacts DEF Requests
        <3> QED BY <3>1, <3>2, PageFacts, PagerFollowed DEF PageTypeOK, PagerOK
    <2>3. CASE requests[k].code # CODE_SUCCESS
        BY <1>3, <2>1, <2>3 DEF ListAnswered, listVars
    <2> QED BY <2>2, <2>3
<1> QED BY <1>1, <1>2, <1>3, <1>4, PageTurns
       DEF Query, handleAdd, Close, Submit, handleUpdate, handleDelete, Dialog, Type,
           WriteAnswered, Fails, pageVars, listVars

\* No step but one of the page moves the pager.
LEMMA PagerKept ==
    ASSUME IInv, UNCHANGED pageVars
    PROVE  PagerInRange'
<1> QED BY PageFacts DEF PagerInRange, pageVars, listVars, pagerVars

\* What the consumer does is nothing to the page.
LEMMA ConsumerPage ==
    ASSUME IInv, ConsumerStep, UNCHANGED pageVars
    PROVE  PageInv'
<1>0. /\ Quiet
      /\ \A k \in DOMAIN requests' \ DOMAIN requests : requests'[k].by # "page"
      /\ \A k \in DOMAIN requests :
            requests[k].by = "page" => requests'[k] = requests[k]
    BY PageFacts, ConsumerQuiet
<1>1. rows' = rows /\ requests' \in Seq(Requests) /\ DOMAIN requests \subseteq DOMAIN requests'
    BY <1>0, PageFacts, QuietRequests DEF Quiet
<1>2. Len(rows) <= Len(rows')
    BY <1>1, PageFacts
<1>3. PageTypeOK' /\ KnownInv'
    BY <1>1, <1>2, PageFacts, PageIdle
<1>4. NewestInv'
    BY <1>0, NewestKept DEF pageVars
<1>5. ShownInv'
    BY <1>0, ShownKept DEF pageVars, listVars
<1> QED BY <1>3, <1>4, <1>5, PagerKept DEF PageInv

\* Nor is what the provider does without writing; nobody is told by it.
LEMMA ServedPage ==
    ASSUME IInv, NEW k \in DOMAIN requests, Count(k) \/ Select(k) \/ Throw(k),
           UNCHANGED pageVars
    PROVE  ProviderInv' /\ PageInv'
<1>1. Quiet
    BY PageFacts, ProviderMoves
<1>2. /\ requests \in Seq(Requests)
      /\ \A n \in DOMAIN requests : requests[n] \in Requests
    BY PageFacts
<1>3. CountedOf(requests[k]).told = requests[k].told
      /\ SelectedOf(requests[k]).told = requests[k].told
      /\ ThrownOf(requests[k]).told = requests[k].told
    BY <1>2 DEF CountedOf, SelectedOf, ThrownOf, Requests
<1>4. \/ requests' = [requests EXCEPT ![k] = CountedOf(requests[k])]
      \/ requests' = [requests EXCEPT ![k] = SelectedOf(requests[k])]
      \/ requests' = [requests EXCEPT ![k] = ThrownOf(requests[k])]
    BY <1>2 DEF Count, CountedOf, Select, SelectedOf, Throw, ThrownOf
<1>5. /\ DOMAIN requests' = DOMAIN requests
      /\ \A n \in DOMAIN requests : requests'[n].told = requests[n].told
    BY <1>2, <1>3, <1>4
<1>6. rows' = rows /\ requests' \in Seq(Requests) /\ DOMAIN requests \subseteq DOMAIN requests'
    BY <1>1, PageFacts, QuietRequests DEF Quiet
<1>7. Len(rows) <= Len(rows')
    BY <1>6, PageFacts
<1>8. PageTypeOK' /\ KnownInv'
    BY <1>6, <1>7, PageFacts, PageIdle
<1>9. NewestInv'
    BY <1>1, <1>5, NewestKept DEF pageVars
<1>10. ShownInv'
    BY <1>1, ShownKept DEF pageVars, listVars
<1> QED BY <1>1, <1>8, <1>9, <1>10, PageFacts, PagerKept, QuietInv DEF PageInv

\* A write makes the lists of before old, and tells nobody.
LEMMA WritePage ==
    ASSUME IInv, NEW k \in DOMAIN requests, Write(k), UNCHANGED pageVars
    PROVE  PageInv'
<1>1. /\ requests[k] \in Requests /\ requests[k].op \in Writes
      /\ requests[k].phase = "sent"
      /\ requests[k].account = Gone => requests[k].op = "delete"
      /\ rows' = Effect(requests[k]) /\ writes' = writes + 1
      /\ requests' \in Seq(Requests) /\ DOMAIN requests' = DOMAIN requests
      /\ \A m \in DOMAIN requests \ {k} : requests'[m] = requests[m]
      /\ \E code, at, id : requests'[k] = WrittenOf(requests[k], code, at, id)
    BY PageFacts, WriteRequests
<1>2. /\ requests'[k].by = requests[k].by /\ requests'[k].op = requests[k].op
      /\ requests'[k].told = requests[k].told /\ requests[k].told # "answer"
      /\ requests[k].op # "list"
    <2>1. RequestOK(k)
        BY PageFacts
    <2>2. requests[k].told # "answer" /\ requests[k].op # "list"
        BY <1>1, <2>1 DEF RequestOK, ListOK, Writes
    <2>3. PICK code, at, id : requests'[k] = WrittenOf(requests[k], code, at, id)
        BY <1>1
    <2> QED BY <1>1, <2>2, <2>3 DEF WrittenOf, Requests
<1>3. PageTypeOK' /\ KnownInv'
    <2>1. /\ rows' \in Seq(Account \union {Gone}) /\ Len(rows) <= Len(rows')
          /\ DOMAIN rows \subseteq DOMAIN rows'
        BY <1>1, PageFacts, EffectRows, WriteRequests
    <2> QED BY <1>1, <2>1, PageIdle
<1>4. Lists' = Lists /\ k \notin Lists
    BY <1>1, <1>2 DEF Lists
<1>5. NewestInv'
    <2>1. PICK m \in Lists :
            /\ Newest(m) /\ requests[m].page = <<pageNo, pageSize>>
            /\ requests[m].phase # "sent" /\ requests[m].code = CODE_SUCCESS =>
                  \A n \in DOMAIN requests :
                      /\ requests[n].by = "page" /\ requests[n].op \in Writes
                      /\ requests[n].told = "answer"
                      => requests[n].at <= requests[m].at
        BY PageFacts DEF NewestInv
    <2>2. m \in DOMAIN requests \ {k} /\ requests'[m] = requests[m]
        BY <1>1, <1>4, <2>1 DEF Lists
    <2>3. Newest(m)' /\ m \in Lists'
        BY <1>4, <2>1 DEF Newest
    <2>4. ASSUME requests'[m].phase # "sent", requests'[m].code = CODE_SUCCESS,
                 NEW n \in DOMAIN requests', requests'[n].by = "page",
                 requests'[n].op \in Writes, requests'[n].told = "answer"
          PROVE  requests'[n].at <= requests'[m].at
        BY <1>1, <1>2, <2>1, <2>2, <2>4
    <2>5. requests'[m].page = <<pageNo', pageSize'>>
        BY <2>1, <2>2 DEF pageVars
    <2> QED BY <2>3, <2>4, <2>5 DEF NewestInv
<1>6. ShownInv'
    <2> SUFFICES ASSUME listOf # 0
                 PROVE  /\ listOf \in Lists' /\ requests'[listOf].told = "answer"
                        /\ requests'[listOf].code = CODE_SUCCESS
                        /\ requests'[listOf].at # writes'
        BY DEF ShownInv, pageVars, listVars
    <2>1. /\ listOf \in Lists /\ listOf \in DOMAIN requests
          /\ requests[listOf].told = "answer" /\ requests[listOf].code = CODE_SUCCESS
        BY PageFacts DEF ShownInv, Lists
    <2>2. requests'[listOf] = requests[listOf]
        BY <1>1, <1>4, <2>1
    <2>3. requests[listOf].at <= writes /\ requests[listOf].at \in Nat /\ writes \in Nat
        BY <2>1, PageFacts DEF RequestOK, ListOK, Requests
    <2> QED BY <1>1, <1>4, <2>1, <2>2, <2>3
<1> QED BY <1>3, <1>5, <1>6, PagerKept DEF PageInv

-----------------------------------------------------------------------------
(***************************************************************************)
(* The theorems.                                                           *)
(***************************************************************************)
LEMMA Initially == AccountsInit => IInv
<1> SUFFICES ASSUME AccountsInit PROVE IInv
    OBVIOUS
<1> DEFINE first == Request("page", "list", 0, Gone, <<1, Min(PageSizes)>>)
<1>1. /\ rows \in Seq(Account) /\ writes = 0 /\ rows \in Seq(Account \union {Gone})
      /\ Len(rows) \in Nat
    <2>1. rows \in Seq(Account) /\ writes = 0
        BY RowsAssumption DEF AccountsInit, ProviderInit
    <2> QED BY <2>1
<1>2. /\ pageNo = 1 /\ pageSize = Min(PageSizes) /\ list = << >> /\ total = 0
      /\ editType = "?" /\ editDialogVisible = FALSE /\ editUser = NoUser
      /\ listOf = 0 /\ typed = {} /\ requests = <<first>>
      /\ internalCurrentPage = 1 /\ lastEmittedPage = 0
      /\ userChangePageSize = FALSE /\ emitting = FALSE
    BY DEF AccountsInit, PageInit
<1>3. Min(PageSizes) \in PageSizes /\ Min(PageSizes) \in Nat
    BY SizesBounds, SizesAssumption
<1>4. /\ first \in Requests /\ first.phase = "sent" /\ first.told = "waiting"
      /\ first.at = 0 /\ first.records = << >> /\ first.id = 0
      /\ first.by = "page" /\ first.op = "list" /\ first.page = <<1, Min(PageSizes)>>
    BY <1>3 DEF Request, Requests, Reads
<1> HIDE DEF first
<1>5. /\ requests \in Seq(Requests) /\ DOMAIN requests = {1} /\ requests[1] = first
      /\ Len(requests) = 1
    BY <1>2, <1>4
<1>6. ProviderInv
    <2>1. Written = {}
        BY <1>4, <1>5 DEF Written
    <2>2. writes \in Nat /\ writes = Cardinality(Written)
        BY <1>1, <2>1, FS_EmptySet
    <2>3. ListOK(first)
        BY <1>1, <1>3, <1>4 DEF ListOK
    <2>4. \A k \in DOMAIN requests : RequestOK(k)
        BY <1>1, <1>4, <1>5, <2>3 DEF RequestOK, Writes
    <2> QED BY <1>1, <1>5, <2>2, <2>4, ProviderInvDef DEF ServedOK
<1>7. PageTypeOK
    <2>1. editUser \in [id : Nat, account : Account \union {Gone}, row : 0 .. Len(list)]
        BY <1>2 DEF NoUser
    <2>2. pageNo \in Nat \ {0} /\ internalCurrentPage \in Nat \ {0}
        BY <1>2
    <2>3. list \in Seq(Row) /\ typed \subseteq DOMAIN list /\ total \in Nat
        BY <1>2
    <2>4. listOf \in 0 .. Len(requests)
        BY <1>2, <1>5
    <2> QED BY <1>2, <1>3, <2>1, <2>2, <2>3, <2>4 DEF PageTypeOK
<1>8. KnownInv
    BY <1>1, <1>2 DEF KnownInv, NoUser
<1>9. NewestInv
    <2>1. Lists = {1}
        BY <1>4, <1>5 DEF Lists
    <2> QED BY <1>2, <1>4, <1>5, <2>1 DEF NewestInv, Newest
<1>10. ShownInv
    BY <1>2 DEF ShownInv
<1>11. PagerInRange
    <2>1. internalPageCount(total, pageSize) \in Nat
        BY <1>2, <1>3, PageCounts
    <2>2. LastPage(internalPageCount(total, pageSize)) \in Nat \ {0}
        BY <2>1 DEF LastPage
    <2> QED BY <1>2, <2>2 DEF PagerInRange
<1>12. VersionsInv
    <2>1. Written = {} /\ \A id, n : WritesTo(id, n) = {}
        BY <1>4, <1>5 DEF Written, WritesTo
    <2>2. \A id \in Live : HadSince([id |-> id, account |-> rows[id]], writes)
        BY <2>1 DEF HadSince, Live, AccountsInit, ProviderInit
    <2> QED BY <1>4, <1>5, <2>2 DEF VersionsInv
<1> QED BY <1>6, <1>7, <1>8, <1>9, <1>10, <1>11, <1>12 DEF IInv, PageInv

LEMMA Inductively == IInv /\ [AccountsNext]_accountVars => IInv'
<1> SUFFICES ASSUME IInv, [AccountsNext]_accountVars PROVE IInv'
    OBVIOUS
<1>1. CASE PageStep /\ UNCHANGED <<rows, writes>>
    <2>1. ProviderInv'
        BY <1>1, PageFacts, PageQuiet, QuietInv
    <2>2. PageInv'
        BY <1>1, PageKnows, PageNewest, PageShown, PageInRange DEF PageInv
    <2>3. VersionsInv'
        BY <1>1, PageFacts, PageQuiet, QuietVersions
    <2> QED BY <2>1, <2>2, <2>3 DEF IInv
<1>2. CASE ConsumerStep /\ UNCHANGED pageVars
    <2>1. ProviderInv' /\ VersionsInv'
        BY <1>2, PageFacts, ConsumerQuiet, QuietInv, QuietVersions
    <2> QED BY <1>2, <2>1, ConsumerPage DEF IInv
<1>3. CASE ProviderStep /\ UNCHANGED pageVars
    <2>1. PICK k \in DOMAIN requests : Write(k) \/ Count(k) \/ Select(k) \/ Throw(k)
        BY <1>3 DEF ProviderStep
    <2>2. CASE Write(k)
        BY <1>3, <2>2, PageFacts, WriteInv, WritePage, WriteVersions DEF IInv
    <2>3. CASE Count(k) \/ Select(k) \/ Throw(k)
        <3>1. VersionsInv'
            BY <2>3, PageFacts, ProviderMoves, QuietVersions
        <3> QED BY <1>3, <2>3, <3>1, ServedPage DEF IInv
    <2> QED BY <2>1, <2>2, <2>3
<1>4. CASE UNCHANGED accountVars
    <2>1. UNCHANGED <<rows, writes, requests>> /\ UNCHANGED pageVars
        BY <1>4 DEF accountVars, providerVars
    <2>2. Quiet
        BY <2>1, PageFacts, NothingSent
    <2>3. ProviderInv' /\ VersionsInv'
        BY <2>2, PageFacts, QuietInv, QuietVersions
    <2>4. Len(rows) <= Len(rows')
        BY <2>1, PageFacts
    <2>5. PageTypeOK' /\ KnownInv'
        BY <2>1, <2>4, PageFacts, PageIdle
    <2>6. NewestInv' /\ ShownInv'
        BY <2>1, <2>2, NewestKept, ShownKept DEF pageVars, listVars
    <2> QED BY <2>1, <2>3, <2>5, <2>6, PagerKept DEF IInv, PageInv
<1> QED BY <1>1, <1>2, <1>3, <1>4 DEF AccountsNext

\* Whatever the interleaving of page, consumer and provider, the state is well
\* formed, no write answered with success is undone but by a later one, no list is
\* older than it claims, and every row is what the last write to it has left.
THEOREM Inductive == AccountsSpec => []IInv
<1> QED BY Initially, Inductively, PTL DEF AccountsSpec

\* A write of which a client was told that it succeeded (add(), update() and
\* delete() of AccountApi) is in the table until a later write changes its row, and
\* a deleted account stays deleted.
THEOREM Success == AccountsSpec => []SuccessKept
<1>1. IInv => SuccessKept
    <2> SUFFICES ASSUME IInv, NEW k \in DOMAIN requests, requests[k].told = "answer",
                        requests[k].code = CODE_SUCCESS, requests[k].op \in Writes
                 PROVE  Kept(k)
        BY DEF SuccessKept
    <2> QED BY PageFacts DEF RequestOK, ListOK
<1> QED BY <1>1, Inductive, PTL

\* A page to which nothing is under way shows the table, as of a time after every
\* write it was told of: the getListData() in create(), update() and handleDelete()
\* is enough, in whatever order the answers come.
THEOREM Settles == AccountsSpec => []ListSettles
<1>1. IInv => ListSettles
    <2> SUFFICES ASSUME IInv, Settled PROVE ListSettles
        BY DEF ListSettles
    <2>1. PICK m \in Lists :
            /\ Newest(m) /\ requests[m].page = <<pageNo, pageSize>>
            /\ requests[m].phase # "sent" /\ requests[m].code = CODE_SUCCESS =>
                  \A k \in DOMAIN requests :
                      /\ requests[k].by = "page" /\ requests[k].op \in Writes
                      /\ requests[k].told = "answer"
                      => requests[k].at <= requests[m].at
        BY PageFacts DEF NewestInv
    <2>2. Lists \subseteq Int /\ m \in Int /\ m # 0
        BY <2>1, PageFacts DEF Lists
    <2>3. Max(Lists) \in Lists /\ Max(Lists) >= m
        BY <2>1, <2>2 DEF Max, Newest
    <2>4. listOf = m
        <3>1. Max(Lists) <= m /\ Max(Lists) \in Int
            BY <2>1, <2>2, <2>3 DEF Newest
        <3>2. Max(Lists) = m
            BY <2>2, <2>3, <3>1
        <3> QED BY <3>2 DEF Settled
    <2>5. /\ requests[m].told = "answer" /\ requests[m].code = CODE_SUCCESS
          /\ requests[m].phase = "answered"
        BY <2>1, <2>2, <2>4, PageFacts DEF ShownInv, RequestOK, ListOK, Lists
    <2>6. requests[m].page[1] = pageNo /\ requests[m].page[2] = pageSize
        BY <2>1
    <2> QED BY <2>1, <2>2, <2>4, <2>5, <2>6, PageFacts DEF ListSettles, ShownInv
<1> QED BY <1>1, Inductive, PTL

\* The request whose answer is shown has no more to come.
LEMMA ShownSame ==
    ASSUME IInv, listOf # 0
    PROVE  /\ listOf \in DOMAIN requests /\ requests[listOf].op = "list"
           /\ requests[listOf].at \in Nat /\ requests[listOf].at <= writes
           /\ Quiet => requests'[listOf] = requests[listOf]
<1>1. /\ listOf \in DOMAIN requests /\ requests[listOf].told = "answer"
      /\ requests[listOf].op = "list"
    BY PageFacts DEF ShownInv, Lists
<1>2. /\ requests[listOf] \in Requests /\ requests[listOf].phase = "answered"
      /\ requests[listOf].at <= writes
    BY <1>1, PageFacts DEF RequestOK, ListOK
<1>3. Quiet => requests'[listOf] = requests[listOf]
    BY <1>1, <1>2 DEF Quiet, Moved
<1> QED BY <1>1, <1>2, <1>3 DEF Requests

\* Rows that stay on the screen are no less fresh after a step.
LEMMA FreshKept ==
    ASSUME IInv, ListFresh, listOf' = listOf,
           \A i \in DOMAIN list' \ typed' : i \in DOMAIN list \ typed /\ list'[i] = list[i],
           Quiet \/ \E k \in DOMAIN requests : Write(k)
    PROVE  ListFresh'
<1> SUFFICES ASSUME listOf # 0, NEW i \in DOMAIN list' \ typed'
             PROVE  HadSince(list[i], requests[listOf].at)'
    BY DEF ListFresh
<1>1. /\ HadSince(list[i], requests[listOf].at) /\ list'[i] = list[i]
      /\ requests[listOf].at \in Nat /\ requests[listOf].at <= writes
    BY ShownSame DEF ListFresh
<1>2. CASE Quiet
    <2>1. requests'[listOf] = requests[listOf]
        BY <1>2, ShownSame
    <2> QED BY <1>1, <1>2, <2>1, PageFacts, QuietHad
<1>3. CASE \E k \in DOMAIN requests : Write(k)
    <2>1. PICK k \in DOMAIN requests : Write(k)
        BY <1>3
    <2>2. requests'[listOf] = requests[listOf]
        <3>1. requests[k].op # "list" /\ \A m \in DOMAIN requests \ {k} : requests'[m] = requests[m]
            BY <2>1, PageFacts, WriteRequests DEF Writes
        <3> QED BY <3>1, ShownSame
    <2>3. \A row : \A n \in Nat : n <= writes /\ HadSince(row, n) => HadSince(row, n)'
        BY <2>1, PageFacts, WriteHad
    <2> QED BY <1>1, <2>2, <2>3
<1> QED BY <1>2, <1>3

LEMMA FreshStep ==
    ASSUME IInv, ListFresh, [AccountsNext]_accountVars
    PROVE  ListFresh'
<1>1. ASSUME UNCHANGED <<list, listOf, typed>>,
             Quiet \/ \E k \in DOMAIN requests : Write(k)
      PROVE  ListFresh'
    BY <1>1, FreshKept
<1>2. CASE PageStep /\ UNCHANGED <<rows, writes>>
    <2>0. Quiet
        BY <1>2, PageQuiet
    <2>1. CASE \E a \in Account : Type(a)
        <3>1. PICK a \in Account : Type(a)
            BY <2>1
        <3>2. listOf' = listOf
            BY <3>1 DEF Type
        <3>3. \A i \in DOMAIN list' \ typed' : i \in DOMAIN list \ typed /\ list'[i] = list[i]
            <4>1. CASE editUser.row = 0
                BY <3>1, <4>1 DEF Type
            <4>2. CASE editUser.row # 0
                <5>1. /\ list' = [list EXCEPT ![editUser.row].account = a]
                      /\ typed' = typed \union {editUser.row}
                    BY <3>1, <4>2 DEF Type
                <5> QED BY <5>1
            <4> QED BY <4>1, <4>2
        <3> QED BY <2>0, <3>2, <3>3, FreshKept
    <2>2. CASE \E k \in DOMAIN requests : ListAnswered(k)
        <3>1. PICK k \in DOMAIN requests : ListAnswered(k)
            BY <2>2
        <3>2. CASE requests[k].code = CODE_SUCCESS
            <4>1. /\ list' = requests[k].records /\ listOf' = k
                  /\ requests' = [requests EXCEPT ![k] = ToldOf(requests[k])]
                BY <3>1, <3>2, PageFacts, ProviderMoves DEF ListAnswered
            <4>2. requests'[k].at = requests[k].at
                BY <4>1, PageFacts DEF ToldOf, Requests
            <4>3. \A i \in DOMAIN list' : HadSince(list'[i], requests[k].at)
                BY <4>1, PageFacts, VersionsDef DEF RecordsFresh
            <4>4. \A i \in DOMAIN list' : HadSince(list[i], requests[listOf].at)'
                BY <2>0, <4>1, <4>2, <4>3, PageFacts, QuietHad
            <4> QED BY <4>4 DEF ListFresh
        <3>3. CASE requests[k].code # CODE_SUCCESS
            BY <1>1, <2>0, <3>1, <3>3 DEF ListAnswered, listVars
        <3> QED BY <3>2, <3>3
    <2>3. CASE UNCHANGED <<list, listOf, typed>>
        BY <1>1, <2>0, <2>3
    <2>4. \/ UNCHANGED <<list, listOf, typed>>
          \/ \E a \in Account : Type(a)
          \/ \E k \in DOMAIN requests : ListAnswered(k)
        BY <1>2, PageTurns DEF Query, handleAdd, Close, Submit, handleSizeChange, Turns,
               handleCurrentChange, handleUpdate, handleDelete, Dialog, WriteAnswered, Fails,
               pageVars, listVars
    <2> QED BY <2>1, <2>2, <2>3, <2>4
<1>3. CASE ConsumerStep /\ UNCHANGED pageVars
    BY <1>1, <1>3, PageFacts, ConsumerQuiet DEF pageVars, listVars
<1>4. CASE ProviderStep /\ UNCHANGED pageVars
    <2>1. Quiet \/ \E k \in DOMAIN requests : Write(k)
        BY <1>4, PageFacts, ProviderMoves DEF ProviderStep
    <2> QED BY <1>1, <1>4, <2>1 DEF pageVars, listVars
<1>5. CASE UNCHANGED accountVars
    <2>1. Quiet
        BY <1>5, PageFacts, NothingSent DEF accountVars, providerVars
    <2> QED BY <1>1, <1>5, <2>1 DEF accountVars, pageVars, listVars
<1> QED BY <1>2, <1>3, <1>4, <1>5 DEF AccountsNext

\* No row on the screen is older than the list it came with, whichever answer came
\* last and whatever was written between the count and the select of list() in
\* AccountServiceImpl: it is a row the table has had since the list was begun.
THEOREM Fresh == AccountsSpec => []ListFresh
<1>1. AccountsInit => ListFresh
    BY DEF AccountsInit, PageInit, ListFresh
<1>2. IInv /\ ListFresh /\ [AccountsNext]_accountVars => ListFresh'
    BY FreshStep
<1> QED BY <1>1, <1>2, Inductive, PTL DEF AccountsSpec

\* The page el-pagination shows as the current one (:current-page and :total of
\* index.html) is one there is, and never after the page that is listed, however
\* clicks, changes of the size and answers to getListData() follow one another.
THEOREM PagerStays == AccountsSpec => []PagerInRange
<1>1. IInv => PagerInRange
    BY PageFacts
<1> QED BY <1>1, Inductive, PTL
=============================================================================
