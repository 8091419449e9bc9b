----------------------------- MODULE AccountPage ----------------------------
(***************************************************************************)
(* index.html of web-api-provider: the list of accounts and its edit       *)
(* dialog.  Requests go out through the global axios, which has no         *)
(* timeout, and their handlers run in the order the answers come in.  The  *)
(* handlers look at no code: any answer with HTTP status 200 is a success  *)
(* to them.                                                                *)
(*                                                                         *)
(* el-pagination under the list keeps a page number of its own, which      *)
(* follows that of the page, the clicks of the user and the total.         *)
(***************************************************************************)
EXTENDS AccountProvider

VARIABLES pageNo, pageSize, list, total,
          editType, editDialogVisible,
          editUser,  \* row: the row of list it is, or 0 for an object of its own
          listOf,    \* the request whose answer list is, or 0
          typed,     \* the rows of list the user has typed into
          internalCurrentPage,  \* the page el-pagination shows as the current one
          lastEmittedPage,      \* the page it has told, or 0 when that is another by now
          userChangePageSize,   \* the user has changed the size, and no event since
          emitting              \* emitChange has put its event off to nextTick

dialogVars == <<editType, editDialogVisible, editUser>>
listVars == <<list, total, listOf, typed>>
pagerVars == <<internalCurrentPage, lastEmittedPage, userChangePageSize, emitting>>
pageVars == <<pageNo, pageSize, dialogVars, listVars, pagerVars>>

\* The user may start something that needs the server sooner or later.
MayCall == Len(requests) < MaxCalls

getListData(no, size) == Send(Request("page", "list", 0, Gone, <<no, size>>))

\* An account without fields.  A closed dialog is left with it: what it had
\* is never looked at again.
NoUser == [id |-> 0, account |-> Gone, row |-> 0]

PageInit ==
    /\ pageNo = 1 /\ pageSize = Min(PageSizes) /\ list = <<>> /\ total = 0
    /\ editType = "?" /\ editDialogVisible = FALSE /\ editUser = NoUser
    /\ listOf = 0 /\ typed = {}
    /\ internalCurrentPage = 1 /\ lastEmittedPage = 0
    /\ userChangePageSize = FALSE /\ emitting = FALSE
    /\ requests = <<Request("page", "list", 0, Gone, <<pageNo, pageSize>>)>>

-----------------------------------------------------------------------------
\* el-pagination.  The number of pages, rounded up, and the last page it offers.
internalPageCount(rowCount, size) == (rowCount + size - 1) \div size
LastPage(count) == IF count = 0 THEN 1 ELSE count

\* A defect: the current page is not brought back to the last.
PagerFollowsNot(rowCount, size, byUser) ==
    /\ userChangePageSize' = (byUser /\ internalPageCount(rowCount, size)
                                            = internalPageCount(total, pageSize))
    /\ UNCHANGED <<internalCurrentPage, lastEmittedPage, emitting>>

\* The watcher of internalPageCount.  When there are fewer pages, the last is the
\* current one, but the page is told only if the user has changed the size.
PagerFollows(rowCount, size, byUser) ==
    LET count == internalPageCount(rowCount, size)
        page == IF internalCurrentPage > count THEN LastPage(count) ELSE internalCurrentPage
    IN  IF count = internalPageCount(total, pageSize)
        THEN /\ userChangePageSize' = byUser
             /\ UNCHANGED <<internalCurrentPage, lastEmittedPage, emitting>>
        ELSE /\ internalCurrentPage' = page /\ userChangePageSize' = FALSE
             /\ lastEmittedPage' = IF page = internalCurrentPage THEN lastEmittedPage ELSE 0
             /\ emitting' = (/\ byUser /\ internalCurrentPage > count
                             /\ page # lastEmittedPage')

-----------------------------------------------------------------------------
\* What the user does.  An open dialog covers the list.
Query == /\ MayCall /\ ~editDialogVisible
         /\ getListData(pageNo, pageSize)
         /\ UNCHANGED pageVars

handleSizeChange(size) ==
    /\ MayCall /\ ~editDialogVisible /\ size # pageSize
    /\ pageSize' = size
    /\ getListData(pageNo, pageSize')
    /\ PagerFollows(total, size, TRUE)
    /\ UNCHANGED <<pageNo, listVars, dialogVars>>

\* The event of el-pagination.
handleCurrentChange(no) ==
    /\ pageNo' = no /\ lastEmittedPage' = no /\ userChangePageSize' = FALSE
    /\ getListData(pageNo', pageSize)
    /\ UNCHANGED <<pageSize, listVars, dialogVars>>

\* The user turns to a page that is offered: by its number, from the one before
\* or after, or in the input field, which takes the current page as well.
TurnTo(no) ==
    /\ MayCall /\ ~editDialogVisible
    /\ no # lastEmittedPage \/ userChangePageSize
    /\ internalCurrentPage' = no
    /\ handleCurrentChange(no)
    /\ UNCHANGED emitting

\* The event that was put off, before anything else happens in the page.
EmitChange ==
    /\ emitting /\ emitting' = FALSE
    /\ handleCurrentChange(internalCurrentPage)
    /\ UNCHANGED internalCurrentPage

handleDelete(id) ==
    /\ MayCall /\ ~editDialogVisible
    /\ Send(Request("page", "delete", id, Gone, <<0, 0>>))
    /\ UNCHANGED pageVars

Dialog(type, user) ==
    /\ MayCall /\ ~editDialogVisible
    /\ editType' = type /\ editDialogVisible' = TRUE /\ editUser' = user
    /\ UNCHANGED <<pageNo, pageSize, listVars, pagerVars, requests>>

handleAdd == Dialog("create", NoUser)

\* The dialog edits the row of the list itself, not a copy.
handleUpdate(i) == Dialog("update", [id |-> list[i].id, account |-> list[i].account, row |-> i])

Type(account) ==
    /\ editDialogVisible /\ account # editUser.account
    /\ editUser' = [editUser EXCEPT !.account = account]
    /\ IF editUser.row = 0 THEN UNCHANGED <<list, typed>>
       ELSE /\ list' = [list EXCEPT ![editUser.row].account = account]
            /\ typed' = typed \union {editUser.row}
    /\ UNCHANGED <<pageNo, pageSize, total, editType, editDialogVisible, listOf, pagerVars,
                   requests>>

Closed == editType' = "?" /\ editDialogVisible' = FALSE /\ editUser' = NoUser

Close == /\ editDialogVisible /\ Closed
         /\ UNCHANGED <<pageNo, pageSize, listVars, pagerVars, requests>>

\* create() or update(); the dialog stays open until the answer comes, and
\* the button can be pressed again.
Submit ==
    /\ MayCall /\ editDialogVisible
    /\ Send(Request("page", IF editType = "create" THEN "add" ELSE "update",
                    editUser.id, editUser.account, <<0, 0>>))
    /\ UNCHANGED pageVars

-----------------------------------------------------------------------------
\* The answers.
Waits(k) == requests[k].by = "page" /\ requests[k].told = "waiting"

\* A defect: an answer without rows sets the total and not the list.
ListAnsweredIfAny(k) ==
    /\ Waits(k) /\ requests[k].op = "list" /\ requests[k].phase = "answered"
    /\ requests' = Told(k)
    /\ IF requests[k].code = CODE_SUCCESS
       THEN /\ list' = IF requests[k].records = <<>> THEN list ELSE requests[k].records
            /\ total' = requests[k].total
            /\ editUser' = [editUser EXCEPT !.row = 0]
            /\ listOf' = k /\ typed' = {}
            /\ PagerFollows(total', pageSize, userChangePageSize)
       ELSE UNCHANGED <<listVars, editUser, pagerVars>>
    /\ UNCHANGED <<pageNo, pageSize, editType, editDialogVisible>>

\* An answer to getListData.  With code 0 it has no data: reading that throws,
\* and the catch leaves the list as it is.
ListAnswered(k) ==
    /\ Waits(k) /\ requests[k].op = "list" /\ requests[k].phase = "answered"
    /\ requests' = Told(k)
    /\ IF requests[k].code = CODE_SUCCESS
       THEN /\ list' = requests[k].records /\ total' = requests[k].total
            /\ editUser' = [editUser EXCEPT !.row = 0]
            /\ listOf' = k /\ typed' = {}
            /\ PagerFollows(total', pageSize, userChangePageSize)
       ELSE UNCHANGED <<listVars, editUser, pagerVars>>
    /\ UNCHANGED <<pageNo, pageSize, editType, editDialogVisible>>

\* A defect: the list is not asked for again after a write.
WriteAnsweredOnly(k) ==
    /\ Waits(k) /\ requests[k].op \in Writes /\ requests[k].phase = "answered"
    /\ requests' = Told(k)
    /\ IF requests[k].op = "delete" THEN UNCHANGED dialogVars ELSE Closed
    /\ UNCHANGED <<pageNo, pageSize, listVars, pagerVars>>

\* An answer to a write: a message, the dialog closes, the list is reloaded.
WriteAnswered(k) ==
    /\ Waits(k) /\ requests[k].op \in Writes /\ requests[k].phase = "answered"
    /\ requests' = Append(Told(k),
                          Request("page", "list", 0, Gone, <<pageNo, pageSize>>))
    /\ IF requests[k].op = "delete" THEN UNCHANGED dialogVars ELSE Closed
    /\ UNCHANGED <<pageNo, pageSize, listVars, pagerVars>>

\* The request or its answer is lost: an error message at most.
Fails(k) == /\ Waits(k)
            /\ requests' = GivenUp(k)
            /\ UNCHANGED pageVars

Handler ==
    \/ Query \/ handleAdd \/ Close \/ Submit
    \/ \E size \in PageSizes : handleSizeChange(size)
    \/ \E no \in 1 .. LastPage(internalPageCount(total, pageSize)) : TurnTo(no)
    \/ \E i \in DOMAIN list : handleUpdate(i) \/ handleDelete(list[i].id)
    \/ \E a \in Account : Type(a)
    \/ \E k \in DOMAIN requests : ListAnswered(k) \/ WriteAnswered(k) \/ Fails(k)

PageStep == EmitChange \/ (~emitting /\ Handler)

-----------------------------------------------------------------------------
PageTypeOK ==
    /\ pageNo \in Nat \ {0} /\ pageSize \in PageSizes
    /\ list \in Seq(Row) /\ total \in Nat
    /\ editType \in {"?", "create", "update"} /\ editDialogVisible \in BOOLEAN
    /\ editUser \in [id : Nat, account : Account \union {Gone}, row : 0 .. Len(list)]
    /\ listOf \in 0 .. Len(requests) /\ typed \subseteq DOMAIN list
    /\ internalCurrentPage \in Nat \ {0} /\ lastEmittedPage \in Nat
    /\ userChangePageSize \in BOOLEAN /\ emitting \in BOOLEAN

Lists == {k \in DOMAIN requests : requests[k].by = "page" /\ requests[k].op = "list"}

\* Nothing is under way, and what is shown came in answer to the last list
\* the page asked for.
Settled == /\ \A k \in DOMAIN requests : ~Waits(k)
           /\ listOf = Max(Lists)

\* Once the page has settled, its list is newer than every write it was told
\* of, and it is that page of the table, with the right total, unless somebody
\* wrote after the list was begun or the user typed into a row.
ListSettles ==
    Settled =>
        /\ \A k \in DOMAIN requests :
              (requests[k].by = "page" /\ requests[k].op \in Writes /\ requests[k].told = "answer")
                 => requests[k].at <= requests[listOf].at
        /\ requests[listOf].at = writes =>
              LET page == Page(pageNo, pageSize)
              IN  /\ total = Cardinality(Live) /\ Len(list) = Len(page)
                  /\ \A i \in DOMAIN list \ typed : list[i] = page[i]

\* At every moment, also while requests are under way, when an older list has come
\* last, or when writes came between count and select: each row that is shown, and was
\* not typed into, is one the table has had since that list was begun.  A row that
\* was deleted before is not in it, nor fields that were overwritten before.
ListFresh ==
    listOf # 0 =>
        \A i \in DOMAIN list \ typed : HadSince(list[i], requests[listOf].at)

\* The page that el-pagination shows as the current one is there, by the total
\* of the list shown, whichever of size, total and page has changed and in what
\* order; and it is never after the page that is listed.  (It may be before it.)
PagerInRange ==
    /\ internalCurrentPage \in 1 .. LastPage(internalPageCount(total, pageSize))
    /\ internalCurrentPage <= pageNo

-----------------------------------------------------------------------------
\* The page knows no ids but those of rows there are or were.
KnownInv ==
    /\ \A i \in DOMAIN list : list[i].id \in DOMAIN rows
    /\ editUser.id <= Len(rows)

Newest(k) == k \in Lists /\ \A n \in Lists : n <= k

\* The last list the page asked for is of the page it is at, and was not begun
\* before any write the page has been told of.
NewestInv ==
    \E m \in Lists :
        /\ Newest(m)
        /\ requests[m].page = <<pageNo, pageSize>>
        /\ requests[m].phase # "sent" /\ requests[m].code = CODE_SUCCESS =>
              \A k \in DOMAIN requests :
                  /\ requests[k].by = "page" /\ requests[k].op \in Writes
                  /\ requests[k].told = "answer"
                  => requests[k].at <= requests[m].at

\* Until the next write, the list shown is that of the table, but for what the
\* user has typed.
ShownInv ==
    listOf # 0 =>
        /\ listOf \in Lists
        /\ requests[listOf].told = "answer" /\ requests[listOf].code = CODE_SUCCESS
        /\ requests[listOf].at = writes =>
              LET page == Page(requests[listOf].page[1], requests[listOf].page[2])
              IN  /\ total = Cardinality(Live) /\ Len(list) = Len(page)
                  /\ \A i \in DOMAIN list \ typed : list[i] = page[i]

PageInv == PageTypeOK /\ KnownInv /\ NewestInv /\ ShownInv /\ PagerInRange
=============================================================================
