------------------------------ MODULE Wishlists ------------------------------
(***************************************************************************)
(* GET /wishlist, POST and DELETE of its items, DELETE /wishlist, and the  *)
(* deletion of books beside them.  Whatever handler comes first creates    *)
(* the user's wishlist.  A handler reads first and writes later without a  *)
(* lock; unique and foreign keys catch what has changed in between, and an *)
(* IntegrityError nobody handles ends the request with a 500.              *)
(*                                                                         *)
(* A request runs one handler in one transaction.  A wishlist and an item  *)
(* are named by the request that inserted them.  The books here are on no  *)
(* order; BookService has what an order does to a deletion.                *)
(***************************************************************************)

CONSTANTS
    Users,
    Books,
    Requests,
    Owner,          \* Owner[r]: the authenticated user of r
    Nil             \* no wishlist, no book

ASSUME WishlistsAssumption ==
    Owner \in [Requests -> Users] /\ Nil \notin Requests \cup Books

VARIABLES
    live,           \* the committed books
    list,           \* list[u]: the committed wishlist of u, or Nil
    items,          \* the committed wishlist items
    pc,             \* pc[r]: the next step of r, or how it ended
    task,           \* task[r]: the handler and the book of r
    created,        \* the requests that have inserted a wishlist, not yet committed
    inserted,       \* inserted[r]: the item r has inserted and not yet committed
    doomed,         \* doomed[r]: the items r has selected for deletion
    overtaken       \* history: the running requests during which another has committed

vars == <<live, list, items, pc, task, created, inserted, doomed, overtaken>>
committed == <<live, list, items>>

Kinds == {"get", "add", "remove", "clear", "withdraw"}
Task == [kind : {"add", "withdraw"}, book : Books]
          \cup [kind : {"none", "get", "remove", "clear"}, book : {Nil}]
Item == [user : Users, book : Books, id : Requests]
Ended == {"ok", "refused", "failed"}
Running(r) == pc[r] \notin {"new"} \cup Ended

Goto(r, step) == pc' = [pc EXCEPT ![r] = step]

Book(r) == task[r].book
ItemsOf(u) == {i \in items : i.user = u}
Same(r) == {i \in ItemsOf(Owner[r]) : i.book = Book(r)}

-----------------------------------------------------------------------------
(* Transactions.                                                           *)

\* What others have written and not committed.
Deleting(r) == UNION {doomed[x] : x \in {y \in Requests \ {r} : pc[y] \in {"erase", "commit"}}}
Inserting(r) == UNION {inserted[x] : x \in Requests \ {r}}
Withdrawing(b) == \E x \in Requests : task[x].kind = "withdraw" /\ Book(x) = b /\ pc[x] = "commit"

\* The request ends, and with it what it has written without a commit.
End(r, outcome) ==
    /\ Goto(r, outcome)
    /\ created' = created \ {r}
    /\ inserted' = [inserted EXCEPT ![r] = {}]
    /\ doomed' = [doomed EXCEPT ![r] = {}]

Rollback(r, outcome) ==
    End(r, outcome) /\ UNCHANGED <<committed, task, overtaken>>

Commit(r) ==
    /\ pc[r] = "commit"
    /\ live' = IF task[r].kind = "withdraw" THEN live \ {Book(r)} ELSE live
    /\ list' = IF r \in created THEN [list EXCEPT ![Owner[r]] = r] ELSE list
    /\ items' = (items \ doomed[r]) \cup inserted[r]
    /\ End(r, "ok")
    /\ overtaken' = overtaken \cup {x \in Requests : Running(x) /\ x # r}
    /\ UNCHANGED task

-----------------------------------------------------------------------------
(* _get_or_create_wishlist, with which every handler begins; add_item looks *)
(* for the book before.                                                     *)

\* Mutant: WishlistItemCreate.book_id may be left out.
SubjectsOptional(k) == IF k \in {"add", "withdraw"} THEN Books \cup {Nil} ELSE {Nil}

\* Two handlers are about a book; remove_item is about any item.
Subjects(k) == IF k \in {"add", "withdraw"} THEN Books ELSE {Nil}

Receive(r) ==
    /\ pc[r] = "new"
    /\ \E k \in Kinds : \E b \in Subjects(k) :
          /\ task' = [task EXCEPT ![r] = [kind |-> k, book |-> b]]
          /\ Goto(r, CASE k = "add" /\ b \notin live -> "refused"
                       [] k = "withdraw"             -> "select"
                       [] OTHER                      -> "fetch")
    /\ UNCHANGED <<committed, created, inserted, doomed, overtaken>>

\* Where the handler goes once it has the wishlist.
Continue(r) ==
    Goto(r, CASE task[r].kind = "get" -> "commit"
              [] task[r].kind = "add" -> "lookup"
              [] OTHER                -> "select")

FetchList(r) ==
    /\ pc[r] = "fetch"
    /\ \/ list[Owner[r]] # Nil /\ Continue(r)
       \/ list[Owner[r]] = Nil /\ Goto(r, "create")
    /\ UNCHANGED <<committed, task, created, inserted, doomed, overtaken>>

\* INSERT INTO wishlists waits for another one with the same user_id.
CreateList(r) ==
    /\ pc[r] = "create"
    /\ \A x \in created : Owner[x] # Owner[r]
    /\ \/ /\ list[Owner[r]] = Nil
          /\ created' = created \cup {r}
          /\ Continue(r)
          /\ UNCHANGED <<committed, task, inserted, doomed, overtaken>>
       \/ list[Owner[r]] # Nil /\ Rollback(r, "failed")

-----------------------------------------------------------------------------
(* add_item                                                                *)

\* Mutant: the item is inserted without looking.
AfterLookupInsert(r) == "insert"

\* get_item_by_book: a duplicate is passed over.
AfterLookup(r) == IF Same(r) = {} THEN "insert" ELSE "commit"

Lookup(r) ==
    /\ pc[r] = "lookup"
    /\ Goto(r, AfterLookup(r))
    /\ UNCHANGED <<committed, task, created, inserted, doomed, overtaken>>

\* Mutant: book_id is no foreign key.
MayInsertAny(r) == Same(r) = {}

\* uq_wishlist_items_wishlist_id_book_id and the foreign key to books.
MayInsert(r) == Same(r) = {} /\ Book(r) \in live

Insert(r) ==
    LET item == [user |-> Owner[r], book |-> Book(r), id |-> r] IN
    /\ pc[r] = "insert"
    /\ Same(r) \cap Deleting(r) = {} /\ ~Withdrawing(Book(r))
    /\ \A i \in Inserting(r) : i.user # item.user \/ i.book # item.book
    /\ \/ /\ MayInsert(r)
          /\ inserted' = [inserted EXCEPT ![r] = {item}]
          /\ Goto(r, "commit")
          /\ UNCHANGED <<committed, task, created, doomed, overtaken>>
       \/ ~MayInsert(r) /\ Rollback(r, "failed")

-----------------------------------------------------------------------------
(* remove_item, clear_wishlist, delete_book: select, then delete.          *)

Select(r, chosen) ==
    /\ doomed' = [doomed EXCEPT ![r] = chosen]
    /\ Goto(r, "delete")
    /\ UNCHANGED <<committed, task, created, inserted, overtaken>>

\* An item id of another wishlist, or of none, is a 404; so is a book that is gone.
SelectItems(r) ==
    /\ pc[r] = "select"
    /\ CASE task[r].kind = "remove" ->
              \/ \E i \in ItemsOf(Owner[r]) : Select(r, {i})
              \/ Rollback(r, "refused")
         [] task[r].kind = "clear" -> Select(r, ItemsOf(Owner[r]))
         [] task[r].kind = "withdraw" ->
              \/ Book(r) \in live /\ Select(r, {i \in items : i.book = Book(r)})
              \/ Book(r) \notin live /\ Rollback(r, "refused")

\* DELETE waits for other deletes of the same rows, passes over rows gone.
Delete(r) ==
    /\ pc[r] = "delete"
    /\ doomed[r] \cap Deleting(r) = {}
    /\ Goto(r, IF task[r].kind = "withdraw" THEN "erase" ELSE "commit")
    /\ UNCHANGED <<committed, task, created, inserted, doomed, overtaken>>

\* The items that were inserted after the selection.
Left(r) == {i \in items : i.book = Book(r)} \ doomed[r]

\* DELETE FROM books waits for those who hold the row in a foreign key check or
\* delete one of the items left; an item left fails it.
Erase(r) ==
    /\ pc[r] = "erase"
    /\ ~Withdrawing(Book(r)) /\ Left(r) \cap Deleting(r) = {}
    /\ \A i \in Inserting(r) : i.book # Book(r)
    /\ \/ /\ Left(r) = {} /\ Goto(r, "commit")
          /\ UNCHANGED <<committed, task, created, inserted, doomed, overtaken>>
       \/ Left(r) # {} /\ Rollback(r, "failed")

-----------------------------------------------------------------------------
Init ==
    /\ live = Books
    /\ list = [u \in Users |-> Nil]
    /\ items = {}
    /\ pc = [r \in Requests |-> "new"]
    /\ task = [r \in Requests |-> [kind |-> "none", book |-> Nil]]
    /\ created = {}
    /\ inserted = [r \in Requests |-> {}]
    /\ doomed = [r \in Requests |-> {}]
    /\ overtaken = {}

Step(r) ==
    \/ Receive(r) \/ FetchList(r) \/ CreateList(r) \/ Lookup(r) \/ Insert(r)
    \/ SelectItems(r) \/ Delete(r) \/ Erase(r) \/ Commit(r)

\* Every request has ended or was never sent.
Idle == (\A r \in Requests : ~Running(r)) /\ UNCHANGED vars

Next == (\E r \in Requests : Step(r)) \/ Idle

Spec == Init /\ [][Next]_vars

-----------------------------------------------------------------------------
\* Requests do what they were sent for; rows are rows.
TypeOK ==
    /\ live \subseteq Books
    /\ list \in [Users -> Requests \cup {Nil}]
    /\ items \subseteq Item
    /\ pc \in [Requests -> {"new", "fetch", "create", "lookup", "insert", "select",
                            "delete", "erase", "commit"} \cup Ended]
    /\ task \in [Requests -> Task]
    /\ created \subseteq Requests /\ overtaken \subseteq Requests
    /\ inserted \in [Requests -> SUBSET Item] /\ doomed \in [Requests -> SUBSET Item]

\* Whatever handlers and deletions overlap, each item is in a wishlist that
\* exists, is about a book that exists, and is the only one of the two
\* (wishlist_service.py:39-46, book_service.py:209-217).
ItemsBelong ==
    \A i \in items :
        /\ list[i.user] # Nil /\ i.book \in live
        /\ \A j \in items : j.user = i.user /\ j.book = i.book => j = i

\* A 500 is only ever the price of a race: a request fails only if another has
\* committed since it began, so one that is sent again by itself does not fail
\* the same way, a duplicate addition included (wishlist_service.py:40).
FailsOnlyWhenOvertaken == \A r \in Requests : pc[r] = "failed" => r \in overtaken
=============================================================================
