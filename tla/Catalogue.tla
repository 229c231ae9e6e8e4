------------------------------ MODULE Catalogue ------------------------------
(***************************************************************************)
(* The administrators' handlers for books, authors and categories, and the *)
(* references between the three: links says who wrote what, shelf which    *)
(* category a book is in.  A handler loads objects, compares the body with *)
(* what it loaded, and sends SQL only for the differences; no row is       *)
(* locked in between.  Unique and foreign keys catch some of what others   *)
(* have changed meanwhile.                                                 *)
(*                                                                         *)
(* Stock, price and the rows of carts and orders are in BookService.  An   *)
(* empty body, and null for a required column, are left out.               *)
(***************************************************************************)
EXTENDS FiniteSets

CONSTANTS
    Books,
    Authors,
    Categories,
    Names,          \* names of categories
    Isbns,
    Requests,
    Bodies,         \* what an administrator may submit about a book
    InitLive,       \* the books, authors and categories that exist at the start
    InitLinks,
    InitShelf,
    InitIsbn,
    InitNames,
    Keep,           \* a field absent from a body
    Nil             \* no value: a free row, no category, no ISBN, no name

Rows == Books \cup Authors \cup Categories
Link == Books \X Authors
Body == [authors : (SUBSET Authors) \cup {Keep},
         category : Categories \cup {Nil, Keep},
         isbn : Isbns \cup {Nil, Keep}]

\* Three tables with ids of their own.
ASSUME TablesAssumption ==
    /\ Books \cap Authors = {} /\ Books \cap Categories = {} /\ Authors \cap Categories = {}
    /\ Nil \notin Rows \cup Requests \cup Names

\* The tables satisfy the constraints of the schema at the start.
ASSUME CatalogueAssumption ==
    /\ Bodies \subseteq Body
    /\ InitLive \subseteq Rows
    /\ InitLinks \subseteq Link \cap (InitLive \X InitLive)
    /\ InitShelf \in [Books -> (Categories \cap InitLive) \cup {Nil}]
    /\ InitIsbn \in [Books -> Isbns \cup {Nil}]
    /\ InitNames \in [Categories -> Names \cup {Nil}]
    /\ \A b \in Books \ InitLive : InitShelf[b] = Nil /\ InitIsbn[b] = Nil
    /\ \A b, d \in Books : InitIsbn[b] = InitIsbn[d] => b = d \/ InitIsbn[b] = Nil
    /\ \A c \in Categories : InitNames[c] = Nil <=> c \notin InitLive
    /\ \A c, d \in Categories : InitNames[c] = InitNames[d] => c = d \/ InitNames[c] = Nil

VARIABLES
    live,           \* the committed books, authors and categories
    links,          \* the committed rows of book_authors
    shelf,          \* shelf[b]: the committed category of b, or Nil
    isbn,           \* isbn[b]: its committed ISBN, or Nil
    names,          \* names[c]: the committed name of c, Nil when there is no c
    fresh,          \* ids not generated yet
    holder,         \* holder[x]: the request that has written row x, or Nil
    share,          \* share[r]: the rows r has locked FOR KEY SHARE
    linked,         \* linked[r]: the links r has inserted and not committed
    unlinked,       \* unlinked[r]: the links it has deleted
    pc,             \* pc[r]: the next step of r, or how it ended
    task,           \* task[r]: the handler r runs, its row and its body
    seen,           \* seen[r]: what it has loaded
    overtaken       \* history: the running requests during which another has committed

rows == <<live, links, shelf, isbn, names>>
locks == <<holder, share, linked, unlinked>>
vars == <<rows, fresh, locks, pc, task, seen, overtaken>>

Ended == {"ok", "refused", "failed"}
Steps == {"new", "row", "unlink", "link", "unshelve", "erase", "refresh", "commit"} \cup Ended
Kinds == {"createBook", "patchBook", "deleteBook", "createAuthor", "patchAuthor",
          "deleteAuthor", "createCategory", "patchCategory", "deleteCategory"}

Unchanged == [authors |-> Keep, category |-> Keep, isbn |-> Keep]
NoTask == [kind |-> "none", id |-> Nil, body |-> Unchanged, name |-> Nil]
Nothing == [links |-> {}, category |-> Nil, isbn |-> Nil, books |-> {}]

Running(r) == pc[r] \notin {"new"} \cup Ended
Kind(r) == task[r].kind
Id(r) == task[r].id
LinksOf(x) == {l \in links : x \in {l[1], l[2]}}

-----------------------------------------------------------------------------
(* Locks.                                                                  *)

\* The fields of the body that differ from what was loaded: only these are in
\* the UPDATE of a PATCH, and all of them in an INSERT.
Changes(r, field) ==
    /\ task[r].body[field] # Keep
    /\ Kind(r) = "createBook" \/ task[r].body[field] # seen[r][field]

DraftShelf(r, b) == IF Changes(r, "category") THEN task[r].body.category ELSE shelf[b]

\* The ISBN of b for the request that has its row, once it commits.
DraftIsbn(r, b) ==
    CASE Kind(r) = "deleteBook" -> Nil
      [] Changes(r, "isbn")     -> task[r].body.isbn
      [] OTHER                  -> isbn[b]

DraftName(r) == IF Kind(r) = "deleteCategory" THEN Nil ELSE task[r].name

\* Those who have written one of the rows; those who refer to the row; those of
\* its writers for whom a foreign key check waits.
Holders(r, some) == {holder[x] : x \in some} \ {Nil, r}
Referrers(r, x) == {y \in Requests \ {r} : x \in share[y]}
Spares(y, x) ==
    \/ Kind(y) = "patchAuthor"
    \/ Kind(y) = "deleteCategory" /\ x \in Books
    \/ Kind(y) = "patchBook" /\ ~Changes(y, "isbn")
Barring(r, x) == {y \in Holders(r, {x}) : ~Spares(y, x)}

\* Those who have inserted or deleted one of the links.
Linkers(r, some) == {y \in Requests \ {r} : some \cap (linked[y] \cup unlinked[y]) # {}}

\* Those who have written a row that had the value of a unique column or will
\* have it; NULLs are all different.
IsbnUsers(r, i) ==
    {holder[b] : b \in {d \in Books : /\ i # Nil /\ holder[d] \notin {Nil, r}
                                      /\ i \in {isbn[d], DraftIsbn(holder[d], d)}}}
NameUsers(r, n) ==
    {holder[c] : c \in {d \in Categories : /\ holder[d] \notin {Nil, r}
                                           /\ n \in {names[d], DraftName(holder[d])}}}

Hold(r, some) == holder' = [x \in Rows |-> IF x \in some THEN r ELSE holder[x]]

-----------------------------------------------------------------------------
(* The end of a request.                                                   *)

Goto(r, step) == pc' = [pc EXCEPT ![r] = step]

End(r, outcome) ==
    /\ Goto(r, outcome)
    /\ holder' = [x \in Rows |-> IF holder[x] = r THEN Nil ELSE holder[x]]
    /\ share' = [share EXCEPT ![r] = {}]
    /\ linked' = [linked EXCEPT ![r] = {}]
    /\ unlinked' = [unlinked EXCEPT ![r] = {}]
    /\ task' = [task EXCEPT ![r] = NoTask]
    /\ seen' = [seen EXCEPT ![r] = Nothing]

Rollback(r, outcome) ==
    /\ End(r, outcome)
    /\ overtaken' = overtaken \ {r}
    /\ UNCHANGED <<rows, fresh>>

LiveAfter(r) ==
    CASE Kind(r) \in {"createBook", "createAuthor", "createCategory"} -> live \cup {Id(r)}
      [] Kind(r) \in {"deleteBook", "deleteAuthor", "deleteCategory"} -> live \ {Id(r)}
      [] OTHER -> live

\* Mutant: a PATCH stores the field of the body, there or not.
ShelfAfterBody(r) ==
    [b \in Books |->
        CASE holder[b] # r -> shelf[b]
          [] holder[b] = r /\ Kind(r) \in {"createBook", "patchBook"} -> task[r].body.category
          [] OTHER -> Nil]

\* The deletion of a category holds the books that it takes out of it.
ShelfAfter(r) ==
    [b \in Books |->
        CASE holder[b] # r -> shelf[b]
          [] holder[b] = r /\ Kind(r) \in {"createBook", "patchBook"} -> DraftShelf(r, b)
          [] OTHER -> Nil]

IsbnAfter(r) == [b \in Books |-> IF holder[b] = r THEN DraftIsbn(r, b) ELSE isbn[b]]
NamesAfter(r) == [c \in Categories |-> IF holder[c] = r THEN DraftName(r) ELSE names[c]]

Commit(r) ==
    /\ pc[r] = "commit"
    /\ live' = LiveAfter(r)
    /\ links' = (links \ unlinked[r]) \cup linked[r]
    /\ shelf' = ShelfAfter(r)
    /\ isbn' = IsbnAfter(r)
    /\ names' = NamesAfter(r)
    /\ End(r, "ok")
    /\ overtaken' = (overtaken \cup {x \in Requests : Running(x)}) \ {r}
    /\ UNCHANGED fresh

-----------------------------------------------------------------------------
(* The beginning of a request: its reads, and the step they lead to.       *)

Begin(r, t, step, s) ==
    /\ task' = [task EXCEPT ![r] = t]
    /\ seen' = [seen EXCEPT ![r] = s]
    /\ Goto(r, step)
    /\ UNCHANGED <<rows, locks, overtaken>>

Task(kind, id) == [NoTask EXCEPT !.kind = kind, !.id = id]
BookTask(kind, b, body) == [Task(kind, b) EXCEPT !.body = body]
CategoryTask(kind, c, name) == [Task(kind, c) EXCEPT !.name = name]

\* _resolve_authors and _resolve_category
Resolves(body) ==
    /\ IF body.authors = Keep THEN TRUE ELSE body.authors \subseteq live
    /\ body.category \in live \cup {Nil, Keep}

CreateBook(r) ==
    /\ pc[r] = "new"
    /\ \E body \in {x \in Bodies : Keep \notin {x.authors, x.category, x.isbn}} :
          \/ /\ Resolves(body)
             /\ \E b \in fresh \cap Books :
                   /\ Begin(r, BookTask("createBook", b, body), "row", Nothing)
                   /\ fresh' = fresh \ {b}
          \/ ~Resolves(body) /\ Rollback(r, "refused")

\* Mutant: no author is taken off a book.
DropsNone(b, body, s) == {}

\* What the assignment to book.authors deletes and inserts.
Drops(b, body, s) == IF body.authors = Keep THEN {} ELSE s.links \ ({b} \X body.authors)
Adds(b, body, s) == IF body.authors = Keep THEN {} ELSE ({b} \X body.authors) \ s.links

Linking(b, body, s) == IF Adds(b, body, s) # {} THEN "link" ELSE "refresh"
Unlinking(b, body, s) == IF Drops(b, body, s) # {} THEN "unlink" ELSE Linking(b, body, s)
Writing(b, body, s) ==
    IF body.category \notin {Keep, s.category} \/ body.isbn \notin {Keep, s.isbn}
    THEN "row" ELSE Unlinking(b, body, s)

PatchBook(r) ==
    /\ pc[r] = "new"
    /\ \E b \in Books, body \in Bodies \ {Unchanged} :
          \/ /\ b \in live /\ Resolves(body)
             /\ LET s == [Nothing EXCEPT !.links = LinksOf(b), !.category = shelf[b],
                                         !.isbn = isbn[b]] IN
                Begin(r, BookTask("patchBook", b, body), Writing(b, body, s), s)
             /\ UNCHANGED fresh
          \/ ~(b \in live /\ Resolves(body)) /\ Rollback(r, "refused")

\* Mutant: the links of an author are left to the database.
LinksToDeleteOfBooks(x) == IF x \in Authors THEN {} ELSE LinksOf(x)

\* Book.authors and Author.books have a secondary table, whose rows the flush
\* deletes with either side.
LinksToDelete(x) == LinksOf(x)

\* delete_book, delete_author and delete_category, with what the flush loads.
Delete(r) ==
    /\ pc[r] = "new"
    /\ \E x \in Rows :
          \/ /\ x \in live
             /\ \/ /\ x \notin Categories
                   /\ Begin(r, Task(IF x \in Books THEN "deleteBook" ELSE "deleteAuthor", x),
                            "unlink", [Nothing EXCEPT !.links = LinksToDelete(x)])
                \/ /\ x \in Categories
                   /\ Begin(r, Task("deleteCategory", x),
                            "unshelve", [Nothing EXCEPT !.books = {b \in Books : shelf[b] = x}])
             /\ UNCHANGED fresh
          \/ x \notin live /\ Rollback(r, "refused")

CreateAuthor(r) ==
    /\ pc[r] = "new"
    /\ \E a \in fresh \cap Authors :
          /\ Begin(r, Task("createAuthor", a), "commit", Nothing)
          /\ fresh' = fresh \ {a}

\* A PATCH with the values the author has sends no UPDATE.
PatchAuthor(r) ==
    /\ pc[r] = "new"
    /\ \E a \in Authors :
          \/ /\ a \in live
             /\ \E step \in {"row", "refresh"} : Begin(r, Task("patchAuthor", a), step, Nothing)
             /\ UNCHANGED fresh
          \/ a \notin live /\ Rollback(r, "refused")

CreateCategory(r) ==
    /\ pc[r] = "new"
    /\ \E c \in fresh \cap Categories, name \in Names :
          /\ Begin(r, CategoryTask("createCategory", c, name), "row", Nothing)
          /\ fresh' = fresh \ {c}

PatchCategory(r) ==
    /\ pc[r] = "new"
    /\ \E c \in Categories, name \in Names :
          \/ /\ c \in live
             /\ Begin(r, CategoryTask("patchCategory", c, name),
                      IF name = names[c] THEN "refresh" ELSE "row", Nothing)
             /\ UNCHANGED fresh
          \/ c \notin live /\ Rollback(r, "refused")

-----------------------------------------------------------------------------
(* What the next statement of a request is about, and for whom it waits.  The *)
(* locks of one statement are taken together.                                 *)

IsbnTaken(r) ==
    /\ Changes(r, "isbn") /\ task[r].body.isbn # Nil
    /\ \E b \in Books \ {Id(r)} : isbn[b] = task[r].body.isbn

\* The category that the INSERT or UPDATE of a book must find.
Needed(r) == IF Changes(r, "category") THEN {task[r].body.category} \ {Nil} ELSE {}

DropsOf(r) ==
    IF Kind(r) = "patchBook" THEN Drops(Id(r), task[r].body, seen[r]) ELSE seen[r].links

AddsOf(r) == Adds(Id(r), task[r].body, seen[r])
Ends(r) == {Id(r)} \cup {l[2] : l \in AddsOf(r)}

\* The links that were inserted after those to delete were loaded.
Left(r) == LinksOf(Id(r)) \ unlinked[r]

\* The books that ON DELETE SET NULL takes out of a category.
Shelved(r) == {b \in Books : shelf[b] = Id(r)}

WaitsFor(r) ==
    LET x == Id(r) IN
    CASE pc[r] = "row" /\ Kind(r) \in {"createBook", "patchBook"} ->
            Holders(r, {x})
              \cup (IF Changes(r, "isbn")
                    THEN Referrers(r, x) \cup IsbnUsers(r, task[r].body.isbn) ELSE {})
              \cup (IF IsbnTaken(r) THEN {} ELSE UNION {Barring(r, c) : c \in Needed(r)})
      [] pc[r] = "row" /\ Kind(r) = "patchAuthor" -> Holders(r, {x})
      [] pc[r] = "row" /\ Kind(r) \in {"createCategory", "patchCategory"} ->
            Holders(r, {x}) \cup Referrers(r, x) \cup NameUsers(r, task[r].name)
      [] pc[r] = "unlink" -> Linkers(r, DropsOf(r))
      [] pc[r] = "link" -> Linkers(r, AddsOf(r)) \cup UNION {Barring(r, e) : e \in Ends(r)}
      [] pc[r] = "unshelve" -> Holders(r, seen[r].books)
      [] pc[r] = "erase" ->
            Holders(r, {x} \cup Shelved(r)) \cup Referrers(r, x) \cup Linkers(r, Left(r))
      [] OTHER -> {}

\* r is in a circle of requests that wait for each other.
Deadlocked(r) ==
    \E S \in SUBSET Requests :
       /\ r \in S
       /\ \A x \in S : WaitsFor(x) \cap S # {} /\ \E y \in S : x \in WaitsFor(y)

\* PostgreSQL's detector makes one of them fail.
AbortVictim(r) == Deadlocked(r) /\ Rollback(r, "failed")

-----------------------------------------------------------------------------
(* The statements of the flush.                                            *)

Proceed(r, step) == Goto(r, step) /\ UNCHANGED <<rows, fresh, task, seen, overtaken>>

\* After the row of a book come its links.
AfterRow(r) == Unlinking(Id(r), task[r].body, seen[r])

\* INSERT INTO books or UPDATE books: the row, uq_books_isbn, the foreign key.
WriteBook(r) ==
    LET b == Id(r) IN
    /\ pc[r] = "row" /\ Kind(r) \in {"createBook", "patchBook"}
    /\ WaitsFor(r) = {}
    /\ \/ Kind(r) = "patchBook" /\ b \notin live /\ Rollback(r, "failed")
       \/ /\ Kind(r) = "createBook" \/ b \in live
          /\ \/ IsbnTaken(r) /\ Rollback(r, "refused")
             \/ ~IsbnTaken(r) /\ ~(Needed(r) \subseteq live) /\ Rollback(r, "failed")
             \/ /\ ~IsbnTaken(r) /\ Needed(r) \subseteq live
                /\ Hold(r, {b})
                /\ share' = [share EXCEPT ![r] = @ \cup Needed(r)]
                /\ Proceed(r, IF AfterRow(r) = "refresh" THEN "commit" ELSE AfterRow(r))
                /\ UNCHANGED <<linked, unlinked>>

AfterUnlink(r) ==
    IF Kind(r) # "patchBook" THEN "erase"
    ELSE IF holder[Id(r)] = r /\ Linking(Id(r), task[r].body, seen[r]) = "refresh" THEN "commit"
    ELSE Linking(Id(r), task[r].body, seen[r])

\* DELETE FROM book_authors passes over the links that are gone.
Unlink(r) ==
    /\ pc[r] = "unlink" /\ WaitsFor(r) = {}
    /\ unlinked' = [unlinked EXCEPT ![r] = DropsOf(r) \cap links]
    /\ Proceed(r, AfterUnlink(r))
    /\ UNCHANGED <<holder, share, linked>>

\* Mutant: book_authors.author_id is no foreign key.
MayLinkAny(r, added) ==
    added \cap links = {} /\ \A l \in added : l[1] \in live \/ holder[l[1]] = r

\* The primary key of book_authors and its two foreign keys.
MayLink(r, added) ==
    /\ added \cap links = {}
    /\ \A l \in added : l[2] \in live /\ (l[1] \in live \/ holder[l[1]] = r)

LinkAuthors(r) ==
    /\ pc[r] = "link" /\ WaitsFor(r) = {}
    /\ \/ /\ MayLink(r, AddsOf(r))
          /\ linked' = [linked EXCEPT ![r] = AddsOf(r)]
          /\ share' = [share EXCEPT ![r] = @ \cup Ends(r)]
          /\ Proceed(r, "commit")
          /\ UNCHANGED <<holder, unlinked>>
       \/ ~MayLink(r, AddsOf(r)) /\ Rollback(r, "failed")

\* delete_category: UPDATE books SET category_id = NULL for the books loaded.
\* The rows matched are counted when the statement is sent for one book only.
Unshelve(r) ==
    LET books == seen[r].books IN
    /\ pc[r] = "unshelve" /\ WaitsFor(r) = {}
    /\ \/ /\ Cardinality(books) = 1 => books \subseteq live
          /\ Hold(r, books \cap live)
          /\ Proceed(r, "erase")
          /\ UNCHANGED <<share, linked, unlinked>>
       \/ /\ Cardinality(books) = 1 /\ ~(books \subseteq live)
          /\ Rollback(r, "failed")

\* DELETE FROM books, authors or categories; a row that is gone is passed over.
Erase(r) ==
    LET x == Id(r) IN
    /\ pc[r] = "erase" /\ WaitsFor(r) = {}
    /\ \/ /\ Left(r) = {} \/ x \notin live
          /\ Hold(r, {x} \cup Shelved(r))
          /\ Proceed(r, "commit")
          /\ UNCHANGED <<share, linked, unlinked>>
       \/ x \in live /\ Left(r) # {} /\ Rollback(r, "failed")

\* UPDATE authors: neither name nor bio is unique.
WriteAuthor(r) ==
    /\ pc[r] = "row" /\ Kind(r) = "patchAuthor" /\ WaitsFor(r) = {}
    /\ \/ /\ Id(r) \in live
          /\ Hold(r, {Id(r)})
          /\ Proceed(r, "commit")
          /\ UNCHANGED <<share, linked, unlinked>>
       \/ Id(r) \notin live /\ Rollback(r, "failed")

NameTaken(r) ==
    task[r].name # Nil /\ \E c \in Categories \ {Id(r)} : names[c] = task[r].name

\* INSERT INTO categories or UPDATE categories, with uq_categories_name.
WriteCategory(r) ==
    /\ pc[r] = "row" /\ Kind(r) \in {"createCategory", "patchCategory"} /\ WaitsFor(r) = {}
    /\ LET possible == ~NameTaken(r) /\ (Kind(r) = "createCategory" \/ Id(r) \in live) IN
       \/ /\ possible
          /\ Hold(r, {Id(r)})
          /\ Proceed(r, "commit")
          /\ UNCHANGED <<share, linked, unlinked>>
       \/ ~possible /\ Rollback(r, "failed")

\* refresh() of a row the request has not locked fails when the row is gone.
Refresh(r) ==
    /\ pc[r] = "refresh"
    /\ \/ Id(r) \in live /\ Proceed(r, "commit") /\ UNCHANGED locks
       \/ Id(r) \notin live /\ Rollback(r, "failed")

-----------------------------------------------------------------------------
Init ==
    /\ live = InitLive
    /\ links = InitLinks
    /\ shelf = InitShelf
    /\ isbn = InitIsbn
    /\ names = InitNames
    /\ fresh = Rows \ InitLive
    /\ holder = [x \in Rows |-> Nil]
    /\ share = [r \in Requests |-> {}]
    /\ linked = [r \in Requests |-> {}]
    /\ unlinked = [r \in Requests |-> {}]
    /\ pc = [r \in Requests |-> "new"]
    /\ task = [r \in Requests |-> NoTask]
    /\ seen = [r \in Requests |-> Nothing]
    /\ overtaken = {}

Step(r) ==
    \/ CreateBook(r) \/ PatchBook(r) \/ Delete(r) \/ CreateAuthor(r) \/ PatchAuthor(r)
    \/ CreateCategory(r) \/ PatchCategory(r)
    \/ WriteBook(r) \/ Unlink(r) \/ LinkAuthors(r) \/ Unshelve(r) \/ Erase(r)
    \/ WriteAuthor(r) \/ WriteCategory(r) \/ Refresh(r) \/ Commit(r)

\* Every request has ended or was never sent.
Idle == (\A r \in Requests : ~Running(r)) /\ UNCHANGED vars

Next == (\E r \in Requests : Step(r) \/ AbortVictim(r)) \/ Idle

Spec == Init /\ [][Next]_vars

-----------------------------------------------------------------------------
\* Rows are rows, and a request's task, reads and writes are of their kinds.
TypeOK ==
    /\ live \subseteq Rows /\ fresh \subseteq Rows
    /\ links \subseteq Link
    /\ shelf \in [Books -> Categories \cup {Nil}]
    /\ isbn \in [Books -> Isbns \cup {Nil}]
    /\ names \in [Categories -> Names \cup {Nil}]
    /\ holder \in [Rows -> Requests \cup {Nil}]
    /\ share \in [Requests -> SUBSET Rows]
    /\ linked \in [Requests -> SUBSET Link] /\ unlinked \in [Requests -> SUBSET Link]
    /\ pc \in [Requests -> Steps]
    /\ task \in [Requests -> [kind : Kinds \cup {"none"}, id : Rows \cup {Nil},
                              body : Body, name : Names \cup {Nil}]]
    /\ seen \in [Requests -> [links : SUBSET Link, category : Categories \cup {Nil},
                              isbn : Isbns \cup {Nil}, books : SUBSET Books]]
    /\ overtaken \subseteq Requests

\* However administrators' requests overlap, every link joins a book and an
\* author that exist, every book on a shelf is on one that exists, and ISBNs and
\* category names are unique (author_service.py:61-69, category_service.py:60-68,
\* book_service.py:160-217).
ReferencesHold ==
    /\ \A l \in links : l[1] \in live /\ l[2] \in live
    /\ \A b \in Books : shelf[b] \in live \cup {Nil} /\ (b \notin live => isbn[b] = Nil)
    /\ \A b, d \in live \cap Books : isbn[b] = isbn[d] => b = d \/ isbn[b] = Nil
    /\ \A c, d \in live \cap Categories : names[c] = names[d] => c = d

\* A 500 is the price of a race, or of the name of another category: a request
\* that nobody overtakes, and that is in no deadlock, is carried out or refused
\* with a reason (book_service.py:166-174, category_repository.py:37-52).
FailsOnlyForCause ==
    [][\A r \in Requests :
          pc[r] # "failed" /\ pc'[r] = "failed" =>
             r \in overtaken \/ Deadlocked(r) \/ NameTaken(r)]_vars

Commits(r) == pc[r] = "commit" /\ pc'[r] = "ok"

\* The links and shelves that a request asks for, given those there are.
AskedLinks(r) ==
    CASE Kind(r) = "createBook" \/ (Kind(r) = "patchBook" /\ task[r].body.authors # Keep) ->
            (links \ LinksOf(Id(r))) \cup ({Id(r)} \X task[r].body.authors)
      [] Kind(r) \in {"deleteBook", "deleteAuthor"} -> links \ LinksOf(Id(r))
      [] OTHER -> links
AskedShelf(r) ==
    CASE Kind(r) \in {"createBook", "patchBook"} /\ task[r].body.category # Keep ->
            [shelf EXCEPT ![Id(r)] = task[r].body.category]
      [] Kind(r) \in {"deleteBook", "deleteCategory"} ->
            [b \in Books |-> IF Id(r) \in {b, shelf[b]} THEN Nil ELSE shelf[b]]
      [] OTHER -> shelf

\* A request that no other overtakes leaves the catalogue as it asked: the
\* differences it computes, by link and by column, add up to its body, and what a
\* deletion takes along is all there is and nothing else.  (Two that overlap may
\* leave a set of authors that neither asked for, and the deletion of a category
\* may take a book off the shelf it has just been moved to.)
DoneAsAsked ==
    [][\A r \in Requests \ overtaken :
          Commits(r) => links' = AskedLinks(r) /\ shelf' = AskedShelf(r)]_vars
=============================================================================
