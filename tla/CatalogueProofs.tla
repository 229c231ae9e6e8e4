---------------------------- MODULE CatalogueProofs ----------------------------
(***************************************************************************)
(* Proofs that the references between books, authors and categories hold,  *)
(* and that a handler nobody overtakes does what it was asked, for every   *)
(* number of rows and requests and every set of bodies.                    *)
(***************************************************************************)
EXTENDS Catalogue, TLAPS

-----------------------------------------------------------------------------
(* Types, and which handler a step and a task belong to.                   *)

TaskT == [kind : Kinds \cup {"none"}, id : Rows \cup {Nil}, body : Body, name : Names \cup {Nil}]
SeenT == [links : SUBSET Link, category : Categories \cup {Nil},
          isbn : Isbns \cup {Nil}, books : SUBSET Books]

BookWrites == {"createBook", "patchBook"}
Creates == {"createBook", "createAuthor", "createCategory"}
Patches == {"patchBook", "patchAuthor", "patchCategory"}
Unlinkers == {"patchBook", "deleteBook", "deleteAuthor"}
Deletes == {"deleteBook", "deleteAuthor", "deleteCategory"}

StepFits(step, kind) ==
    /\ step \in {"new"} \cup Ended <=> kind = "none"
    /\ step = "row" => kind \in BookWrites \cup {"patchAuthor", "createCategory", "patchCategory"}
    /\ step = "unlink" => kind \in Unlinkers
    /\ step = "link" => kind \in BookWrites
    /\ step = "unshelve" => kind = "deleteCategory"
    /\ step = "erase" => kind \in Deletes
    /\ step = "refresh" => kind \in Patches

TaskFits(t) ==
    /\ t.kind \in BookWrites \cup {"deleteBook"} => t.id \in Books
    /\ t.kind \in {"createAuthor", "patchAuthor", "deleteAuthor"} => t.id \in Authors
    /\ t.kind \in {"createCategory", "patchCategory", "deleteCategory"} => t.id \in Categories
    /\ t.kind = "createBook" => Keep \notin {t.body.authors, t.body.category, t.body.isbn}
    /\ t.kind \in {"createCategory", "patchCategory"} => t.name \in Names
    /\ t.kind \notin BookWrites => t.body = Unchanged

Typed ==
    /\ TypeOK
    /\ \A r \in Requests : /\ StepFits(pc[r], Kind(r)) /\ TaskFits(task[r])
                           /\ Kind(r) \notin Unlinkers => seen[r].links = {}

LEMMA BlanksTyped ==
  /\ Unchanged \in Body /\ NoTask \in TaskT /\ Nothing \in SeenT /\ TaskFits(NoTask)
  /\ NoTask.kind = "none" /\ Nothing.links = {}
<1>1. Unchanged \in Body
  BY DEF Unchanged, Body
<1>2. NoTask \in TaskT /\ NoTask.kind = "none" /\ NoTask.body = Unchanged
  BY <1>1 DEF NoTask, TaskT
<1>3. Nothing \in SeenT /\ Nothing.links = {}
  BY DEF Nothing, SeenT
<1>. QED  BY <1>1, <1>2, <1>3 DEF TaskFits, BookWrites

LEMMA InitTyped == Init => Typed
<1>. SUFFICES ASSUME Init PROVE Typed
  OBVIOUS
<1>1. TypeOK
  BY CatalogueAssumption, BlanksTyped DEF Init, TypeOK, Rows, Link, Steps, TaskT, SeenT
<1>. QED  BY <1>1, BlanksTyped DEF Init, Typed, StepFits, BookWrites, Kind, Ended, Deletes, Patches

\* The end of a request, whatever was committed.
LEMMA EndTyped ==
  ASSUME Typed, NEW r \in Requests, NEW outcome \in Ended, End(r, outcome),
         live' \subseteq Rows, fresh' \subseteq Rows, links' \subseteq Link,
         shelf' \in [Books -> Categories \cup {Nil}],
         isbn' \in [Books -> Isbns \cup {Nil}],
         names' \in [Categories -> Names \cup {Nil}],
         overtaken' \subseteq Requests
  PROVE  Typed'
<1>1. TypeOK'
  BY BlanksTyped DEF End, Goto, Typed, TypeOK, Steps, TaskT, SeenT
<1>2. /\ pc'[r] = outcome /\ task'[r] = NoTask /\ seen'[r] = Nothing
      /\ \A x \in Requests \ {r} : pc'[x] = pc[x] /\ task'[x] = task[x] /\ seen'[x] = seen[x]
  BY DEF End, Goto, Typed, TypeOK
<1>3. StepFits(outcome, "none")
  BY DEF StepFits, Ended, Deletes, Patches, BookWrites, Unlinkers
<1>. QED  BY <1>1, <1>2, <1>3, BlanksTyped DEF Typed, Kind

LEMMA RollbackTyped ==
  ASSUME Typed, NEW r \in Requests, NEW outcome \in Ended, Rollback(r, outcome)
  PROVE  Typed'
  BY EndTyped DEF Rollback, rows, Typed, TypeOK

\* The beginning of a request.
LEMMA BeginTyped ==
  ASSUME Typed, NEW r \in Requests, NEW t \in TaskT, NEW step \in Steps, NEW s \in SeenT,
         Begin(r, t, step, s), fresh' \subseteq fresh,
         TaskFits(t), StepFits(step, t.kind), t.kind \notin Unlinkers => s.links = {}
  PROVE  Typed'
<1>1. TypeOK'
  BY DEF Begin, Goto, Typed, TypeOK, rows, locks, TaskT, SeenT
<1>2. /\ pc'[r] = step /\ task'[r] = t /\ seen'[r] = s
      /\ \A x \in Requests \ {r} : pc'[x] = pc[x] /\ task'[x] = task[x] /\ seen'[x] = seen[x]
  BY DEF Begin, Goto, Typed, TypeOK
<1>. QED  BY <1>1, <1>2 DEF Typed, Kind

\* A statement of the flush.
LEMMA ProceedTyped ==
  ASSUME Typed, NEW r \in Requests, NEW step \in Steps, Proceed(r, step), StepFits(step, Kind(r)),
         holder' \in [Rows -> Requests \cup {Nil}],
         share' \in [Requests -> SUBSET Rows],
         linked' \in [Requests -> SUBSET Link],
         unlinked' \in [Requests -> SUBSET Link]
  PROVE  Typed'
<1>1. TypeOK'
  BY DEF Proceed, Goto, Typed, TypeOK, rows
<1>2. /\ pc'[r] = step /\ task' = task /\ seen' = seen
      /\ \A x \in Requests \ {r} : pc'[x] = pc[x]
  BY DEF Proceed, Goto, Typed, TypeOK
<1>. QED  BY <1>1, <1>2 DEF Typed, Kind

LEMMA TasksTyped ==
  ASSUME NEW kind \in Kinds, NEW id \in Rows
  PROVE  /\ Task(kind, id) \in TaskT /\ Task(kind, id).kind = kind
         /\ Task(kind, id).id = id /\ Task(kind, id).body = Unchanged
         /\ \A body \in Body : /\ BookTask(kind, id, body) \in TaskT
                               /\ BookTask(kind, id, body).kind = kind
                               /\ BookTask(kind, id, body).id = id
                               /\ BookTask(kind, id, body).body = body
         /\ \A name \in Names : /\ CategoryTask(kind, id, name) \in TaskT
                                /\ CategoryTask(kind, id, name).kind = kind
                                /\ CategoryTask(kind, id, name).id = id
                                /\ CategoryTask(kind, id, name).body = Unchanged
                                /\ CategoryTask(kind, id, name).name = name
  BY BlanksTyped DEF Task, BookTask, CategoryTask, NoTask, TaskT


\* What the assignment to book.authors changes are links.
LEMMA LinksTyped ==
  ASSUME NEW b \in Books, NEW body \in Body, NEW s \in SeenT
  PROVE  Drops(b, body, s) \subseteq Link /\ Adds(b, body, s) \subseteq Link
  BY DEF Drops, Adds, Body, SeenT, Link

LEMMA BeginningsTyped ==
  ASSUME Typed, NEW r \in Requests,
         CreateBook(r) \/ PatchBook(r) \/ Delete(r) \/ CreateAuthor(r) \/ PatchAuthor(r)
           \/ CreateCategory(r) \/ PatchCategory(r)
  PROVE  Typed'
<1>1. CASE CreateBook(r)
  <2>1. ASSUME NEW body \in Bodies, Keep \notin {body.authors, body.category, body.isbn},
               NEW b \in fresh \cap Books, fresh' = fresh \ {b},
               Begin(r, BookTask("createBook", b, body), "row", Nothing)
        PROVE  Typed'
    <3>1. body \in Body /\ b \in Rows /\ "createBook" \in Kinds /\ "row" \in Steps
      BY <2>1, CatalogueAssumption DEF Rows, Kinds, Steps
    <3>2. TaskFits(BookTask("createBook", b, body))
      BY <2>1, <3>1, TasksTyped DEF TaskFits, BookWrites
    <3>3. StepFits("row", "createBook")
      BY DEF StepFits, Ended, Deletes, Patches, BookWrites, Unlinkers
    <3>. QED  BY <2>1, <3>1, <3>2, <3>3, TasksTyped, BlanksTyped, BeginTyped
  <2>. QED  BY <1>1, <2>1, RollbackTyped DEF CreateBook, Ended
<1>2. CASE PatchBook(r)
  <2>1. ASSUME NEW b \in Books, NEW body \in Bodies, UNCHANGED fresh, NEW s,
               s = [Nothing EXCEPT !.links = LinksOf(b), !.category = shelf[b], !.isbn = isbn[b]],
               Begin(r, BookTask("patchBook", b, body), Writing(b, body, s), s)
        PROVE  Typed'
    <3>1. body \in Body /\ b \in Rows /\ "patchBook" \in Kinds /\ "patchBook" \in Unlinkers
      BY CatalogueAssumption DEF Rows, Kinds, Unlinkers
    <3>2. s \in SeenT
      BY <2>1 DEF SeenT, Nothing, LinksOf, Typed, TypeOK
    <3>3. TaskFits(BookTask("patchBook", b, body))
      BY <3>1, TasksTyped DEF TaskFits, BookWrites
    <3>4. Writing(b, body, s) \in Steps /\ StepFits(Writing(b, body, s), "patchBook")
      BY DEF Writing, Unlinking, Linking, Steps, StepFits, Ended, Deletes, Patches, BookWrites, Unlinkers
    <3>. QED  BY <2>1, <3>1, <3>2, <3>3, <3>4, TasksTyped, BeginTyped
  <2>. QED  BY <1>2, <2>1, RollbackTyped DEF PatchBook, Ended
<1>3. CASE Delete(r)
  <2>1. ASSUME NEW x \in Rows, x \notin Categories, UNCHANGED fresh,
               Begin(r, Task(IF x \in Books THEN "deleteBook" ELSE "deleteAuthor", x),
                     "unlink", [Nothing EXCEPT !.links = LinksToDelete(x)])
        PROVE  Typed'
    <3>. DEFINE kind == IF x \in Books THEN "deleteBook" ELSE "deleteAuthor"
    <3>1. kind \in Kinds /\ kind \in Unlinkers /\ "unlink" \in Steps
      BY DEF Kinds, Steps, Unlinkers
    <3>2. [Nothing EXCEPT !.links = LinksToDelete(x)] \in SeenT
      BY BlanksTyped DEF SeenT, LinksToDelete, LinksOf, Typed, TypeOK
    <3>3. TaskFits(Task(kind, x))
      BY <2>1, <3>1, TasksTyped DEF TaskFits, BookWrites, Rows
    <3>4. StepFits("unlink", kind)
      BY DEF StepFits, Ended, Deletes, Patches, BookWrites, Unlinkers
    <3>5. Task(kind, x) \in TaskT /\ Task(kind, x).kind = kind
      BY <3>1, TasksTyped
    <3>6. Begin(r, Task(kind, x), "unlink", [Nothing EXCEPT !.links = LinksToDelete(x)])
      BY <2>1
    <3>. HIDE DEF kind
    <3>. QED  BY <2>1, <3>1, <3>2, <3>3, <3>4, <3>5, <3>6, BeginTyped
  <2>2. ASSUME NEW x \in Categories, UNCHANGED fresh,
               Begin(r, Task("deleteCategory", x),
                     "unshelve", [Nothing EXCEPT !.books = {b \in Books : shelf[b] = x}])
        PROVE  Typed'
    <3>1. "deleteCategory" \in Kinds /\ "unshelve" \in Steps /\ x \in Rows
      BY DEF Kinds, Steps, Rows
    <3>. DEFINE s == [Nothing EXCEPT !.books = {b \in Books : shelf[b] = x}]
    <3>2. s \in SeenT /\ s.links = {} /\ Begin(r, Task("deleteCategory", x), "unshelve", s)
      BY <2>2, BlanksTyped DEF SeenT, Nothing
    <3>3. TaskFits(Task("deleteCategory", x))
      BY <3>1, TasksTyped DEF TaskFits, BookWrites
    <3>4. StepFits("unshelve", "deleteCategory")
      BY DEF StepFits, Ended, Deletes, Patches, BookWrites, Unlinkers
    <3>. HIDE DEF s
    <3>. QED  BY <2>2, <3>1, <3>2, <3>3, <3>4, TasksTyped, BeginTyped
  <2>. QED  BY <1>3, <2>1, <2>2, RollbackTyped DEF Delete, Ended
<1>4. CASE CreateAuthor(r)
  <2>1. PICK a \in fresh \cap Authors : /\ Begin(r, Task("createAuthor", a), "commit", Nothing)
                                        /\ fresh' = fresh \ {a}
    BY <1>4 DEF CreateAuthor
  <2>2. "createAuthor" \in Kinds /\ "commit" \in Steps /\ a \in Rows
    BY DEF Kinds, Steps, Rows
  <2>3. TaskFits(Task("createAuthor", a)) /\ StepFits("commit", "createAuthor")
    BY <2>2, TasksTyped DEF TaskFits, BookWrites, StepFits, Ended, Deletes, Patches
  <2>. QED  BY <2>1, <2>2, <2>3, TasksTyped, BlanksTyped, BeginTyped
<1>5. CASE PatchAuthor(r)
  <2>1. ASSUME NEW a \in Authors, UNCHANGED fresh, NEW step \in {"row", "refresh"},
               Begin(r, Task("patchAuthor", a), step, Nothing)
        PROVE  Typed'
    <3>1. "patchAuthor" \in Kinds /\ step \in Steps /\ a \in Rows
      BY DEF Kinds, Steps, Rows
    <3>2. TaskFits(Task("patchAuthor", a)) /\ StepFits(step, "patchAuthor")
      BY <3>1, TasksTyped DEF TaskFits, BookWrites, StepFits, Ended, Deletes, Patches
    <3>. QED  BY <2>1, <3>1, <3>2, TasksTyped, BlanksTyped, BeginTyped
  <2>. QED  BY <1>5, <2>1, RollbackTyped DEF PatchAuthor, Ended
<1>6. CASE CreateCategory(r)
  <2>1. PICK c \in fresh \cap Categories, name \in Names :
           /\ Begin(r, CategoryTask("createCategory", c, name), "row", Nothing)
           /\ fresh' = fresh \ {c}
    BY <1>6 DEF CreateCategory
  <2>2. "createCategory" \in Kinds /\ "row" \in Steps /\ c \in Rows
    BY DEF Kinds, Steps, Rows
  <2>3. TaskFits(CategoryTask("createCategory", c, name)) /\ StepFits("row", "createCategory")
    BY <2>2, TasksTyped DEF TaskFits, BookWrites, StepFits, Ended, Deletes, Patches
  <2>. QED  BY <2>1, <2>2, <2>3, TasksTyped, BlanksTyped, BeginTyped
<1>7. CASE PatchCategory(r)
  <2>1. ASSUME NEW c \in Categories, NEW name \in Names, UNCHANGED fresh,
               NEW step \in {"row", "refresh"},
               Begin(r, CategoryTask("patchCategory", c, name), step, Nothing)
        PROVE  Typed'
    <3>1. "patchCategory" \in Kinds /\ step \in Steps /\ c \in Rows
      BY DEF Kinds, Steps, Rows
    <3>2. TaskFits(CategoryTask("patchCategory", c, name)) /\ StepFits(step, "patchCategory")
      BY <3>1, TasksTyped DEF TaskFits, BookWrites, StepFits, Ended, Deletes, Patches
    <3>. QED  BY <2>1, <3>1, <3>2, TasksTyped, BlanksTyped, BeginTyped
  <2>. QED  BY <1>7, <2>1, RollbackTyped DEF PatchCategory, Ended
<1>. QED  BY <1>1, <1>2, <1>3, <1>4, <1>5, <1>6, <1>7


LEMMA HoldTyped ==
  ASSUME Typed, NEW r \in Requests, NEW some, Hold(r, some)
  PROVE  /\ holder' \in [Rows -> Requests \cup {Nil}]
         /\ \A x \in Rows : holder'[x] = IF x \in some THEN r ELSE holder[x]
  BY DEF Typed, TypeOK, Hold

\* The statements about a book are about rows and links.
LEMMA BookWriteTyped ==
  ASSUME Typed, NEW r \in Requests, Kind(r) \in BookWrites
  PROVE  /\ Id(r) \in Books /\ task[r].body \in Body /\ seen[r] \in SeenT
         /\ AddsOf(r) \subseteq Link /\ Ends(r) \subseteq Rows /\ Needed(r) \subseteq Rows
<1>1. TaskFits(task[r]) /\ task[r].body \in Body /\ seen[r] \in SeenT
  BY DEF Typed, TypeOK, TaskT, SeenT
<1>2. Id(r) \in Books
  BY <1>1 DEF TaskFits, Kind, Id
<1>3. AddsOf(r) \subseteq Link
  BY <1>1, <1>2, LinksTyped DEF AddsOf
<1>4. Ends(r) \subseteq Rows
  BY <1>2, <1>3 DEF Ends, Link, Rows
<1>5. Needed(r) \subseteq Rows
  BY <1>1 DEF Needed, Changes, Body, Rows
<1>. QED  BY <1>1, <1>2, <1>3, <1>4, <1>5

LEMMA AfterRowFits ==
  ASSUME Typed, NEW r \in Requests, Kind(r) \in BookWrites
  PROVE  /\ AfterRow(r) \in {"unlink", "link", "refresh"}
         /\ AfterRow(r) = "refresh" => AddsOf(r) = {}
         /\ AfterRow(r) # "unlink" => Drops(Id(r), task[r].body, seen[r]) = {}
         /\ Kind(r) = "createBook" => AfterRow(r) # "unlink"
<1>1. Kind(r) = "createBook" => Drops(Id(r), task[r].body, seen[r]) = {}
  BY DEF Drops, Typed, Unlinkers
<1>. QED  BY <1>1 DEF AfterRow, Unlinking, Linking, AddsOf

LEMMA FlushTyped ==
  ASSUME Typed, NEW r \in Requests,
         WriteBook(r) \/ Unlink(r) \/ LinkAuthors(r) \/ Unshelve(r) \/ Erase(r)
           \/ WriteAuthor(r) \/ WriteCategory(r) \/ Refresh(r)
  PROVE  Typed'
<1>1. /\ StepFits(pc[r], Kind(r))
      /\ holder \in [Rows -> Requests \cup {Nil}] /\ share \in [Requests -> SUBSET Rows]
      /\ linked \in [Requests -> SUBSET Link] /\ unlinked \in [Requests -> SUBSET Link]
      /\ links \subseteq Link
  BY DEF Typed, TypeOK
<1>. USE DEF Ended, Steps
<1>2. CASE WriteBook(r)
  <2>1. Kind(r) \in BookWrites
    BY <1>2 DEF WriteBook, BookWrites
  <2>. DEFINE step == IF AfterRow(r) = "refresh" THEN "commit" ELSE AfterRow(r)
  <2>2. step \in Steps /\ StepFits(step, Kind(r))
    BY <2>1, AfterRowFits DEF StepFits, BookWrites, Deletes, Patches, Unlinkers
  <2>. HIDE DEF step
  <2>3. ASSUME Hold(r, {Id(r)}), share' = [share EXCEPT ![r] = @ \cup Needed(r)],
               Proceed(r, step), UNCHANGED <<linked, unlinked>>
        PROVE  Typed'
    <3>1. share' \in [Requests -> SUBSET Rows]
      BY <1>1, <2>1, <2>3, BookWriteTyped
    <3>. QED  BY <1>1, <2>2, <2>3, <3>1, HoldTyped, ProceedTyped
  <2>. QED  BY <1>2, <2>3, RollbackTyped DEF WriteBook, step
<1>3. CASE Unlink(r)
  <2>1. AfterUnlink(r) \in Steps /\ StepFits(AfterUnlink(r), Kind(r))
    BY <1>1, <1>3 DEF Unlink, AfterUnlink, Linking, StepFits, BookWrites, Deletes, Patches, Unlinkers
  <2>2. unlinked' \in [Requests -> SUBSET Link]
    BY <1>1, <1>3 DEF Unlink
  <2>. QED  BY <1>1, <1>3, <2>1, <2>2, ProceedTyped DEF Unlink
<1>4. CASE LinkAuthors(r)
  <2>1. Kind(r) \in BookWrites /\ StepFits("commit", Kind(r))
    BY <1>1, <1>4 DEF LinkAuthors, StepFits, BookWrites
  <2>2. ASSUME linked' = [linked EXCEPT ![r] = AddsOf(r)],
               share' = [share EXCEPT ![r] = @ \cup Ends(r)],
               Proceed(r, "commit"), UNCHANGED <<holder, unlinked>>
        PROVE  Typed'
    <3>1. share' \in [Requests -> SUBSET Rows] /\ linked' \in [Requests -> SUBSET Link]
      BY <1>1, <2>1, <2>2, BookWriteTyped
    <3>. QED  BY <1>1, <2>1, <2>2, <3>1, ProceedTyped
  <2>. QED  BY <1>4, <2>2, RollbackTyped DEF LinkAuthors
<1>5. CASE Unshelve(r)
  <2>1. StepFits("erase", Kind(r))
    BY <1>1, <1>5 DEF Unshelve, StepFits, BookWrites, Deletes
  <2>2. ASSUME NEW some, Hold(r, some), Proceed(r, "erase"), UNCHANGED <<share, linked, unlinked>>
        PROVE  Typed'
    BY <1>1, <2>1, <2>2, HoldTyped, ProceedTyped
  <2>. QED  BY <1>5, <2>2, RollbackTyped DEF Unshelve
<1>6. CASE Erase(r) \/ WriteAuthor(r) \/ WriteCategory(r) \/ Refresh(r)
  <2>1. StepFits("commit", Kind(r))
    BY <1>1, <1>6 DEF Erase, WriteAuthor, WriteCategory, Refresh, StepFits, BookWrites, Deletes, Patches, Unlinkers
  <2>2. ASSUME NEW some, Hold(r, some), Proceed(r, "commit"), UNCHANGED <<share, linked, unlinked>>
        PROVE  Typed'
    BY <1>1, <2>1, <2>2, HoldTyped, ProceedTyped
  <2>3. ASSUME Proceed(r, "commit"), UNCHANGED locks PROVE Typed'
    BY <1>1, <2>1, <2>3, ProceedTyped DEF locks
  <2>. QED  BY <1>6, <2>2, <2>3, RollbackTyped DEF Erase, WriteAuthor, WriteCategory, Refresh
<1>. QED  BY <1>2, <1>3, <1>4, <1>5, <1>6

LEMMA DraftsTyped ==
  ASSUME Typed, NEW r \in Requests
  PROVE  /\ \A b \in Books : /\ DraftShelf(r, b) \in Categories \cup {Nil}
                             /\ DraftIsbn(r, b) \in Isbns \cup {Nil}
         /\ DraftName(r) \in Names \cup {Nil}
<1>1. task[r] \in TaskT /\ task[r].body \in Body
  BY DEF Typed, TypeOK, TaskT
<1>2. ASSUME NEW b \in Books PROVE DraftShelf(r, b) \in Categories \cup {Nil}
  BY <1>1 DEF DraftShelf, Changes, Body, Typed, TypeOK
<1>3. ASSUME NEW b \in Books PROVE DraftIsbn(r, b) \in Isbns \cup {Nil}
  BY <1>1 DEF DraftIsbn, Changes, Body, Typed, TypeOK
<1>4. DraftName(r) \in Names \cup {Nil}
  BY <1>1 DEF DraftName, TaskT
<1>. QED  BY <1>2, <1>3, <1>4

LEMMA CommitTyped ==
  ASSUME Typed, NEW r \in Requests, Commit(r)
  PROVE  Typed'
<1>1. live' \subseteq Rows
  <2>1. Kind(r) \in Creates => Id(r) \in Rows
    BY DEF Typed, TaskFits, Kind, Id, Creates, BookWrites, Rows
  <2>. QED  BY <2>1 DEF Commit, LiveAfter, Typed, TypeOK, Creates
<1>2. links' \subseteq Link
  BY DEF Commit, Typed, TypeOK
<1>3. shelf' \in [Books -> Categories \cup {Nil}]
  BY DraftsTyped DEF Commit, ShelfAfter, Typed, TypeOK
<1>4. isbn' \in [Books -> Isbns \cup {Nil}]
  BY DraftsTyped DEF Commit, IsbnAfter, Typed, TypeOK
<1>5. names' \in [Categories -> Names \cup {Nil}]
  BY DraftsTyped DEF Commit, NamesAfter, Typed, TypeOK
<1>. QED  BY <1>1, <1>2, <1>3, <1>4, <1>5, EndTyped DEF Commit, Ended, Typed, TypeOK

LEMMA NextTyped == Typed /\ [Next]_vars => Typed'
<1>. SUFFICES ASSUME Typed, [Next]_vars PROVE Typed'
  OBVIOUS
<1>1. ASSUME NEW r \in Requests, Step(r) \/ AbortVictim(r) PROVE Typed'
  BY <1>1, BeginningsTyped, FlushTyped, CommitTyped, RollbackTyped DEF Step, AbortVictim, Ended
<1>2. ASSUME UNCHANGED vars PROVE Typed'
  BY <1>2 DEF vars, rows, locks, Typed, TypeOK, Kind
<1>. QED  BY <1>1, <1>2 DEF Next, Idle

\* Tasks and reads are of the kind of their handler throughout.
THEOREM AlwaysTyped == Spec => []Typed
  BY InitTyped, NextTyped, PTL DEF Spec

\* Every variable of the catalogue keeps its type, and a request is only ever at a
\* step of its own handler.
THEOREM TypesHold == Spec => []TypeOK
<1>1. Typed => TypeOK
  BY DEF Typed
<1>. QED  BY <1>1, AlwaysTyped, PTL


-----------------------------------------------------------------------------
(* The inductive invariant: what is committed fits together, and what each *)
(* lock means for those who have yet to commit.                            *)

Refs ==
    /\ \A l \in links : l[1] \in live /\ l[2] \in live
    /\ \A b \in Books : /\ shelf[b] \in live \cup {Nil}
                        /\ b \notin live => shelf[b] = Nil /\ isbn[b] = Nil
    /\ \A c \in Categories \cap live : names[c] # Nil
    /\ live \cap fresh = {}

\* What r has written, and what protects it.
HolderOk(r, x) ==
    /\ \/ /\ x = Id(r)
          /\ pc[r] \in (IF Kind(r) \in BookWrites THEN {"unlink", "link", "commit"} ELSE {"commit"})
       \/ Kind(r) = "deleteCategory" /\ x \in Books /\ pc[r] \in {"erase", "commit"}
    /\ Kind(r) \in Patches => x \in live
    /\ Kind(r) \in BookWrites => Needed(r) \subseteq share[r]

RequestOk(r) ==
    /\ \A x \in Rows : holder[x] = r => HolderOk(r, x)
    /\ \/ Kind(r) = "createBook" /\ pc[r] \in {"link", "commit"}
       \/ Kind(r) \in Deletes \cup {"createCategory"} /\ pc[r] = "commit"
       => holder[Id(r)] = r
    /\ pc[r] = "link" => AddsOf(r) # {}
    /\ Kind(r) \in Creates => Id(r) \notin fresh
    /\ Kind(r) \notin BookWrites => share[r] = {} /\ linked[r] = {}
    /\ Kind(r) \notin Unlinkers => unlinked[r] = {}
    /\ \A x \in share[r] : x \in live \/ (Kind(r) = "createBook" /\ x = Id(r))
    /\ \A l \in linked[r] : l[1] \in share[r] /\ l[2] \in share[r]

\* A row that is about to be deleted: nobody else relies on it, and its links and
\* the books on its shelf go with it.
Doomed(x) == holder[x] # Nil /\ Kind(holder[x]) \in Deletes /\ Id(holder[x]) = x

DoomOk(x) ==
    Doomed(x) => /\ \A r \in Requests : x \notin share[r]
                 /\ LinksOf(x) \subseteq unlinked[holder[x]]
                 /\ \A b \in Books : shelf[b] = x => holder[b] = holder[x]

\* The values of its unique column that a row has or may have after a commit.
NextIsbn(b) == IF holder[b] = Nil THEN isbn[b] ELSE DraftIsbn(holder[b], b)
NextName(c) == IF holder[c] = Nil THEN names[c] ELSE DraftName(holder[c])
IsbnsOf(b) == {isbn[b], NextIsbn(b)} \ {Nil}
NamesOf(c) == {names[c], NextName(c)} \ {Nil}

Unique ==
    /\ \A b, d \in Books : b # d => IsbnsOf(b) \cap IsbnsOf(d) = {}
    /\ \A c, d \in Categories : c # d => NamesOf(c) \cap NamesOf(d) = {}

Sound ==
    /\ Refs
    /\ \A r \in Requests : RequestOk(r)
    /\ \A x \in Rows : DoomOk(x)
    /\ Unique

LEMMA InitSound == Init => Sound
<1>. SUFFICES ASSUME Init PROVE Sound
  OBVIOUS
<1>1. Refs
  BY CatalogueAssumption, TablesAssumption DEF Init, Refs, Rows
<1>2. ASSUME NEW x \in Rows PROVE holder[x] = Nil /\ DoomOk(x)
  BY DEF Init, DoomOk, Doomed
<1>3. ASSUME NEW r \in Requests PROVE RequestOk(r)
  <2>1. \A x \in Rows : holder[x] # r
    BY <1>2, TablesAssumption
  <2>. QED  BY <2>1, BlanksTyped DEF Init, RequestOk, Kind, Creates, Deletes
<1>4. Unique
  <2>1. \A b \in Books : NextIsbn(b) = isbn[b]
    BY <1>2 DEF NextIsbn, Rows
  <2>2. \A c \in Categories : NextName(c) = names[c]
    BY <1>2 DEF NextName, Rows
  <2>3. /\ \A b, d \in Books : isbn[b] = isbn[d] => b = d \/ isbn[b] = Nil
        /\ \A c, d \in Categories : names[c] = names[d] => c = d \/ names[c] = Nil
    BY CatalogueAssumption DEF Init
  <2>. QED  BY <2>1, <2>2, <2>3 DEF Unique, IsbnsOf, NamesOf
<1>. QED  BY <1>1, <1>2, <1>3, <1>4 DEF Sound

\* r is where it was, with what it has.
Same(r) ==
    /\ pc'[r] = pc[r] /\ task'[r] = task[r] /\ seen'[r] = seen[r]
    /\ share'[r] = share[r] /\ linked'[r] = linked[r] /\ unlinked'[r] = unlinked[r]

OthersSame(r) ==
    /\ \A y \in Requests \ {r} : Same(y)
    /\ \A x \in Rows : holder'[x] # holder[x] => {holder[x], holder'[x]} \subseteq {Nil, r}

LEMMA RequestUndisturbed ==
  ASSUME Typed, NEW y \in Requests, RequestOk(y), Same(y), fresh' \subseteq fresh,
         \A x \in Rows : holder'[x] = y <=> holder[x] = y,
         \A x \in live : holder[x] = y \/ x \in share[y] => x \in live'
  PROVE  RequestOk(y)'
<1>1. /\ Kind(y)' = Kind(y) /\ Id(y)' = Id(y) /\ Needed(y)' = Needed(y) /\ AddsOf(y)' = AddsOf(y)
  BY DEF Same, Kind, Id, Needed, Changes, AddsOf, Adds
<1>2. ASSUME NEW x \in Rows, holder'[x] = y PROVE HolderOk(y, x)'
  <2>1. holder[x] = y /\ HolderOk(y, x)
    BY <1>2 DEF RequestOk
  <2>. QED  BY <1>1, <2>1 DEF HolderOk, Same
<1>3. Kind(y) # "none" => Id(y) \in Rows
  <2>1. Kind(y) \in Kinds \cup {"none"} /\ TaskFits(task[y])
    BY DEF Typed, TypeOK, Kind
  <2>. QED  BY <2>1 DEF TaskFits, Kinds, BookWrites, Rows, Id, Kind
<1>4. Kind(y) \in Deletes \cup {"createCategory"} \/ Kind(y) = "createBook" => Kind(y) # "none"
  BY DEF Deletes
<1>. QED  BY <1>1, <1>2, <1>3, <1>4 DEF RequestOk, Same

\* Steps that commit nothing.
LEMMA QuietSound ==
  ASSUME Typed, Sound, NEW r \in Requests, UNCHANGED rows, fresh' \subseteq fresh,
         OthersSame(r), RequestOk(r)', Unique',
         \A x \in Rows : holder'[x] = r => DoomOk(x)',
         \A x \in Rows : Doomed(x) /\ holder[x] # r => x \notin share'[r]
  PROVE  Sound'
<1>1. Refs'
  BY DEF Sound, Refs, rows
<1>2. ASSUME NEW y \in Requests \ {r} PROVE RequestOk(y)'
  <2>1. \A x \in Rows : holder'[x] = y <=> holder[x] = y
    BY TablesAssumption DEF OthersSame
  <2>2. RequestOk(y) /\ Same(y) /\ live' = live
    BY DEF Sound, OthersSame, rows
  <2>. QED  BY <2>1, <2>2, RequestUndisturbed
<1>3. ASSUME NEW x \in Rows, holder'[x] # r, Doomed(x)' PROVE DoomOk(x)'
  <2>1. holder[x] = holder'[x] /\ holder[x] \in Requests \ {r}
    BY <1>3 DEF Doomed, OthersSame, Typed, TypeOK
  <2>2. PICK y \in Requests \ {r} : y = holder[x] /\ Same(y)
    BY <2>1 DEF OthersSame
  <2>3. Doomed(x)
    BY <1>3, <2>1, <2>2 DEF Doomed, Kind, Id, Same
  <2>4. DoomOk(x)
    BY DEF Sound
  <2>5. \A z \in Requests : x \notin share'[z]
    BY <2>1, <2>3, <2>4 DEF DoomOk, OthersSame, Same
  <2>6. LinksOf(x)' \subseteq unlinked'[y]
    BY <2>2, <2>3, <2>4 DEF DoomOk, LinksOf, Same, rows
  <2>7. ASSUME NEW b \in Books, shelf'[b] = x PROVE holder'[b] = y
    <3>1. b \in Rows /\ holder[b] = y
      BY <2>2, <2>3, <2>4, <2>7 DEF DoomOk, rows, Rows
    <3>. QED  BY <3>1, TablesAssumption DEF OthersSame
  <2>. QED  BY <2>1, <2>2, <2>5, <2>6, <2>7 DEF DoomOk
<1>4. \A x \in Rows : DoomOk(x)'
  BY <1>3 DEF DoomOk
<1>. QED  BY <1>1, <1>2, <1>4 DEF Sound

\* No row has a new value of its unique column but one that r holds.
LEMMA IsbnsKept ==
  ASSUME Typed, NEW r \in Requests, UNCHANGED rows, OthersSame(r), NEW b \in Books,
         holder'[b] = r => NextIsbn(b)' \in {Nil, isbn[b], NextIsbn(b)}
  PROVE  IsbnsOf(b)' \subseteq IsbnsOf(b)
<1>. b \in Rows
  BY DEF Rows
<1>1. CASE holder'[b] = r
  BY <1>1 DEF IsbnsOf, rows
<1>2. CASE holder'[b] = Nil
  BY <1>2 DEF IsbnsOf, NextIsbn, rows
<1>3. CASE holder'[b] \notin {Nil, r}
  <2>1. PICK y \in Requests \ {r} : y = holder'[b] /\ holder[b] = y /\ Same(y)
    BY <1>3 DEF OthersSame, Typed, TypeOK
  <2>2. DraftIsbn(y, b)' = DraftIsbn(y, b)
    BY <2>1 DEF DraftIsbn, Changes, Same, Kind, rows
  <2>. QED  BY <2>1, <2>2, TablesAssumption DEF IsbnsOf, NextIsbn, rows
<1>. QED  BY <1>1, <1>2, <1>3

LEMMA NamesKept ==
  ASSUME Typed, NEW r \in Requests, UNCHANGED rows, OthersSame(r), NEW c \in Categories,
         holder'[c] = r => NextName(c)' \in {Nil, names[c], NextName(c)}
  PROVE  NamesOf(c)' \subseteq NamesOf(c)
<1>. c \in Rows
  BY DEF Rows
<1>1. CASE holder'[c] = r
  BY <1>1 DEF NamesOf, rows
<1>2. CASE holder'[c] = Nil
  BY <1>2 DEF NamesOf, NextName, rows
<1>3. CASE holder'[c] \notin {Nil, r}
  <2>1. PICK y \in Requests \ {r} : y = holder'[c] /\ holder[c] = y /\ Same(y)
    BY <1>3 DEF OthersSame, Typed, TypeOK
  <2>2. DraftName(y)' = DraftName(y)
    BY <2>1 DEF DraftName, Same, Kind
  <2>. QED  BY <2>1, <2>2, TablesAssumption DEF NamesOf, NextName, rows
<1>. QED  BY <1>1, <1>2, <1>3

LEMMA UniqueKept ==
  ASSUME Typed, Sound, NEW r \in Requests, UNCHANGED rows, OthersSame(r),
         \A b \in Books : holder'[b] = r => NextIsbn(b)' \in {Nil, isbn[b], NextIsbn(b)},
         \A c \in Categories : holder'[c] = r => NextName(c)' \in {Nil, names[c], NextName(c)}
  PROVE  Unique'
<1>1. \A b \in Books : IsbnsOf(b)' \subseteq IsbnsOf(b)
  BY IsbnsKept
<1>2. \A c \in Categories : NamesOf(c)' \subseteq NamesOf(c)
  BY NamesKept
<1>3. Unique
  BY DEF Sound
<1>. QED  BY <1>1, <1>2, <1>3 DEF Unique

\* Steps that take and release no row.
LEMMA UniqueStays ==
  ASSUME Typed, Sound, NEW r \in Requests, UNCHANGED rows, UNCHANGED holder, OthersSame(r),
         (task'[r] = task[r] /\ seen'[r] = seen[r]) \/ \A x \in Rows : holder[x] # r
  PROVE  Unique'
<1>1. ASSUME NEW b \in Books, holder'[b] = r PROVE NextIsbn(b)' = NextIsbn(b)
  <2>1. b \in Rows /\ DraftIsbn(r, b)' = DraftIsbn(r, b)
    BY <1>1 DEF DraftIsbn, Changes, Kind, rows, Rows
  <2>. QED  BY <1>1, <2>1 DEF NextIsbn, rows
<1>2. ASSUME NEW c \in Categories, holder'[c] = r PROVE NextName(c)' = NextName(c)
  <2>1. c \in Rows /\ DraftName(r)' = DraftName(r)
    BY <1>2 DEF DraftName, Kind, Rows
  <2>. QED  BY <1>2, <2>1 DEF NextName, rows
<1>. QED  BY <1>1, <1>2, UniqueKept

LEMMA RollbackSound ==
  ASSUME Typed, Sound, NEW r \in Requests, NEW outcome \in Ended, Rollback(r, outcome)
  PROVE  Sound'
<1>1. /\ pc'[r] = outcome /\ task'[r] = NoTask
      /\ share'[r] = {} /\ linked'[r] = {} /\ unlinked'[r] = {}
      /\ \A x \in Rows : holder'[x] = IF holder[x] = r THEN Nil ELSE holder[x]
      /\ \A x \in Rows : holder'[x] # r
      /\ OthersSame(r)
  BY TablesAssumption DEF Rollback, End, Goto, OthersSame, Same, Typed, TypeOK
<1>2. RequestOk(r)'
  BY <1>1, BlanksTyped DEF RequestOk, Kind, Creates, Deletes, Ended
<1>3. Unique'
  <2>1. /\ \A b \in Books : holder'[b] # r
        /\ \A c \in Categories : holder'[c] # r
    BY <1>1 DEF Rows
  <2>. QED  BY <1>1, <2>1, UniqueKept DEF Rollback
<1>. QED  BY <1>1, <1>2, <1>3, QuietSound DEF Rollback

\* A request has no lock before its flush.
LEMMA IdleHoldsNothing ==
  ASSUME Typed, Sound, NEW r \in Requests, pc[r] \in {"new", "row", "unshelve", "refresh"}
  PROVE  \A x \in Rows : holder[x] # r
<1>1. ASSUME NEW x \in Rows, holder[x] = r PROVE FALSE
  BY <1>1 DEF Sound, RequestOk, HolderOk
<1>. QED  BY <1>1

LEMMA BeginSound ==
  ASSUME Typed, Sound, NEW r \in Requests, pc[r] = "new", NEW t, NEW step \in Steps, NEW s,
         Begin(r, t, step, s), fresh' \subseteq fresh, t.id \in Rows,
         step # "commit" \/ t.kind = "createAuthor",
         step = "link" => t.kind = "patchBook" /\ Adds(t.id, t.body, s) # {},
         t.kind \in Creates => t.id \notin fresh'
  PROVE  Sound'
<1>1. /\ pc'[r] = step /\ task'[r] = t /\ seen'[r] = s /\ UNCHANGED <<rows, locks>>
      /\ OthersSame(r)
  BY DEF Begin, Goto, OthersSame, Same, Typed, TypeOK, locks
<1>2. \A x \in Rows : holder[x] # r
  BY IdleHoldsNothing
<1>3. share[r] = {} /\ linked[r] = {} /\ unlinked[r] = {}
  BY DEF Typed, StepFits, BookWrites, Unlinkers, Sound, RequestOk
<1>4. RequestOk(r)'
  <2>1. Kind(r)' = t.kind /\ Id(r)' = t.id /\ AddsOf(r)' = Adds(t.id, t.body, s)
    BY <1>1 DEF Kind, Id, AddsOf
  <2>. QED  BY <1>1, <1>2, <1>3, <2>1 DEF RequestOk, locks, Creates, Deletes
<1>5. Unique'
  BY <1>1, <1>2, UniqueStays DEF locks
<1>. QED  BY <1>1, <1>2, <1>3, <1>4, <1>5, QuietSound DEF locks

LEMMA BeginningsSound ==
  ASSUME Typed, Sound, NEW r \in Requests,
         CreateBook(r) \/ PatchBook(r) \/ Delete(r) \/ CreateAuthor(r) \/ PatchAuthor(r)
           \/ CreateCategory(r) \/ PatchCategory(r)
  PROVE  Sound'
<1>. USE DEF Steps, Creates, Ended
<1>1. CASE CreateBook(r)
  <2>1. ASSUME NEW body \in Bodies, NEW b \in fresh \cap Books, fresh' = fresh \ {b}, pc[r] = "new",
               Begin(r, BookTask("createBook", b, body), "row", Nothing)
        PROVE  Sound'
    <3>1. b \in Rows /\ body \in Body /\ "createBook" \in Kinds
      BY CatalogueAssumption DEF Rows, Kinds
    <3>. QED  BY <2>1, <3>1, TasksTyped, BeginSound
  <2>. QED  BY <1>1, <2>1, RollbackSound DEF CreateBook
<1>2. CASE PatchBook(r)
  <2>1. ASSUME NEW b \in Books, NEW body \in Bodies, UNCHANGED fresh, pc[r] = "new", NEW s,
               Begin(r, BookTask("patchBook", b, body), Writing(b, body, s), s)
        PROVE  Sound'
    <3>1. b \in Rows /\ body \in Body /\ "patchBook" \in Kinds
      BY CatalogueAssumption DEF Rows, Kinds
    <3>2. /\ Writing(b, body, s) \in Steps \ {"commit"}
          /\ Writing(b, body, s) = "link" => Adds(b, body, s) # {}
      BY DEF Writing, Unlinking, Linking
    <3>. QED  BY <2>1, <3>1, <3>2, TasksTyped, BeginSound
  <2>. QED  BY <1>2, <2>1, RollbackSound DEF PatchBook
<1>3. CASE Delete(r)
  <2>1. ASSUME NEW x \in Rows, NEW kind \in Deletes, NEW step \in {"unlink", "unshelve"}, NEW s,
               UNCHANGED fresh, pc[r] = "new", Begin(r, Task(kind, x), step, s)
        PROVE  Sound'
    <3>1. kind \in Kinds
      BY DEF Kinds, Deletes
    <3>. QED  BY <2>1, <3>1, TasksTyped, BeginSound DEF Deletes
  <2>. QED  BY <1>3, <2>1, RollbackSound DEF Delete, Deletes
<1>4. CASE CreateAuthor(r)
  <2>1. PICK a \in fresh \cap Authors : /\ Begin(r, Task("createAuthor", a), "commit", Nothing)
                                        /\ fresh' = fresh \ {a} /\ pc[r] = "new"
    BY <1>4 DEF CreateAuthor
  <2>2. a \in Rows /\ "createAuthor" \in Kinds
    BY DEF Rows, Kinds
  <2>. QED  BY <2>1, <2>2, TasksTyped, BeginSound
<1>5. CASE PatchAuthor(r)
  <2>1. ASSUME NEW a \in Authors, NEW step \in {"row", "refresh"}, UNCHANGED fresh, pc[r] = "new",
               Begin(r, Task("patchAuthor", a), step, Nothing)
        PROVE  Sound'
    <3>1. a \in Rows /\ "patchAuthor" \in Kinds
      BY DEF Rows, Kinds
    <3>. QED  BY <2>1, <3>1, TasksTyped, BeginSound
  <2>. QED  BY <1>5, <2>1, RollbackSound DEF PatchAuthor
<1>6. CASE CreateCategory(r)
  <2>1. PICK c \in fresh \cap Categories, name \in Names :
           /\ Begin(r, CategoryTask("createCategory", c, name), "row", Nothing)
           /\ fresh' = fresh \ {c} /\ pc[r] = "new"
    BY <1>6 DEF CreateCategory
  <2>2. c \in Rows /\ "createCategory" \in Kinds
    BY DEF Rows, Kinds
  <2>. QED  BY <2>1, <2>2, TasksTyped, BeginSound
<1>7. CASE PatchCategory(r)
  <2>1. ASSUME NEW c \in Categories, NEW name \in Names, NEW step \in {"row", "refresh"},
               UNCHANGED fresh, pc[r] = "new",
               Begin(r, CategoryTask("patchCategory", c, name), step, Nothing)
        PROVE  Sound'
    <3>1. c \in Rows /\ "patchCategory" \in Kinds
      BY DEF Rows, Kinds
    <3>. QED  BY <2>1, <3>1, TasksTyped, BeginSound
  <2>. QED  BY <1>7, <2>1, RollbackSound DEF PatchCategory
<1>. QED  BY <1>1, <1>2, <1>3, <1>4, <1>5, <1>6, <1>7

\* A statement of r's flush, whatever it locks.
LEMMA StatementSame ==
  ASSUME Typed, Typed', NEW r \in Requests, NEW step \in Steps, Proceed(r, step),
         UNCHANGED holder
           \/ \E some : Hold(r, some) /\ \A x \in some \cap Rows : holder[x] \in {Nil, r},
         UNCHANGED share \/ \E some : share' = [share EXCEPT ![r] = some],
         UNCHANGED linked \/ \E some : linked' = [linked EXCEPT ![r] = some],
         UNCHANGED unlinked \/ \E some : unlinked' = [unlinked EXCEPT ![r] = some]
  PROVE  /\ OthersSame(r) /\ pc'[r] = step
         /\ Kind(r)' = Kind(r) /\ Id(r)' = Id(r) /\ Needed(r)' = Needed(r) /\ AddsOf(r)' = AddsOf(r)
<1>1. /\ \A y \in Requests \ {r} : Same(y)
      /\ pc'[r] = step
  BY DEF Same, Proceed, Goto, Typed, TypeOK
<1>2. \A x \in Rows : holder'[x] # holder[x] => {holder[x], holder'[x]} \subseteq {Nil, r}
  BY HoldTyped
<1>3. /\ Kind(r)' = Kind(r) /\ Id(r)' = Id(r) /\ Needed(r)' = Needed(r) /\ AddsOf(r)' = AddsOf(r)
  BY DEF Proceed, Kind, Id, Needed, Changes, AddsOf, Adds
<1>. QED  BY <1>1, <1>2, <1>3 DEF OthersSame

\* The foreign key check of r lets it rely on no row that is about to be deleted.
LEMMA BarredFromTheDoomed ==
  ASSUME Typed, NEW r \in Requests, NEW x \in Rows, Barring(r, x) = {}, holder[x] # r
  PROVE  ~Doomed(x)
<1>. SUFFICES ASSUME Doomed(x) PROVE FALSE
  OBVIOUS
<1>. DEFINE y == holder[x]
<1>1. y \in Requests \ {r} /\ Kind(y) \in Deletes /\ Id(y) = x
  BY DEF Doomed, Typed, TypeOK
<1>2. Kind(y) = "deleteCategory" => x \notin Books
  BY <1>1, TablesAssumption DEF Typed, TaskFits, Kind, Id
<1>3. ~Spares(y, x)
  BY <1>1, <1>2 DEF Spares, Deletes
<1>4. y \in Holders(r, {x})
  BY <1>1, TablesAssumption DEF Holders
<1>. QED  BY <1>3, <1>4 DEF Barring

LEMMA WriteBookSound ==
  ASSUME Typed, Typed', Sound, NEW r \in Requests, WriteBook(r)
  PROVE  Sound'
<1>. PICK b \in Books : b = Id(r)
  BY BookWriteTyped DEF WriteBook, BookWrites
<1>1. /\ pc[r] = "row" /\ Kind(r) \in BookWrites /\ WaitsFor(r) = {} /\ b \in Rows
      /\ Needed(r) \subseteq Rows /\ task[r].body \in Body
  BY BookWriteTyped DEF WriteBook, BookWrites, Rows
<1>2. /\ \A x \in Rows : holder[x] # r
      /\ RequestOk(r)
  BY <1>1, IdleHoldsNothing DEF Sound
<1>3. ASSUME ~IsbnTaken(r), Needed(r) \subseteq live, Hold(r, {b}), UNCHANGED <<linked, unlinked>>,
             share' = [share EXCEPT ![r] = @ \cup Needed(r)],
             Kind(r) = "createBook" \/ b \in live,
             NEW step \in {"unlink", "link", "commit"}, Proceed(r, step),
             step = "link" => AddsOf(r) # {}
      PROVE  Sound'
  <2>1. /\ holder[b] = Nil
        /\ \A c \in Needed(r) : Barring(r, c) = {}
        /\ Changes(r, "isbn") => IsbnUsers(r, task[r].body.isbn) = {}
    <3>1. WaitsFor(r) = Holders(r, {b})
              \cup (IF Changes(r, "isbn")
                    THEN Referrers(r, b) \cup IsbnUsers(r, task[r].body.isbn) ELSE {})
              \cup UNION {Barring(r, c) : c \in Needed(r)}
      BY <1>1, <1>3 DEF WaitsFor, BookWrites
    <3>2. Holders(r, {b}) = {} /\ UNION {Barring(r, c) : c \in Needed(r)} = {}
      BY <1>1, <3>1
    <3>. QED  BY <1>1, <1>2, <3>1, <3>2 DEF Holders
  <2>2. step \in Steps
    BY DEF Steps
  <2>3. \A x \in {b} \cap Rows : holder[x] \in {Nil, r}
    BY <2>1
  <2>4. /\ OthersSame(r) /\ pc'[r] = step
        /\ Kind(r)' = Kind(r) /\ Id(r)' = b /\ Needed(r)' = Needed(r) /\ AddsOf(r)' = AddsOf(r)
    <3>1. \E some : share' = [share EXCEPT ![r] = some]
      BY <1>3
    <3>2. \E some : Hold(r, some) /\ \A x \in some \cap Rows : holder[x] \in {Nil, r}
      BY <1>3, <2>3
    <3>. QED  BY <1>3, <2>2, <3>1, <3>2, StatementSame
  <2>5. \A x \in Rows : holder'[x] = r <=> x = b
    BY <1>1, <1>2, <1>3, HoldTyped
  <2>6. share'[r] = share[r] \cup Needed(r) /\ linked' = linked /\ UNCHANGED <<rows, fresh>>
    BY <1>3 DEF Typed, TypeOK, Proceed
  <2>7. RequestOk(r)'
    <3>1. HolderOk(r, b)'
      BY <1>1, <1>3, <2>4, <2>6 DEF HolderOk, BookWrites, Patches, rows
    <3>2. /\ Kind(r) \notin Deletes \cup {"createCategory"}
          /\ holder'[b] = r
      BY <1>1, <2>5 DEF Deletes, BookWrites
    <3>. QED  BY <1>1, <1>2, <1>3, <2>4, <2>5, <2>6, <3>1, <3>2 DEF RequestOk, rows
  <2>8. \A x \in Rows : holder'[x] = r => DoomOk(x)'
    BY <1>1, <2>4 DEF DoomOk, Doomed, BookWrites, Deletes
  <2>9. ASSUME NEW x \in Rows, Doomed(x), holder[x] # r PROVE x \notin share'[r]
    <3>1. x \notin share[r]
      BY <2>9 DEF Sound, DoomOk
    <3>. QED  BY <1>2, <2>1, <2>6, <2>9, <3>1, BarredFromTheDoomed
  <2>10. Unique'
    <3>1. \A d \in Books \ {b} : holder'[d] # r
      BY <2>5 DEF Rows
    <3>2. \A d \in Books \ {b} : IsbnsOf(d)' \subseteq IsbnsOf(d)
      BY <2>4, <2>6, <3>1, IsbnsKept
    <3>3. NextIsbn(b)' = IF Changes(r, "isbn") THEN task[r].body.isbn ELSE isbn[b]
      <4>1. holder'[b] = r /\ r # Nil
        BY <1>1, <2>5, TablesAssumption
      <4>2. Changes(r, "isbn")' <=> Changes(r, "isbn")
        BY <1>3 DEF Changes, Proceed, Kind
      <4>. QED  BY <1>1, <1>3, <2>4, <2>6, <4>1, <4>2 DEF NextIsbn, DraftIsbn, BookWrites, Proceed, rows
    <3>4. ASSUME NEW d \in Books \ {b} PROVE IsbnsOf(b)' \cap IsbnsOf(d) = {}
      <4>1. IsbnsOf(b) \cap IsbnsOf(d) = {} /\ isbn'[b] = isbn[b]
        BY <1>1, <2>6 DEF Sound, Unique, rows
      <4>2. CASE ~Changes(r, "isbn")
        BY <3>3, <4>1, <4>2 DEF IsbnsOf
      <4>3. CASE Changes(r, "isbn")
        <5>. DEFINE i == task[r].body.isbn
        <5>. SUFFICES ASSUME i # Nil PROVE i \notin IsbnsOf(d)
          BY <3>3, <4>1, <4>3 DEF IsbnsOf
        <5>1. isbn[d] # i
          BY <1>3, <4>3 DEF IsbnTaken
        <5>2. holder[d] # r
          BY <1>2 DEF Rows
        <5>3. holder[d] # Nil => i # DraftIsbn(holder[d], d)
          BY <2>1, <4>3, <5>2 DEF IsbnUsers
        <5>. QED  BY <5>1, <5>3 DEF IsbnsOf, NextIsbn
      <4>. QED  BY <4>2, <4>3
    <3>5. ASSUME NEW c \in Categories PROVE NamesOf(c)' \subseteq NamesOf(c)
      <4>1. holder'[c] # r
        BY <1>1, <2>5, TablesAssumption DEF Rows
      <4>. QED  BY <2>4, <2>6, <4>1, NamesKept
    <3>6. Unique
      BY DEF Sound
    <3>7. ASSUME NEW d \in Books, NEW e \in Books, d # e PROVE IsbnsOf(d)' \cap IsbnsOf(e)' = {}
      <4>1. CASE d = b
        BY <3>2, <3>4, <3>7, <4>1
      <4>2. CASE e = b
        BY <3>2, <3>4, <3>7, <4>2
      <4>3. CASE d # b /\ e # b
        BY <3>2, <3>6, <3>7, <4>3 DEF Unique
      <4>. QED  BY <4>1, <4>2, <4>3
    <3>. QED  BY <3>5, <3>6, <3>7 DEF Unique
  <2>. QED  BY <2>4, <2>6, <2>7, <2>8, <2>9, <2>10, QuietSound
<1>4. /\ (IF AfterRow(r) = "refresh" THEN "commit" ELSE AfterRow(r)) \in {"unlink", "link", "commit"}
      /\ AfterRow(r) = "link" => AddsOf(r) # {}
  BY <1>1, AfterRowFits DEF AfterRow, Unlinking, Linking, AddsOf
<1>. QED  BY <1>3, <1>4, RollbackSound DEF WriteBook, Ended

\* Statements that lock no row.
LEMMA UnlinkSound ==
  ASSUME Typed, Typed', Sound, NEW r \in Requests, Unlink(r)
  PROVE  Sound'
<1>1. /\ pc[r] = "unlink" /\ Proceed(r, AfterUnlink(r)) /\ Kind(r) \in Unlinkers
      /\ UNCHANGED <<holder, share, linked>> /\ RequestOk(r)
  BY DEF Unlink, Typed, StepFits, Sound
<1>2. /\ AfterUnlink(r) \in Steps
      /\ AfterUnlink(r) \in {"erase", "link", "refresh", "commit"}
      /\ AfterUnlink(r) = "link" => AddsOf(r) # {}
      /\ Kind(r) # "patchBook" => AfterUnlink(r) = "erase"
      /\ Kind(r) = "patchBook" => AfterUnlink(r) # "erase"
      /\ Kind(r) = "patchBook" /\ holder[Id(r)] = r => AfterUnlink(r) \in {"link", "commit"}
  BY DEF AfterUnlink, Linking, AddsOf, Steps
<1>3. /\ OthersSame(r) /\ pc'[r] = AfterUnlink(r)
      /\ Kind(r)' = Kind(r) /\ Id(r)' = Id(r) /\ Needed(r)' = Needed(r) /\ AddsOf(r)' = AddsOf(r)
      /\ UNCHANGED <<rows, fresh, task, seen>>
  <2>1. \E some : unlinked' = [unlinked EXCEPT ![r] = some]
    BY DEF Unlink
  <2>2. UNCHANGED <<rows, fresh, task, seen>>
    BY <1>1 DEF Proceed
  <2>. QED  BY <1>1, <1>2, <2>1, <2>2, StatementSame
<1>4. ASSUME NEW x \in Rows, holder[x] = r PROVE Kind(r) = "patchBook" /\ x = Id(r) /\ HolderOk(r, x)'
  <2>1. HolderOk(r, x)
    BY <1>1, <1>4 DEF RequestOk
  <2>2. Kind(r) = "patchBook" /\ x = Id(r)
    BY <1>1, <2>1 DEF HolderOk, BookWrites, Unlinkers
  <2>. QED  BY <1>1, <1>2, <1>3, <1>4, <2>1, <2>2 DEF HolderOk, BookWrites, rows
<1>5. RequestOk(r)'
  BY <1>1, <1>2, <1>3, <1>4 DEF RequestOk, Unlinkers, Deletes, Creates, rows
<1>6. \A x \in Rows : holder'[x] = r => DoomOk(x)'
  BY <1>1, <1>3, <1>4 DEF DoomOk, Doomed, Deletes
<1>7. Unique'
  BY <1>1, <1>3, UniqueStays
<1>8. \A x \in Rows : Doomed(x) => x \notin share'[r]
  BY <1>1 DEF Sound, DoomOk
<1>. QED  BY <1>3, <1>5, <1>6, <1>7, <1>8, QuietSound

LEMMA RefreshSound ==
  ASSUME Typed, Typed', Sound, NEW r \in Requests, Refresh(r)
  PROVE  Sound'
<1>1. CASE Proceed(r, "commit") /\ UNCHANGED locks
  <2>1. /\ pc[r] = "refresh" /\ Kind(r) \in Patches /\ RequestOk(r) /\ UNCHANGED <<rows, fresh, task, seen>>
    BY <1>1 DEF Refresh, Typed, StepFits, Sound, Proceed
  <2>2. \A x \in Rows : holder[x] # r
    BY <2>1, IdleHoldsNothing
  <2>3. /\ OthersSame(r) /\ pc'[r] = "commit"
        /\ Kind(r)' = Kind(r) /\ Id(r)' = Id(r)
    BY <1>1, StatementSame DEF locks, Steps
  <2>4. RequestOk(r)'
    BY <1>1, <2>1, <2>2, <2>3 DEF RequestOk, Patches, Deletes, Creates, locks, rows
  <2>5. Unique'
    BY <1>1, <2>1, <2>2, <2>3, UniqueStays DEF locks
  <2>6. \A x \in Rows : Doomed(x) => x \notin share'[r]
    BY <1>1 DEF Sound, DoomOk, locks
  <2>. QED  BY <1>1, <2>1, <2>2, <2>3, <2>4, <2>5, <2>6, QuietSound DEF locks
<1>. QED  BY <1>1, RollbackSound DEF Refresh, Ended

\* The links to insert are of the book itself.
LEMMA AddsAreOwn ==
  ASSUME NEW r \in Requests, NEW l \in AddsOf(r)
  PROVE  /\ l[1] = Id(r) /\ l[2] \in task[r].body.authors
         /\ l[1] \in Ends(r) /\ l[2] \in Ends(r) /\ task[r].body.authors # Keep
<1>1. task[r].body.authors # Keep /\ l \in {Id(r)} \X task[r].body.authors
  BY DEF AddsOf, Adds
<1>. QED  BY <1>1 DEF Ends

LEMMA LinkAuthorsSound ==
  ASSUME Typed, Typed', Sound, NEW r \in Requests, LinkAuthors(r)
  PROVE  Sound'
<1>1. /\ pc[r] = "link" /\ Kind(r) \in BookWrites /\ RequestOk(r) /\ WaitsFor(r) = {}
      /\ Id(r) \in Rows /\ Ends(r) \subseteq Rows
  BY BookWriteTyped DEF LinkAuthors, Typed, StepFits, Sound, Rows
<1>2. ASSUME MayLink(r, AddsOf(r)),
             linked' = [linked EXCEPT ![r] = AddsOf(r)],
             share' = [share EXCEPT ![r] = @ \cup Ends(r)],
             Proceed(r, "commit"), UNCHANGED <<holder, unlinked>>
      PROVE  Sound'
  <2>1. UNCHANGED <<rows, fresh, task, seen>>
    BY <1>2 DEF Proceed
  <2>2. /\ OthersSame(r) /\ pc'[r] = "commit"
        /\ Kind(r)' = Kind(r) /\ Id(r)' = Id(r) /\ Needed(r)' = Needed(r)
    <3>1. \E some : share' = [share EXCEPT ![r] = some]
      BY <1>2
    <3>2. \E some : linked' = [linked EXCEPT ![r] = some]
      BY <1>2
    <3>. QED  BY <1>2, <3>1, <3>2, StatementSame DEF Steps
  <2>3. share'[r] = share[r] \cup Ends(r) /\ linked'[r] = AddsOf(r)
    BY <1>2 DEF Typed, TypeOK
  <2>4. ASSUME NEW x \in Rows, holder[x] = r PROVE x = Id(r) /\ HolderOk(r, x)'
    <3>1. HolderOk(r, x)
      BY <1>1, <2>4 DEF RequestOk
    <3>. QED  BY <1>1, <2>1, <2>2, <2>3, <3>1 DEF HolderOk, BookWrites, rows
  <2>5. Id(r) \in live \/ Kind(r) = "createBook"
    <3>1. PICK l \in AddsOf(r) : TRUE
      BY <1>1 DEF RequestOk
    <3>2. Id(r) \in live \/ holder[Id(r)] = r
      BY <1>2, <3>1, AddsAreOwn DEF MayLink
    <3>. QED  BY <1>1, <3>2 DEF RequestOk, HolderOk, BookWrites, Patches
  <2>6. \A x \in Ends(r) : x \in live \/ (Kind(r) = "createBook" /\ x = Id(r))
    BY <1>2, <2>5 DEF Ends, MayLink
  <2>7. RequestOk(r)'
    <3>1. \A l \in linked'[r] : l[1] \in share'[r] /\ l[2] \in share'[r]
      BY <2>3, AddsAreOwn
    <3>2. \A x \in share'[r] : x \in live \/ (Kind(r) = "createBook" /\ x = Id(r))
      BY <1>1, <2>3, <2>6 DEF RequestOk
    <3>3. Kind(r) = "createBook" => holder[Id(r)] = r
      BY <1>1 DEF RequestOk
    <3>. QED  BY <1>1, <1>2, <2>1, <2>2, <2>4, <3>1, <3>2, <3>3
              DEF RequestOk, BookWrites, Deletes, rows
  <2>8. \A x \in Rows : holder'[x] = r => DoomOk(x)'
    BY <1>1, <2>2 DEF DoomOk, Doomed, BookWrites, Deletes
  <2>9. ASSUME NEW x \in Rows, Doomed(x), holder[x] # r PROVE x \notin share'[r]
    <3>1. x \notin share[r]
      BY <2>9 DEF Sound, DoomOk
    <3>2. \A e \in Ends(r) : Barring(r, e) = {}
      BY <1>1 DEF WaitsFor
    <3>. QED  BY <1>1, <2>3, <2>9, <3>1, <3>2, BarredFromTheDoomed
  <2>10. Unique'
    BY <1>2, <2>1, <2>2, UniqueStays
  <2>. QED  BY <2>1, <2>2, <2>7, <2>8, <2>9, <2>10, QuietSound
<1>. QED  BY <1>2, RollbackSound DEF LinkAuthors, Ended

\* Statements that lock rows of their own table.
LEMMA UnshelveSound ==
  ASSUME Typed, Typed', Sound, NEW r \in Requests, Unshelve(r)
  PROVE  Sound'
<1>1. /\ pc[r] = "unshelve" /\ Kind(r) = "deleteCategory" /\ RequestOk(r) /\ WaitsFor(r) = {}
      /\ Id(r) \in Categories /\ seen[r].books \subseteq Books /\ task[r].body = Unchanged
  BY DEF Unshelve, Typed, TypeOK, SeenT, StepFits, TaskFits, Sound, Kind, Id, BookWrites
<1>2. \A x \in Rows : holder[x] # r
  BY <1>1, IdleHoldsNothing
<1>3. ASSUME NEW some \in SUBSET seen[r].books, Hold(r, some), Proceed(r, "erase"),
             UNCHANGED <<share, linked, unlinked>>
      PROVE  Sound'
  <2>1. UNCHANGED <<rows, fresh, task, seen>>
    BY <1>3 DEF Proceed
  <2>2. \A x \in seen[r].books : holder[x] \in {Nil, r}
    BY <1>1 DEF WaitsFor, Holders
  <2>3. OthersSame(r) /\ pc'[r] = "erase" /\ Kind(r)' = Kind(r) /\ Id(r)' = Id(r)
    <3>1. \E s : Hold(r, s) /\ \A x \in s \cap Rows : holder[x] \in {Nil, r}
      BY <1>3, <2>2
    <3>. QED  BY <1>3, <3>1, StatementSame DEF Steps
  <2>4. \A x \in Rows : holder'[x] = r => x \in Books
    BY <1>1, <1>2, <1>3, HoldTyped
  <2>5. RequestOk(r)'
    BY <1>1, <1>3, <2>1, <2>3, <2>4 DEF RequestOk, HolderOk, Patches, BookWrites, Creates, rows
  <2>6. \A x \in Rows : holder'[x] = r => DoomOk(x)'
    BY <1>1, <2>3, <2>4, TablesAssumption DEF DoomOk, Doomed
  <2>7. Unique'
    <3>1. ASSUME NEW b \in Books, holder'[b] = r PROVE NextIsbn(b)' = isbn[b]
      BY <1>1, <2>1, <2>3, <3>1, TablesAssumption
         DEF NextIsbn, DraftIsbn, Changes, Unchanged, Kind, rows
    <3>2. \A c \in Categories : holder'[c] # r
      BY <2>4, TablesAssumption DEF Rows
    <3>. QED  BY <2>1, <2>3, <3>1, <3>2, UniqueKept
  <2>8. \A x \in Rows : Doomed(x) => x \notin share'[r]
    BY <1>3 DEF Sound, DoomOk
  <2>. QED  BY <2>1, <2>3, <2>5, <2>6, <2>7, <2>8, QuietSound
<1>. QED  BY <1>3, RollbackSound DEF Unshelve, Ended

LEMMA EraseSound ==
  ASSUME Typed, Typed', Sound, NEW r \in Requests, Erase(r)
  PROVE  Sound'
<1>. PICK x \in Rows : x = Id(r)
  BY DEF Erase, Typed, StepFits, TaskFits, Deletes, Kind, Id, BookWrites, Rows
<1>1. /\ pc[r] = "erase" /\ Kind(r) \in Deletes /\ RequestOk(r) /\ WaitsFor(r) = {}
      /\ task[r].body = Unchanged /\ Refs
      /\ Kind(r) = "deleteBook" => x \in Books
      /\ Kind(r) = "deleteAuthor" => x \in Authors
      /\ Kind(r) = "deleteCategory" => x \in Categories
  BY DEF Erase, Typed, StepFits, TaskFits, Sound, Kind, Id, BookWrites, Deletes
<1>2. ASSUME NEW y \in Rows, holder[y] = r PROVE Kind(r) = "deleteCategory" /\ y \in Books
  BY <1>1, <1>2 DEF RequestOk, HolderOk, Deletes, BookWrites
<1>3. Kind(r) # "deleteCategory" => Shelved(r) = {}
  <2>1. \A b \in Books : shelf[b] \in Categories \cup {Nil}
    BY DEF Typed, TypeOK
  <2>. QED  BY <1>1, <2>1, TablesAssumption DEF Shelved, Deletes, Rows
<1>4. ASSUME Left(r) = {} \/ x \notin live, Hold(r, {x} \cup Shelved(r)), Proceed(r, "commit"),
             UNCHANGED <<share, linked, unlinked>>
      PROVE  Sound'
  <2>1. UNCHANGED <<rows, fresh, task, seen>>
    BY <1>4 DEF Proceed
  <2>2. /\ \A y \in {x} \cup Shelved(r) : holder[y] \in {Nil, r}
        /\ Referrers(r, x) = {}
    BY <1>1 DEF WaitsFor, Holders
  <2>3. OthersSame(r) /\ pc'[r] = "commit" /\ Kind(r)' = Kind(r) /\ Id(r)' = x
    <3>1. \E s : Hold(r, s) /\ \A y \in s \cap Rows : holder[y] \in {Nil, r}
      BY <1>4, <2>2
    <3>. QED  BY <1>4, <3>1, StatementSame DEF Steps
  <2>4. /\ holder'[x] = r
        /\ \A b \in Shelved(r) : b \in Books /\ holder'[b] = r
        /\ \A y \in Rows : holder'[y] = r => y = x \/ (Kind(r) = "deleteCategory" /\ y \in Books)
    <3>1. Shelved(r) \subseteq Books /\ Shelved(r) \subseteq Rows
      BY DEF Shelved, Rows
    <3>. QED  BY <1>2, <1>3, <1>4, <3>1, HoldTyped
  <2>5. RequestOk(r)'
    BY <1>1, <1>4, <2>1, <2>3, <2>4 DEF RequestOk, HolderOk, Patches, Deletes, BookWrites, Creates, rows
  <2>6. DoomOk(x)'
    <3>1. \A y \in Requests : x \notin share[y]
      BY <1>1, <2>2 DEF Referrers, RequestOk, Deletes, BookWrites
    <3>2. LinksOf(x) \subseteq unlinked[r]
      <4>1. CASE Left(r) = {}
        BY <4>1 DEF Left
      <4>2. CASE x \notin live
        BY <1>1, <4>2 DEF Refs, LinksOf
      <4>. QED  BY <1>4, <4>1, <4>2
    <3>3. LinksOf(x)' = LinksOf(x) /\ \A b \in Books : shelf[b] = x => b \in Shelved(r)
      BY <2>1 DEF LinksOf, Shelved, rows
    <3>. QED  BY <1>4, <2>1, <2>4, <3>1, <3>2, <3>3 DEF DoomOk, rows
  <2>7. ASSUME NEW y \in Rows, holder'[y] = r, y # x PROVE DoomOk(y)'
    BY <2>3, <2>7 DEF DoomOk, Doomed
  <2>8. Unique'
    <3>1. ASSUME NEW b \in Books, holder'[b] = r PROVE NextIsbn(b)' \in {Nil, isbn[b]}
      BY <1>1, <2>1, <2>3, <3>1, TablesAssumption
         DEF NextIsbn, DraftIsbn, Changes, Unchanged, Kind, rows
    <3>2. ASSUME NEW c \in Categories, holder'[c] = r PROVE NextName(c)' = Nil
      <4>1. c \in Rows /\ Kind(r) = "deleteCategory"
        BY <1>1, <2>4, <3>2, TablesAssumption DEF Deletes, Rows
      <4>. QED  BY <2>3, <3>2, <4>1, TablesAssumption DEF NextName, DraftName
    <3>. QED  BY <2>1, <2>3, <3>1, <3>2, UniqueKept
  <2>9. \A y \in Rows : Doomed(y) => y \notin share'[r]
    BY <1>4 DEF Sound, DoomOk
  <2>. QED  BY <2>1, <2>3, <2>5, <2>6, <2>7, <2>8, <2>9, QuietSound
<1>. QED  BY <1>4, RollbackSound DEF Erase, Ended

LEMMA WriteAuthorSound ==
  ASSUME Typed, Typed', Sound, NEW r \in Requests, WriteAuthor(r)
  PROVE  Sound'
<1>. PICK a \in Authors : a = Id(r)
  BY DEF WriteAuthor, Typed, TaskFits, Kind, Id
<1>1. /\ pc[r] = "row" /\ Kind(r) = "patchAuthor" /\ RequestOk(r) /\ WaitsFor(r) = {} /\ a \in Rows
  BY DEF WriteAuthor, Sound, Rows
<1>2. \A x \in Rows : holder[x] # r
  BY <1>1, IdleHoldsNothing
<1>3. ASSUME a \in live, Hold(r, {a}), Proceed(r, "commit"), UNCHANGED <<share, linked, unlinked>>
      PROVE  Sound'
  <2>1. UNCHANGED <<rows, fresh, task, seen>>
    BY <1>3 DEF Proceed
  <2>2. OthersSame(r) /\ pc'[r] = "commit" /\ Kind(r)' = Kind(r) /\ Id(r)' = a
    <3>1. \A x \in {a} \cap Rows : holder[x] \in {Nil, r}
      BY <1>1 DEF WaitsFor, Holders
    <3>2. \E s : Hold(r, s) /\ \A x \in s \cap Rows : holder[x] \in {Nil, r}
      BY <1>3, <3>1
    <3>. QED  BY <1>3, <3>2, StatementSame DEF Steps
  <2>3. \A x \in Rows : holder'[x] = r <=> x = a
    BY <1>1, <1>2, <1>3, HoldTyped
  <2>4. RequestOk(r)'
    BY <1>1, <1>3, <2>1, <2>2, <2>3
       DEF RequestOk, HolderOk, Patches, BookWrites, Creates, Deletes, rows
  <2>5. \A x \in Rows : holder'[x] = r => DoomOk(x)'
    BY <1>1, <2>2 DEF DoomOk, Doomed, Deletes
  <2>6. Unique'
    <3>1. \A x \in Books \cup Categories : holder'[x] # r
      BY <2>3, TablesAssumption DEF Rows
    <3>. QED  BY <2>1, <2>2, <3>1, UniqueKept
  <2>7. \A x \in Rows : Doomed(x) => x \notin share'[r]
    BY <1>3 DEF Sound, DoomOk
  <2>. QED  BY <2>1, <2>2, <2>4, <2>5, <2>6, <2>7, QuietSound
<1>. QED  BY <1>3, RollbackSound DEF WriteAuthor, Ended

LEMMA WriteCategorySound ==
  ASSUME Typed, Typed', Sound, NEW r \in Requests, WriteCategory(r)
  PROVE  Sound'
<1>. PICK c \in Categories : c = Id(r)
  BY DEF WriteCategory, Typed, TaskFits, Kind, Id
<1>. DEFINE n == task[r].name
<1>1. /\ pc[r] = "row" /\ Kind(r) \in {"createCategory", "patchCategory"} /\ RequestOk(r)
      /\ WaitsFor(r) = {} /\ c \in Rows
  BY DEF WriteCategory, Sound, Rows
<1>2. \A x \in Rows : holder[x] # r
  BY <1>1, IdleHoldsNothing
<1>3. ASSUME ~NameTaken(r), Kind(r) = "createCategory" \/ c \in live,
             Hold(r, {c}), Proceed(r, "commit"), UNCHANGED <<share, linked, unlinked>>
      PROVE  Sound'
  <2>1. UNCHANGED <<rows, fresh, task, seen>>
    BY <1>3 DEF Proceed
  <2>2. OthersSame(r) /\ pc'[r] = "commit" /\ Kind(r)' = Kind(r) /\ Id(r)' = c
    <3>1. \A x \in {c} \cap Rows : holder[x] \in {Nil, r}
      BY <1>1 DEF WaitsFor, Holders, BookWrites
    <3>2. \E s : Hold(r, s) /\ \A x \in s \cap Rows : holder[x] \in {Nil, r}
      BY <1>3, <3>1
    <3>. QED  BY <1>3, <3>2, StatementSame DEF Steps
  <2>3. \A x \in Rows : holder'[x] = r <=> x = c
    BY <1>1, <1>2, <1>3, HoldTyped
  <2>4. RequestOk(r)'
    BY <1>1, <1>3, <2>1, <2>2, <2>3
       DEF RequestOk, HolderOk, Patches, BookWrites, Creates, Deletes, rows
  <2>5. \A x \in Rows : holder'[x] = r => DoomOk(x)'
    BY <1>1, <2>2 DEF DoomOk, Doomed, Deletes
  <2>6. Unique'
    <3>1. ASSUME NEW b \in Books PROVE IsbnsOf(b)' \subseteq IsbnsOf(b)
      <4>1. holder'[b] # r
        BY <2>3, TablesAssumption DEF Rows
      <4>. QED  BY <2>1, <2>2, <4>1, IsbnsKept
    <3>2. ASSUME NEW d \in Categories \ {c} PROVE NamesOf(d)' \subseteq NamesOf(d)
      <4>1. holder'[d] # r
        BY <2>3 DEF Rows
      <4>. QED  BY <2>1, <2>2, <4>1, NamesKept
    <3>3. NextName(c)' = n
      <4>1. holder'[c] = r /\ r # Nil
        BY <1>1, <2>3, TablesAssumption
      <4>. QED  BY <1>1, <2>1, <2>2, <4>1 DEF NextName, DraftName
    <3>4. ASSUME NEW d \in Categories \ {c} PROVE NamesOf(c)' \cap NamesOf(d) = {}
      <4>1. NamesOf(c) \cap NamesOf(d) = {} /\ names'[c] = names[c]
        BY <2>1 DEF Sound, Unique, rows
      <4>2. names[d] # n
        <5>1. n \in Names /\ n # Nil
          BY <1>1, TablesAssumption DEF Typed, TaskFits, Kind
        <5>. QED  BY <1>3, <5>1 DEF NameTaken
      <4>3. holder[d] # r
        BY <1>2 DEF Rows
      <4>4. NameUsers(r, n) = {}
        BY <1>1 DEF WaitsFor, BookWrites
      <4>5. holder[d] # Nil => n # DraftName(holder[d])
        BY <4>3, <4>4 DEF NameUsers
      <4>6. n \notin NamesOf(d)
        BY <4>2, <4>5 DEF NamesOf, NextName
      <4>. QED  BY <3>3, <4>1, <4>6 DEF NamesOf
    <3>5. Unique
      BY DEF Sound
    <3>6. ASSUME NEW d \in Categories, NEW e \in Categories, d # e PROVE NamesOf(d)' \cap NamesOf(e)' = {}
      <4>1. CASE d = c
        BY <3>2, <3>4, <3>6, <4>1
      <4>2. CASE e = c
        BY <3>2, <3>4, <3>6, <4>2
      <4>3. CASE d # c /\ e # c
        BY <3>2, <3>5, <3>6, <4>3 DEF Unique
      <4>. QED  BY <4>1, <4>2, <4>3
    <3>. QED  BY <3>1, <3>5, <3>6 DEF Unique
  <2>7. \A x \in Rows : Doomed(x) => x \notin share'[r]
    BY <1>3 DEF Sound, DoomOk
  <2>. QED  BY <2>1, <2>2, <2>4, <2>5, <2>6, <2>7, QuietSound
<1>. QED  BY <1>3, RollbackSound DEF WriteCategory, Ended

\* What a commit does to the rows.
LEMMA CommitWrites ==
  ASSUME Typed, Sound, NEW r \in Requests, Commit(r)
  PROVE  /\ OthersSame(r) /\ pc'[r] = "ok" /\ task'[r] = NoTask
         /\ share'[r] = {} /\ linked'[r] = {} /\ unlinked'[r] = {} /\ fresh' = fresh
         /\ \A x \in Rows : holder'[x] = IF holder[x] = r THEN Nil ELSE holder[x]
         /\ \A x \in Rows : x \in live /\ x \notin live' => Doomed(x) /\ holder[x] = r
         /\ \A x \in live' : x \in live \/ (Kind(r) \in Creates /\ x = Id(r))
         /\ Kind(r) \in Creates => Id(r) \in live'
         /\ Kind(r) \in Deletes => Id(r) \notin live'
         /\ \A b \in Books : IF holder[b] = r
                             THEN /\ isbn'[b] = DraftIsbn(r, b)
                                  /\ shelf'[b] = IF Kind(r) \in BookWrites THEN DraftShelf(r, b) ELSE Nil
                             ELSE isbn'[b] = isbn[b] /\ shelf'[b] = shelf[b]
         /\ \A c \in Categories : names'[c] = IF holder[c] = r THEN DraftName(r) ELSE names[c]
<1>1. /\ OthersSame(r) /\ pc'[r] = "ok" /\ task'[r] = NoTask
      /\ share'[r] = {} /\ linked'[r] = {} /\ unlinked'[r] = {} /\ fresh' = fresh
      /\ \A x \in Rows : holder'[x] = IF holder[x] = r THEN Nil ELSE holder[x]
  BY DEF Commit, End, Goto, OthersSame, Same, Typed, TypeOK
<1>2. /\ \A x \in live : x \notin live' => Kind(r) \in Deletes /\ x = Id(r)
      /\ \A x \in live' : x \in live \/ (Kind(r) \in Creates /\ x = Id(r))
      /\ Kind(r) \in Creates => Id(r) \in live'
      /\ Kind(r) \in Deletes => Id(r) \notin live'
  BY DEF Commit, LiveAfter, Deletes, Creates
<1>3. Kind(r) \in Deletes => holder[Id(r)] = r
  BY DEF Commit, Sound, RequestOk
<1>4. \A x \in Rows : x \in live /\ x \notin live' => Doomed(x) /\ holder[x] = r
  BY <1>2, <1>3, TablesAssumption DEF Doomed
<1>5. \A b \in Books : IF holder[b] = r
                       THEN /\ isbn'[b] = DraftIsbn(r, b)
                            /\ shelf'[b] = IF Kind(r) \in BookWrites THEN DraftShelf(r, b) ELSE Nil
                       ELSE isbn'[b] = isbn[b] /\ shelf'[b] = shelf[b]
  <2>1. ASSUME NEW b \in Books, holder[b] = r
        PROVE  shelf'[b] = IF Kind(r) \in BookWrites THEN DraftShelf(r, b) ELSE Nil
    BY <2>1 DEF Commit, ShelfAfter, BookWrites
  <2>2. ASSUME NEW b \in Books, holder[b] # r PROVE shelf'[b] = shelf[b]
    BY <2>2 DEF Commit, ShelfAfter
  <2>. QED  BY <2>1, <2>2 DEF Commit, IsbnAfter
<1>6. \A c \in Categories : names'[c] = IF holder[c] = r THEN DraftName(r) ELSE names[c]
  BY DEF Commit, NamesAfter
<1>. QED  BY <1>1, <1>2, <1>4, <1>5, <1>6

\* Nobody's commit deletes what others rely on, or what it relies on itself.
LEMMA CommitKeeps ==
  ASSUME Typed, Sound, NEW r \in Requests, Commit(r), NEW x \in Rows, x \in live,
         \/ \E y \in Requests : x \in share[y]
         \/ holder[x] # r
         \/ Kind(r) \notin Deletes
  PROVE  x \in live'
  BY CommitWrites DEF Sound, DoomOk, Doomed

LEMMA CommitRefs ==
  ASSUME Typed, Typed', Sound, NEW r \in Requests, Commit(r)
  PROVE  Refs'
<1>1. /\ Refs /\ RequestOk(r) /\ pc[r] = "commit"
      /\ Kind(r) # "none" /\ Kind(r) \in Kinds /\ TaskFits(task[r]) /\ task[r].body \in Body
      /\ links \subseteq Link /\ linked[r] \subseteq Link
      /\ shelf \in [Books -> Categories \cup {Nil}]
  <2>1. pc[r] = "commit" /\ StepFits(pc[r], Kind(r)) /\ TaskFits(task[r]) /\ Refs /\ RequestOk(r)
    BY DEF Commit, Sound, Typed
  <2>2. Kind(r) # "none"
    BY <2>1 DEF StepFits, Ended
  <2>3. /\ Kind(r) \in Kinds \cup {"none"} /\ task[r].body \in Body
        /\ links \subseteq Link /\ linked[r] \subseteq Link
        /\ shelf \in [Books -> Categories \cup {Nil}]
    BY DEF Typed, TypeOK, Kind
  <2>. QED  BY <2>1, <2>2, <2>3
<1>2. \A x \in share[r] : x \in live'
  <2>1. share[r] \subseteq Rows
    BY DEF Typed, TypeOK
  <2>. QED  BY <1>1, <2>1, CommitKeeps, CommitWrites DEF RequestOk, Creates
<1>3. ASSUME NEW l \in links' PROVE l[1] \in live' /\ l[2] \in live'
  <2>1. CASE l \in linked[r]
    BY <1>1, <1>2, <2>1 DEF RequestOk
  <2>2. CASE l \in links \ unlinked[r]
    <3>1. l[1] \in live /\ l[2] \in live /\ l[1] \in Rows /\ l[2] \in Rows
      BY <1>1, <2>2 DEF Refs, Link, Rows
    <3>2. ASSUME NEW x \in {l[1], l[2]}, x \notin live' PROVE FALSE
      <4>1. Doomed(x) /\ holder[x] = r /\ DoomOk(x)
        BY <3>1, <3>2, CommitWrites DEF Sound
      <4>2. l \in LinksOf(x)
        BY <2>2 DEF LinksOf
      <4>. QED  BY <2>2, <4>1, <4>2 DEF DoomOk
    <3>. QED  BY <3>2
  <2>. QED  BY <2>1, <2>2 DEF Commit
<1>4. ASSUME NEW b \in Books PROVE shelf'[b] \in live' \cup {Nil}
  <2>. DEFINE c == shelf[b]
  <2>1. c \in live \cup {Nil} /\ c \in Rows \cup {Nil} /\ b \in Rows
    BY <1>1 DEF Refs, Rows
  <2>2. CASE holder[b] = r /\ Kind(r) \in BookWrites
    <3>1. shelf'[b] = DraftShelf(r, b) /\ HolderOk(r, b)
      BY <1>1, <2>1, <2>2, CommitWrites DEF RequestOk
    <3>2. CASE Changes(r, "category")
      <4>1. DraftShelf(r, b) \in Needed(r) \cup {Nil}
        BY <3>2 DEF DraftShelf, Needed
      <4>. QED  BY <1>2, <2>2, <3>1, <4>1 DEF HolderOk
    <3>3. CASE ~Changes(r, "category")
      <4>1. Kind(r) \notin Deletes
        BY <2>2 DEF BookWrites, Deletes
      <4>. QED  BY <2>1, <3>1, <3>3, <4>1, CommitKeeps DEF DraftShelf
    <3>. QED  BY <3>2, <3>3
  <2>3. CASE holder[b] = r /\ Kind(r) \notin BookWrites
    BY <2>3, CommitWrites
  <2>4. CASE holder[b] # r
    <3>1. shelf'[b] = c
      BY <2>4, CommitWrites
    <3>2. c # Nil /\ c \notin live' => FALSE
      BY <2>1, <2>4, CommitWrites DEF Sound, DoomOk
    <3>. QED  BY <3>1, <3>2
  <2>. QED  BY <2>2, <2>3, <2>4
<1>5. ASSUME NEW b \in Books, b \notin live' PROVE shelf'[b] = Nil /\ isbn'[b] = Nil
  <2>. b \in Rows
    BY DEF Rows
  <2>1. CASE b \in live
    <3>1. holder[b] = r /\ Kind(r) \in Deletes /\ Id(r) = b
      BY <1>5, <2>1, CommitWrites DEF Doomed
    <3>2. Kind(r) = "deleteBook"
      BY <1>1, <3>1, TablesAssumption DEF TaskFits, Kind, Id, Deletes
    <3>3. ~Changes(r, "isbn")
      BY <1>1, <3>2 DEF TaskFits, Changes, Unchanged, BookWrites, Kind
    <3>. QED  BY <3>1, <3>2, <3>3, CommitWrites DEF BookWrites, DraftIsbn
  <2>2. CASE b \notin live
    <3>1. shelf[b] = Nil /\ isbn[b] = Nil
      BY <1>1, <2>2 DEF Refs
    <3>2. CASE holder[b] = r
      <4>1. Kind(r) \notin BookWrites
        <5>1. HolderOk(r, b)
          BY <1>1, <3>2 DEF RequestOk
        <5>2. Kind(r) # "createBook"
          BY <1>1, <1>5, <5>1, CommitWrites DEF HolderOk, Creates
        <5>. QED  BY <2>2, <5>1, <5>2 DEF HolderOk, Patches, BookWrites
      <4>2. ~Changes(r, "isbn")
        BY <1>1, <4>1 DEF TaskFits, Changes, Unchanged, Kind
      <4>. QED  BY <3>1, <3>2, <4>1, <4>2, CommitWrites DEF DraftIsbn
    <3>3. CASE holder[b] # r
      BY <3>1, <3>3, CommitWrites
    <3>. QED  BY <3>2, <3>3
  <2>. QED  BY <2>1, <2>2
<1>6. ASSUME NEW c \in Categories, c \in live' PROVE names'[c] # Nil
  <2>. c \in Rows
    BY DEF Rows
  <2>1. CASE holder[c] = r
    <3>1. HolderOk(r, c)
      BY <1>1, <2>1 DEF RequestOk
    <3>2. c = Id(r)
      BY <3>1, TablesAssumption DEF HolderOk
    <3>3. Kind(r) \in {"createCategory", "patchCategory"}
      BY <1>1, <1>6, <3>2, TablesAssumption, CommitWrites
         DEF TaskFits, Kind, Id, Kinds, BookWrites, Deletes
    <3>. QED  BY <1>1, <2>1, <3>3, TablesAssumption, CommitWrites DEF DraftName, TaskFits, Kind
  <2>2. CASE holder[c] # r
    <3>1. names'[c] = names[c]
      BY <2>2, CommitWrites
    <3>2. c \in live
      <4>. SUFFICES ASSUME c \notin live PROVE FALSE
        OBVIOUS
      <4>1. Kind(r) \in Creates /\ c = Id(r)
        BY <1>6, CommitWrites
      <4>2. Kind(r) = "createCategory"
        BY <1>1, <4>1, TablesAssumption DEF TaskFits, Kind, Id, Creates, BookWrites
      <4>. QED  BY <1>1, <2>2, <4>1, <4>2 DEF RequestOk
    <3>. QED  BY <1>1, <3>1, <3>2 DEF Refs
  <2>. QED  BY <2>1, <2>2
<1>7. live' \cap fresh' = {}
  BY <1>1, CommitWrites DEF Refs, RequestOk
<1>. QED  BY <1>3, <1>4, <1>5, <1>6, <1>7 DEF Refs

LEMMA CommitSound ==
  ASSUME Typed, Typed', Sound, NEW r \in Requests, Commit(r)
  PROVE  Sound'
<1>1. \A y \in Requests \ {r} : Same(y)
  BY CommitWrites DEF OthersSame
<1>2. ASSUME NEW y \in Requests PROVE RequestOk(y)'
  <2>1. CASE y = r
    <3>1. \A x \in Rows : holder'[x] # r
      BY CommitWrites, TablesAssumption
    <3>. QED  BY <2>1, <3>1, CommitWrites, BlanksTyped DEF RequestOk, Kind, Creates, Deletes
  <2>2. CASE y # r
    <3>1. RequestOk(y) /\ Same(y) /\ live \subseteq Rows /\ fresh' = fresh
      BY <1>1, <2>2, CommitWrites DEF Sound, Typed, TypeOK
    <3>2. \A x \in Rows : holder'[x] = y <=> holder[x] = y
      BY <2>2, CommitWrites, TablesAssumption
    <3>3. \A x \in live : holder[x] = y \/ x \in share[y] => x \in live'
      BY <2>2, <3>1, CommitKeeps
    <3>. QED  BY <3>1, <3>2, <3>3, RequestUndisturbed
  <2>. QED  BY <2>1, <2>2
<1>3. ASSUME NEW x \in Rows, Doomed(x)' PROVE DoomOk(x)'
  <2>1. PICK y \in Requests \ {r} : holder'[x] = y /\ holder[x] = y
    BY <1>3, CommitWrites DEF Doomed, Typed, TypeOK
  <2>2. Same(y) /\ Doomed(x) /\ DoomOk(x)
    BY <1>1, <1>3, <2>1 DEF Doomed, Kind, Id, Same, Sound
  <2>3. \A z \in Requests : x \notin share'[z]
    BY <1>1, <2>2, CommitWrites DEF DoomOk, Same
  <2>4. LinksOf(x)' \subseteq unlinked'[y]
    <3>1. ASSUME NEW l \in links', x \in {l[1], l[2]} PROVE l \in unlinked[y]
      <4>1. l \notin linked[r]
        BY <2>2, <3>1 DEF Sound, RequestOk, DoomOk
      <4>2. l \in LinksOf(x)
        BY <3>1, <4>1 DEF LinksOf, Commit
      <4>. QED  BY <2>1, <2>2, <4>2 DEF DoomOk
    <3>. QED  BY <2>2, <3>1 DEF LinksOf, Same
  <2>5. ASSUME NEW b \in Books, shelf'[b] = x PROVE holder'[b] = y
    <3>. b \in Rows /\ x # Nil
      BY TablesAssumption DEF Rows
    <3>1. CASE holder[b] = r
      <4>1. Kind(r) \in BookWrites /\ DraftShelf(r, b) = x
        BY <2>5, <3>1, CommitWrites
      <4>2. HolderOk(r, b)
        BY <3>1 DEF Sound, RequestOk
      <4>3. CASE Changes(r, "category")
        <5>1. x \in Needed(r)
          BY <4>1, <4>3 DEF DraftShelf, Needed
        <5>. QED  BY <2>2, <4>1, <4>2, <5>1 DEF HolderOk, DoomOk
      <4>4. CASE ~Changes(r, "category")
        BY <2>1, <2>2, <3>1, <4>1, <4>4 DEF DraftShelf, DoomOk
      <4>. QED  BY <4>3, <4>4
    <3>2. CASE holder[b] # r
      BY <2>1, <2>2, <2>5, <3>2, CommitWrites DEF DoomOk
    <3>. QED  BY <3>1, <3>2
  <2>. QED  BY <2>1, <2>3, <2>4, <2>5 DEF DoomOk
<1>4. ASSUME NEW b \in Books PROVE IsbnsOf(b)' \subseteq IsbnsOf(b)
  <2>. b \in Rows
    BY DEF Rows
  <2>1. CASE holder[b] = r
    BY <2>1, TablesAssumption, CommitWrites DEF IsbnsOf, NextIsbn
  <2>2. CASE holder[b] = Nil
    BY <2>2, TablesAssumption, CommitWrites DEF IsbnsOf, NextIsbn
  <2>3. CASE holder[b] \notin {Nil, r}
    <3>1. PICK y \in Requests \ {r} : y = holder[b] /\ Same(y)
      BY <1>1, <2>3 DEF Typed, TypeOK
    <3>2. isbn'[b] = isbn[b] /\ holder'[b] = holder[b]
      BY <2>3, CommitWrites
    <3>3. DraftIsbn(y, b)' = DraftIsbn(y, b)
      BY <3>1, <3>2 DEF DraftIsbn, Changes, Same, Kind
    <3>. QED  BY <3>1, <3>2, <3>3 DEF IsbnsOf, NextIsbn
  <2>. QED  BY <2>1, <2>2, <2>3
<1>5. ASSUME NEW c \in Categories PROVE NamesOf(c)' \subseteq NamesOf(c)
  <2>. c \in Rows
    BY DEF Rows
  <2>1. CASE holder[c] = r
    BY <2>1, TablesAssumption, CommitWrites DEF NamesOf, NextName
  <2>2. CASE holder[c] = Nil
    BY <2>2, TablesAssumption, CommitWrites DEF NamesOf, NextName
  <2>3. CASE holder[c] \notin {Nil, r}
    <3>1. PICK y \in Requests \ {r} : y = holder[c] /\ Same(y)
      BY <1>1, <2>3 DEF Typed, TypeOK
    <3>2. names'[c] = names[c] /\ holder'[c] = holder[c]
      BY <2>3, CommitWrites
    <3>3. DraftName(y)' = DraftName(y)
      BY <3>1 DEF DraftName, Same, Kind
    <3>. QED  BY <3>1, <3>2, <3>3 DEF NamesOf, NextName
  <2>. QED  BY <2>1, <2>2, <2>3
<1>6. Unique'
  BY <1>4, <1>5 DEF Sound, Unique
<1>7. \A x \in Rows : DoomOk(x)'
  BY <1>3 DEF DoomOk
<1>. QED  BY <1>2, <1>6, <1>7, CommitRefs DEF Sound

LEMMA StutterSound == Sound /\ UNCHANGED vars => Sound'
<1>. SUFFICES ASSUME Sound, UNCHANGED vars PROVE Sound'
  OBVIOUS
<1>. USE DEF vars, rows, locks
<1>1. Refs'
  BY DEF Sound, Refs
<1>2. /\ \A r \in Requests : /\ Kind(r)' = Kind(r) /\ Id(r)' = Id(r)
                             /\ Needed(r)' = Needed(r) /\ AddsOf(r)' = AddsOf(r)
      /\ \A x \in Rows : Doomed(x)' <=> Doomed(x)
  BY DEF Kind, Id, Needed, Changes, AddsOf, Adds, Doomed
<1>3. \A r \in Requests : RequestOk(r)'
  BY <1>2 DEF Sound, RequestOk, HolderOk
<1>4. \A x \in Rows : DoomOk(x)'
  BY <1>2 DEF Sound, DoomOk, LinksOf
<1>5. /\ \A b \in Books : IsbnsOf(b)' = IsbnsOf(b)
      /\ \A c \in Categories : NamesOf(c)' = NamesOf(c)
  BY DEF IsbnsOf, NextIsbn, DraftIsbn, Changes, NamesOf, NextName, DraftName, Kind
<1>6. Unique'
  BY <1>5 DEF Sound, Unique
<1>. QED  BY <1>1, <1>3, <1>4, <1>6 DEF Sound

LEMMA NextSound == Typed /\ Typed' /\ Sound /\ [Next]_vars => Sound'
<1>. SUFFICES ASSUME Typed, Typed', Sound, [Next]_vars PROVE Sound'
  OBVIOUS
<1>1. ASSUME NEW r \in Requests, Step(r) PROVE Sound'
  BY <1>1, BeginningsSound, WriteBookSound, UnlinkSound, LinkAuthorsSound, UnshelveSound, EraseSound,
     WriteAuthorSound, WriteCategorySound, RefreshSound, CommitSound DEF Step
<1>2. ASSUME NEW r \in Requests, AbortVictim(r) PROVE Sound'
  BY <1>2, RollbackSound DEF AbortVictim, Ended
<1>. QED  BY <1>1, <1>2, StutterSound DEF Next, Idle

\* The constraints of the schema hold of what is committed, and the locks of those
\* who have yet to commit keep them so (author.py:13-18, book.py:26-40).
THEOREM AlwaysSound == Spec => []Sound
  BY AlwaysTyped, InitSound, NextSound, PTL DEF Spec

\* However the handlers of administrators overlap, no link and no shelf refers to
\* a row that is gone, and ISBNs and category names stay unique
\* (author_service.py:61-69, category_service.py:60-68, book_service.py:160-217).
THEOREM ReferencesAlwaysHold == Spec => []ReferencesHold
<1>1. Sound => ReferencesHold
  <2>. SUFFICES ASSUME Sound PROVE ReferencesHold
    OBVIOUS
  <2>1. ASSUME NEW b \in Books, NEW d \in Books, isbn[b] = isbn[d] PROVE b = d \/ isbn[b] = Nil
    BY <2>1 DEF Sound, Unique, IsbnsOf
  <2>2. ASSUME NEW c \in live \cap Categories, NEW d \in live \cap Categories, names[c] = names[d]
        PROVE  c = d
    BY <2>2 DEF Sound, Refs, Unique, NamesOf
  <2>. QED  BY <2>1, <2>2 DEF Sound, Refs, ReferencesHold
<1>. QED  BY <1>1, AlwaysSound, PTL

-----------------------------------------------------------------------------
(* What a request knows while no other commits.                            *)

CurrentOk(r) ==
    Kind(r) # "none" /\ r \notin overtaken =>
       /\ Kind(r) \in Patches \cup Deletes => Id(r) \in live
       /\ Kind(r) \in Creates => Id(r) \notin live
       /\ Kind(r) \in BookWrites => Resolves(task[r].body)
       /\ Kind(r) \in Unlinkers => seen[r].links = LinksOf(Id(r))
       /\ Kind(r) = "patchBook" =>
             /\ seen[r].category = shelf[Id(r)]
             /\ pc[r] # "row" /\ holder[Id(r)] # r => task[r].body.category \in {Keep, seen[r].category}
       /\ Kind(r) = "deleteCategory" =>
             /\ seen[r].books = {b \in Books : shelf[b] = Id(r)}
             /\ \A b \in Books : holder[b] = r => shelf[b] = Id(r)
       /\ unlinked[r] = IF pc[r] \in {"row", "unlink", "unshelve"} THEN {} ELSE DropsOf(r)
       /\ linked[r] = IF Kind(r) \in BookWrites /\ pc[r] \in {"refresh", "commit"}
                      THEN AddsOf(r) ELSE {}

Current == \A r \in Requests : CurrentOk(r)

LEMMA InitCurrent == Init => Current
  BY BlanksTyped DEF Init, Current, CurrentOk, Kind

LEMMA TaskIsOfARow ==
  ASSUME Typed, NEW r \in Requests
  PROVE  /\ Kind(r) \in Kinds \cup {"none"}
         /\ Kind(r) # "none" => Id(r) \in Rows /\ Running(r)
         /\ Kind(r) \in BookWrites \cup {"deleteBook"} => Id(r) \in Books
         /\ Kind(r) = "deleteAuthor" => Id(r) \in Authors
         /\ Kind(r) \in {"deleteCategory", "createCategory", "patchCategory"} => Id(r) \in Categories
<1>1. Kind(r) \in Kinds \cup {"none"} /\ TaskFits(task[r]) /\ StepFits(pc[r], Kind(r))
  BY DEF Typed, TypeOK, Kind
<1>. QED  BY <1>1 DEF TaskFits, StepFits, Running, Kinds, BookWrites, Rows, Id, Kind

\* Steps of others that commit nothing, or that are known to have committed.
LEMMA CurrentUndisturbed ==
  ASSUME Typed, Current, NEW y \in Requests, Same(y),
         \A x \in Rows : holder'[x] = y <=> holder[x] = y,
         y \in overtaken' \/ (UNCHANGED rows /\ y \notin overtaken)
  PROVE  CurrentOk(y)'
<1>1. /\ Kind(y)' = Kind(y) /\ Id(y)' = Id(y) /\ DropsOf(y)' = DropsOf(y) /\ AddsOf(y)' = AddsOf(y)
  BY DEF Same, Kind, Id, DropsOf, Drops, AddsOf, Adds
<1>2. CASE y \in overtaken' \/ Kind(y) = "none"
  BY <1>1, <1>2 DEF CurrentOk
<1>3. CASE UNCHANGED rows /\ y \notin overtaken /\ Kind(y) # "none"
  <2>1. CurrentOk(y) /\ Id(y) \in Rows /\ Books \subseteq Rows
    BY <1>3, TaskIsOfARow DEF Current, Rows
  <2>2. /\ LinksOf(Id(y))' = LinksOf(Id(y))
        /\ Resolves(task[y].body)' <=> Resolves(task[y].body)
    BY <1>1, <1>3 DEF LinksOf, Resolves, Same, rows
  <2>. QED  BY <1>1, <1>3, <2>1, <2>2 DEF CurrentOk, Same, rows
<1>. QED  BY <1>2, <1>3

LEMMA QuietCurrent ==
  ASSUME Typed, Current, NEW r \in Requests, UNCHANGED rows, OthersSame(r),
         overtaken \ {r} \subseteq overtaken', CurrentOk(r)'
  PROVE  Current'
<1>1. ASSUME NEW y \in Requests \ {r} PROVE CurrentOk(y)'
  <2>1. \A x \in Rows : holder'[x] = y <=> holder[x] = y
    BY TablesAssumption DEF OthersSame
  <2>. QED  BY <2>1, CurrentUndisturbed DEF OthersSame
<1>. QED  BY <1>1 DEF Current

LEMMA EndSame ==
  ASSUME Typed, NEW r \in Requests, NEW outcome, End(r, outcome)
  PROVE  OthersSame(r) /\ Kind(r)' = "none"
  BY BlanksTyped DEF End, Goto, OthersSame, Same, Kind, Typed, TypeOK

LEMMA RollbackCurrent ==
  ASSUME Typed, Current, NEW r \in Requests, NEW outcome, Rollback(r, outcome)
  PROVE  Current'
<1>1. OthersSame(r) /\ Kind(r)' = "none" /\ UNCHANGED rows /\ overtaken \ {r} \subseteq overtaken'
  BY EndSame DEF Rollback
<1>. QED  BY <1>1, QuietCurrent DEF CurrentOk

LEMMA CommitCurrent ==
  ASSUME Typed, Current, NEW r \in Requests, Commit(r)
  PROVE  Current'
<1>1. OthersSame(r) /\ Kind(r)' = "none"
  BY EndSame DEF Commit
<1>2. ASSUME NEW y \in Requests \ {r} PROVE CurrentOk(y)'
  <2>1. Kind(y)' = Kind(y) /\ (Kind(y) # "none" => Running(y))
    BY <1>1, TaskIsOfARow DEF OthersSame, Same, Kind
  <2>2. Running(y) => y \in overtaken'
    BY DEF Commit
  <2>. QED  BY <2>1, <2>2 DEF CurrentOk
<1>. QED  BY <1>1, <1>2 DEF Current, CurrentOk

\* A request is current when it begins: it has just read what it goes by.
LEMMA BeginCurrent ==
  ASSUME Typed, Sound, Current, NEW r \in Requests, pc[r] = "new", NEW t, NEW step, NEW s,
         Begin(r, t, step, s), t.id \in Rows, t.kind # "none",
         t.kind \in Patches \cup Deletes => t.id \in live,
         t.kind \in Creates => t.id \notin live,
         t.kind \in BookWrites => Resolves(t.body),
         t.kind \in Unlinkers => s.links = LinksOf(t.id),
         t.kind = "patchBook" =>
            s.category = shelf[t.id] /\ (step # "row" => t.body.category \in {Keep, s.category}),
         t.kind = "deleteCategory" => s.books = {b \in Books : shelf[b] = t.id},
         step \in {"row", "unlink", "unshelve"}
           \/ (IF t.kind = "patchBook" THEN Drops(t.id, t.body, s) ELSE s.links) = {},
         t.kind \in BookWrites /\ step \in {"refresh", "commit"} => Adds(t.id, t.body, s) = {}
  PROVE  Current'
<1>1. /\ pc'[r] = step /\ task'[r] = t /\ seen'[r] = s /\ UNCHANGED <<rows, locks, overtaken>>
      /\ OthersSame(r)
  BY DEF Begin, Goto, OthersSame, Same, Typed, TypeOK, locks
<1>2. \A x \in Rows : holder[x] # r
  BY IdleHoldsNothing
<1>3. linked[r] = {} /\ unlinked[r] = {} /\ Books \subseteq Rows
  BY DEF Typed, StepFits, BookWrites, Unlinkers, Sound, RequestOk, Rows
<1>4. /\ Kind(r)' = t.kind /\ Id(r)' = t.id /\ AddsOf(r)' = Adds(t.id, t.body, s)
      /\ DropsOf(r)' = IF t.kind = "patchBook" THEN Drops(t.id, t.body, s) ELSE s.links
      /\ LinksOf(t.id)' = LinksOf(t.id) /\ (Resolves(t.body)' <=> Resolves(t.body))
  BY <1>1 DEF Kind, Id, AddsOf, Adds, DropsOf, Drops, LinksOf, Resolves, rows
<1>5. CurrentOk(r)'
  <2>1. unlinked'[r] = IF step \in {"row", "unlink", "unshelve"} THEN {} ELSE DropsOf(r)'
    BY <1>1, <1>3, <1>4 DEF locks
  <2>2. linked'[r] = IF t.kind \in BookWrites /\ step \in {"refresh", "commit"} THEN AddsOf(r)' ELSE {}
    BY <1>1, <1>3, <1>4 DEF locks
  <2>. QED  BY <1>1, <1>2, <1>3, <1>4, <2>1, <2>2 DEF CurrentOk, rows, locks
<1>. QED  BY <1>1, <1>5, QuietCurrent

LEMMA BeginningsCurrent ==
  ASSUME Typed, Sound, Current, NEW r \in Requests,
         CreateBook(r) \/ PatchBook(r) \/ Delete(r) \/ CreateAuthor(r) \/ PatchAuthor(r)
           \/ CreateCategory(r) \/ PatchCategory(r)
  PROVE  Current'
<1>. USE BlanksTyped DEF Patches, Deletes, Creates, BookWrites, Unlinkers
<1>0. live \cap fresh = {}
  BY DEF Sound, Refs
<1>1. CASE CreateBook(r)
  <2>1. ASSUME NEW body \in Bodies, NEW b \in fresh \cap Books, pc[r] = "new", Resolves(body),
               Begin(r, BookTask("createBook", b, body), "row", Nothing)
        PROVE  Current'
    <3>1. b \in Rows /\ body \in Body /\ "createBook" \in Kinds /\ b \notin live
      BY <1>0, CatalogueAssumption DEF Rows, Kinds
    <3>. QED  BY <2>1, <3>1, TasksTyped, BeginCurrent
  <2>. QED  BY <1>1, <2>1, RollbackCurrent DEF CreateBook
<1>2. CASE PatchBook(r)
  <2>1. ASSUME NEW b \in Books, NEW body \in Bodies, pc[r] = "new", b \in live, Resolves(body), NEW s,
               s = [Nothing EXCEPT !.links = LinksOf(b), !.category = shelf[b], !.isbn = isbn[b]],
               Begin(r, BookTask("patchBook", b, body), Writing(b, body, s), s)
        PROVE  Current'
    <3>1. b \in Rows /\ body \in Body /\ "patchBook" \in Kinds
      BY CatalogueAssumption DEF Rows, Kinds
    <3>2. s.links = LinksOf(b) /\ s.category = shelf[b]
      BY <2>1 DEF Nothing
    <3>3. /\ Writing(b, body, s) # "row" => body.category \in {Keep, s.category}
          /\ Writing(b, body, s) \in {"row", "unlink"} \/ Drops(b, body, s) = {}
          /\ Writing(b, body, s) \in {"refresh", "commit"} => Adds(b, body, s) = {}
      BY DEF Writing, Unlinking, Linking
    <3>4. PICK t : t = BookTask("patchBook", b, body) /\ t.kind = "patchBook" /\ t.id = b /\ t.body = body
      BY <3>1, TasksTyped
    <3>. QED  BY <2>1, <3>1, <3>2, <3>3, <3>4, BeginCurrent
  <2>. QED  BY <1>2, <2>1, RollbackCurrent DEF PatchBook
<1>3. CASE Delete(r)
  <2>1. ASSUME NEW x \in live, x \in Rows, pc[r] = "new", NEW kind \in {"deleteBook", "deleteAuthor"},
               Begin(r, Task(kind, x), "unlink", [Nothing EXCEPT !.links = LinksToDelete(x)])
        PROVE  Current'
    <3>1. kind \in Kinds
      BY DEF Kinds
    <3>. PICK s : s = [Nothing EXCEPT !.links = LinksToDelete(x)]
      OBVIOUS
    <3>2. s.links = LinksOf(x)
      BY DEF Nothing, LinksToDelete
    <3>3. PICK t : t = Task(kind, x) /\ t.kind = kind /\ t.id = x
      BY <2>1, <3>1, TasksTyped
    <3>. QED  BY <2>1, <3>1, <3>2, <3>3, BeginCurrent
  <2>2. ASSUME NEW x \in Categories, x \in live, pc[r] = "new",
               Begin(r, Task("deleteCategory", x),
                     "unshelve", [Nothing EXCEPT !.books = {b \in Books : shelf[b] = x}])
        PROVE  Current'
    <3>1. "deleteCategory" \in Kinds /\ x \in Rows
      BY DEF Kinds, Rows
    <3>. PICK s : s = [Nothing EXCEPT !.books = {b \in Books : shelf[b] = x}]
      OBVIOUS
    <3>2. s.books = {b \in Books : shelf[b] = x}
      BY DEF Nothing
    <3>3. PICK t : t = Task("deleteCategory", x) /\ t.kind = "deleteCategory" /\ t.id = x
      BY <3>1, TasksTyped
    <3>. QED  BY <2>2, <3>1, <3>2, <3>3, BeginCurrent
  <2>. QED  BY <1>3, <2>1, <2>2, RollbackCurrent DEF Delete
<1>4. CASE CreateAuthor(r)
  <2>1. PICK a \in fresh \cap Authors : Begin(r, Task("createAuthor", a), "commit", Nothing)
                                        /\ pc[r] = "new"
    BY <1>4 DEF CreateAuthor
  <2>2. a \in Rows /\ "createAuthor" \in Kinds /\ a \notin live
    BY <1>0 DEF Rows, Kinds
  <2>. QED  BY <2>1, <2>2, TasksTyped, BeginCurrent
<1>5. CASE PatchAuthor(r)
  <2>1. ASSUME NEW a \in Authors, NEW step \in {"row", "refresh"}, pc[r] = "new", a \in live,
               Begin(r, Task("patchAuthor", a), step, Nothing)
        PROVE  Current'
    <3>1. a \in Rows /\ "patchAuthor" \in Kinds
      BY DEF Rows, Kinds
    <3>. QED  BY <2>1, <3>1, TasksTyped, BeginCurrent
  <2>. QED  BY <1>5, <2>1, RollbackCurrent DEF PatchAuthor
<1>6. CASE CreateCategory(r)
  <2>1. PICK c \in fresh \cap Categories, name \in Names :
           Begin(r, CategoryTask("createCategory", c, name), "row", Nothing) /\ pc[r] = "new"
    BY <1>6 DEF CreateCategory
  <2>2. c \in Rows /\ "createCategory" \in Kinds /\ c \notin live
    BY <1>0 DEF Rows, Kinds
  <2>. QED  BY <2>1, <2>2, TasksTyped, BeginCurrent
<1>7. CASE PatchCategory(r)
  <2>1. ASSUME NEW c \in Categories, NEW name \in Names, NEW step \in {"row", "refresh"},
               pc[r] = "new", c \in live,
               Begin(r, CategoryTask("patchCategory", c, name), step, Nothing)
        PROVE  Current'
    <3>1. c \in Rows /\ "patchCategory" \in Kinds
      BY DEF Rows, Kinds
    <3>. QED  BY <2>1, <3>1, TasksTyped, BeginCurrent
  <2>. QED  BY <1>7, <2>1, RollbackCurrent DEF PatchCategory
<1>. QED  BY <1>1, <1>2, <1>3, <1>4, <1>5, <1>6, <1>7

\* A statement of the flush, when it does to the links what it says.
LEMMA FlushCurrent ==
  ASSUME Typed, Typed', Current, NEW r \in Requests, NEW step \in Steps, Proceed(r, step),
         UNCHANGED holder
           \/ \E some : Hold(r, some) /\ \A x \in some \cap Rows : holder[x] \in {Nil, r},
         UNCHANGED share \/ \E some : share' = [share EXCEPT ![r] = some],
         UNCHANGED linked \/ \E some : linked' = [linked EXCEPT ![r] = some],
         UNCHANGED unlinked \/ \E some : unlinked' = [unlinked EXCEPT ![r] = some],
         CurrentOk(r) /\ r \notin overtaken =>
            /\ Kind(r) = "patchBook" /\ holder'[Id(r)] # r =>
                  holder[Id(r)] # r /\ pc[r] # "row"
            /\ Kind(r) = "deleteCategory" => \A b \in Books : holder'[b] = r => shelf[b] = Id(r)
            /\ unlinked'[r] = IF step \in {"row", "unlink", "unshelve"} THEN {} ELSE DropsOf(r)
            /\ linked'[r] = IF Kind(r) \in BookWrites /\ step \in {"refresh", "commit"}
                            THEN AddsOf(r) ELSE {}
  PROVE  Current'
<1>1. OthersSame(r) /\ pc'[r] = step
  BY StatementSame
<1>2. UNCHANGED <<rows, task, seen, overtaken>>
  BY DEF Proceed
<1>3. /\ Kind(r)' = Kind(r) /\ Id(r)' = Id(r) /\ AddsOf(r)' = AddsOf(r) /\ DropsOf(r)' = DropsOf(r)
      /\ LinksOf(Id(r))' = LinksOf(Id(r)) /\ (Resolves(task[r].body)' <=> Resolves(task[r].body))
  BY <1>2 DEF Kind, Id, AddsOf, Adds, DropsOf, Drops, LinksOf, Resolves, rows
<1>4. CurrentOk(r)'
  <2>1. SUFFICES ASSUME Kind(r) # "none", r \notin overtaken PROVE CurrentOk(r)'
    BY <1>2, <1>3 DEF CurrentOk
  <2>2. CurrentOk(r)
    BY DEF Current
  <2>. QED  BY <1>1, <1>2, <1>3, <2>1, <2>2 DEF CurrentOk, rows
<1>. QED  BY <1>1, <1>2, <1>4, QuietCurrent

LEMMA FlushesCurrent ==
  ASSUME Typed, Typed', Sound, Current, NEW r \in Requests,
         WriteBook(r) \/ Unlink(r) \/ LinkAuthors(r) \/ Unshelve(r) \/ Erase(r)
           \/ WriteAuthor(r) \/ WriteCategory(r) \/ Refresh(r)
  PROVE  Current'
<1>1. /\ CurrentOk(r) /\ RequestOk(r) /\ StepFits(pc[r], Kind(r))
      /\ Kind(r) \notin Unlinkers => seen[r].links = {}
      /\ seen[r].books \subseteq Books /\ Books \subseteq Rows /\ links \subseteq Link
  BY DEF Current, Sound, Typed, TypeOK, SeenT, Rows
<1>2. Kind(r) # "none" /\ Id(r) \in Rows
  BY <1>1, TaskIsOfARow DEF StepFits, WriteBook, Unlink, LinkAuthors, Unshelve, Erase, WriteAuthor,
     WriteCategory, Refresh, Ended
<1>3. Kind(r) \notin Unlinkers => DropsOf(r) = {}
  BY <1>1 DEF DropsOf, Unlinkers
<1>4. CASE WriteBook(r)
  <2>1. /\ pc[r] = "row" /\ Kind(r) \in BookWrites /\ holder[Id(r)] \in {Nil, r}
    <3>1. pc[r] = "row" /\ Kind(r) \in BookWrites /\ Holders(r, {Id(r)}) = {}
      BY <1>4 DEF WriteBook, BookWrites, WaitsFor
    <3>. QED  BY <3>1 DEF Holders
  <2>2. ASSUME Hold(r, {Id(r)}), share' = [share EXCEPT ![r] = @ \cup Needed(r)],
               NEW step \in Steps, step = (IF AfterRow(r) = "refresh" THEN "commit" ELSE AfterRow(r)),
               Proceed(r, step), UNCHANGED <<linked, unlinked>>
        PROVE  Current'
    <3>1. \E some : Hold(r, some) /\ \A x \in some \cap Rows : holder[x] \in {Nil, r}
      <4>1. \A x \in {Id(r)} \cap Rows : holder[x] \in {Nil, r}
        BY <2>1
      <4>. QED  BY <2>2, <4>1
    <3>2. \E some : share' = [share EXCEPT ![r] = some]
      BY <2>2
    <3>3. holder'[Id(r)] = r
      BY <1>2, <2>2, HoldTyped
    <3>4. step # "unlink" => DropsOf(r) = {}
      BY <1>3, <2>1, <2>2, AfterRowFits DEF DropsOf, BookWrites, Unlinkers
    <3>5. step \in {"unlink", "link"} \/ AddsOf(r) = {}
      BY <2>1, <2>2, AfterRowFits
    <3>6. step \in {"unlink", "link", "commit"}
      BY <2>1, <2>2, AfterRowFits
    <3>7. r \notin overtaken => unlinked[r] = {} /\ linked[r] = {}
      BY <1>1, <1>2, <2>1 DEF CurrentOk
    <3>. QED  BY <2>1, <2>2, <3>1, <3>2, <3>3, <3>4, <3>5, <3>6, <3>7, FlushCurrent DEF BookWrites
  <2>3. (IF AfterRow(r) = "refresh" THEN "commit" ELSE AfterRow(r)) \in Steps
    BY <2>1, AfterRowFits DEF Steps
  <2>. QED  BY <1>4, <2>2, <2>3, RollbackCurrent DEF WriteBook
<1>5. CASE Unlink(r)
  <2>1. /\ pc[r] = "unlink" /\ Proceed(r, AfterUnlink(r)) /\ Kind(r) \in Unlinkers
        /\ UNCHANGED <<holder, share, linked>>
        /\ unlinked' = [unlinked EXCEPT ![r] = DropsOf(r) \cap links]
    BY <1>1, <1>5 DEF Unlink, StepFits
  <2>2. /\ AfterUnlink(r) \in Steps
        /\ AfterUnlink(r) \in {"erase", "link", "refresh", "commit"}
        /\ AfterUnlink(r) \in {"refresh", "commit"} => AddsOf(r) = {}
    BY DEF AfterUnlink, Linking, AddsOf, Steps
  <2>3. r \notin overtaken => DropsOf(r) \cap links = DropsOf(r) /\ linked[r] = {}
    BY <1>1, <1>2, <2>1 DEF CurrentOk, DropsOf, Drops, LinksOf
  <2>4. unlinked'[r] = DropsOf(r) \cap links
    BY <2>1 DEF Typed, TypeOK
  <2>5. \E some : unlinked' = [unlinked EXCEPT ![r] = some]
    BY <2>1
  <2>6. Kind(r) = "deleteCategory" => FALSE
    BY <2>1 DEF Unlinkers
  <2>. QED  BY <2>1, <2>2, <2>3, <2>4, <2>5, <2>6, FlushCurrent
<1>6. CASE LinkAuthors(r)
  <2>1. pc[r] = "link" /\ Kind(r) \in BookWrites
    BY <1>1, <1>6 DEF LinkAuthors, StepFits
  <2>2. ASSUME linked' = [linked EXCEPT ![r] = AddsOf(r)],
               share' = [share EXCEPT ![r] = @ \cup Ends(r)],
               Proceed(r, "commit"), UNCHANGED <<holder, unlinked>>
        PROVE  Current'
    <3>1. \E some : share' = [share EXCEPT ![r] = some]
      BY <2>2
    <3>2. \E some : linked' = [linked EXCEPT ![r] = some]
      BY <2>2
    <3>3. linked'[r] = AddsOf(r)
      BY <2>2 DEF Typed, TypeOK
    <3>4. r \notin overtaken => unlinked[r] = DropsOf(r)
      BY <1>1, <1>2, <2>1 DEF CurrentOk
    <3>. QED  BY <2>1, <2>2, <3>1, <3>2, <3>3, <3>4, FlushCurrent DEF BookWrites, Steps
  <2>. QED  BY <1>6, <2>2, RollbackCurrent DEF LinkAuthors
<1>7. CASE Unshelve(r)
  <2>1. pc[r] = "unshelve" /\ Kind(r) = "deleteCategory" /\ WaitsFor(r) = {}
    BY <1>1, <1>7 DEF Unshelve, StepFits
  <2>2. \A x \in Rows : holder[x] # r
    BY <2>1, IdleHoldsNothing
  <2>3. ASSUME NEW some \in SUBSET seen[r].books, Hold(r, some), Proceed(r, "erase"),
               UNCHANGED <<share, linked, unlinked>>
        PROVE  Current'
    <3>1. \E s : Hold(r, s) /\ \A x \in s \cap Rows : holder[x] \in {Nil, r}
      <4>1. \A x \in some \cap Rows : holder[x] \in {Nil, r}
        BY <2>1, <2>3 DEF WaitsFor, Holders
      <4>. QED  BY <2>3, <4>1
    <3>2. r \notin overtaken => \A b \in Books : holder'[b] = r => shelf[b] = Id(r)
      <4>1. \A b \in Books : holder'[b] = r => b \in some
        BY <1>1, <2>2, <2>3, HoldTyped
      <4>. QED  BY <1>1, <1>2, <2>1, <2>3, <4>1 DEF CurrentOk
    <3>3. DropsOf(r) = {} /\ (r \notin overtaken => unlinked[r] = {} /\ linked[r] = {})
      BY <1>1, <1>2, <1>3, <2>1 DEF CurrentOk, BookWrites, Unlinkers
    <3>. QED  BY <2>1, <2>3, <3>1, <3>2, <3>3, FlushCurrent DEF BookWrites, Steps
  <2>. QED  BY <1>7, <2>3, RollbackCurrent DEF Unshelve
<1>8. CASE Erase(r)
  <2>1. pc[r] = "erase" /\ Kind(r) \in Deletes /\ WaitsFor(r) = {}
    BY <1>1, <1>8 DEF Erase, StepFits
  <2>2. ASSUME Hold(r, {Id(r)} \cup Shelved(r)), Proceed(r, "commit"), UNCHANGED <<share, linked, unlinked>>
        PROVE  Current'
    <3>1. \E s : Hold(r, s) /\ \A x \in s \cap Rows : holder[x] \in {Nil, r}
      <4>1. \A x \in ({Id(r)} \cup Shelved(r)) \cap Rows : holder[x] \in {Nil, r}
        BY <2>1 DEF WaitsFor, Holders
      <4>. QED  BY <2>2, <4>1
    <3>2. ASSUME r \notin overtaken, Kind(r) = "deleteCategory", NEW b \in Books, holder'[b] = r
          PROVE  shelf[b] = Id(r)
      <4>1. b # Id(r)
        BY <3>2, TaskIsOfARow, TablesAssumption
      <4>2. holder[b] = r \/ b \in Shelved(r)
        BY <1>1, <2>2, <3>2, <4>1, HoldTyped
      <4>. QED  BY <1>1, <3>2, <4>2 DEF CurrentOk, Shelved
    <3>3. r \notin overtaken => unlinked[r] = DropsOf(r) /\ linked[r] = {}
      BY <1>1, <1>2, <2>1 DEF CurrentOk, BookWrites, Deletes
    <3>. QED  BY <2>1, <2>2, <3>1, <3>2, <3>3, FlushCurrent DEF BookWrites, Deletes, Steps
  <2>. QED  BY <1>8, <2>2, RollbackCurrent DEF Erase
<1>9. CASE WriteAuthor(r) \/ WriteCategory(r)
  <2>1. /\ pc[r] = "row" /\ Kind(r) \in {"patchAuthor", "createCategory", "patchCategory"}
        /\ Holders(r, {Id(r)}) = {}
    BY <1>9 DEF WriteAuthor, WriteCategory, WaitsFor, BookWrites
  <2>2. ASSUME Hold(r, {Id(r)}), Proceed(r, "commit"), UNCHANGED <<share, linked, unlinked>>
        PROVE  Current'
    <3>1. \E s : Hold(r, s) /\ \A x \in s \cap Rows : holder[x] \in {Nil, r}
      <4>1. \A x \in {Id(r)} \cap Rows : holder[x] \in {Nil, r}
        BY <2>1 DEF Holders
      <4>. QED  BY <2>2, <4>1
    <3>2. DropsOf(r) = {} /\ unlinked[r] = {} /\ linked[r] = {}
      BY <1>1, <1>3, <2>1 DEF RequestOk, BookWrites, Unlinkers
    <3>. QED  BY <2>1, <2>2, <3>1, <3>2, FlushCurrent DEF BookWrites, Steps
  <2>. QED  BY <1>9, <2>2, RollbackCurrent DEF WriteAuthor, WriteCategory
<1>10. CASE Refresh(r)
  <2>1. pc[r] = "refresh" /\ Kind(r) \in Patches
    BY <1>1, <1>10 DEF Refresh, StepFits
  <2>2. ASSUME Proceed(r, "commit"), UNCHANGED locks PROVE Current'
    <3>1. UNCHANGED <<holder, share, linked, unlinked>>
      BY <2>2 DEF locks
    <3>2. r \notin overtaken =>
             /\ unlinked[r] = DropsOf(r)
             /\ linked[r] = IF Kind(r) \in BookWrites THEN AddsOf(r) ELSE {}
      BY <1>1, <1>2, <2>1 DEF CurrentOk
    <3>. QED  BY <2>1, <2>2, <3>1, <3>2, FlushCurrent DEF Patches, Steps
  <2>. QED  BY <1>10, <2>2, RollbackCurrent DEF Refresh
<1>. QED  BY <1>4, <1>5, <1>6, <1>7, <1>8, <1>9, <1>10

LEMMA NextCurrent == Typed /\ Typed' /\ Sound /\ Current /\ [Next]_vars => Current'
<1>. SUFFICES ASSUME Typed, Typed', Sound, Current, [Next]_vars PROVE Current'
  OBVIOUS
<1>1. ASSUME NEW r \in Requests, Step(r) \/ AbortVictim(r) PROVE Current'
  BY <1>1, BeginningsCurrent, FlushesCurrent, CommitCurrent, RollbackCurrent DEF Step, AbortVictim
<1>2. ASSUME UNCHANGED vars PROVE Current'
  <2>1. ASSUME NEW r \in Requests PROVE CurrentOk(r)'
    <3>1. CurrentOk(r)' <=> CurrentOk(r)
      BY <1>2 DEF vars, rows, locks, CurrentOk, Kind, Id, Resolves, LinksOf, DropsOf, Drops, AddsOf, Adds
    <3>. QED  BY <3>1 DEF Current
  <2>. QED  BY <2>1 DEF Current
<1>. QED  BY <1>1, <1>2 DEF Next, Idle

\* What a request has loaded is still so while no other has committed since
\* (book_repository.py:96-110).
THEOREM AlwaysCurrent == Spec => []Current
  BY AlwaysTyped, AlwaysSound, InitCurrent, NextCurrent, PTL DEF Spec

-----------------------------------------------------------------------------
(* What becomes of a request that nobody overtakes.                        *)

Beginning(r) ==
    \/ CreateBook(r) \/ PatchBook(r) \/ Delete(r) \/ CreateAuthor(r) \/ PatchAuthor(r)
    \/ CreateCategory(r) \/ PatchCategory(r)
Flush(r) ==
    \/ WriteBook(r) \/ Unlink(r) \/ LinkAuthors(r) \/ Unshelve(r) \/ Erase(r)
    \/ WriteAuthor(r) \/ WriteCategory(r) \/ Refresh(r)

\* A step moves one request, and from where it can only go.
LEMMA GotoMoves ==
  ASSUME Typed, NEW r \in Requests, NEW step, Goto(r, step)
  PROVE  pc'[r] = step /\ \A y \in Requests \ {r} : pc'[y] = pc[y]
  BY DEF Goto, Typed, TypeOK

LEMMA BeginningGoes ==
  ASSUME Typed, NEW r \in Requests, Beginning(r)
  PROVE  /\ pc[r] = "new" /\ pc'[r] # "failed"
         /\ \A y \in Requests \ {r} : pc'[y] = pc[y]
<1>1. \E step \in {"row", "unlink", "link", "unshelve", "refresh", "commit", "refused"} : Goto(r, step)
  BY DEF Beginning, CreateBook, PatchBook, Delete, CreateAuthor, PatchAuthor, CreateCategory, PatchCategory,
         Begin, Rollback, End, Writing, Unlinking, Linking
<1>2. pc[r] = "new"
  BY DEF Beginning, CreateBook, PatchBook, Delete, CreateAuthor, PatchAuthor, CreateCategory, PatchCategory
<1>. QED  BY <1>1, <1>2, GotoMoves

\* Why a statement of the flush fails.
CauseIn(r) ==
    \/ pc[r] = "row" /\ Kind(r) = "patchBook" /\ Id(r) \notin live
    \/ pc[r] = "row" /\ Kind(r) \in BookWrites /\ ~(Needed(r) \subseteq live)
    \/ pc[r] = "link" /\ ~MayLink(r, AddsOf(r))
    \/ pc[r] = "unshelve" /\ ~(seen[r].books \subseteq live)
    \/ pc[r] = "erase" /\ Id(r) \in live /\ Left(r) # {}
    \/ pc[r] \in {"row", "refresh"} /\ Kind(r) \in Patches /\ Id(r) \notin live
    \/ NameTaken(r)

LEMMA FlushGoes ==
  ASSUME Typed, NEW r \in Requests, Flush(r)
  PROVE  /\ pc[r] \in {"row", "unlink", "link", "unshelve", "erase", "refresh"}
         /\ pc'[r] = "failed" => CauseIn(r)
         /\ \A y \in Requests \ {r} : pc'[y] = pc[y]
<1>1. StepFits(pc[r], Kind(r))
  BY DEF Typed
<1>2. /\ pc[r] \in {"row", "unlink", "link", "unshelve", "erase", "refresh"}
      /\ \E step : Goto(r, step)
  BY DEF Flush, WriteBook, Unlink, LinkAuthors, Unshelve, Erase, WriteAuthor, WriteCategory, Refresh,
         Proceed, Rollback, End
<1>3. /\ \A step : Proceed(r, step) => pc'[r] = step
      /\ \A step : Rollback(r, step) => pc'[r] = step
  BY GotoMoves DEF Proceed, Rollback, End
<1>4. ASSUME WriteBook(r), pc'[r] = "failed" PROVE CauseIn(r)
  <2>1. (IF AfterRow(r) = "refresh" THEN "commit" ELSE AfterRow(r)) # "failed"
    BY DEF AfterRow, Unlinking, Linking
  <2>. QED  BY <1>3, <1>4, <2>1 DEF WriteBook, CauseIn, BookWrites
<1>5. ASSUME Unlink(r), pc'[r] = "failed" PROVE CauseIn(r)
  <2>1. AfterUnlink(r) # "failed"
    BY DEF AfterUnlink, Linking
  <2>. QED  BY <1>3, <1>5, <2>1 DEF Unlink
<1>6. ASSUME LinkAuthors(r), pc'[r] = "failed" PROVE CauseIn(r)
  BY <1>3, <1>6 DEF LinkAuthors, CauseIn
<1>7. ASSUME Unshelve(r), pc'[r] = "failed" PROVE CauseIn(r)
  BY <1>3, <1>7 DEF Unshelve, CauseIn
<1>8. ASSUME Erase(r), pc'[r] = "failed" PROVE CauseIn(r)
  BY <1>3, <1>8 DEF Erase, CauseIn
<1>9. ASSUME WriteAuthor(r), pc'[r] = "failed" PROVE CauseIn(r)
  BY <1>3, <1>9 DEF WriteAuthor, CauseIn, Patches
<1>10. ASSUME WriteCategory(r), pc'[r] = "failed" PROVE CauseIn(r)
  BY <1>3, <1>10 DEF WriteCategory, CauseIn, Patches
<1>11. ASSUME Refresh(r), pc'[r] = "failed" PROVE CauseIn(r)
  BY <1>1, <1>3, <1>11 DEF Refresh, CauseIn, StepFits
<1>12. pc'[r] = "failed" => CauseIn(r)
  BY <1>4, <1>5, <1>6, <1>7, <1>8, <1>9, <1>10, <1>11 DEF Flush
<1>. QED  BY <1>2, <1>12, GotoMoves

LEMMA CommitGoes ==
  ASSUME Typed, NEW r \in Requests, Commit(r)
  PROVE  pc'[r] = "ok" /\ \A y \in Requests \ {r} : pc'[y] = pc[y]
  BY GotoMoves DEF Commit, End

LEMMA AbortGoes ==
  ASSUME Typed, NEW r \in Requests, AbortVictim(r)
  PROVE  Deadlocked(r) /\ pc'[r] = "failed" /\ \A y \in Requests \ {r} : pc'[y] = pc[y]
  BY GotoMoves DEF AbortVictim, Rollback, End

\* While a request is current, no statement of its flush has a cause to fail but
\* the name of another category.
LEMMA CurrentDoesNotFail ==
  ASSUME Typed, Sound, NEW r \in Requests, CurrentOk(r), r \notin overtaken, CauseIn(r)
  PROVE  NameTaken(r)
<1>. SUFFICES ASSUME ~NameTaken(r) PROVE FALSE
  OBVIOUS
<1>1. /\ Refs /\ RequestOk(r) /\ StepFits(pc[r], Kind(r)) /\ links \subseteq Link
      /\ Kind(r) \notin Unlinkers => seen[r].links = {}
  BY DEF Sound, Typed, TypeOK
<1>2. Kind(r) # "none" /\ Id(r) \in Rows
  BY <1>1, TaskIsOfARow DEF StepFits, CauseIn, Ended
<1>3. CASE pc[r] = "row" /\ Kind(r) = "patchBook" /\ Id(r) \notin live
  BY <1>2, <1>3 DEF CurrentOk, Patches
<1>4. CASE pc[r] = "row" /\ Kind(r) \in BookWrites /\ ~(Needed(r) \subseteq live)
  BY <1>2, <1>4 DEF CurrentOk, Resolves, Needed, Changes
<1>5. CASE pc[r] = "link" /\ ~MayLink(r, AddsOf(r))
  <2>1. Kind(r) \in BookWrites /\ Resolves(task[r].body)
    BY <1>1, <1>2, <1>5 DEF StepFits, CurrentOk
  <2>2. ASSUME NEW l \in AddsOf(r), l \in links PROVE FALSE
    <3>1. l \in LinksOf(Id(r)) /\ Id(r) \in live
      BY <1>1, <2>2, AddsAreOwn DEF LinksOf, Refs
    <3>2. Kind(r) = "patchBook" /\ seen[r].links = LinksOf(Id(r))
      BY <1>2, <2>1, <3>1 DEF CurrentOk, BookWrites, Creates, Unlinkers
    <3>. QED  BY <2>2, <3>1, <3>2 DEF AddsOf, Adds
  <2>3. ASSUME NEW l \in AddsOf(r) PROVE l[2] \in live /\ (l[1] \in live \/ holder[l[1]] = r)
    <3>1. l[1] = Id(r) /\ l[2] \in task[r].body.authors /\ task[r].body.authors # Keep
      BY AddsAreOwn
    <3>2. l[2] \in live
      BY <2>1, <3>1 DEF Resolves
    <3>3. Id(r) \in live \/ holder[Id(r)] = r
      BY <1>1, <1>2, <1>5, <2>1 DEF CurrentOk, RequestOk, BookWrites, Patches
    <3>. QED  BY <3>1, <3>2, <3>3
  <2>. QED  BY <1>5, <2>2, <2>3 DEF MayLink
<1>6. CASE pc[r] = "unshelve" /\ ~(seen[r].books \subseteq live)
  <2>1. Kind(r) = "deleteCategory" /\ seen[r].books = {b \in Books : shelf[b] = Id(r)}
    BY <1>1, <1>2, <1>6 DEF StepFits, CurrentOk
  <2>. QED  BY <1>1, <1>2, <1>6, <2>1, TablesAssumption DEF Refs
<1>7. CASE pc[r] = "erase" /\ Id(r) \in live /\ Left(r) # {}
  <2>1. Kind(r) \in Deletes /\ unlinked[r] = seen[r].links
    BY <1>1, <1>2, <1>7 DEF StepFits, CurrentOk, DropsOf, Deletes
  <2>2. CASE Kind(r) \in Unlinkers
    BY <1>2, <1>7, <2>1, <2>2 DEF CurrentOk, Left
  <2>3. CASE Kind(r) = "deleteCategory"
    <3>1. LinksOf(Id(r)) = {}
      BY <1>1, <2>3, TaskIsOfARow, TablesAssumption DEF LinksOf, Link
    <3>. QED  BY <1>7, <3>1 DEF Left
  <2>. QED  BY <2>1, <2>2, <2>3 DEF Deletes, Unlinkers
<1>8. CASE pc[r] \in {"row", "refresh"} /\ Kind(r) \in Patches /\ Id(r) \notin live
  BY <1>2, <1>8 DEF CurrentOk
<1>. QED  BY <1>3, <1>4, <1>5, <1>6, <1>7, <1>8 DEF CauseIn

\* A request of an administrator ends in a 500 only when another has committed since
\* it began, in a deadlock, or for the name of another category
\* (book_service.py:166-174, category_repository.py:37-52).
THEOREM OnlyForCauseFail == Spec => FailsOnlyForCause
<1>1. ASSUME Typed, Sound, Current, [Next]_vars, NEW r \in Requests,
             pc[r] # "failed", pc'[r] = "failed"
      PROVE  r \in overtaken \/ Deadlocked(r) \/ NameTaken(r)
  <2>1. PICK y \in Requests : Step(y) \/ AbortVictim(y)
    BY <1>1 DEF Next, Idle, vars
  <2>2. y = r
    BY <1>1, <2>1, BeginningGoes, FlushGoes, CommitGoes, AbortGoes DEF Step, Beginning, Flush
  <2>3. CASE Beginning(r) \/ Commit(r) \/ AbortVictim(r)
    BY <1>1, <2>3, BeginningGoes, CommitGoes, AbortGoes
  <2>4. CASE Flush(r)
    BY <1>1, <2>4, FlushGoes, CurrentDoesNotFail DEF Current
  <2>. QED  BY <2>1, <2>2, <2>3, <2>4 DEF Step, Beginning, Flush
<1>2. Typed /\ Sound /\ Current /\ [Next]_vars
        => [\A r \in Requests : pc[r] # "failed" /\ pc'[r] = "failed" =>
               r \in overtaken \/ Deadlocked(r) \/ NameTaken(r)]_vars
  BY <1>1
<1>. QED  BY <1>2, AlwaysTyped, AlwaysSound, AlwaysCurrent, PTL DEF Spec, FailsOnlyForCause

LEMMA LinksAsAsked ==
  ASSUME Typed, Sound, NEW r \in Requests, Commit(r), CurrentOk(r), r \notin overtaken
  PROVE  links' = AskedLinks(r)
<1>. DEFINE asked == {Id(r)} \X task[r].body.authors
<1>1. /\ Refs /\ links \subseteq Link /\ pc[r] = "commit" /\ StepFits(pc[r], Kind(r)) /\ TaskFits(task[r])
      /\ Kind(r) \notin Unlinkers => seen[r].links = {}
  BY DEF Sound, Typed, TypeOK, Commit
<1>2. Kind(r) # "none" /\ Id(r) \in Rows /\ Kind(r) \in Kinds
  BY <1>1, TaskIsOfARow DEF StepFits, Ended
<1>3. /\ unlinked[r] = DropsOf(r)
      /\ linked[r] = IF Kind(r) \in BookWrites THEN AddsOf(r) ELSE {}
      /\ Kind(r) \in Unlinkers => seen[r].links = LinksOf(Id(r))
      /\ Kind(r) = "createBook" => LinksOf(Id(r)) = {}
  BY <1>1, <1>2 DEF CurrentOk, Creates, LinksOf, Refs
<1>4. links' = (links \ unlinked[r]) \cup linked[r]
  BY DEF Commit
<1>5. CASE Kind(r) = "createBook"
  <2>1. task[r].body.authors # Keep /\ DropsOf(r) = {} /\ AddsOf(r) = asked
    BY <1>1, <1>5 DEF TaskFits, Kind, DropsOf, AddsOf, Adds, Unlinkers
  <2>. QED  BY <1>3, <1>4, <1>5, <2>1 DEF AskedLinks, BookWrites
<1>6. CASE Kind(r) = "patchBook" /\ task[r].body.authors # Keep
  <2>1. DropsOf(r) = LinksOf(Id(r)) \ asked /\ AddsOf(r) = asked \ LinksOf(Id(r))
    BY <1>3, <1>6 DEF DropsOf, Drops, AddsOf, Adds, Unlinkers
  <2>2. LinksOf(Id(r)) \subseteq links
    BY DEF LinksOf
  <2>3. AskedLinks(r) = (links \ LinksOf(Id(r))) \cup asked
    BY <1>6 DEF AskedLinks
  <2>. QED  BY <1>3, <1>4, <1>6, <2>1, <2>2, <2>3 DEF BookWrites
<1>7. CASE Kind(r) = "patchBook" /\ task[r].body.authors = Keep
  BY <1>3, <1>4, <1>7 DEF AskedLinks, DropsOf, Drops, AddsOf, Adds, BookWrites
<1>8. CASE Kind(r) \in {"deleteBook", "deleteAuthor"}
  BY <1>3, <1>4, <1>8 DEF AskedLinks, DropsOf, BookWrites, Unlinkers
<1>9. CASE Kind(r) \notin BookWrites \cup {"deleteBook", "deleteAuthor"}
  BY <1>1, <1>3, <1>4, <1>9 DEF AskedLinks, DropsOf, BookWrites, Unlinkers
<1>. QED  BY <1>5, <1>6, <1>7, <1>8, <1>9 DEF BookWrites

LEMMA ShelvesAsAsked ==
  ASSUME Typed, Sound, NEW r \in Requests, Commit(r), CurrentOk(r), r \notin overtaken
  PROVE  shelf' = AskedShelf(r)
<1>1. /\ pc[r] = "commit" /\ StepFits(pc[r], Kind(r)) /\ TaskFits(task[r]) /\ RequestOk(r)
      /\ shelf \in [Books -> Categories \cup {Nil}] /\ Books \subseteq Rows
      /\ shelf' = [b \in Books |-> shelf'[b]]
  BY DEF Sound, Typed, TypeOK, Commit, ShelfAfter, Rows
<1>2. Kind(r) # "none" /\ Id(r) \in Rows /\ Kind(r) \in Kinds
  BY <1>1, TaskIsOfARow DEF StepFits, Ended
<1>3. \A b \in Books : shelf'[b] = IF holder[b] # r THEN shelf[b]
                                   ELSE IF Kind(r) \in BookWrites THEN DraftShelf(r, b) ELSE Nil
  BY CommitWrites
<1>4. \A b \in Books : holder[b] = r => b = Id(r) \/ Kind(r) = "deleteCategory"
  BY <1>1 DEF RequestOk, HolderOk
<1>5. CASE Kind(r) \in BookWrites
  <2>. PICK b \in Books : b = Id(r)
    BY <1>5, TaskIsOfARow
  <2>1. \A d \in Books \ {b} : shelf'[d] = shelf[d]
    BY <1>3, <1>4, <1>5 DEF BookWrites
  <2>2. CASE task[r].body.category = Keep
    <3>1. \A d \in Books : shelf'[d] = shelf[d]
      BY <1>3, <1>5, <2>2 DEF DraftShelf, Changes
    <3>2. AskedShelf(r) = shelf
      BY <1>5, <2>2 DEF AskedShelf, BookWrites
    <3>. QED  BY <1>1, <3>1, <3>2
  <2>3. CASE task[r].body.category # Keep
    <3>1. shelf'[b] = task[r].body.category
      <4>1. CASE Kind(r) = "createBook"
        <5>1. holder[b] = r
          BY <1>1, <4>1 DEF RequestOk
        <5>. QED  BY <1>3, <1>5, <2>3, <4>1, <5>1 DEF DraftShelf, Changes
      <4>2. CASE Kind(r) = "patchBook"
        <5>1. seen[r].category = shelf[b]
          BY <1>2, <4>2 DEF CurrentOk
        <5>2. holder[b] # r => task[r].body.category \in {Keep, seen[r].category}
          BY <1>1, <1>2, <4>2 DEF CurrentOk
        <5>. QED  BY <1>3, <1>5, <2>3, <4>2, <5>1, <5>2 DEF DraftShelf, Changes
      <4>. QED  BY <1>5, <4>1, <4>2 DEF BookWrites
    <3>2. AskedShelf(r) = [shelf EXCEPT ![b] = task[r].body.category]
      BY <1>5, <2>3 DEF AskedShelf, BookWrites
    <3>. QED  BY <1>1, <2>1, <3>1, <3>2
  <2>. QED  BY <2>2, <2>3
<1>6. CASE Kind(r) \in {"deleteBook", "deleteCategory"}
  <2>1. AskedShelf(r) = [b \in Books |-> IF Id(r) \in {b, shelf[b]} THEN Nil ELSE shelf[b]]
    BY <1>6 DEF AskedShelf
  <2>2. holder[Id(r)] = r
    BY <1>1, <1>6 DEF RequestOk, Deletes
  <2>3. ASSUME NEW b \in Books PROVE shelf'[b] = IF Id(r) \in {b, shelf[b]} THEN Nil ELSE shelf[b]
    <3>1. CASE Kind(r) = "deleteBook"
      <4>1. Id(r) \in Books /\ Id(r) # shelf[b]
        BY <1>1, <3>1, TaskIsOfARow, TablesAssumption DEF Rows
      <4>. QED  BY <1>3, <1>4, <2>2, <3>1, <4>1 DEF BookWrites
    <3>2. CASE Kind(r) = "deleteCategory"
      <4>1. Id(r) # b
        BY <3>2, TaskIsOfARow, TablesAssumption
      <4>2. Doomed(Id(r)) /\ DoomOk(Id(r))
        BY <1>2, <2>2, <3>2, TablesAssumption DEF Doomed, Deletes, Sound
      <4>3. shelf[b] = Id(r) <=> holder[b] = r
        BY <1>2, <2>2, <3>2, <4>2 DEF DoomOk, CurrentOk
      <4>. QED  BY <1>3, <3>2, <4>1, <4>3 DEF BookWrites
    <3>. QED  BY <1>6, <3>1, <3>2
  <2>. QED  BY <1>1, <2>1, <2>3
<1>7. CASE Kind(r) \notin BookWrites \cup {"deleteBook", "deleteCategory"}
  <2>1. Id(r) \notin Books
    BY <1>1, <1>2, <1>7, TablesAssumption DEF TaskFits, Kind, Id, Kinds, BookWrites
  <2>2. \A b \in Books : shelf'[b] = shelf[b]
    BY <1>3, <1>4, <1>7, <2>1
  <2>3. AskedShelf(r) = shelf
    BY <1>7 DEF AskedShelf, BookWrites
  <2>. QED  BY <1>1, <2>2, <2>3
<1>. QED  BY <1>5, <1>6, <1>7

\* A request that nobody overtakes leaves the links and the shelves as it asked,
\* though it writes only differences from what it had loaded
\* (book_service.py:160-217, author_service.py:61-69, category_service.py:60-68).
THEOREM AllDoneAsAsked == Spec => DoneAsAsked
<1>1. ASSUME Typed, Sound, Current, [Next]_vars, NEW r \in Requests \ overtaken, Commits(r)
      PROVE  links' = AskedLinks(r) /\ shelf' = AskedShelf(r)
  <2>1. PICK y \in Requests : Step(y) \/ AbortVictim(y)
    BY <1>1 DEF Next, Idle, vars, Commits
  <2>2. y = r /\ Commit(r)
    BY <1>1, <2>1, BeginningGoes, FlushGoes, CommitGoes, AbortGoes DEF Step, Beginning, Flush, Commits
  <2>. QED  BY <1>1, <2>2, LinksAsAsked, ShelvesAsAsked DEF Current
<1>2. Typed /\ Sound /\ Current /\ [Next]_vars
        => [\A r \in Requests \ overtaken :
               Commits(r) => links' = AskedLinks(r) /\ shelf' = AskedShelf(r)]_vars
  BY <1>1
<1>. QED  BY <1>2, AlwaysTyped, AlwaysSound, AlwaysCurrent, PTL DEF Spec, DoneAsAsked

================================================================================
