--------------------------- MODULE WishlistsProofs ---------------------------
(***************************************************************************)
(* Proofs that every wishlist item belongs to a wishlist and a book that   *)
(* exist, and that only a request another one has overtaken can fail, for  *)
(* any number of users, books and requests.                                *)
(***************************************************************************)
EXTENDS Wishlists, TLAPS

-----------------------------------------------------------------------------
(* The inductive invariants.                                               *)

\* The handler that a step belongs to.
Fits(r) ==
    LET k == task[r].kind IN
    /\ pc[r] = "new" => k = "none"
    /\ pc[r] # "new" => k # "none"
    /\ pc[r] \in {"fetch", "create"} => k # "withdraw"
    /\ pc[r] \in {"lookup", "insert"} => k = "add"
    /\ pc[r] \in {"select", "delete"} => k \in {"remove", "clear", "withdraw"}
    /\ pc[r] = "erase" => k = "withdraw"

\* Past its first steps a handler has a wishlist, committed or its own.
HasList(r) ==
    pc[r] \in {"lookup", "insert", "select", "delete", "commit"} /\ task[r].kind # "withdraw" =>
        r \in created \/ list[Owner[r]] # Nil

\* An uncommitted wishlist is its user's first.
CreatedOk(r) ==
    r \in created => /\ Running(r) /\ list[Owner[r]] = Nil
                     /\ \A x \in created : Owner[x] = Owner[r] => x = r

Key(i) == <<i.user, i.book>>

\* An uncommitted item is the first of its wishlist and book.
InsertedOk(r) ==
    \A i \in inserted[r] :
        /\ pc[r] = "commit" /\ task[r].kind = "add"
        /\ i = [user |-> Owner[r], book |-> Book(r), id |-> r]
        /\ Book(r) \in live
        /\ \A j \in items : Key(j) # Key(i)
        /\ \A x \in Requests : \A j \in inserted[x] : Key(j) = Key(i) => x = r

\* A book that is being withdrawn leaves no item behind, and none comes.
WithdrawnOk(r) ==
    pc[r] = "commit" /\ task[r].kind = "withdraw" =>
        /\ \A i \in items : i.book = Book(r) => i \in doomed[r]
        /\ \A x \in Requests : \A i \in inserted[x] : i.book # Book(r)

RequestOk(r) == HasList(r) /\ CreatedOk(r) /\ InsertedOk(r) /\ WithdrawnOk(r)

Typed == TypeOK /\ \A r \in Requests : Fits(r)

Sound == Typed /\ ItemsBelong /\ \A r \in Requests : RequestOk(r)

\* What a request has read is still so, as long as no other has committed.
UpToDate(r) ==
    r \notin overtaken =>
        /\ pc[r] # "failed"
        /\ pc[r] = "create" => list[Owner[r]] = Nil
        /\ pc[r] \in {"fetch", "create", "lookup", "insert"} /\ task[r].kind = "add" => Book(r) \in live
        /\ pc[r] = "insert" => Same(r) = {}
        /\ pc[r] \in {"delete", "erase"} /\ task[r].kind = "withdraw" => Left(r) = {}

Fresh == \A r \in Requests : UpToDate(r)

-----------------------------------------------------------------------------
(* Types.                                                                  *)

LEMMA Nils == Nil \notin Requests /\ Nil \notin Books /\ Owner \in [Requests -> Users]
  BY WishlistsAssumption DEF WishlistsAssumption

LEMMA TaskTypes ==
  ASSUME TypeOK, NEW r \in Requests
  PROVE  /\ task[r].kind \in {"none", "get", "add", "remove", "clear", "withdraw"}
         /\ task[r].kind \in {"add", "withdraw"} => Book(r) \in Books
  BY DEF TypeOK, Task, Book

LEMMA InitTyped == Init => Typed
  BY DEF Init, Typed, TypeOK, Fits, Task, Ended

\* A step that leaves the handler of r what it is.
LEMMA MoveFits ==
  ASSUME Typed, NEW r \in Requests, NEW step, Goto(r, step), task' = task,
         step \notin {"new", "fetch", "create"},
         step \in {"lookup", "insert"} => task[r].kind = "add",
         step \in {"select", "delete"} => task[r].kind \in {"remove", "clear", "withdraw"},
         step = "erase" => task[r].kind = "withdraw", pc[r] # "new"
  PROVE  \A x \in Requests : Fits(x)'
<1>1. pc'[r] = step /\ \A x \in Requests \ {r} : pc'[x] = pc[x]
  BY DEF Typed, TypeOK, Goto
<1>. QED  BY <1>1 DEF Typed, Fits

LEMMA RollbackTyped ==
  ASSUME Typed, NEW r \in Requests, NEW outcome \in Ended, Rollback(r, outcome), pc[r] # "new"
  PROVE  Typed'
<1>1. End(r, outcome) /\ UNCHANGED <<committed, task, overtaken>>
  BY DEF Rollback
<1>2. TypeOK'
  BY <1>1 DEF Typed, TypeOK, committed, End, Goto
<1>3. \A x \in Requests : Fits(x)'
  BY <1>1, MoveFits DEF End, Ended
<1>. QED  BY <1>2, <1>3 DEF Typed

LEMMA ContinueTyped ==
  ASSUME Typed, NEW r \in Requests, Continue(r), pc[r] \in {"fetch", "create"}, task' = task
  PROVE  /\ pc' \in [Requests -> {"new", "fetch", "create", "lookup", "insert", "select",
                                  "delete", "erase", "commit"} \cup Ended]
         /\ \A x \in Requests : Fits(x)'
<1>1. task[r].kind \in {"get", "add", "remove", "clear"}
  <2>1. TypeOK /\ Fits(r)
    BY DEF Typed
  <2>. QED  BY <2>1, TaskTypes DEF Fits
<1>2. PICK step \in {"lookup", "select", "commit"} :
         /\ Goto(r, step)
         /\ step = "lookup" => task[r].kind = "add"
         /\ step = "select" => task[r].kind \in {"remove", "clear"}
  BY <1>1 DEF Continue
<1>3. \A x \in Requests : Fits(x)'
  BY <1>2, MoveFits
<1>. QED  BY <1>2, <1>3 DEF Typed, TypeOK, Goto

LEMMA StepTyped ==
  ASSUME Typed, NEW r \in Requests, Step(r)
  PROVE  Typed'
<1> USE Nils
<1>1. CASE Receive(r)
  <2>1. PICK k \in Kinds : \E b \in Subjects(k) :
            /\ task' = [task EXCEPT ![r] = [kind |-> k, book |-> b]]
            /\ pc' = [pc EXCEPT ![r] = CASE k = "add" /\ b \notin live -> "refused"
                                         [] k = "withdraw"             -> "select"
                                         [] OTHER                      -> "fetch"]
    BY <1>1 DEF Receive, Goto
  <2>2. \A b \in Subjects(k) : [kind |-> k, book |-> b] \in Task
    BY <2>1 DEF Kinds, Subjects, Task
  <2>3. TypeOK'
    BY <1>1, <2>1, <2>2 DEF Receive, committed, Typed, TypeOK, Ended
  <2>4. \A x \in Requests : Fits(x)'
    BY <2>1 DEF Typed, TypeOK, Fits, Kinds
  <2>. QED  BY <2>3, <2>4 DEF Typed
<1>2. CASE FetchList(r)
  <2>1. CASE Continue(r)
    BY <1>2, <2>1, ContinueTyped DEF FetchList, committed, Typed, TypeOK
  <2>2. CASE Goto(r, "create")
    BY <1>2, <2>2 DEF FetchList, Goto, committed, Typed, TypeOK, Fits
  <2>. QED  BY <1>2, <2>1, <2>2 DEF FetchList
<1>3. CASE CreateList(r)
  <2>1. CASE Rollback(r, "failed")
    BY <1>3, <2>1, RollbackTyped DEF CreateList, Ended
  <2>2. CASE ~Rollback(r, "failed")
    BY <1>3, <2>2, ContinueTyped DEF CreateList, committed, Typed, TypeOK
  <2>. QED  BY <2>1, <2>2
<1>4. CASE Lookup(r)
  <2>1. PICK step \in {"insert", "commit"} : Goto(r, step)
    BY <1>4 DEF Lookup, AfterLookup
  <2>2. task' = task /\ task[r].kind = "add" /\ pc[r] # "new"
    BY <1>4 DEF Lookup, Typed, Fits
  <2>3. \A x \in Requests : Fits(x)'
    BY <2>1, <2>2, MoveFits
  <2>. QED  BY <1>4, <2>1, <2>3 DEF Lookup, Goto, committed, Typed, TypeOK
<1>5. CASE Insert(r)
  <2>1. CASE Rollback(r, "failed")
    BY <1>5, <2>1, RollbackTyped DEF Insert, Ended
  <2>2. CASE MayInsert(r) /\ ~Rollback(r, "failed")
    <3>1. Book(r) \in Books
      BY <2>2 DEF MayInsert, Typed, TypeOK
    <3>2. [user |-> Owner[r], book |-> Book(r), id |-> r] \in Item
      BY <3>1 DEF Item
    <3>3. \A x \in Requests : Fits(x)'
      BY <1>5, <2>2, MoveFits DEF Insert
    <3>. QED  BY <1>5, <2>2, <3>2, <3>3 DEF Insert, Goto, committed, Typed, TypeOK
  <2>. QED  BY <1>5, <2>1, <2>2 DEF Insert
<1>6. CASE SelectItems(r)
  <2>1. CASE Rollback(r, "refused")
    BY <1>6, <2>1, RollbackTyped DEF SelectItems, Ended
  <2>2. pc[r] = "select" /\ task[r].kind \in {"remove", "clear", "withdraw"}
    BY <1>6 DEF SelectItems, Typed, Fits
  <2>3. ASSUME NEW chosen \in SUBSET items, Select(r, chosen) PROVE Typed'
    <3>1. \A x \in Requests : Fits(x)'
      BY <2>2, <2>3, MoveFits DEF Select
    <3>. QED  BY <2>3, <3>1 DEF Select, Goto, committed, Typed, TypeOK
  <2>4. \/ Rollback(r, "refused")
        \/ \E chosen \in SUBSET items : Select(r, chosen)
    BY <1>6, <2>2 DEF SelectItems, ItemsOf
  <2>. QED  BY <2>1, <2>3, <2>4
<1>7. CASE Delete(r)
  <2>1. pc[r] = "delete" /\ task[r].kind \in {"remove", "clear", "withdraw"}
    BY <1>7 DEF Delete, Typed, Fits
  <2>2. \A x \in Requests : Fits(x)'
    BY <1>7, <2>1, MoveFits DEF Delete
  <2>. QED  BY <1>7, <2>2 DEF Delete, Goto, committed, Typed, TypeOK
<1>8. CASE Erase(r)
  <2>1. CASE Rollback(r, "failed")
    BY <1>8, <2>1, RollbackTyped DEF Erase, Ended
  <2>2. CASE ~Rollback(r, "failed")
    <3>1. \A x \in Requests : Fits(x)'
      BY <1>8, <2>2, MoveFits DEF Erase
    <3>. QED  BY <1>8, <2>2, <3>1 DEF Erase, Goto, committed, Typed, TypeOK
  <2>. QED  BY <2>1, <2>2
<1>9. CASE Commit(r)
  <2>1. pc[r] = "commit" /\ End(r, "ok") /\ task' = task /\ overtaken' \subseteq Requests
    BY <1>9 DEF Commit, Typed, TypeOK
  <2>2. live' \subseteq Books /\ list' \in [Users -> Requests \cup {Nil}] /\ items' \subseteq Item
    BY <1>9 DEF Commit, Typed, TypeOK
  <2>3. TypeOK'
    BY <2>1, <2>2 DEF Typed, TypeOK, End, Goto, Ended
  <2>4. \A x \in Requests : Fits(x)'
    BY <2>1, MoveFits DEF End
  <2>. QED  BY <2>3, <2>4 DEF Typed
<1>. QED  BY <1>1, <1>2, <1>3, <1>4, <1>5, <1>6, <1>7, <1>8, <1>9 DEF Step

LEMMA NextTyped == Typed /\ [Next]_vars => Typed'
<1>1. CASE Idle \/ UNCHANGED vars
  BY <1>1 DEF Idle, vars, Typed, TypeOK, Fits
<1>. QED  BY <1>1, StepTyped DEF Next

\* Every variable keeps its type, and each step belongs to its handler.
THEOREM TypesHold == Spec => []TypeOK
<1>1. Typed => TypeOK
  BY DEF Typed
<1>. QED  BY <1>1, InitTyped, NextTyped, PTL DEF Spec

-----------------------------------------------------------------------------
(* Items belong.                                                           *)

LEMMA InitSound == Init => Sound
<1>1. Init => Typed
  BY InitTyped
<1>. QED  BY <1>1, Nils DEF Init, Sound, ItemsBelong, RequestOk, HasList, CreatedOk, InsertedOk, WithdrawnOk

\* A step of r that writes nothing another request can see.
LEMMA MoveSound ==
  ASSUME Sound, Typed', NEW r \in Requests, NEW step, Goto(r, step), pc[r] # "commit",
         UNCHANGED <<committed, created, inserted>>,
         \A x \in Requests \ {r} : task'[x] = task[x] /\ doomed'[x] = doomed[x],
         r \in created => step \notin {"new"} \cup Ended, HasList(r)', WithdrawnOk(r)'
  PROVE  Sound'
<1>1. pc'[r] = step /\ \A x \in Requests \ {r} : pc'[x] = pc[x]
  BY DEF Sound, Typed, TypeOK, Goto
<1>2. live' = live /\ list' = list /\ items' = items /\ created' = created /\ inserted' = inserted
  BY DEF committed
<1>3. inserted[r] = {}
  BY DEF Sound, RequestOk, InsertedOk
<1>4. ItemsBelong'
  BY <1>2 DEF Sound, ItemsBelong
<1>5. ASSUME NEW x \in Requests PROVE RequestOk(x)'
  <2>1. HasList(x)'
    BY <1>1, <1>2 DEF Sound, RequestOk, HasList
  <2>2. CreatedOk(x)'
    BY <1>1, <1>2 DEF Sound, RequestOk, CreatedOk, Running
  <2>3. InsertedOk(x)'
    BY <1>1, <1>2, <1>3 DEF Sound, RequestOk, InsertedOk, Book, Key
  <2>4. WithdrawnOk(x)'
    BY <1>1, <1>2 DEF Sound, RequestOk, WithdrawnOk, Book
  <2>. QED  BY <2>1, <2>2, <2>3, <2>4 DEF RequestOk
<1>. QED  BY <1>4, <1>5 DEF Sound

\* The end of a request takes back what it has not committed.
LEMMA RollbackSound ==
  ASSUME Sound, Typed', NEW r \in Requests, NEW outcome \in Ended, Rollback(r, outcome)
  PROVE  Sound'
<1>1. pc'[r] = outcome /\ \A x \in Requests \ {r} : pc'[x] = pc[x]
  BY DEF Sound, Typed, TypeOK, Rollback, End, Goto
<1>2. live' = live /\ list' = list /\ items' = items /\ task' = task /\ created' = created \ {r}
  BY DEF Rollback, End, committed
<1>3. inserted'[r] = {} /\ \A x \in Requests \ {r} : inserted'[x] = inserted[x] /\ doomed'[x] = doomed[x]
  BY DEF Sound, Typed, TypeOK, Rollback, End
<1>4. ItemsBelong'
  BY <1>2 DEF Sound, ItemsBelong
<1>5. ASSUME NEW x \in Requests PROVE RequestOk(x)'
  <2>1. HasList(x)'
    BY <1>1, <1>2 DEF Sound, RequestOk, HasList, Ended
  <2>2. CreatedOk(x)'
    BY <1>1, <1>2 DEF Sound, RequestOk, CreatedOk, Running
  <2>3. InsertedOk(x)'
    BY <1>1, <1>2, <1>3 DEF Sound, RequestOk, InsertedOk, Book, Key
  <2>4. WithdrawnOk(x)'
    BY <1>1, <1>2, <1>3 DEF Sound, RequestOk, WithdrawnOk, Book, Ended
  <2>. QED  BY <2>1, <2>2, <2>3, <2>4 DEF RequestOk
<1>. QED  BY <1>4, <1>5 DEF Sound

\* A request that is not about to commit has no item in hand.
LEMMA NothingInserted ==
  ASSUME Sound, NEW r \in Requests, pc[r] # "commit"
  PROVE  inserted[r] = {}
BY DEF Sound, RequestOk, InsertedOk

LEMMA ReceiveSound ==
  ASSUME Sound, Typed', NEW r \in Requests, Receive(r)
  PROVE  Sound'
<1>1. PICK k \in Kinds : \E b \in Subjects(k) :
          /\ task' = [task EXCEPT ![r] = [kind |-> k, book |-> b]]
          /\ Goto(r, CASE k = "add" /\ b \notin live -> "refused"
                       [] k = "withdraw"             -> "select"
                       [] OTHER                      -> "fetch")
  BY DEF Receive
<1>2. PICK step \in {"refused", "select", "fetch"} :
          Goto(r, step) /\ (step = "select" => task'[r].kind = "withdraw")
  BY <1>1 DEF Sound, Typed, TypeOK
<1>3. r \notin created
  BY DEF Receive, Sound, RequestOk, CreatedOk, Running
<1>4. HasList(r)' /\ WithdrawnOk(r)'
  BY <1>2 DEF HasList, WithdrawnOk, Goto, Sound, Typed, TypeOK
<1>5. \A x \in Requests \ {r} : task'[x] = task[x] /\ doomed'[x] = doomed[x]
  BY <1>1 DEF Receive, Sound, Typed, TypeOK
<1>. QED  BY <1>2, <1>3, <1>4, <1>5, MoveSound DEF Receive

LEMMA FetchSound ==
  ASSUME Sound, Typed', NEW r \in Requests, FetchList(r)
  PROVE  Sound'
<1>1. PICK step \in {"create", "lookup", "select", "commit"} :
          Goto(r, step) /\ (step # "create" => list[Owner[r]] # Nil)
  BY DEF FetchList, Continue
<1>2. task[r].kind # "withdraw"
  BY DEF FetchList, Sound, Typed, Fits
<1>3. HasList(r)' /\ WithdrawnOk(r)'
  BY <1>1, <1>2 DEF HasList, WithdrawnOk, Goto, FetchList, committed, Sound, Typed, TypeOK
<1>. QED  BY <1>1, <1>3, MoveSound DEF FetchList, Ended

LEMMA CreateSound ==
  ASSUME Sound, Typed', NEW r \in Requests, CreateList(r)
  PROVE  Sound'
<1>1. CASE Rollback(r, "failed")
  BY <1>1, RollbackSound DEF Ended
<1>2. CASE ~Rollback(r, "failed")
  <2>1. /\ created' = created \cup {r} /\ list[Owner[r]] = Nil
        /\ live' = live /\ list' = list /\ items' = items
        /\ task' = task /\ inserted' = inserted /\ doomed' = doomed
    BY <1>2 DEF CreateList, committed
  <2>2. PICK step \in {"lookup", "select", "commit"} : Goto(r, step)
    BY <1>2 DEF CreateList, Continue
  <2>3. pc'[r] = step /\ \A x \in Requests \ {r} : pc'[x] = pc[x]
    BY <2>2 DEF Sound, Typed, TypeOK, Goto
  <2>4. task[r].kind # "withdraw" /\ inserted[r] = {} /\ pc[r] = "create"
    BY NothingInserted DEF CreateList, Sound, Typed, Fits
  <2>5. ItemsBelong'
    BY <2>1 DEF Sound, ItemsBelong
  <2>6. ASSUME NEW x \in Requests PROVE RequestOk(x)'
    <3>1. HasList(x)'
      BY <2>1, <2>3 DEF Sound, RequestOk, HasList
    <3>2. CreatedOk(x)'
      BY <2>1, <2>2, <2>3 DEF Sound, RequestOk, CreatedOk, Running, CreateList, Ended
    <3>3. InsertedOk(x)'
      BY <2>1, <2>3, <2>4 DEF Sound, RequestOk, InsertedOk, Book, Key
    <3>4. WithdrawnOk(x)'
      BY <2>1, <2>3, <2>4 DEF Sound, RequestOk, WithdrawnOk, Book
    <3>. QED  BY <3>1, <3>2, <3>3, <3>4 DEF RequestOk
  <2>. QED  BY <2>5, <2>6 DEF Sound
<1>. QED  BY <1>1, <1>2

LEMMA LookupSound ==
  ASSUME Sound, Typed', NEW r \in Requests, Lookup(r)
  PROVE  Sound'
<1>1. PICK step \in {"insert", "commit"} : Goto(r, step)
  BY DEF Lookup, AfterLookup
<1>2. task[r].kind = "add" /\ task' = task
  BY DEF Lookup, Sound, Typed, Fits
<1>3. HasList(r)' /\ WithdrawnOk(r)'
  BY <1>1, <1>2 DEF HasList, WithdrawnOk, Goto, Lookup, committed, Sound, Typed, TypeOK, RequestOk
<1>. QED  BY <1>1, <1>3, MoveSound DEF Lookup, Ended

\* The two keys are checked against what is committed, and the guards wait
\* for what is not.
LEMMA InsertSound ==
  ASSUME Sound, Typed', NEW r \in Requests, Insert(r)
  PROVE  Sound'
<1>1. CASE Rollback(r, "failed")
  BY <1>1, RollbackSound DEF Ended
<1>2. CASE ~Rollback(r, "failed")
  <2> DEFINE item == [user |-> Owner[r], book |-> Book(r), id |-> r]
  <2>1. /\ inserted'[r] = {item} /\ \A x \in Requests \ {r} : inserted'[x] = inserted[x]
        /\ live' = live /\ list' = list /\ items' = items
        /\ task' = task /\ created' = created /\ doomed' = doomed
    BY <1>2 DEF Insert, committed, Sound, Typed, TypeOK
  <2>2. pc'[r] = "commit" /\ \A x \in Requests \ {r} : pc'[x] = pc[x]
    BY <1>2 DEF Insert, Goto, Sound, Typed, TypeOK
  <2>3. task[r].kind = "add" /\ pc[r] = "insert" /\ Book(r) \in live
    BY <1>2 DEF Insert, MayInsert, Sound, Typed, Fits
  <2>4. \A j \in items : Key(j) # Key(item)
    BY <1>2 DEF Insert, MayInsert, Same, ItemsOf, Key
  <2>5. \A x \in Requests \ {r} : \A j \in inserted[x] : Key(j) # Key(item)
    BY DEF Insert, Inserting, Key
  <2>6. \A x \in Requests : pc[x] = "commit" /\ task[x].kind = "withdraw" => Book(x) # Book(r)
    BY DEF Insert, Withdrawing
  <2>7. ItemsBelong'
    BY <2>1 DEF Sound, ItemsBelong
  <2>8. ASSUME NEW x \in Requests PROVE RequestOk(x)'
    <3>1. HasList(x)'
      BY <2>1, <2>2, <2>3 DEF Sound, RequestOk, HasList
    <3>2. CreatedOk(x)'
      BY <2>1, <2>2, <2>3 DEF Sound, RequestOk, CreatedOk, Running, Ended
    <3>3. InsertedOk(x)'
      <4>1. CASE x = r
        BY <4>1, <2>1, <2>2, <2>3, <2>4, <2>5 DEF InsertedOk, Book, Key
      <4>2. CASE x # r
        BY <4>2, <2>1, <2>2, <2>5 DEF Sound, RequestOk, InsertedOk, Book, Key
      <4>. QED  BY <4>1, <4>2
    <3>4. WithdrawnOk(x)'
      BY <2>1, <2>2, <2>3, <2>6 DEF Sound, RequestOk, WithdrawnOk, Book
    <3>. QED  BY <3>1, <3>2, <3>3, <3>4 DEF RequestOk
  <2>. QED  BY <2>7, <2>8 DEF Sound
<1>. QED  BY <1>1, <1>2

LEMMA SelectSound ==
  ASSUME Sound, Typed', NEW r \in Requests, SelectItems(r)
  PROVE  Sound'
<1>1. CASE Rollback(r, "refused")
  BY <1>1, RollbackSound DEF Ended
<1>2. ASSUME NEW chosen, Select(r, chosen)
      PROVE  Sound'
  <2>1. HasList(r)' /\ WithdrawnOk(r)'
    BY <1>2 DEF HasList, WithdrawnOk, Select, Goto, SelectItems, committed, Sound, Typed, TypeOK, RequestOk
  <2>2. \A x \in Requests \ {r} : task'[x] = task[x] /\ doomed'[x] = doomed[x]
    BY <1>2 DEF Select, Sound, Typed, TypeOK
  <2>3. pc[r] = "select"
    BY DEF SelectItems, Sound, Typed, Fits
  <2>. QED  BY <1>2, <2>1, <2>2, <2>3, MoveSound DEF Select, Ended
<1>3. Rollback(r, "refused") \/ \E chosen : Select(r, chosen)
  BY DEF SelectItems, Sound, Typed, Fits
<1>. QED  BY <1>1, <1>2, <1>3

LEMMA DeleteSound ==
  ASSUME Sound, Typed', NEW r \in Requests, Delete(r)
  PROVE  Sound'
<1>1. PICK step \in {"erase", "commit"} :
          Goto(r, step) /\ (step = "commit" => task[r].kind # "withdraw")
  BY DEF Delete
<1>2. HasList(r)' /\ WithdrawnOk(r)'
  BY <1>1 DEF HasList, WithdrawnOk, Goto, Delete, committed, Sound, Typed, TypeOK, RequestOk
<1>. QED  BY <1>1, <1>2, MoveSound DEF Delete, Ended

\* Erase has waited for the inserted items of the book, and finds none left.
LEMMA EraseSound ==
  ASSUME Sound, Typed', NEW r \in Requests, Erase(r)
  PROVE  Sound'
<1>1. CASE Rollback(r, "failed")
  BY <1>1, RollbackSound DEF Ended
<1>2. CASE ~Rollback(r, "failed")
  <2>1. Left(r) = {} /\ Goto(r, "commit") /\ UNCHANGED <<committed, task, created, inserted, doomed>>
    BY <1>2 DEF Erase
  <2>2. task[r].kind = "withdraw" /\ inserted[r] = {}
    BY NothingInserted DEF Erase, Sound, Typed, Fits
  <2>3. HasList(r)'
    BY <2>1, <2>2 DEF HasList
  <2>4. \A x \in Requests : \A i \in inserted[x] : i.book # Book(r)
    BY <2>2 DEF Erase, Inserting
  <2>5. WithdrawnOk(r)'
    BY <2>1, <2>4 DEF WithdrawnOk, Left, committed, Book
  <2>. QED  BY <2>1, <2>3, <2>5, MoveSound DEF Erase, Ended
<1>. QED  BY <1>1, <1>2

\* What is committed was the first of its keys, and is about no withdrawn book.
LEMMA CommitSound ==
  ASSUME Sound, Typed', NEW r \in Requests, Commit(r)
  PROVE  Sound'
<1>1. pc[r] = "commit" /\ pc'[r] = "ok" /\ \A x \in Requests \ {r} : pc'[x] = pc[x]
  BY DEF Sound, Typed, TypeOK, Commit, End, Goto
<1>2. task' = task /\ created' = created \ {r} /\ items' = (items \ doomed[r]) \cup inserted[r]
  BY DEF Commit, End
<1>3. inserted'[r] = {} /\ \A x \in Requests \ {r} : inserted'[x] = inserted[x] /\ doomed'[x] = doomed[x]
  BY DEF Sound, Typed, TypeOK, Commit, End
<1>4. \A u \in Users : list'[u] = IF r \in created /\ u = Owner[r] THEN r ELSE list[u]
  BY DEF Commit, Sound, Typed, TypeOK
<1>5. \A u \in Users : list[u] # Nil => list'[u] # Nil
  BY <1>4, Nils
<1>6. /\ task[r].kind # "withdraw" => live' = live
      /\ task[r].kind = "withdraw" => live' = live \ {Book(r)} /\ inserted[r] = {}
  BY DEF Commit, Sound, RequestOk, InsertedOk
<1>7. ItemsBelong'
  <2>1. ASSUME NEW i \in items'
        PROVE  list'[i.user] # Nil /\ i.book \in live'
    <3>1. CASE i \in items \ doomed[r]
      <4>1. i.user \in Users /\ list[i.user] # Nil /\ i.book \in live
        BY <3>1 DEF Sound, ItemsBelong, Typed, TypeOK, Item
      <4>2. task[r].kind = "withdraw" => i.book # Book(r)
        BY <1>1, <3>1 DEF Sound, RequestOk, WithdrawnOk
      <4>. QED  BY <4>1, <4>2, <1>5, <1>6
    <3>2. CASE i \in inserted[r]
      <4>1. i.user = Owner[r] /\ i.book \in live /\ task[r].kind = "add"
        BY <3>2 DEF Sound, RequestOk, InsertedOk
      <4>2. r \in created \/ list[Owner[r]] # Nil
        BY <4>1, <1>1 DEF Sound, RequestOk, HasList
      <4>3. list'[Owner[r]] # Nil
        BY <4>2, <1>4, Nils
      <4>. QED  BY <4>1, <4>3, <1>6
    <3>. QED  BY <1>2, <3>1, <3>2
  <2>2. ASSUME NEW i \in items', NEW j \in items', j.user = i.user, j.book = i.book
        PROVE  j = i
    <3>1. \A k \in items, l \in inserted[r] : k.user # l.user \/ k.book # l.book
      BY DEF Sound, RequestOk, InsertedOk, Key
    <3>2. \A k \in inserted[r], l \in inserted[r] : k = l
      BY DEF Sound, RequestOk, InsertedOk
    <3>. QED  BY <1>2, <2>2, <3>1, <3>2 DEF Sound, ItemsBelong
  <2>. QED  BY <2>1, <2>2 DEF ItemsBelong
<1>8. ASSUME NEW x \in Requests PROVE RequestOk(x)'
  <2>1. HasList(x)'
    BY <1>1, <1>2, <1>4, <1>5, Nils DEF Sound, RequestOk, HasList
  <2>2. CreatedOk(x)'
    <3>1. x \in created' => x # r /\ Owner[x] \in Users /\ (r \in created => Owner[x] # Owner[r])
      BY <1>2, Nils DEF Sound, RequestOk, CreatedOk
    <3>2. x \in created' => list'[Owner[x]] = list[Owner[x]]
      BY <3>1, <1>4
    <3>. QED  BY <1>1, <1>2, <3>1, <3>2 DEF Sound, RequestOk, CreatedOk, Running
  <2>3. InsertedOk(x)'
    <3>1. CASE x = r
      BY <3>1, <1>3 DEF InsertedOk
    <3>2. ASSUME x # r, NEW i \in inserted[x]
          PROVE  Book(x) \in live' /\ \A j \in items' : Key(j) # Key(i)
      <4>1. i.book = Book(x) /\ Book(x) \in live /\ \A j \in items : Key(j) # Key(i)
        BY DEF Sound, RequestOk, InsertedOk
      <4>2. task[r].kind = "withdraw" => Book(r) # Book(x)
        BY <1>1, <4>1 DEF Sound, RequestOk, WithdrawnOk
      <4>3. \A j \in inserted[r] : Key(j) # Key(i)
        BY <3>2 DEF Sound, RequestOk, InsertedOk
      <4>. QED  BY <4>1, <4>2, <4>3, <1>2, <1>6
    <3>. QED  BY <1>1, <1>2, <1>3, <3>1, <3>2 DEF Sound, RequestOk, InsertedOk, Book, Key
  <2>4. WithdrawnOk(x)'
    <3>1. CASE x = r
      BY <3>1, <1>1 DEF WithdrawnOk
    <3>2. CASE x # r
      BY <1>1, <1>2, <1>3, <3>2 DEF Sound, RequestOk, WithdrawnOk, Book
    <3>. QED  BY <3>1, <3>2
  <2>. QED  BY <2>1, <2>2, <2>3, <2>4 DEF RequestOk
<1>. QED  BY <1>7, <1>8 DEF Sound

LEMMA NextSound == Sound /\ [Next]_vars => Sound'
<1>1. ASSUME Sound, UNCHANGED vars PROVE Sound'
  BY <1>1 DEF vars, Sound, Typed, TypeOK, Fits, ItemsBelong, RequestOk, HasList, CreatedOk,
              InsertedOk, WithdrawnOk, Running, Book, Key
<1>2. ASSUME Sound, NEW r \in Requests, Step(r) PROVE Sound'
  <2>1. Typed'
    BY <1>2, StepTyped DEF Sound
  <2>. QED  BY <1>2, <2>1, ReceiveSound, FetchSound, CreateSound, LookupSound, InsertSound,
               SelectSound, DeleteSound, EraseSound, CommitSound DEF Step
<1>. QED  BY <1>1, <1>2 DEF Next, Idle

\* Every item is the only one of its wishlist and book, and both of them
\* exist, whatever handlers and book deletions overlap
\* (wishlist_service.py:39-46, book_service.py:209-217).
THEOREM ItemsAlwaysBelong == Spec => []ItemsBelong
<1>1. Sound => ItemsBelong
  BY DEF Sound
<1>. QED  BY <1>1, InitSound, NextSound, PTL DEF Spec

-----------------------------------------------------------------------------
(* Failures.                                                               *)

LEMMA InitFresh == Init => Fresh
  BY DEF Init, Fresh, UpToDate

\* A step of r that commits nothing leaves the others as up to date as they were.
LEMMA OthersFresh ==
  ASSUME Typed, Fresh, NEW r \in Requests, NEW x \in Requests \ {r}, pc'[x] = pc[x],
         task'[x] = task[x], doomed'[x] = doomed[x], UNCHANGED <<committed, overtaken>>
  PROVE  UpToDate(x)'
BY DEF Fresh, UpToDate, committed, Same, ItemsOf, Left, Book

LEMMA RollbackFresh ==
  ASSUME Typed, Fresh, NEW r \in Requests, NEW outcome \in Ended, Rollback(r, outcome),
         outcome = "failed" => r \in overtaken
  PROVE  Fresh'
<1>1. \A x \in Requests \ {r} : UpToDate(x)'
  BY OthersFresh DEF Rollback, End, Goto, Typed, TypeOK
<1>2. UpToDate(r)'
  BY DEF Rollback, End, Goto, Typed, TypeOK, UpToDate, Ended
<1>. QED  BY <1>1, <1>2 DEF Fresh

\* A step of r to another step, after which r has read nothing stale.
LEMMA MoveFresh ==
  ASSUME Typed, Fresh, NEW r \in Requests, NEW step, Goto(r, step),
         UNCHANGED <<committed, overtaken>>,
         \A x \in Requests \ {r} : task'[x] = task[x] /\ doomed'[x] = doomed[x], UpToDate(r)'
  PROVE  Fresh'
<1>1. \A x \in Requests \ {r} : UpToDate(x)'
  BY OthersFresh DEF Goto, Typed, TypeOK
<1>. QED  BY <1>1 DEF Fresh

\* Whoever is still running when another commits is overtaken from then on.
LEMMA CommitFresh ==
  ASSUME Typed, Fresh, NEW r \in Requests, Commit(r)
  PROVE  Fresh'
<1>1. pc'[r] = "ok" /\ \A x \in Requests \ {r} : pc'[x] = pc[x]
  BY DEF Typed, TypeOK, Commit, End, Goto
<1>2. \A x \in Requests \ {r} : pc[x] \notin {"new"} \cup Ended => x \in overtaken'
  BY DEF Commit, Running
<1>3. overtaken \subseteq overtaken'
  BY DEF Commit
<1>4. ASSUME NEW x \in Requests PROVE UpToDate(x)'
  <2>1. pc'[x] = "failed" => x # r /\ pc[x] = "failed"
    BY <1>1
  <2>2. pc'[x] = "failed" => x \in overtaken'
    BY <2>1, <1>3 DEF Fresh, UpToDate
  <2>3. pc'[x] \in {"fetch", "create", "lookup", "insert", "delete", "erase"} => x \in overtaken'
    BY <1>1, <1>2 DEF Ended
  <2>. QED  BY <2>2, <2>3 DEF UpToDate
<1>. QED  BY <1>4 DEF Fresh

LEMMA StepFresh ==
  ASSUME Typed, Typed', Fresh, NEW r \in Requests, Step(r)
  PROVE  Fresh'
<1>. UpToDate(r) /\ r \in Requests
  BY DEF Fresh
<1>1. CASE Receive(r)
  <2>1. PICK k \in Kinds : \E b \in Subjects(k) :
            /\ task' = [task EXCEPT ![r] = [kind |-> k, book |-> b]]
            /\ Goto(r, CASE k = "add" /\ b \notin live -> "refused"
                         [] k = "withdraw"             -> "select"
                         [] OTHER                      -> "fetch")
    BY <1>1 DEF Receive
  <2>2. UpToDate(r)'
    BY <1>1, <2>1 DEF Receive, Goto, UpToDate, Book, committed, Typed, TypeOK
  <2>3. \A x \in Requests \ {r} : task'[x] = task[x] /\ doomed'[x] = doomed[x]
    BY <1>1, <2>1 DEF Receive, Typed, TypeOK
  <2>. QED  BY <1>1, <2>1, <2>2, <2>3, MoveFresh DEF Receive
<1>2. CASE FetchList(r)
  <2>1. PICK step : Goto(r, step) /\ step \in {"create", "lookup", "select", "commit"}
                    /\ (step = "create" => list[Owner[r]] = Nil)
    BY <1>2 DEF FetchList, Continue
  <2>2. UpToDate(r)'
    BY <1>2, <2>1 DEF FetchList, Goto, UpToDate, Book, committed, Typed, TypeOK
  <2>. QED  BY <1>2, <2>1, <2>2, MoveFresh DEF FetchList
<1>3. CASE CreateList(r)
  <2>1. CASE Rollback(r, "failed")
    <3>1. CASE r \in overtaken
      BY <2>1, <3>1, RollbackFresh DEF Ended
    <3>2. CASE r \notin overtaken
      <4>1. list[Owner[r]] = Nil
        BY <1>3, <3>2 DEF CreateList, UpToDate
      <4>2. Continue(r)
        BY <1>3, <4>1 DEF CreateList
      <4>3. pc'[r] # "failed"
        BY <4>2 DEF Continue, Goto, Typed, TypeOK
      <4>4. pc'[r] = "failed"
        BY <2>1 DEF Rollback, End, Goto, Typed, TypeOK
      <4>. QED  BY <4>3, <4>4
    <3>. QED  BY <3>1, <3>2
  <2>2. CASE ~Rollback(r, "failed")
    <3>1. Continue(r) /\ UNCHANGED <<committed, task, inserted, doomed, overtaken>>
      BY <1>3, <2>2 DEF CreateList
    <3>2. PICK step : Goto(r, step) /\ step \in {"lookup", "select", "commit"}
      BY <3>1 DEF Continue
    <3>3. UpToDate(r)'
      BY <1>3, <3>1, <3>2 DEF CreateList, Goto, UpToDate, Book, committed, Typed, TypeOK
    <3>. QED  BY <3>1, <3>2, <3>3, MoveFresh
  <2>. QED  BY <2>1, <2>2
<1>4. CASE Lookup(r)
  <2>1. PICK step : Goto(r, step) /\ step \in {"insert", "commit"}
                    /\ (step = "insert" => Same(r) = {})
    BY <1>4 DEF Lookup, AfterLookup
  <2>2. UpToDate(r)'
    BY <1>4, <2>1 DEF Lookup, Goto, UpToDate, Book, Same, ItemsOf, committed, Typed, TypeOK
  <2>. QED  BY <1>4, <2>1, <2>2, MoveFresh DEF Lookup
<1>5. CASE Insert(r)
  <2>1. CASE MayInsert(r)
    <3>1. Goto(r, "commit") /\ UNCHANGED <<committed, task, created, doomed, overtaken>>
      BY <1>5, <2>1 DEF Insert
    <3>2. UpToDate(r)'
      BY <3>1 DEF Goto, UpToDate, Typed, TypeOK
    <3>. QED  BY <3>1, <3>2, MoveFresh
  <2>2. CASE ~MayInsert(r)
    <3>1. task[r].kind = "add" /\ Rollback(r, "failed")
      BY <1>5, <2>2 DEF Insert, Typed, Fits
    <3>2. r \in overtaken
      BY <1>5, <2>2, <3>1 DEF Insert, MayInsert, UpToDate
    <3>. QED  BY <3>1, <3>2, RollbackFresh DEF Ended
  <2>. QED  BY <2>1, <2>2
<1>6. CASE SelectItems(r)
  <2>1. pc[r] = "select" /\ task[r].kind \in {"remove", "clear", "withdraw"}
    BY <1>6 DEF SelectItems, Typed, Fits
  <2>2. CASE Rollback(r, "refused")
    BY <2>2, RollbackFresh DEF Ended
  <2>3. ASSUME NEW chosen, Select(r, chosen),
               task[r].kind = "withdraw" => chosen = {i \in items : i.book = Book(r)}
        PROVE  Fresh'
    <3>1. UpToDate(r)'
      BY <2>3 DEF Select, Goto, UpToDate, Book, Left, committed, Typed, TypeOK
    <3>2. \A x \in Requests \ {r} : task'[x] = task[x] /\ doomed'[x] = doomed[x]
      BY <2>3 DEF Select, Typed, TypeOK
    <3>. QED  BY <2>3, <3>1, <3>2, MoveFresh DEF Select
  <2>4. \/ Rollback(r, "refused")
        \/ \E chosen : /\ Select(r, chosen)
                       /\ task[r].kind = "withdraw" => chosen = {i \in items : i.book = Book(r)}
    BY <1>6, <2>1 DEF SelectItems
  <2>. QED  BY <2>2, <2>3, <2>4
<1>7. CASE Delete(r)
  <2>1. UpToDate(r)'
    BY <1>7 DEF Delete, Goto, UpToDate, Book, Left, committed, Typed, TypeOK
  <2>. QED  BY <1>7, <2>1, MoveFresh DEF Delete
<1>8. CASE Erase(r)
  <2>1. CASE Left(r) = {}
    <3>1. Goto(r, "commit") /\ UNCHANGED <<committed, task, created, inserted, doomed, overtaken>>
      BY <1>8, <2>1 DEF Erase
    <3>2. UpToDate(r)'
      BY <3>1 DEF Goto, UpToDate, Typed, TypeOK
    <3>. QED  BY <3>1, <3>2, MoveFresh
  <2>2. CASE Left(r) # {}
    <3>1. task[r].kind = "withdraw" /\ Rollback(r, "failed")
      BY <1>8, <2>2 DEF Erase, Typed, Fits
    <3>2. r \in overtaken
      BY <1>8, <2>2, <3>1 DEF Erase, UpToDate
    <3>. QED  BY <3>1, <3>2, RollbackFresh DEF Ended
  <2>. QED  BY <2>1, <2>2
<1>9. CASE Commit(r)
  BY <1>9, CommitFresh
<1>. QED  BY <1>1, <1>2, <1>3, <1>4, <1>5, <1>6, <1>7, <1>8, <1>9 DEF Step

LEMMA NextFresh == Typed /\ Typed' /\ Fresh /\ [Next]_vars => Fresh'
<1>1. CASE Idle \/ UNCHANGED vars
  BY <1>1 DEF Idle, vars, Fresh, UpToDate, Same, ItemsOf, Left, Book
<1>. QED  BY <1>1, StepFresh DEF Next

\* A request ends with a 500 only if another one has committed since it
\* began, an addition of a book that is already there included
\* (wishlist_service.py:40).
THEOREM OnlyTheOvertakenFail == Spec => []FailsOnlyWhenOvertaken
<1>1. Fresh => FailsOnlyWhenOvertaken
  BY DEF Fresh, UpToDate, FailsOnlyWhenOvertaken
<1>2. Init => Typed /\ Fresh
  BY InitTyped, InitFresh
<1>3. Typed /\ Fresh /\ [Next]_vars => (Typed /\ Fresh)'
  BY NextTyped, NextFresh
<1>. QED  BY <1>1, <1>2, <1>3, PTL DEF Spec
=============================================================================
