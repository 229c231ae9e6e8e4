--------------------------- MODULE BookStoreProofs ---------------------------
(***************************************************************************)
(* Machine-checked theorems about BookStore, for every set of books, users *)
(* and requests, every menu, and with or without faults: what its numbers  *)
(* range over, what its row locks protect, and that it keeps what Shop     *)
(* promises.                                                               *)
(***************************************************************************)
EXTENDS BookStore, FiniteSetTheorems, TLAPS

-----------------------------------------------------------------------------
(* The inductive invariant: every number the store keeps or a handler      *)
(* remembers lies in its range.  Stock levels are at least Floor wherever  *)
(* they are copied to: the row, the uncommitted version, Redis and the     *)
(* session; quantities are never negative, so that restocking only raises. *)

Stock == {n \in Int : n >= Floor}
RowT == [live : BOOLEAN, stock : Stock, price : Prices \cup {0}]
CartRowT == [id : CartIds \cup {Nil}, qty : Nat]
OrderT == [status : {"none", "placed", "cancelled"},
           qty : [Books -> Nat],
           price : [Books -> Prices \cup {0}]]
SessionT == [kind : Handlers \cup {"none"},
             route : Seq(Books),
             qty : [Books -> Nat],
             seen : [Books -> Stock],
             bill : [Books -> Prices \cup {0}],
             left : SUBSET Books,
             unsaved : SUBSET Books,
             doomed : SUBSET (Users \X Books \X CartIds),
             item : CartRowT,
             order : Requests \cup {Nil},
             level : Levels \cup {Keep},
             price : Prices \cup {Keep}]

\* What a step finds in the session: a cancellation its order, a publication
\* and a write to the cart the book they are about.
Ready(step, s) ==
    /\ step = "lines" => s.order \in Requests
    /\ step = "announce" => s.route # << >>
    /\ step = "mutate" /\ s.kind \in {"add", "setQuantity"} => s.route # << >>
    /\ step = "open" /\ s.kind = "add" => s.route # << >>
    /\ step = "fill" => s.route # << >>

Typed ==
    /\ row \in [Books -> RowT]
    /\ lock \in [Books -> Requests \cup {Nil}]
    /\ draft \in [Books -> RowT]
    /\ carts \subseteq Users \X CartIds
    /\ cart \in [Users -> [Books -> CartRowT]]
    /\ orders \in [Requests -> OrderT]
    /\ cache \in [Books -> Stock \cup {Nil}]
    /\ announced \in [Books -> Stock \cup {Nil, Gone}]
    /\ unused \subseteq Books
    /\ tainted \subseteq Books /\ misled \subseteq Books
    /\ pc \in [Requests -> Steps]
    /\ session \in [Requests -> SessionT]
    /\ \A r \in Requests : Ready(pc[r], session[r])

\* Every step but those five, which need what Ready says.
PlainSteps == Steps \ {"lines", "announce", "open", "fill", "mutate"}

LEMMA FloorIsStock == 0 \in Stock /\ Levels \subseteq Stock /\ Nat \subseteq Stock
  BY LevelsAssumption DEF Stock

LEMMA BlankTyped == Blank \in SessionT
<1>1. Zero \in [Books -> Nat] /\ Zero \in [Books -> Stock] /\ Zero \in [Books -> Prices \cup {0}]
  BY FloorIsStock DEF Zero
<1>2. NoCartRow \in CartRowT
  BY DEF NoCartRow, CartRowT
<1>. QED  BY <1>1, <1>2 DEF Blank, SessionT, Handlers

LEMMA InitTyped == Init => Typed
<1>. SUFFICES ASSUME Init PROVE Typed
  OBVIOUS
<1>. USE DEF Init, Typed
<1>1. row \in [Books -> RowT]
  BY InitAssumption, FloorIsStock DEF RowT, NoBook
<1>2. draft \in [Books -> RowT]
  BY <1>1
<1>3. cart \in [Users -> [Books -> CartRowT]]
  BY InitAssumption DEF CartRowT, NoCartRow, CartIds
<1>4. orders \in [Requests -> OrderT]
  BY DEF NoOrder, OrderT
<1>5. session \in [Requests -> SessionT]
  BY BlankTyped
<1>6. pc \in [Requests -> Steps]
  BY DEF Steps
<1>7. \A r \in Requests : Ready(pc[r], session[r])
  BY DEF Ready
<1>8. carts \subseteq Users \X CartIds
  BY DEF CartIds
<1>. QED  BY <1>1, <1>2, <1>3, <1>4, <1>5, <1>6, <1>7, <1>8

-----------------------------------------------------------------------------
(* What the building blocks of the actions preserve.                       *)

\* A request whose handler moves on keeps the sessions and steps in range.
LEMMA GotoTyped ==
  ASSUME Typed, NEW r \in Requests, NEW step \in Steps, NEW s \in SessionT, Goto(r, step, s),
         Ready(step, s)
  PROVE  /\ pc' \in [Requests -> Steps] /\ session' \in [Requests -> SessionT]
         /\ \A x \in Requests : Ready(pc[x], session[x])'
  BY DEF Goto, Typed

LEMMA PlainStepReady ==
  ASSUME NEW step \in PlainSteps, NEW s
  PROVE  step \in Steps /\ Ready(step, s)
  BY DEF PlainSteps, Ready

\* A step that only moves the handler on.
LEMMA ReadyStepTyped ==
  ASSUME Typed, NEW r \in Requests, NEW step \in Steps, NEW s \in SessionT,
         Goto(r, step, s), Private, Ready(step, s)
  PROVE  Typed'
<1>1. /\ pc' \in [Requests -> Steps] /\ session' \in [Requests -> SessionT]
      /\ \A x \in Requests : Ready(pc[x], session[x])'
  BY GotoTyped
<1>. QED  BY <1>1 DEF Private, stored, published, history, Typed

LEMMA PrivateTyped ==
  ASSUME Typed, NEW r \in Requests, NEW step \in PlainSteps, NEW s \in SessionT,
         Goto(r, step, s), Private
  PROVE  Typed'
  BY PlainStepReady, ReadyStepTyped

\* A rolled-back request.
LEMMA RollbackTyped ==
  ASSUME Typed, NEW r \in Requests, NEW outcome \in Finished, Rollback(r, outcome)
  PROVE  Typed'
<1>1. outcome \in Steps /\ Ready(outcome, Blank)
  BY DEF Finished, Steps, Ready
<1>2. /\ pc' \in [Requests -> Steps] /\ session' \in [Requests -> SessionT]
      /\ \A x \in Requests : Ready(pc[x], session[x])'
  BY <1>1, GotoTyped, BlankTyped DEF Rollback, Finish
<1>3. lock' \in [Books -> Requests \cup {Nil}]
  BY DEF Rollback, Unlocked, Typed
<1>4. draft' \in [Books -> RowT]
  BY DEF Rollback, Typed
<1>5. misled' \subseteq Books
  BY DEF Rollback, Told, Typed
<1>. QED  BY <1>2, <1>3, <1>4, <1>5 DEF Rollback, stored, published, Typed

\* A row version written under the lock.
LEMMA WriteTyped ==
  ASSUME Typed, NEW r \in Requests, NEW b \in Books, NEW v \in RowT, Write(r, b, v)
  PROVE  lock' \in [Books -> Requests \cup {Nil}] /\ draft' \in [Books -> RowT]
  BY DEF Write, Typed

\* A handler that writes a row version and moves on.
LEMMA WriteStepTyped ==
  ASSUME Typed, NEW r \in Requests, NEW b \in Books, NEW v \in RowT, Write(r, b, v),
         NEW step \in PlainSteps, NEW s \in SessionT, Goto(r, step, s),
         UNCHANGED <<stored, published>>, unused' \subseteq Books,
         tainted' \subseteq Books, misled' \subseteq Books
  PROVE  Typed'
<1>1. /\ pc' \in [Requests -> Steps] /\ session' \in [Requests -> SessionT]
      /\ \A x \in Requests : Ready(pc[x], session[x])'
  BY PlainStepReady, GotoTyped
<1>2. lock' \in [Books -> Requests \cup {Nil}] /\ draft' \in [Books -> RowT]
  BY WriteTyped
<1>. QED  BY <1>1, <1>2 DEF stored, published, Typed

-----------------------------------------------------------------------------
(* OrderService.                                                           *)

LEMMA RoutesTyped ==
  ASSUME NEW S \in SUBSET Books, NEW route \in Routes(S)
  PROVE  route \in Seq(Books)
<1>1. Cardinality(S) \in Nat
  BY BooksAssumption, FS_Subset, FS_CardinalityType
<1>2. route \in [1..Cardinality(S) -> S]
  BY DEF Routes, SetToSeqs
<1>. QED  BY <1>1, <1>2

LEMMA StockOfTyped ==
  ASSUME Typed, NEW S \in SUBSET Books
  PROVE  StockOf(S) \in [Books -> Stock]
  BY FloorIsStock DEF StockOf, Typed, RowT

LEMMA PriceOfTyped ==
  ASSUME Typed, NEW S \in SUBSET Books
  PROVE  PriceOf(S) \in [Books -> Prices \cup {0}]
  BY DEF PriceOf, Typed, RowT

LEMMA LoadCartTyped ==
  ASSUME Typed, NEW r \in Requests, LoadCart(r)
  PROVE  Typed'
<1>. DEFINE basket == InCart(Buyer[r])
            loaded(route) == [Blank EXCEPT !.kind = "checkout", !.route = route,
                                   !.qty = [b \in Books |-> cart[Buyer[r]][b].qty],
                                   !.seen = StockOf(basket),
                                   !.bill = PriceOf(basket),
                                   !.left = basket]
<1>1. CASE Rollback(r, "refused")
  BY <1>1, RollbackTyped DEF Finished
<1>2. CASE \E route \in Routes(basket) : Goto(r, "reserve", loaded(route)) /\ Private
  <2>1. PICK route \in Routes(basket) : Goto(r, "reserve", loaded(route)) /\ Private
    BY <1>2
  <2>2. basket \in SUBSET Books
    BY DEF InCart
  <2>3. [b \in Books |-> cart[Buyer[r]][b].qty] \in [Books -> Nat]
    BY RequestsAssumption DEF Typed, CartRowT
  <2>4. /\ route \in Seq(Books)
        /\ StockOf(basket) \in [Books -> Stock]
        /\ PriceOf(basket) \in [Books -> Prices \cup {0}]
    BY <2>2, RoutesTyped, StockOfTyped, PriceOfTyped
  <2>5. loaded(route) \in SessionT
    BY <2>2, <2>3, <2>4, BlankTyped DEF SessionT, Handlers
  <2>. QED  BY <2>1, <2>5, PrivateTyped DEF PlainSteps, Steps
<1>. QED  BY <1>1, <1>2 DEF LoadCart

LEMMA ReserveTyped ==
  ASSUME Typed, NEW r \in Requests, NEW b \in Books,
         session[r].route # << >>, b = Head(session[r].route),
         EnoughStock(session[r].seen[b], session[r].qty[b]), Reserve(r, b)
  PROVE  Typed'
<1>. DEFINE s == session[r]
            stock == StockAfterSale(s.seen[b], s.qty[b])
            t == [s EXCEPT !.route = Tail(s.route), !.seen[b] = stock, !.bill[b] = UnitPrice(r, b)]
<1>1. s \in SessionT /\ row[b] \in RowT
  BY DEF Typed
<1>2. stock \in Stock
  BY <1>1, LevelsAssumption DEF SessionT, EnoughStock, StockAfterSale, Stock
<1>3. [row[b] EXCEPT !.stock = stock] \in RowT
  BY <1>1, <1>2 DEF RowT
<1>4. Tail(s.route) \in Seq(Books)
  BY <1>1 DEF SessionT
<1>5. UnitPrice(r, b) \in Prices \cup {0}
  BY <1>1 DEF UnitPrice, RowT
<1>6. t \in SessionT
  BY <1>1, <1>2, <1>4, <1>5 DEF SessionT
<1>7. tainted' \subseteq Books /\ misled' \subseteq Books
  BY DEF Reserve, NoteStale, Typed
<1>8. unused' \subseteq Books
  BY DEF Reserve, Typed
<1>. QED  BY <1>3, <1>6, <1>7, <1>8, WriteStepTyped DEF Reserve, PlainSteps, Steps

LEMMA HeadTyped ==
  ASSUME Typed, NEW r \in Requests, session[r].route # << >>
  PROVE  Head(session[r].route) \in Books
<1>1. session[r].route \in Seq(Books)
  BY DEF Typed, SessionT
<1>. QED  BY <1>1

LEMMA ReserveItemTyped ==
  ASSUME Typed, NEW r \in Requests, ReserveItem(r)
  PROVE  Typed'
<1>. DEFINE b == Head(session[r].route)
<1>1. b \in Books /\ session[r].route # << >>
  BY HeadTyped DEF ReserveItem
<1>2. CASE Rollback(r, "refused")
  BY <1>2, RollbackTyped DEF Finished
<1>3. CASE EnoughStock(session[r].seen[b], session[r].qty[b]) /\ Reserve(r, b)
  BY <1>1, <1>3, ReserveTyped
<1>. QED  BY <1>2, <1>3 DEF ReserveItem

LEMMA CartItemsTyped ==
  ASSUME Typed, NEW u \in Users
  PROVE  CartItems(u) \subseteq Users \X Books \X CartIds
<1>1. SUFFICES ASSUME NEW b \in InCart(u)
               PROVE  b \in Books /\ cart[u][b].id \in CartIds
  BY DEF CartItems
<1>2. b \in Books /\ cart[u][b].id # Nil
  BY DEF InCart
<1>3. cart[u][b] \in CartRowT
  BY <1>2 DEF Typed
<1>. QED  BY <1>2, <1>3 DEF CartRowT

LEMMA PlaceOrderTyped ==
  ASSUME Typed, NEW r \in Requests, PlaceOrder(r)
  PROVE  Typed'
<1>. DEFINE t == [session[r] EXCEPT !.doomed = ItemsToClear(r)]
<1>1. ItemsToClear(r) \in SUBSET (Users \X Books \X CartIds)
  BY RequestsAssumption, CartItemsTyped DEF ItemsToClear
<1>2. session[r] \in SessionT
  BY DEF Typed
<1>3. t \in SessionT
  BY <1>1, <1>2 DEF SessionT
<1>. QED  BY <1>3, PrivateTyped DEF PlaceOrder, PlainSteps, Steps

\* The steps that leave the session as it is.
LEMMA MoveOnTyped ==
  ASSUME Typed, NEW r \in Requests, NEW step \in PlainSteps, Goto(r, step, session[r]), Private
  PROVE  Typed'
<1>1. session[r] \in SessionT
  BY DEF Typed
<1>. QED  BY <1>1, PrivateTyped

LEMMA LoadOrderTyped ==
  ASSUME Typed, NEW r \in Requests, LoadOrder(r)
  PROVE  Typed'
<1>1. CASE Rollback(r, "refused")
  BY <1>1, RollbackTyped DEF Finished
<1>2. ASSUME NEW o \in Requests,
             Goto(r, "lines", [Blank EXCEPT !.kind = "cancel", !.order = o]), Private
      PROVE  Typed'
  <2>1. /\ [Blank EXCEPT !.kind = "cancel", !.order = o] \in SessionT
        /\ [Blank EXCEPT !.kind = "cancel", !.order = o].order \in Requests
    BY BlankTyped DEF SessionT, Handlers
  <2>. QED  BY <1>2, <2>1, ReadyStepTyped DEF Ready, Steps
<1>. QED  BY <1>1, <1>2 DEF LoadOrder

LEMMA LoadLinesTyped ==
  ASSUME Typed, NEW r \in Requests, LoadLines(r)
  PROVE  Typed'
<1>. DEFINE s == session[r]
            books == Ordered(s.order)
            loaded(route) == [s EXCEPT !.route = route, !.qty = orders[s.order].qty,
                                       !.seen = StockOf(books), !.left = books]
<1>1. s \in SessionT /\ s.order \in Requests
  BY DEF Typed, Ready, LoadLines
<1>6. orders[s.order].qty \in [Books -> Nat]
  BY <1>1 DEF Typed, OrderT
<1>2. books \in SUBSET Books
  BY DEF Ordered
<1>3. PICK route \in Routes(books) : Goto(r, "restock", loaded(route))
  BY DEF LoadLines
<1>4. route \in Seq(Books) /\ StockOf(books) \in [Books -> Stock]
  BY <1>2, RoutesTyped, StockOfTyped
<1>5. loaded(route) \in SessionT
  BY <1>1, <1>2, <1>4, <1>6 DEF SessionT
<1>. QED  BY <1>3, <1>5, PrivateTyped DEF LoadLines, PlainSteps, Steps

LEMMA RestockItemTyped ==
  ASSUME Typed, NEW r \in Requests, RestockItem(r)
  PROVE  Typed'
<1>. DEFINE s == session[r]
            b == Head(s.route)
            stock == StockAfterRestock(s.seen[b], s.qty[b])
            done == [s EXCEPT !.route = Tail(s.route), !.seen[b] = stock]
            skipped == [s EXCEPT !.route = Tail(s.route), !.left = @ \ {b}]
<1>1. b \in Books
  BY HeadTyped DEF RestockItem
<1>2. s \in SessionT /\ row[b] \in RowT
  BY <1>1 DEF Typed
<1>3. stock \in Stock
  BY <1>1, <1>2, LevelsAssumption DEF SessionT, StockAfterRestock, Stock
<1>4. Tail(s.route) \in Seq(Books)
  BY <1>2 DEF SessionT, RestockItem
<1>5. done \in SessionT
  BY <1>1, <1>2, <1>3, <1>4 DEF SessionT
<1>6. skipped \in SessionT
  BY <1>2, <1>4 DEF SessionT
<1>7. CASE row[b].live
  <2>1. [row[b] EXCEPT !.stock = stock] \in RowT
    BY <1>2, <1>3 DEF RowT
  <2>2. /\ Write(r, b, [row[b] EXCEPT !.stock = stock])
        /\ NoteStale(b, s.seen[b])
        /\ Goto(r, "restock", done)
        /\ UNCHANGED <<stored, published, unused>>
    BY <1>7 DEF RestockItem
  <2>3. tainted' \subseteq Books /\ misled' \subseteq Books
    BY <1>1, <2>2 DEF NoteStale, Typed
  <2>4. unused' \subseteq Books
    BY <2>2 DEF Typed
  <2>. QED  BY <1>1, <1>5, <2>1, <2>2, <2>3, <2>4, WriteStepTyped DEF PlainSteps, Steps
<1>8. CASE ~row[b].live
  <2>1. Goto(r, "restock", skipped) /\ Private
    BY <1>8 DEF RestockItem
  <2>. QED  BY <1>6, <2>1, PrivateTyped DEF PlainSteps, Steps
<1>. QED  BY <1>7, <1>8

LEMMA OrderNextTyped ==
  ASSUME Typed, NEW r \in Requests, OrderNext(r)
  PROVE  Typed'
<1>1. CASE ClearItems(r)
  BY <1>1, MoveOnTyped DEF ClearItems, PlainSteps, Steps
<1>2. CASE UpdateOrder(r)
  BY <1>2, MoveOnTyped DEF UpdateOrder, PlainSteps, Steps
<1>. QED  BY <1>1, <1>2, LoadCartTyped, ReserveItemTyped, PlaceOrderTyped, LoadOrderTyped,
             LoadLinesTyped, RestockItemTyped DEF OrderNext

-----------------------------------------------------------------------------
(* BookService.                                                            *)

LEMMA ReadBooksTyped ==
  ASSUME Typed, NEW r \in Requests, ReadBooks(r)
  PROVE  Typed'
<1>. DEFINE seen(page) == [b \in Books |-> IF b \in page THEN row[b].stock ELSE 0]
            loaded(page) == [Blank EXCEPT !.kind = "read", !.left = page, !.seen = seen(page)]
<1>1. CASE Rollback(r, "refused")
  BY <1>1, RollbackTyped DEF Finished
<1>2. ASSUME NEW page \in SUBSET Live \ {{}}, Goto(r, "hydrate", loaded(page)), Private
      PROVE  Typed'
  <2>1. page \in SUBSET Books
    BY DEF Live
  <2>2. seen(page) \in [Books -> Stock]
    BY FloorIsStock DEF Typed, RowT
  <2>3. loaded(page) \in SessionT
    BY <2>1, <2>2, BlankTyped DEF SessionT, Handlers
  <2>. QED  BY <1>2, <2>3, PrivateTyped DEF PlainSteps, Steps
<1>. QED  BY <1>1, <1>2 DEF ReadBooks

LEMMA HydrateTyped ==
  ASSUME Typed, NEW r \in Requests, Hydrate(r)
  PROVE  Typed'
<1>. DEFINE s == session[r]
            hit(b) == [s EXCEPT !.left = @ \ {b}, !.seen[b] = cache[b], !.unsaved = @ \cup {b}]
<1>1. s \in SessionT
  BY DEF Typed
<1>2. ASSUME NEW b \in s.left, cache[b] \notin {Nil, s.seen[b]}, Goto(r, "hydrate", hit(b))
      PROVE  Typed'
  <2>1. b \in Books
    BY <1>1 DEF SessionT
  <2>2. cache[b] \in Stock
    BY <1>2, <2>1 DEF Typed
  <2>3. hit(b) \in SessionT
    BY <1>1, <2>1, <2>2 DEF SessionT
  <2>. QED  BY <1>2, <2>3, PrivateTyped DEF Hydrate, PlainSteps, Steps
<1>3. ASSUME NEW b \in s.left, Goto(r, "hydrate", [s EXCEPT !.left = @ \ {b}])
      PROVE  Typed'
  <2>1. [s EXCEPT !.left = @ \ {b}] \in SessionT
    BY <1>1 DEF SessionT
  <2>. QED  BY <1>3, <2>1, PrivateTyped DEF Hydrate, PlainSteps, Steps
<1>4. CASE Goto(r, "flush", [s EXCEPT !.left = s.unsaved])
  <2>1. [s EXCEPT !.left = s.unsaved] \in SessionT
    BY <1>1 DEF SessionT
  <2>. QED  BY <1>4, <2>1, PrivateTyped DEF Hydrate, PlainSteps, Steps
<1>. QED  BY <1>2, <1>3, <1>4 DEF Hydrate

LEMMA FlushBookTyped ==
  ASSUME Typed, NEW r \in Requests, FlushBook(r)
  PROVE  Typed'
<1>. DEFINE s == session[r]
<1>1. s \in SessionT
  BY DEF Typed
<1>2. CASE Rollback(r, "failed")
  BY <1>2, RollbackTyped DEF Finished
<1>3. ASSUME NEW b \in s.left,
             Write(r, b, [row[b] EXCEPT !.stock = s.seen[b]]),
             tainted' = tainted \cup {b},
             misled' = misled \cup {b},
             Goto(r, "flush", [s EXCEPT !.left = @ \ {b}]),
             UNCHANGED <<stored, published, unused>>
      PROVE  Typed'
  <2>1. b \in Books
    BY <1>1 DEF SessionT
  <2>2. s.seen[b] \in Stock
    BY <1>1, <2>1 DEF SessionT
  <2>3. row[b] \in RowT
    BY <2>1 DEF Typed
  <2>4. [row[b] EXCEPT !.stock = s.seen[b]] \in RowT
    BY <2>2, <2>3 DEF RowT
  <2>5. [s EXCEPT !.left = @ \ {b}] \in SessionT
    BY <1>1 DEF SessionT
  <2>6. tainted' \subseteq Books /\ unused' \subseteq Books /\ misled' \subseteq Books
    BY <1>3, <2>1 DEF Typed
  <2>. QED  BY <1>3, <2>1, <2>4, <2>5, <2>6, WriteStepTyped DEF PlainSteps, Steps
<1>4. ASSUME NEW b \in s.left, Goto(r, "flush", [s EXCEPT !.left = @ \ {b}]), Private
      PROVE  Typed'
  <2>1. [s EXCEPT !.left = @ \ {b}] \in SessionT
    BY <1>1 DEF SessionT
  <2>. QED  BY <1>4, <2>1, PrivateTyped DEF PlainSteps, Steps
<1>. QED  BY <1>2, <1>3, <1>4 DEF FlushBook

LEMMA InsertBookTyped ==
  ASSUME Typed, NEW r \in Requests, InsertBook(r)
  PROVE  Typed'
<1>1. PICK b \in unused, level \in Levels, price \in Prices :
         /\ unused' = unused \ {b}
         /\ Write(r, b, [live |-> TRUE, stock |-> level, price |-> price])
         /\ tainted' = tainted \cup {b}
         /\ Goto(r, "cache", [Blank EXCEPT !.kind = "create", !.left = {b}, !.seen[b] = level])
  BY DEF InsertBook
<1>2. b \in Books /\ level \in Stock
  BY FloorIsStock DEF Typed
<1>3. [live |-> TRUE, stock |-> level, price |-> price] \in RowT
  BY <1>2 DEF RowT
<1>4. [Blank EXCEPT !.kind = "create", !.left = {b}, !.seen[b] = level] \in SessionT
  BY <1>2, BlankTyped DEF SessionT, Handlers
<1>5. tainted' \subseteq Books /\ unused' \subseteq Books /\ misled' \subseteq Books
  BY <1>1, <1>2 DEF InsertBook, Typed
<1>. QED  BY <1>1, <1>2, <1>3, <1>4, <1>5, WriteStepTyped DEF InsertBook, PlainSteps, Steps

LEMMA LoadBookTyped ==
  ASSUME Typed, NEW r \in Requests, LoadBook(r)
  PROVE  Typed'
<1>. DEFINE loaded(b, level, price) ==
              [Blank EXCEPT !.kind = "patch", !.left = {b}, !.seen[b] = row[b].stock,
                            !.bill[b] = row[b].price, !.level = level, !.price = price]
<1>1. CASE Rollback(r, "refused")
  BY <1>1, RollbackTyped DEF Finished
<1>2. ASSUME NEW b \in Books, NEW level \in Levels \cup {Keep}, NEW price \in Prices \cup {Keep},
             Goto(r, "patch", loaded(b, level, price)), Private
      PROVE  Typed'
  <2>1. row[b] \in RowT
    BY DEF Typed
  <2>2. loaded(b, level, price) \in SessionT
    BY <2>1, BlankTyped DEF SessionT, RowT, Handlers
  <2>. QED  BY <1>2, <2>2, PrivateTyped DEF PlainSteps, Steps
<1>. QED  BY <1>1, <1>2 DEF LoadBook

LEMMA PatchBookTyped ==
  ASSUME Typed, NEW r \in Requests, PatchBook(r)
  PROVE  Typed'
<1>. DEFINE s == session[r]
<1>1. s \in SessionT
  BY DEF Typed
<1>2. PICK b \in s.left :
         \/ UpdateColumns(r, b)
         \/ Goto(r, "cache", s) /\ Private
         \/ Goto(r, "cache", [s EXCEPT !.seen[b] = row[b].stock]) /\ Private
         \/ Rollback(r, "failed")
  BY DEF PatchBook
<1>3. b \in Books
  BY <1>1 DEF SessionT
<1>4. row[b] \in RowT
  BY <1>3 DEF Typed
<1>5. CASE Rollback(r, "failed")
  BY <1>5, RollbackTyped DEF Finished
<1>6. CASE Goto(r, "cache", s) /\ Private
  BY <1>6, MoveOnTyped DEF PlainSteps, Steps
<1>7. CASE Goto(r, "cache", [s EXCEPT !.seen[b] = row[b].stock]) /\ Private
  <2>1. [s EXCEPT !.seen[b] = row[b].stock] \in SessionT
    BY <1>1, <1>3, <1>4 DEF SessionT, RowT
  <2>. QED  BY <1>7, <2>1, PrivateTyped DEF PlainSteps, Steps
<1>8. ASSUME Write(r, b, Patched(s, b)),
             tainted' = IF NewLevel(s, b) THEN tainted \cup {b} ELSE tainted,
             Goto(r, "cache", [s EXCEPT !.seen[b] = Patched(s, b).stock]),
             UNCHANGED <<stored, published, unused, misled>>
      PROVE  Typed'
  <2>1. NewLevel(s, b) => s.level \in Stock
    BY <1>1, FloorIsStock DEF NewLevel, SessionT
  <2>2. NewPrice(s, b) => s.price \in Prices
    BY <1>1 DEF NewPrice, SessionT
  <2>3. Patched(s, b) \in RowT
    BY <1>4, <2>1, <2>2 DEF Patched, RowT
  <2>4. Patched(s, b).stock \in Stock
    BY <2>3 DEF RowT
  <2>5. [s EXCEPT !.seen[b] = Patched(s, b).stock] \in SessionT
    BY <1>1, <1>3, <2>4 DEF SessionT
  <2>6. tainted' \subseteq Books /\ unused' \subseteq Books /\ misled' \subseteq Books
    BY <1>3, <1>8 DEF Typed
  <2>. QED  BY <1>3, <1>8, <2>3, <2>5, <2>6, WriteStepTyped DEF PlainSteps, Steps
<1>. QED  BY <1>2, <1>5, <1>6, <1>7, <1>8 DEF UpdateColumns

LEMMA ItemsOfTyped ==
  ASSUME Typed, NEW b \in Books
  PROVE  ItemsOf(b) \in SUBSET (Users \X Books \X CartIds)
<1>1. SUFFICES ASSUME NEW u \in Users, b \in InCart(u)
               PROVE  cart[u][b].id \in CartIds
  BY DEF ItemsOf
<1>2. cart[u][b] \in CartRowT /\ cart[u][b].id # Nil
  BY <1>1 DEF InCart, Typed
<1>. QED  BY <1>2 DEF CartRowT

LEMMA LoadDependantsTyped ==
  ASSUME Typed, NEW r \in Requests, LoadDependants(r)
  PROVE  Typed'
<1>. DEFINE loaded(b) == [Blank EXCEPT !.kind = "delete", !.left = {b}, !.doomed = ItemsOf(b)]
<1>1. CASE Rollback(r, "refused")
  BY <1>1, RollbackTyped DEF Finished
<1>2. ASSUME NEW b \in Books, Goto(r, "unlink", loaded(b)), Private
      PROVE  Typed'
  <2>1. loaded(b) \in SessionT
    BY BlankTyped, ItemsOfTyped DEF SessionT, Handlers
  <2>. QED  BY <1>2, <2>1, PrivateTyped DEF PlainSteps, Steps
<1>. QED  BY <1>1, <1>2 DEF LoadDependants

LEMMA UnlinkItemsTyped ==
  ASSUME Typed, NEW r \in Requests, UnlinkItems(r)
  PROVE  Typed'
<1>1. CASE Rollback(r, "failed")
  BY <1>1, RollbackTyped DEF Finished
<1>2. CASE Goto(r, "erase", session[r]) /\ Private
  BY <1>2, MoveOnTyped DEF PlainSteps, Steps
<1>. QED  BY <1>1, <1>2 DEF UnlinkItems

LEMMA EraseBookTyped ==
  ASSUME Typed, NEW r \in Requests, EraseBook(r)
  PROVE  Typed'
<1>1. session[r] \in SessionT
  BY DEF Typed
<1>2. PICK b \in session[r].left :
         \/ Rollback(r, "failed")
         \/ /\ Write(r, b, NoBook) /\ Goto(r, "cache", session[r])
            /\ UNCHANGED <<stored, published, unused, history>>
         \/ Goto(r, "cache", session[r]) /\ Private
  BY DEF EraseBook
<1>3. CASE Rollback(r, "failed")
  BY <1>3, RollbackTyped DEF Finished
<1>4. CASE Goto(r, "cache", session[r]) /\ Private
  BY <1>4, MoveOnTyped DEF PlainSteps, Steps
<1>5. ASSUME Write(r, b, NoBook), Goto(r, "cache", session[r]),
             UNCHANGED <<stored, published, unused, history>>
      PROVE  Typed'
  <2>1. NoBook \in RowT
    BY FloorIsStock DEF NoBook, RowT
  <2>2. b \in Books
    BY <1>1 DEF SessionT
  <2>3. tainted' \subseteq Books /\ unused' \subseteq Books /\ misled' \subseteq Books
    BY <1>5 DEF history, Typed
  <2>. QED  BY <1>1, <1>5, <2>1, <2>2, <2>3, WriteStepTyped DEF PlainSteps, Steps
<1>. QED  BY <1>2, <1>3, <1>4, <1>5

LEMMA BookNextTyped ==
  ASSUME Typed, NEW r \in Requests, BookNext(r)
  PROVE  Typed'
  BY ReadBooksTyped, HydrateTyped, FlushBookTyped, InsertBookTyped, LoadBookTyped,
     PatchBookTyped, LoadDependantsTyped, UnlinkItemsTyped, EraseBookTyped DEF BookNext

-----------------------------------------------------------------------------
(* CartService.                                                            *)

\* What the three committing write steps of the cart handlers have in common.
LEMMA CartWriteTyped ==
  ASSUME Typed, NEW r \in Requests, carts' \subseteq Users \X CartIds,
         cart' \in [Users -> [Books -> CartRowT]], Finish(r, "ok"),
         UNCHANGED <<row, orders, lock, draft, published, unused, history>>
  PROVE  Typed'
<1>1. /\ pc' \in [Requests -> Steps] /\ session' \in [Requests -> SessionT]
      /\ \A x \in Requests : Ready(pc[x], session[x])'
  BY GotoTyped, BlankTyped DEF Finish, Ready, Steps, Finished
<1>. QED  BY <1>1 DEF published, history, Typed

LEMMA NewCartTyped ==
  ASSUME Typed, NEW r \in Requests
  PROVE  carts \cup {<<Buyer[r], r>>} \subseteq Users \X CartIds
  BY RequestsAssumption DEF Typed, CartIds

LEMMA SaveItemTyped ==
  ASSUME Typed, NEW r \in Requests, NEW b \in Books, NEW item \in CartRowT, SaveItem(r, b, item)
  PROVE  Typed'
<1>1. cart' \in [Users -> [Books -> CartRowT]]
  BY RequestsAssumption DEF SaveItem, Typed
<1>2. carts' \subseteq Users \X CartIds
  BY NewCartTyped DEF SaveItem, CartsWith, Typed
<1>. QED  BY <1>1, <1>2, CartWriteTyped DEF SaveItem

LEMMA ReadItemTyped ==
  ASSUME Typed, NEW r \in Requests, NEW step \in {"open", "mutate"}, NEW kind \in Handlers,
         NEW b \in Books, NEW quantity \in Quantities, quantity >= 1,
         ReadItem(r, step, kind, b, quantity), Private
  PROVE  Typed'
<1>. DEFINE t == [Blank EXCEPT !.kind = kind, !.route = <<b>>, !.qty[b] = quantity,
                               !.item = cart[Buyer[r]][b]]
<1>1. quantity \in Nat
  BY QuantitiesAssumption
<1>2. cart[Buyer[r]][b] \in CartRowT
  BY RequestsAssumption DEF Typed
<1>3. <<b>> \in Seq(Books)
  OBVIOUS
<1>4. t \in SessionT /\ t.route # << >>
  BY <1>1, <1>2, <1>3, BlankTyped DEF SessionT
<1>. QED  BY <1>4, ReadyStepTyped DEF ReadItem, Ready, Steps

LEMMA EnterTyped ==
  ASSUME Typed, NEW r \in Requests, NEW kind \in Handlers \ {"add"}, Enter(r, kind), Private
  PROVE  Typed'
<1>. DEFINE t == [Blank EXCEPT !.kind = kind]
<1>1. t \in SessionT /\ t.kind # "add"
  BY BlankTyped DEF SessionT
<1>. QED  BY <1>1, ReadyStepTyped DEF Enter, Ready, Steps

LEMMA ViewCartTyped ==
  ASSUME Typed, NEW r \in Requests, ViewCart(r)
  PROVE  Typed'
<1>1. CASE Rollback(r, "ok")
  BY <1>1, RollbackTyped DEF Finished
<1>2. CASE Enter(r, "view") /\ Private
  BY <1>2, EnterTyped DEF Handlers
<1>. QED  BY <1>1, <1>2 DEF ViewCart

LEMMA CreateCartTyped ==
  ASSUME Typed, NEW r \in Requests, CreateCart(r)
  PROVE  Typed'
<1>. DEFINE s == session[r]
<1>1. CASE Rollback(r, "failed") \/ Rollback(r, "refused")
  BY <1>1, RollbackTyped DEF Finished
<1>2. CASE s.kind = "add" /\ Goto(r, "fill", s) /\ Private
  <2>1. s \in SessionT /\ s.route # << >>
    BY <1>2 DEF Typed, Ready, CreateCart
  <2>. QED  BY <1>2, <2>1, ReadyStepTyped DEF Ready, Steps
<1>3. CASE /\ carts' = carts \cup {<<Buyer[r], r>>}
           /\ Finish(r, "ok")
           /\ UNCHANGED <<row, cart, orders, lock, draft, published, unused, history>>
  <2>1. cart' \in [Users -> [Books -> CartRowT]]
    BY <1>3 DEF Typed
  <2>. QED  BY <1>3, <2>1, NewCartTyped, CartWriteTyped
<1>. QED  BY <1>1, <1>2, <1>3 DEF CreateCart

LEMMA LoadForAddTyped ==
  ASSUME Typed, NEW r \in Requests, LoadForAdd(r)
  PROVE  Typed'
<1>1. CASE Rollback(r, "refused")
  BY <1>1, RollbackTyped DEF Finished
<1>2. ASSUME NEW b \in Books, NEW quantity \in Quantities, quantity >= 1,
             NEW step \in {"open", "mutate"}, ReadItem(r, step, "add", b, quantity), Private
      PROVE  Typed'
  BY <1>2, ReadItemTyped DEF Handlers
<1>. QED  BY <1>1, <1>2 DEF LoadForAdd

LEMMA LoadForSetTyped ==
  ASSUME Typed, NEW r \in Requests, LoadForSet(r)
  PROVE  Typed'
<1>1. CASE Rollback(r, "refused")
  BY <1>1, RollbackTyped DEF Finished
<1>2. ASSUME NEW b \in Books, NEW quantity \in Quantities, quantity >= 1,
             ReadItem(r, "mutate", "setQuantity", b, quantity), Private
      PROVE  Typed'
  BY <1>2, ReadItemTyped DEF Handlers
<1>3. CASE Enter(r, "setQuantity") /\ Private
  BY <1>3, EnterTyped DEF Handlers
<1>. QED  BY <1>1, <1>2, <1>3 DEF LoadForSet

LEMMA InsertItemTyped ==
  ASSUME Typed, NEW r \in Requests, InsertItem(r)
  PROVE  Typed'
<1>. DEFINE b == Head(session[r].route)
            item == [id |-> r, qty |-> session[r].qty[b]]
<1>1. b \in Books
  BY HeadTyped DEF InsertItem, Opened, Typed, Ready
<1>2. item \in CartRowT
  BY <1>1 DEF Typed, SessionT, CartRowT, CartIds
<1>3. CASE Rollback(r, "failed")
  BY <1>3, RollbackTyped DEF Finished
<1>4. CASE SaveItem(r, b, item)
  BY <1>1, <1>2, <1>4, SaveItemTyped
<1>. QED  BY <1>3, <1>4 DEF InsertItem

LEMMA MergeItemTyped ==
  ASSUME Typed, NEW r \in Requests, MergeItem(r)
  PROVE  Typed'
<1>. DEFINE b == Head(session[r].route)
            item == [session[r].item EXCEPT !.qty = @ + session[r].qty[b]]
<1>1. b \in Books
  BY HeadTyped DEF MergeItem, Typed, Ready
<1>2. session[r].item \in CartRowT /\ session[r].qty[b] \in Nat
  BY <1>1 DEF Typed, SessionT
<1>3. item \in CartRowT
  BY <1>2 DEF CartRowT
<1>4. CASE Rollback(r, "failed")
  BY <1>4, RollbackTyped DEF Finished
<1>5. CASE SaveItem(r, b, item)
  BY <1>1, <1>3, <1>5, SaveItemTyped
<1>. QED  BY <1>4, <1>5 DEF MergeItem

LEMMA SetItemTyped ==
  ASSUME Typed, NEW r \in Requests, SetItem(r)
  PROVE  Typed'
<1>. DEFINE b == Head(session[r].route)
            item == [session[r].item EXCEPT !.qty = session[r].qty[b]]
<1>1. b \in Books
  BY HeadTyped DEF SetItem, Typed, Ready
<1>2. session[r].item \in CartRowT /\ session[r].qty[b] \in Nat
  BY <1>1 DEF Typed, SessionT
<1>3. item \in CartRowT
  BY <1>2 DEF CartRowT
<1>4. CASE Rollback(r, "failed") \/ Rollback(r, "ok")
  BY <1>4, RollbackTyped DEF Finished
<1>5. CASE SaveItem(r, b, item)
  BY <1>1, <1>3, <1>5, SaveItemTyped
<1>. QED  BY <1>4, <1>5 DEF SetItem

LEMMA LoadForRemoveTyped ==
  ASSUME Typed, NEW r \in Requests, LoadForRemove(r)
  PROVE  Typed'
<1>1. CASE Rollback(r, "refused")
  BY <1>1, RollbackTyped DEF Finished
<1>2. ASSUME NEW kind \in {"remove", "empty"}, NEW items \in SUBSET CartItems(Buyer[r]),
             Goto(r, "mutate", [Blank EXCEPT !.kind = kind, !.doomed = items]), Private
      PROVE  Typed'
  <2>1. items \in SUBSET (Users \X Books \X CartIds)
    BY RequestsAssumption, CartItemsTyped
  <2>2. [Blank EXCEPT !.kind = kind, !.doomed = items] \in SessionT
    BY <2>1, BlankTyped DEF SessionT, Handlers
  <2>3. [Blank EXCEPT !.kind = kind, !.doomed = items].kind = kind
    BY DEF Blank
  <2>. QED  BY <1>2, <2>2, <2>3, ReadyStepTyped DEF Ready, Steps
<1>3. ASSUME NEW b \in InCart(Buyer[r])
      PROVE  {<<Buyer[r], b, cart[Buyer[r]][b].id>>} \in SUBSET CartItems(Buyer[r])
  BY DEF CartItems
<1>4. ASSUME NEW kind \in {"remove", "empty"}, Enter(r, kind), Private
      PROVE  Typed'
  BY <1>4, EnterTyped DEF Handlers
<1>. QED  BY <1>1, <1>2, <1>3, <1>4 DEF LoadForRemove

LEMMA WithoutTyped ==
  ASSUME Typed, NEW items
  PROVE  Without(items) \in [Users -> [Books -> CartRowT]]
<1>1. NoCartRow \in CartRowT
  BY DEF NoCartRow, CartRowT
<1>. QED  BY <1>1 DEF Without, Typed

LEMMA RemoveItemsTyped ==
  ASSUME Typed, NEW r \in Requests, RemoveItems(r)
  PROVE  Typed'
<1>1. carts' \subseteq Users \X CartIds
  BY DEF RemoveItems, Typed
<1>. QED  BY <1>1, WithoutTyped, CartWriteTyped DEF RemoveItems

LEMMA CartNextTyped ==
  ASSUME Typed, NEW r \in Requests, CartNext(r)
  PROVE  Typed'
  BY ViewCartTyped, CreateCartTyped, LoadForAddTyped, InsertItemTyped, MergeItemTyped, LoadForSetTyped, SetItemTyped,
     LoadForRemoveTyped, RemoveItemsTyped DEF CartNext

-----------------------------------------------------------------------------
(* The steps the handlers share, and the faults.                           *)

LEMMA PublishToCacheTyped ==
  ASSUME Typed, NEW r \in Requests, PublishToCache(r)
  PROVE  Typed'
<1>. DEFINE s == session[r]
<1>1. s \in SessionT
  BY DEF Typed
<1>2. PICK b \in s.left :
         /\ Goto(r, "announce", [s EXCEPT !.route = <<b>>])
         /\ \/ cache' = [cache EXCEPT ![b] = Stored(s, b)]
            \/ cache' = cache
  BY DEF PublishToCache
<1>3. b \in Books
  BY <1>1 DEF SessionT
<1>4. /\ [s EXCEPT !.route = <<b>>] \in SessionT
      /\ [s EXCEPT !.route = <<b>>].route # << >>
  <2>1. <<b>> \in Seq(Books) /\ <<b>> # << >>
    BY <1>3
  <2>. QED  BY <1>1, <2>1 DEF SessionT
<1>5. /\ pc' \in [Requests -> Steps] /\ session' \in [Requests -> SessionT]
      /\ \A x \in Requests : Ready(pc[x], session[x])'
  BY <1>2, <1>4, GotoTyped DEF Ready, Steps
<1>6. s.seen[b] \in Stock
  BY <1>1, <1>3 DEF SessionT
<1>7. cache' \in [Books -> Stock \cup {Nil}]
  BY <1>2, <1>6 DEF Stored, Typed
<1>8. misled' \subseteq Books
  BY <1>1 DEF PublishToCache, SessionT, Typed
<1>. QED  BY <1>5, <1>7, <1>8 DEF PublishToCache, stored, Typed

LEMMA PublishToHubTyped ==
  ASSUME Typed, NEW r \in Requests, PublishToHub(r)
  PROVE  Typed'
<1>. DEFINE s == session[r]
            b == Head(s.route)
            t == [s EXCEPT !.route = << >>, !.left = @ \ {b}]
<1>1. s \in SessionT
  BY DEF Typed
<1>2. b \in Books
  BY HeadTyped DEF PublishToHub, Typed, Ready
<1>3. t \in SessionT
  <2>1. << >> \in Seq(Books)
    OBVIOUS
  <2>. QED  BY <1>1, <2>1 DEF SessionT
<1>4. /\ pc' \in [Requests -> Steps] /\ session' \in [Requests -> SessionT]
      /\ \A x \in Requests : Ready(pc[x], session[x])'
  BY <1>3, PlainStepReady, GotoTyped DEF PublishToHub, PlainSteps, Steps
<1>5. s.seen[b] \in Stock
  BY <1>1, <1>2 DEF SessionT
<1>6. announced' \in [Books -> Stock \cup {Nil, Gone}]
  BY <1>5 DEF PublishToHub, News, Typed
<1>. QED  BY <1>4, <1>6 DEF PublishToHub, stored, history, Typed

LEMMA CommitTyped ==
  ASSUME Typed, NEW r \in Requests, Commit(r)
  PROVE  Typed'
<1>. DEFINE s == session[r]
<1>1. s \in SessionT
  BY DEF Typed
<1>2. /\ pc' \in [Requests -> Steps] /\ session' \in [Requests -> SessionT]
      /\ \A x \in Requests : Ready(pc[x], session[x])'
  BY BlankTyped, PlainStepReady, GotoTyped DEF Commit, Finish, PlainSteps, Steps, Finished
<1>3. row' \in [Books -> RowT]
  BY DEF Commit, Typed
<1>4. lock' \in [Books -> Requests \cup {Nil}]
  BY DEF Commit, Unlocked, Typed
<1>5. cart' \in [Users -> [Books -> CartRowT]]
  BY WithoutTyped DEF Commit
<1>6. orders' \in [Requests -> OrderT]
  <2>1. CASE s.kind = "checkout"
    <3>1. [status |-> "placed", qty |-> s.qty, price |-> s.bill] \in OrderT
      BY <1>1 DEF SessionT, OrderT
    <3>. QED  BY <2>1, <3>1 DEF Commit, OrdersAfter, Typed
  <2>2. CASE s.kind = "cancel"
    <3>1. orders' = [orders EXCEPT ![s.order].status = "cancelled"]
      BY <2>2 DEF Commit, OrdersAfter
    <3>2. CASE s.order \in Requests
      <4>1. orders[s.order] \in OrderT
        BY <3>2 DEF Typed
      <4>2. [orders[s.order] EXCEPT !.status = "cancelled"] \in OrderT
        BY <4>1 DEF OrderT
      <4>. QED  BY <3>1, <4>2 DEF Typed
    <3>3. CASE s.order \notin Requests
      BY <3>1, <3>3 DEF Typed
    <3>. QED  BY <3>2, <3>3
  <2>3. CASE s.kind \notin {"checkout", "cancel"}
    BY <2>3 DEF Commit, OrdersAfter, Typed
  <2>. QED  BY <2>1, <2>2, <2>3
<1>7. tainted' \subseteq Books
  BY DEF Commit, RestockedAgain, Ordered, Typed
<1>. QED  BY <1>2, <1>3, <1>4, <1>5, <1>6, <1>7 DEF Commit, published, Typed

LEMMA EvictTyped ==
  ASSUME Typed, NEW b \in Books, Evict(b)
  PROVE  Typed'
<1>1. cache' \in [Books -> Stock \cup {Nil}]
  BY DEF Evict, Typed
<1>. QED  BY <1>1 DEF Evict, stored, history, Typed

LEMMA NextTyped == Typed /\ [Next]_vars => Typed'
<1>. SUFFICES ASSUME Typed, [Next]_vars PROVE Typed'
  OBVIOUS
<1>1. ASSUME NEW r \in Requests, Step(r) PROVE Typed'
  BY <1>1, OrderNextTyped, BookNextTyped, CartNextTyped, PublishToCacheTyped,
     PublishToHubTyped, CommitTyped DEF Step
<1>2. ASSUME NEW r \in Requests, AbortVictim(r) \/ Crash(r) PROVE Typed'
  BY <1>2, RollbackTyped DEF AbortVictim, Crash, Finished
<1>3. ASSUME NEW b \in Books, Evict(b) PROVE Typed'
  BY <1>3, EvictTyped
<1>4. ASSUME UNCHANGED vars PROVE Typed'
  BY <1>4 DEF vars, stored, published, history, Typed
<1>. QED  BY <1>1, <1>2, <1>3, <1>4 DEF Next, Idle

\* Whatever its handlers do, the numbers of the store stay in their ranges.
THEOREM AlwaysTyped == Spec => []Typed
  BY InitTyped, NextTyped, PTL DEF Spec

\* The type invariant of the runs, for every instance.
THEOREM TypesHold == Spec => []TypeOK
<1>1. Typed => TypeOK
  BY DEF Typed, TypeOK, RowT, BookRow, Stock, CartRowT, CartRow, OrderT, Order, SessionT, Session
<1>. QED  BY <1>1, AlwaysTyped, PTL

\* However many requests run, and whichever of them crash, deadlock, read a
\* stale stock or write the cache back: no stock falls below the lowest level an
\* administrator submitted, or zero (order_service.py:47-54 and 112).
THEOREM StockHolds == Spec => []StockStaysAboveFloor
<1>1. Typed => StockStaysAboveFloor
  BY DEF Typed, StockStaysAboveFloor, RowT, Stock
<1>. QED  BY <1>1, AlwaysTyped, PTL

-----------------------------------------------------------------------------
(* A second invariant: what a row lock means to the request that holds      *)
(* it, and which books a handler has locked at each of its steps.           *)

InRoute(s, b) == \E i \in 1..Len(s.route) : s.route[i] = b

CartKinds == {"view", "add", "setQuantity", "remove", "empty"}

\* The handler that a step belongs to.
KindFits(step, kind) ==
    /\ step \in {"reserve", "clear"} => kind = "checkout"
    /\ step \in {"lines", "restock"} => kind = "cancel"
    /\ step \in {"hydrate", "flush"} => kind = "read"
    /\ step = "patch" => kind = "patch"
    /\ step \in {"unlink", "erase"} => kind = "delete"
    /\ step \in {"cache", "announce"} => kind \in {"checkout", "cancel", "create", "patch", "delete"}
    /\ step \in {"open", "fill", "mutate"} => kind \in CartKinds
    /\ step \in {"new"} \cup Finished => kind = "none"

\* The uncommitted version is still the same book at the same price.
SameBook(b) == draft[b].live = row[b].live /\ draft[b].price = row[b].price

\* What the row lock of b means to the request that holds it.
Held(r, b) ==
    LET s == session[r] IN
    /\ s.kind # "none" /\ pc[r] \notin {"lines", "unlink", "erase"}
    /\ s.kind = "checkout" =>
          /\ row[b].live /\ SameBook(b)
          /\ s.qty[b] >= 1 /\ s.bill[b] = row[b].price
          /\ b \notin tainted => /\ draft[b].stock = row[b].stock - s.qty[b]
                                 /\ s.qty[b] <= row[b].stock
    /\ s.kind = "cancel" =>
          /\ SameBook(b) /\ s.qty[b] # 0
          /\ b \notin tainted => draft[b].stock = row[b].stock + s.qty[b]
    /\ s.kind = "read" => SameBook(b) /\ b \in tainted
    /\ s.kind = "create" => draft[b].live /\ b \in tainted
    /\ s.kind = "patch" =>
          /\ row[b].live /\ draft[b].live
          /\ b \notin tainted => draft[b].stock = row[b].stock
    /\ s.kind = "delete" =>
          /\ row[b].live /\ ~draft[b].live
          /\ ~OnAnOrder(b) /\ ItemsOf(b) \subseteq s.doomed
          /\ \A c \in Books : lock[c] = r => c = b
    /\ s.kind \notin CartKinds

\* A checkout or a cancellation past its loop has locked every book it is about.
Covered(r, step) ==
    \A b \in Books : session[r].qty[b] # 0 =>
        lock[b] = r \/ (pc[r] = step /\ InRoute(session[r], b))

RequestOk(r) ==
    LET s == session[r] IN
    /\ KindFits(pc[r], s.kind)
    /\ \A b \in Books : lock[b] = r => Held(r, b)
    /\ s.kind = "checkout" =>
          /\ Covered(r, "reserve")
          /\ (pc[r] = "reserve" /\ s.route # << >>) \/ \E b \in Books : lock[b] = r
    /\ s.kind = "cancel" =>
          /\ s.order \in Requests /\ orders[s.order].status # "none"
          /\ pc[r] # "lines" => s.qty = orders[s.order].qty /\ Covered(r, "restock")
          /\ pc[r] = "restock" => \A b \in Books : InRoute(s, b) => s.qty[b] # 0

OrderOk(o) ==
    /\ orders[o].status = "none" => Ordered(o) = {}
    /\ orders[o].status # "none" => pc[o] = "ok"
    /\ Ordered(o) \subseteq Live

CartOk(u) ==
    /\ InCart(u) \subseteq Live
    /\ InCart(u) # {} => HasCart(u)
    /\ \A b \in Books \ InCart(u) : cart[u][b].qty = 0

CreatorOk(r) ==
    /\ pc[r] = "fill" => ~HasCart(Buyer[r])
    /\ pc[r] = "mutate" => HasCart(Buyer[r])
    /\ pc[r] = "mutate" /\ session[r].kind = "setQuantity" => session[r].item.id # Nil

Sound ==
    /\ \A r \in Requests : RequestOk(r) /\ OrderOk(r) /\ CreatorOk(r)
    /\ \A u \in Users : CartOk(u)
    /\ \A r, x \in Requests : pc[r] = "fill" /\ pc[x] = "fill" /\ Buyer[r] = Buyer[x] => r = x
    /\ \A c, d \in carts : c[1] = d[1] => c = d
    /\ \A b \in unused : lock[b] = Nil /\ ~row[b].live

-----------------------------------------------------------------------------
(* What a step of one request leaves to the others.                        *)

LEMMA Undisturbed ==
  ASSUME NEW x \in Requests, RequestOk(x), pc'[x] = pc[x], session'[x] = session[x],
         \A b \in Books : lock'[b] = x <=> lock[b] = x,
         \A b \in Books : lock[b] = x => draft'[b] = draft[b] /\ row'[b] = row[b],
         tainted \subseteq tainted',
         session[x].kind = "cancel" =>
            /\ orders'[session[x].order].qty = orders[session[x].order].qty
            /\ orders'[session[x].order].status # "none",
         session[x].kind = "delete" =>
            \A b \in Books : lock[b] = x =>
                ~OnAnOrder(b)' /\ ItemsOf(b)' \subseteq session[x].doomed
  PROVE  RequestOk(x)'
<1>1. ASSUME NEW b \in Books, lock'[b] = x PROVE Held(x, b)'
  <2>1. lock[b] = x /\ Held(x, b)
    BY <1>1 DEF RequestOk
  <2>. QED  BY <2>1 DEF Held, SameBook
<1>2. (Covered(x, "reserve")' <=> Covered(x, "reserve")) /\ (Covered(x, "restock")' <=> Covered(x, "restock"))
  BY DEF Covered, InRoute
<1>. QED  BY <1>1, <1>2 DEF RequestOk, InRoute

\* Steps that change no row, no cart and no order.
LEMMA QuietSound ==
  ASSUME Typed, Sound, NEW r \in Requests, pc[r] # "ok", UNCHANGED stored,
         \A x \in Requests \ {r} : pc'[x] = pc[x] /\ session'[x] = session[x],
         \A b \in Books : lock'[b] # lock[b] => {lock[b], lock'[b]} \subseteq {Nil, r},
         \A b \in Books : lock[b] \notin {Nil, r} => draft'[b] = draft[b],
         tainted \subseteq tainted',
         \A b \in unused' : b \in unused /\ lock'[b] = Nil,
         RequestOk(r)', CreatorOk(r)',
         \A x \in Requests \ {r} : pc'[r] = "fill" /\ pc[x] = "fill" => Buyer[x] # Buyer[r]
  PROVE  Sound'
<1>1. ASSUME NEW x \in Requests PROVE RequestOk(x)'
  <2>1. CASE x = r
    BY <2>1
  <2>2. CASE x # r
    <3>1. RequestOk(x)
      BY DEF Sound
    <3>2. \A b \in Books : lock'[b] = x <=> lock[b] = x
      BY <2>2, RequestsAssumption
    <3>3. \A b \in Books : lock[b] = x => draft'[b] = draft[b] /\ row'[b] = row[b]
      BY <2>2, RequestsAssumption DEF stored
    <3>4. session[x].kind = "cancel" => orders[session[x].order].status # "none"
      BY <3>1 DEF RequestOk
    <3>5. session[x].kind = "delete" =>
             \A b \in Books : lock[b] = x =>
                ~OnAnOrder(b)' /\ ItemsOf(b)' \subseteq session[x].doomed
      <4>1. \A b \in Books : lock[b] = x => Held(x, b)
        BY <3>1 DEF RequestOk
      <4>2. \A b \in Books : (OnAnOrder(b)' <=> OnAnOrder(b)) /\ ItemsOf(b)' = ItemsOf(b)
        BY DEF stored, OnAnOrder, Ordered, ItemsOf, InCart
      <4>. QED  BY <4>1, <4>2 DEF Held
    <3>. QED  BY <2>2, <3>1, <3>2, <3>3, <3>4, <3>5, Undisturbed DEF stored
  <2>. QED  BY <2>1, <2>2
<1>2. ASSUME NEW o \in Requests PROVE OrderOk(o)'
  <2>1. OrderOk(o)
    BY DEF Sound
  <2>2. Ordered(o)' = Ordered(o) /\ Live' = Live /\ orders' = orders
    BY DEF stored, Ordered, Live
  <2>. QED  BY <2>1, <2>2 DEF OrderOk
<1>3. ASSUME NEW u \in Users PROVE CartOk(u)' /\ (HasCart(u)' <=> HasCart(u))
  <2>1. CartOk(u)
    BY DEF Sound
  <2>2. InCart(u)' = InCart(u) /\ Live' = Live /\ (HasCart(u)' <=> HasCart(u)) /\ cart' = cart
    BY DEF stored, InCart, Live, HasCart
  <2>. QED  BY <2>1, <2>2 DEF CartOk
<1>4. ASSUME NEW x \in Requests PROVE CreatorOk(x)'
  <2>1. CASE x = r
    BY <2>1
  <2>2. CASE x # r
    BY <2>2, <1>3, RequestsAssumption DEF Sound, CreatorOk
  <2>. QED  BY <2>1, <2>2
<1>5. \A x, y \in Requests : pc'[x] = "fill" /\ pc'[y] = "fill" /\ Buyer[x] = Buyer[y] => x = y
  BY DEF Sound
<1>6. \A c, d \in carts' : c[1] = d[1] => c = d
  BY DEF Sound, stored
<1>7. \A b \in unused' : lock'[b] = Nil /\ ~row'[b].live
  BY DEF Sound, stored
<1>. QED  BY <1>1, <1>2, <1>3, <1>4, <1>5, <1>6, <1>7 DEF Sound

\* A handler that moves on and writes nothing.
LEMMA MoveSound ==
  ASSUME Typed, Sound, NEW r \in Requests, pc[r] # "ok", NEW step \in Steps \ {"fill", "mutate"},
         NEW s, Goto(r, step, s), UNCHANGED <<stored, lock, draft, unused, tainted>>, RequestOk(r)'
  PROVE  Sound'
<1>1. pc' = [pc EXCEPT ![r] = step] /\ session' = [session EXCEPT ![r] = s]
  BY DEF Goto
<1>2. pc'[r] = step /\ \A x \in Requests \ {r} : pc'[x] = pc[x] /\ session'[x] = session[x]
  BY <1>1 DEF Typed
<1>3. CreatorOk(r)'
  BY <1>2 DEF CreatorOk
<1>4. \A b \in unused' : b \in unused /\ lock'[b] = Nil
  BY DEF Sound
<1>. QED  BY <1>2, <1>3, <1>4, QuietSound

\* A handler that writes one row version and moves on.
LEMMA WriteSound ==
  ASSUME Typed, Sound, NEW r \in Requests, pc[r] # "ok", NEW step \in Steps \ {"fill", "mutate"},
         NEW s, Goto(r, step, s), NEW b \in Books, NEW v, Write(r, b, v), Free(r, b),
         UNCHANGED stored, tainted \subseteq tainted', unused' \subseteq unused, b \notin unused',
         RequestOk(r)'
  PROVE  Sound'
<1>1. pc' = [pc EXCEPT ![r] = step] /\ session' = [session EXCEPT ![r] = s]
  BY DEF Goto
<1>2. pc'[r] = step /\ \A x \in Requests \ {r} : pc'[x] = pc[x] /\ session'[x] = session[x]
  BY <1>1 DEF Typed
<1>3. CreatorOk(r)'
  BY <1>2 DEF CreatorOk
<1>4. /\ \A c \in Books : lock'[c] # lock[c] => {lock[c], lock'[c]} \subseteq {Nil, r}
      /\ \A c \in Books : lock[c] \notin {Nil, r} => draft'[c] = draft[c]
      /\ \A c \in Books \ {b} : lock'[c] = lock[c]
  BY DEF Write, Free, Typed
<1>5. \A c \in unused' : c \in unused /\ lock'[c] = Nil
  BY <1>4 DEF Sound, Typed
<1>. QED  BY <1>2, <1>3, <1>4, <1>5, QuietSound

LEMMA RollbackSound ==
  ASSUME Typed, Sound, NEW r \in Requests, pc[r] # "ok", NEW outcome \in Finished,
         Rollback(r, outcome)
  PROVE  Sound'
<1>1. pc' = [pc EXCEPT ![r] = outcome] /\ session' = [session EXCEPT ![r] = Blank]
  BY DEF Rollback, Finish, Goto
<1>2. /\ pc'[r] = outcome /\ session'[r] = Blank
      /\ \A x \in Requests \ {r} : pc'[x] = pc[x] /\ session'[x] = session[x]
  BY <1>1 DEF Typed
<1>3. \A b \in Books : lock'[b] = IF lock[b] = r THEN Nil ELSE lock[b]
  BY DEF Rollback, Unlocked
<1>4. \A b \in Books : lock'[b] # r
  BY <1>3, RequestsAssumption
<1>5. RequestOk(r)'
  <2>1. Blank.kind = "none"
    BY DEF Blank
  <2>2. KindFits(outcome, "none")
    BY DEF KindFits, Finished
  <2>. QED  BY <1>2, <1>4, <2>1, <2>2 DEF RequestOk
<1>6. CreatorOk(r)' /\ pc'[r] # "fill"
  BY <1>2 DEF CreatorOk, Finished
<1>7. \A b \in Books : lock[b] \notin {Nil, r} => draft'[b] = draft[b]
  BY DEF Rollback
<1>8. \A b \in unused' : b \in unused /\ lock'[b] = Nil
  BY <1>3 DEF Rollback, Sound, Typed
<1>9. tainted' = tainted /\ UNCHANGED stored
  BY DEF Rollback
<1>. QED  BY <1>2, <1>3, <1>5, <1>6, <1>7, <1>8, <1>9, QuietSound

\* A handler that keeps what it knows of its books, and is past its loop.
LEMMA GoOnOk ==
  ASSUME Typed, Sound, NEW r \in Requests, NEW step \in Steps, NEW t, Goto(r, step, t),
         UNCHANGED <<stored, lock, draft, tainted>>,
         t.kind = session[r].kind, t.qty = session[r].qty, t.bill = session[r].bill,
         t.order = session[r].order, t.kind = "delete" => t.doomed = session[r].doomed,
         KindFits(step, t.kind),
         step \in {"lines", "unlink", "erase"} => \A b \in Books : lock[b] # r,
         pc[r] \in {"reserve", "restock"} => session[r].route = << >>,
         pc[r] # "lines", step \notin {"reserve", "lines", "restock"}
  PROVE  RequestOk(r)'
<1>. DEFINE s == session[r]
<1>1. pc'[r] = step /\ session'[r] = t
  BY DEF Goto, Typed
<1>2. RequestOk(r)
  BY DEF Sound
<1>3. ASSUME NEW b \in Books, lock'[b] = r PROVE Held(r, b)'
  <2>1. lock[b] = r /\ Held(r, b)
    BY <1>2, <1>3 DEF RequestOk
  <2>2. (OnAnOrder(b)' <=> OnAnOrder(b)) /\ ItemsOf(b)' = ItemsOf(b)
    BY DEF stored, OnAnOrder, Ordered, ItemsOf, InCart
  <2>3. step \notin {"lines", "unlink", "erase"}
    BY <2>1
  <2>. QED  BY <1>1, <2>1, <2>2, <2>3 DEF Held, SameBook, stored
<1>4. pc[r] \in {"reserve", "restock"} => \A b \in Books : ~InRoute(s, b)
  BY DEF InRoute
<1>5. ASSUME t.kind = "checkout"
      PROVE  Covered(r, "reserve")' /\ \E b \in Books : lock'[b] = r
  <2>1. Covered(r, "reserve") /\ \E b \in Books : lock[b] = r
    BY <1>2, <1>5 DEF RequestOk
  <2>. QED  BY <1>1, <1>4, <2>1 DEF Covered
<1>6. ASSUME t.kind = "cancel"
      PROVE  /\ t.order \in Requests /\ orders'[t.order].status # "none"
             /\ t.qty = orders'[t.order].qty /\ Covered(r, "restock")'
  <2>1. /\ s.order \in Requests /\ orders[s.order].status # "none"
        /\ s.qty = orders[s.order].qty /\ Covered(r, "restock")
    BY <1>2, <1>6 DEF RequestOk
  <2>. QED  BY <1>1, <1>4, <2>1 DEF Covered, stored
<1>. QED  BY <1>1, <1>3, <1>5, <1>6 DEF RequestOk

-----------------------------------------------------------------------------
(* OrderService.                                                           *)

\* A route visits every book of its set, and no other.
LEMMA RouteCovers ==
  ASSUME NEW S \in SUBSET Books, NEW route \in Routes(S)
  PROVE  /\ route \in Seq(S)
         /\ \A b \in Books : b \in S <=> \E i \in 1..Len(route) : route[i] = b
         /\ S # {} => route # << >>
<1>. DEFINE D == 1..Cardinality(S)
            T == {route[i] : i \in D}
<1>1. IsFiniteSet(S) /\ Cardinality(S) \in Nat
  BY BooksAssumption, FS_Subset, FS_CardinalityType
<1>2. route \in [D -> S] /\ \A i, j \in D : i # j => route[i] # route[j]
  BY DEF Routes, SetToSeqs
<1>3. route \in Seq(S) /\ Len(route) = Cardinality(S)
  BY <1>1, <1>2
<1>4. IsFiniteSet(D) /\ Cardinality(D) = Cardinality(S)
  BY <1>1, FS_Interval
<1>5. [i \in D |-> route[i]] \in Bijection(D, T)
  BY <1>2 DEF Bijection, Injection, Surjection, IsInjective
<1>6. Cardinality(T) = Cardinality(S)
  BY <1>4, <1>5, FS_Bijection DEF ExistsBijection
<1>7. T = S
  BY <1>1, <1>2, <1>6, FS_Subset
<1>8. S # {} => route # << >>
  BY <1>1, <1>3, <1>7
<1>. QED  BY <1>3, <1>7, <1>8

\* What a loop has still to visit, once it has visited the head of its route.
LEMMA RouteAdvances ==
  ASSUME NEW route \in Seq(Books), route # << >>, NEW b \in Books
  PROVE  (\E i \in 1..Len(route) : route[i] = b) <=>
            b = Head(route) \/ \E i \in 1..Len(Tail(route)) : Tail(route)[i] = b
<1>1. /\ Len(route) \in Nat /\ Len(route) > 0 /\ Head(route) = route[1]
      /\ Len(Tail(route)) = Len(route) - 1
      /\ \A i \in 1..Len(Tail(route)) : Tail(route)[i] = route[i + 1]
  OBVIOUS
<1>2. ASSUME NEW i \in 1..Len(route), route[i] = b, i # 1
      PROVE  \E j \in 1..Len(Tail(route)) : Tail(route)[j] = b
  <2>1. i - 1 \in 1..Len(Tail(route)) /\ (i - 1) + 1 = i
    BY <1>1, <1>2
  <2>2. Tail(route)[i - 1] = route[(i - 1) + 1]
    BY <1>1, <2>1
  <2>. QED  BY <1>2, <2>1, <2>2
<1>3. ASSUME NEW j \in 1..Len(Tail(route)), Tail(route)[j] = b
      PROVE  \E i \in 1..Len(route) : route[i] = b
  <2>1. j + 1 \in 1..Len(route) /\ route[j + 1] = b
    BY <1>1, <1>3
  <2>. QED  BY <2>1
<1>4. 1 \in 1..Len(route)
  BY <1>1
<1>. QED  BY <1>1, <1>2, <1>3, <1>4

\* A request that has not begun, or has just begun, has nothing locked.
LEMMA NothingLocked ==
  ASSUME Sound, NEW r \in Requests, pc[r] \in {"new", "lines", "unlink", "erase"}
  PROVE  \A b \in Books : lock[b] # r
<1>1. RequestOk(r)
  BY DEF Sound
<1>2. pc[r] = "new" => session[r].kind = "none"
  BY <1>1 DEF RequestOk, KindFits
<1>. QED  BY <1>1, <1>2 DEF RequestOk, Held

\* A handler that begins: it has nothing locked, and is about no order yet.
LEMMA BeginSound ==
  ASSUME Typed, Sound, NEW r \in Requests, pc[r] = "new",
         NEW step \in Steps \ {"fill", "mutate"}, NEW s, Goto(r, step, s), Private,
         KindFits(step, s.kind), s.kind \notin {"checkout", "cancel"}
  PROVE  Sound'
<1>1. pc'[r] = step /\ session'[r] = s
  BY DEF Goto, Typed
<1>2. \A b \in Books : lock'[b] # r
  BY NothingLocked DEF Private
<1>3. RequestOk(r)'
  BY <1>1, <1>2 DEF RequestOk
<1>. QED  BY <1>3, MoveSound DEF Private, history

LEMMA LoadCartSound ==
  ASSUME Typed, Sound, NEW r \in Requests, LoadCart(r)
  PROVE  Sound'
<1>. DEFINE basket == InCart(Buyer[r])
            loaded(route) == [Blank EXCEPT !.kind = "checkout", !.route = route,
                                   !.qty = [b \in Books |-> cart[Buyer[r]][b].qty],
                                   !.seen = StockOf(basket),
                                   !.bill = PriceOf(basket),
                                   !.left = basket]
<1>1. CASE Rollback(r, "refused")
  BY <1>1, RollbackSound DEF LoadCart, Finished
<1>2. CASE basket # {} /\ \E route \in Routes(basket) : Goto(r, "reserve", loaded(route)) /\ Private
  <2>1. PICK route \in Routes(basket) : Goto(r, "reserve", loaded(route)) /\ Private
    BY <1>2
  <2>2. basket \in SUBSET Books
    BY DEF InCart
  <2>3. pc'[r] = "reserve" /\ session'[r] = loaded(route)
    BY <2>1 DEF Goto, Typed
  <2>4. /\ loaded(route).kind = "checkout" /\ loaded(route).route = route
        /\ loaded(route).qty = [b \in Books |-> cart[Buyer[r]][b].qty]
    BY DEF Blank
  <2>5. \A b \in Books : loaded(route).qty[b] # 0 => InRoute(loaded(route), b)
    <3>1. CartOk(Buyer[r])
      BY RequestsAssumption DEF Sound
    <3>2. \A b \in Books : b \in basket <=> \E i \in 1..Len(route) : route[i] = b
      BY <2>1, <2>2, RouteCovers
    <3>. QED  BY <2>4, <3>1, <3>2 DEF CartOk, InRoute
  <2>6. route # << >>
    BY <1>2, <2>1, <2>2, RouteCovers
  <2>7. \A b \in Books : lock'[b] # r
    BY <2>1, NothingLocked DEF Private, LoadCart
  <2>8. RequestOk(r)'
    BY <2>3, <2>4, <2>5, <2>6, <2>7 DEF RequestOk, KindFits, Covered, Finished, CartKinds
  <2>. QED  BY <2>1, <2>8, MoveSound DEF LoadCart, Private, history, Steps
<1>. QED  BY <1>1, <1>2 DEF LoadCart

\* Under the lock the row is the committed one, and a stock that differs from it
\* has been noted.
LEMMA ReserveSound ==
  ASSUME Typed, Sound, NEW r \in Requests, NEW b \in Books, pc[r] = "reserve",
         session[r].route # << >>, b = Head(session[r].route), session[r].qty[b] >= 1,
         Free(r, b), row[b].live, EnoughStock(session[r].seen[b], session[r].qty[b]), Reserve(r, b)
  PROVE  Sound'
<1>. DEFINE s == session[r]
            stock == StockAfterSale(s.seen[b], s.qty[b])
            t == [s EXCEPT !.route = Tail(s.route), !.seen[b] = stock, !.bill[b] = UnitPrice(r, b)]
<1>1. /\ RequestOk(r) /\ s.kind = "checkout"
      /\ s \in SessionT /\ row[b] \in RowT
  BY DEF Sound, RequestOk, KindFits, Typed
<1>2. pc'[r] = "reserve" /\ session'[r] = t
  BY DEF Reserve, Goto, Typed
<1>3. /\ t.kind = "checkout" /\ t.qty = s.qty /\ t.route = Tail(s.route)
      /\ t.bill = [s.bill EXCEPT ![b] = row[b].price]
  BY <1>1 DEF SessionT, UnitPrice
<1>4. /\ lock' = [lock EXCEPT ![b] = r]
      /\ draft' = [draft EXCEPT ![b] = [row[b] EXCEPT !.stock = stock]]
      /\ row' = row /\ orders' = orders
      /\ tainted' = IF s.seen[b] = row[b].stock THEN tainted ELSE tainted \cup {b}
  BY DEF Reserve, Write, NoteStale, stored
<1>. HIDE DEF t, stock
<1>5. ASSUME NEW c \in Books, lock'[c] = r PROVE Held(r, c)'
  <2>1. CASE c = b
    <3>1. draft'[b] = [row[b] EXCEPT !.stock = stock] /\ t.bill[b] = row[b].price
      BY <1>1, <1>3, <1>4 DEF Typed, SessionT
    <3>2. /\ draft'[b].live = row[b].live /\ draft'[b].price = row[b].price
          /\ draft'[b].stock = stock
      BY <1>1, <3>1 DEF RowT
    <3>3. b \notin tainted' => stock = row[b].stock - s.qty[b] /\ s.qty[b] <= row[b].stock
      BY <1>1, <1>4 DEF stock, StockAfterSale, EnoughStock, SessionT, RowT, Stock
    <3>4. /\ session'[r].kind = "checkout" /\ pc'[r] = "reserve" /\ row'[b] = row[b]
          /\ session'[r].qty = s.qty /\ session'[r].bill[b] = row'[b].price
          /\ SameBook(b)'
          /\ b \notin tainted' => /\ draft'[b].stock = row[b].stock - s.qty[b]
                                  /\ s.qty[b] <= row[b].stock
      BY <1>2, <1>3, <1>4, <3>1, <3>2, <3>3 DEF SameBook
    <3>5. Held(r, b)'
      BY <3>4 DEF Held, CartKinds
    <3>. QED  BY <2>1, <3>5
  <2>2. CASE c # b
    <3>1. lock[c] = r /\ Held(r, c)
      BY <1>1, <1>4, <1>5, <2>2 DEF RequestOk, Typed
    <3>2. draft'[c] = draft[c] /\ t.bill[c] = s.bill[c]
      BY <1>1, <1>3, <1>4, <2>2 DEF Typed, SessionT
    <3>. QED  BY <1>1, <1>2, <1>3, <1>4, <3>1, <3>2 DEF Held, SameBook, CartKinds
  <2>. QED  BY <2>1, <2>2
<1>6. Covered(r, "reserve")'
  <2>1. \A c \in Books : InRoute(s, c) <=> c = b \/ InRoute(t, c)
    BY <1>1, <1>3, RouteAdvances DEF SessionT, InRoute
  <2>. QED  BY <1>1, <1>2, <1>3, <1>4, <2>1 DEF RequestOk, Covered, Typed
<1>7. lock'[b] = r
  BY <1>4 DEF Typed
<1>8. RequestOk(r)'
  BY <1>2, <1>3, <1>5, <1>6, <1>7 DEF RequestOk, KindFits, Finished
<1>9. b \notin unused'
  BY DEF Reserve, Sound
<1>. QED  BY <1>4, <1>8, <1>9, WriteSound DEF t, stock, Reserve, Steps

LEMMA ReserveItemSound ==
  ASSUME Typed, Sound, NEW r \in Requests, ReserveItem(r)
  PROVE  Sound'
<1>. DEFINE b == Head(session[r].route)
<1>1. b \in Books
  BY HeadTyped DEF ReserveItem
<1>2. CASE Rollback(r, "refused")
  BY <1>2, RollbackSound DEF ReserveItem, Finished
<1>3. CASE /\ session[r].qty[b] >= 1 /\ Free(r, b) /\ row[b].live
           /\ EnoughStock(session[r].seen[b], session[r].qty[b]) /\ Reserve(r, b)
  BY <1>1, <1>3, ReserveSound DEF ReserveItem
<1>. QED  BY <1>2, <1>3 DEF ReserveItem
\* A handler that goes on, past its loop, with what it knows of its books.
LEMMA GoOnSound ==
  ASSUME Typed, Sound, NEW r \in Requests, pc[r] # "ok",
         NEW step \in Steps \ {"reserve", "lines", "restock", "fill", "mutate"}, NEW t,
         Goto(r, step, t), UNCHANGED <<stored, lock, draft, unused, tainted>>,
         t.kind = session[r].kind, t.qty = session[r].qty, t.bill = session[r].bill,
         t.order = session[r].order, t.kind = "delete" => t.doomed = session[r].doomed,
         KindFits(step, t.kind),
         step \in {"unlink", "erase"} => \A b \in Books : lock[b] # r,
         pc[r] \in {"reserve", "restock"} => session[r].route = << >>,
         pc[r] # "lines"
  PROVE  Sound'
<1>1. RequestOk(r)'
  BY GoOnOk
<1>. QED  BY <1>1, MoveSound

LEMMA PlaceOrderSound ==
  ASSUME Typed, Sound, NEW r \in Requests, PlaceOrder(r)
  PROVE  Sound'
<1>. DEFINE s == session[r]
            t == [s EXCEPT !.doomed = ItemsToClear(r)]
<1>1. s \in SessionT /\ s.kind = "checkout"
  BY DEF Typed, Sound, RequestOk, KindFits, PlaceOrder
<1>2. t.kind = "checkout" /\ t.qty = s.qty /\ t.bill = s.bill /\ t.order = s.order
  BY <1>1 DEF SessionT
<1>3. KindFits("clear", "checkout")
  BY DEF KindFits, Finished
<1>4. /\ Goto(r, "clear", t) /\ UNCHANGED <<stored, lock, draft, unused, tainted>>
      /\ pc[r] = "reserve" /\ s.route = << >>
  BY DEF PlaceOrder, Private, history
<1>. HIDE DEF t
<1>. QED  BY <1>1, <1>2, <1>3, <1>4, GoOnSound DEF Steps

LEMMA ClearItemsSound ==
  ASSUME Typed, Sound, NEW r \in Requests, ClearItems(r)
  PROVE  Sound'
<1>1. session[r].kind = "checkout"
  BY DEF Sound, RequestOk, KindFits, ClearItems
<1>2. KindFits("cache", "checkout")
  BY DEF KindFits, Finished
<1>3. /\ Goto(r, "cache", session[r]) /\ UNCHANGED <<stored, lock, draft, unused, tainted>>
      /\ pc[r] = "clear"
  BY DEF ClearItems, Private, history
<1>. QED  BY <1>1, <1>2, <1>3, GoOnSound DEF Steps

LEMMA LoadOrderSound ==
  ASSUME Typed, Sound, NEW r \in Requests, LoadOrder(r)
  PROVE  Sound'
<1>. PICK o \in Requests :
        \/ /\ Cancellable(o) /\ Private
           /\ Goto(r, "lines", [Blank EXCEPT !.kind = "cancel", !.order = o])
        \/ Rollback(r, "refused")
  BY DEF LoadOrder
<1>. DEFINE t == [Blank EXCEPT !.kind = "cancel", !.order = o]
<1>1. pc[r] = "new"
  BY DEF LoadOrder
<1>2. CASE Cancellable(o) /\ Private /\ Goto(r, "lines", t)
  <2>1. pc'[r] = "lines" /\ session'[r] = t
    BY <1>2 DEF Goto, Typed
  <2>2. t.kind = "cancel" /\ t.order = o
    BY DEF Blank
  <2>3. \A b \in Books : lock'[b] # r
    BY <1>1, <1>2, NothingLocked DEF Private
  <2>4. orders'[o].status # "none"
    BY <1>2 DEF Cancellable, Private, stored
  <2>5. RequestOk(r)'
    BY <2>1, <2>2, <2>3, <2>4 DEF RequestOk, KindFits, Finished
  <2>. QED  BY <1>1, <1>2, <2>5, MoveSound DEF Private, history, Steps
<1>3. CASE Rollback(r, "refused")
  BY <1>1, <1>3, RollbackSound DEF Finished
<1>. QED  BY <1>2, <1>3

LEMMA LoadLinesSound ==
  ASSUME Typed, Sound, NEW r \in Requests, LoadLines(r)
  PROVE  Sound'
<1>. DEFINE s == session[r]
            books == Ordered(s.order)
            t(route) == [s EXCEPT !.route = route, !.qty = orders[s.order].qty,
                                  !.seen = StockOf(books), !.left = books]
<1>. PICK route \in Routes(books) : Goto(r, "restock", t(route)) /\ Private
  BY DEF LoadLines
<1>1. /\ pc[r] = "lines" /\ s \in SessionT /\ s.kind = "cancel"
      /\ s.order \in Requests /\ orders[s.order].status # "none"
  BY DEF LoadLines, Typed, Sound, RequestOk, KindFits
<1>2. pc'[r] = "restock" /\ session'[r] = t(route)
  BY DEF Goto, Typed
<1>3. /\ t(route).kind = "cancel" /\ t(route).order = s.order /\ t(route).route = route
      /\ t(route).qty = orders[s.order].qty
  BY <1>1 DEF SessionT
<1>. HIDE DEF t
<1>4. \A b \in Books : b \in books <=> \E i \in 1..Len(route) : route[i] = b
  <2>1. books \in SUBSET Books
    BY DEF Ordered
  <2>. QED  BY <2>1, RouteCovers
<1>5. \A b \in Books : InRoute(session[r], b)' <=> orders[s.order].qty[b] # 0
  BY <1>2, <1>3, <1>4 DEF InRoute, Ordered
<1>6. \A b \in Books : lock'[b] # r
  BY <1>1, NothingLocked DEF Private
<1>7. orders' = orders
  BY DEF Private, stored
<1>8. RequestOk(r)'
  BY <1>1, <1>2, <1>3, <1>5, <1>6, <1>7 DEF RequestOk, KindFits, Finished, Covered
<1>9. Goto(r, "restock", t(route)) /\ UNCHANGED <<stored, lock, draft, unused, tainted>>
  BY DEF t, Private, history
<1>. QED  BY <1>1, <1>8, <1>9, MoveSound DEF Steps

\* The books of an order exist, so that the restocking passes over none.
LEMMA RestockItemSound ==
  ASSUME Typed, Sound, NEW r \in Requests, RestockItem(r)
  PROVE  Sound'
<1>. DEFINE s == session[r]
<1>1. /\ RequestOk(r) /\ pc[r] = "restock" /\ s.kind = "cancel" /\ s.route # << >>
      /\ s \in SessionT
  BY DEF RestockItem, Sound, RequestOk, KindFits, Typed
<1>. PICK b \in Books : b = Head(s.route)
  BY <1>1, HeadTyped
<1>. DEFINE stock == StockAfterRestock(s.seen[b], s.qty[b])
            t == [s EXCEPT !.route = Tail(s.route), !.seen[b] = stock]
<1>2. row[b] \in RowT /\ Free(r, b)
  BY DEF Typed, RestockItem
<1>3. InRoute(s, b)
  <2>1. Len(s.route) \in Nat /\ Len(s.route) > 0 /\ b = s.route[1]
    BY <1>1 DEF SessionT
  <2>. QED  BY <2>1 DEF InRoute
<1>4. row[b].live
  <2>1. /\ s.order \in Requests /\ orders[s.order].qty[b] # 0
    BY <1>1, <1>2, <1>3 DEF RequestOk
  <2>2. b \in Ordered(s.order)
    BY <1>2, <2>1 DEF Ordered
  <2>. QED  BY <2>1, <2>2 DEF Sound, OrderOk, Live
<1>5. /\ Write(r, b, [row[b] EXCEPT !.stock = stock]) /\ NoteStale(b, s.seen[b])
      /\ Goto(r, "restock", t) /\ UNCHANGED <<stored, unused>>
  BY <1>4 DEF RestockItem
<1>6. /\ pc'[r] = "restock" /\ session'[r] = t
  BY <1>5 DEF Goto, Typed
<1>7. /\ t.kind = "cancel" /\ t.qty = s.qty /\ t.route = Tail(s.route) /\ t.order = s.order
  BY <1>1 DEF SessionT
<1>8. /\ lock' = [lock EXCEPT ![b] = r]
      /\ draft' = [draft EXCEPT ![b] = [row[b] EXCEPT !.stock = stock]]
      /\ row' = row /\ orders' = orders
      /\ tainted' = IF s.seen[b] = row[b].stock THEN tainted ELSE tainted \cup {b}
  BY <1>5 DEF Write, NoteStale, stored
<1>9. \A c \in Books : InRoute(s, c) <=> c = b \/ InRoute(t, c)
  BY <1>1, <1>7, RouteAdvances DEF SessionT, InRoute
<1>10. /\ draft'[b].live = row[b].live /\ draft'[b].price = row[b].price
       /\ draft'[b].stock = stock
  <2>1. draft'[b] = [row[b] EXCEPT !.stock = stock]
    BY <1>2, <1>8 DEF Typed
  <2>. QED  BY <1>2, <2>1 DEF RowT
<1>11. b \notin tainted' => stock = row[b].stock + s.qty[b]
  BY <1>8 DEF StockAfterRestock
<1>12. s.qty[b] # 0 /\ s.qty = orders[s.order].qty
  BY <1>1, <1>2, <1>3 DEF RequestOk
<1>. HIDE DEF t, stock
<1>13. ASSUME NEW c \in Books, lock'[c] = r PROVE Held(r, c)'
  <2>1. CASE c = b
    <3>1. /\ session'[r].kind = "cancel" /\ pc'[r] = "restock" /\ row'[b] = row[b]
          /\ session'[r].qty = s.qty /\ SameBook(b)'
          /\ b \notin tainted' => draft'[b].stock = row'[b].stock + s.qty[b]
      BY <1>6, <1>7, <1>8, <1>10, <1>11 DEF SameBook
    <3>2. Held(r, b)'
      BY <1>12, <3>1 DEF Held, CartKinds
    <3>. QED  BY <2>1, <3>2
  <2>2. CASE c # b
    <3>1. lock[c] = r /\ Held(r, c)
      BY <1>1, <1>8, <1>13, <2>2 DEF RequestOk, Typed
    <3>2. draft'[c] = draft[c]
      BY <1>8, <2>2 DEF Typed
    <3>. QED  BY <1>1, <1>6, <1>7, <1>8, <3>1, <3>2 DEF Held, SameBook, CartKinds
  <2>. QED  BY <2>1, <2>2
<1>14. Covered(r, "restock")'
  BY <1>1, <1>2, <1>6, <1>7, <1>8, <1>9 DEF RequestOk, Covered, Typed
<1>15. \A c \in Books : InRoute(t, c) => s.qty[c] # 0
  BY <1>1, <1>9 DEF RequestOk
<1>16. RequestOk(r)'
  BY <1>1, <1>6, <1>7, <1>8, <1>12, <1>13, <1>14, <1>15 DEF RequestOk, KindFits, Finished
<1>17. b \notin unused'
  BY <1>2, <1>4, <1>5 DEF Sound
<1>18. unused' = unused /\ UNCHANGED stored
  BY <1>5
<1>. QED  BY <1>1, <1>2, <1>5, <1>8, <1>16, <1>17, <1>18, WriteSound DEF Steps

LEMMA UpdateOrderSound ==
  ASSUME Typed, Sound, NEW r \in Requests, UpdateOrder(r)
  PROVE  Sound'
<1>1. session[r].kind = "cancel"
  BY DEF Sound, RequestOk, KindFits, UpdateOrder
<1>2. KindFits("cache", "cancel")
  BY DEF KindFits, Finished
<1>3. /\ Goto(r, "cache", session[r]) /\ UNCHANGED <<stored, lock, draft, unused, tainted>>
      /\ pc[r] = "restock" /\ session[r].route = << >>
  BY DEF UpdateOrder, Private, history
<1>. QED  BY <1>1, <1>2, <1>3, GoOnSound DEF Steps
-----------------------------------------------------------------------------
(* BookService.                                                            *)

LEMMA ReadBooksSound ==
  ASSUME Typed, Sound, NEW r \in Requests, ReadBooks(r)
  PROVE  Sound'
<1>. DEFINE t(page) == [Blank EXCEPT !.kind = "read", !.left = page,
                           !.seen = [b \in Books |-> IF b \in page THEN row[b].stock ELSE 0]]
<1>1. pc[r] = "new"
  BY DEF ReadBooks
<1>2. ASSUME NEW page \in SUBSET Live, Goto(r, "hydrate", t(page)), Private
      PROVE  Sound'
  <2>1. t(page).kind = "read" /\ KindFits("hydrate", "read")
    BY DEF Blank, KindFits, Finished
  <2>. HIDE DEF t
  <2>. QED  BY <1>1, <1>2, <2>1, BeginSound DEF Steps
<1>3. CASE Rollback(r, "refused")
  BY <1>1, <1>3, RollbackSound DEF Finished
<1>. QED  BY <1>2, <1>3 DEF ReadBooks

LEMMA HydrateSound ==
  ASSUME Typed, Sound, NEW r \in Requests, Hydrate(r)
  PROVE  Sound'
<1>. DEFINE s == session[r]
<1>1. /\ pc[r] = "hydrate" /\ s.kind = "read" /\ s \in SessionT
      /\ UNCHANGED <<stored, lock, draft, unused, tainted>>
  BY DEF Hydrate, Sound, RequestOk, KindFits, Typed, Private, history
<1>2. KindFits("hydrate", "read") /\ KindFits("flush", "read")
  BY DEF KindFits, Finished
<1>3. ASSUME NEW step \in {"hydrate", "flush"}, NEW t, Goto(r, step, t),
             t.kind = "read", t.qty = s.qty, t.bill = s.bill, t.order = s.order
      PROVE  Sound'
  BY <1>1, <1>2, <1>3, GoOnSound DEF Steps
<1>4. ASSUME NEW b \in s.left, Goto(r, "hydrate", [s EXCEPT !.left = @ \ {b}])
      PROVE  Sound'
  BY <1>1, <1>3, <1>4 DEF SessionT
<1>5. ASSUME NEW b \in s.left,
             Goto(r, "hydrate", [s EXCEPT !.left = @ \ {b}, !.seen[b] = cache[b],
                                          !.unsaved = @ \cup {b}])
      PROVE  Sound'
  BY <1>1, <1>3, <1>5 DEF SessionT
<1>6. CASE Goto(r, "flush", [s EXCEPT !.left = s.unsaved])
  BY <1>1, <1>3, <1>6 DEF SessionT
<1>. QED  BY <1>4, <1>5, <1>6 DEF Hydrate

LEMMA FlushBookSound ==
  ASSUME Typed, Sound, NEW r \in Requests, FlushBook(r)
  PROVE  Sound'
<1>. DEFINE s == session[r]
<1>1. /\ RequestOk(r) /\ pc[r] = "flush" /\ s.kind = "read" /\ s \in SessionT
      /\ KindFits("flush", "read")
  BY DEF FlushBook, Sound, RequestOk, KindFits, Typed, Finished
<1>. PICK b \in s.left :
        /\ Free(r, b)
        /\ \/ /\ row[b].live
              /\ Write(r, b, [row[b] EXCEPT !.stock = s.seen[b]])
              /\ tainted' = tainted \cup {b}
              /\ Goto(r, "flush", [s EXCEPT !.left = @ \ {b}])
              /\ UNCHANGED <<stored, unused>>
           \/ Rollback(r, "failed")
           \/ Goto(r, "flush", [s EXCEPT !.left = @ \ {b}]) /\ Private
  BY DEF FlushBook
<1>2. b \in Books /\ row[b] \in RowT
  BY <1>1 DEF SessionT, Typed
<1>. DEFINE t == [s EXCEPT !.left = @ \ {b}]
            v == [row[b] EXCEPT !.stock = s.seen[b]]
<1>3. t.kind = "read" /\ t.qty = s.qty /\ t.bill = s.bill /\ t.order = s.order
  BY <1>1 DEF SessionT
<1>4. v.live = row[b].live /\ v.price = row[b].price
  BY <1>2 DEF RowT
<1>. HIDE DEF t, v
<1>5. CASE /\ row[b].live /\ Write(r, b, v) /\ tainted' = tainted \cup {b}
           /\ Goto(r, "flush", t) /\ UNCHANGED <<stored, unused>>
  <2>1. pc'[r] = "flush" /\ session'[r] = t
    BY <1>5 DEF Goto, Typed
  <2>2. /\ lock' = [lock EXCEPT ![b] = r] /\ draft' = [draft EXCEPT ![b] = v] /\ row' = row
    BY <1>5 DEF Write, stored
  <2>3. ASSUME NEW c \in Books, lock'[c] = r PROVE Held(r, c)'
    <3>1. SameBook(c)' /\ c \in tainted'
      <4>1. CASE c = b
        BY <1>2, <1>4, <1>5, <2>2, <4>1 DEF SameBook, Typed
      <4>2. CASE c # b
        <5>1. lock[c] = r /\ Held(r, c)
          BY <1>1, <2>2, <2>3, <4>2 DEF RequestOk, Typed
        <5>. QED  BY <1>1, <1>5, <2>2, <4>2, <5>1 DEF Held, SameBook, Typed
      <4>. QED  BY <4>1, <4>2
    <3>. QED  BY <1>3, <2>1, <3>1 DEF Held, CartKinds
  <2>4. RequestOk(r)'
    BY <1>1, <1>3, <2>1, <2>3 DEF RequestOk
  <2>5. b \notin unused'
    BY <1>5 DEF Sound
  <2>. QED  BY <1>1, <1>2, <1>5, <2>4, <2>5, WriteSound DEF Steps
<1>6. CASE Rollback(r, "failed")
  BY <1>1, <1>6, RollbackSound DEF Finished
<1>7. CASE Goto(r, "flush", t) /\ Private
  BY <1>1, <1>3, <1>7, GoOnSound DEF Steps, Private, history
<1>. QED  BY <1>5, <1>6, <1>7 DEF t, v

LEMMA InsertBookSound ==
  ASSUME Typed, Sound, NEW r \in Requests, InsertBook(r)
  PROVE  Sound'
<1>. PICK b \in unused, level \in Levels, price \in Prices :
        /\ unused' = unused \ {b}
        /\ Write(r, b, [live |-> TRUE, stock |-> level, price |-> price])
        /\ tainted' = tainted \cup {b}
        /\ Goto(r, "cache", [Blank EXCEPT !.kind = "create", !.left = {b}, !.seen[b] = level])
  BY DEF InsertBook
<1>. DEFINE t == [Blank EXCEPT !.kind = "create", !.left = {b}, !.seen[b] = level]
            v == [live |-> TRUE, stock |-> level, price |-> price]
<1>1. pc[r] = "new" /\ UNCHANGED stored
  BY DEF InsertBook
<1>2. pc'[r] = "cache" /\ session'[r] = t
  BY DEF Goto, Typed
<1>3. t.kind = "create" /\ KindFits("cache", "create")
  BY DEF Blank, KindFits, Finished
<1>4. b \in Books /\ Free(r, b)
  BY DEF Typed, Sound, Free
<1>5. lock' = [lock EXCEPT ![b] = r] /\ draft' = [draft EXCEPT ![b] = v] /\ v.live
  BY DEF Write
<1>6. /\ Goto(r, "cache", t) /\ Write(r, b, v) /\ tainted \subseteq tainted'
      /\ unused' \subseteq unused /\ b \notin unused'
  OBVIOUS
<1>. HIDE DEF t, v
<1>7. ASSUME NEW c \in Books, lock'[c] = r PROVE Held(r, c)'
  <2>1. c = b
    BY <1>1, <1>4, <1>5, <1>7, NothingLocked DEF Typed
  <2>2. draft'[b].live /\ b \in tainted'
    BY <1>4, <1>5 DEF Typed
  <2>. QED  BY <1>2, <1>3, <2>1, <2>2 DEF Held, CartKinds
<1>8. RequestOk(r)'
  BY <1>2, <1>3, <1>7 DEF RequestOk
<1>. QED  BY <1>1, <1>4, <1>6, <1>8, WriteSound DEF Steps

LEMMA LoadBookSound ==
  ASSUME Typed, Sound, NEW r \in Requests, LoadBook(r)
  PROVE  Sound'
<1>. DEFINE t(b, level, price) ==
               [Blank EXCEPT !.kind = "patch", !.left = {b}, !.seen[b] = row[b].stock,
                             !.bill[b] = row[b].price, !.level = level, !.price = price]
<1>1. pc[r] = "new"
  BY DEF LoadBook
<1>2. ASSUME NEW b, NEW level, NEW price, Goto(r, "patch", t(b, level, price)), Private
      PROVE  Sound'
  <2>1. t(b, level, price).kind = "patch" /\ KindFits("patch", "patch")
    BY DEF Blank, KindFits, Finished
  <2>. HIDE DEF t
  <2>. QED  BY <1>1, <1>2, <2>1, BeginSound DEF Steps
<1>3. CASE Rollback(r, "refused")
  BY <1>1, <1>3, RollbackSound DEF Finished
<1>. QED  BY <1>2, <1>3 DEF LoadBook

\* A PATCH that leaves the level alone leaves the stock of the row it has locked.
LEMMA UpdateColumnsSound ==
  ASSUME Typed, Sound, NEW r \in Requests, NEW b \in Books, pc[r] = "patch", UpdateColumns(r, b)
  PROVE  Sound'
<1>. DEFINE s == session[r]
            v == Patched(s, b)
            t == [s EXCEPT !.seen[b] = v.stock]
<1>1. /\ RequestOk(r) /\ s.kind = "patch" /\ s \in SessionT /\ row[b] \in RowT
      /\ KindFits("cache", "patch") /\ Free(r, b)
  BY DEF UpdateColumns, Sound, RequestOk, KindFits, Typed, Finished
<1>2. t.kind = "patch"
  BY <1>1 DEF SessionT
<1>3. v.live = row[b].live /\ (~NewLevel(s, b) => v.stock = row[b].stock)
  BY <1>1 DEF Patched, RowT
<1>4. CASE /\ row[b].live /\ Write(r, b, v) /\ Goto(r, "cache", t) /\ UNCHANGED <<stored, unused>>
           /\ tainted' = IF NewLevel(s, b) THEN tainted \cup {b} ELSE tainted
  <2>. HIDE DEF t, v
  <2>1. pc'[r] = "cache" /\ session'[r] = t
    BY <1>4 DEF Goto, Typed
  <2>2. /\ lock' = [lock EXCEPT ![b] = r] /\ draft' = [draft EXCEPT ![b] = v] /\ row' = row
    BY <1>4 DEF Write, stored
  <2>3. ASSUME NEW c \in Books, lock'[c] = r PROVE Held(r, c)'
    <3>1. row'[c].live /\ draft'[c].live /\ (c \notin tainted' => draft'[c].stock = row'[c].stock)
      <4>1. CASE c = b
        BY <1>1, <1>3, <1>4, <2>2, <4>1 DEF Typed
      <4>2. CASE c # b
        <5>1. lock[c] = r /\ Held(r, c)
          BY <1>1, <2>2, <2>3, <4>2 DEF RequestOk, Typed
        <5>. QED  BY <1>1, <1>4, <2>2, <4>2, <5>1 DEF Held, Typed
      <4>. QED  BY <4>1, <4>2
    <3>. QED  BY <1>2, <2>1, <3>1 DEF Held, CartKinds
  <2>4. RequestOk(r)'
    BY <1>1, <1>2, <2>1, <2>3 DEF RequestOk
  <2>5. b \notin unused'
    BY <1>4 DEF Sound
  <2>6. tainted \subseteq tainted'
    BY <1>4
  <2>. QED  BY <1>1, <1>4, <2>4, <2>5, <2>6, WriteSound DEF Steps
<1>5. CASE Rollback(r, "failed")
  BY <1>5, RollbackSound DEF Finished
<1>. QED  BY <1>4, <1>5 DEF UpdateColumns

LEMMA PatchBookSound ==
  ASSUME Typed, Sound, NEW r \in Requests, PatchBook(r)
  PROVE  Sound'
<1>. DEFINE s == session[r]
<1>1. /\ pc[r] = "patch" /\ s.kind = "patch" /\ s \in SessionT /\ KindFits("cache", "patch")
  BY DEF PatchBook, Sound, RequestOk, KindFits, Typed, Finished
<1>. PICK b \in s.left :
        \/ UpdateColumns(r, b)
        \/ Goto(r, "cache", s) /\ Private
        \/ Goto(r, "cache", [s EXCEPT !.seen[b] = row[b].stock]) /\ Private
        \/ Rollback(r, "failed")
  BY DEF PatchBook
<1>2. b \in Books
  BY <1>1 DEF SessionT
<1>3. CASE UpdateColumns(r, b)
  BY <1>1, <1>2, <1>3, UpdateColumnsSound
<1>4. ASSUME NEW t, Goto(r, "cache", t), Private,
             t.kind = "patch", t.qty = s.qty, t.bill = s.bill, t.order = s.order
      PROVE  Sound'
  BY <1>1, <1>4, GoOnSound DEF Steps, Private, history
<1>5. CASE Goto(r, "cache", s) /\ Private
  BY <1>1, <1>4, <1>5
<1>6. CASE Goto(r, "cache", [s EXCEPT !.seen[b] = row[b].stock]) /\ Private
  BY <1>1, <1>4, <1>6 DEF SessionT
<1>7. CASE Rollback(r, "failed")
  BY <1>1, <1>7, RollbackSound DEF Finished
<1>. QED  BY <1>3, <1>5, <1>6, <1>7

LEMMA LoadDependantsSound ==
  ASSUME Typed, Sound, NEW r \in Requests, LoadDependants(r)
  PROVE  Sound'
<1>. DEFINE t(b) == [Blank EXCEPT !.kind = "delete", !.left = {b}, !.doomed = ItemsOf(b)]
<1>1. pc[r] = "new"
  BY DEF LoadDependants
<1>2. ASSUME NEW b, Goto(r, "unlink", t(b)), Private
      PROVE  Sound'
  <2>1. t(b).kind = "delete" /\ KindFits("unlink", "delete")
    BY DEF Blank, KindFits, Finished
  <2>. HIDE DEF t
  <2>. QED  BY <1>1, <1>2, <2>1, BeginSound DEF Steps
<1>3. CASE Rollback(r, "refused")
  BY <1>1, <1>3, RollbackSound DEF Finished
<1>. QED  BY <1>2, <1>3 DEF LoadDependants

LEMMA UnlinkItemsSound ==
  ASSUME Typed, Sound, NEW r \in Requests, UnlinkItems(r)
  PROVE  Sound'
<1>1. pc[r] = "unlink" /\ session[r].kind = "delete" /\ KindFits("erase", "delete")
  BY DEF UnlinkItems, Sound, RequestOk, KindFits, Finished
<1>2. CASE Goto(r, "erase", session[r]) /\ Private
  BY <1>1, <1>2, NothingLocked, GoOnSound DEF Steps, Private, history
<1>3. CASE Rollback(r, "failed")
  BY <1>1, <1>3, RollbackSound DEF Finished
<1>. QED  BY <1>2, <1>3 DEF UnlinkItems

\* The foreign keys are checked under the row lock; what they found stays so.
LEMMA EraseBookSound ==
  ASSUME Typed, Sound, NEW r \in Requests, EraseBook(r)
  PROVE  Sound'
<1>. DEFINE s == session[r]
<1>1. /\ pc[r] = "erase" /\ s.kind = "delete" /\ s \in SessionT /\ KindFits("cache", "delete")
  BY DEF EraseBook, Sound, RequestOk, KindFits, Typed, Finished
<1>. PICK b \in s.left :
        /\ Free(r, b)
        /\ \/ Rollback(r, "failed")
           \/ /\ row[b].live /\ ~Referenced(r, b) /\ Write(r, b, NoBook)
              /\ Goto(r, "cache", s) /\ UNCHANGED <<stored, unused, history>>
           \/ Goto(r, "cache", s) /\ Private
  BY DEF EraseBook
<1>2. b \in Books /\ \A c \in Books : lock[c] # r
  BY <1>1, NothingLocked DEF SessionT
<1>3. CASE Rollback(r, "failed")
  BY <1>1, <1>3, RollbackSound DEF Finished
<1>4. CASE /\ row[b].live /\ ~Referenced(r, b) /\ Write(r, b, NoBook)
           /\ Goto(r, "cache", s) /\ UNCHANGED <<stored, unused, history>>
  <2>1. pc'[r] = "cache" /\ session'[r] = s
    BY <1>4 DEF Goto, Typed
  <2>2. \A c \in Books : lock'[c] = r <=> c = b
    BY <1>2, <1>4 DEF Write, Typed
  <2>3. ~draft'[b].live /\ row' = row
    BY <1>2, <1>4 DEF Write, Typed, NoBook, stored
  <2>4. ~OnAnOrder(b)' /\ ItemsOf(b)' \subseteq s.doomed
    BY <1>4 DEF Referenced, stored, OnAnOrder, Ordered, ItemsOf, InCart
  <2>5. Held(r, b)'
    BY <1>1, <1>4, <2>1, <2>2, <2>3, <2>4 DEF Held, CartKinds
  <2>6. RequestOk(r)'
    BY <1>1, <2>1, <2>2, <2>5 DEF RequestOk
  <2>7. b \notin unused'
    BY <1>4 DEF Sound
  <2>. QED  BY <1>1, <1>2, <1>4, <2>6, <2>7, WriteSound DEF Steps, history
<1>5. CASE Goto(r, "cache", s) /\ Private
  BY <1>1, <1>5, GoOnSound DEF Steps, Private, history
<1>. QED  BY <1>3, <1>4, <1>5
-----------------------------------------------------------------------------
(* CartService.                                                            *)

\* A request of the cart has no book locked.
LEMMA CartLocksNothing ==
  ASSUME Sound, NEW r \in Requests, pc[r] \in {"new", "open", "fill", "mutate"}
  PROVE  \A b \in Books : lock[b] # r
<1>1. RequestOk(r)
  BY DEF Sound
<1>2. session[r].kind \in CartKinds \cup {"none"}
  BY <1>1 DEF RequestOk, KindFits
<1>. QED  BY <1>1, <1>2 DEF RequestOk, Held

\* A handler of the cart that has found the cart, or has none.
LEMMA EnterCartSound ==
  ASSUME Typed, Sound, NEW r \in Requests, pc[r] \in {"new", "open"},
         NEW step \in {"open", "fill", "mutate"}, NEW t, Goto(r, step, t), Private,
         t.kind \in CartKinds,
         step = "fill" => /\ ~HasCart(Buyer[r])
                          /\ \A x \in Requests : Buyer[x] = Buyer[r] => pc[x] # "fill",
         step = "mutate" => HasCart(Buyer[r]) /\ (t.kind = "setQuantity" => t.item.id # Nil)
  PROVE  Sound'
<1>1. /\ pc'[r] = step /\ session'[r] = t
      /\ \A x \in Requests \ {r} : pc'[x] = pc[x] /\ session'[x] = session[x]
  BY DEF Goto, Typed
<1>2. RequestOk(r)'
  <2>1. \A b \in Books : lock'[b] # r
    BY CartLocksNothing DEF Private
  <2>2. KindFits(step, t.kind) /\ t.kind \notin {"checkout", "cancel"}
    BY DEF KindFits, Finished, CartKinds
  <2>. QED  BY <1>1, <2>1, <2>2 DEF RequestOk
<1>3. CreatorOk(r)'
  <2>1. HasCart(Buyer[r])' <=> HasCart(Buyer[r])
    BY DEF Private, stored, HasCart
  <2>. QED  BY <1>1, <2>1 DEF CreatorOk
<1>4. UNCHANGED <<stored, lock, draft, unused, tainted>>
  BY DEF Private, history
<1>5. \A b \in unused' : b \in unused /\ lock'[b] = Nil
  BY <1>4 DEF Sound
<1>. QED  BY <1>1, <1>2, <1>3, <1>4, <1>5, QuietSound

LEMMA ViewCartSound ==
  ASSUME Typed, Sound, NEW r \in Requests, ViewCart(r)
  PROVE  Sound'
<1>. DEFINE t == [Blank EXCEPT !.kind = "view"]
<1>1. pc[r] = "new"
  BY DEF ViewCart
<1>2. CASE Rollback(r, "ok")
  BY <1>1, <1>2, RollbackSound DEF Finished
<1>3. CASE Goto(r, "open", t) /\ Private
  <2>1. t.kind \in CartKinds
    BY DEF Blank, CartKinds
  <2>. HIDE DEF t
  <2>. QED  BY <1>1, <1>3, <2>1, EnterCartSound
<1>. QED  BY <1>2, <1>3 DEF ViewCart, Enter

\* A step that writes cart rows, or the cart, and commits.
LEMMA CartStepSound ==
  ASSUME Typed, Sound, NEW r \in Requests, pc[r] \in {"open", "fill", "mutate"},
         Finish(r, "ok"), UNCHANGED <<row, orders, lock, draft, unused, tainted>>,
         \/ carts' = carts
         \/ /\ carts' = carts \cup {<<Buyer[r], r>>} /\ ~HasCart(Buyer[r])
            /\ \A x \in Requests \ {r} : pc[x] = "fill" => Buyer[x] # Buyer[r],
         \A u \in Users, b \in Books :
            \/ cart'[u][b] = NoCartRow \/ cart'[u][b] = cart[u][b]
            \/ /\ cart'[u][b].id # Nil /\ row[b].live /\ HasCart(u)'
               /\ cart'[u][b].id = cart[u][b].id \/ ~BlocksForeignKey(b)
  PROVE  Sound'
<1>1. /\ pc'[r] = "ok" /\ session'[r] = Blank
      /\ \A x \in Requests \ {r} : pc'[x] = pc[x] /\ session'[x] = session[x]
  BY DEF Finish, Goto, Typed
<1>2. \A b \in Books : lock[b] # r
  BY CartLocksNothing
<1>3. ASSUME NEW x \in Requests PROVE RequestOk(x)'
  <2>1. CASE x = r
    <3>1. Blank.kind = "none" /\ KindFits("ok", "none")
      BY DEF Blank, KindFits, Finished
    <3>. QED  BY <1>1, <1>2, <2>1, <3>1 DEF RequestOk
  <2>2. CASE x # r
    <3>1. RequestOk(x)
      BY DEF Sound
    <3>2. session[x].kind = "cancel" => orders[session[x].order].status # "none"
      BY <3>1 DEF RequestOk
    <3>3. ASSUME session[x].kind = "delete", NEW b \in Books, lock[b] = x
          PROVE  ~OnAnOrder(b)' /\ ItemsOf(b)' \subseteq session[x].doomed
      <4>1. ~OnAnOrder(b) /\ ItemsOf(b) \subseteq session[x].doomed
        BY <3>1, <3>3 DEF RequestOk, Held
      <4>2. BlocksForeignKey(b)
        BY <3>3, RequestsAssumption DEF BlocksForeignKey
      <4>3. ItemsOf(b)' \subseteq ItemsOf(b)
        BY <4>2 DEF ItemsOf, InCart, NoCartRow
      <4>4. OnAnOrder(b)' <=> OnAnOrder(b)
        BY DEF OnAnOrder, Ordered
      <4>. QED  BY <4>1, <4>3, <4>4
    <3>. QED  BY <1>1, <2>2, <3>1, <3>2, <3>3, Undisturbed
  <2>. QED  BY <2>1, <2>2
<1>4. ASSUME NEW o \in Requests PROVE OrderOk(o)'
  <2>1. OrderOk(o)
    BY DEF Sound
  <2>2. Ordered(o)' = Ordered(o) /\ Live' = Live /\ (pc[o] = "ok" => pc'[o] = "ok")
    BY <1>1 DEF Ordered, Live
  <2>. QED  BY <2>1, <2>2 DEF OrderOk
<1>5. \A u \in Users : HasCart(u) => HasCart(u)'
  BY DEF HasCart
<1>6. ASSUME NEW u \in Users PROVE CartOk(u)'
  <2>1. CartOk(u)
    BY DEF Sound
  <2>2. ASSUME NEW b \in Books, cart'[u][b].id # Nil
        PROVE  row[b].live /\ HasCart(u)'
    BY <1>5, <2>1, <2>2 DEF CartOk, InCart, Live, NoCartRow
  <2>3. ASSUME NEW b \in Books, cart'[u][b].id = Nil
        PROVE  cart'[u][b].qty = 0
    BY <2>1, <2>3 DEF CartOk, InCart, NoCartRow
  <2>. QED  BY <2>2, <2>3 DEF CartOk, InCart, Live
<1>7. ASSUME NEW x \in Requests PROVE CreatorOk(x)'
  <2>1. CASE x = r
    BY <1>1, <2>1 DEF CreatorOk
  <2>2. CASE x # r
    <3>1. CreatorOk(x) /\ Buyer[x] \in Users
      BY RequestsAssumption DEF Sound
    <3>2. pc[x] = "fill" => ~HasCart(Buyer[x])'
      BY <2>2, <3>1 DEF CreatorOk, HasCart
    <3>. QED  BY <1>1, <1>5, <2>2, <3>1, <3>2 DEF CreatorOk
  <2>. QED  BY <2>1, <2>2
<1>8. \A x, y \in Requests : pc'[x] = "fill" /\ pc'[y] = "fill" /\ Buyer[x] = Buyer[y] => x = y
  BY <1>1 DEF Sound
<1>9. \A c, d \in carts' : c[1] = d[1] => c = d
  BY DEF Sound, HasCart
<1>10. \A b \in unused' : lock'[b] = Nil /\ ~row'[b].live
  BY DEF Sound
<1>. QED  BY <1>3, <1>4, <1>6, <1>7, <1>8, <1>9, <1>10 DEF Sound

\* INSERT INTO carts waits for every other, so that only one goes on.
LEMMA CreateCartSound ==
  ASSUME Typed, Sound, NEW r \in Requests, CreateCart(r)
  PROVE  Sound'
<1>. DEFINE s == session[r]
<1>1. /\ pc[r] = "open" /\ s.kind \in CartKinds
      /\ \A x \in Requests : Buyer[x] = Buyer[r] => pc[x] # "fill"
  BY DEF CreateCart, Sound, RequestOk, KindFits, Opened
<1>2. CASE \E outcome \in {"failed", "refused"} : Rollback(r, outcome)
  BY <1>1, <1>2, RollbackSound DEF Finished
<1>3. CASE MayCreate(r) /\ Goto(r, "fill", s) /\ Private
  BY <1>1, <1>3, EnterCartSound DEF MayCreate
<1>4. CASE /\ MayCreate(r) /\ carts' = carts \cup {<<Buyer[r], r>>} /\ Finish(r, "ok")
           /\ UNCHANGED <<row, cart, orders, lock, draft, unused, history>>
  BY <1>1, <1>4, CartStepSound DEF MayCreate, history
<1>. QED  BY <1>2, <1>3, <1>4 DEF CreateCart

LEMMA ReadItemSound ==
  ASSUME Typed, Sound, NEW r \in Requests, pc[r] = "new", NEW step \in {"open", "mutate"},
         NEW kind \in CartKinds, NEW b \in Books, NEW quantity,
         ReadItem(r, step, kind, b, quantity), Private,
         step = "mutate" => HasCart(Buyer[r]) /\ (kind = "setQuantity" => b \in InCart(Buyer[r]))
  PROVE  Sound'
<1>. DEFINE t == [Blank EXCEPT !.kind = kind, !.route = <<b>>, !.qty[b] = quantity,
                               !.item = cart[Buyer[r]][b]]
<1>1. t.kind = kind /\ t.item = cart[Buyer[r]][b]
  BY DEF Blank
<1>2. Goto(r, step, t)
  BY DEF ReadItem
<1>3. b \in InCart(Buyer[r]) => t.item.id # Nil
  BY <1>1 DEF InCart
<1>. HIDE DEF t
<1>. QED  BY <1>1, <1>2, <1>3, EnterCartSound

LEMMA LoadForAddSound ==
  ASSUME Typed, Sound, NEW r \in Requests, LoadForAdd(r)
  PROVE  Sound'
<1>1. pc[r] = "new"
  BY DEF LoadForAdd
<1>2. ASSUME NEW b \in Books, NEW quantity \in Quantities, Private,
             ReadItem(r, IF HasCart(Buyer[r]) THEN "mutate" ELSE "open", "add", b, quantity)
      PROVE  Sound'
  BY <1>1, <1>2, ReadItemSound DEF CartKinds
<1>3. CASE Rollback(r, "refused")
  BY <1>1, <1>3, RollbackSound DEF Finished
<1>. QED  BY <1>2, <1>3 DEF LoadForAdd

LEMMA LoadForSetSound ==
  ASSUME Typed, Sound, NEW r \in Requests, LoadForSet(r)
  PROVE  Sound'
<1>. DEFINE t == [Blank EXCEPT !.kind = "setQuantity"]
<1>1. pc[r] = "new"
  BY DEF LoadForSet
<1>2. CASE Goto(r, "open", t) /\ Private
  <2>1. t.kind \in CartKinds
    BY DEF Blank, CartKinds
  <2>. HIDE DEF t
  <2>. QED  BY <1>1, <1>2, <2>1, EnterCartSound
<1>3. ASSUME NEW b \in Books, NEW quantity \in Quantities, Private,
             HasCart(Buyer[r]), b \in InCart(Buyer[r]),
             ReadItem(r, "mutate", "setQuantity", b, quantity)
      PROVE  Sound'
  BY <1>1, <1>3, ReadItemSound DEF CartKinds
<1>4. CASE Rollback(r, "refused")
  BY <1>1, <1>4, RollbackSound DEF Finished
<1>. QED  BY <1>2, <1>3, <1>4 DEF LoadForSet, Enter

LEMMA LoadForRemoveSound ==
  ASSUME Typed, Sound, NEW r \in Requests, LoadForRemove(r)
  PROVE  Sound'
<1>. DEFINE t(kind) == [Blank EXCEPT !.kind = kind]
            d(kind, items) == [Blank EXCEPT !.kind = kind, !.doomed = items]
<1>1. pc[r] = "new"
  BY DEF LoadForRemove
<1>2. ASSUME NEW kind \in {"remove", "empty"}, Goto(r, "open", t(kind)), Private
      PROVE  Sound'
  <2>1. t(kind).kind \in CartKinds
    BY DEF Blank, CartKinds
  <2>. HIDE DEF t
  <2>. QED  BY <1>1, <1>2, <2>1, EnterCartSound
<1>3. ASSUME NEW kind \in {"remove", "empty"}, NEW items, HasCart(Buyer[r]),
             Goto(r, "mutate", d(kind, items)), Private
      PROVE  Sound'
  <2>1. d(kind, items).kind \in CartKinds \ {"setQuantity"}
    BY DEF Blank, CartKinds
  <2>. HIDE DEF d
  <2>. QED  BY <1>1, <1>3, <2>1, EnterCartSound
<1>4. CASE Rollback(r, "refused")
  BY <1>1, <1>4, RollbackSound DEF Finished
<1>. QED  BY <1>2, <1>3, <1>4 DEF LoadForRemove, Enter

\* A row that is written is of a book that exists, in a cart that exists, and new
\* only where no deletion of the book is under way.
LEMMA SaveItemSound ==
  ASSUME Typed, Sound, NEW r \in Requests, NEW b \in Books, NEW item, SaveItem(r, b, item),
         pc[r] \in {"fill", "mutate"}, row[b].live, item.id # Nil,
         item.id = cart[Buyer[r]][b].id \/ ~BlocksForeignKey(b)
  PROVE  Sound'
<1>1. /\ cart' = [cart EXCEPT ![Buyer[r]][b] = item] /\ carts' = CartsWith(r)
      /\ Finish(r, "ok") /\ UNCHANGED <<row, orders, lock, draft, unused, tainted>>
  BY DEF SaveItem, history
<1>2. CreatorOk(r) /\ Buyer[r] \in Users
  BY RequestsAssumption DEF Sound
<1>3. \/ carts' = carts
      \/ /\ carts' = carts \cup {<<Buyer[r], r>>} /\ ~HasCart(Buyer[r])
         /\ \A x \in Requests \ {r} : pc[x] = "fill" => Buyer[x] # Buyer[r]
  BY <1>1, <1>2 DEF CartsWith, Opened, CreatorOk, Sound
<1>4. HasCart(Buyer[r])'
  <2>1. CASE pc[r] = "fill"
    <3>1. <<Buyer[r], r>> \in carts' /\ <<Buyer[r], r>>[1] = Buyer[r]
      BY <1>1, <2>1 DEF CartsWith, Opened
    <3>. QED  BY <3>1 DEF HasCart
  <2>2. CASE pc[r] = "mutate"
    BY <1>1, <1>2, <2>2 DEF CartsWith, Opened, CreatorOk, HasCart
  <2>. QED  BY <2>1, <2>2
<1>5. ASSUME NEW u \in Users, NEW c \in Books
      PROVE  \/ cart'[u][c] = cart[u][c]
             \/ /\ cart'[u][c].id # Nil /\ row[c].live /\ HasCart(u)'
                /\ cart'[u][c].id = cart[u][c].id \/ ~BlocksForeignKey(c)
  <2>1. CASE u = Buyer[r] /\ c = b
    BY <1>1, <1>4, <2>1 DEF Typed
  <2>2. CASE ~(u = Buyer[r] /\ c = b)
    BY <1>1, <2>2 DEF Typed
  <2>. QED  BY <2>1, <2>2
<1>. QED  BY <1>1, <1>3, <1>5, CartStepSound

LEMMA InsertItemSound ==
  ASSUME Typed, Sound, NEW r \in Requests, InsertItem(r)
  PROVE  Sound'
<1>. DEFINE b == Head(session[r].route)
            item == [id |-> r, qty |-> session[r].qty[b]]
<1>1. pc[r] \in {"fill", "mutate"} /\ b \in Books /\ ~BlocksForeignKey(b)
  BY HeadTyped DEF InsertItem, Opened, Typed, Ready
<1>2. CASE Rollback(r, "failed")
  BY <1>1, <1>2, RollbackSound DEF Finished
<1>3. CASE row[b].live /\ SaveItem(r, b, item)
  <2>1. item.id # Nil
    BY RequestsAssumption
  <2>. HIDE DEF item
  <2>. QED  BY <1>1, <1>3, <2>1, SaveItemSound
<1>. QED  BY <1>2, <1>3 DEF InsertItem, MayInsert

\* The row that is overwritten is there, and of a book that is there.
LEMMA OverwriteSound ==
  ASSUME Typed, Sound, NEW r \in Requests, pc[r] = "mutate", session[r].item.id # Nil,
         NEW b \in Books, StillThere(r, b), NEW quantity,
         SaveItem(r, b, [session[r].item EXCEPT !.qty = quantity])
  PROVE  Sound'
<1>. DEFINE item == [session[r].item EXCEPT !.qty = quantity]
<1>1. item.id = session[r].item.id
  BY DEF Typed, SessionT, CartRowT
<1>2. Buyer[r] \in Users /\ b \in InCart(Buyer[r])
  BY RequestsAssumption DEF StillThere, InCart
<1>3. row[b].live
  BY <1>2 DEF Sound, CartOk, Live
<1>4. item.id = cart[Buyer[r]][b].id
  BY <1>1 DEF StillThere
<1>. HIDE DEF item
<1>. QED  BY <1>1, <1>3, <1>4, SaveItemSound DEF item

LEMMA MergeItemSound ==
  ASSUME Typed, Sound, NEW r \in Requests, MergeItem(r)
  PROVE  Sound'
<1>. DEFINE b == Head(session[r].route)
<1>1. pc[r] = "mutate" /\ b \in Books /\ session[r].item.id # Nil
  BY HeadTyped DEF MergeItem, Typed, Ready
<1>2. CASE Rollback(r, "failed")
  BY <1>1, <1>2, RollbackSound DEF Finished
<1>3. CASE /\ StillThere(r, b)
           /\ SaveItem(r, b, [session[r].item EXCEPT !.qty = @ + session[r].qty[b]])
  BY <1>1, <1>3, OverwriteSound
<1>. QED  BY <1>2, <1>3 DEF MergeItem

LEMMA SetItemSound ==
  ASSUME Typed, Sound, NEW r \in Requests, SetItem(r)
  PROVE  Sound'
<1>. DEFINE b == Head(session[r].route)
<1>1. pc[r] = "mutate" /\ b \in Books
  BY HeadTyped DEF SetItem, Typed, Ready
<1>2. session[r].item.id # Nil
  BY DEF SetItem, Sound, CreatorOk
<1>3. CASE Rollback(r, "failed") \/ Rollback(r, "ok")
  BY <1>1, <1>3, RollbackSound DEF Finished
<1>4. CASE /\ StillThere(r, b)
           /\ SaveItem(r, b, [session[r].item EXCEPT !.qty = session[r].qty[b]])
  BY <1>1, <1>2, <1>4, OverwriteSound
<1>. QED  BY <1>3, <1>4 DEF SetItem

LEMMA WithoutLeaves ==
  ASSUME NEW items, NEW u \in Users, NEW b \in Books
  PROVE  Without(items)[u][b] \in {NoCartRow, cart[u][b]}
BY DEF Without

LEMMA RemoveItemsSound ==
  ASSUME Typed, Sound, NEW r \in Requests, RemoveItems(r)
  PROVE  Sound'
<1>1. /\ cart' = Without(session[r].doomed) /\ Finish(r, "ok") /\ pc[r] = "mutate"
      /\ UNCHANGED <<row, carts, orders, lock, draft, unused, tainted>>
  BY DEF RemoveItems, history
<1>2. \A u \in Users, b \in Books : cart'[u][b] = NoCartRow \/ cart'[u][b] = cart[u][b]
  BY <1>1, WithoutLeaves
<1>. QED  BY <1>1, <1>2, CartStepSound
-----------------------------------------------------------------------------
(* Publishing and committing.                                              *)

LEMMA PublishSound ==
  ASSUME Typed, Sound, NEW r \in Requests, PublishToCache(r) \/ PublishToHub(r)
  PROVE  Sound'
<1>. DEFINE s == session[r]
<1>1. /\ pc[r] \in {"cache", "announce"} /\ s \in SessionT /\ KindFits(pc[r], s.kind)
      /\ UNCHANGED <<stored, lock, draft, unused, tainted>>
  BY DEF PublishToCache, PublishToHub, Sound, RequestOk, Typed, history
<1>2. KindFits("cache", s.kind) /\ KindFits("announce", s.kind)
  BY <1>1 DEF KindFits, Finished
<1>3. ASSUME NEW step \in {"cache", "announce"}, NEW t, Goto(r, step, t), t.kind = s.kind,
             t.qty = s.qty, t.bill = s.bill, t.order = s.order, t.doomed = s.doomed
      PROVE  Sound'
  BY <1>1, <1>2, <1>3, GoOnSound DEF Steps
<1>4. ASSUME NEW b \in Books, Goto(r, "announce", [s EXCEPT !.route = <<b>>])
      PROVE  Sound'
  BY <1>1, <1>3, <1>4 DEF SessionT
<1>5. ASSUME NEW b \in Books, Goto(r, "cache", [s EXCEPT !.route = << >>, !.left = @ \ {b}])
      PROVE  Sound'
  BY <1>1, <1>3, <1>5 DEF SessionT
<1>6. CASE PublishToCache(r)
  BY <1>1, <1>4, <1>6 DEF PublishToCache, SessionT
<1>7. CASE PublishToHub(r)
  <2>1. Head(s.route) \in Books
    BY <1>7, HeadTyped DEF PublishToHub, Typed, Ready
  <2>. QED  BY <1>5, <1>7, <2>1 DEF PublishToHub
<1>. QED  BY <1>6, <1>7

\* What a handler that is ready to commit knows of the rows it has locked.
LEMMA CommitHolds ==
  ASSUME Typed, Sound, NEW r \in Requests, Commit(r)
  PROVE  /\ session[r].kind \in {"checkout", "cancel", "read", "create", "patch", "delete"}
         /\ pc[r] \in {"cache", "flush"}
         /\ \A b \in Books : lock[b] = r => Held(r, b) /\ row'[b] = draft[b]
         /\ \A b \in Books : lock[b] # r => row'[b] = row[b]
         /\ session[r].kind = "checkout" =>
               /\ \E b \in Books : lock[b] = r
               /\ \A b \in Books : session[r].qty[b] # 0 <=> lock[b] = r
         /\ session[r].kind = "cancel" =>
               /\ session[r].order \in Requests /\ orders[session[r].order].status # "none"
               /\ \A b \in Books : lock[b] = r <=> orders[session[r].order].qty[b] # 0
<1>. DEFINE s == session[r]
<1>1. pc[r] \in {"cache", "flush"} /\ RequestOk(r)
  BY DEF Commit, ReadyToCommit, Sound
<1>2. s.kind \in {"checkout", "cancel", "read", "create", "patch", "delete"}
  BY <1>1 DEF RequestOk, KindFits
<1>3. \A b \in Books : lock[b] = r => Held(r, b)
  BY <1>1 DEF RequestOk
<1>4. \A b \in Books : /\ lock[b] = r => row'[b] = draft[b]
                       /\ lock[b] # r => row'[b] = row[b]
  BY DEF Commit
<1>5. ASSUME s.kind = "checkout"
      PROVE  /\ \E b \in Books : lock[b] = r
             /\ \A b \in Books : s.qty[b] # 0 <=> lock[b] = r
  <2>1. Covered(r, "reserve") /\ \E b \in Books : lock[b] = r
    BY <1>1, <1>5 DEF RequestOk
  <2>2. \A b \in Books : lock[b] = r => s.qty[b] >= 1
    BY <1>3, <1>5 DEF Held
  <2>3. \A b \in Books : lock[b] = r => s.qty[b] # 0
    BY <2>2
  <2>. QED  BY <1>1, <2>1, <2>3 DEF Covered
<1>6. ASSUME s.kind = "cancel"
      PROVE  /\ s.order \in Requests /\ orders[s.order].status # "none"
             /\ \A b \in Books : lock[b] = r <=> orders[s.order].qty[b] # 0
  <2>1. /\ s.order \in Requests /\ orders[s.order].status # "none"
        /\ s.qty = orders[s.order].qty /\ Covered(r, "restock")
    BY <1>1, <1>6 DEF RequestOk
  <2>2. \A b \in Books : lock[b] = r => s.qty[b] # 0
    BY <1>3, <1>6 DEF Held
  <2>. QED  BY <1>1, <2>1, <2>2 DEF Covered
<1>. QED  BY <1>1, <1>2, <1>3, <1>4, <1>5, <1>6

\* A commit writes the order of a checkout, or the status of a cancelled one.
LEMMA CommitWritesOrders ==
  ASSUME Typed, Sound, NEW r \in Requests, Commit(r)
  PROVE  /\ session[r].kind = "checkout" =>
               /\ orders[r].status = "none" /\ orders'[r].status = "placed"
               /\ orders'[r].qty = session[r].qty /\ orders'[r].price = session[r].bill
               /\ \A o \in Requests \ {r} : orders'[o] = orders[o]
         /\ session[r].kind = "cancel" =>
               /\ orders' = [orders EXCEPT ![session[r].order].status = "cancelled"]
               /\ \A o \in Requests : orders'[o].qty = orders[o].qty
               /\ \A o \in Requests : orders'[o].status # "none" <=> orders[o].status # "none"
         /\ session[r].kind \notin {"checkout", "cancel"} => orders' = orders
<1>. DEFINE s == session[r]
<1>1. pc[r] # "ok" /\ orders[r].status = "none"
  BY CommitHolds DEF Sound, OrderOk
<1>2. CASE s.kind = "checkout"
  <2>1. orders' = [orders EXCEPT ![r] = [status |-> "placed", qty |-> s.qty, price |-> s.bill]]
    BY <1>2 DEF Commit, OrdersAfter
  <2>. QED  BY <1>1, <1>2, <2>1 DEF Typed
<1>3. CASE s.kind = "cancel"
  <2>1. orders' = [orders EXCEPT ![s.order].status = "cancelled"]
    BY <1>3 DEF Commit, OrdersAfter
  <2>2. s.order \in Requests /\ orders[s.order].status # "none"
    BY <1>3, CommitHolds
  <2>3. orders[s.order] \in OrderT
    BY <2>2 DEF Typed
  <2>4. /\ orders'[s.order].qty = orders[s.order].qty
        /\ orders'[s.order].status = "cancelled"
    BY <2>1, <2>2, <2>3 DEF Typed, OrderT
  <2>5. \A o \in Requests \ {s.order} : orders'[o] = orders[o]
    BY <2>1 DEF Typed
  <2>. QED  BY <1>3, <2>1, <2>2, <2>4, <2>5
<1>4. CASE s.kind \notin {"checkout", "cancel"}
  BY <1>4 DEF Commit, OrdersAfter
<1>. QED  BY <1>2, <1>3, <1>4

\* The books that a commit takes from the shelf: what a deletion has locked.
LEMMA CommitKeepsBooks ==
  ASSUME Typed, Sound, NEW r \in Requests, Commit(r), NEW b \in Books, row[b].live
  PROVE  row'[b].live \/ (session[r].kind = "delete" /\ lock[b] = r)
<1>1. CASE lock[b] = r
  BY <1>1, CommitHolds DEF Held, SameBook
<1>2. CASE lock[b] # r
  BY <1>2, CommitHolds
<1>. QED  BY <1>1, <1>2

LEMMA CommitSound ==
  ASSUME Typed, Sound, NEW r \in Requests, Commit(r)
  PROVE  Sound'
<1>. DEFINE s == session[r]
<1>1. /\ pc'[r] = "ok" /\ session'[r] = Blank
      /\ \A x \in Requests \ {r} : pc'[x] = pc[x] /\ session'[x] = session[x]
  BY DEF Commit, Finish, Goto, Typed
<1>2. \A b \in Books : lock'[b] = IF lock[b] = r THEN Nil ELSE lock[b]
  BY DEF Commit, Unlocked
<1>3. /\ UNCHANGED <<carts, draft, unused>> /\ tainted \subseteq tainted'
      /\ \A u \in Users, b \in Books : cart'[u][b] \in {NoCartRow, cart[u][b]}
  BY WithoutLeaves DEF Commit
<1>13. /\ s.kind = "checkout" =>
             /\ orders[r].status = "none" /\ orders'[r].status = "placed"
             /\ orders'[r].qty = s.qty
             /\ \A b \in Books : s.qty[b] # 0 <=> lock[b] = r
       /\ \A o \in Requests :
             \/ s.kind = "checkout" /\ o = r
             \/ /\ orders'[o].qty = orders[o].qty
                /\ orders'[o].status # "none" <=> orders[o].status # "none"
  <2>1. CASE s.kind = "checkout"
    <3>1. /\ orders[r].status = "none" /\ orders'[r].status = "placed"
          /\ orders'[r].qty = s.qty /\ \A o \in Requests \ {r} : orders'[o] = orders[o]
      BY <2>1, CommitWritesOrders
    <3>2. \A b \in Books : s.qty[b] # 0 <=> lock[b] = r
      BY <2>1, CommitHolds
    <3>. QED  BY <2>1, <3>1, <3>2
  <2>2. CASE s.kind = "cancel"
    BY <2>2, CommitWritesOrders
  <2>3. CASE s.kind \notin {"checkout", "cancel"}
    BY <2>3, CommitWritesOrders
  <2>. QED  BY <2>1, <2>2, <2>3
<1>4. ASSUME NEW b \in Books, ~OnAnOrder(b), lock[b] # r PROVE ~OnAnOrder(b)'
  <2>1. CASE s.kind = "checkout"
    <3>1. s.qty[b] = 0
      BY <1>4, <2>1, CommitHolds
    <3>. QED  BY <1>4, <2>1, <3>1, CommitWritesOrders DEF OnAnOrder, Ordered
  <2>2. CASE s.kind # "checkout"
    BY <1>4, <2>2, CommitWritesOrders DEF OnAnOrder, Ordered
  <2>. QED  BY <2>1, <2>2
<1>5. \A b \in Books : ItemsOf(b)' \subseteq ItemsOf(b)
  BY <1>3 DEF ItemsOf, InCart, NoCartRow
<1>6. ASSUME NEW x \in Requests PROVE RequestOk(x)'
  <2>1. CASE x = r
    <3>1. Blank.kind = "none" /\ KindFits("ok", "none")
      BY DEF Blank, KindFits, Finished
    <3>2. \A b \in Books : lock'[b] # r
      BY <1>2, RequestsAssumption
    <3>. QED  BY <1>1, <2>1, <3>1, <3>2 DEF RequestOk
  <2>2. CASE x # r
    <3>1. RequestOk(x)
      BY DEF Sound
    <3>2. \A b \in Books : lock'[b] = x <=> lock[b] = x
      BY <1>2, <2>2, RequestsAssumption
    <3>3. \A b \in Books : lock[b] = x => draft'[b] = draft[b] /\ row'[b] = row[b]
      BY <1>3, <2>2, CommitHolds
    <3>4. ASSUME session[x].kind = "cancel"
          PROVE  /\ orders'[session[x].order].qty = orders[session[x].order].qty
                 /\ orders'[session[x].order].status # "none"
      <4>1. session[x].order \in Requests /\ orders[session[x].order].status # "none"
        BY <3>1, <3>4 DEF RequestOk
      <4>2. s.kind = "checkout" => session[x].order # r
        BY <1>13, <4>1
      <4>. QED  BY <1>13, <4>1, <4>2
    <3>5. ASSUME session[x].kind = "delete", NEW b \in Books, lock[b] = x
          PROVE  ~OnAnOrder(b)' /\ ItemsOf(b)' \subseteq session[x].doomed
      <4>1. ~OnAnOrder(b) /\ ItemsOf(b) \subseteq session[x].doomed
        BY <3>1, <3>5 DEF RequestOk, Held
      <4>. QED  BY <1>4, <1>5, <2>2, <3>5, <4>1
    <3>. QED  BY <1>1, <1>3, <2>2, <3>1, <3>2, <3>3, <3>4, <3>5, Undisturbed
  <2>. QED  BY <2>1, <2>2
<1>7. ASSUME NEW o \in Requests PROVE OrderOk(o)'
  <2>1. OrderOk(o)
    BY DEF Sound
  <2>2. CASE s.kind = "checkout" /\ o = r
    <3>1. \A b \in Books : orders'[o].qty[b] # 0 => lock[b] = r
      BY <1>13, <2>2
    <3>2. \A b \in Books : lock[b] = r => row'[b].live
      BY <2>2, CommitHolds DEF Held, SameBook
    <3>. QED  BY <1>1, <1>13, <2>2, <3>1, <3>2 DEF OrderOk, Ordered, Live
  <2>3. CASE ~(s.kind = "checkout" /\ o = r)
    <3>1. orders'[o].qty = orders[o].qty /\ (orders'[o].status # "none" <=> orders[o].status # "none")
      BY <1>13, <2>3
    <3>2. ASSUME NEW b \in Ordered(o) PROVE row'[b].live
      <4>1. b \in Books /\ row[b].live /\ OnAnOrder(b)
        BY <2>1, <3>2 DEF OrderOk, Ordered, Live, OnAnOrder
      <4>2. s.kind = "delete" => lock[b] # r
        BY <4>1, CommitHolds DEF Held
      <4>. QED  BY <4>1, <4>2, CommitKeepsBooks
    <3>. QED  BY <1>1, <2>1, <3>1, <3>2 DEF OrderOk, Ordered, Live
  <2>. QED  BY <2>2, <2>3
<1>8. ASSUME NEW u \in Users PROVE CartOk(u)'
  <2>1. CartOk(u)
    BY DEF Sound
  <2>2. ASSUME NEW b \in Books, cart'[u][b].id # Nil PROVE row'[b].live
    <3>1. cart'[u][b] = cart[u][b] /\ b \in InCart(u) /\ row[b].live
      BY <1>3, <2>1, <2>2 DEF CartOk, InCart, Live, NoCartRow
    <3>2. ~(s.kind = "delete" /\ lock[b] = r)
      <4>1. <<u, b, cart[u][b].id>> \in ItemsOf(b)
        BY <3>1 DEF ItemsOf
      <4>2. <<u, b, cart[u][b].id>> \in s.doomed => cart'[u][b] = NoCartRow
        BY DEF Commit, Without
      <4>3. s.kind = "delete" /\ lock[b] = r => ItemsOf(b) \subseteq s.doomed
        BY CommitHolds DEF Held
      <4>. QED  BY <2>2, <4>1, <4>2, <4>3 DEF NoCartRow
    <3>. QED  BY <3>1, <3>2, CommitKeepsBooks
  <2>3. InCart(u)' # {} => HasCart(u)'
    <3>1. HasCart(u)' <=> HasCart(u)
      BY <1>3 DEF HasCart
    <3>2. InCart(u)' \subseteq InCart(u)
      BY <1>3 DEF InCart, NoCartRow
    <3>. QED  BY <2>1, <3>1, <3>2 DEF CartOk
  <2>4. \A b \in Books : cart'[u][b].id = Nil => cart'[u][b].qty = 0
    BY <1>3, <2>1 DEF CartOk, InCart, NoCartRow
  <2>. QED  BY <2>2, <2>3, <2>4 DEF CartOk, InCart, Live
<1>9. ASSUME NEW x \in Requests PROVE CreatorOk(x)'
  <2>1. HasCart(Buyer[x])' <=> HasCart(Buyer[x])
    BY <1>3 DEF HasCart
  <2>. QED  BY <1>1, <2>1 DEF Sound, CreatorOk
<1>10. \A x, y \in Requests : pc'[x] = "fill" /\ pc'[y] = "fill" /\ Buyer[x] = Buyer[y] => x = y
  BY <1>1 DEF Sound
<1>11. \A c, d \in carts' : c[1] = d[1] => c = d
  BY <1>3 DEF Sound
<1>12. \A b \in unused' : lock'[b] = Nil /\ ~row'[b].live
  <2>1. \A b \in unused : b \in Books /\ lock[b] = Nil /\ ~row[b].live
    BY DEF Sound, Typed
  <2>. QED  BY <1>2, <1>3, <2>1, CommitHolds, RequestsAssumption
<1>. QED  BY <1>6, <1>7, <1>8, <1>9, <1>10, <1>11, <1>12 DEF Sound

-----------------------------------------------------------------------------
(* The invariant.                                                          *)

LEMMA InitSound == Init => Sound
<1>. SUFFICES ASSUME Init PROVE Sound
  OBVIOUS
<1>1. /\ \A r \in Requests : pc[r] = "new" /\ session[r] = Blank /\ orders[r] = NoOrder
      /\ \A b \in Books : lock[b] = Nil
      /\ unused = Books \ DOMAIN InitStock
  BY DEF Init
<1>2. \A b \in Books : row[b].live <=> b \in DOMAIN InitStock
  BY DEF Init, NoBook
<1>3. ASSUME NEW u \in Users, NEW b \in Books
      PROVE  cart[u][b] = IF InitCart[u][b] > 0 THEN [id |-> Seeded, qty |-> InitCart[u][b]]
                                                ELSE NoCartRow
  BY DEF Init
<1>4. ASSUME NEW r \in Requests PROVE RequestOk(r) /\ OrderOk(r) /\ CreatorOk(r)
  <2>1. Blank.kind = "none" /\ KindFits("new", "none")
    BY DEF Blank, KindFits, Finished
  <2>2. RequestOk(r)
    BY <1>1, <2>1, RequestsAssumption DEF RequestOk
  <2>3. OrderOk(r)
    BY <1>1 DEF OrderOk, Ordered, NoOrder
  <2>. QED  BY <1>1, <2>2, <2>3 DEF CreatorOk
<1>5. PICK more \in SUBSET Users :
         carts = {<<u, Seeded>> : u \in more \cup {v \in Users : \E b \in Books : InitCart[v][b] > 0}}
  BY DEF Init
<1>6. ASSUME NEW u \in Users PROVE CartOk(u)
  <2>1. ASSUME NEW b \in Books
        PROVE  /\ b \in InCart(u) <=> InitCart[u][b] > 0
               /\ b \notin InCart(u) => cart[u][b].qty = 0
    <3>1. CASE InitCart[u][b] > 0
      <4>1. cart[u][b] = [id |-> Seeded, qty |-> InitCart[u][b]] /\ Seeded # Nil
        BY <1>3, <3>1, RequestsAssumption
      <4>. QED  BY <3>1, <4>1 DEF InCart
    <3>2. CASE ~(InitCart[u][b] > 0)
      <4>1. cart[u][b] = NoCartRow
        BY <1>3, <3>2
      <4>. QED  BY <3>2, <4>1 DEF InCart, NoCartRow
    <3>. QED  BY <3>1, <3>2
  <2>2. InCart(u) \subseteq Live
    BY <1>2, <2>1, InitAssumption DEF InCart, Live
  <2>3. InCart(u) # {} => HasCart(u)
    <3>1. ASSUME NEW b \in InCart(u) PROVE <<u, Seeded>> \in carts /\ <<u, Seeded>>[1] = u
      BY <1>5, <2>1, <3>1 DEF InCart
    <3>. QED  BY <3>1 DEF HasCart
  <2>4. \A b \in Books \ InCart(u) : cart[u][b].qty = 0
    BY <2>1
  <2>. QED  BY <2>2, <2>3, <2>4 DEF CartOk
<1>7. \A c, d \in carts : c[1] = d[1] => c = d
  BY <1>5
<1>8. \A b \in unused : lock[b] = Nil /\ ~row[b].live
  BY <1>1, <1>2
<1>. QED  BY <1>1, <1>4, <1>6, <1>7, <1>8 DEF Sound

LEMMA StutterSound ==
  ASSUME Sound, UNCHANGED <<stored, lock, draft, unused, tainted, pc, session>>
  PROVE  Sound'
<1>1. /\ \A u \in Users : (HasCart(u)' <=> HasCart(u)) /\ InCart(u)' = InCart(u)
      /\ Live' = Live
      /\ \A b \in Books : (OnAnOrder(b)' <=> OnAnOrder(b)) /\ ItemsOf(b)' = ItemsOf(b)
      /\ \A o \in Requests : Ordered(o)' = Ordered(o)
  BY DEF stored, HasCart, InCart, Live, OnAnOrder, Ordered, ItemsOf
<1>2. \A u \in Users : CartOk(u)'
  BY <1>1 DEF Sound, CartOk, stored
<1>3. \A r \in Requests : OrderOk(r)'
  BY <1>1 DEF Sound, OrderOk, stored
<1>4. \A r \in Requests : CreatorOk(r)'
  BY <1>1, RequestsAssumption DEF Sound, CreatorOk
<1>5. ASSUME NEW r \in Requests PROVE RequestOk(r)'
  <2>1. RequestOk(r)
    BY DEF Sound
  <2>2. session[r].kind = "cancel" => orders[session[r].order].status # "none"
    BY <2>1 DEF RequestOk
  <2>3. session[r].kind = "delete" =>
           \A b \in Books : lock[b] = r => ~OnAnOrder(b)' /\ ItemsOf(b)' \subseteq session[r].doomed
    BY <1>1, <2>1 DEF RequestOk, Held
  <2>. QED  BY <2>1, <2>2, <2>3, Undisturbed DEF stored
<1>. QED  BY <1>2, <1>3, <1>4, <1>5 DEF Sound, stored

LEMMA DeadlockedRuns ==
  ASSUME NEW r \in Requests, Deadlocked(r)
  PROVE  pc[r] # "ok"
<1>1. PICK x \in Requests : WaitsFor(r, x)
  BY DEF Deadlocked
<1>. QED  BY <1>1 DEF WaitsFor, BooksWanted, ItemsWanted

LEMMA NextSound == Typed /\ Sound /\ [Next]_vars => Sound'
<1>. SUFFICES ASSUME Typed, Sound, [Next]_vars PROVE Sound'
  OBVIOUS
<1>1. ASSUME NEW r \in Requests, OrderNext(r) PROVE Sound'
  BY <1>1, LoadCartSound, ReserveItemSound, PlaceOrderSound, ClearItemsSound,
     LoadOrderSound, LoadLinesSound, RestockItemSound, UpdateOrderSound DEF OrderNext
<1>2. ASSUME NEW r \in Requests, BookNext(r) PROVE Sound'
  BY <1>2, ReadBooksSound, HydrateSound, FlushBookSound, InsertBookSound, LoadBookSound,
     PatchBookSound, LoadDependantsSound, UnlinkItemsSound, EraseBookSound DEF BookNext
<1>3. ASSUME NEW r \in Requests, CartNext(r) PROVE Sound'
  BY <1>3, ViewCartSound, CreateCartSound, LoadForAddSound, InsertItemSound, MergeItemSound,
     LoadForSetSound, SetItemSound, LoadForRemoveSound, RemoveItemsSound DEF CartNext
<1>4. ASSUME NEW r \in Requests, Step(r) PROVE Sound'
  BY <1>1, <1>2, <1>3, <1>4, PublishSound, CommitSound DEF Step
<1>5. ASSUME NEW r \in Requests, AbortVictim(r) \/ Crash(r) PROVE Sound'
  <2>1. pc[r] # "ok" /\ Rollback(r, "failed")
    BY <1>5, DeadlockedRuns DEF AbortVictim, Crash, Running, Finished
  <2>. QED  BY <2>1, RollbackSound DEF Finished
<1>6. ASSUME NEW b \in Books, Evict(b) PROVE Sound'
  BY <1>6, StutterSound DEF Evict, history
<1>7. ASSUME UNCHANGED vars PROVE Sound'
  BY <1>7, StutterSound DEF vars, history
<1>. QED  BY <1>4, <1>5, <1>6, <1>7 DEF Next, Idle

\* Whoever has locked rows has them locked for what its handler is about to do, and
\* finds them at its commit as it left them (database.py:26-36).
THEOREM AlwaysSound == Spec => []Sound
  BY AlwaysTyped, InitSound, NextSound, PTL DEF Spec

\* Two first requests of a user never leave two carts, nor a row without a cart
\* (cart_service.py:19-23).
THEOREM OneCartHolds == Spec => []OneCartEach
<1>1. Sound => OneCartEach
  BY DEF Sound, CartOk, OneCartEach
<1>. QED  BY <1>1, AlwaysSound, PTL

\* No deletion of a book, whatever it races, leaves a cart row or an order line
\* that refers to it (book_service.py:209-217).
THEOREM ReferencesHold == Spec => []NoDanglingRows
<1>1. Sound => NoDanglingRows
  BY DEF Sound, CartOk, OrderOk, NoDanglingRows
<1>. QED  BY <1>1, AlwaysSound, PTL
-----------------------------------------------------------------------------
(* What Shop sees.                                                         *)

\* Only a commit changes the books and the orders that others can see.
LEMMA OnlyCommitsShow ==
  ASSUME Typed, [Next]_vars, \A r \in Requests : ~Commit(r)
  PROVE  row' = row /\ orders' = orders /\ tainted \subseteq tainted'
<1>1. ASSUME NEW r \in Requests, NEW outcome, Rollback(r, outcome)
      PROVE  row' = row /\ orders' = orders /\ tainted' = tainted
  BY <1>1 DEF Rollback, stored
<1>2. ASSUME Private
      PROVE  row' = row /\ orders' = orders /\ tainted' = tainted
  BY <1>2 DEF Private, stored, history
<1>3. ASSUME NEW r \in Requests, OrderNext(r)
      PROVE  row' = row /\ orders' = orders /\ tainted \subseteq tainted'
  <2>1. CASE LoadCart(r) \/ PlaceOrder(r) \/ ClearItems(r) \/ LoadOrder(r) \/ LoadLines(r) \/ UpdateOrder(r)
    BY <1>1, <1>2, <2>1 DEF LoadCart, PlaceOrder, ClearItems, LoadOrder, LoadLines, UpdateOrder
  <2>2. CASE ReserveItem(r)
    BY <1>1, <2>2 DEF ReserveItem, Reserve, NoteStale, stored
  <2>3. CASE RestockItem(r)
    BY <1>2, <2>3 DEF RestockItem, NoteStale, stored
  <2>. QED  BY <1>3, <2>1, <2>2, <2>3 DEF OrderNext
<1>4. ASSUME NEW r \in Requests, BookNext(r)
      PROVE  row' = row /\ orders' = orders /\ tainted \subseteq tainted'
  <2>1. CASE ReadBooks(r) \/ Hydrate(r) \/ LoadBook(r) \/ LoadDependants(r) \/ UnlinkItems(r)
    BY <1>1, <1>2, <2>1 DEF ReadBooks, Hydrate, LoadBook, LoadDependants, UnlinkItems
  <2>2. CASE FlushBook(r)
    BY <1>1, <1>2, <2>2 DEF FlushBook, stored
  <2>3. CASE InsertBook(r)
    BY <2>3 DEF InsertBook, stored
  <2>4. CASE PatchBook(r)
    BY <1>1, <1>2, <2>4 DEF PatchBook, UpdateColumns, stored
  <2>5. CASE EraseBook(r)
    BY <1>1, <1>2, <2>5 DEF EraseBook, stored, history
  <2>. QED  BY <1>4, <2>1, <2>2, <2>3, <2>4, <2>5 DEF BookNext
<1>5. ASSUME NEW r \in Requests, CartNext(r)
      PROVE  row' = row /\ orders' = orders /\ tainted \subseteq tainted'
  <2>1. CASE ViewCart(r) \/ LoadForAdd(r) \/ LoadForSet(r) \/ LoadForRemove(r)
    BY <1>1, <1>2, <2>1 DEF ViewCart, LoadForAdd, LoadForSet, LoadForRemove
  <2>2. CASE CreateCart(r)
    BY <1>1, <1>2, <2>2 DEF CreateCart, history
  <2>3. CASE InsertItem(r) \/ MergeItem(r) \/ SetItem(r)
    BY <1>1, <2>3 DEF InsertItem, MergeItem, SetItem, SaveItem, history
  <2>4. CASE RemoveItems(r)
    BY <2>4 DEF RemoveItems, history
  <2>. QED  BY <1>5, <2>1, <2>2, <2>3, <2>4 DEF CartNext
<1>6. ASSUME NEW r \in Requests, PublishToCache(r) \/ PublishToHub(r)
      PROVE  row' = row /\ orders' = orders /\ tainted \subseteq tainted'
  BY <1>6 DEF PublishToCache, PublishToHub, stored, history
<1>7. ASSUME NEW r \in Requests, AbortVictim(r) \/ Crash(r)
      PROVE  row' = row /\ orders' = orders /\ tainted \subseteq tainted'
  BY <1>1, <1>7 DEF AbortVictim, Crash
<1>8. ASSUME NEW b \in Books, Evict(b)
      PROVE  row' = row /\ orders' = orders /\ tainted \subseteq tainted'
  BY <1>8 DEF Evict, stored, history
<1>9. ASSUME UNCHANGED vars
      PROVE  row' = row /\ orders' = orders /\ tainted \subseteq tainted'
  BY <1>9 DEF vars, stored, history
<1>. QED  BY <1>3, <1>4, <1>5, <1>6, <1>7, <1>8, <1>9 DEF Next, Step, Idle

\* An order placed takes what its buyer pays for from rows locked to the end, at
\* the prices they have then (order_service.py:33-63).
THEOREM SalesHold == Spec => SaleHoldsItsBooks
<1>1. ASSUME Typed, Sound, [Next]_vars, NEW o \in Requests, Placed(o), NEW b \in Books,
             orders'[o].qty[b] # 0
      PROVE  lock[b] = o /\ orders'[o].price[b] = row[b].price
  <2>. PICK r \in Requests : Commit(r)
    BY <1>1, OnlyCommitsShow DEF Placed
  <2>1. session[r].kind = "checkout" /\ o = r
    <3>1. CASE session[r].kind = "checkout"
      BY <1>1, <3>1, CommitWritesOrders DEF Placed
    <3>2. CASE session[r].kind = "cancel"
      BY <1>1, <3>2, CommitWritesOrders DEF Placed
    <3>3. CASE session[r].kind \notin {"checkout", "cancel"}
      BY <1>1, <3>3, CommitWritesOrders DEF Placed
    <3>. QED  BY <3>1, <3>2, <3>3
  <2>2. orders'[r].qty = session[r].qty /\ orders'[r].price = session[r].bill
    BY <1>1, <2>1, CommitWritesOrders
  <2>3. lock[b] = r
    BY <1>1, <2>1, <2>2, CommitHolds
  <2>4. Held(r, b)
    BY <1>1, <2>3, CommitHolds
  <2>. QED  BY <2>1, <2>2, <2>3, <2>4 DEF Held
<1>2. Typed /\ Sound /\ [Next]_vars =>
         [\A o \in Requests : Placed(o) =>
             \A b \in {c \in Books : orders'[o].qty[c] # 0} :
                 lock[b] = o /\ orders'[o].price[b] = row[b].price]_vars
  BY <1>1
<1>. QED  BY <1>2, AlwaysTyped, AlwaysSound, PTL DEF Spec, SaleHoldsItsBooks

\* The stock that others see moves with the orders, or by an administrator or the
\* write-back of a read (order_service.py:49-54, 108-115).
THEOREM StockMovesOnlySo == Spec => StockMovesWithOrders
<1>1. ASSUME Typed, Sound, [Next]_vars, NEW b \in Books, row'[b].stock # row[b].stock
      PROVE  \E r \in Requests :
                /\ lock[b] = r /\ pc[r] # "ok" /\ pc'[r] = "ok"
                /\ \/ Placed(r) /\ orders'[r].qty[b] # 0
                   \/ session[r].kind = "cancel" /\ orders[session[r].order].qty[b] # 0
                   \/ session[r].kind \in {"read", "create", "patch", "delete"}
  <2>. PICK r \in Requests : Commit(r)
    BY <1>1, OnlyCommitsShow
  <2>1. lock[b] = r /\ pc[r] # "ok"
    BY <1>1, CommitHolds
  <2>2. pc'[r] = "ok"
    BY <1>1 DEF Commit, Finish, Goto, Typed
  <2>3. CASE session[r].kind = "checkout"
    <3>1. Placed(r) /\ orders'[r].qty = session[r].qty
      BY <1>1, <2>3, CommitWritesOrders DEF Placed
    <3>2. session[r].qty[b] # 0
      BY <1>1, <2>1, <2>3, CommitHolds
    <3>. QED  BY <2>1, <2>2, <3>1, <3>2
  <2>4. CASE session[r].kind = "cancel"
    <3>1. orders[session[r].order].qty[b] # 0
      BY <1>1, <2>1, <2>4, CommitHolds
    <3>. QED  BY <2>1, <2>2, <2>4, <3>1
  <2>5. session[r].kind \in {"checkout", "cancel", "read", "create", "patch", "delete"}
    BY <1>1, CommitHolds
  <2>. QED  BY <2>1, <2>2, <2>3, <2>4, <2>5
<1>2. Typed /\ Sound /\ [Next]_vars =>
         [\A b \in Books : row'[b].stock # row[b].stock =>
            \E r \in Requests :
               /\ lock[b] = r /\ pc[r] # "ok" /\ pc'[r] = "ok"
               /\ \/ Placed(r) /\ orders'[r].qty[b] # 0
                  \/ session[r].kind = "cancel" /\ orders[session[r].order].qty[b] # 0
                  \/ session[r].kind \in {"read", "create", "patch", "delete"}]_vars
  BY <1>1
<1>. QED  BY <1>2, AlwaysTyped, AlwaysSound, PTL DEF Spec, StockMovesWithOrders

-----------------------------------------------------------------------------
(* The refinement: a commit by its kind.                                   *)

\* An administrator's step, as far as Shop sees it.
LEMMA ManageImplements ==
  ASSUME orders' = orders, tainted \subseteq tainted',
         \A b \in Books : row[b].live => row'[b].live,
         \A b \in Books : row'[b].live /\ ~row[b].live => b \in tainted',
         \A b \in Books : b \notin tainted' => row'[b].stock = row[b].stock
  PROVE  TheShop!Next
<1>1. Live \subseteq Live' /\ Live' \ Live \subseteq tainted'
  BY DEF Live
<1>2. \A b \in Live \ tainted' :
         [c \in Books |-> row[c].stock]'[b] = [c \in Books |-> row[c].stock][b]
  BY DEF Live
<1>3. TheShop!Manage
  BY <1>1, <1>2 DEF TheShop!Manage
<1>. QED  BY <1>3 DEF TheShop!Next

LEMMA BuyImplements ==
  ASSUME Typed, Sound, NEW r \in Requests, Commit(r), session[r].kind = "checkout"
  PROVE  TheShop!Next
<1>. DEFINE s == session[r]
<1>1. /\ orders[r].status = "none" /\ orders'[r].status = "placed"
      /\ orders'[r].qty = s.qty /\ orders'[r].price = s.bill
      /\ \A o \in Requests \ {r} : orders'[o] = orders[o]
  BY CommitWritesOrders
<1>2. /\ \E b \in Books : lock[b] = r
      /\ \A b \in Books : s.qty[b] # 0 <=> lock[b] = r
  BY CommitHolds
<1>3. ASSUME NEW b \in Books, lock[b] = r
      PROVE  /\ row[b].live /\ row'[b].live /\ row'[b].price = row[b].price
             /\ s.qty[b] > 0 /\ s.bill[b] = row[b].price
             /\ b \notin tainted => /\ row'[b].stock = row[b].stock - s.qty[b]
                                    /\ s.qty[b] <= row[b].stock
  <2>1. Held(r, b) /\ row'[b] = draft[b] /\ s \in SessionT
    BY <1>3, CommitHolds DEF Typed
  <2>2. s.qty[b] \in Nat
    BY <2>1 DEF SessionT
  <2>. QED  BY <2>1, <2>2 DEF Held, SameBook
<1>4. \A b \in Books : lock[b] # r => row'[b] = row[b]
  BY CommitHolds
<1>5. tainted' = tainted
  BY DEF Commit, RestockedAgain
<1>6. Live' = Live /\ [b \in Books |-> row[b].price]' = [b \in Books |-> row[b].price]
  BY <1>3, <1>4 DEF Live
<1>7. TheShop!On(r)' = {b \in Books : lock[b] = r}
  BY <1>1, <1>2 DEF TheShop!On
<1>8. TheShop!Counted(orders'[r].qty, -1)
  <2>1. ASSUME NEW b \in Live \ tainted
        PROVE  row'[b].stock = row[b].stock + (-1) * orders'[r].qty[b]
    <3>1. b \in Books /\ row[b].stock \in Int /\ s.qty[b] \in Int
      BY <2>1 DEF Live, Typed, RowT, Stock, SessionT
    <3>2. CASE lock[b] = r
      BY <1>1, <1>3, <2>1, <3>1, <3>2
    <3>3. CASE lock[b] # r
      BY <1>1, <1>2, <1>4, <3>1, <3>3
    <3>. QED  BY <3>2, <3>3
  <2>. QED  BY <2>1 DEF TheShop!Counted, Live
<1>9. TheShop!Buy(r)
  <2>1. TheShop!On(r)' # {} /\ TheShop!On(r)' \subseteq Live
    BY <1>2, <1>3, <1>7 DEF Live
  <2>2. \A b \in TheShop!On(r)' :
           /\ orders'[r].qty[b] > 0
           /\ orders'[r].price[b] = [c \in Books |-> row[c].price][b]
           /\ b \notin tainted => orders'[r].qty[b] <= [c \in Books |-> row[c].stock][b]
    BY <1>1, <1>3, <1>7
  <2>. QED  BY <1>1, <1>5, <1>6, <1>8, <2>1, <2>2 DEF TheShop!Buy
<1>. QED  BY <1>9 DEF TheShop!Next

LEMMA CancelImplements ==
  ASSUME Typed, Sound, NEW r \in Requests, Commit(r), session[r].kind = "cancel"
  PROVE  TheShop!Next
<1>. DEFINE s == session[r]
<1>. PICK o \in Requests : o = s.order
  BY CommitHolds
<1>1. /\ orders[o].status # "none" /\ orders[o] \in OrderT
      /\ \A b \in Books : lock[b] = r <=> orders[o].qty[b] # 0
  BY CommitHolds DEF Typed
<1>2. orders' = [orders EXCEPT ![o].status = "cancelled"]
  BY CommitWritesOrders
<1>3. s.qty = orders[o].qty
  BY CommitHolds DEF Sound, RequestOk
<1>4. ASSUME NEW b \in Books, lock[b] = r
      PROVE  /\ row'[b].live = row[b].live /\ row'[b].price = row[b].price
             /\ b \notin tainted => row'[b].stock = row[b].stock + orders[o].qty[b]
  <2>1. Held(r, b) /\ row'[b] = draft[b]
    BY <1>4, CommitHolds
  <2>. QED  BY <1>3, <2>1 DEF Held, SameBook
<1>5. \A b \in Books : lock[b] # r => row'[b] = row[b]
  BY CommitHolds
<1>6. Live' = Live /\ [b \in Books |-> row[b].price]' = [b \in Books |-> row[b].price]
  BY <1>4, <1>5 DEF Live
<1>7. CASE orders[o].status = "placed"
  <2>1. tainted' = tainted
    BY <1>7 DEF Commit, RestockedAgain
  <2>2. TheShop!Counted(orders[o].qty, 1)
    <3>1. ASSUME NEW b \in Live \ tainted
          PROVE  row'[b].stock = row[b].stock + 1 * orders[o].qty[b]
      <4>1. b \in Books /\ row[b].stock \in Int /\ orders[o].qty[b] \in Int
        BY <1>1, <3>1 DEF Live, Typed, RowT, Stock, OrderT
      <4>2. CASE lock[b] = r
        BY <1>4, <3>1, <4>1, <4>2
      <4>3. CASE lock[b] # r
        BY <1>1, <1>5, <4>1, <4>3
      <4>. QED  BY <4>2, <4>3
    <3>. QED  BY <3>1 DEF TheShop!Counted, Live
  <2>3. TheShop!Cancel(o)
    BY <1>2, <1>6, <1>7, <2>1, <2>2 DEF TheShop!Cancel
  <2>. QED  BY <1>1, <2>3 DEF TheShop!Next
<1>8. CASE orders[o].status = "cancelled"
  <2>1. tainted' = tainted \cup Ordered(o)
    BY <1>8 DEF Commit, RestockedAgain
  <2>2. orders' = orders
    <3>1. [orders[o] EXCEPT !.status = "cancelled"] = orders[o]
      BY <1>1, <1>8 DEF OrderT
    <3>. QED  BY <1>1, <1>2, <3>1 DEF Typed
  <2>3. \A b \in Books : lock[b] = r => b \in tainted'
    BY <1>1, <2>1 DEF Ordered
  <2>4. \A b \in Books : /\ row'[b].live = row[b].live
                         /\ b \notin tainted' => row'[b].stock = row[b].stock
    BY <1>4, <1>5, <2>3
  <2>5. tainted \subseteq tainted'
    BY <2>1
  <2>. QED  BY <2>2, <2>4, <2>5, ManageImplements
<1>. QED  BY <1>1, <1>7, <1>8 DEF OrderT

LEMMA DeleteImplements ==
  ASSUME Typed, Sound, NEW r \in Requests, Commit(r), session[r].kind = "delete"
  PROVE  TheShop!Next
<1>1. orders' = orders /\ tainted' = tainted
  BY CommitWritesOrders DEF Commit, RestockedAgain
<1>2. \A b \in Books : /\ lock[b] = r => Held(r, b) /\ row'[b] = draft[b]
                       /\ lock[b] # r => row'[b] = row[b]
  BY CommitHolds
<1>3. CASE \A b \in Books : lock[b] # r
  BY <1>1, <1>2, <1>3, ManageImplements
<1>4. ASSUME NEW b \in Books, lock[b] = r PROVE TheShop!Next
  <2>1. /\ row[b].live /\ ~row'[b].live /\ ~OnAnOrder(b)
        /\ \A c \in Books \ {b} : row'[c] = row[c]
    BY <1>2, <1>4 DEF Held
  <2>2. Live' = Live \ {b} /\ b \in Live
    BY <2>1 DEF Live
  <2>3. \A o \in Requests : b \notin TheShop!On(o)
    BY <2>1 DEF Sound, OrderOk, OnAnOrder, Ordered, TheShop!On
  <2>4. \A c \in Live' :
           /\ [d \in Books |-> row[d].stock]'[c] = [d \in Books |-> row[d].stock][c]
           /\ [d \in Books |-> row[d].price]'[c] = [d \in Books |-> row[d].price][c]
    BY <2>1, <2>2 DEF Live
  <2>5. TheShop!Withdraw(b)
    BY <1>1, <2>2, <2>3, <2>4 DEF TheShop!Withdraw
  <2>. QED  BY <2>5 DEF TheShop!Next
<1>. QED  BY <1>3, <1>4

LEMMA AdministerImplements ==
  ASSUME Typed, Sound, NEW r \in Requests, Commit(r), session[r].kind \in {"read", "create", "patch"}
  PROVE  TheShop!Next
<1>1. orders' = orders /\ tainted' = tainted
  BY CommitWritesOrders DEF Commit, RestockedAgain
<1>2. ASSUME NEW b \in Books
      PROVE  /\ row[b].live => row'[b].live
             /\ row'[b].live /\ ~row[b].live => b \in tainted
             /\ b \notin tainted => row'[b].stock = row[b].stock
  <2>1. CASE lock[b] = r
    <3>1. Held(r, b) /\ row'[b] = draft[b]
      BY <2>1, CommitHolds
    <3>. QED  BY <3>1 DEF Held, SameBook
  <2>2. CASE lock[b] # r
    BY <2>2, CommitHolds
  <2>. QED  BY <2>1, <2>2
<1>. QED  BY <1>1, <1>2, ManageImplements

\* Each checkout sells at one moment, all or nothing, what there is, at the prices
\* in force; an order is given back once; what was sold stays; and only the books
\* that an overwrite has tainted are miscounted (order_service.py:21-118,
\* book_service.py:209-217).
THEOREM StoreImplementsShop == Spec => ImplementsShop
<1>1. Init => TheShop!Init
  <2>. SUFFICES ASSUME Init PROVE TheShop!Init
    OBVIOUS
  <2>1. \A b \in Live : b \in Books /\ [c \in Books |-> row[c].stock][b] >= 0
    BY InitAssumption DEF Init, Live, NoBook
  <2>2. \A o \in Requests : orders[o].status = "none" /\ TheShop!On(o) = {}
    BY DEF Init, NoOrder, TheShop!On
  <2>. QED  BY <2>1, <2>2 DEF TheShop!Init, Init
<1>2. Typed /\ Sound /\ [Next]_vars => [TheShop!Next]_(TheShop!shop)
  <2>. SUFFICES ASSUME Typed, Sound, [Next]_vars PROVE TheShop!Next
    OBVIOUS
  <2>1. ASSUME NEW r \in Requests, Commit(r) PROVE TheShop!Next
    BY <2>1, CommitHolds, BuyImplements, CancelImplements, DeleteImplements, AdministerImplements
  <2>2. ASSUME \A r \in Requests : ~Commit(r) PROVE TheShop!Next
    BY <2>2, OnlyCommitsShow, ManageImplements
  <2>. QED  BY <2>1, <2>2
<1>. QED  BY <1>1, <1>2, AlwaysTyped, AlwaysSound, PTL DEF Spec, ImplementsShop, TheShop!Spec
==============================================================================
