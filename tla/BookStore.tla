------------------------------ MODULE BookStore ------------------------------
(***************************************************************************)
(* The book store: every request runs one handler of OrderService,         *)
(* BookService or CartService in a transaction of its own, interleaved at  *)
(* every await that can wait or that others can observe.  This module adds *)
(* what the handlers share (publishing the stock, committing), PostgreSQL's*)
(* deadlock detector, the faults, and the properties.                      *)
(***************************************************************************)
EXTENDS OrderService, BookService, CartService

-----------------------------------------------------------------------------
(* Publishing: after the service returns and before get_db commits, the    *)
(* router writes each book's stock to Redis and then broadcasts it.        *)

\* Mutant: the deletion sets the key instead of deleting it.
StoredAlways(s, b) == IF s.kind = "delete" THEN Gone ELSE s.seen[b]

Stored(s, b) == IF s.kind = "delete" THEN Nil ELSE s.seen[b]

\* Mutant: the stock is read outside the transaction.
NewsOfCommitted(s, b) == IF s.kind = "delete" THEN Gone ELSE row[b].stock

News(s, b) == IF s.kind = "delete" THEN Gone ELSE s.seen[b]

PublishToCache(r) ==
    LET s == session[r] IN
    /\ pc[r] = "cache"
    /\ \E b \in s.left :
          /\ Goto(r, "announce", [s EXCEPT !.route = <<b>>])
          /\ \/ /\ cache' = [cache EXCEPT ![b] = Stored(s, b)]
                /\ misled' = IF s.kind = "patch" /\ lock[b] # r THEN misled \cup {b} ELSE misled
             \/ /\ RedisFails
                /\ cache' = cache
                /\ misled' = misled \cup {b}
    /\ UNCHANGED <<stored, lock, draft, announced, unused, tainted>>

\* Mutant: the loop over the order's items does not advance.
PublishToHubForever(r) ==
    LET s == session[r] IN
    /\ pc[r] = "announce"
    /\ announced' = [announced EXCEPT ![Head(s.route)] = News(s, Head(s.route))]
    /\ Goto(r, "cache", s)
    /\ UNCHANGED <<stored, lock, draft, cache, unused, history>>

PublishToHub(r) ==
    LET s == session[r]
        b == Head(s.route) IN
    /\ pc[r] = "announce"
    /\ announced' = [announced EXCEPT ![b] = News(s, b)]
    /\ Goto(r, "cache", [s EXCEPT !.route = << >>, !.left = @ \ {b}])
    /\ UNCHANGED <<stored, lock, draft, cache, unused, history>>

-----------------------------------------------------------------------------
(* get_db: commit when the handler has returned.                           *)

\* Mutant: the commit does not wait for the last item to be published.
ReadyToCommitEarly(r) == pc[r] = "cache" \/ (pc[r] = "flush" /\ session[r].left = {})

ReadyToCommit(r) == pc[r] \in {"cache", "flush"} /\ session[r].left = {}

\* Mutant: checkout never inserts its order.
OrdersAfterLost(r) ==
    LET s == session[r] IN
    IF s.kind = "cancel" THEN [orders EXCEPT ![s.order].status = "cancelled"] ELSE orders

\* Mutant: a cancellation does not save the status.
OrdersAfterNoCancel(r) ==
    LET s == session[r] IN
    IF s.kind = "checkout"
    THEN [orders EXCEPT ![r] = [status |-> "placed", qty |-> s.qty, price |-> s.bill]]
    ELSE orders

\* The order a checkout inserted, the status a cancellation wrote.
OrdersAfter(r) ==
    LET s == session[r] IN
    CASE s.kind = "checkout" -> [orders EXCEPT ![r] = [status |-> "placed", qty |-> s.qty, price |-> s.bill]]
      [] s.kind = "cancel"   -> [orders EXCEPT ![s.order].status = "cancelled"]
      [] OTHER               -> orders

\* History: an order restocked by a second cancellation.
RestockedAgain(r) ==
    LET s == session[r] IN
    IF s.kind = "cancel" /\ orders[s.order].status = "cancelled"
    THEN Ordered(s.order) ELSE {}

Commit(r) ==
    /\ ReadyToCommit(r)
    /\ row' = [b \in Books |-> IF lock[b] = r THEN draft[b] ELSE row[b]]
    /\ lock' = Unlocked(r)
    /\ cart' = Without(session[r].doomed)
    /\ orders' = OrdersAfter(r)
    /\ tainted' = tainted \cup RestockedAgain(r)
    /\ Finish(r, "ok")
    /\ UNCHANGED <<carts, draft, published, unused, misled>>

-----------------------------------------------------------------------------
(* PostgreSQL's deadlock detector.                                         *)

BooksWanted(r) ==
    CASE pc[r] \in {"reserve", "restock"} /\ session[r].route # << >> -> {Head(session[r].route)}
      [] pc[r] = "flush" -> {b \in session[r].left : IsFirst(b, session[r].left)}
      [] pc[r] \in {"patch", "erase"} -> session[r].left
      [] OTHER -> {}

ItemsWanted(r) ==
    CASE pc[r] \in {"clear", "unlink", "mutate"} -> session[r].doomed
      [] pc[r] = "erase" -> UNION {ItemsOf(b) : b \in session[r].left}
      [] OTHER -> {}

WaitsFor(r, x) ==
    /\ r # x
    /\ \/ \E b \in BooksWanted(r) : lock[b] = x
       \/ ItemsWanted(r) \cap Pending(x) # {}

Deadlocked(r) ==
    \E S \in SUBSET Requests :
       /\ r \in S
       /\ \A x \in S : (\E y \in S : WaitsFor(x, y)) /\ (\E y \in S : WaitsFor(y, x))

\* The transaction chosen as the victim gets an error; its request ends with it.
AbortVictim(r) == Deadlocked(r) /\ Rollback(r, "failed")

-----------------------------------------------------------------------------
(* Faults.                                                                 *)

\* A lost connection, a failed COMMIT or the death of the process.
Crash(r) == Crashes /\ Running(r) /\ Rollback(r, "failed")

\* The inventory Redis persists nothing: a restart or an eviction drops a key.
Evict(b) ==
    /\ RedisFails /\ cache[b] # Nil
    /\ cache' = [cache EXCEPT ![b] = Nil]
    /\ UNCHANGED <<stored, lock, draft, announced, unused, history, pc, session>>

-----------------------------------------------------------------------------
Step(r) ==
    \/ OrderNext(r) \/ BookNext(r) \/ CartNext(r)
    \/ PublishToCache(r) \/ PublishToHub(r) \/ Commit(r)

\* Nothing is in progress; requests need not ever be submitted.
Idle == (\A r \in Requests : ~Running(r)) /\ UNCHANGED vars

Next ==
    \/ \E r \in Requests : Step(r) \/ AbortVictim(r) \/ Crash(r)
    \/ \E b \in Books : Evict(b)
    \/ Idle

Spec == Init /\ [][Next]_vars

\* The event loop runs every handler it has admitted, and PostgreSQL looks for
\* deadlocks whenever a lock wait exceeds deadlock_timeout.
Fairness == \A r \in Requests :
               /\ WF_vars(Running(r) /\ Step(r))
               /\ WF_vars(AbortVictim(r))

FairSpec == Spec /\ Fairness

-----------------------------------------------------------------------------
(* The type invariant.                                                     *)

TypeOK ==
    /\ row \in [Books -> BookRow]
    /\ lock \in [Books -> Requests \cup {Nil}]
    /\ draft \in [Books -> BookRow]
    /\ carts \subseteq Users \X CartIds
    /\ cart \in [Users -> [Books -> CartRow]]
    /\ orders \in [Requests -> Order]
    /\ cache \in [Books -> Int \cup {Nil}]
    /\ announced \in [Books -> Int \cup {Nil, Gone}]
    /\ unused \subseteq Books
    /\ tainted \subseteq Books /\ misled \subseteq Books
    /\ pc \in [Requests -> Steps]
    /\ session \in [Requests -> Session]

(* Safety.                                                                 *)

\* No interleaving of checkouts, cancellations, stale write-backs of the cache
\* and administrators' writes takes the stock of a book below zero, unless an
\* administrator submitted a negative level.  Although checkout tests and
\* decrements a stock read before the lock (order_service.py:47-54), it
\* oversells without ever showing it.
StockStaysAboveFloor == \A b \in Books : row[b].stock >= Floor

Sold(b) == MapThenSumSet(LAMBDA o : orders[o].qty[b],
                         {o \in Requests : orders[o].status = "placed"})

\* The ledger of a book balances, its stock and the copies on placed orders
\* making up the initial stock, unless a request overwrote it: the stale
\* absolute write of a checkout or cancellation, the second cancellation of one
\* order, the write-back of a read, an administrator's level.  These four are
\* the only ways in which the code loses or invents copies.
LedgerBalances ==
    \A b \in Live \ tainted : row[b].stock + Sold(b) = InitStock[b]

\* Whatever a cart or an order refers to exists: neither a deletion racing an
\* addition to a cart (book_service.py:209-217, cart_service.py:40-49) nor one
\* racing a checkout leaves a dangling row.
NoDanglingRows ==
    /\ \A u \in Users : InCart(u) \subseteq Live
    /\ \A o \in Requests : Ordered(o) \subseteq Live

\* However the first requests of a user overlap, they create one cart
\* (cart_service.py:19-23), and no row is in a cart that was not committed.
OneCartEach ==
    /\ \A c, d \in carts : c[1] = d[1] => c = d
    /\ \A u \in Users : InCart(u) # {} => HasCart(u)

\* When no transaction has a book's row locked, the stock Redis holds for it is
\* the committed one, unless it was misled: by a request that published and
\* rolled back, by a PATCH that changed nothing and published what it had read
\* without a lock, by a command Redis refused, or by the write-back of a read.
CacheFollowsDatabase ==
    \A b \in Books \ misled : lock[b] = Nil =>
        cache[b] \in {Nil} \cup (IF row[b].live THEN {row[b].stock} ELSE {})

\* When no transaction has a book's row locked, the last event broadcast about
\* it tells the committed stock, or the deletion, with the same exceptions.
NewsFollowsDatabase ==
    \A b \in Books \ misled : lock[b] = Nil =>
        announced[b] \in {Nil} \cup (IF row[b].live THEN {row[b].stock} ELSE {Gone})

-----------------------------------------------------------------------------
(* Action properties.                                                      *)

Placed(o) == orders[o].status = "none" /\ orders'[o].status = "placed"

\* When an order is placed its buyer pays, for each book, the price in force at
\* that moment, whatever administrators do between the cart's loading and the
\* commit, and every row the order is about has been locked up to then.
SaleHoldsItsBooks ==
    [][\A o \in Requests : Placed(o) =>
          \A b \in {c \in Books : orders'[o].qty[c] # 0} :
              lock[b] = o /\ orders'[o].price[b] = row[b].price]_vars

\* The committed stock of a book moves only with the order placed or cancelled,
\* or with an administrator's or a read's write: never in a step of the cart,
\* nor in the commit of an order the book is not on.
StockMovesWithOrders ==
    [][\A b \in Books : row'[b].stock # row[b].stock =>
          \E r \in Requests :
             /\ lock[b] = r /\ pc[r] # "ok" /\ pc'[r] = "ok"
             /\ \/ Placed(r) /\ orders'[r].qty[b] # 0
                \/ session[r].kind = "cancel" /\ orders[session[r].order].qty[b] # 0
                \/ session[r].kind \in {"read", "create", "patch", "delete"}]_vars

(* Liveness.                                                               *)

\* Every request the server has started is answered: the row locks, which
\* handlers take in the unspecified order of their items, deadlock, but the
\* detector always frees one of them.
EveryRequestAnswered == \A r \in Requests : Running(r) ~> ~Running(r)

-----------------------------------------------------------------------------
(* The store as Shop sees it: the committed rows.                          *)

TheShop == INSTANCE Shop WITH
               Orders <- Requests,
               shelf <- Live,
               stock <- [b \in Books |-> row[b].stock],
               price <- [b \in Books |-> row[b].price],
               sale <- orders,
               adrift <- tainted

\* Every commit is one step of Shop and everything before it none: a checkout,
\* whose tests and decrements span its loop (order_service.py:33-63), sells at one
\* moment everything or nothing, for the prices of that moment and never more than
\* there is; a cancellation gives back once what was sold; and a book that was
\* sold is not withdrawn.  A stale overwrite is one that tainted names.
ImplementsShop == TheShop!Spec
=============================================================================
