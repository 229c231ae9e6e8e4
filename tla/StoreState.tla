----------------------------- MODULE StoreState -----------------------------
(***************************************************************************)
(* The state the request handlers of the book store share: the committed   *)
(* PostgreSQL rows, the row locks and uncommitted row versions of running  *)
(* transactions, the Redis stock cache, the last stock event broadcast on  *)
(* the websocket hub, and what each request's SQLAlchemy session holds in  *)
(* memory.  The services (OrderService, BookService, CartService) extend   *)
(* this module; BookStore composes them.                                   *)
(*                                                                         *)
(* A request is a one-shot slot: it is submitted at most once, runs one    *)
(* handler inside one database transaction (app/core/database.py, get_db), *)
(* and ends "ok" (committed), "refused" (an HTTPException, rolled back) or *)
(* "failed" (any other exception or a crash, rolled back).  The number of  *)
(* slots bounds every run.  An order is named by the request that placed   *)
(* it, a cart row by the request that inserted it.                         *)
(***************************************************************************)
EXTENDS Integers, Sequences, FiniteSets

CONSTANTS
    Books,          \* primary keys of books; numbers, because flush sorts by key
    Users,
    Requests,
    Buyer,          \* Buyer[r]: the authenticated user of request r
    Menu,           \* Menu[r]: the handlers request r may run
    Levels,         \* stock levels an administrator may submit
    Prices,         \* prices an administrator may submit
    Quantities,     \* quantities a client may submit to the cart
    InitStock,      \* stock of the books that exist at the start
    InitCart,       \* quantity of each cart row that exists at the start, 0 for none
    Floor,          \* the lowest stock level ever submitted, or 0
    RedisFails,     \* may Redis refuse a command, restart or evict a key?
    Crashes,        \* may a transaction be cut off before it commits?
    Nil,            \* no value: a cache miss, a free lock, no order, no cart row
    Gone,           \* the "book.stock.deleted" event
    Keep,           \* a field absent from a PATCH body
    Seeded          \* the id of a cart row that exists at the start

Handlers == {"checkout", "cancel", "read", "create", "patch", "delete",
             "view", "add", "setQuantity", "remove", "empty"}

ASSUME BooksAssumption == Books \subseteq Nat /\ IsFiniteSet(Books)
ASSUME RequestsAssumption ==
    /\ Nil \notin Requests \cup {Seeded} /\ Seeded \notin Requests
    /\ \A r \in Requests : Buyer[r] \in Users /\ Menu[r] \subseteq Handlers
ASSUME LevelsAssumption ==
    /\ Levels \subseteq Int
    /\ Floor \in Int /\ Floor <= 0 /\ (\A l \in Levels : Floor <= l)
ASSUME PricesAssumption == Prices \subseteq Int
ASSUME QuantitiesAssumption == Quantities \subseteq Int
ASSUME InitAssumption ==
    /\ DOMAIN InitStock \subseteq Books
    /\ \A b \in DOMAIN InitStock : InitStock[b] \in Nat
    /\ InitCart \in [Users -> [Books -> Nat]]
    /\ \A u \in Users, b \in Books : InitCart[u][b] > 0 => b \in DOMAIN InitStock
ASSUME FaultsAssumption == RedisFails \in BOOLEAN /\ Crashes \in BOOLEAN
ASSUME SentinelsAssumption ==
    /\ Nil \notin Int /\ Gone \notin Int /\ Keep \notin Int
    /\ Gone # Nil

VARIABLES
    row,            \* row[b]: the committed version of the book row
    lock,           \* lock[b]: the request whose transaction has the row locked, or Nil
    draft,          \* draft[b]: the version the lock's holder sees; row[b] when nobody holds it
    carts,          \* the committed carts, each its user and an id
    cart,           \* cart[u][b]: the committed cart row of user u for book b
    orders,         \* orders[r]: the committed order that request r placed
    cache,          \* cache[b]: the stock Redis holds for b, or Nil
    announced,      \* announced[b]: the last stock event broadcast for b, or Nil
    unused,         \* book ids not generated yet
    tainted,        \* history: books whose ledger an overwrite has broken (see BookStore)
    misled,         \* history: books of which Redis or the hub was told what the
                    \* database does not hold (see BookStore)
    pc,             \* pc[r]: the next step of request r
    session         \* session[r]: what the handler of r holds in memory

stored == <<row, carts, cart, orders>>
published == <<cache, announced>>
history == <<tainted, misled>>
vars == <<stored, lock, draft, published, unused, history, pc, session>>

-----------------------------------------------------------------------------
(* Rows, cart rows, orders and sessions.                                   *)

BookRow == [live : BOOLEAN, stock : Int, price : Prices \cup {0}]
NoBook == [live |-> FALSE, stock |-> 0, price |-> 0]

CartIds == Requests \cup {Seeded}
CartRow == [id : CartIds \cup {Nil}, qty : Int]
NoCartRow == [id |-> Nil, qty |-> 0]

Order == [status : {"none", "placed", "cancelled"},
          qty : [Books -> Int],
          price : [Books -> Prices \cup {0}]]
NoOrder == [status |-> "none",
            qty |-> [b \in Books |-> 0],
            price |-> [b \in Books |-> 0]]

Zero == [b \in Books |-> 0]

\* qty, seen and bill are the quantities, stocks and prices the handler read,
\* seen kept up to date with its own writes (the session's identity map);
\* route the books it has still to lock, in its order; left the books it has
\* still to visit in Redis, or to flush; unsaved the books whose in-memory stock
\* differs from the one read; doomed the cart rows it is to delete; item the cart
\* row it read; order the order to cancel; level and price the body of a PATCH.
Session == [kind : Handlers \cup {"none"},
            route : Seq(Books),
            qty : [Books -> Int],
            seen : [Books -> Int],
            bill : [Books -> Prices \cup {0}],
            left : SUBSET Books,
            unsaved : SUBSET Books,
            doomed : SUBSET (Users \X Books \X CartIds),
            item : CartRow,
            order : Requests \cup {Nil},
            level : Levels \cup {Keep},
            price : Prices \cup {Keep}]

Blank == [kind |-> "none", route |-> << >>, qty |-> Zero, seen |-> Zero,
          bill |-> Zero, left |-> {}, unsaved |-> {}, doomed |-> {},
          item |-> NoCartRow, order |-> Nil, level |-> Keep, price |-> Keep]

Finished == {"ok", "refused", "failed"}
Steps == {"new", "reserve", "clear", "lines", "restock", "hydrate", "flush",
          "patch", "unlink", "erase", "open", "fill", "mutate", "cache", "announce"} \cup Finished

Running(r) == pc[r] \notin {"new"} \cup Finished

Live == {b \in Books : row[b].live}
HasCart(u) == \E c \in carts : c[1] = u
InCart(u) == {b \in Books : cart[u][b].id # Nil}
CartItems(u) == {<<u, b, cart[u][b].id>> : b \in InCart(u)}
ItemsOf(b) == {<<u, b, cart[u][b].id>> : u \in {v \in Users : b \in InCart(v)}}
Ordered(o) == {b \in Books : orders[o].qty[b] # 0}
OnAnOrder(b) == \E o \in Requests : orders[o].status # "none" /\ b \in Ordered(o)

\* The carts once the rows in items are deleted; other rows stay as they are.
Without(items) ==
    [u \in Users |-> [b \in Books |->
        IF <<u, b, cart[u][b].id>> \in items THEN NoCartRow ELSE cart[u][b]]]

-----------------------------------------------------------------------------
(* Transactions: the row locks of PostgreSQL under READ COMMITTED.  A step *)
(* that must lock a row is enabled only while no other transaction holds   *)
(* it; a lock is kept until its transaction commits or rolls back.         *)

Free(r, b) == lock[b] \in {Nil, r}

\* The row version of b becomes v for request r, which has the row locked.
Write(r, b, v) ==
    /\ lock' = [lock EXCEPT ![b] = r]
    /\ draft' = [draft EXCEPT ![b] = v]

\* The cart rows request r has deleted without having committed.
Pending(r) == IF pc[r] \in {"clear", "unlink", "mutate"} THEN {} ELSE session[r].doomed

\* No other transaction holds an uncommitted delete of one of the items.
ItemsFree(r, items) == \A x \in Requests \ {r} : Pending(x) \cap items = {}

Unlocked(r) == [b \in Books |-> IF lock[b] = r THEN Nil ELSE lock[b]]

Goto(r, step, s) ==
    /\ pc' = [pc EXCEPT ![r] = step]
    /\ session' = [session EXCEPT ![r] = s]

Finish(r, outcome) == Goto(r, outcome, Blank)

\* The books that r has locked and told Redis or the hub about.
Told(r) ==
    LET s == session[r] IN
    {b \in Books : /\ pc[r] \in {"cache", "announce"} /\ lock[b] = r
                   /\ b \notin s.left \/ s.route = <<b>>}

\* Mutant: what the transaction had flushed stays in the database.
RollbackKeepsWrites(r, outcome) ==
    /\ Finish(r, outcome)
    /\ lock' = Unlocked(r)
    /\ row' = [b \in Books |-> IF lock[b] = r THEN draft[b] ELSE row[b]]
    /\ misled' = misled \cup Told(r)
    /\ UNCHANGED <<carts, cart, orders, draft, published, unused, tainted>>

\* get_db's except branch: the transaction leaves nothing in the database.
\* What the handler has already put in Redis or broadcast stays there.
Rollback(r, outcome) ==
    /\ Finish(r, outcome)
    /\ lock' = Unlocked(r)
    /\ draft' = [b \in Books |-> IF lock[b] = r THEN row[b] ELSE draft[b]]
    /\ misled' = misled \cup Told(r)
    /\ UNCHANGED <<stored, published, unused, tainted>>

\* A step that only reads, or only moves data within the session.
Private == UNCHANGED <<stored, lock, draft, published, unused, history>>

-----------------------------------------------------------------------------
Init ==
    /\ \E p \in [DOMAIN InitStock -> Prices] :
          row = [b \in Books |-> IF b \in DOMAIN InitStock
                                 THEN [live |-> TRUE, stock |-> InitStock[b], price |-> p[b]]
                                 ELSE NoBook]
    /\ lock = [b \in Books |-> Nil]
    /\ draft = row
    /\ \E more \in SUBSET Users :
          carts = {<<u, Seeded>> : u \in more \cup {v \in Users : \E b \in Books : InitCart[v][b] > 0}}
    /\ cart = [u \in Users |-> [b \in Books |->
                  IF InitCart[u][b] > 0 THEN [id |-> Seeded, qty |-> InitCart[u][b]]
                                        ELSE NoCartRow]]
    /\ orders = [r \in Requests |-> NoOrder]
    /\ cache = [b \in Books |-> Nil]
    /\ announced = [b \in Books |-> Nil]
    /\ unused = Books \ DOMAIN InitStock
    /\ tainted = {}
    /\ misled = {}
    /\ pc = [r \in Requests |-> "new"]
    /\ session = [r \in Requests |-> Blank]
=============================================================================
