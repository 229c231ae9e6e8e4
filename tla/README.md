# A TLA+ model of the book store

The repository is a FastAPI service over PostgreSQL and two Redis servers: a
catalogue, carts, orders, accounts, and a websocket feed of stock levels.  This
directory holds specifications of its parts, the TLC runs that check them, and
theorems about them checked by TLAPS.  `PROJECT.json` lists the runs, maps every
definition to the lines of code it stands for, and names the hazards at their
lines; this page explains the whole.

    tlc -workers 2 -config BookStore_any.cfg MCBookStore     # one run
    tlapm BookStoreProofs.tla                                # the proofs

## 1. The system

| Part | Code | State | Operations | Model |
|---|---|---|---|---|
| Transactions | `core/database.py` | one session (identity map) and one transaction per request | begin, commit when the handler returned, roll back on any exception | `StoreState`, `BookStore` |
| Orders | `services/order_service.py`, `repositories/order_repository.py`, `routers/orders.py` | `orders`, `order_items` | checkout, cancel; list, get | `OrderService` |
| Books | `services/book_service.py`, `repositories/book_repository.py`, `routers/books.py` | `books` and its links | list, get, create, patch, delete | `BookService` (stock, price, carts and orders), `Catalogue` (authors, category, ISBN) |
| Carts | `services/cart_service.py`, `repositories/cart_repository.py` | `carts`, `cart_items` | get, add, set quantity, remove, clear, each creating the cart on first access | `CartService` |
| Inventory cache | `core/inventory_cache.py` | Redis: stock by book, no persistence | set, delete, hydrate a Book object | `BookService`, `BookStore` |
| Realtime hub | `core/realtime.py`, `routers/realtime.py` | set of websockets, per process | connect, disconnect, broadcast | `WebSocketHub` |
| Refresh tokens | `core/refresh_token_store.py`, `routers/auth.py` | Redis: subject by token hash; the browser's cookie | login, refresh, logout | `RefreshTokens` |
| Start-up | `scripts/`, `alembic/env.py` | schema version, seed marker, advisory lock | wait for the database, migrate, seed, serve | `Bootstrap` |
| Users | `services/user_service.py`, `repositories/user_repository.py` | `users`, `roles` | register, authenticate, profile | `Accounts` |
| Request authentication | `core/dependencies.py`, `core/security.py` | none | decode a token, load its user, test the role | `Accounts` (`RequireAdmin`), expiry in `RefreshTokens` |
| Audit log | `services/auth_audit_log_service.py` | `auth_audit_logs` | insert in the request's session (register) or afterwards (login, logout) | `Accounts` |
| Wishlists | `services/wishlist_service.py`, `repositories/wishlist_repository.py`, `routers/wishlist.py` | `wishlists`, `wishlist_items` | get, add, remove, clear, each creating the list on first access | `Wishlists` |
| Authors, categories | `services/author_service.py`, `category_service.py`, ... | `authors`, `book_authors`, `categories` | create, read, update, delete | `Catalogue` |
| Shell | `app/main.py`, `core/config.py`, `core/limiter.py`, `schemas/` | none of its own | wiring, limits, validation, health | no |

**How they interact.**  Handlers are coroutines of one event loop; they share
the process's websocket hub and, through their transactions, the database.
`get_db` opens a session per request and commits when the handler has returned.
A checkout loads the cart with its books, locks each book row with `SELECT ...
FOR UPDATE`, decrements its stock, inserts the order and clears the cart; the
router then, *before* the commit, writes every stock to Redis and broadcasts
it.  A `GET /books` assigns the cached stock to the Book objects of its session.
The hub awaits one send after the other, inside the transaction of the request
that publishes.  Refresh tokens live in Redis only and share no state with the
store; that a user exists and is active is all the rest of the code asks of the
accounts.

**What is hard about it.**

* A locking read does not refresh an object the session already holds: stock is
  computed from a value older than the lock.
* Rows are locked in the order a result set happens to have, so two requests
  can wait for each other.
* What is published is not committed yet; what a read puts into an object is
  committed.
* A delete races the insertions that refer to the row, whether from carts and
  orders or between books, authors and categories.
* A PATCH writes the differences between its body and what it has loaded; two of
  them mix.
* Handlers hold nothing between two Redis commands; a command that fails may
  have taken effect; a response may be lost.
* Handlers test for a row and insert it later; the unique key answers the race
  with an error the code does not expect everywhere.
* Websocket clients come, stall and go in the middle of a broadcast.
* Containers start together, and are killed anywhere in their start-up.

**What makes each part correct.**  Orders: no copy sold twice or lost, an order
holds what its cart held, at the price in force, and is restocked once.  Books,
carts, wishlists and the catalogue: nothing refers to a row that is gone, no item
or cart is doubled.  Accounts: one account per address, an administrator's work is
done for an administrator, the log tells the truth.  Cache and feed: they tell the
committed stock unless something named has misled them.  Hub: a broadcast
reaches all who stay, and ends, and the writers of a row are heard in order.  Tokens: a spent token stays spent, a browser no fault has touched stays
signed in.  Start-up: nobody serves an unseeded database, seeds run once, every
container comes to serve.

## 2. The modules

    StoreState ── OrderService ─┐
               ├─ BookService  ─┼─ BookStore ─┬─ BookStoreClaims ── MCBookStore
               └─ CartService  ─┘      │      └─ BookStoreProofs ── LedgerProofs
                                     Shop  (implemented by BookStore)
    RefreshTokens ─┬─ MCRefreshTokens          Catalogue ────┬─ MCCatalogue
         │         └─ RefreshTokensProofs                    └─ CatalogueProofs
     TokenLife  (implemented by RefreshTokens) Accounts ─────┬─ MCAccounts
    Bootstrap ─────┬─ MCBootstrap                 │          └─ AccountsProofs
                   └─ BootstrapProofs        AddressBook  (implemented by Accounts)
    WebSocketHub ──┬─ MCWebSocketHub           Wishlists ────┬─ MCWishlists
                   └─ WebSocketHubProofs                     └─ WishlistsProofs

### The store: StoreState, OrderService, BookService, CartService, BookStore

A *request* is a slot that runs one handler of its `Menu`; `pc[r]` is the step it
is at and `session[r]` what it holds in memory, the record of which each field
is explained at `Session`.  An order is named by the request that placed it, a
cart row by the one that inserted it.  The steps of a handler end where it waits
or where others can see what it did; statements of one handler that touch
nothing anybody else writes are merged.

`row[b]` is the committed version of a book and `draft[b]` the version seen by the
transaction that has the row locked (`lock[b]`).  A step that locks is enabled
only while the row is free.  A read sees committed rows (READ COMMITTED), one
statement at a time: a cancellation reads the order in one statement and its
lines in another, and both steps are there.  `Rollback` is `get_db`'s except
branch, `Commit` its other end.  `Deadlocked` is PostgreSQL's detector, over the
waits that the code's statements can cause.

| Handler | Steps |
|---|---|
| checkout | `LoadCart`, `ReserveItem` per item, `PlaceOrder`, `ClearItems`, publish, `Commit` |
| cancel | `LoadOrder`, `LoadLines`, `RestockItem` per item, `UpdateOrder`, publish, `Commit` |
| get/list books | `ReadBooks`, `Hydrate` per book, `FlushBook` per changed book, `Commit` |
| create, patch, delete book | `InsertBook`; `LoadBook`, `PatchBook`; `LoadDependants`, `UnlinkItems`, `EraseBook`; then publish, `Commit` |
| cart get, add, set, remove, clear | `ViewCart`; `LoadForAdd`, `InsertItem` or `MergeItem`; `LoadForSet`, `SetItem`; `LoadForRemove`, `RemoveItems`; each through `CreateCart` when there is no cart |
| publish | `PublishToCache`, `PublishToHub` per book |

Two variables are history.  `tainted` are the books for which some write replaced
the stock with a number not derived from the row it overwrites; it lets
`LedgerBalances` say exactly when the copies of a book are conserved.  `misled` are
those of which Redis or the hub was told what the database does not hold: by a
request that published and rolled back (`Told`), by a PATCH that changed nothing
and had no lock, by a command Redis refused, by the write-back of a read.

A cart is created by an INSERT that `carts.user_id`'s unique key makes wait for
another (`CreateCart`); only an addition then has something more to wait for
(`Opened`), the others commit with it.  `Init` lets any user without rows have a
cart or none.

*Abstractions.*  A multi-row DELETE is one step; the books of a page are read and
hydrated in any order; a page is any set of books; `total_amount`, titles,
authors and categories are left out here; the `erase` step
takes the row lock and checks the foreign keys at once; the response leaves at
the commit.  Ids are generated fresh (uuid4), so a deleted id never returns.  `FlushBook`
follows SQLAlchemy in that an UPDATE of one row that finds none is an error and
an UPDATE of several (asyncpg's executemany, which returns no count) is not.

### Shop

What the store promises if every request happened at one moment: `Buy` takes all
copies from the shelf at the prices in force or does not happen, `Cancel` gives
them back once, `Withdraw` never takes a book that was sold, `Manage` is an
administrator.  A book in `adrift` has a count that was overwritten, and of it
only the count is not promised.  `BookStore!TheShop` maps the committed rows to
it, `tainted` to `adrift`; every step before a commit is a stutter.

### RefreshTokens

A token is named by the request that issued it.  `redis` is the set of keys in
the token store, `cookie[d]` what browser `d` holds.  A request presents the cookie
its browser has when it is sent, and issues one Redis command per step; each may
raise a RedisError with or without having taken effect (`Command`), a handler may
be cut off (`Crash`), a response lost (`Answer`), and a token may expire once the
request that issued it has ended (`Expire`).  Several requests of one browser are
in flight together: tabs and retries.  `TokenLife` is what is promised: a token is
issued at most once, dies for good, and is confirmed spent only when dead.

### WebSocketHub

`connections` is the hub's set.  `handler[w]` follows the websocket route and
`peer[w]` what a send to `w` does: it returns, does not return (the client does
not read and the buffer is full), or raises.  A broadcast lists the set in some
order (`Begin`), sends to the head (`Send`) and discards those that raised
(`Prune`).  No await happens while `_lock` is held, so the lock is never
contended and its critical sections are single steps.  The
request around a broadcast is reduced to what decides the order of events.  A
writer of the book's row (`Write`) has it locked until its transaction ends
(`RowFree`, `Commit`, `Rollback`) and tells the version it wrote; `Readers` are the
broadcasts of a PATCH that leaves the row as it is: no UPDATE is sent, no lock is
taken, and it tells the version that was committed when it read (`Read`).  Versions
of a row are numbered in the order they are written, those rolled back included.

### Wishlists

The one part of the store whose rows are created by whoever comes first.
`FetchList` and `CreateList` are `_get_or_create_wishlist`, `Lookup` and `Insert`
an addition, `SelectItems` and `Delete` a removal or a clearing, and with `Erase` the
deletion of a book, which cascades to wishlist items as to cart items.  What a
request has written and not committed is in `created`, `inserted` and `doomed`;
others wait for it where PostgreSQL makes them: at a unique key, a foreign key or
a deleted row.  An IntegrityError is handled nowhere here, so the request
ends as `failed`, a 500.  `overtaken` is a history variable: the requests that
another one committed beside.  The module stands apart from `BookStore` because
the two share nothing but the existence of books; what an order does to the
deletion of a book is in `BookService`.

### Catalogue

An administrator's handler for a book, an author or a category is a list of the
statements its flush sends, in SQLAlchemy's order: the row (`WriteBook`,
`WriteAuthor`, `WriteCategory`), the links it deletes (`Unlink`), the links it
inserts (`LinkAuthors`), and for a deletion `Unlink` or `Unshelve` and `Erase`, which does
what the foreign keys say (RESTRICT of `book_authors`, SET NULL of `category_id`).
`seen` is what it loaded, `Changes`, `Drops` and `Adds` the differences from its body.
`WaitsFor` says whom a statement waits for at rows, unique keys and foreign keys;
`holder`, `share`, `linked` and `unlinked` are what others have written or locked.
*Abstractions*: the loading of a row and the resolution of its authors and
category are one step; the locks of one statement are taken together and a
multi-row statement is one step; a body without fields and null for a required
column are left out.  The two modules about books share only which books exist:
what `Catalogue` calls a deletion is refused by `BookService` for a book on an order.

### Accounts

Registration, the change of a profile, login, logout and an administrator's
request.  `email[a]` is the committed address of account `a`.  A registration inserts
its row and, in a savepoint, an audit row (`NoteRegistration`); logins and logouts
write theirs in a background task after the answer (`InsertEvent`), which may fail
or be cut off.  An UPDATE of a profile locks the row (`WriteProfile`) and then enters
the address into the unique index (`IndexProfile`), where it may wait for another.
`require_admin` reads the user and, in a second statement, its role; `SetStatus` is
an operator who changes either in the database, which no handler does.
*Abstractions*: the default role is there, a password is right or wrong, and since
the version of FastAPI is not fixed by the repository no property depends on
whether the answer leaves before or after the commit.  Access tokens do not
expire here; `RefreshTokens` has expiry.

`AddressBook` is what is promised: `Enrol` brings an account, its address and at most
its audit row at one moment, `Move` gives an account an address that nobody else
has, `Admit` is a request that changes neither, `Record` a login or logout that is
noted after it was carried out.  `Accounts!Book` maps the committed addresses and
log to it; a request counts as carried out (`Served`) from its commit, a login or
logout from Redis's answer.  That an account stays though its audit row fails is the
savepoint's doing (`KeptBySavepoint`).

### Bootstrap

`pc[c]` walks container `c` through `docker-start.sh`; under `set -e` any failure
stops it and `Restart` begins anew.  The migrations are one transaction and take
no lock: of two containers that saw an empty schema the second fails.  The seed
files are applied under an advisory lock, each committed by itself; the marker
row is written last.  `Repeatable` are the files that can be applied to a
database that has them (ON CONFLICT or UPDATE); the others are plain INSERTs.

## 3. The runs

A property states something that several actors or several steps could break;
each has a mutant in `PROJECT.json`, a plausible bug that TLC finds.

| Run | Instance | Shows |
|---|---|---|
| `any_three_requests` | 2 users (one perhaps without a cart), 2 book ids (one exists), 3 requests with any of the eleven handlers | types; stock never negative; no dangling row; one cart each; stock moves only with an order or an administrator's or a read's write; the store implements `Shop` |
| `orders` | 1 user, 2 books of 2 copies, 3 requests, crashes, Redis faults | copies are conserved, and cache and feed tell the committed stock, outside the named exceptions; an order is placed under the locks of its books and at their prices; the store implements `Shop` also when everything fails |
| `serving` | 2 users, both books in both carts, 4 requests, fairness | every request is answered, deadlocks included |
| `tokens` | 1 browser, 5 requests, all faults | a spent token stays revoked; an unharmed browser's cookie is good; the handlers implement `TokenLife` |
| `catalogue` | 3 books, authors, categories, one of each not yet created, 7 bodies, 3 requests of any kind | references hold and unique columns stay unique; a 500 has one of three causes; a request nobody overtakes leaves what its body asked for |
| `accounts` | 2 residents, 3 addresses, 3 requests, all faults, an operator | one account per address; the log tells the truth; the handlers implement `AddressBook`; races end in a 409; administrators were administrators; every request is answered |
| `wishlists` | 2 users without wishlists, 2 books, 4 requests of any kind, 3 of them of one user | no item dangles or is doubled; a 500 happens only to a request that another overtook |
| `hub` | 2 clients, 3 broadcasts about one book, 1 by a PATCH that leaves the row alone | broadcasts reach the living and end; what a writer of the row tells is newer than all its client has heard; the dead are forgotten |
| `bootstrap` | 3 containers, 6 seed files, 2 crashes, 2 connection attempts | nobody serves unseeded; seeds stay put; everybody comes up unless half seeded |

Three runs state what a comment or a document of the repository says and the code
does not keep; each shows a counterexample.

| Run | Statement | What happens |
|---|---|---|
| `claim_lost_copy` | "lock the row for the current transaction" (`book_repository.py:31`): no sale is lost | two checkouts both decrement the stock they loaded before the lock |
| `claim_order_cart` | "Convert the current cart into a placed order and clear the cart" (`order_service.py:22`) | two checkouts of one cart place two orders; a row added meanwhile is cleared unordered |
| `claim_logout` | "logout immediately invalidates the session" (`README.md:60`) | a refresh that had looked its token up stores a new one after the logout |

The models show more of the kind without a run of its own:

* carts and wishlists: of two concurrent additions of a book to a cart one is lost
  (`MergeItem`); of two additions of a book to a wishlist one may end in a 500,
  although "keep operation idempotent for duplicates" (`wishlist_service.py:40`); so
  may one of two first accesses to either;
* orders: two cancellations of one order both restock it, although only orders
  "that are still cancellable" should be (`order_service.py:90`; `RestockedAgain`);
* cache and feed: a GET writes the cached stock back to the table where the two
  differ (`FlushBook`); the exceptions in `misled`; a PATCH that leaves the row alone
  may send a client an older stock after a newer one (`WebSocketHub!Read`);
* catalogue: two PATCHes of one book mix their sets of authors; the deletion of a
  category empties the category of a book that was moved to another one
  meanwhile; a PATCH and a DELETE of one book can deadlock;
* accounts: two profiles that swap addresses deadlock; a PATCH whose address was
  changed by another meanwhile answers with an address it did not store; an audit
  row is lost when its background task is, or fails (a User-Agent longer than the
  column does it), although authentication actions are recorded (`README.md:62`);
* tokens: a refresh whose revocation reported an error after taking effect leaves
  neither token alive although the answer says to try again; so does a lost answer;
* start-up: the files are to be run "once" (`seed_db.py:1`), and a start-up killed
  between two of them can never be repeated (`HalfSeeded`).

**Bounds, and why they are enough.**  The constants are the bounds; nothing else
limits the models, except that a seed file is counted up to two applications.
Every defect of the store found so far needs two requests, and a third to reach
the state that shows it; `serving` has four because a deadlock of two and two
bystanders fit in it.  In `orders` one user suffices, since an order is about rows of
books and its own cart; `any_three_requests` has the second.  Two books are needed for a lock order, two stock levels
for a stale value, an id that does not exist for creation and 404, quantity 0 for
validation.  Two users tell apart carts that share books.  Requests, tokens and
browsers are symmetric in `tokens`; two browsers share nothing but the key space,
so one is enough.  Three requests of
one user are two that race and one that clears up beside them, and the fourth is
another user's or an administrator's; requests of one user, and books, are
symmetric in `wishlists`.  Two clients have two orders in a list; a third only waits.
Books share no row, so that one book is enough in `hub`: two writers of it and one
reader can overlap in every order.
In `catalogue` two rows of each kind exist, so that a body can replace one by the
other, a third can be created, and one ISBN is enough to collide; requests are
symmetric, and three are two that race and one that removes what both refer to.
In `accounts` two residents can swap addresses while a registration wants one of
them; one resident's status changes, the other's is the control.
Two crashes are one in the seeding and one in the recovery from it.

**Fairness.**  `BookStore!FairSpec`: the event loop runs each handler it has
admitted (WF on its steps), and the detector aborts a victim (WF).  WF is enough
because a row lock that is given up stays free until a request takes it and
requests are finitely many.  Nothing obliges a client to send a request, or
Redis to evict.  `Bootstrap!FairSpec`: PostgreSQL comes up, a stopped container
is started again (by an operator: `docker-compose.yml` gives `api` no restart
policy, so that `ComesUp` is about a deployment in which somebody or something does
that), and each container's steps
are strongly fair because PostgreSQL queues those who wait for the advisory lock.
`WebSocketHub!FairSpec`: a request that has written or read the row goes on to its
broadcast and its commit, a broadcast goes on (SF, since a client may stall and
resume forever and takes what waits for it when it resumes), uvicorn's ping
timeout ends a client that never resumes, and the route notices a client that is
gone.  `Accounts!FairSpec`: WF on the statements of each request and on the detector.
Crashes and losses are never fair.  The runs with properties of safety
only use `Spec`.

Deadlock is checked everywhere; `Idle` is the stuttering of a system in which
nothing is in progress, so a state in which requests wait and none can go on is
reported.

## 4. The proofs

Every invariant, action property and refinement that a passing run checks is a
theorem; what is left to TLC is liveness.

| Theorem | Says | By |
|---|---|---|
| `BookStoreProofs!TypesHold` | `Spec => []TypeOK` | `Typed` |
| `BookStoreProofs!StockHolds` | `Spec => []StockStaysAboveFloor` | `Typed` |
| `BookStoreProofs!OneCartHolds` | `Spec => []OneCartEach` | `Sound` |
| `BookStoreProofs!ReferencesHold` | `Spec => []NoDanglingRows` | `Sound` |
| `BookStoreProofs!SalesHold` | `Spec => SaleHoldsItsBooks` | `Sound` |
| `BookStoreProofs!StockMovesOnlySo` | `Spec => StockMovesWithOrders` | `Sound` |
| `BookStoreProofs!StoreImplementsShop` | `Spec => ImplementsShop` | `Sound` |
| `LedgerProofs!LedgersBalance` | `Spec => []LedgerBalances` | `Balanced` |
| `LedgerProofs!CacheFollows` | `Spec => []CacheFollowsDatabase` | `Truthful` |
| `LedgerProofs!NewsFollows` | `Spec => []NewsFollowsDatabase` | `Truthful` |
| `CatalogueProofs!TypesHold` | `Spec => []TypeOK` | `Typed` |
| `CatalogueProofs!ReferencesAlwaysHold` | `Spec => []ReferencesHold` | `Sound` |
| `CatalogueProofs!OnlyForCauseFail` | `Spec => FailsOnlyForCause` | `Sound`, `Current` |
| `CatalogueProofs!AllDoneAsAsked` | `Spec => DoneAsAsked` | `Sound`, `Current` |
| `AccountsProofs!TypesHold` | `Spec => []TypeOK` | `Typed` |
| `AccountsProofs!AddressesAreUnique` | `Spec => []EmailsUnique` | `Sound` |
| `AccountsProofs!TheLogTellsTheTruth` | `Spec => []LogTellsTruth` | `Sound` |
| `AccountsProofs!AccountsImplementAddressBook` | `Spec => ImplementsAddressBook` | `Sound`, `Notes` |
| `AccountsProofs!OnlyNullAndDeadlockFail` | `Spec => RacesEndInConflict` | `Typed` |
| `AccountsProofs!AdminsHaveBeenAdmins` | `Spec => AdminsWereAdmins` | `Admins` |
| `WishlistsProofs!TypesHold` | `Spec => []TypeOK` | `Typed` |
| `WishlistsProofs!ItemsAlwaysBelong` | `Spec => []ItemsBelong` | `Sound` |
| `WishlistsProofs!OnlyTheOvertakenFail` | `Spec => []FailsOnlyWhenOvertaken` | `Sound`, `Fresh` |
| `RefreshTokensProofs!TypesHold` | `Spec => []TypeOK` | `Safe` |
| `RefreshTokensProofs!SpentForGood` | `Spec => []SpentTokensStayRevoked` | `Safe` |
| `RefreshTokensProofs!ImplementsTokenLife` | `Spec => TokensLiveOnce` | `Safe` |
| `RefreshTokensProofs!BrowsersStaySignedIn` | `Spec => []BrowserStaysSignedIn` | `Aligned` |
| `WebSocketHubProofs!TypesHold` | `Spec => []TypeOK` | `Typed` |
| `WebSocketHubProofs!BroadcastsReachTheLiving` | `Spec => []ReachesTheLiving` | `Reaching` |
| `WebSocketHubProofs!EventsComeInOrder` | `Spec => EventsInOrder` | `Ordered` |
| `BootstrapProofs!TypesHold` | `Spec => []TypeOK` | `Typed` |
| `BootstrapProofs!ServesOnlySeeded` | `Spec => []ServesSeeded` | `Staged` |
| `BootstrapProofs!SeedsApplyInOrder` | `Spec => SeedsStayPut` | `Staged` |

They hold for all constants that satisfy the named assumptions: any number of
books, users, requests, browsers, rows, containers and seed files, any menu, with or
without faults.  The assumptions are that ids are disjoint from sentinels and the
ids of different tables from each other, that stock and quantities are integers,
that what is in the database at the start satisfies the constraints of its schema
(foreign and unique keys, NOT NULL), that the clients of the hub and the books are
finitely many, and that `Floor` bounds what administrators submit.  TLC evaluates
each of them in the runs.

The invariants were checked by TLC on the instances of the runs before they were
proved.  In every module a first one, `Typed`, says besides `TypeOK` which handler a
step belongs to.  What the others add to the property they are for:

**Stock stays above its floor** (`Typed`).  The stock a step writes comes from the
session (read earlier), from Redis (published earlier) or from a body.  `Typed`
therefore gives every place a stock can be copied to the same range, `Stock`, and
every quantity the range `Nat`, so that a sale, which tests before it subtracts,
and a restock, which adds, both stay in it; and it says what five steps find in
the session (`Ready`).  That the tested stock is *stale* does not matter for the
bound, which is the reason the oversale of `claim_lost_copy` is never visible as a
negative stock.  The proof has a lemma per action and a few for the shapes most
actions share (`PrivateTyped`, `RollbackTyped`, `WriteStepTyped`).

**The store implements Shop** (`Sound`).  `Held(r, b)` gives, for each kind of
handler, how the uncommitted version of a row it has locked differs from the
committed one: a checkout has taken its quantity off and noted the price, a
cancellation has put it back, unless the book is tainted; a deletion has found
no order and no cart row but those it deletes.  `Covered` says that a checkout or a
cancellation past its loop has locked every book it is about.  Since nobody else
writes a locked row, and a row lock keeps foreign keys from being added, this
survives the steps of all others (`Undisturbed`), and at the commit it is what `Shop`
demands (`BuyImplements`, `CancelImplements`, `DeleteImplements`,
`AdministerImplements`); every other step leaves rows and orders alone
(`OnlyCommitsShow`).  `CartOk` and `CreatorOk` carry the references of carts and the
uniqueness of the cart: who is in `fill` has inserted the only one.

**The ledger balances** (`Balanced`).  A sum over the placed orders changes by one
order in a commit; by `Sound` that order's quantities are what the commit takes off
the shelf or puts back.  `MapThenSumSet` is a recursive function on the subsets of its
set, and the induction theorems cannot be instantiated; so the facts needed (the sum
exists, is an integer, grows by what is added, depends on the summands only) are
each proved from a smallest subset for which one would fail (`SmallestSet`), which
exists because inclusion of finite sets is well-founded.  Requests need not be finitely many:
`Balanced` says that those with placed orders are.

**Cache and feed follow the database** (`Truthful`).  While a row is free, Redis and
the hub have been told its committed version; while it is locked, that or, once the
holder has published, the holder's own (`BookOk`).  What a handler publishes is what
it has in its session, and `HolderOk` says that this is what it wrote under the lock;
`PublisherOk` that whatever it has yet to publish it has locked, unless the row is gone
or the handler is the PATCH that changed nothing and is counted in `misled`.

**References and unique keys of the catalogue** (`Sound`).  `Refs` is the property and
what the schema says of rows that are gone.  `HolderOk` and `RequestOk` say what a
request has written and locked at each step; `DoomOk` what a deletion has achieved when
it has the row: nobody has it locked as a reference, all its links are among those
the request deletes, and the books on its shelf are held by the same request.  A
foreign key check that waited for nobody has found no doomed row
(`BarredFromTheDoomed`).  `Unique` is about the values rows have *or will have* when their
writers commit, since an entry of a unique index counts before its commit.

**A 500 has a cause, and bodies are carried out** (`Current`).  As long as no other
request has committed, what a request has loaded is what there is, and what it has
sent so far is the part of the difference that its step implies.  Every cause a
statement has to fail (`CauseIn`) then contradicts what was loaded, except the name of
another category; and at the commit links and shelf come out as the body says, because
`(links \ drops) \cup adds` undoes the difference (`LinksAsAsked`, `ShelvesAsAsked`).

**Accounts** (`Sound`, `Notes`, `Admins`).  A row's new address is unique among the committed ones
and among the entries of the index from the moment it is indexed (`IndexedOk`), which is
after its row was written (`WrittenOk`); the log's rows are of requests that ended well
(`LogOk`).  So a commit that has written a row is an `Enrol` or a `Move`: its address is free
(`CommitImplements`), and only a registration can bring an audit row with it (`Notes`);
all but the commits and the steps of logins and logouts past Redis are stutters.
`Admins` carries what the first of `require_admin`'s two reads has seen to the
second: who was active then is `entitled`, whatever an operator did in between.

**Wishlists** (`Sound`, `Fresh`).  What a request has inserted belongs to a list and a book
nobody else can delete before it ends (`InsertedOk`), and a deletion of a book has all its
items (`WithdrawnOk`).  `Fresh` is for the failures what `Current` is for the catalogue.

**Tokens** (`Safe`, `Aligned`).  `Safe` adds to `SpentTokensStayRevoked` that the request
that issued any token a browser holds or a request was sent has been answered
(`Settled`), and that a logout stores nothing (`Routed`).  A `Store` puts the token of a
request that is still running into Redis; by `Settled` nobody can have spent that token
yet.  For the refinement it also says that a token was shown to its request by an
answer (`Shown`), so that an answer which confirms a token confirms a dead one.
`Aligned` says that a browser whose cookie is not in Redis has a request that spent it
and has not answered, or failed to (`Accounted`), that a handler which has stored its
token has it in Redis until it answers (`Kept`), and that browsers show only tokens of
their own (`Owned`).

**Hub** (`Reaching`, `Ordered`).  Whoever was connected when a broadcast took its list and
lives is still connected and has been told or is still on the list; only the dead are on
the list of the stale.  From its UPDATE to the end of its transaction a writer tells the
latest version of the row, all that others tell of the book is older (`Newest`), and the
committed version is older too, so that no reader can overtake it; `RowFree` lets the next
writer in only after it.  Of what a reader tells nothing is claimed but that it is
not newer than the latest version.

**Start-up** (`Staged`).  The marker is in the database only with the schema and every
seed file, and whoever holds the advisory lock has applied exactly the files before its
next one; a killed container leaves what it committed.

Only model-checked: `EveryRequestAnswered`, `EveryRequestSettles`, `EveryBroadcastEnds`,
`DeadClientsForgotten` and `ComesUp`, which need fairness and ENABLED and are out of the
prover's reach; and that the three statements of documents fail, which is a matter of a
counterexample.

## 5. Not modelled, and the plan

Not modelled: the bodies of responses (a cart or wishlist answers with the
collection it loaded before the change), the columns no handler computes with
(titles, descriptions, dates, the names of authors), `total_amount`, restarts of the
token Redis, the contents of migrations and seed files.  Not modelled at all:
rate limits (a library's counters), CORS, logging, health checks, settings and
schemas (wiring and validation, of which the models use the outcome), and the
delivery of the response in relation to the commit.

1. *Abstract specification*: the hub as a feed per client in the order of the writes.
2. *Redis restarts*: the token store losing its last second of writes
   (`docker-compose.yml:69`).
3. *Answers*: what a response lists against what its commit leaves.
