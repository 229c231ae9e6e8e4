---------------------------- MODULE OrderService ----------------------------
(***************************************************************************)
(* POST /orders/checkout and POST /orders/{id}/cancel, up to the point     *)
(* where their stock changes are published (BookStore has that step, which *)
(* they share with the book handlers).                                     *)
(*                                                                         *)
(* The handlers lock each book with SELECT ... FOR UPDATE, but the Book    *)
(* objects were already loaded into the session, with the cart or with the *)
(* order, and a locking SELECT without populate_existing leaves a loaded   *)
(* object as it is.  So the stock they compute from is seen[b], read       *)
(* before the lock, while the price is read back by refresh() under it.    *)
(***************************************************************************)
EXTENDS StoreState, SequencesExt

\* The order in which a result set lists its rows is not specified.
Routes(S) == SetToSeqs(S)

StockOf(S) == [b \in Books |-> IF b \in S THEN row[b].stock ELSE 0]
PriceOf(S) == [b \in Books |-> IF b \in S THEN row[b].price ELSE 0]

\* History: an absolute write computed from a value the row no longer has.
NoteStale(b, seenStock) ==
    /\ tainted' = IF seenStock = row[b].stock THEN tainted ELSE tainted \cup {b}
    /\ UNCHANGED misled

-----------------------------------------------------------------------------
(* Checkout.                                                               *)

\* Mutant: the test lets one copy too many through.
EnoughStockOffByOne(stock, quantity) == stock + 1 >= quantity

EnoughStock(stock, quantity) == stock >= quantity

StockAfterSale(stock, quantity) == stock - quantity

\* Mutant: the price loaded with the cart, as if update() did not refresh.
UnitPriceOfCart(r, b) == session[r].bill[b]

\* unit_price is book.price after books.update has refreshed the book.
UnitPrice(r, b) == row[b].price

\* get_by_user_id: the cart and, in one statement, its items with their books.
LoadCart(r) ==
    LET basket == InCart(Buyer[r]) IN
    /\ pc[r] = "new" /\ "checkout" \in Menu[r]
    /\ \/ basket = {} /\ Rollback(r, "refused")
       \/ /\ basket # {}
          /\ \E route \in Routes(basket) :
                Goto(r, "reserve",
                     [Blank EXCEPT !.kind = "checkout", !.route = route,
                                   !.qty = [b \in Books |-> cart[Buyer[r]][b].qty],
                                   !.seen = StockOf(basket),
                                   !.bill = PriceOf(basket),
                                   !.left = basket])
          /\ Private

\* One turn of the loop over cart.items that decrements the stock.
Reserve(r, b) ==
    LET s == session[r]
        stock == StockAfterSale(s.seen[b], s.qty[b]) IN
    /\ Write(r, b, [row[b] EXCEPT !.stock = stock])
    /\ NoteStale(b, s.seen[b])
    /\ Goto(r, "reserve", [s EXCEPT !.route = Tail(s.route),
                                    !.seen[b] = stock,
                                    !.bill[b] = UnitPrice(r, b)])
    /\ UNCHANGED <<stored, published, unused>>

\* The three errors of the loop: quantity, missing book, stock.
ReserveItem(r) ==
    LET s == session[r]
        b == Head(s.route)
        sellable == row[b].live /\ EnoughStock(s.seen[b], s.qty[b]) IN
    /\ pc[r] = "reserve" /\ s.route # << >>
    /\ \/ s.qty[b] >= 1 /\ Free(r, b) /\ sellable /\ Reserve(r, b)
       \/ /\ s.qty[b] < 1 \/ (Free(r, b) /\ ~sellable)
          /\ Rollback(r, "refused")

\* What clear_items selects: every row of the cart at that moment.
ItemsToClear(r) == CartItems(Buyer[r])

\* orders.create flushes the order; clear_items then selects the cart's rows.
PlaceOrder(r) ==
    LET s == session[r] IN
    /\ pc[r] = "reserve" /\ s.route = << >>
    /\ Goto(r, "clear", [s EXCEPT !.doomed = ItemsToClear(r)])
    /\ Private

\* The flush of clear_items: DELETE waits for other deletes of the same rows
\* and passes over the rows that are gone.
ClearItems(r) ==
    LET s == session[r] IN
    /\ pc[r] = "clear"
    /\ ItemsFree(r, s.doomed)
    /\ Goto(r, "cache", s)
    /\ Private

-----------------------------------------------------------------------------
(* Cancellation.                                                           *)

StockAfterRestock(stock, quantity) == stock + quantity

\* Only "placed" orders exist besides cancelled ones: nothing writes "pending".
Cancellable(o) == orders[o].status = "placed"

\* The first statement of get_by_id reads the order and its status.
LoadOrder(r) ==
    /\ pc[r] = "new" /\ "cancel" \in Menu[r]
    /\ \E o \in Requests :
          \/ /\ Buyer[o] = Buyer[r] /\ Cancellable(o)
             /\ Goto(r, "lines", [Blank EXCEPT !.kind = "cancel", !.order = o])
             /\ Private
          \/ /\ ~(Buyer[o] = Buyer[r] /\ Cancellable(o))
             /\ Rollback(r, "refused")

\* The second statement of get_by_id reads the order's items with their books,
\* from a later snapshot than the status.
LoadLines(r) ==
    LET s == session[r]
        books == Ordered(s.order) IN
    /\ pc[r] = "lines"
    /\ \E route \in Routes(books) :
          Goto(r, "restock", [s EXCEPT !.route = route,
                                       !.qty = orders[s.order].qty,
                                       !.seen = StockOf(books),
                                       !.left = books])
    /\ Private

\* One turn of the loop over order.items; a missing book is passed over.
RestockItem(r) ==
    LET s == session[r]
        b == Head(s.route)
        stock == StockAfterRestock(s.seen[b], s.qty[b]) IN
    /\ pc[r] = "restock" /\ s.route # << >>
    /\ Free(r, b)
    /\ \/ /\ row[b].live
          /\ Write(r, b, [row[b] EXCEPT !.stock = stock])
          /\ NoteStale(b, s.seen[b])
          /\ Goto(r, "restock", [s EXCEPT !.route = Tail(s.route), !.seen[b] = stock])
          /\ UNCHANGED <<stored, published, unused>>
       \/ /\ ~row[b].live
          /\ Goto(r, "restock", [s EXCEPT !.route = Tail(s.route), !.left = @ \ {b}])
          /\ Private

\* orders.update sets the status.  The order row needs no wait of its own: two
\* cancellations of one order lock the same books first.
UpdateOrder(r) ==
    /\ pc[r] = "restock" /\ session[r].route = << >>
    /\ Goto(r, "cache", session[r])
    /\ Private

-----------------------------------------------------------------------------
OrderNext(r) ==
    \/ LoadCart(r) \/ ReserveItem(r) \/ PlaceOrder(r) \/ ClearItems(r)
    \/ LoadOrder(r) \/ LoadLines(r) \/ RestockItem(r) \/ UpdateOrder(r)
=============================================================================
