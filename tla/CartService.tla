----------------------------- MODULE CartService -----------------------------
(***************************************************************************)
(* The handlers of /cart: view, add, set quantity, remove, clear.  Each    *)
(* looks for the user's cart and creates it when there is none.  Then it   *)
(* reads the cart row and writes it in a later statement; nothing locks    *)
(* the row in between.  The write and the commit that follows it are one   *)
(* step, for the handler does nothing after the write that can wait.       *)
(***************************************************************************)
EXTENDS StoreState

\* The handlers whose lock on a book row is in conflict with the FOR KEY SHARE
\* lock by which PostgreSQL checks the foreign key of an inserted cart row.
BlocksForeignKey(b) ==
    lock[b] # Nil /\ session[lock[b]].kind \in {"checkout", "cancel", "delete"}

\* The row of the cart that item was read from is still there.
StillThere(r, b) == cart[Buyer[r]][b].id = session[r].item.id

\* The request has inserted its user's cart and not committed it.
Opened(r) == pc[r] = "fill"

CartsWith(r) == IF Opened(r) THEN carts \cup {<<Buyer[r], r>>} ELSE carts

SaveItem(r, b, item) ==
    /\ cart' = [cart EXCEPT ![Buyer[r]][b] = item]
    /\ carts' = CartsWith(r)
    /\ Finish(r, "ok")
    /\ UNCHANGED <<row, orders, lock, draft, published, unused, history>>

\* The cart row of b, if there is one, is not being deleted by another request.
Settled(r, b) == ItemsFree(r, {<<Buyer[r], b, cart[Buyer[r]][b].id>>})

ReadItem(r, step, kind, b, quantity) ==
    Goto(r, step, [Blank EXCEPT !.kind = kind, !.route = <<b>>,
                                    !.qty[b] = quantity,
                                    !.item = cart[Buyer[r]][b]])

-----------------------------------------------------------------------------
(* _get_or_create_cart, when there is no cart.                             *)

\* What the handler holds when it finds no cart: it goes on in a fresh one.
Enter(r, kind) == Goto(r, "open", [Blank EXCEPT !.kind = kind])

\* GET /cart writes nothing but the cart.
ViewCart(r) ==
    /\ pc[r] = "new" /\ "view" \in Menu[r]
    /\ \/ HasCart(Buyer[r]) /\ Rollback(r, "ok")
       \/ ~HasCart(Buyer[r]) /\ Enter(r, "view") /\ Private

\* Mutant: no unique key on carts.user_id.
MayCreateAlways(r) == TRUE

\* carts.user_id is unique.
MayCreate(r) == ~HasCart(Buyer[r])

\* INSERT INTO carts waits for another one with the same user_id.  In the new cart
\* there is no item to set or to remove.
CreateCart(r) ==
    LET s == session[r] IN
    /\ pc[r] = "open"
    /\ \A x \in Requests : Buyer[x] = Buyer[r] => ~Opened(x)
    /\ \/ ~MayCreate(r) /\ Rollback(r, "failed")
       \/ /\ MayCreate(r) /\ s.kind = "add"
          /\ Goto(r, "fill", s) /\ Private
       \/ MayCreate(r) /\ s.kind \in {"setQuantity", "remove"} /\ Rollback(r, "refused")
       \/ /\ MayCreate(r) /\ s.kind \in {"view", "empty"}
          /\ carts' = carts \cup {<<Buyer[r], r>>}
          /\ Finish(r, "ok")
          /\ UNCHANGED <<row, cart, orders, lock, draft, published, unused, history>>

-----------------------------------------------------------------------------
(* POST /cart/items.                                                       *)

LoadForAdd(r) ==
    /\ pc[r] = "new" /\ "add" \in Menu[r]
    /\ \E b \in Books, quantity \in Quantities :
          \/ /\ quantity >= 1 /\ row[b].live
             /\ ReadItem(r, IF HasCart(Buyer[r]) THEN "mutate" ELSE "open", "add", b, quantity)
             /\ Private
          \/ (quantity < 1 \/ ~row[b].live) /\ Rollback(r, "refused")

\* INSERT: waits for the foreign and the unique key, fails when either is broken.
MayInsert(r, b) == row[b].live /\ cart[Buyer[r]][b].id = Nil

InsertItem(r) ==
    LET s == session[r]
        b == Head(s.route) IN
    /\ Opened(r) \/ (pc[r] = "mutate" /\ s.kind = "add" /\ s.item.id = Nil)
    /\ ~BlocksForeignKey(b) /\ Settled(r, b)
    /\ \/ MayInsert(r, b) /\ SaveItem(r, b, [id |-> r, qty |-> s.qty[b]])
       \/ ~MayInsert(r, b) /\ Rollback(r, "failed")

\* UPDATE with the sum of the quantity read and the one submitted.
MergeItem(r) ==
    LET s == session[r]
        b == Head(s.route) IN
    /\ pc[r] = "mutate" /\ s.kind = "add" /\ s.item.id # Nil
    /\ Settled(r, b)
    /\ \/ /\ StillThere(r, b)
          /\ SaveItem(r, b, [s.item EXCEPT !.qty = @ + s.qty[b]])
       \/ ~StillThere(r, b) /\ Rollback(r, "failed")

-----------------------------------------------------------------------------
(* PATCH and DELETE /cart/items/{id}, DELETE /cart.                        *)

\* A body without a quantity changes nothing and is left out.
LoadForSet(r) ==
    /\ pc[r] = "new" /\ "setQuantity" \in Menu[r]
    /\ \E b \in Books, quantity \in Quantities :
          \/ ~HasCart(Buyer[r]) /\ Enter(r, "setQuantity") /\ Private
          \/ /\ HasCart(Buyer[r]) /\ b \in InCart(Buyer[r]) /\ quantity >= 1
             /\ ReadItem(r, "mutate", "setQuantity", b, quantity)
             /\ Private
          \/ HasCart(Buyer[r]) /\ (b \notin InCart(Buyer[r]) \/ quantity < 1) /\ Rollback(r, "refused")

\* No UPDATE is sent when the quantity is the one read; the refresh after it
\* still needs the row.
SetItem(r) ==
    LET s == session[r]
        b == Head(s.route) IN
    /\ pc[r] = "mutate" /\ s.kind = "setQuantity"
    /\ \/ /\ s.qty[b] # s.item.qty /\ Settled(r, b) /\ StillThere(r, b)
          /\ SaveItem(r, b, [s.item EXCEPT !.qty = s.qty[b]])
       \/ /\ s.qty[b] = s.item.qty /\ StillThere(r, b)
          /\ Rollback(r, "ok")
       \/ ~StillThere(r, b) /\ Rollback(r, "failed")

LoadForRemove(r) ==
    /\ pc[r] = "new"
    /\ \/ /\ ~HasCart(Buyer[r])
          /\ \E kind \in {"remove", "empty"} \cap Menu[r] : Enter(r, kind)
          /\ Private
       \/ /\ HasCart(Buyer[r])
          /\ "remove" \in Menu[r]
          /\ \E b \in Books :
                \/ /\ b \in InCart(Buyer[r])
                   /\ Goto(r, "mutate",
                           [Blank EXCEPT !.kind = "remove",
                                         !.doomed = {<<Buyer[r], b, cart[Buyer[r]][b].id>>}])
                   /\ Private
                \/ b \notin InCart(Buyer[r]) /\ Rollback(r, "refused")
       \/ /\ HasCart(Buyer[r])
          /\ "empty" \in Menu[r]
          /\ Goto(r, "mutate", [Blank EXCEPT !.kind = "empty", !.doomed = CartItems(Buyer[r])])
          /\ Private

\* DELETE waits for other deletes of the same rows and passes over rows gone.
RemoveItems(r) ==
    LET s == session[r] IN
    /\ pc[r] = "mutate" /\ s.kind \in {"remove", "empty"}
    /\ ItemsFree(r, s.doomed)
    /\ cart' = Without(s.doomed)
    /\ Finish(r, "ok")
    /\ UNCHANGED <<row, carts, orders, lock, draft, published, unused, history>>

-----------------------------------------------------------------------------
CartNext(r) ==
    \/ ViewCart(r) \/ CreateCart(r)
    \/ LoadForAdd(r) \/ InsertItem(r) \/ MergeItem(r)
    \/ LoadForSet(r) \/ SetItem(r)
    \/ LoadForRemove(r) \/ RemoveItems(r)
=============================================================================
