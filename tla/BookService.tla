----------------------------- MODULE BookService -----------------------------
(***************************************************************************)
(* GET, POST, PATCH and DELETE of /books, up to the point where the stock  *)
(* is published.  Authors, categories, the search filters and the ISBN     *)
(* constraint are left out here: they touch neither stock nor cart.        *)
(*                                                                         *)
(* The GET handlers assign the cached stock to the Book objects of the     *)
(* session; when it differs from the stock read, the commit of get_db      *)
(* flushes it to the books table.                                          *)
(***************************************************************************)
EXTENDS StoreState

-----------------------------------------------------------------------------
(* GET /books and GET /books/{id}.                                         *)

\* The page is any set of the books that exist: filters, sort, limit, offset.
ReadBooks(r) ==
    /\ pc[r] = "new" /\ "read" \in Menu[r]
    /\ \/ \E page \in SUBSET Live \ {{}} :
             /\ Goto(r, "hydrate",
                     [Blank EXCEPT !.kind = "read", !.left = page,
                                   !.seen = [b \in Books |-> IF b \in page THEN row[b].stock ELSE 0]])
             /\ Private
       \/ Live # Books /\ Rollback(r, "refused")

\* hydrate_book for one book of the page.  A RedisError ends the whole loop.
Hydrate(r) ==
    LET s == session[r] IN
    /\ pc[r] = "hydrate"
    /\ \/ \E b \in s.left :
             \/ /\ cache[b] \in {Nil, s.seen[b]}
                /\ Goto(r, "hydrate", [s EXCEPT !.left = @ \ {b}])
             \/ /\ cache[b] \notin {Nil, s.seen[b]}
                /\ Goto(r, "hydrate", [s EXCEPT !.left = @ \ {b}, !.seen[b] = cache[b],
                                                !.unsaved = @ \cup {b}])
       \/ /\ s.left = {} \/ RedisFails
          /\ Goto(r, "flush", [s EXCEPT !.left = s.unsaved])
    /\ Private

IsFirst(b, S) == b \in S /\ \A c \in S : b <= c

\* The commit's flush: UPDATE books SET stock = ..., in primary key order.  When
\* there is one such row and it is gone, that is a StaleDataError; the driver does
\* not count the rows of several UPDATEs sent together.
FlushBook(r) ==
    LET s == session[r] IN
    /\ pc[r] = "flush"
    /\ \E b \in s.left :
          /\ IsFirst(b, s.left) /\ Free(r, b)
          /\ \/ /\ row[b].live
                /\ Write(r, b, [row[b] EXCEPT !.stock = s.seen[b]])
                /\ tainted' = tainted \cup {b}
                /\ misled' = misled \cup {b}
                /\ Goto(r, "flush", [s EXCEPT !.left = @ \ {b}])
                /\ UNCHANGED <<stored, published, unused>>
             \/ ~row[b].live /\ s.unsaved = {b} /\ Rollback(r, "failed")
             \/ /\ ~row[b].live /\ s.unsaved # {b}
                /\ Goto(r, "flush", [s EXCEPT !.left = @ \ {b}])
                /\ Private

-----------------------------------------------------------------------------
(* POST /books.                                                            *)

\* The new row is invisible to others until the commit; its key is fresh.
InsertBook(r) ==
    /\ pc[r] = "new" /\ "create" \in Menu[r]
    /\ \E b \in unused, level \in Levels, price \in Prices :
          /\ unused' = unused \ {b}
          /\ Write(r, b, [live |-> TRUE, stock |-> level, price |-> price])
          /\ tainted' = tainted \cup {b}
          /\ Goto(r, "cache", [Blank EXCEPT !.kind = "create", !.left = {b}, !.seen[b] = level])
    /\ UNCHANGED <<stored, published, misled>>

-----------------------------------------------------------------------------
(* PATCH /books/{id}.                                                      *)

LoadBook(r) ==
    /\ pc[r] = "new" /\ "patch" \in Menu[r]
    /\ \E b \in Books, level \in Levels \cup {Keep}, price \in Prices \cup {Keep} :
          \/ /\ row[b].live
             /\ Goto(r, "patch", [Blank EXCEPT !.kind = "patch", !.left = {b},
                                               !.seen[b] = row[b].stock,
                                               !.bill[b] = row[b].price,
                                               !.level = level, !.price = price])
             /\ Private
          \/ ~row[b].live /\ Rollback(r, "refused")

\* The columns whose value in the body differs from the one read: only these
\* are in the UPDATE, and none at all means that no UPDATE is sent.
NewLevel(s, b) == s.level \notin {Keep, s.seen[b]}
NewPrice(s, b) == s.price \notin {Keep, s.bill[b]}

Patched(s, b) ==
    [row[b] EXCEPT !.stock = IF NewLevel(s, b) THEN s.level ELSE @,
                   !.price = IF NewPrice(s, b) THEN s.price ELSE @]

\* The UPDATE and the refresh after it, under the row lock.
UpdateColumns(r, b) ==
    LET s == session[r] IN
    /\ Free(r, b)
    /\ \/ /\ row[b].live
          /\ Write(r, b, Patched(s, b))
          /\ tainted' = IF NewLevel(s, b) THEN tainted \cup {b} ELSE tainted
          /\ Goto(r, "cache", [s EXCEPT !.seen[b] = Patched(s, b).stock])
          /\ UNCHANGED <<stored, published, unused, misled>>
       \/ ~row[b].live /\ Rollback(r, "failed")

\* An empty body is answered from what was read; a body that changes nothing
\* only refreshes it, without a lock.
PatchBook(r) ==
    LET s == session[r] IN
    /\ pc[r] = "patch"
    /\ \E b \in s.left :
          \/ /\ NewLevel(s, b) \/ NewPrice(s, b)
             /\ UpdateColumns(r, b)
          \/ /\ s.level = Keep /\ s.price = Keep
             /\ Goto(r, "cache", s) /\ Private
          \/ /\ ~(s.level = Keep /\ s.price = Keep)
             /\ ~(NewLevel(s, b) \/ NewPrice(s, b))
             /\ \/ /\ row[b].live
                   /\ Goto(r, "cache", [s EXCEPT !.seen[b] = row[b].stock]) /\ Private
                \/ ~row[b].live /\ Rollback(r, "failed")

-----------------------------------------------------------------------------
(* DELETE /books/{id}.                                                     *)

\* delete_book reads the book; session.delete reads the cart rows it cascades to.
LoadDependants(r) ==
    /\ pc[r] = "new" /\ "delete" \in Menu[r]
    /\ \E b \in Books :
          \/ /\ row[b].live
             /\ Goto(r, "unlink", [Blank EXCEPT !.kind = "delete", !.left = {b},
                                                !.doomed = ItemsOf(b)])
             /\ Private
          \/ ~row[b].live /\ Rollback(r, "refused")

\* The flush: the ORM would null the book_id of order items, a NOT NULL column.
UnlinkItems(r) ==
    LET s == session[r] IN
    /\ pc[r] = "unlink"
    /\ \E b \in s.left :
          \/ OnAnOrder(b) /\ Rollback(r, "failed")
          \/ /\ ~OnAnOrder(b) /\ ItemsFree(r, s.doomed)
             /\ Goto(r, "erase", s)
             /\ Private

\* Mutant: no foreign key is checked when the row is deleted.
ReferencedNever(r, b) == FALSE

\* The foreign keys of cart_items and order_items, checked under the row lock.
Referenced(r, b) == OnAnOrder(b) \/ ~(ItemsOf(b) \subseteq session[r].doomed)

\* DELETE of a row that is already gone only warns.
EraseBook(r) ==
    LET s == session[r] IN
    /\ pc[r] = "erase"
    /\ \E b \in s.left :
          /\ Free(r, b) /\ ItemsFree(r, ItemsOf(b))
          /\ \/ row[b].live /\ Referenced(r, b) /\ Rollback(r, "failed")
             \/ /\ row[b].live /\ ~Referenced(r, b)
                /\ Write(r, b, NoBook)
                /\ Goto(r, "cache", s)
                /\ UNCHANGED <<stored, published, unused, history>>
             \/ ~row[b].live /\ Goto(r, "cache", s) /\ Private

-----------------------------------------------------------------------------
BookNext(r) ==
    \/ ReadBooks(r) \/ Hydrate(r) \/ FlushBook(r) \/ InsertBook(r)
    \/ LoadBook(r) \/ PatchBook(r)
    \/ LoadDependants(r) \/ UnlinkItems(r) \/ EraseBook(r)
=============================================================================
