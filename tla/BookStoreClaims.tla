--------------------------- MODULE BookStoreClaims ---------------------------
(***************************************************************************)
(* What the comments of the repository say of the store and the code does  *)
(* not keep.  TLC refutes each of these in a run of its own; BookStore     *)
(* states the weaker properties that do hold.                              *)
(***************************************************************************)
EXTENDS BookStore

\* "Lock the book row and increment stock" (order_service.py:107), "lock the
\* row for the current transaction" (book_repository.py:31): under the lock no
\* sale or restock is lost.  (Two cancellations of one order also both pass the
\* test of its status at order_service.py:99, and both restock.)
NoCopyLost == \A b \in Live : row[b].stock + Sold(b) = InitStock[b]

\* "Convert the current cart into a placed order and clear the cart"
\* (order_service.py:22): the order holds what the cart holds at the moment it
\* is placed, and nothing stays in the cart.
OrderIsTheCart ==
    [][\A o \in Requests : Placed(o) =>
          \A b \in Books : /\ orders'[o].qty[b] = cart[Buyer[o]][b].qty
                           /\ cart'[Buyer[o]][b] = NoCartRow]_vars
==============================================================================
