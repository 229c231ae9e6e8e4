--------------------------------- MODULE Shop ---------------------------------
(***************************************************************************)
(* What the store promises to whoever buys and whoever keeps the books, as *)
(* if every request were carried out at one moment: a sale takes all its   *)
(* copies from books on the shelf that have them, at the prices in force,  *)
(* or takes nothing; a cancellation gives back what was sold, once; a book *)
(* that was ever sold stays.  Only of a book whose count somebody has      *)
(* overwritten is the count not told.  BookStore implements this.          *)
(***************************************************************************)
EXTENDS Integers

CONSTANTS Books, Orders

VARIABLES
    shelf,          \* the books for sale
    stock,          \* stock[b]: the copies of book b
    price,          \* price[b]: what one costs
    sale,           \* sale[o]: what became of order o, its copies and their prices
    adrift          \* the books whose count was overwritten

shop == <<shelf, stock, price, sale, adrift>>

On(o) == {b \in Books : sale[o].qty[b] # 0}

\* The counts of the books on the shelf go up by what the sale has of each,
\* times the sign, and no others do.
Counted(q, sign) ==
    \A b \in shelf \ adrift : stock'[b] = stock[b] + sign * q[b]

Init ==
    /\ \A b \in shelf : stock[b] >= 0
    /\ \A o \in Orders : sale[o].status = "none" /\ On(o) = {}
    /\ adrift = {}

Buy(o) ==
    /\ sale[o].status = "none" /\ sale'[o].status = "placed"
    /\ \A p \in Orders \ {o} : sale'[p] = sale[p]
    /\ On(o)' # {} /\ On(o)' \subseteq shelf
    /\ \A b \in On(o)' :
          /\ sale'[o].qty[b] > 0
          /\ sale'[o].price[b] = price[b]
          /\ b \notin adrift => sale'[o].qty[b] <= stock[b]
    /\ Counted(sale'[o].qty, -1)
    /\ UNCHANGED <<shelf, price, adrift>>

Cancel(o) ==
    /\ sale[o].status = "placed"
    /\ sale' = [sale EXCEPT ![o].status = "cancelled"]
    /\ Counted(sale[o].qty, 1)
    /\ UNCHANGED <<shelf, price, adrift>>

Withdraw(b) ==
    /\ b \in shelf /\ \A o \in Orders : b \notin On(o)
    /\ shelf' = shelf \ {b}
    /\ \A c \in shelf' : stock'[c] = stock[c] /\ price'[c] = price[c]
    /\ UNCHANGED <<sale, adrift>>

\* A book is put on the shelf, its price is changed, or its count overwritten.
Manage ==
    /\ shelf \subseteq shelf' /\ shelf' \ shelf \subseteq adrift'
    /\ adrift \subseteq adrift'
    /\ \A b \in shelf \ adrift' : stock'[b] = stock[b]
    /\ UNCHANGED sale

Next ==
    \/ \E o \in Orders : Buy(o) \/ Cancel(o)
    \/ \E b \in Books : Withdraw(b)
    \/ Manage

Spec == Init /\ [][Next]_shop
===============================================================================
