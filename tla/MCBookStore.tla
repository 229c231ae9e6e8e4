----------------------------- MODULE MCBookStore -----------------------------
(***************************************************************************)
(* Small stores for TLC: two books, at most two users, three or four       *)
(* requests.  Where InitStock is OnlyFirst, the second book does not exist *)
(* at the start.  Each run names who may ask for what.                     *)
(***************************************************************************)
EXTENDS BookStoreClaims

CONSTANTS u1, u2, r1, r2, r3, r4

OneBook == {1}
TwoBooks == {1, 2}

Seconds == 1 :> 2 @@ 2 :> 2
OnlyFirst == 1 :> 2

\* Both users have both books in the cart; or there is one user; or the first
\* user's cart is empty or not created yet.
BothCarts == [u \in {u1, u2} |-> [b \in TwoBooks |-> 1]]
OneCart == [u \in {u1} |-> [b \in TwoBooks |-> 1]]
OnlySecondsCart == [u \in {u1, u2} |-> [b \in TwoBooks |-> IF u = u2 /\ b = 1 THEN 1 ELSE 0]]
FirstOfOne == [u \in {u1, u2} |-> [b \in OneBook |-> 1]]

OneBuyer == [r \in {r1, r2, r3, r4} |-> u1]
TwoBuyers == r1 :> u1 @@ r2 :> u2 @@ r3 :> u1 @@ r4 :> u2

\* Two buyers of the same two books, in competition for rows and for news;
\* cancellations, a withdrawal and a change of the cart beside them.
Serving == r1 :> {"checkout"} @@ r2 :> {"checkout", "delete"} @@
           r3 :> {"checkout", "cancel", "remove"} @@ r4 :> {"cancel", "delete"}

\* Any three requests at all.
Anything == [r \in {r1, r2, r3, r4} |-> Handlers]

\* One user's sales and cancellations, cut off at any point, beside a read, a
\* change of price and a deletion.
Failing == r1 :> {"checkout"} @@ r2 :> {"checkout", "cancel", "read", "patch"} @@
           r3 :> {"checkout", "cancel", "delete"}

\* The runs of BookStoreClaims.
Checkouts == [r \in {r1, r2} |-> {"checkout"}]
CheckoutsAndAdd == r1 :> {"checkout"} @@ r2 :> {"checkout", "add"}
==============================================================================
