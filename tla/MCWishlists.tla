----------------------------- MODULE MCWishlists -----------------------------
(***************************************************************************)
(* Four requests of two users, three of them of the first, about two books.*)
(***************************************************************************)
EXTENDS Wishlists, TLC

CONSTANTS u1, u2, r1, r2, r3, r4, b1, b2

Owners == r1 :> u1 @@ r2 :> u1 @@ r3 :> u1 @@ r4 :> u2

\* Requests of one user, and the books, are alike.
Interchangeable ==
    Permutations({r1, r2, r3}) \cup Permutations({b1, b2})
==============================================================================
