----------------------------- MODULE MCCatalogue -----------------------------
(***************************************************************************)
(* Two books on one shelf and their authors; a book, an author and a       *)
(* category yet to be created; three requests of administrators.           *)
(***************************************************************************)
EXTENDS Catalogue, TLC

CONSTANTS b1, b2, b3, a1, a2, a3, c1, c2, c3, n1, n2, n3, i1, r1, r2, r3

Existing == {b1, b2, a1, a2, c1, c2}
Written == {<<b1, a1>>, <<b2, a1>>, <<b2, a2>>}
OneShelf == b1 :> c1 @@ b2 :> c1 @@ b3 :> Nil
NoIsbn == [b \in Books |-> Nil]
Named == c1 :> n1 @@ c2 :> n2 @@ c3 :> Nil

\* Complete bodies, which can create a book too, and some that change a part.
Submitted ==
    {[authors |-> {a1, a2}, category |-> c1, isbn |-> i1],
     [authors |-> {a2}, category |-> c2, isbn |-> Nil],
     [authors |-> {a2}, category |-> Nil, isbn |-> Keep],
     [authors |-> {a1}, category |-> Keep, isbn |-> Keep],
     [authors |-> {}, category |-> Keep, isbn |-> Keep],
     [authors |-> Keep, category |-> c2, isbn |-> Keep],
     [authors |-> Keep, category |-> Keep, isbn |-> i1]}

Interchangeable == Permutations(Requests)
==============================================================================
