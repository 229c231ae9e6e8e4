----------------------------- MODULE MCBootstrap -----------------------------
(***************************************************************************)
(* Containers that start on one fresh database.  The seed files are those  *)
(* of SEED_ORDER, of which categories, book categories and existing books  *)
(* are written to be applied again.                                        *)
(***************************************************************************)
EXTENDS Bootstrap

CONSTANTS c1, c2, c3

SeedOrder == << "authors", "categories", "books", "book_authors",
                "book_categories", "existing_books" >>
==============================================================================
