SPECIFICATION FairSpec
CONSTANTS
  Nil = Nil
  c1 = c1
  c2 = c2
  c3 = c3
  Containers = {c1, c2, c3}
  SeedFiles <- SeedOrder
  Repeatable = {"categories", "book_categories", "existing_books"}
  Retries = 2
  Crashes = 2
INVARIANTS TypeOK ServesSeeded
PROPERTIES SeedsStayPut ComesUp
