SPECIFICATION Spec
CONSTANTS
    Nil = Nil
    Keep = Keep
    b1 = b1
    b2 = b2
    b3 = b3
    a1 = a1
    a2 = a2
    a3 = a3
    c1 = c1
    c2 = c2
    c3 = c3
    n1 = n1
    n2 = n2
    n3 = n3
    i1 = i1
    r1 = r1
    r2 = r2
    r3 = r3
    Books = {b1, b2, b3}
    Authors = {a1, a2, a3}
    Categories = {c1, c2, c3}
    Names = {n1, n2, n3}
    Isbns = {i1}
    Requests = {r1, r2, r3}
    Bodies <- Submitted
    InitLive <- Existing
    InitLinks <- Written
    InitShelf <- OneShelf
    InitIsbn <- NoIsbn
    InitNames <- Named
SYMMETRY Interchangeable
INVARIANTS TypeOK ReferencesHold
PROPERTIES FailsOnlyForCause DoneAsAsked
