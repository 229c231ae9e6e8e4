SPECIFICATION Spec
CONSTANTS
    Nil = Nil
    u1 = u1
    u2 = u2
    r1 = r1
    r2 = r2
    r3 = r3
    r4 = r4
    b1 = b1
    b2 = b2
    Users = {u1, u2}
    Books = {b1, b2}
    Requests = {r1, r2, r3, r4}
    Owner <- Owners
SYMMETRY Interchangeable
INVARIANTS TypeOK ItemsBelong FailsOnlyWhenOvertaken
