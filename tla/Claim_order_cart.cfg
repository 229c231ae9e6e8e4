SPECIFICATION Spec
CONSTANTS
    Nil = Nil
    Gone = Gone
    Keep = Keep
    Seeded = Seeded
    u1 = u1
    u2 = u2
    r1 = r1
    r2 = r2
    r3 = r3
    r4 = r4
    Users = {u1, u2}
    Requests = {r1, r2}
    Books <- OneBook
    Buyer <- OneBuyer
    Menu <- CheckoutsAndAdd
    Levels = {}
    Prices = {5}
    Quantities = {1}
    InitStock <- OnlyFirst
    InitCart <- FirstOfOne
    Floor = 0
    RedisFails = FALSE
    Crashes = FALSE
PROPERTIES OrderIsTheCart
