SPECIFICATION Spec
CONSTANTS
    Nil = Nil
    Gone = Gone
    Keep = Keep
    Seeded = Seeded
    u1 = u1
    u2 = u2
    r1 = r1
    r2 = r2
    r3 = r3
    r4 = r4
    Users = {u1, u2}
    Requests = {r1, r2, r3}
    Books <- TwoBooks
    Buyer <- TwoBuyers
    Menu <- Anything
    Levels = {0, 3}
    Prices = {5, 6}
    Quantities = {0, 1}
    InitStock <- OnlyFirst
    InitCart <- OnlySecondsCart
    Floor = 0
    RedisFails = FALSE
    Crashes = FALSE
INVARIANTS TypeOK StockStaysAboveFloor NoDanglingRows OneCartEach
PROPERTIES StockMovesWithOrders ImplementsShop
