SPECIFICATION Spec
CONSTANTS
    Nil = Nil
    Gone = Gone
    Keep = Keep
    Seeded = Seeded
    u1 = u1
    u2 = u2
    r1 = r1
    r2 = r2
    r3 = r3
    r4 = r4
    Users = {u1}
    Requests = {r1, r2, r3}
    Books <- TwoBooks
    Buyer <- OneBuyer
    Menu <- Failing
    Levels = {3}
    Prices = {5, 6}
    Quantities = {1}
    InitStock <- Seconds
    InitCart <- OneCart
    Floor = 0
    RedisFails = TRUE
    Crashes = TRUE
INVARIANTS LedgerBalances CacheFollowsDatabase NewsFollowsDatabase
PROPERTIES SaleHoldsItsBooks ImplementsShop
