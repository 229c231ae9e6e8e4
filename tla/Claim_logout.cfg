SPECIFICATION Spec
CONSTANTS
    Nil = Nil
    d1 = d1
    r1 = r1
    r2 = r2
    r3 = r3
    r4 = r4
    r5 = r5
    Browsers = {d1}
    Requests = {r1, r2, r3}
    Browser <- OneBrowser
    RedisFails = FALSE
    Crashes = FALSE
    Losses = FALSE
SYMMETRY Interchangeable
INVARIANTS LogoutEndsSession
