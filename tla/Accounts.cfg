SPECIFICATION FairSpec
CONSTANTS
    Nil = Nil
    Keep = Keep
    u1 = u1
    u2 = u2
    e1 = e1
    e2 = e2
    e3 = e3
    r1 = r1
    r2 = r2
    r3 = r3
    Residents = {u1, u2}
    Requests = {r1, r2, r3}
    Emails = {e1, e2, e3}
    InitEmail <- Known
    Menu <- Races
    Managed = {u1}
    RedisFails = TRUE
    LogFails = TRUE
    Crashes = TRUE
INVARIANTS TypeOK EmailsUnique LogTellsTruth
PROPERTIES ImplementsAddressBook RacesEndInConflict AdminsWereAdmins EveryRequestSettles
