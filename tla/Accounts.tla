------------------------------- MODULE Accounts -------------------------------
(***************************************************************************)
(* Accounts: registration, login, logout, the change of a profile, the     *)
(* test that a request comes from an administrator, and the audit log.     *)
(* An e-mail address belongs to one account; what keeps it so is the       *)
(* unique key, whose violation a handler turns into a 409.                 *)
(*                                                                         *)
(* The account that a request registers is named by the request (its id is *)
(* random).  Accounts are never deleted; what an operator does in the      *)
(* database, deactivate an account or change its role, the code only       *)
(* tests.  The refresh tokens are in RefreshTokens: a Redis command here   *)
(* succeeds or fails.                                                      *)
(***************************************************************************)
EXTENDS FiniteSets

CONSTANTS
    Residents,      \* the accounts that exist at the start
    Requests,
    Emails,
    InitEmail,      \* InitEmail[a]: the address of resident a
    Menu,           \* Menu[r]: the handlers that r may run
    Managed,        \* the accounts whose status the operator may change
    RedisFails,     \* may a Redis command fail?
    LogFails,       \* may the insertion of an audit row fail?
    Crashes,        \* may a handler or background task be cut off?
    Keep,           \* the body of a PATCH leaves the address alone
    Nil             \* no address: no account, or null in a body

Accounts == Residents \cup Requests
Kinds == {"register", "patch", "admin", "login", "logout"}

ASSUME AccountsAssumption ==
    /\ Residents \cap Requests = {} /\ Nil \notin Accounts
    /\ {Nil, Keep} \cap Emails = {} /\ Nil # Keep
    /\ InitEmail \in [Residents -> Emails]
    /\ \A a, b \in Residents : InitEmail[a] = InitEmail[b] => a = b
    /\ Menu \in [Requests -> SUBSET Kinds]
    /\ Managed \subseteq Residents
    /\ {RedisFails, LogFails, Crashes} \subseteq BOOLEAN

VARIABLES
    email,          \* email[a]: the committed address of a, Nil when there is no a
    status,         \* status[a]: its is_active, and whether its role is admin
    log,            \* the committed audit rows
    pc,             \* pc[r]: the next step of r, or how it ended
    kind,           \* kind[r]: the handler r runs
    who,            \* who[r]: the account it is about
    want,           \* want[r]: the address it is to store
    loaded,         \* loaded[r]: the status of its user when it loaded it
    wrote,          \* the requests that have written their account's row
    noted,          \* the registrations with an audit row, not yet committed
    entitled        \* history: the administrators' requests during which who[r] was an
                    \* active administrator

table == <<email, status, log>>
vars == <<table, pc, kind, who, want, loaded, wrote, noted, entitled>>

Ended == {"ok", "conflict", "refused", "unavailable", "failed", "cut", "lost"}
Steps == {"new", "insert", "note", "update", "index", "role", "store", "revoke",
          "commit", "log"} \cup Ended

Statuses == [active : BOOLEAN, admin : BOOLEAN]
NewUser == [active |-> TRUE, admin |-> FALSE]
Event(r) == [user |-> who[r], event |-> kind[r], by |-> r]

Running(r) == pc[r] \notin {"new"} \cup Ended
Exists(a) == email[a] # Nil
Entitled(s) == s.active /\ s.admin

\* The accounts that hold an access token or a refresh token.
LoggedIn == {x \in Requests : kind[x] = "login" /\ pc[x] \in {"log", "ok", "lost"}}
Bearers == Residents \cup {who[x] : x \in LoggedIn}

-----------------------------------------------------------------------------
(* Rows written and not committed, and who waits for them.                 *)

\* Mutant: a field absent from the body is written too.
DraftOfBody(r) == want[r]

\* The new address of the account that r has written.
Draft(r) == IF kind[r] = "register" \/ want[r] # Keep THEN want[r] ELSE email[who[r]]

RowUsers(r) == {y \in wrote \ {r} : who[y] = who[r]}

\* Those who have written a row with the address, or put it into the index.
EmailUsers(r, e) ==
    {y \in wrote \ {r} : e = email[who[y]] \/ (pc[y] # "index" /\ e = Draft(y))}

\* The foreign key of an audit row waits for whoever changes a key of the user.
KeyUsers(r) == {y \in RowUsers(r) : Draft(y) # email[who[y]]}

WaitsFor(r) ==
    CASE pc[r] = "update" /\ want[r] # Nil -> RowUsers(r)
      [] pc[r] \in {"insert", "index"}     -> EmailUsers(r, want[r])
      [] pc[r] = "log"                     -> KeyUsers(r)
      [] OTHER                             -> {}

\* Mutant: the unique key is missing, and the SELECT is all that protects.
TakenNever(r) == FALSE

Taken(r) == \E a \in Accounts \ {who[r]} : email[a] = want[r]

\* Mutant: update_profile does not catch the IntegrityError.
OnDuplicateCaughtOnce(r) == IF kind[r] = "register" THEN "conflict" ELSE "failed"

\* _is_email_unique_violation
OnDuplicate(r) == "conflict"

-----------------------------------------------------------------------------
(* Steps.                                                                  *)

Goto(r, step) == pc' = [pc EXCEPT ![r] = step]

Begin(r, k, a, e, step) ==
    /\ pc[r] = "new" /\ k \in Menu[r]
    /\ kind' = [kind EXCEPT ![r] = k]
    /\ who' = [who EXCEPT ![r] = a]
    /\ want' = [want EXCEPT ![r] = IF step = "refused" THEN Keep ELSE e]
    /\ Goto(r, step)
    /\ UNCHANGED <<table, wrote, noted>>

Proceed(r, step) ==
    /\ Goto(r, step)
    /\ UNCHANGED <<table, kind, who, want, loaded, wrote, noted, entitled>>

\* Mutant: get_db leaves the transaction of a failed request open.
ReleaseIfOk(r, outcome) ==
    /\ Goto(r, outcome)
    /\ wrote' = IF outcome = "ok" THEN wrote \ {r} ELSE wrote
    /\ noted' = noted \ {r}
    /\ loaded' = [loaded EXCEPT ![r] = NewUser]
    /\ entitled' = entitled \ {r}
    /\ want' = [want EXCEPT ![r] = Keep]
    /\ UNCHANGED <<kind, who>>

\* The transaction of r ends, and with it what it has written.
Release(r, outcome) ==
    /\ Goto(r, outcome)
    /\ wrote' = wrote \ {r}
    /\ noted' = noted \ {r}
    /\ loaded' = [loaded EXCEPT ![r] = NewUser]
    /\ entitled' = entitled \ {r}
    /\ want' = [want EXCEPT ![r] = Keep]
    /\ UNCHANGED <<kind, who>>

Rollback(r, outcome) == Release(r, outcome) /\ UNCHANGED table

Commit(r) ==
    /\ pc[r] = "commit"
    /\ Release(r, "ok")
    /\ email' = IF r \in wrote THEN [email EXCEPT ![who[r]] = Draft(r)] ELSE email
    /\ log' = IF r \in noted THEN log \cup {Event(r)} ELSE log
    /\ UNCHANGED status

-----------------------------------------------------------------------------
(* Registration.                                                           *)

Register(r) ==
    \E e \in Emails :
       /\ Begin(r, "register", r, e, IF \E a \in Accounts : email[a] = e THEN "conflict" ELSE "insert")
       /\ UNCHANGED <<loaded, entitled>>

InsertUser(r) ==
    /\ pc[r] = "insert" /\ WaitsFor(r) = {}
    /\ \/ Taken(r) /\ Rollback(r, OnDuplicate(r))
       \/ /\ ~Taken(r)
          /\ Goto(r, "note")
          /\ wrote' = wrote \cup {r}
          /\ UNCHANGED <<table, kind, who, want, loaded, noted, entitled>>

\* Mutant: without a savepoint the whole transaction is rolled back, as in
\* insert_event.
KeptByNothing(r) == wrote \ {r}

\* The rows left when the insertion of an audit row has failed.
KeptBySavepoint(r) == wrote

\* insert_event_in_session: it never raises.
NoteRegistration(r) ==
    /\ pc[r] = "note"
    /\ \/ noted' = noted \cup {r} /\ wrote' = wrote
       \/ LogFails /\ noted' = noted /\ wrote' = KeptBySavepoint(r)
    /\ Goto(r, "commit")
    /\ UNCHANGED <<table, kind, who, want, loaded, entitled>>

-----------------------------------------------------------------------------
(* Requests with an access token.                                          *)

\* get_current_user
Authenticate(r, k, a, e, step) ==
    /\ Begin(r, k, a, e, IF status[a].active THEN step ELSE "refused")
    /\ loaded' = [loaded EXCEPT ![r] = status[a]]
    /\ entitled' = IF k = "admin" /\ Entitled(status[a]) THEN entitled \cup {r} ELSE entitled

\* PATCH /users/me: a body with the address that was loaded and nothing else sends
\* no UPDATE; a null address fails the NOT NULL column.
UpdateProfile(r) ==
    \E a \in Bearers, e \in Emails \cup {Keep, Nil} :
       \/ Authenticate(r, "patch", a, IF e = email[a] THEN Keep ELSE e, "update")
       \/ e = email[a] /\ Authenticate(r, "patch", a, Keep, "commit")

WriteProfile(r) ==
    /\ pc[r] = "update" /\ WaitsFor(r) = {}
    /\ \/ want[r] = Nil /\ Rollback(r, "failed")
       \/ /\ want[r] # Nil
          /\ wrote' = wrote \cup {r}
          /\ Goto(r, IF want[r] = Keep THEN "commit" ELSE "index")
          /\ UNCHANGED <<table, kind, who, want, loaded, noted, entitled>>

\* uq_users_email: checked when the row has been written.
IndexProfile(r) ==
    /\ pc[r] = "index" /\ WaitsFor(r) = {}
    /\ \/ Taken(r) /\ Rollback(r, OnDuplicate(r))
       \/ ~Taken(r) /\ Proceed(r, "commit")

\* Mutant: the role is read from the user's row as it is now.
AdminNow(r) == status[who[r]].admin

\* The role whose name is read is that of the user as loaded.
IsAdmin(r) == loaded[r].admin

\* A handler behind require_admin.
Administer(r) == \E a \in Bearers : Authenticate(r, "admin", a, Keep, "role")

RequireAdmin(r) ==
    /\ pc[r] = "role"
    /\ Proceed(r, IF IsAdmin(r) THEN "commit" ELSE "refused")

-----------------------------------------------------------------------------
(* Login and logout, and the audit row that follows the response.          *)

\* authenticate: no account, a wrong password or an inactive account.
Login(r) ==
    \E a \in {x \in Accounts : Exists(x)} :
       /\ \/ status[a].active /\ Begin(r, "login", a, Keep, "store")
          \/ Begin(r, "login", a, Keep, "refused")
       /\ UNCHANGED <<loaded, entitled>>

\* The token shows the subject; no account is loaded.
Logout(r) ==
    \E a \in Bearers :
       /\ Begin(r, "logout", a, Keep, "revoke")
       /\ UNCHANGED <<loaded, entitled>>

KeepToken(r) ==
    /\ pc[r] \in {"store", "revoke"}
    /\ Proceed(r, "log") \/ (RedisFails /\ Proceed(r, "unavailable"))

\* Mutant: the session of the background task is closed without a commit.
LoggedNothing(r) == log

Logged(r) == log \cup {Event(r)}

\* insert_event: a session of its own, after the response; it never raises.
InsertEvent(r) ==
    /\ pc[r] = "log" /\ WaitsFor(r) = {}
    /\ \/ log' = Logged(r) /\ Goto(r, "ok")
       \/ LogFails /\ log' = log /\ Goto(r, "lost")
    /\ UNCHANGED <<email, status, kind, who, want, loaded, wrote, noted, entitled>>

-----------------------------------------------------------------------------
(* Faults, and the operator.                                               *)

\* r is in a circle of requests that wait for each other.
Deadlocked(r) ==
    \E S \in SUBSET Requests :
       /\ r \in S
       /\ \A x \in S : WaitsFor(x) \cap S # {} /\ \E y \in S : x \in WaitsFor(y)

AbortVictim(r) == Deadlocked(r) /\ Rollback(r, IF pc[r] = "log" THEN "lost" ELSE "failed")

Crash(r) ==
    /\ Crashes /\ Running(r)
    /\ Rollback(r, IF pc[r] = "log" THEN "lost" ELSE "cut")

SetStatus(a, s) ==
    /\ \A y \in wrote : who[y] # a
    /\ status' = [status EXCEPT ![a] = s]
    /\ entitled' = entitled \cup {r \in Requests : kind[r] = "admin" /\ Running(r) /\ who[r] = a /\ Entitled(s)}
    /\ UNCHANGED <<email, log, pc, kind, who, want, loaded, wrote, noted>>

-----------------------------------------------------------------------------
Init ==
    /\ email = [a \in Accounts |-> IF a \in Residents THEN InitEmail[a] ELSE Nil]
    /\ status = [a \in Accounts |-> NewUser]
    /\ log = {}
    /\ pc = [r \in Requests |-> "new"]
    /\ kind = [r \in Requests |-> "none"]
    /\ who = [r \in Requests |-> r]
    /\ want = [r \in Requests |-> Keep]
    /\ loaded = [r \in Requests |-> NewUser]
    /\ wrote = {}
    /\ noted = {}
    /\ entitled = {}

Step(r) ==
    \/ InsertUser(r) \/ NoteRegistration(r) \/ WriteProfile(r) \/ IndexProfile(r)
    \/ RequireAdmin(r) \/ KeepToken(r) \/ InsertEvent(r) \/ Commit(r)

Send(r) == Register(r) \/ UpdateProfile(r) \/ Administer(r) \/ Login(r) \/ Logout(r)

\* No request is in progress; none need ever be sent.
Idle == (\A r \in Requests : ~Running(r)) /\ UNCHANGED vars

Next ==
    \/ \E r \in Requests : Send(r) \/ Step(r) \/ AbortVictim(r) \/ Crash(r)
    \/ \E a \in Managed, s \in Statuses : SetStatus(a, s)
    \/ Idle

Spec == Init /\ [][Next]_vars

\* The event loop and PostgreSQL run every statement that waits for nobody, and
\* the deadlock detector looks at those that wait.
FairSpec == Spec /\ \A r \in Requests : WF_vars(Step(r)) /\ WF_vars(AbortVictim(r))

-----------------------------------------------------------------------------
\* Addresses are addresses, and what a request has loaded and is to write is of
\* its kind.
TypeOK ==
    /\ email \in [Accounts -> Emails \cup {Nil}]
    /\ status \in [Accounts -> Statuses]
    /\ log \subseteq [user : Accounts, event : Kinds, by : Requests]
    /\ pc \in [Requests -> Steps]
    /\ kind \in [Requests -> Kinds \cup {"none"}]
    /\ who \in [Requests -> Accounts]
    /\ want \in [Requests -> Emails \cup {Keep, Nil}]
    /\ loaded \in [Requests -> Statuses]
    /\ wrote \subseteq Requests /\ noted \subseteq wrote
    /\ entitled \subseteq Requests

\* However registrations and changes of profiles overlap, swap addresses or fail,
\* no two accounts have one address (user_service.py:47-76, 120-128).
EmailsUnique == \A a, b \in Accounts : email[a] = email[b] => a = b \/ ~Exists(a)

\* The audit log tells what happened and to whom: a registration is in it only with
\* its account, and nothing that was refused or rolled back is; a login or logout
\* is in it unless its background task failed (auth.py:127-134, 175-182, 285-292).
LogTellsTruth ==
    /\ \A e \in log : /\ pc[e.by] = "ok" /\ e = Event(e.by)
                      /\ Exists(e.user)
    /\ \A r \in Requests :
          kind[r] \in {"login", "logout"} /\ pc[r] = "ok" => Event(r) \in log

Turns(r, outcome) == pc[r] # outcome /\ pc'[r] = outcome

\* A race for an address ends in a 409 for whoever loses it.  A 500 has another
\* cause: a null address, or two profiles that swap their addresses and wait for
\* each other (user_service.py:68-74, 122-128).
RacesEndInConflict ==
    [][\A r \in Requests : Turns(r, "failed") => want[r] = Nil \/ Deadlocked(r)]_vars

\* The user and its role are read by two statements.  Still a request that carries
\* out an administrator's work was sent by somebody who was an active administrator
\* at one moment while it ran (dependencies.py:45-63, 78-87).
AdminsWereAdmins ==
    [][\A r \in Requests : kind[r] = "admin" /\ Turns(r, "ok") => r \in entitled]_vars

\* Every request is answered and its background task ends, whoever it waits for.
EveryRequestSettles == \A r \in Requests : Running(r) ~> ~Running(r)

-----------------------------------------------------------------------------
(* The accounts as AddressBook sees them.  A login or logout is carried out *)
(* when Redis has done its part, another request when it commits.           *)

Served == {Event(r) : r \in {x \in Requests : pc[x] \in {"log", "ok", "lost"}}}

Book == INSTANCE AddressBook WITH address <- email, events <- log, served <- Served

\* Whatever requests overlap, fail or are cut off, an account comes to be with its
\* registration and only so, though the insertion of the audit row between its
\* INSERT and the commit may fail (auth_audit_log_service.py:89-106); an address
\* changes only to one that nobody else has; who is refused changes nothing; and a
\* login or logout is recorded, if at all, after it (user_service.py:45-76, 107-130).
ImplementsAddressBook == Book!Spec
==============================================================================
