---------------------------- MODULE AccountsProofs ----------------------------
(***************************************************************************)
(* Proofs that an address belongs to one account, that the audit log tells *)
(* the truth, that the accounts implement AddressBook, and that a failure  *)
(* and an administrator's work have the reason they should have, for any   *)
(* number of accounts, addresses and requests.                             *)
(***************************************************************************)
EXTENDS Accounts, TLAPS

-----------------------------------------------------------------------------
(* The inductive invariant.                                                *)

\* The handler that a step belongs to.
Fits(r) ==
    LET k == kind[r] IN
    /\ pc[r] = "new" <=> k = "none"
    /\ pc[r] = "new" => who[r] = r
    /\ pc[r] \in {"insert", "note"} => k = "register"
    /\ pc[r] \in {"update", "index"} => k = "patch"
    /\ pc[r] = "role" => k = "admin"
    /\ pc[r] = "store" => k = "login"
    /\ pc[r] = "revoke" => k = "logout"
    /\ pc[r] = "log" => k \in {"login", "logout"}
    /\ pc[r] = "commit" => k \in {"register", "patch", "admin"}
    /\ k = "register" /\ pc[r] \notin Ended => want[r] \in Emails
    /\ pc[r] = "note" => r \in wrote

Typed == TypeOK /\ \A r \in Requests : Fits(r)

\* Whom a request is about: its own account, which comes to be when it ends
\* well, or one that exists.
SubjectOk(r) ==
    /\ kind[r] # "register" => email[r] = Nil
    /\ kind[r] = "register" => who[r] = r /\ (Exists(r) <=> pc[r] = "ok")
    /\ kind[r] \in {"patch", "admin", "login", "logout"} => Exists(who[r])

\* A row is written before it is indexed and committed, by one request at a time.
WrittenOk(r) ==
    /\ r \in wrote => /\ pc[r] \in {"note", "index", "commit"}
                      /\ kind[r] \in {"register", "patch"}
                      /\ Draft(r) \in Emails
                      /\ \A y \in wrote : who[y] = who[r] => y = r
    /\ pc[r] = "index" => r \in wrote /\ want[r] \in Emails
    /\ pc[r] = "commit" /\ kind[r] = "register" => r \in wrote

\* The rows whose new address is in the index.
Indexed == {y \in wrote : pc[y] # "index"}

\* What is in the index is there once, committed or not.
IndexedOk(r) ==
    r \in Indexed =>
        /\ \A a \in Accounts \ {who[r]} : email[a] # Draft(r)
        /\ \A y \in Indexed \ {r} : Draft(y) # Draft(r)

AdminOk(r) ==
    /\ kind[r] = "admin" /\ pc[r] = "role" /\ loaded[r].admin => r \in entitled
    /\ kind[r] = "admin" /\ pc[r] = "commit" => r \in entitled

RequestOk(r) == SubjectOk(r) /\ WrittenOk(r) /\ IndexedOk(r)

\* The audit rows are of requests that ended well, and of all of those that log in
\* or out.
LogOk ==
    /\ \A e \in log : pc[e.by] = "ok" /\ e = Event(e.by)
    /\ \A r \in Requests :
          kind[r] \in {"login", "logout"} /\ pc[r] = "ok" => Event(r) \in log

Sound ==
    /\ Typed /\ EmailsUnique /\ LogOk
    /\ \A a \in Residents : Exists(a)
    /\ \A r \in Requests : RequestOk(r)

-----------------------------------------------------------------------------
(* Types.                                                                  *)

LEMMA Facts ==
  /\ Nil \notin Emails /\ Keep \notin Emails /\ Nil # Keep
  /\ Nil \notin Accounts /\ Residents \cap Requests = {}
  /\ InitEmail \in [Residents -> Emails]
  /\ Requests \subseteq Accounts /\ Residents \subseteq Accounts
  /\ \A a, b \in Residents : InitEmail[a] = InitEmail[b] => a = b
  /\ Menu \in [Requests -> SUBSET Kinds] /\ Managed \subseteq Residents
BY AccountsAssumption DEF AccountsAssumption, Accounts

LEMMA InitTyped == Init => Typed
<1>. SUFFICES ASSUME Init PROVE Typed
  OBVIOUS
<1>1. email \in [Accounts -> Emails \cup {Nil}]
  BY Facts DEF Init, Accounts
<1>2. TypeOK
  BY <1>1, Facts DEF Init, TypeOK, NewUser, Statuses, Steps
<1>. QED  BY <1>2, Facts DEF Init, Typed, Fits

LEMMA BearersAreAccounts ==
  ASSUME TypeOK
  PROVE  Bearers \subseteq Accounts
BY Facts DEF Bearers, LoggedIn, TypeOK

\* A step of r that leaves its handler what it is.
LEMMA MoveFits ==
  ASSUME Typed, NEW r \in Requests, NEW step, Goto(r, step), UNCHANGED <<kind, who, want>>,
         pc[r] # "new", step # "new",
         step \in {"insert", "note"} => kind[r] = "register",
         step \in {"update", "index"} => kind[r] = "patch",
         step = "role" => kind[r] = "admin", step \notin {"store", "revoke"},
         step = "log" => kind[r] \in {"login", "logout"},
         step = "commit" => kind[r] \in {"register", "patch", "admin"}, pc[r] \notin Ended,
         wrote \subseteq wrote', step = "note" => r \in wrote'
  PROVE  \A x \in Requests : Fits(x)'
<1>1. pc'[r] = step /\ \A x \in Requests \ {r} : pc'[x] = pc[x]
  BY DEF Typed, TypeOK, Goto
<1>. QED  BY <1>1 DEF Typed, Fits

LEMMA ReleaseTyped ==
  ASSUME Typed, NEW r \in Requests, NEW outcome \in Ended, Release(r, outcome), pc[r] # "new",
         email' \in [Accounts -> Emails \cup {Nil}], status' = status,
         log' \subseteq [user : Accounts, event : Kinds, by : Requests]
  PROVE  Typed'
<1>1. pc'[r] = outcome /\ \A x \in Requests \ {r} : pc'[x] = pc[x]
  BY DEF Typed, TypeOK, Goto, Release
<1>2. \A x \in Requests \ {r} : want'[x] = want[x]
  BY DEF Typed, TypeOK, Release
<1>3. \A x \in Requests : Fits(x)'
  BY <1>1, <1>2 DEF Typed, Fits, Release, Ended
<1>4. pc' \in [Requests -> Steps] /\ loaded' \in [Requests -> Statuses]
  BY DEF Typed, TypeOK, Release, Goto, Ended, Steps, NewUser, Statuses
<1>5. TypeOK'
  BY <1>4 DEF Typed, TypeOK, Release
<1>. QED  BY <1>3, <1>5 DEF Typed

LEMMA RollbackTyped ==
  ASSUME Typed, NEW r \in Requests, NEW outcome \in Ended, Rollback(r, outcome), pc[r] # "new"
  PROVE  Typed'
BY ReleaseTyped DEF Rollback, table, Typed, TypeOK

\* The first step of a handler.
LEMMA BeginTyped ==
  ASSUME Typed, NEW r \in Requests, NEW k \in Kinds, NEW a \in Accounts,
         NEW e \in Emails \cup {Keep, Nil}, NEW step, Begin(r, k, a, e, step),
         loaded' \in [Requests -> Statuses], entitled' \subseteq Requests,
         \/ k = "register" /\ step \in {"conflict", "insert"} /\ e \in Emails
         \/ k = "patch" /\ step \in {"update", "commit", "refused"}
         \/ k = "admin" /\ step \in {"role", "refused"}
         \/ k = "login" /\ step \in {"store", "refused"}
         \/ k = "logout" /\ step = "revoke"
  PROVE  Typed'
<1>1. /\ pc'[r] = step /\ kind'[r] = k /\ want'[r] = IF step = "refused" THEN Keep ELSE e
      /\ \A x \in Requests \ {r} : /\ pc'[x] = pc[x] /\ kind'[x] = kind[x]
                                   /\ who'[x] = who[x] /\ want'[x] = want[x]
      /\ wrote' = wrote
  BY DEF Typed, TypeOK, Goto, Begin
<1>2. Fits(r)'
  BY <1>1 DEF Fits, Kinds, Ended
<1>3. \A x \in Requests : Fits(x)'
  BY <1>1, <1>2 DEF Typed, Fits
<1>4. pc' \in [Requests -> Steps] /\ kind' \in [Requests -> Kinds \cup {"none"}]
  BY DEF Typed, TypeOK, Begin, Goto, Ended, Steps
<1>5. TypeOK'
  BY <1>4 DEF Typed, TypeOK, Begin, table
<1>. QED  BY <1>3, <1>5 DEF Typed

LEMMA SendTyped ==
  ASSUME Typed, NEW r \in Requests, Send(r)
  PROVE  Typed'
<1>1. CASE Register(r)
  <2>1. PICK e \in Emails :
            /\ Begin(r, "register", r, e, IF \E a \in Accounts : email[a] = e THEN "conflict" ELSE "insert")
            /\ UNCHANGED <<loaded, entitled>>
    BY <1>1 DEF Register
  <2>2. PICK step \in {"conflict", "insert"} : Begin(r, "register", r, e, step)
    BY <2>1
  <2>. QED  BY <2>1, <2>2, BeginTyped, Facts DEF Typed, TypeOK, Kinds
<1>2. ASSUME NEW k \in Kinds, NEW a \in Bearers, NEW e \in Emails \cup {Keep, Nil}, NEW step,
             Authenticate(r, k, a, e, step),
             \/ k = "patch" /\ step \in {"update", "commit"}
             \/ k = "admin" /\ step = "role"
      PROVE  Typed'
  <2>1. PICK next \in {step, "refused"} : Begin(r, k, a, e, next)
    BY <1>2 DEF Authenticate
  <2>2. a \in Accounts /\ status[a] \in Statuses
    BY BearersAreAccounts DEF Typed, TypeOK
  <2>3. loaded' \in [Requests -> Statuses] /\ entitled' \subseteq Requests
    BY <1>2, <2>2 DEF Authenticate, Typed, TypeOK
  <2>. QED  BY <1>2, <2>1, <2>2, <2>3, BeginTyped
<1>3. CASE UpdateProfile(r)
  BY <1>3, <1>2 DEF UpdateProfile, Kinds
<1>4. CASE Administer(r)
  BY <1>4, <1>2 DEF Administer, Kinds
<1>5. CASE Login(r)
  <2>1. PICK a \in Accounts, step \in {"store", "refused"} :
            Begin(r, "login", a, Keep, step) /\ UNCHANGED <<loaded, entitled>>
    BY <1>5 DEF Login
  <2>. QED  BY <2>1, BeginTyped DEF Typed, TypeOK, Kinds
<1>6. CASE Logout(r)
  <2>1. PICK a \in Accounts :
            Begin(r, "logout", a, Keep, "revoke") /\ UNCHANGED <<loaded, entitled>>
    BY <1>6, BearersAreAccounts DEF Logout, Typed
  <2>. QED  BY <2>1, BeginTyped DEF Typed, TypeOK, Kinds
<1>. QED  BY <1>1, <1>3, <1>4, <1>5, <1>6 DEF Send

\* What a request with a row has to commit is an address.
LEMMA DraftTyped ==
  ASSUME Typed, NEW r \in Requests
  PROVE  Draft(r) \in Emails \cup {Keep, Nil} /\ (kind[r] # "register" => Draft(r) \in Emails \cup {Nil})
BY DEF Typed, TypeOK, Draft

LEMMA StepTyped ==
  ASSUME Typed, NEW r \in Requests, Step(r)
  PROVE  Typed'
<1>0. Fits(r) /\ kind[r] \in Kinds \cup {"none"} /\ pc[r] \in Steps
  BY DEF Typed, TypeOK
<1>1. ASSUME NEW step \in Steps \ {"new", "insert", "note", "update", "role", "store", "revoke"},
             Proceed(r, step), pc[r] \notin {"new"} \cup Ended,
             step = "index" => kind[r] = "patch",
             step = "log" => kind[r] \in {"login", "logout"},
             step = "commit" => kind[r] \in {"register", "patch", "admin"}
      PROVE  Typed'
  <2>1. \A x \in Requests : Fits(x)'
    BY <1>1, MoveFits DEF Proceed
  <2>2. TypeOK'
    BY <1>1 DEF Proceed, Goto, table, Typed, TypeOK
  <2>. QED  BY <2>1, <2>2 DEF Typed
<1>2. CASE InsertUser(r)
  <2>1. CASE Rollback(r, OnDuplicate(r))
    BY <1>2, <2>1, RollbackTyped DEF InsertUser, OnDuplicate, Ended
  <2>2. CASE ~Rollback(r, OnDuplicate(r))
    <3>1. kind[r] = "register" /\ pc[r] = "insert"
      BY <1>0, <1>2 DEF InsertUser, Fits
    <3>2. Goto(r, "note") /\ UNCHANGED <<kind, who, want>> /\ wrote' = wrote \cup {r}
      BY <1>2, <2>2 DEF InsertUser
    <3>3. \A x \in Requests : Fits(x)'
      BY <3>1, <3>2, MoveFits DEF Ended
    <3>4. TypeOK'
      BY <1>2, <2>2 DEF InsertUser, Goto, table, Typed, TypeOK, Steps
    <3>. QED  BY <3>3, <3>4 DEF Typed
  <2>. QED  BY <2>1, <2>2
<1>3. CASE NoteRegistration(r)
  <2>1. kind[r] = "register" /\ pc[r] = "note" /\ Goto(r, "commit") /\ UNCHANGED <<kind, who, want, wrote>>
    BY <1>0, <1>3 DEF NoteRegistration, KeptBySavepoint, Fits
  <2>2. \A x \in Requests : Fits(x)'
    BY <2>1, MoveFits DEF Ended
  <2>3. TypeOK'
    BY <1>0, <1>3, <2>1 DEF NoteRegistration, Fits, Goto, table, Typed, TypeOK, Steps
  <2>. QED  BY <2>2, <2>3 DEF Typed
<1>4. CASE WriteProfile(r)
  <2>1. CASE Rollback(r, "failed")
    BY <1>4, <2>1, RollbackTyped DEF WriteProfile, Ended
  <2>2. CASE ~Rollback(r, "failed")
    <3>1. kind[r] = "patch" /\ pc[r] = "update"
      BY <1>0, <1>4 DEF WriteProfile, Fits
    <3>2. PICK step \in {"commit", "index"} : Goto(r, step) /\ UNCHANGED <<kind, who, want>> /\ wrote' = wrote \cup {r}
      BY <1>4, <2>2 DEF WriteProfile
    <3>3. \A x \in Requests : Fits(x)'
      BY <3>1, <3>2, MoveFits DEF Ended
    <3>4. TypeOK'
      BY <1>4, <2>2, <3>2 DEF WriteProfile, Goto, table, Typed, TypeOK, Steps
    <3>. QED  BY <3>3, <3>4 DEF Typed
  <2>. QED  BY <2>1, <2>2
<1>5. CASE IndexProfile(r)
  <2>1. CASE Rollback(r, OnDuplicate(r))
    BY <1>5, <2>1, RollbackTyped DEF IndexProfile, OnDuplicate, Ended
  <2>2. CASE Proceed(r, "commit")
    BY <1>0, <1>1, <1>5, <2>2 DEF IndexProfile, Fits, Steps, Ended
  <2>. QED  BY <1>5, <2>1, <2>2 DEF IndexProfile
<1>6. CASE RequireAdmin(r)
  BY <1>0, <1>1, <1>6 DEF RequireAdmin, Fits, Steps, Ended
<1>7. CASE KeepToken(r)
  BY <1>0, <1>1, <1>7 DEF KeepToken, Fits, Steps, Ended
<1>8. CASE InsertEvent(r)
  <2>1. PICK step \in {"ok", "lost"} : Goto(r, step) /\ UNCHANGED <<kind, who, want, wrote>>
    BY <1>8 DEF InsertEvent
  <2>2. \A x \in Requests : Fits(x)'
    BY <1>8, <2>1, MoveFits DEF InsertEvent, Ended
  <2>3. Event(r) \in [user : Accounts, event : Kinds, by : Requests]
    BY <1>0, <1>8 DEF InsertEvent, Fits, Event, Typed, TypeOK
  <2>4. log' \subseteq [user : Accounts, event : Kinds, by : Requests]
    BY <1>8, <2>3 DEF InsertEvent, Logged, Typed, TypeOK
  <2>5. TypeOK'
    BY <1>8, <2>1, <2>4 DEF InsertEvent, Goto, Typed, TypeOK, Steps, Ended
  <2>. QED  BY <2>2, <2>5 DEF Typed
<1>9. CASE Commit(r)
  <2>1. kind[r] \in {"register", "patch", "admin"} /\ (kind[r] = "register" => want[r] \in Emails)
    BY <1>0, <1>9 DEF Commit, Fits, Ended
  <2>2. Draft(r) \in Emails \cup {Nil}
    BY <2>1, DraftTyped DEF Draft
  <2>3. Event(r) \in [user : Accounts, event : Kinds, by : Requests]
    BY <2>1 DEF Event, Typed, TypeOK, Kinds
  <2>4. /\ email' \in [Accounts -> Emails \cup {Nil}]
        /\ log' \subseteq [user : Accounts, event : Kinds, by : Requests]
    BY <1>9, <2>2, <2>3 DEF Commit, Typed, TypeOK
  <2>. QED  BY <1>9, <2>4, ReleaseTyped DEF Commit, Ended
<1>. QED  BY <1>2, <1>3, <1>4, <1>5, <1>6, <1>7, <1>8, <1>9 DEF Step

\* A request is given up, or the operator changes an account.
LEMMA FaultTyped ==
  ASSUME Typed,
         \/ \E r \in Requests : AbortVictim(r) \/ Crash(r)
         \/ \E a \in Managed, s \in Statuses : SetStatus(a, s)
  PROVE  Typed'
<1>1. CASE \E r \in Requests : AbortVictim(r) \/ Crash(r)
  <2>1. PICK r \in Requests, outcome \in {"lost", "failed", "cut"} :
            Rollback(r, outcome) /\ (Deadlocked(r) \/ Running(r))
    BY <1>1 DEF AbortVictim, Crash
  <2>2. Deadlocked(r) => pc[r] # "new"
    BY DEF Deadlocked, WaitsFor
  <2>. QED  BY <2>1, <2>2, RollbackTyped DEF Running, Ended
<1>2. CASE \E a \in Managed, s \in Statuses : SetStatus(a, s)
  <2>1. PICK a \in Managed, s \in Statuses : SetStatus(a, s)
    BY <1>2
  <2>2. TypeOK'
    BY <2>1 DEF SetStatus, Typed, TypeOK
  <2>3. \A x \in Requests : Fits(x)'
    BY <2>1 DEF SetStatus, Typed, Fits
  <2>. QED  BY <2>2, <2>3 DEF Typed
<1>. QED  BY <1>1, <1>2

LEMMA NextTyped == Typed /\ [Next]_vars => Typed'
<1>1. CASE Idle \/ UNCHANGED vars
  BY <1>1 DEF Idle, vars, table, Typed, TypeOK, Fits
<1>. QED  BY <1>1, SendTyped, StepTyped, FaultTyped DEF Next

\* Every variable keeps its type, and each step belongs to its handler.
THEOREM TypesHold == Spec => []TypeOK
<1>1. Typed => TypeOK
  BY DEF Typed
<1>. QED  BY <1>1, InitTyped, NextTyped, PTL DEF Spec

-----------------------------------------------------------------------------
(* Addresses and the audit log.                                            *)

LEMMA InitSound == Init => Sound
<1>. SUFFICES ASSUME Init PROVE Sound
  OBVIOUS
<1>1. Typed
  BY InitTyped
<1>2. \A a \in Residents : email[a] = InitEmail[a] /\ Exists(a)
  BY Facts DEF Init, Exists
<1>3. \A r \in Requests : email[r] = Nil
  BY Facts DEF Init
<1>4. EmailsUnique
  BY <1>2, <1>3, Facts DEF EmailsUnique, Exists, Accounts
<1>5. LogOk
  BY DEF Init, LogOk
<1>6. \A r \in Requests : RequestOk(r)
  BY <1>3 DEF Init, RequestOk, SubjectOk, WrittenOk, IndexedOk, Indexed
<1>. QED  BY <1>1, <1>2, <1>4, <1>5, <1>6 DEF Sound

\* A step that commits no row concerns r and, through what it has written, those
\* who have written too.
LEMMA LocalSound ==
  ASSUME Sound, Typed', NEW r \in Requests, email' = email, wrote' \ {r} = wrote \ {r},
         \A x \in Requests \ {r} : /\ pc'[x] = pc[x] /\ kind'[x] = kind[x]
                                   /\ who'[x] = who[x] /\ want'[x] = want[x],
         LogOk', RequestOk(r)'
  PROVE  Sound'
<1>1. EmailsUnique' /\ \A a \in Residents : Exists(a)'
  BY DEF Sound, EmailsUnique, Exists
<1>2. ASSUME NEW x \in Requests \ {r} PROVE RequestOk(x)'
  <2>1. SubjectOk(x)'
    BY DEF Sound, RequestOk, SubjectOk, Exists
  <2>2. Draft(x)' = Draft(x) /\ (x \in wrote' <=> x \in wrote) /\ (x \in Indexed' <=> x \in Indexed)
    BY DEF Draft, Indexed
  <2>3. \A y \in wrote' : y = r \/ (y \in Requests \ {r} /\ y \in wrote)
    BY DEF Sound, Typed, TypeOK
  <2>4. WrittenOk(x)'
    <3>1. x \in wrote' => \A y \in wrote' : who'[y] = who'[x] => y = x
      BY <2>2, <2>3 DEF Sound, RequestOk, WrittenOk
    <3>. QED  BY <2>2, <3>1 DEF Sound, RequestOk, WrittenOk
  <2>5. IndexedOk(x)'
    <3>1. x \in Indexed' => \A y \in Indexed' \ {x} : Draft(y)' # Draft(x)'
      <4>1. ASSUME x \in Indexed', NEW y \in Indexed', y # x PROVE Draft(y)' # Draft(x)'
        <5>1. CASE y = r
          BY <4>1, <5>1 DEF RequestOk, IndexedOk
        <5>2. CASE y # r
          <6>1. y \in Indexed /\ Draft(y)' = Draft(y)
            BY <4>1, <5>2, <2>3 DEF Indexed, Draft
          <6>. QED  BY <4>1, <6>1, <2>2 DEF Sound, RequestOk, IndexedOk
        <5>. QED  BY <5>1, <5>2
      <4>. QED  BY <4>1
    <3>. QED  BY <2>2, <3>1 DEF Sound, RequestOk, IndexedOk
  <2>. QED  BY <2>1, <2>4, <2>5 DEF RequestOk
<1>. QED  BY <1>1, <1>2 DEF Sound

\* A step that neither ends well nor writes to the log.
LEMMA LogQuiet ==
  ASSUME Sound, NEW r \in Requests, log' = log, pc[r] # "ok", pc'[r] # "ok",
         \A x \in Requests \ {r} : pc'[x] = pc[x] /\ kind'[x] = kind[x] /\ who'[x] = who[x]
  PROVE  LogOk'
<1>1. ASSUME NEW e \in log PROVE pc'[e.by] = "ok" /\ e = Event(e.by)'
  <2>1. e.by \in Requests /\ pc[e.by] = "ok" /\ e = Event(e.by)
    BY DEF Sound, LogOk, Typed, TypeOK
  <2>. QED  BY <2>1 DEF Event
<1>2. ASSUME NEW x \in Requests, kind'[x] \in {"login", "logout"}, pc'[x] = "ok" PROVE Event(x)' \in log
  BY <1>2 DEF Sound, LogOk, Event
<1>. QED  BY <1>1, <1>2 DEF LogOk

\* What somebody who sends a token or logs in is about exists.
LEMMA BearersExist ==
  ASSUME Sound, NEW a \in Bearers
  PROVE  Exists(a)
BY DEF Sound, Bearers, LoggedIn, RequestOk, SubjectOk

LEMMA BeginSound ==
  ASSUME Sound, Typed', NEW r \in Requests, NEW k \in Kinds, NEW a \in Accounts,
         NEW e, NEW step, Begin(r, k, a, e, step),
         \/ k = "register" /\ step \in {"conflict", "insert"} /\ a = r
         \/ k \in Kinds \ {"register"} /\ Exists(a)
            /\ step \in {"update", "commit", "role", "store", "revoke", "refused"}
  PROVE  Sound'
<1>1. /\ pc'[r] = step /\ kind'[r] = k /\ who'[r] = a /\ pc[r] = "new"
      /\ \A x \in Requests \ {r} : /\ pc'[x] = pc[x] /\ kind'[x] = kind[x]
                                   /\ who'[x] = who[x] /\ want'[x] = want[x]
      /\ email' = email /\ log' = log /\ wrote' = wrote
  BY DEF Sound, Typed, TypeOK, Goto, Begin, table
<1>2. r \notin wrote /\ email[r] = Nil
  BY <1>1 DEF Sound, RequestOk, WrittenOk, SubjectOk, Typed, Fits
<1>3. LogOk'
  BY <1>1, LogQuiet
<1>4. SubjectOk(r)'
  BY <1>1, <1>2 DEF SubjectOk, Exists, Kinds
<1>5. WrittenOk(r)' /\ IndexedOk(r)'
  BY <1>1, <1>2 DEF WrittenOk, IndexedOk, Indexed
<1>. QED  BY <1>1, <1>3, <1>4, <1>5, LocalSound DEF RequestOk

LEMMA SendSound ==
  ASSUME Sound, Typed', NEW r \in Requests, Send(r)
  PROVE  Sound'
<1>0. Bearers \subseteq Accounts
  BY BearersAreAccounts DEF Sound, Typed
<1>1. CASE Register(r)
  <2>1. PICK e \in Emails : Begin(r, "register", r, e, IF \E a \in Accounts : email[a] = e THEN "conflict" ELSE "insert")
    BY <1>1 DEF Register
  <2>2. PICK step \in {"conflict", "insert"} : Begin(r, "register", r, e, step)
    BY <2>1
  <2>. QED  BY <2>2, BeginSound, Facts DEF Kinds
<1>2. ASSUME NEW k \in {"patch", "admin"}, NEW a \in Bearers, NEW e, NEW step \in {"update", "commit", "role"},
             Authenticate(r, k, a, e, step)
      PROVE  Sound'
  <2>1. PICK next \in {"update", "commit", "role", "refused"} : Begin(r, k, a, e, next)
    BY <1>2 DEF Authenticate
  <2>. QED  BY <1>0, <2>1, BearersExist, BeginSound DEF Kinds
<1>3. CASE UpdateProfile(r)
  BY <1>3, <1>2 DEF UpdateProfile
<1>4. CASE Administer(r)
  BY <1>4, <1>2 DEF Administer
<1>5. CASE Login(r)
  <2>1. PICK a \in Accounts, step \in {"store", "refused"} : Exists(a) /\ Begin(r, "login", a, Keep, step)
    BY <1>5 DEF Login
  <2>. QED  BY <2>1, BeginSound DEF Kinds
<1>6. CASE Logout(r)
  <2>1. PICK a \in Bearers : Begin(r, "logout", a, Keep, "revoke")
    BY <1>6 DEF Logout
  <2>. QED  BY <1>0, <2>1, BearersExist, BeginSound DEF Kinds
<1>. QED  BY <1>1, <1>3, <1>4, <1>5, <1>6 DEF Send

\* A request that ends without a commit takes its row back.
LEMMA RollbackSound ==
  ASSUME Sound, Typed', NEW r \in Requests, NEW outcome \in Ended \ {"ok"}, Rollback(r, outcome),
         pc[r] # "ok"
  PROVE  Sound'
<1>1. /\ pc'[r] = outcome
      /\ \A x \in Requests \ {r} : /\ pc'[x] = pc[x] /\ kind'[x] = kind[x]
                                   /\ who'[x] = who[x] /\ want'[x] = want[x]
      /\ email' = email /\ log' = log /\ wrote' = wrote \ {r} /\ kind' = kind /\ who' = who
  BY DEF Sound, Typed, TypeOK, Goto, Rollback, Release, table
<1>2. LogOk'
  BY <1>1, LogQuiet
<1>3. SubjectOk(r)'
  BY <1>1 DEF Sound, RequestOk, SubjectOk, Exists
<1>4. WrittenOk(r)' /\ IndexedOk(r)'
  BY <1>1 DEF WrittenOk, IndexedOk, Indexed, Ended
<1>. QED  BY <1>1, <1>2, <1>3, <1>4, LocalSound DEF RequestOk

\* Those who wait for nobody to write their address find it written by nobody.
LEMMA NobodyElse ==
  ASSUME Typed, NEW r \in Requests, pc[r] \in {"insert", "index"}, WaitsFor(r) = {}
  PROVE  \A y \in Indexed \ {r} : Draft(y) # want[r]
BY DEF WaitsFor, EmailUsers, Indexed, Typed, TypeOK

LEMMA InsertSound ==
  ASSUME Sound, Typed', NEW r \in Requests, InsertUser(r)
  PROVE  Sound'
<1>1. CASE Rollback(r, OnDuplicate(r))
  BY <1>1, RollbackSound DEF InsertUser, OnDuplicate, Ended
<1>2. CASE ~Rollback(r, OnDuplicate(r))
  <2>1. /\ ~Taken(r) /\ Goto(r, "note") /\ pc[r] = "insert" /\ wrote' = wrote \cup {r}
        /\ email' = email /\ log' = log /\ kind' = kind /\ who' = who /\ want' = want
    BY <1>2 DEF InsertUser, table
  <2>2. pc'[r] = "note" /\ \A x \in Requests \ {r} : pc'[x] = pc[x]
    BY <2>1 DEF Sound, Typed, TypeOK, Goto
  <2>3. kind[r] = "register" /\ want[r] \in Emails /\ who[r] = r /\ ~Exists(r)
    BY <2>1 DEF Sound, Typed, Fits, RequestOk, SubjectOk, Ended
  <2>4. Draft(r)' = want[r] /\ \A y \in wrote : Draft(y)' = Draft(y)
    BY <2>1, <2>3 DEF Draft
  <2>5. \A y \in wrote : who[y] = r => y = r
    BY <2>3 DEF Sound, RequestOk, WrittenOk, SubjectOk, Typed, TypeOK
  <2>6. WrittenOk(r)'
    BY <2>1, <2>2, <2>3, <2>4, <2>5 DEF WrittenOk
  <2>7. IndexedOk(r)'
    <3>1. \A y \in Indexed' \ {r} : y \in Indexed
      BY <2>1, <2>2 DEF Indexed, Sound, Typed, TypeOK
    <3>2. \A y \in Indexed \ {r} : Draft(y) # want[r]
      BY <2>1, NobodyElse DEF InsertUser, Sound
    <3>. QED  BY <2>1, <2>4, <3>1, <3>2 DEF IndexedOk, Indexed, Taken
  <2>8. SubjectOk(r)' /\ LogOk'
    BY <2>1, <2>2, <2>3, LogQuiet DEF SubjectOk, Exists
  <2>. QED  BY <2>1, <2>2, <2>6, <2>7, <2>8, LocalSound DEF RequestOk
<1>. QED  BY <1>1, <1>2

LEMMA NoteSound ==
  ASSUME Sound, Typed', NEW r \in Requests, NoteRegistration(r)
  PROVE  Sound'
<1>1. /\ pc[r] = "note" /\ Goto(r, "commit") /\ email' = email /\ log' = log
      /\ kind' = kind /\ who' = who /\ want' = want /\ wrote' = wrote
  BY DEF NoteRegistration, KeptBySavepoint, table
<1>2. pc'[r] = "commit" /\ \A x \in Requests \ {r} : pc'[x] = pc[x]
  BY <1>1 DEF Sound, Typed, TypeOK, Goto
<1>3. kind[r] = "register" /\ r \in wrote /\ RequestOk(r)
  BY <1>1 DEF Sound, Typed, Fits
<1>4. Indexed' = Indexed /\ \A y \in wrote : Draft(y)' = Draft(y)
  BY <1>1, <1>2 DEF Indexed, Draft, Sound, Typed, TypeOK
<1>5. IndexedOk(r)'
  BY <1>1, <1>3, <1>4 DEF RequestOk, IndexedOk, Indexed
<1>6. WrittenOk(r)'
  BY <1>1, <1>2, <1>3, <1>4 DEF RequestOk, WrittenOk
<1>7. SubjectOk(r)' /\ LogOk'
  BY <1>1, <1>2, <1>3, LogQuiet DEF RequestOk, SubjectOk, Exists
<1>. QED  BY <1>1, <1>2, <1>5, <1>6, <1>7, LocalSound DEF RequestOk

\* A profile without a new address goes on as if it were in the index: it is there.
LEMMA WriteSound ==
  ASSUME Sound, Typed', NEW r \in Requests, WriteProfile(r)
  PROVE  Sound'
<1>1. CASE Rollback(r, "failed")
  BY <1>1, RollbackSound DEF WriteProfile, Ended
<1>2. CASE ~Rollback(r, "failed")
  <2> DEFINE step == IF want[r] = Keep THEN "commit" ELSE "index"
  <2>1. /\ want[r] # Nil /\ Goto(r, step) /\ pc[r] = "update" /\ wrote' = wrote \cup {r}
        /\ email' = email /\ log' = log /\ kind' = kind /\ who' = who /\ want' = want
    BY <1>2 DEF WriteProfile, table
  <2>2. pc'[r] = step /\ \A x \in Requests \ {r} : pc'[x] = pc[x]
    BY <2>1 DEF Sound, Typed, TypeOK, Goto
  <2>3. /\ kind[r] = "patch" /\ want[r] \in Emails \cup {Keep}
        /\ who[r] \in Accounts /\ email[who[r]] \in Emails
    BY <2>1 DEF Sound, Typed, TypeOK, Fits, RequestOk, SubjectOk, Exists
  <2>4. /\ Draft(r)' = IF want[r] = Keep THEN email[who[r]] ELSE want[r]
        /\ \A y \in wrote : Draft(y)' = Draft(y)
    BY <2>1, <2>3, Facts DEF Draft
  <2>5. \A y \in wrote : who[y] = who[r] => y = r
    BY <2>1 DEF WriteProfile, WaitsFor, RowUsers
  <2>6. WrittenOk(r)'
    BY <2>1, <2>2, <2>3, <2>4, <2>5 DEF WrittenOk
  <2>7. IndexedOk(r)'
    <3>1. CASE want[r] # Keep
      BY <3>1, <2>2 DEF IndexedOk, Indexed
    <3>2. CASE want[r] = Keep
      <4>1. \A a \in Accounts \ {who[r]} : email[a] # email[who[r]]
        BY <2>3, Facts DEF Sound, EmailsUnique, Exists
      <4>2. \A y \in Indexed' \ {r} : y \in Indexed /\ y \in wrote /\ y \in Requests
        BY <2>1, <2>2 DEF Indexed, Sound, Typed, TypeOK
      <4>3. \A y \in Indexed' \ {r} : Draft(y)' # email[who[r]]
        BY <4>2, <2>3, <2>4, <2>5 DEF Sound, RequestOk, IndexedOk
      <4>. QED  BY <2>1, <2>4, <3>2, <4>1, <4>3 DEF IndexedOk
    <3>. QED  BY <3>1, <3>2
  <2>8. SubjectOk(r)' /\ LogOk'
    BY <2>1, <2>2, <2>3, LogQuiet DEF Sound, RequestOk, SubjectOk, Exists
  <2>. QED  BY <2>1, <2>2, <2>6, <2>7, <2>8, LocalSound DEF RequestOk
<1>. QED  BY <1>1, <1>2

LEMMA IndexSound ==
  ASSUME Sound, Typed', NEW r \in Requests, IndexProfile(r)
  PROVE  Sound'
<1>1. CASE Rollback(r, OnDuplicate(r))
  BY <1>1, RollbackSound DEF IndexProfile, OnDuplicate, Ended
<1>2. CASE ~Rollback(r, OnDuplicate(r))
  <2>1. /\ ~Taken(r) /\ Goto(r, "commit") /\ pc[r] = "index" /\ wrote' = wrote
        /\ email' = email /\ log' = log /\ kind' = kind /\ who' = who /\ want' = want
    BY <1>2 DEF IndexProfile, Proceed, table
  <2>2. pc'[r] = "commit" /\ \A x \in Requests \ {r} : pc'[x] = pc[x]
    BY <2>1 DEF Sound, Typed, TypeOK, Goto
  <2>3. kind[r] = "patch" /\ RequestOk(r) /\ r \in wrote /\ want[r] \in Emails
    BY <2>1 DEF Sound, Typed, Fits, RequestOk, WrittenOk
  <2>4. Draft(r)' = want[r] /\ \A y \in wrote : Draft(y)' = Draft(y)
    BY <2>1, <2>3, Facts DEF Draft
  <2>5. WrittenOk(r)'
    BY <2>1, <2>2, <2>3, <2>4 DEF RequestOk, WrittenOk
  <2>6. IndexedOk(r)'
    <3>1. \A y \in Indexed' \ {r} : y \in Indexed /\ y \in wrote
      BY <2>1, <2>2 DEF Indexed, Sound, Typed, TypeOK
    <3>2. \A y \in Indexed \ {r} : Draft(y) # want[r]
      BY <2>1, NobodyElse DEF IndexProfile, Sound
    <3>. QED  BY <2>1, <2>4, <3>1, <3>2 DEF IndexedOk, Taken
  <2>7. SubjectOk(r)' /\ LogOk'
    BY <2>1, <2>2, <2>3, LogQuiet DEF RequestOk, SubjectOk, Exists
  <2>. QED  BY <2>1, <2>2, <2>5, <2>6, <2>7, LocalSound DEF RequestOk
<1>. QED  BY <1>1, <1>2

\* A step of a request that has written no row.
LEMMA ReaderSound ==
  ASSUME Sound, Typed', NEW r \in Requests, NEW step, Goto(r, step), pc[r] \in {"role", "store", "revoke", "log"},
         step \in {"commit", "refused", "log", "unavailable", "ok", "lost"},
         step = "commit" => kind[r] = "admin",
         email' = email, kind' = kind, who' = who, want' = want, wrote' = wrote, LogOk'
  PROVE  Sound'
<1>1. pc'[r] = step /\ \A x \in Requests \ {r} : pc'[x] = pc[x]
  BY DEF Sound, Typed, TypeOK, Goto
<1>2. r \notin wrote /\ kind[r] \in {"admin", "login", "logout"} /\ RequestOk(r)
  BY DEF Sound, RequestOk, WrittenOk, Typed, Fits
<1>3. RequestOk(r)'
  BY <1>1, <1>2 DEF RequestOk, SubjectOk, Exists, WrittenOk, IndexedOk, Indexed
<1>. QED  BY <1>1, <1>3, LocalSound

LEMMA EventSound ==
  ASSUME Sound, Typed', NEW r \in Requests, InsertEvent(r)
  PROVE  Sound'
<1>1. PICK step \in {"ok", "lost"} :
          Goto(r, step) /\ log' = IF step = "ok" THEN log \cup {Event(r)} ELSE log
  BY DEF InsertEvent, Logged
<1>2. pc'[r] = step /\ \A x \in Requests \ {r} : pc'[x] = pc[x]
  BY <1>1 DEF Sound, Typed, TypeOK, Goto
<1>3. pc[r] = "log" /\ email' = email /\ kind' = kind /\ who' = who /\ want' = want /\ wrote' = wrote
  BY DEF InsertEvent
<1>4. LogOk'
  <2>1. ASSUME NEW e \in log PROVE pc'[e.by] = "ok" /\ e = Event(e.by)'
    <3>1. e.by \in Requests /\ pc[e.by] = "ok" /\ e = Event(e.by)
      BY DEF Sound, LogOk, Typed, TypeOK
    <3>. QED  BY <3>1, <1>2, <1>3 DEF Event
  <2>2. Event(r)' = Event(r) /\ Event(r).by = r
    BY <1>3 DEF Event
  <2>3. \A e \in log' : pc'[e.by] = "ok" /\ e = Event(e.by)'
    BY <1>1, <1>2, <2>1, <2>2
  <2>4. ASSUME NEW x \in Requests, kind'[x] \in {"login", "logout"}, pc'[x] = "ok" PROVE Event(x)' \in log'
    <3>1. CASE x = r
      BY <1>1, <1>2, <2>2, <2>4, <3>1
    <3>2. CASE x # r
      BY <1>1, <1>2, <1>3, <2>4, <3>2 DEF Sound, LogOk, Event
    <3>. QED  BY <3>1, <3>2
  <2>. QED  BY <2>3, <2>4 DEF LogOk
<1>. QED  BY <1>1, <1>3, <1>4, ReaderSound

\* A row is committed that is in the index: nobody else has its address, or is to.
LEMMA CommitSound ==
  ASSUME Sound, Typed', NEW r \in Requests, Commit(r)
  PROVE  Sound'
<1>1. /\ pc[r] = "commit" /\ pc'[r] = "ok"
      /\ \A x \in Requests \ {r} : pc'[x] = pc[x] /\ want'[x] = want[x]
      /\ kind' = kind /\ who' = who /\ wrote' = wrote \ {r}
  BY DEF Sound, Typed, TypeOK, Goto, Commit, Release
<1>2. RequestOk(r) /\ kind[r] \in {"register", "patch", "admin"} /\ who[r] \in Accounts
  BY <1>1 DEF Sound, Typed, TypeOK, Fits
<1>3. /\ \A a \in Accounts : email'[a] = IF r \in wrote /\ a = who[r] THEN Draft(r) ELSE email[a]
      /\ r \in wrote => Draft(r) \in Emails /\ r \in Indexed
  BY <1>1, <1>2 DEF Commit, Sound, Typed, TypeOK, RequestOk, WrittenOk, Indexed
<1>4. \A a \in Accounts : Exists(a) => Exists(a)'
  BY <1>3, Facts DEF Exists
<1>5. EmailsUnique'
  <2>1. r \in wrote => \A a \in Accounts \ {who[r]} : email[a] # Draft(r)
    BY <1>2, <1>3 DEF RequestOk, IndexedOk
  <2>2. ASSUME NEW a \in Accounts, NEW b \in Accounts, email'[a] = email'[b], email'[a] # Nil
        PROVE  a = b
    BY <1>3, <2>1, <2>2 DEF Sound, EmailsUnique, Exists
  <2>. QED  BY <2>2 DEF EmailsUnique, Exists
<1>6. LogOk'
  <2>1. Event(r)' = Event(r) /\ Event(r).by = r
    BY <1>1 DEF Event
  <2>2. ASSUME NEW e \in log' PROVE pc'[e.by] = "ok" /\ e = Event(e.by)'
    <3>1. CASE e \in log
      <4>1. e.by \in Requests /\ pc[e.by] = "ok" /\ e = Event(e.by)
        BY <3>1 DEF Sound, LogOk, Typed, TypeOK
      <4>. QED  BY <4>1, <1>1 DEF Event
    <3>2. CASE e = Event(r)
      BY <3>2, <2>1, <1>1
    <3>. QED  BY <3>1, <3>2 DEF Commit
  <2>3. ASSUME NEW x \in Requests, kind'[x] \in {"login", "logout"}, pc'[x] = "ok" PROVE Event(x)' \in log'
    <3>1. x # r
      BY <2>3, <1>1, <1>2
    <3>2. Event(x) \in log
      BY <3>1, <2>3, <1>1 DEF Sound, LogOk
    <3>. QED  BY <3>2, <1>1 DEF Event, Commit
  <2>. QED  BY <2>2, <2>3 DEF LogOk
<1>7. \A a \in Residents : Exists(a)'
  BY <1>4, Facts DEF Sound
<1>8. \A y \in wrote' : y \in wrote /\ y # r /\ y \in Requests
                        /\ (y \in Indexed' <=> y \in Indexed) /\ who[y] \in Accounts
  BY <1>1 DEF Indexed, Sound, Typed, TypeOK
<1>9. \A y \in wrote' : (r \in wrote => who[y] # who[r]) /\ Draft(y)' = Draft(y)
  <2>1. ASSUME NEW y \in wrote' PROVE r \in wrote => who[y] # who[r]
    BY <1>8, <1>2 DEF RequestOk, WrittenOk
  <2>2. ASSUME NEW y \in wrote' PROVE Draft(y)' = Draft(y)
    BY <1>1, <1>3, <1>8, <2>1 DEF Draft
  <2>. QED  BY <2>1, <2>2
<1>10. ASSUME NEW x \in Requests PROVE RequestOk(x)'
  <2>0. RequestOk(x) /\ kind[x] \in Kinds \cup {"none"} /\ who[x] \in Accounts /\ x \in Accounts
    BY Facts DEF Sound, Typed, TypeOK
  <2>1. SubjectOk(x)'
    <3>1. r \in wrote /\ x = who[r] /\ kind[r] = "patch" => Exists(x)
      BY <1>2 DEF RequestOk, SubjectOk
    <3>2. r \in wrote /\ kind[r] # "patch" => kind[r] = "register" /\ who[r] = r
      BY <1>2 DEF RequestOk, SubjectOk, WrittenOk
    <3>3. kind[r] = "register" => r \in wrote
      BY <1>1, <1>2 DEF RequestOk, WrittenOk
    <3>4. x # r => email'[x] = email[x] \/ (Exists(x) /\ Exists(x)')
      BY <1>3, <1>4, <2>0, <3>1, <3>2
    <3>5. x = r /\ kind[r] = "register" => Exists(x)'
      BY <1>3, <2>0, <3>2, <3>3, Facts DEF Exists
    <3>6. x = r /\ kind[r] # "register" => email'[r] = Nil
      BY <1>2, <1>3, <2>0, <3>1, <3>2 DEF RequestOk, SubjectOk, Exists
    <3>7. CASE x = r
      BY <3>7, <3>2, <3>3, <3>5, <3>6, <1>1, <1>2, <1>4 DEF RequestOk, SubjectOk, Exists
    <3>8. CASE x # r
      BY <3>8, <3>4, <2>0, <1>1, <1>4 DEF RequestOk, SubjectOk, Exists
    <3>. QED  BY <3>7, <3>8
  <2>2. WrittenOk(x)'
    <3>1. CASE x = r
      BY <3>1, <1>1 DEF WrittenOk
    <3>2. CASE x # r
      BY <3>2, <1>1, <1>8, <1>9, <2>0 DEF RequestOk, WrittenOk
    <3>. QED  BY <3>1, <3>2
  <2>3. IndexedOk(x)'
    <3>1. SUFFICES ASSUME x \in Indexed' PROVE IndexedOk(x)'
      BY DEF IndexedOk
    <3>2. x \in wrote' /\ x \in Indexed /\ x # r
      BY <3>1, <1>8 DEF Indexed
    <3>3. \A a \in Accounts \ {who[x]} : email'[a] # Draft(x)
      BY <3>2, <1>2, <1>3, <2>0 DEF RequestOk, IndexedOk
    <3>4. \A y \in Indexed' \ {x} : Draft(y)' # Draft(x)
      <4>1. \A y \in Indexed' : y \in wrote' /\ y \in Indexed
        BY <1>8 DEF Indexed
      <4>. QED  BY <4>1, <3>2, <1>9, <2>0 DEF RequestOk, IndexedOk
    <3>. QED  BY <3>2, <3>3, <3>4, <1>1, <1>9 DEF IndexedOk
  <2>. QED  BY <2>1, <2>2, <2>3 DEF RequestOk
<1>. QED  BY <1>5, <1>6, <1>7, <1>10 DEF Sound

LEMMA StepSound ==
  ASSUME Sound, Typed', NEW r \in Requests, Step(r)
  PROVE  Sound'
<1>1. CASE RequireAdmin(r)
  <2>1. PICK step \in {"commit", "refused"} : Proceed(r, step)
    BY <1>1 DEF RequireAdmin
  <2>2. pc[r] = "role" /\ kind[r] = "admin" /\ Goto(r, step) /\ log' = log
    BY <1>1, <2>1 DEF RequireAdmin, Sound, Typed, Fits, Proceed, table
  <2>3. LogOk'
    BY <2>1, <2>2, LogQuiet DEF Proceed, Goto, Sound, Typed, TypeOK
  <2>. QED  BY <2>1, <2>2, <2>3, ReaderSound DEF Proceed, table
<1>2. CASE KeepToken(r)
  <2>1. PICK step \in {"log", "unavailable"} : Proceed(r, step)
    BY <1>2 DEF KeepToken
  <2>2. pc[r] \in {"store", "revoke"} /\ Goto(r, step) /\ log' = log
    BY <1>2, <2>1 DEF KeepToken, Proceed, table
  <2>3. LogOk'
    BY <2>1, <2>2, LogQuiet DEF Proceed, Goto, Sound, Typed, TypeOK
  <2>. QED  BY <2>1, <2>2, <2>3, ReaderSound DEF Proceed, table
<1>. QED  BY <1>1, <1>2, InsertSound, NoteSound, WriteSound, IndexSound, EventSound, CommitSound DEF Step

\* Only requests that are under way are given up.
LEMMA GivenUp ==
  ASSUME Typed, NEW r \in Requests, AbortVictim(r) \/ Crash(r)
  PROVE  Running(r) /\ \E outcome \in {"lost", "failed", "cut"} : Rollback(r, outcome)
<1>1. Deadlocked(r) => WaitsFor(r) # {}
  BY DEF Deadlocked
<1>2. WaitsFor(r) # {} => pc[r] \in {"update", "insert", "index", "log"}
  BY DEF WaitsFor
<1>. QED  BY <1>1, <1>2 DEF AbortVictim, Crash, Running, Ended

LEMMA NextSound == Sound /\ [Next]_vars => Sound'
<1>1. ASSUME Sound, email' = email, log' = log, pc' = pc, kind' = kind, who' = who, want' = want,
             wrote' = wrote, Typed'
      PROVE  Sound'
  <2>1. EmailsUnique' /\ LogOk' /\ \A a \in Residents : Exists(a)'
    BY <1>1 DEF Sound, EmailsUnique, LogOk, Event, Exists
  <2>2. \A r \in Requests : RequestOk(r)'
    BY <1>1 DEF Sound, RequestOk, SubjectOk, WrittenOk, IndexedOk, Indexed, Draft, Exists
  <2>. QED  BY <1>1, <2>1, <2>2 DEF Sound
<1>2. ASSUME Sound, [Next]_vars PROVE Sound'
  <2>1. Typed'
    BY <1>2, NextTyped DEF Sound
  <2>2. CASE Idle \/ UNCHANGED vars
    BY <1>1, <1>2, <2>1, <2>2 DEF Idle, vars, table
  <2>3. CASE \E a \in Managed, s \in Statuses : SetStatus(a, s)
    BY <1>1, <1>2, <2>1, <2>3 DEF SetStatus
  <2>4. ASSUME NEW r \in Requests, AbortVictim(r) \/ Crash(r) PROVE Sound'
    <3>1. Running(r) /\ \E outcome \in {"lost", "failed", "cut"} : Rollback(r, outcome)
      BY <1>2, <2>4, GivenUp DEF Sound
    <3>. QED  BY <1>2, <2>1, <3>1, RollbackSound DEF Ended, Running
  <2>. QED  BY <1>2, <2>1, <2>2, <2>3, <2>4, SendSound, StepSound DEF Next
<1>. QED  BY <1>2

LEMMA AlwaysSound == Spec => [](Typed /\ Sound)
<1>1. Sound => Typed /\ Sound
  BY DEF Sound
<1>. QED  BY <1>1, InitSound, NextSound, PTL DEF Spec

\* No two accounts have one address, however registrations and changes of
\* profiles overlap, swap addresses or are cut off (user_service.py:47-76, 120-128).
THEOREM AddressesAreUnique == Spec => []EmailsUnique
<1>1. Sound => EmailsUnique
  BY DEF Sound
<1>. QED  BY <1>1, InitSound, NextSound, PTL DEF Spec

\* The audit log has no registration without its account, nothing that was refused
\* or rolled back, and every login and logout whose background task did not fail
\* (auth.py:127-134, 175-182, 285-292).
THEOREM TheLogTellsTheTruth == Spec => []LogTellsTruth
<1>1. Sound => LogTellsTruth
  <2>1. ASSUME Sound, NEW e \in log PROVE Exists(e.user)
    <3>1. e.by \in Requests /\ pc[e.by] = "ok" /\ e.user = who[e.by] /\ kind[e.by] \in Kinds \cup {"none"}
      BY <2>1 DEF Sound, LogOk, Event, Typed, TypeOK
    <3>. QED  BY <2>1, <3>1 DEF Sound, Typed, Fits, RequestOk, SubjectOk, Kinds
  <2>. QED  BY <2>1 DEF Sound, LogOk, LogTellsTruth
<1>. QED  BY <1>1, InitSound, NextSound, PTL DEF Spec

-----------------------------------------------------------------------------
(* Accounts implements AddressBook.                                        *)

CarriedOut == {"log", "ok", "lost"}

\* Only a registration writes its audit row in its own transaction.
Notes == \A r \in noted : kind[r] = "register"

LEMMA NextNotes == Typed /\ Notes /\ [Next]_vars => Notes'
<1> SUFFICES ASSUME Typed, Notes, [Next]_vars PROVE Notes'
  OBVIOUS
<1>1. CASE noted' \subseteq noted /\ kind' = kind
  BY <1>1 DEF Notes
<1>2. ASSUME NEW r \in Requests, Send(r) PROVE Notes'
  <2>1. \E k, a, e, step : Begin(r, k, a, e, step)
    BY <1>2 DEF Send, Register, UpdateProfile, Administer, Login, Logout, Authenticate
  <2>2. pc[r] = "new" /\ noted' = noted /\ \A x \in Requests \ {r} : kind'[x] = kind[x]
    BY <2>1 DEF Begin, Typed, TypeOK
  <2>3. r \notin noted /\ noted \subseteq Requests
    BY <2>2 DEF Notes, Typed, TypeOK, Fits
  <2>. QED  BY <2>2, <2>3 DEF Notes
<1>3. ASSUME NEW r \in Requests, NoteRegistration(r) PROVE Notes'
  BY <1>3 DEF NoteRegistration, Notes, Typed, Fits
<1>4. ASSUME NEW r \in Requests, Step(r) \/ AbortVictim(r) \/ Crash(r), ~NoteRegistration(r) PROVE Notes'
  <2>1. noted' \subseteq noted /\ kind' = kind
    BY <1>4 DEF Step, InsertUser, WriteProfile, IndexProfile, RequireAdmin, KeepToken, InsertEvent,
                Commit, AbortVictim, Crash, Rollback, Release, Proceed
  <2>. QED  BY <1>1, <2>1
<1>5. CASE (\E a \in Managed, s \in Statuses : SetStatus(a, s)) \/ Idle \/ UNCHANGED vars
  BY <1>1, <1>5 DEF SetStatus, Idle, vars
<1>. QED  BY <1>2, <1>3, <1>4, <1>5 DEF Next

\* A step of r that carries nothing out, or goes on after that.
LEMMA ServedSame ==
  ASSUME Typed, NEW r \in Requests, pc'[r] \in CarriedOut <=> pc[r] \in CarriedOut,
         pc[r] \in CarriedOut => kind'[r] = kind[r] /\ who'[r] = who[r],
         \A x \in Requests \ {r} : pc'[x] = pc[x] /\ kind'[x] = kind[x] /\ who'[x] = who[x]
  PROVE  Served' = Served
BY DEF Served, CarriedOut, Event

LEMMA QuietImplements ==
  ASSUME Typed, NEW r \in Requests, email' = email, log' = log,
         pc'[r] \in CarriedOut <=> pc[r] \in CarriedOut,
         pc[r] \in CarriedOut => kind'[r] = kind[r] /\ who'[r] = who[r],
         \A x \in Requests \ {r} : pc'[x] = pc[x] /\ kind'[x] = kind[x] /\ who'[x] = who[x]
  PROVE  [Book!Next]_(Book!book)
BY ServedSame DEF Book!book

\* The step that carries r out.
LEMMA ServeImplements ==
  ASSUME Typed, NEW r \in Requests, pc[r] \notin CarriedOut, NEW step \in CarriedOut, Goto(r, step),
         kind' = kind, who' = who
  PROVE  Book!Serve(Event(r)) /\ Event(r) \in Served'
<1>1. pc'[r] = step /\ \A x \in Requests \ {r} : pc'[x] = pc[x]
  BY DEF Goto, Typed, TypeOK
<1>2. \A x \in Requests : Event(x)' = Event(x)
  BY DEF Event
<1>3. Served' = Served \cup {Event(r)}
  <2>1. \A x \in Requests : pc'[x] \in CarriedOut <=> x = r \/ pc[x] \in CarriedOut
    BY <1>1
  <2>2. Served' = {Event(x) : x \in {y \in Requests : pc'[y] \in CarriedOut}}
    BY <1>2 DEF Served, CarriedOut
  <2>3. Served = {Event(x) : x \in {y \in Requests : pc[y] \in CarriedOut}}
    BY DEF Served, CarriedOut
  <2>. QED  BY <2>1, <2>2, <2>3
<1>4. \A y \in Served : y.by # Event(r).by
  BY DEF Served, Event, CarriedOut
<1>. QED  BY <1>3, <1>4 DEF Book!Serve

LEMMA SendImplements ==
  ASSUME Typed, NEW r \in Requests, Send(r)
  PROVE  [Book!Next]_(Book!book)
<1>1. \E k, a, e : \E step \in {"conflict", "insert", "update", "commit", "refused", "role", "store", "revoke"} :
          Begin(r, k, a, e, step)
  BY DEF Send, Register, UpdateProfile, Administer, Login, Logout, Authenticate
<1>2. /\ email' = email /\ log' = log
      /\ pc[r] \notin CarriedOut /\ pc'[r] \notin CarriedOut
      /\ \A x \in Requests \ {r} : pc'[x] = pc[x] /\ kind'[x] = kind[x] /\ who'[x] = who[x]
  BY <1>1 DEF Begin, Goto, table, Typed, TypeOK, CarriedOut
<1>. QED  BY <1>2, QuietImplements

LEMMA StepQuiet ==
  ASSUME Typed, NEW r \in Requests, NEW step, Goto(r, step), UNCHANGED <<email, log, kind, who>>,
         step \in CarriedOut <=> pc[r] \in CarriedOut
  PROVE  [Book!Next]_(Book!book)
<1>1. pc'[r] = step /\ \A x \in Requests \ {r} : pc'[x] = pc[x]
  BY DEF Goto, Typed, TypeOK
<1>. QED  BY <1>1, QuietImplements

LEMMA KeepTokenImplements ==
  ASSUME Sound, NEW r \in Requests, KeepToken(r)
  PROVE  [Book!Next]_(Book!book)
<1>1. PICK step \in {"log", "unavailable"} : Proceed(r, step)
  BY DEF KeepToken
<1>2. /\ pc[r] \in {"store", "revoke"} /\ Goto(r, step) /\ kind[r] \in {"login", "logout"}
      /\ UNCHANGED <<email, log, kind, who>> /\ Exists(who[r]) /\ who[r] \in Accounts
  BY <1>1 DEF KeepToken, Proceed, table, Sound, Typed, TypeOK, Fits, RequestOk, SubjectOk
<1>3. CASE step = "unavailable"
  BY <1>2, <1>3, StepQuiet DEF CarriedOut, Sound
<1>4. CASE step = "log"
  <2>1. Book!Serve(Event(r)) /\ Event(r) \in Served'
    BY <1>2, <1>4, ServeImplements DEF CarriedOut, Sound
  <2>2. Book!Open(Event(r).user)
    BY <1>2 DEF Book!Open, Event, Exists, Sound, Typed, TypeOK
  <2>3. Book!Admit(Event(r))
    BY <1>2, <2>1, <2>2 DEF Book!Admit, Event
  <2>. QED  BY <2>1, <2>3 DEF Book!Next
<1>. QED  BY <1>3, <1>4

LEMMA EventImplements ==
  ASSUME Typed, NEW r \in Requests, InsertEvent(r)
  PROVE  [Book!Next]_(Book!book)
<1>1. PICK step \in {"ok", "lost"} : Goto(r, step) /\ log' \in {log, Logged(r)}
  BY DEF InsertEvent
<1>2. pc'[r] = step /\ \A x \in Requests \ {r} : pc'[x] = pc[x]
  BY <1>1 DEF Goto, Typed, TypeOK
<1>3. Served' = Served
  BY <1>2, ServedSame DEF InsertEvent, CarriedOut
<1>4. Event(r) \in Served /\ Event(r).event \in {"login", "logout"}
  BY DEF InsertEvent, Served, Event, Typed, Fits
<1>5. Book!Record(Event(r)) \/ UNCHANGED Book!book
  BY <1>1, <1>3, <1>4 DEF InsertEvent, Logged, Book!Record, Book!book
<1>. QED  BY <1>3, <1>4, <1>5 DEF Book!Next

\* A commit stores an address that nobody else has, and by a registration an
\* account that had none.
LEMMA CommitImplements ==
  ASSUME Sound, Notes, NEW r \in Requests, Commit(r)
  PROVE  [Book!Next]_(Book!book)
<1>1. /\ pc[r] = "commit" /\ Goto(r, "ok") /\ kind' = kind /\ who' = who
      /\ kind[r] \in {"register", "patch", "admin"} /\ who[r] \in Accounts
      /\ SubjectOk(r) /\ WrittenOk(r) /\ IndexedOk(r) /\ email \in [Accounts -> Emails \cup {Nil}]
  BY DEF Commit, Release, Sound, RequestOk, Typed, TypeOK, Fits
<1>2. Book!Serve(Event(r)) /\ Event(r) \in Served'
  BY <1>1, ServeImplements DEF CarriedOut, Sound
<1>3. Event(r).event = kind[r] /\ Event(r).user = who[r] /\ Event(r).by = r
  BY DEF Event
<1>4. kind[r] # "register" => Book!Open(who[r])
  BY <1>1 DEF SubjectOk, Exists, Book!Open
<1>5. CASE r \in wrote
  <2>1. kind[r] \in {"register", "patch"} /\ Draft(r) \in Emails /\ r \in Indexed
    BY <1>1, <1>5 DEF WrittenOk, Indexed
  <2>2. Book!Free(Draft(r), who[r]) /\ Book!Take(Draft(r), who[r])
    BY <1>1, <1>5, <2>1 DEF Commit, IndexedOk, Book!Free, Book!Take
  <2>3. CASE kind[r] = "register"
    <3>1. who[r] = r /\ ~Book!Open(r)
      BY <1>1, <2>3, Facts DEF SubjectOk, Exists, Book!Open
    <3>2. log' \in {log, log \cup {Event(r)}}
      BY DEF Commit
    <3>3. Book!Enrol(Event(r))
      BY <1>2, <1>3, <2>1, <2>2, <2>3, <3>1, <3>2 DEF Book!Enrol
    <3>. QED  BY <1>2, <3>3 DEF Book!Next
  <2>4. CASE kind[r] = "patch"
    <3>1. log' = log
      BY <2>4 DEF Commit, Notes
    <3>2. Book!Move(Event(r))
      BY <1>2, <1>3, <1>4, <2>1, <2>2, <2>4, <3>1 DEF Book!Move
    <3>. QED  BY <1>2, <3>2 DEF Book!Next
  <2>. QED  BY <2>1, <2>3, <2>4
<1>6. CASE r \notin wrote
  <2>1. email' = email /\ log' = log /\ kind[r] # "register"
    BY <1>1, <1>6 DEF Commit, WrittenOk, Sound, Typed, TypeOK
  <2>2. CASE kind[r] = "admin"
    BY <1>2, <1>3, <1>4, <2>1, <2>2 DEF Book!Admit, Book!Next
  <2>3. CASE kind[r] = "patch"
    <3>1. email[who[r]] \in Emails /\ Book!Free(email[who[r]], who[r])
      BY <1>1, <1>4, <2>3, Facts DEF Sound, EmailsUnique, Exists, Book!Open, Book!Free
    <3>2. Book!Take(email[who[r]], who[r])
      BY <1>1, <2>1 DEF Book!Take
    <3>3. Book!Move(Event(r))
      BY <1>2, <1>3, <1>4, <2>1, <2>3, <3>1, <3>2 DEF Book!Move
    <3>. QED  BY <1>2, <3>3 DEF Book!Next
  <2>. QED  BY <1>1, <2>1, <2>2, <2>3
<1>. QED  BY <1>5, <1>6

LEMMA StepImplements ==
  ASSUME Sound, Notes, NEW r \in Requests, Step(r)
  PROVE  [Book!Next]_(Book!book)
<1>1. CASE InsertUser(r) \/ NoteRegistration(r) \/ WriteProfile(r) \/ IndexProfile(r) \/ RequireAdmin(r)
  <2>1. pc[r] \notin CarriedOut
    BY <1>1 DEF InsertUser, NoteRegistration, WriteProfile, IndexProfile, RequireAdmin, CarriedOut
  <2>2. /\ UNCHANGED <<email, log, kind, who>>
        /\ \E step \in {"conflict", "failed", "note", "commit", "index", "refused"} : Goto(r, step)
    BY <1>1 DEF InsertUser, NoteRegistration, WriteProfile, IndexProfile, RequireAdmin, Rollback,
                Release, OnDuplicate, Proceed, table
  <2>. QED  BY <2>1, <2>2, StepQuiet DEF CarriedOut, Sound
<1>. QED  BY <1>1, KeepTokenImplements, EventImplements, CommitImplements DEF Step, Sound

LEMMA FaultImplements ==
  ASSUME Typed, NEW r \in Requests, AbortVictim(r) \/ Crash(r)
  PROVE  [Book!Next]_(Book!book)
<1>1. Running(r)
  BY GivenUp
<1>2. Rollback(r, IF pc[r] = "log" THEN "lost" ELSE "failed") \/ Rollback(r, IF pc[r] = "log" THEN "lost" ELSE "cut")
  BY DEF AbortVictim, Crash
<1>3. PICK step \in {"lost", "failed", "cut"} : Rollback(r, step) /\ (step = "lost" <=> pc[r] = "log")
  BY <1>2
<1>4. Goto(r, step) /\ UNCHANGED <<email, log, kind, who>>
  BY <1>3 DEF Rollback, Release, table
<1>. QED  BY <1>1, <1>3, <1>4, StepQuiet DEF Running, Ended, CarriedOut

\* An account comes to be with its registration and only so, though its audit row
\* may fail; an address changes only to one that nobody else has; who is refused,
\* fails or is cut off changes nothing; a login or logout is recorded only after it
\* (user_service.py:45-76, 107-130; auth_audit_log_service.py:89-106).
THEOREM AccountsImplementAddressBook == Spec => ImplementsAddressBook
<1>1. Init => Book!Init
  <2>1. SUFFICES ASSUME Init PROVE Book!Init
    OBVIOUS
  <2>2. Served = {} /\ log = {}
    BY <2>1 DEF Init, Served
  <2>3. EmailsUnique
    BY <2>1, InitSound DEF Sound
  <2>. QED  BY <2>2, <2>3, Facts DEF Book!Init, Book!Open, EmailsUnique, Exists
<1>2. Typed /\ Sound /\ Notes /\ [Next]_vars => [Book!Next]_(Book!book)
  <2> SUFFICES ASSUME Typed, Sound, Notes, [Next]_vars PROVE [Book!Next]_(Book!book)
    OBVIOUS
  <2>1. CASE UNCHANGED <<email, log, pc, kind, who>>
    BY <2>1 DEF Book!book, Served, Event
  <2>2. CASE (\E a \in Managed, s \in Statuses : SetStatus(a, s)) \/ Idle \/ UNCHANGED vars
    BY <2>1, <2>2 DEF SetStatus, Idle, vars, table
  <2>. QED  BY <2>2, SendImplements, StepImplements, FaultImplements DEF Next
<1>3. Init => Notes
  BY DEF Init, Notes
<1>. QED  BY <1>1, <1>2, <1>3, NextNotes, AlwaysSound, PTL DEF Spec, ImplementsAddressBook, Book!Spec

-----------------------------------------------------------------------------
(* How requests end.                                                       *)

\* How a step of r can fail r, and that it fails nobody else.
LEMMA Endings ==
  ASSUME Typed, NEW r \in Requests, NEW x \in Requests,
         Send(r) \/ Step(r) \/ AbortVictim(r) \/ Crash(r), Turns(x, "failed")
  PROVE  x = r /\ (want[r] = Nil \/ Deadlocked(r))
<1>1. \A step : Goto(r, step) => pc'[r] = step /\ \A y \in Requests \ {r} : pc'[y] = pc[y]
  BY DEF Goto, Typed, TypeOK
<1>2. \E step : Goto(r, step)
  BY DEF Send, Step, Register, UpdateProfile, Administer, Login, Logout, Authenticate, Begin,
         InsertUser, NoteRegistration, WriteProfile, IndexProfile, RequireAdmin, KeepToken,
         InsertEvent, Commit, AbortVictim, Crash, Rollback, Release, Proceed
<1>3. x = r /\ pc'[r] = "failed"
  BY <1>1, <1>2 DEF Turns
<1>4. CASE Send(r)
  <2>1. \E step \in {"conflict", "insert", "update", "commit", "refused", "role", "store", "revoke"} : Goto(r, step)
    BY <1>4 DEF Send, Register, UpdateProfile, Administer, Login, Logout, Authenticate, Begin
  <2>. QED  BY <1>1, <1>3, <2>1
<1>5. CASE Step(r)
  <2>1. CASE InsertUser(r) \/ IndexProfile(r)
    <3>1. \E step \in {"conflict", "note", "commit"} : Goto(r, step)
      BY <2>1 DEF InsertUser, IndexProfile, Rollback, Release, OnDuplicate, Proceed
    <3>. QED  BY <1>1, <1>3, <3>1
  <2>2. CASE WriteProfile(r)
    <3>1. \/ want[r] = Nil /\ Goto(r, "failed")
          \/ \E step \in {"commit", "index"} : Goto(r, step)
      BY <2>2 DEF WriteProfile, Rollback, Release
    <3>. QED  BY <1>1, <1>3, <3>1
  <2>3. CASE NoteRegistration(r) \/ RequireAdmin(r) \/ KeepToken(r) \/ InsertEvent(r) \/ Commit(r)
    <3>1. \E step \in {"commit", "refused", "log", "unavailable", "ok", "lost"} : Goto(r, step)
      BY <2>3 DEF NoteRegistration, RequireAdmin, KeepToken, InsertEvent, Commit, Release, Proceed
    <3>. QED  BY <1>1, <1>3, <3>1
  <2>. QED  BY <1>5, <2>1, <2>2, <2>3 DEF Step
<1>6. CASE AbortVictim(r)
  <2>1. Deadlocked(r) /\ \E step \in {"lost", "failed"} : Goto(r, step)
    BY <1>6 DEF AbortVictim, Rollback, Release
  <2>. QED  BY <1>1, <1>3, <2>1
<1>7. CASE Crash(r)
  <2>1. \E step \in {"lost", "cut"} : Goto(r, step)
    BY <1>7 DEF Crash, Rollback, Release
  <2>. QED  BY <1>1, <1>3, <2>1
<1>. QED  BY <1>4, <1>5, <1>6, <1>7

\* Who loses a race for an address is told so: only a null address and a deadlock
\* of two profiles end in a 500 (user_service.py:68-74, 122-128).
THEOREM OnlyNullAndDeadlockFail == Spec => RacesEndInConflict
<1> DEFINE Told == \A r \in Requests : Turns(r, "failed") => want[r] = Nil \/ Deadlocked(r)
<1>1. Typed /\ [Next]_vars => [Told]_vars
  <2>1. SUFFICES ASSUME Typed, Next, NEW x \in Requests, Turns(x, "failed")
                 PROVE  want[x] = Nil \/ Deadlocked(x)
    OBVIOUS
  <2>2. PICK r \in Requests : Send(r) \/ Step(r) \/ AbortVictim(r) \/ Crash(r)
    BY <2>1 DEF Next, Idle, vars, Turns, SetStatus
  <2>. QED  BY <2>1, <2>2, Endings
<1>. QED  BY <1>1, InitTyped, NextTyped, PTL DEF Spec, RacesEndInConflict

-----------------------------------------------------------------------------
(* Administrators.                                                         *)

Admins == \A r \in Requests : AdminOk(r)

\* A step that takes r away from where its role counts.
LEMMA AwayAdmins ==
  ASSUME Typed, Admins, NEW r \in Requests, NEW step, Goto(r, step),
         \A x \in Requests \ {r} : /\ kind'[x] = kind[x] /\ loaded'[x] = loaded[x]
                                   /\ x \in entitled => x \in entitled',
         kind'[r] # "admin" \/ step \notin {"role", "commit"}
  PROVE  Admins'
BY DEF Admins, AdminOk, Goto, Typed, TypeOK

LEMMA InitAdmins == Init => Admins
BY DEF Init, Admins, AdminOk

LEMMA NextAdmins ==
  ASSUME Typed, Admins, [Next]_vars
  PROVE  Admins'
<1>1. CASE Idle \/ UNCHANGED vars
  BY <1>1 DEF Idle, vars, Admins, AdminOk
<1>2. CASE \E a \in Managed, s \in Statuses : SetStatus(a, s)
  BY <1>2 DEF SetStatus, Admins, AdminOk
<1>3. ASSUME NEW r \in Requests, Send(r) PROVE Admins'
  <2>1. CASE Register(r) \/ UpdateProfile(r) \/ Login(r) \/ Logout(r)
    <3>1. \E k \in Kinds \ {"admin"} : \E a, e, step :
              /\ Begin(r, k, a, e, step) /\ entitled' = entitled
              /\ \A x \in Requests \ {r} : loaded'[x] = loaded[x]
      BY <2>1 DEF Register, UpdateProfile, Login, Logout, Authenticate, Kinds, Typed, TypeOK
    <3>2. PICK k \in Kinds \ {"admin"} : \E a, e, step :
              /\ Begin(r, k, a, e, step) /\ entitled' = entitled
              /\ \A x \in Requests \ {r} : loaded'[x] = loaded[x]
      BY <3>1
    <3>3. kind'[r] = k /\ \A x \in Requests \ {r} : kind'[x] = kind[x]
      BY <3>2 DEF Begin, Typed, TypeOK
    <3>. QED  BY <3>2, <3>3, AwayAdmins DEF Begin
  <2>2. CASE Administer(r)
    <3>1. PICK a \in Bearers : Authenticate(r, "admin", a, Keep, "role")
      BY <2>2 DEF Administer
    <3>2. /\ kind'[r] = "admin" /\ loaded'[r] = status[a]
          /\ \A x \in Requests \ {r} : kind'[x] = kind[x] /\ loaded'[x] = loaded[x] /\ pc'[x] = pc[x]
          /\ pc'[r] = IF status[a].active THEN "role" ELSE "refused"
      BY <3>1 DEF Authenticate, Begin, Goto, Typed, TypeOK
    <3>3. status[a].active /\ status[a].admin => r \in entitled'
      BY <3>1 DEF Authenticate, Entitled
    <3>4. entitled \subseteq entitled'
      BY <3>1 DEF Authenticate
    <3>. QED  BY <3>2, <3>3, <3>4 DEF Admins, AdminOk
  <2>. QED  BY <1>3, <2>1, <2>2 DEF Send
<1>4. ASSUME NEW r \in Requests, NEW outcome \in Ended, Release(r, outcome) PROVE Admins'
  BY <1>4, AwayAdmins DEF Release, Ended, Typed, TypeOK
<1>5. ASSUME NEW r \in Requests, RequireAdmin(r) PROVE Admins'
  <2>1. /\ pc[r] = "role" /\ kind[r] = "admin" /\ kind' = kind /\ loaded' = loaded /\ entitled' = entitled
        /\ pc'[r] = IF loaded[r].admin THEN "commit" ELSE "refused"
        /\ \A x \in Requests \ {r} : pc'[x] = pc[x]
    BY <1>5 DEF RequireAdmin, IsAdmin, Proceed, Goto, Typed, TypeOK, Fits
  <2>. QED  BY <2>1 DEF Admins, AdminOk
<1>6. ASSUME NEW r \in Requests, NEW step, Goto(r, step), pc[r] \notin {"role", "commit", "new"},
             UNCHANGED <<kind, loaded, entitled>>,
             kind[r] # "admin" \/ step \notin {"role", "commit"}
      PROVE  Admins'
  BY <1>6, AwayAdmins
<1>7. ASSUME NEW r \in Requests, Step(r) PROVE Admins'
  <2>0. Fits(r)
    BY DEF Typed
  <2>1. CASE InsertUser(r) \/ WriteProfile(r) \/ IndexProfile(r) \/ NoteRegistration(r)
    <3>1. kind[r] # "admin" /\ pc[r] \notin {"role", "commit", "new"}
      BY <2>0, <2>1 DEF Fits, InsertUser, WriteProfile, IndexProfile, NoteRegistration
    <3>2. \/ \E outcome \in Ended : Release(r, outcome)
          \/ \E step : Goto(r, step) /\ UNCHANGED <<kind, loaded, entitled>>
      BY <2>1 DEF InsertUser, WriteProfile, IndexProfile, NoteRegistration, Rollback, OnDuplicate,
                  Ended, Proceed
    <3>. QED  BY <3>1, <3>2, <1>4, <1>6
  <2>2. CASE KeepToken(r) \/ InsertEvent(r)
    <3>1. \E step : Goto(r, step) /\ step \notin {"role", "commit"} /\ UNCHANGED <<kind, loaded, entitled>>
      BY <2>2 DEF KeepToken, InsertEvent, Proceed
    <3>2. pc[r] \notin {"role", "commit", "new"}
      BY <2>2 DEF KeepToken, InsertEvent
    <3>. QED  BY <3>1, <3>2, <1>6
  <2>. QED  BY <1>4, <1>5, <1>7, <2>1, <2>2 DEF Step, Commit, Ended
<1>8. ASSUME NEW r \in Requests, AbortVictim(r) \/ Crash(r) PROVE Admins'
  BY <1>4, <1>8 DEF AbortVictim, Crash, Rollback, Ended
<1>. QED  BY <1>1, <1>2, <1>3, <1>7, <1>8 DEF Next

\* A request that carries out an administrator's work was sent by somebody who was
\* an active administrator at one moment while it ran, though the user and the role
\* are read by two statements (dependencies.py:45-63, 78-87).
THEOREM AdminsHaveBeenAdmins == Spec => AdminsWereAdmins
<1> DEFINE Told == \A r \in Requests : kind[r] = "admin" /\ Turns(r, "ok") => r \in entitled
<1>1. Typed /\ Admins /\ [Next]_vars => [Told]_vars
  <2>1. SUFFICES ASSUME Typed, Admins, Next, NEW x \in Requests, kind[x] = "admin", Turns(x, "ok")
                 PROVE  x \in entitled
    OBVIOUS
  <2>2. PICK r \in Requests : Send(r) \/ Step(r) \/ AbortVictim(r) \/ Crash(r)
    BY <2>1 DEF Next, Idle, vars, Turns, SetStatus
  <2>3. \E step : Goto(r, step)
    BY <2>2 DEF Send, Step, Register, UpdateProfile, Administer, Login, Logout, Authenticate, Begin,
           InsertUser, NoteRegistration, WriteProfile, IndexProfile, RequireAdmin, KeepToken,
           InsertEvent, Commit, AbortVictim, Crash, Rollback, Release, Proceed
  <2>4. x = r
    BY <2>1, <2>3 DEF Turns, Goto, Typed, TypeOK
  <2>5. Fits(r) /\ AdminOk(r)
    BY <2>1 DEF Typed, Admins
  <2>6. CASE Commit(r)
    BY <2>1, <2>4, <2>5, <2>6 DEF Commit, AdminOk
  <2>7. CASE InsertEvent(r)
    BY <2>1, <2>4, <2>5, <2>7 DEF InsertEvent, Fits
  <2>8. CASE ~Commit(r) /\ ~InsertEvent(r)
    <3>1. \E step \in Steps \ {"ok"} : Goto(r, step)
      BY <2>2, <2>8 DEF Send, Step, Register, UpdateProfile, Administer, Login, Logout, Authenticate,
             Begin, InsertUser, NoteRegistration, WriteProfile, IndexProfile, RequireAdmin, KeepToken,
             AbortVictim, Crash, Rollback, Release, Proceed, OnDuplicate, Steps, Ended
    <3>. QED  BY <2>1, <2>4, <3>1 DEF Turns, Goto, Typed, TypeOK
  <2>. QED  BY <2>6, <2>7, <2>8
<1>2. Init => Typed /\ Admins
  BY InitTyped, InitAdmins
<1>3. Typed /\ Admins /\ [Next]_vars => (Typed /\ Admins)'
  BY NextTyped, NextAdmins
<1>. QED  BY <1>1, <1>2, <1>3, PTL DEF Spec, AdminsWereAdmins
=============================================================================
