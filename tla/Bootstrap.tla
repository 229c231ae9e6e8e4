------------------------------ MODULE Bootstrap ------------------------------
(***************************************************************************)
(* How a container comes up (scripts/docker-start.sh): wait for the        *)
(* database, run the migrations, apply the seed files once, serve.  Any    *)
(* step that fails ends the start-up, for the script runs under set -e;    *)
(* somebody starts the container again.  Several containers may start on   *)
(* one database: the seeding holds an advisory lock, the migrations none.  *)
(***************************************************************************)
EXTENDS Naturals, Sequences

CONSTANTS
    Containers,
    SeedFiles,      \* the seed files, in the order of get_seed_files
    Repeatable,     \* those that can be applied to a database that has them
    Retries,        \* how often wait_for_db tries
    Crashes,        \* how many start-ups may be cut off
    Nil             \* nobody holds the advisory lock

ASSUME BootstrapAssumption ==
    /\ Nil \notin Containers /\ SeedFiles \in Seq(STRING)
    /\ Retries \in Nat \ {0} /\ Crashes \in Nat

VARIABLES
    reachable,      \* does PostgreSQL accept connections?
    migrated,       \* is the schema at head?
    times,          \* times[i]: how often seed file i has been applied
    marker,         \* is the row scripts_seed_v1 in app_bootstrap_state?
    advisory,       \* the container that holds pg_advisory_lock(287346120)
    attempt,        \* attempt[c]: how often c has tried to connect
    next,           \* next[c]: the seed file c applies next
    pc,             \* pc[c]: the step c is at
    crashed         \* how many start-ups have been cut off

vars == <<reachable, migrated, times, marker, advisory, attempt, next, pc, crashed>>

Files == 1 .. Len(SeedFiles)
Steps == {"wait", "migrate", "ddl", "lock", "check", "apply", "unlock", "serve", "stopped"}

Goto(c, step) == pc' = [pc EXCEPT ![c] = step]

-----------------------------------------------------------------------------
(* wait_for_db.py                                                          *)

\* Mutant: one attempt more than there are retries.
LastAttemptPlusOne(n) == n > Retries

LastAttempt(n) == n = Retries

Connect(c) ==
    /\ pc[c] = "wait"
    /\ \/ reachable /\ Goto(c, "migrate") /\ UNCHANGED attempt
       \/ /\ ~reachable
          /\ attempt' = [attempt EXCEPT ![c] = @ + 1]
          /\ Goto(c, IF LastAttempt(attempt'[c]) THEN "stopped" ELSE "wait")
    /\ UNCHANGED <<reachable, migrated, times, marker, advisory, next, crashed>>

-----------------------------------------------------------------------------
(* alembic upgrade head: one transaction around all the migrations.        *)

ReadVersion(c) ==
    /\ pc[c] = "migrate"
    /\ Goto(c, IF migrated THEN "lock" ELSE "ddl")
    /\ UNCHANGED <<reachable, migrated, times, marker, advisory, attempt, next, crashed>>

\* Mutant: the connection is closed without a commit.
RunMigrationsRolledBack(c) ==
    /\ pc[c] = "ddl"
    /\ Goto(c, "lock")
    /\ UNCHANGED <<reachable, migrated, times, marker, advisory, attempt, next, crashed>>

\* Of two that saw the empty database, the second finds the tables there.
RunMigrations(c) ==
    /\ pc[c] = "ddl"
    /\ Goto(c, IF migrated THEN "stopped" ELSE "lock")
    /\ migrated' = TRUE
    /\ UNCHANGED <<reachable, times, marker, advisory, attempt, next, crashed>>

-----------------------------------------------------------------------------
(* seed_db.py                                                              *)

AcquireLock(c) ==
    /\ pc[c] = "lock" /\ advisory = Nil
    /\ advisory' = c
    /\ Goto(c, "check")
    /\ UNCHANGED <<reachable, migrated, times, marker, attempt, next, crashed>>

\* Mutant: the marker is set before the files are applied.
IsSeededMarking(c) ==
    /\ pc[c] = "check"
    /\ Goto(c, IF marker THEN "unlock" ELSE "apply")
    /\ next' = [next EXCEPT ![c] = 1]
    /\ marker' = TRUE
    /\ UNCHANGED <<reachable, migrated, times, advisory, attempt, crashed>>

IsSeeded(c) ==
    /\ pc[c] = "check"
    /\ Goto(c, IF marker THEN "unlock" ELSE "apply")
    /\ next' = [next EXCEPT ![c] = 1]
    /\ UNCHANGED <<reachable, migrated, times, marker, advisory, attempt, crashed>>

\* Each file is applied and committed by itself.  It needs its tables, and rows
\* that exist already fail a file that does not provide for them.
Appliable(i) == migrated /\ (times[i] = 0 \/ SeedFiles[i] \in Repeatable)

ApplyFile(c) ==
    LET i == next[c] IN
    /\ pc[c] = "apply" /\ i \in Files
    /\ \/ /\ Appliable(i)
          /\ times' = [times EXCEPT ![i] = IF @ < 2 THEN @ + 1 ELSE @]
          /\ next' = [next EXCEPT ![c] = i + 1]
          /\ UNCHANGED <<advisory, pc>>
       \/ /\ ~Appliable(i)
          /\ advisory' = Nil /\ Goto(c, "stopped")
          /\ UNCHANGED <<times, next>>
    /\ UNCHANGED <<reachable, migrated, marker, attempt, crashed>>

MarkSeeded(c) ==
    /\ pc[c] = "apply" /\ next[c] \notin Files
    /\ marker' = TRUE
    /\ Goto(c, "unlock")
    /\ UNCHANGED <<reachable, migrated, times, advisory, attempt, next, crashed>>

\* The finally branch; then the script starts uvicorn.
ReleaseLock(c) ==
    /\ pc[c] = "unlock"
    /\ advisory' = Nil
    /\ Goto(c, "serve")
    /\ UNCHANGED <<reachable, migrated, times, marker, attempt, next, crashed>>

-----------------------------------------------------------------------------
(* The environment.                                                        *)

DatabaseUp ==
    /\ ~reachable
    /\ reachable' = TRUE
    /\ UNCHANGED <<migrated, times, marker, advisory, attempt, next, pc, crashed>>

\* A container is killed at any point; PostgreSQL drops its session, and with it
\* an open transaction and the advisory lock.
Crash(c) ==
    /\ pc[c] # "stopped" /\ crashed < Crashes
    /\ crashed' = crashed + 1
    /\ advisory' = IF advisory = c THEN Nil ELSE advisory
    /\ Goto(c, "stopped")
    /\ UNCHANGED <<reachable, migrated, times, marker, attempt, next>>

Restart(c) ==
    /\ pc[c] = "stopped"
    /\ Goto(c, "wait")
    /\ attempt' = [attempt EXCEPT ![c] = 0]
    /\ UNCHANGED <<reachable, migrated, times, marker, advisory, next, crashed>>

-----------------------------------------------------------------------------
Init ==
    /\ reachable \in BOOLEAN
    /\ migrated = FALSE
    /\ times = [i \in Files |-> 0]
    /\ marker = FALSE
    /\ advisory = Nil
    /\ attempt = [c \in Containers |-> 0]
    /\ next = [c \in Containers |-> 1]
    /\ pc = [c \in Containers |-> "wait"]
    /\ crashed = 0

Start(c) ==
    \/ Connect(c) \/ ReadVersion(c) \/ RunMigrations(c)
    \/ AcquireLock(c) \/ IsSeeded(c) \/ ApplyFile(c) \/ MarkSeeded(c) \/ ReleaseLock(c)

\* Every container serves.
Idle == (\A c \in Containers : pc[c] = "serve") /\ UNCHANGED vars

Next ==
    \/ DatabaseUp
    \/ \E c \in Containers : Start(c) \/ Crash(c) \/ Restart(c)
    \/ Idle

Spec == Init /\ [][Next]_vars

\* PostgreSQL comes up, scripts run on, PostgreSQL grants the lock to each of
\* those that wait for it in turn, and an operator starts a stopped container again:
\* docker-compose.yml gives api no restart policy.
FairSpec ==
    /\ Spec
    /\ WF_vars(DatabaseUp)
    /\ \A c \in Containers : SF_vars(Start(c)) /\ WF_vars(Restart(c))

-----------------------------------------------------------------------------
TypeOK ==
    /\ reachable \in BOOLEAN /\ migrated \in BOOLEAN /\ marker \in BOOLEAN
    /\ times \in [Files -> 0 .. 2]
    /\ advisory \in Containers \cup {Nil}
    /\ attempt \in [Containers -> 0 .. Retries]
    /\ next \in [Containers -> 1 .. Len(SeedFiles) + 1]
    /\ pc \in [Containers -> Steps]
    /\ crashed \in 0 .. Crashes

\* A container that serves does so on a database with the schema and every seed
\* file, in whatever order containers start, stop and are killed.
ServesSeeded ==
    \A c \in Containers : pc[c] = "serve" =>
        migrated /\ marker /\ (\A i \in Files : times[i] > 0)

\* Once the marker is set no seed file runs again, so that a restart never
\* writes over what administrators have changed since (seed_db.py:85-87); and a
\* file runs only when those it depends on have run.
SeedsStayPut ==
    [][\A i \in Files : times'[i] # times[i] =>
          ~marker /\ (\A j \in 1 .. i - 1 : times[j] > 0)]_vars

\* A seed file that cannot be applied again has been, without the marker, and
\* nobody is seeding.
HalfSeeded ==
    /\ ~marker /\ advisory = Nil
    /\ \E i \in Files : times[i] > 0 /\ SeedFiles[i] \notin Repeatable

\* Every container that is started comes to serve, the losers of the race for
\* the migrations the second time, unless a crash has left the database half
\* seeded: there is no other way to get stuck.  In that state the plain INSERTs of
\* the first file fail for good (seed_db.py:98), although the seeding is to run "once
\* after migrations are applied" (seed_db.py:1).
ComesUp == \A c \in Containers : pc[c] = "wait" ~> (pc[c] = "serve" \/ HalfSeeded)
==============================================================================
