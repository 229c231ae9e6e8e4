--------------------------- MODULE BootstrapProofs ---------------------------
(***************************************************************************)
(* Proofs that no container serves an unseeded database and that no seed   *)
(* file is applied twice over, for any number of containers, any list of   *)
(* seed files, and crashes and restarts at any point.                      *)
(***************************************************************************)
EXTENDS Bootstrap, TLAPS

\* A container that waits for the database has attempts left.
Patient == \A c \in Containers : pc[c] = "wait" => attempt[c] < Retries

Typed == TypeOK /\ Patient

\* What a container knows at its step: the schema is there once the migrations
\* are over; who seeds holds the advisory lock; the files before next are in.
StageOk(c) ==
    /\ pc[c] \in {"lock", "check", "apply", "unlock", "serve"} => migrated
    /\ pc[c] \in {"check", "apply", "unlock"} => advisory = c
    /\ pc[c] = "apply" => ~marker /\ \A j \in Files : j < next[c] => times[j] > 0
    /\ pc[c] \in {"unlock", "serve"} => marker

\* The marker is in the database only with the schema and every seed file.
MarkerOk == marker => migrated /\ \A i \in Files : times[i] > 0

Staged == Typed /\ MarkerOk /\ \A c \in Containers : StageOk(c)

-----------------------------------------------------------------------------
LEMMA ConstantTypes ==
  /\ Len(SeedFiles) \in Nat /\ Retries \in Nat /\ Retries > 0 /\ Crashes \in Nat
  /\ Nil \notin Containers
  BY BootstrapAssumption DEF BootstrapAssumption

LEMMA InitTyped == Init => Typed
<1> SUFFICES ASSUME Init PROVE Typed
  OBVIOUS
<1> USE ConstantTypes DEF Init
<1>1. times \in [Files -> 0 .. 2] /\ crashed \in 0 .. Crashes
  OBVIOUS
<1>2. attempt \in [Containers -> 0 .. Retries] /\ Patient
  BY DEF Patient
<1>3. next \in [Containers -> 1 .. Len(SeedFiles) + 1] /\ pc \in [Containers -> Steps]
  BY DEF Steps
<1>. QED  BY <1>1, <1>2, <1>3 DEF Typed, TypeOK

\* A step of one container, variable by variable.
LEMMA StepTyped ==
  ASSUME Typed, NEW c \in Containers, Start(c) \/ Crash(c) \/ Restart(c)
  PROVE  Typed'
<1>1. CASE Connect(c)
  <2>1. pc' \in [Containers -> Steps]
    BY <1>1 DEF Connect, Goto, Typed, TypeOK, Steps
  <2>2. attempt' \in [Containers -> 0 .. Retries]
    <3>1. attempt \in [Containers -> 0 .. Retries] /\ attempt[c] < Retries
      BY <1>1 DEF Connect, Typed, TypeOK, Patient
    <3>. QED  BY <1>1, <3>1, ConstantTypes DEF Connect
  <2>3. Patient'
    BY <1>1, <2>2, ConstantTypes DEF Connect, LastAttempt, Goto, Typed, TypeOK, Patient
  <2>. QED  BY <1>1, <2>1, <2>2, <2>3 DEF Connect, Typed, TypeOK
<1>2. CASE ReadVersion(c) \/ RunMigrations(c) \/ AcquireLock(c) \/ ReleaseLock(c)
  <2>1. pc' \in [Containers -> Steps] /\ Patient' /\ UNCHANGED <<times, attempt, next, crashed>>
    BY <1>2 DEF ReadVersion, RunMigrations, AcquireLock, ReleaseLock, Goto, Typed, TypeOK, Steps, Patient
  <2>2. migrated' \in BOOLEAN /\ advisory' \in Containers \cup {Nil} /\ UNCHANGED <<reachable, marker>>
    BY <1>2 DEF ReadVersion, RunMigrations, AcquireLock, ReleaseLock, Typed, TypeOK
  <2>. QED  BY <2>1, <2>2 DEF Typed, TypeOK
<1>3. CASE IsSeeded(c) \/ MarkSeeded(c)
  <2>1. pc' \in [Containers -> Steps] /\ Patient' /\ UNCHANGED <<times, attempt, crashed>>
    BY <1>3 DEF IsSeeded, MarkSeeded, Goto, Typed, TypeOK, Steps, Patient
  <2>2. next' \in [Containers -> 1 .. Len(SeedFiles) + 1]
    <3>1. next \in [Containers -> 1 .. Len(SeedFiles) + 1]
      BY DEF Typed, TypeOK
    <3>. QED  BY <1>3, <3>1, ConstantTypes DEF IsSeeded, MarkSeeded
  <2>3. marker' \in BOOLEAN /\ UNCHANGED <<reachable, migrated, advisory>>
    BY <1>3 DEF IsSeeded, MarkSeeded, Typed, TypeOK
  <2>. QED  BY <2>1, <2>2, <2>3 DEF Typed, TypeOK
<1>4. CASE ApplyFile(c)
  <2>1. pc' \in [Containers -> Steps] /\ Patient' /\ advisory' \in Containers \cup {Nil}
    BY <1>4 DEF ApplyFile, Goto, Typed, TypeOK, Steps, Patient
  <2>2. next' \in [Containers -> 1 .. Len(SeedFiles) + 1]
    <3>1. next \in [Containers -> 1 .. Len(SeedFiles) + 1]
      BY DEF Typed, TypeOK
    <3>. QED  BY <1>4, <3>1, ConstantTypes DEF ApplyFile, Files
  <2>3. times' \in [Files -> 0 .. 2]
    <3>1. times \in [Files -> 0 .. 2]
      BY DEF Typed, TypeOK
    <3>. QED  BY <1>4, <3>1 DEF ApplyFile
  <2>. QED  BY <1>4, <2>1, <2>2, <2>3 DEF ApplyFile, Typed, TypeOK
<1>5. CASE Crash(c) \/ Restart(c)
  <2>1. pc' \in [Containers -> Steps] /\ advisory' \in Containers \cup {Nil}
    BY <1>5 DEF Crash, Restart, Goto, Typed, TypeOK, Steps
  <2>2. attempt' \in [Containers -> 0 .. Retries] /\ crashed' \in 0 .. Crashes
    <3>1. attempt \in [Containers -> 0 .. Retries] /\ crashed \in 0 .. Crashes
      BY DEF Typed, TypeOK
    <3>. QED  BY <1>5, <3>1, ConstantTypes DEF Crash, Restart
  <2>3. Patient'
    BY <1>5, <2>2, ConstantTypes DEF Crash, Restart, Goto, Typed, TypeOK, Patient
  <2>. QED  BY <1>5, <2>1, <2>2, <2>3 DEF Crash, Restart, Typed, TypeOK
<1>. QED  BY <1>1, <1>2, <1>3, <1>4, <1>5 DEF Start

LEMMA NextTyped == Typed /\ [Next]_vars => Typed'
<1> SUFFICES ASSUME Typed, [Next]_vars PROVE Typed'
  OBVIOUS
<1>1. CASE \E c \in Containers : Start(c) \/ Crash(c) \/ Restart(c)
  BY <1>1, StepTyped
<1>2. CASE DatabaseUp \/ Idle \/ UNCHANGED vars
  BY <1>2 DEF DatabaseUp, Idle, vars, Typed, TypeOK, Patient
<1>. QED  BY <1>1, <1>2 DEF Next

\* Every variable keeps its type; in particular no container tries more often
\* than wait_for_db.py allows.
THEOREM TypesHold == Spec => []TypeOK
<1>1. Typed => TypeOK
  BY DEF Typed
<1>. QED  BY <1>1, InitTyped, NextTyped, PTL DEF Spec

-----------------------------------------------------------------------------
LEMMA InitStaged == Init => Staged
  BY InitTyped DEF Init, Staged, MarkerOk, StageOk

\* What the step of one container leaves to another.
LEMMA OthersStaged ==
  ASSUME Staged, Typed', NEW c \in Containers, NEW d \in Containers, c # d,
         pc'[d] = pc[d], next'[d] = next[d],
         migrated => migrated', marker => marker',
         \A i \in Files : times'[i] >= times[i],
         advisory = d => advisory' = d /\ (~marker => ~marker')
  PROVE  StageOk(d)'
<1>1. \A i \in Files : times[i] \in Nat /\ times'[i] \in Nat
  <2>1. times \in [Files -> 0 .. 2] /\ times' \in [Files -> 0 .. 2]
    BY DEF Staged, Typed, TypeOK
  <2>. QED  BY <2>1
<1>. QED  BY <1>1 DEF Staged, StageOk

\* The migrations, which no lock guards.
LEMMA MigrateStaged ==
  ASSUME Staged, Typed', NEW c \in Containers,
         Connect(c) \/ ReadVersion(c) \/ RunMigrations(c) \/ Restart(c)
  PROVE  Staged'
<1> USE DEF Connect, ReadVersion, RunMigrations, Restart, Goto
<1>1. MarkerOk'
  BY DEF Staged, MarkerOk
<1>2. StageOk(c)'
  BY DEF Staged, StageOk, Typed, TypeOK
<1>3. ASSUME NEW d \in Containers, d # c PROVE StageOk(d)'
  <2>1. pc'[d] = pc[d]
    BY <1>3 DEF Staged, Typed, TypeOK
  <2>. QED  BY <1>3, <2>1 DEF Staged, StageOk
<1>. QED  BY <1>1, <1>2, <1>3 DEF Staged

\* The seeding, under the advisory lock.
LEMMA SeedStaged ==
  ASSUME Staged, Typed', NEW c \in Containers,
         AcquireLock(c) \/ IsSeeded(c) \/ ApplyFile(c) \/ MarkSeeded(c) \/ ReleaseLock(c)
  PROVE  Staged'
<1> USE ConstantTypes DEF AcquireLock, IsSeeded, ApplyFile, MarkSeeded, ReleaseLock, Goto
<1>1. /\ pc[c] \in {"check", "apply", "unlock"} => advisory = c
      /\ migrated' = migrated /\ migrated /\ (marker => marker')
  BY DEF Staged, StageOk
<1>2. \A i \in Files : times[i] \in 0 .. 2 /\ times'[i] \in 0 .. 2 /\ times'[i] >= times[i]
  <2>1. times \in [Files -> 0 .. 2] /\ times' \in [Files -> 0 .. 2]
    BY DEF Staged, Typed, TypeOK
  <2>. QED  BY <2>1
<1>3. next[c] \in 1 .. Len(SeedFiles) + 1
  BY DEF Staged, Typed, TypeOK
<1>4. MarkerOk'
  <2>1. CASE MarkSeeded(c)
    BY <1>1, <1>3, <2>1 DEF Staged, StageOk, MarkerOk, Files
  <2>2. CASE ~MarkSeeded(c)
    <3>1. marker' = marker
      BY <2>2
    <3>2. ASSUME marker, NEW i \in Files PROVE times'[i] > 0
      <4>1. times[i] > 0
        BY <3>2 DEF Staged, MarkerOk
      <4>. QED  BY <1>2, <4>1
    <3>. QED  BY <1>1, <3>1, <3>2 DEF MarkerOk
  <2>. QED  BY <2>1, <2>2
<1>5. StageOk(c)'
  <2>1. CASE AcquireLock(c) \/ IsSeeded(c)
    BY <1>1, <2>1 DEF Staged, StageOk, Typed, TypeOK, Files
  <2>2. CASE ApplyFile(c) /\ Appliable(next[c])
    <3>1. /\ ~marker /\ \A j \in Files : j < next[c] => times[j] > 0
          /\ next[c] \in Files /\ times'[next[c]] > 0 /\ next'[c] = next[c] + 1
      <4>1. times \in [Files -> 0 .. 2] /\ next \in [Containers -> 1 .. Len(SeedFiles) + 1]
        BY DEF Staged, Typed, TypeOK
      <4>2. ~marker /\ (\A j \in Files : j < next[c] => times[j] > 0) /\ next[c] \in Files
        BY <2>2 DEF Staged, StageOk
      <4>. QED  BY <2>2, <4>1, <4>2
    <3>2. \A j \in Files : j < next'[c] => times'[j] > 0
      BY <1>2, <1>3, <3>1 DEF Files
    <3>. QED  BY <1>1, <2>2, <3>1, <3>2 DEF Staged, StageOk
  <2>4. CASE ApplyFile(c) /\ ~Appliable(next[c])
    BY <2>4 DEF Staged, StageOk, Typed, TypeOK
  <2>3. CASE MarkSeeded(c) \/ ReleaseLock(c)
    BY <1>1, <2>3 DEF Staged, StageOk, Typed, TypeOK
  <2>. QED  BY <2>1, <2>2, <2>3, <2>4
<1>6. ASSUME NEW d \in Containers, d # c PROVE StageOk(d)'
  <2>1. pc'[d] = pc[d] /\ next'[d] = next[d]
    BY <1>6 DEF Staged, Typed, TypeOK
  <2>2. advisory # d \/ (advisory' = d /\ (~marker => ~marker'))
    BY <1>1, <1>6
  <2>. QED  BY <1>1, <1>2, <1>6, <2>1, <2>2, OthersStaged
<1>. QED  BY <1>4, <1>5, <1>6 DEF Staged

\* PostgreSQL comes up, or a container is killed and its lock is dropped.
LEMMA EnvironmentStaged ==
  ASSUME Staged, Typed', DatabaseUp \/ \E c \in Containers : Crash(c)
  PROVE  Staged'
<1>1. CASE DatabaseUp
  BY <1>1 DEF DatabaseUp, Staged, MarkerOk, StageOk
<1>2. ASSUME NEW c \in Containers, Crash(c) PROVE Staged'
  <2> USE <1>2 DEF Crash, Goto
  <2>1. MarkerOk' /\ StageOk(c)'
    BY DEF Staged, MarkerOk, StageOk, Typed, TypeOK
  <2>2. ASSUME NEW d \in Containers, d # c PROVE StageOk(d)'
    <3>1. pc'[d] = pc[d] /\ (advisory = d => advisory' = d)
      BY <2>2 DEF Staged, Typed, TypeOK
    <3>. QED  BY <2>2, <3>1 DEF Staged, StageOk
  <2>. QED  BY <2>1, <2>2 DEF Staged
<1>. QED  BY <1>1, <1>2

LEMMA NextStaged == Staged /\ [Next]_vars => Staged'
<1> SUFFICES ASSUME Staged, [Next]_vars PROVE Staged'
  OBVIOUS
<1>1. Typed'
  BY NextTyped DEF Staged
<1>2. CASE \E c \in Containers : Start(c) \/ Restart(c)
  BY <1>1, <1>2, MigrateStaged, SeedStaged DEF Start
<1>3. CASE DatabaseUp \/ \E c \in Containers : Crash(c)
  BY <1>1, <1>3, EnvironmentStaged
<1>4. CASE Idle \/ UNCHANGED vars
  BY <1>1, <1>4 DEF Idle, vars, Staged, MarkerOk, StageOk
<1>. QED  BY <1>2, <1>3, <1>4 DEF Next

\* The inductive invariant: what each container relies on at its step is so.
THEOREM AlwaysStaged == Spec => []Staged
  BY InitStaged, NextStaged, PTL DEF Spec

\* Whoever serves has the schema and every seed file (docker-start.sh, seed_db.py):
\* a container that starts beside others, or after one that was killed, never
\* serves a database that is half seeded.
THEOREM ServesOnlySeeded == Spec => []ServesSeeded
<1>1. Staged => ServesSeeded
  BY DEF Staged, MarkerOk, StageOk, ServesSeeded
<1>. QED  BY <1>1, AlwaysStaged, PTL

\* A seed file is applied while the marker is unset and after those before it
\* (seed_db.py:85-103): the advisory lock keeps the marker from being set by
\* another container between the test and the last file.
THEOREM SeedsApplyInOrder == Spec => SeedsStayPut
<1>. DEFINE Put == \A i \in Files : times'[i] # times[i] =>
                     ~marker /\ (\A j \in 1 .. i - 1 : times[j] > 0)
<1>1. Staged /\ [Next]_vars => [Put]_vars
  <2> SUFFICES ASSUME Staged, Next, NEW i \in Files, times'[i] # times[i]
               PROVE  ~marker /\ \A j \in 1 .. i - 1 : times[j] > 0
    OBVIOUS
  <2>1. PICK c \in Containers : ApplyFile(c)
    BY DEF Next, DatabaseUp, Start, Connect, ReadVersion, RunMigrations, AcquireLock, IsSeeded,
           MarkSeeded, ReleaseLock, Crash, Restart, Idle, vars
  <2>2. i = next[c] /\ pc[c] = "apply"
    BY <2>1 DEF ApplyFile, Staged, Typed, TypeOK
  <2>3. \A j \in 1 .. i - 1 : j \in Files /\ j < i
    BY ConstantTypes DEF Files
  <2>. QED  BY <2>2, <2>3 DEF Staged, StageOk
<1>2. Spec => [][Put]_vars
  BY <1>1, AlwaysStaged, PTL DEF Spec
<1>. QED  BY <1>2 DEF SeedsStayPut
=============================================================================
