-------------------------- MODULE WebSocketHubProofs --------------------------
(***************************************************************************)
(* Proofs that a broadcast reaches every client that lives through it, and *)
(* that what a writer of a book's row tells is newer than all that a       *)
(* client has heard of the book, for any number of clients and broadcasts. *)
(***************************************************************************)
EXTENDS WebSocketHub, FiniteSetTheorems, TLAPS

-----------------------------------------------------------------------------
(* The inductive invariants.                                               *)

Typed ==
    /\ TypeOK
    /\ todo \in [Broadcasts -> Seq(Clients)]
    /\ \A e \in Broadcasts : phase[e] \in {"sent", "done"} => todo[e] = << >>

\* Whoever was there when a broadcast took its list and lives is connected, and
\* has been told or is still on the list; only the dead are to be pruned.
Reaches(e) ==
    /\ \A w \in stale[e] : peer[w] = "dead"
    /\ phase[e] \in {"sending", "sent"} =>
          \A w \in audience[e] : peer[w] # "dead" =>
              w \in connections /\ (e \in told[w] \/ w \in ToSet(todo[e]))

\* What e tells, if it has the row of its book locked, is the last version written,
\* not committed yet, and nobody else tells it or a later one.
Newest(e) ==
    /\ tells[e] = latest[Book[e]] /\ committed[Book[e]] < tells[e]
    /\ \A f \in Broadcasts \ {e} :
          Book[f] = Book[e] /\ phase[f] # "new" => tells[f] < tells[e]

Active(e) == phase[e] \in {"ready", "sending", "sent"}

Ordered ==
    /\ \A b \in Books : committed[b] <= latest[b]
    /\ \A e \in Broadcasts : phase[e] # "new" => tells[e] <= latest[Book[e]]
    /\ \A e \in Writers : Active(e) => Newest(e)
    /\ \A e \in Broadcasts, w \in Clients : e \in told[w] => phase[e] \notin {"new", "ready"}

Reaching == \A e \in Broadcasts : Reaches(e)

-----------------------------------------------------------------------------
(* Lists of clients.                                                       *)

\* The list of a set holds each of its elements.
LEMMA ListsCover ==
  ASSUME NEW S \in SUBSET Clients, NEW list \in SetToSeqs(S)
  PROVE  list \in Seq(S) /\ ToSet(list) = S
<1>. DEFINE D == 1..Cardinality(S)
            T == {list[i] : i \in D}
<1>1. IsFiniteSet(S) /\ Cardinality(S) \in Nat
  BY HubAssumption, FS_Subset, FS_CardinalityType DEF HubAssumption
<1>2. list \in [D -> S] /\ \A i, j \in D : i # j => list[i] # list[j]
  BY DEF SetToSeqs
<1>3. list \in Seq(S) /\ DOMAIN list = D
  BY <1>1, <1>2
<1>4. IsFiniteSet(D) /\ Cardinality(D) = Cardinality(S)
  BY <1>1, FS_Interval
<1>5. [i \in D |-> list[i]] \in Bijection(D, T)
  BY <1>2 DEF Bijection, Injection, Surjection, IsInjective
<1>6. Cardinality(T) = Cardinality(S)
  BY <1>4, <1>5, FS_Bijection DEF ExistsBijection
<1>7. T = S
  BY <1>1, <1>2, <1>6, FS_Subset
<1>. QED  BY <1>3, <1>7 DEF ToSet

\* Whoever is on a list is its head or on its tail.
LEMMA HeadOrTail ==
  ASSUME NEW list \in Seq(Clients), list # << >>
  PROVE  /\ Head(list) \in Clients /\ Tail(list) \in Seq(Clients)
         /\ ToSet(list) = {Head(list)} \cup ToSet(Tail(list))
<1>1. /\ Len(list) \in Nat \ {0} /\ Head(list) = list[1] /\ DOMAIN list = 1..Len(list)
      /\ Head(list) \in Clients /\ Tail(list) \in Seq(Clients)
      /\ Len(Tail(list)) = Len(list) - 1 /\ DOMAIN Tail(list) = 1..Len(Tail(list))
      /\ \A i \in 1..Len(Tail(list)) : Tail(list)[i] = list[i + 1]
  OBVIOUS
<1>2. ASSUME NEW i \in DOMAIN list, i # 1 PROVE \E j \in DOMAIN Tail(list) : Tail(list)[j] = list[i]
  <2>1. i - 1 \in DOMAIN Tail(list) /\ (i - 1) + 1 = i
    BY <1>1, <1>2
  <2>. QED  BY <1>1, <2>1
<1>3. \A i \in DOMAIN Tail(list) : i + 1 \in DOMAIN list
  BY <1>1
<1>4. 1 \in DOMAIN list
  BY <1>1
<1>5. ToSet(list) \subseteq {Head(list)} \cup ToSet(Tail(list))
  BY <1>1, <1>2 DEF ToSet
<1>6. {Head(list)} \cup ToSet(Tail(list)) \subseteq ToSet(list)
  BY <1>1, <1>3, <1>4 DEF ToSet
<1>. QED  BY <1>1, <1>5, <1>6

\* Only clients are on a list of clients.
LEMMA ListsOfClients ==
  ASSUME NEW list \in Seq(Clients)
  PROVE  ToSet(list) \subseteq Clients
BY DEF ToSet

-----------------------------------------------------------------------------
(* Types.                                                                  *)

LEMMA InitTyped == Init => Typed
<1>1. ToSet(<< >>) = {} /\ << >> \in Seq(Clients)
  BY DEF ToSet
<1>. QED  BY <1>1 DEF Init, Typed, TypeOK

LEMMA ClientTyped ==
  ASSUME Typed, NEW w \in Clients,
         \/ Connect(w) \/ Greet(w) \/ HangUp(w)
         \/ Stall(w) \/ Resume(w) \/ Close(w) \/ PingTimeout(w)
  PROVE  Typed'
BY DEF Typed, TypeOK, Connect, Greet, HangUp, Leave, Stall, Resume, Close, PingTimeout, Peer, rows, loops

LEMMA RequestTyped ==
  ASSUME Typed, NEW e \in Broadcasts, Write(e) \/ Read(e) \/ Commit(e) \/ Rollback(e)
  PROVE  Typed'
<1>1. Book[e] \in Books
  BY HubAssumption DEF Books
<1>2. /\ latest' \in [Books -> Nat] /\ committed' \in [Books -> Nat] /\ tells' \in [Broadcasts -> Nat]
      /\ phase' \in [Broadcasts -> {"new", "ready", "sending", "sent", "done"}]
      /\ audience' \in [Broadcasts -> SUBSET Clients]
  <2>1. /\ latest \in [Books -> Nat] /\ committed \in [Books -> Nat] /\ tells \in [Broadcasts -> Nat]
        /\ phase \in [Broadcasts -> {"new", "ready", "sending", "sent", "done"}]
        /\ audience \in [Broadcasts -> SUBSET Clients]
    BY DEF Typed, TypeOK
  <2>2. CASE Write(e)
    BY <1>1, <2>1, <2>2 DEF Write, Goto
  <2>3. CASE Read(e)
    BY <1>1, <2>1, <2>3 DEF Read, Goto
  <2>4. CASE Commit(e)
    BY <1>1, <2>1, <2>4 DEF Commit, Goto
  <2>5. CASE Rollback(e)
    BY <1>1, <2>1, <2>5 DEF Rollback, Goto, rows
  <2>. QED  BY <2>2, <2>3, <2>4, <2>5
<1>3. UNCHANGED <<connections, handler, peer, todo, stale, told>>
  BY DEF Write, Read, Commit, Rollback, clients
<1>4. \A f \in Broadcasts : phase'[f] \in {"sent", "done"} => phase[f] \in {"sent", "done"}
  BY DEF Typed, TypeOK, Write, Read, Commit, Rollback, Goto
<1>. QED  BY <1>2, <1>3, <1>4 DEF Typed, TypeOK

LEMMA BroadcastTyped ==
  ASSUME Typed, NEW e \in Broadcasts, Begin(e) \/ Send(e) \/ Prune(e)
  PROVE  Typed'
<1>0. ASSUME TypeOK', todo' \in [Broadcasts -> Seq(Clients)],
             \A f \in Broadcasts : phase'[f] \in {"sent", "done"} => todo'[f] = << >>
      PROVE  Typed'
  BY <1>0 DEF Typed
<1>1. CASE Begin(e)
  <2>1. PICK list \in SetToSeqs(connections) : todo' = [todo EXCEPT ![e] = list]
    BY <1>1 DEF Begin
  <2>2. list \in Seq(Clients) /\ ToSet(list) \subseteq Clients
    <3>1. connections \in SUBSET Clients
      BY DEF Typed, TypeOK
    <3>2. list \in Seq(connections) /\ ToSet(list) = connections
      BY <2>1, <3>1, ListsCover
    <3>. QED  BY <3>1, <3>2
  <2>3. todo' \in [Broadcasts -> Seq(Clients)] /\ \A f \in Broadcasts \ {e} : todo'[f] = todo[f]
    BY <2>1, <2>2 DEF Typed
  <2>4. TypeOK'
    BY <1>1, <2>3, ListsOfClients DEF Begin, Goto, Typed, TypeOK, clients, rows
  <2>. QED  BY <1>0, <1>1, <2>3, <2>4 DEF Begin, Goto, Typed, TypeOK
<1>2. CASE Send(e)
  <2>1. Head(todo[e]) \in Clients /\ Tail(todo[e]) \in Seq(Clients)
    BY <1>2, HeadOrTail DEF Send, Typed
  <2>2. todo' \in [Broadcasts -> Seq(Clients)] /\ \A f \in Broadcasts \ {e} : todo'[f] = todo[f]
    BY <1>2, <2>1 DEF Send, AfterSend, Typed
  <2>3. stale' \in [Broadcasts -> SUBSET Clients] /\ told' \in [Clients -> SUBSET Broadcasts]
    <3>1. stale \in [Broadcasts -> SUBSET Clients] /\ told \in [Clients -> SUBSET Broadcasts]
      BY DEF Typed, TypeOK
    <3>2. \/ told' = [told EXCEPT ![Head(todo[e])] = @ \cup {e}] /\ stale' = stale
          \/ stale' = [stale EXCEPT ![e] = @ \cup {Head(todo[e])}] /\ told' = told
      BY <1>2 DEF Send
    <3>3. told' \in [Clients -> SUBSET Broadcasts]
      BY <2>1, <3>1, <3>2
    <3>4. stale' \in [Broadcasts -> SUBSET Clients]
      BY <2>1, <3>1, <3>2
    <3>. QED  BY <3>3, <3>4
  <2>4. TypeOK'
    BY <1>2, <2>2, <2>3, ListsOfClients DEF Send, Typed, TypeOK, clients, rows
  <2>. QED  BY <1>0, <1>2, <2>2, <2>4 DEF Send, Typed, TypeOK
<1>3. CASE Prune(e)
  <2>1. TypeOK'
    BY <1>3 DEF Prune, Goto, Ended, Typed, TypeOK, clients, rows
  <2>. QED  BY <1>0, <1>3, <2>1 DEF Prune, Goto, Ended, Typed, TypeOK
<1>. QED  BY <1>1, <1>2, <1>3

LEMMA NextTyped == Typed /\ [Next]_vars => Typed'
<1>1. CASE Idle \/ UNCHANGED vars
  BY <1>1 DEF Idle, vars, clients, rows, loops, Typed, TypeOK
<1>. QED  BY <1>1, ClientTyped, RequestTyped, BroadcastTyped DEF Next

\* Every variable keeps its type; a list holds clients only.
THEOREM TypesHold == Spec => []TypeOK
<1>1. Typed => TypeOK
  BY DEF Typed
<1>. QED  BY <1>1, InitTyped, NextTyped, PTL DEF Spec

-----------------------------------------------------------------------------
(* Broadcasts reach the living.                                            *)

LEMMA InitReaching == Init => Reaching
BY DEF Init, Reaching, Reaches

\* The dead stay dead, and only they leave.
LEMMA ClientReaching ==
  ASSUME Typed, Reaching, NEW w \in Clients,
         \/ Connect(w) \/ Greet(w) \/ HangUp(w)
         \/ Stall(w) \/ Resume(w) \/ Close(w) \/ PingTimeout(w)
  PROVE  Reaching'
<1>1. /\ UNCHANGED <<phase, todo, stale, audience>>
      /\ \A x \in Clients : told'[x] = told[x] \/ peer'[x] = "dead"
      /\ \A x \in Clients : peer[x] = "dead" => peer'[x] = "dead"
      /\ \A x \in connections : x \in connections' \/ peer'[x] = "dead"
  BY DEF Connect, Greet, HangUp, Leave, Stall, Resume, Close, PingTimeout, Peer, loops, Typed, TypeOK
<1>2. \A e \in Broadcasts : audience[e] \subseteq Clients /\ stale[e] \subseteq Clients
  BY DEF Typed, TypeOK
<1>. QED  BY <1>1, <1>2 DEF Reaching, Reaches

LEMMA RequestReaching ==
  ASSUME Typed, Reaching, NEW e \in Broadcasts, Write(e) \/ Read(e) \/ Commit(e) \/ Rollback(e)
  PROVE  Reaching'
<1>1. /\ UNCHANGED <<connections, peer, todo, stale, told>>
      /\ \A f \in Broadcasts : phase'[f] \in {"sending", "sent"} =>
            phase[f] = phase'[f] /\ audience'[f] = audience[f]
  BY DEF Typed, TypeOK, Write, Read, Commit, Rollback, Goto, clients
<1>. QED  BY <1>1 DEF Reaching, Reaches

LEMMA BroadcastReaching ==
  ASSUME Typed, Reaching, NEW e \in Broadcasts, Begin(e) \/ Send(e) \/ Prune(e)
  PROVE  Reaching'
<1>. SUFFICES ASSUME NEW f \in Broadcasts PROVE Reaches(f)'
  BY DEF Reaching
<1>0. Reaches(f) /\ audience[f] \subseteq Clients /\ stale[f] \subseteq Clients /\ peer' = peer
  BY DEF Reaching, Typed, TypeOK, Begin, Send, Prune, clients
<1>1. CASE Begin(e)
  <2>1. PICK list \in SetToSeqs(connections) : todo' = [todo EXCEPT ![e] = list]
    BY <1>1 DEF Begin
  <2>2. connections \in SUBSET Clients
    BY DEF Typed, TypeOK
  <2>3. ToSet(list) = connections
    BY <2>1, <2>2, ListsCover
  <2>4. stale' = stale /\ told' = told /\ connections' = connections
    BY <1>1 DEF Begin
  <2>5. CASE f = e
    <3>1. audience'[e] = connections /\ todo'[e] = list
      BY <1>1, <2>1 DEF Begin, Goto, Typed, TypeOK
    <3>. QED  BY <1>0, <2>3, <2>4, <2>5, <3>1 DEF Reaches
  <2>6. CASE f # e
    <3>1. audience'[f] = audience[f] /\ todo'[f] = todo[f] /\ phase'[f] = phase[f]
      BY <1>1, <2>1, <2>6 DEF Begin, Goto, Typed, TypeOK
    <3>. QED  BY <1>0, <2>4, <3>1 DEF Reaches
  <2>. QED  BY <2>5, <2>6
<1>2. CASE Send(e)
  <2> DEFINE w == Head(todo[e])
  <2>1. /\ connections' = connections /\ phase' = phase /\ audience' = audience
        /\ phase[e] = "sending" /\ todo[e] # << >>
        /\ todo'[e] = Tail(todo[e])
        /\ f # e => todo'[f] = todo[f]
    BY <1>2 DEF Send, AfterSend, Typed
  <2>2. w \in Clients /\ ToSet(todo[e]) = {w} \cup ToSet(Tail(todo[e]))
    BY <2>1, HeadOrTail DEF Typed
  <2>3. \/ /\ peer[w] = "open" /\ e \in told'[w] /\ stale' = stale
           /\ \A x \in Clients : told[x] \subseteq told'[x]
        \/ /\ peer[w] = "dead" /\ told' = told
           /\ \A g \in Broadcasts : stale'[g] = IF g = e THEN stale[g] \cup {w} ELSE stale[g]
    <3>1. /\ told \in [Clients -> SUBSET Broadcasts]
          /\ stale \in [Broadcasts -> SUBSET Clients]
      BY DEF Typed, TypeOK
    <3>2. CASE peer[w] = "open" /\ told' = [told EXCEPT ![w] = @ \cup {e}] /\ stale' = stale
      BY <2>2, <3>1, <3>2
    <3>3. CASE peer[w] = "dead" /\ stale' = [stale EXCEPT ![e] = @ \cup {w}] /\ told' = told
      BY <3>1, <3>3
    <3>. QED  BY <1>2, <3>2, <3>3 DEF Send
  <2>4. \A x \in stale'[f] : peer[x] = "dead"
    BY <1>0, <2>3 DEF Reaches
  <2>5. ASSUME phase[f] \in {"sending", "sent"}, NEW x \in audience[f], peer[x] # "dead"
        PROVE  x \in connections /\ (f \in told'[x] \/ x \in ToSet(todo'[f]))
    <3>1. x \in connections /\ (f \in told[x] \/ x \in ToSet(todo[f]))
      BY <1>0, <2>5 DEF Reaches
    <3>2. f \in told[x] => f \in told'[x]
      BY <1>0, <2>3
    <3>3. x \in ToSet(todo[f]) => f \in told'[x] \/ x \in ToSet(todo'[f])
      BY <2>1, <2>2, <2>3, <2>5
    <3>. QED  BY <3>1, <3>2, <3>3
  <2>. QED  BY <1>0, <2>1, <2>4, <2>5 DEF Reaches
<1>3. CASE Prune(e)
  <2>1. /\ connections' = connections \ stale[e] /\ todo' = todo /\ stale'[f] \subseteq stale[f]
        /\ told' = told /\ audience' = audience /\ (f # e => phase'[f] = phase[f])
        /\ phase[e] = "sending"
    BY <1>3 DEF Prune, Goto, Typed, TypeOK
  <2>2. \A x \in stale[e] : peer[x] = "dead"
    BY DEF Reaching, Reaches
  <2>. QED  BY <1>0, <2>1, <2>2 DEF Reaches
<1>. QED  BY <1>1, <1>2, <1>3

LEMMA NextReaching == Typed /\ Reaching /\ [Next]_vars => Reaching'
<1>1. CASE Idle \/ UNCHANGED vars
  BY <1>1 DEF Idle, vars, clients, rows, loops, Reaching, Reaches
<1>. QED  BY <1>1, ClientReaching, RequestReaching, BroadcastReaching DEF Next

\* When a broadcast returns, every client that was connected when it began and
\* lives has been sent it and stays connected, whatever became of the others
\* meanwhile (realtime.py:29-39).
THEOREM BroadcastsReachTheLiving == Spec => []ReachesTheLiving
<1>1. Typed /\ Reaching => ReachesTheLiving
  <2>1. ToSet(<< >>) = {}
    BY DEF ToSet
  <2>. QED  BY <2>1 DEF Typed, Reaching, Reaches, ReachesTheLiving
<1>2. Init => Typed /\ Reaching
  BY InitTyped, InitReaching
<1>3. Typed /\ Reaching /\ [Next]_vars => (Typed /\ Reaching)'
  BY NextTyped, NextReaching
<1>. QED  BY <1>1, <1>2, <1>3, PTL DEF Spec

-----------------------------------------------------------------------------
(* Events in order.                                                        *)

LEMMA InitOrdered == Init => Ordered
BY HubAssumption DEF Init, Ordered, Active, Books, Writers

\* Steps that leave the versions alone: what has been told grows only by a
\* broadcast that is being sent.
LEMMA VersionsSame ==
  ASSUME Typed, Ordered, UNCHANGED rows,
         \A f \in Broadcasts : /\ phase[f] = "new" <=> phase'[f] = "new"
                               /\ Active(f)' => Active(f)
                               /\ phase'[f] = "ready" => phase[f] = "ready",
         \A w \in Clients, f \in Broadcasts :
            f \in told'[w] => f \in told[w] \/ phase'[f] = "sending"
  PROVE  Ordered'
<1>1. latest' = latest /\ committed' = committed /\ tells' = tells
  BY DEF rows
<1>2. (\A e \in Writers : Active(e) => Newest(e))'
  BY <1>1 DEF Ordered, Newest, Writers
<1>. QED  BY <1>1, <1>2 DEF Ordered

\* Whoever writes the row writes the newest version: nobody else has it locked.
LEMMA WriteOrdered ==
  ASSUME Typed, Ordered, NEW e \in Broadcasts, Write(e)
  PROVE  Ordered'
<1>. DEFINE b == Book[e]
<1>0. b \in Books /\ \A f \in Broadcasts : Book[f] \in Books
  BY HubAssumption DEF Books
<1>1. /\ \A f \in Broadcasts : /\ phase'[f] = IF f = e THEN "ready" ELSE phase[f]
                               /\ tells'[f] = IF f = e THEN latest[b] + 1 ELSE tells[f]
      /\ \A c \in Books : latest'[c] = IF c = b THEN latest[b] + 1 ELSE latest[c]
      /\ committed' = committed /\ told' = told
      /\ e \in Writers /\ phase[e] = "new" /\ RowFree(e)
  BY <1>0 DEF Write, Goto, Typed, TypeOK
<1>2. /\ \A c \in Books : latest[c] \in Nat /\ committed[c] \in Nat
      /\ \A f \in Broadcasts : tells[f] \in Nat
  BY DEF Typed, TypeOK
<1>3. \A f \in Broadcasts : phase[f] # "new" => tells[f] <= latest[Book[f]]
  BY DEF Ordered
<1>4. \A c \in Books : committed[c] <= latest[c]
  BY DEF Ordered
<1>5. Newest(e)'
  <2>1. tells'[e] = latest'[b] /\ committed'[b] < tells'[e]
    BY <1>0, <1>1, <1>2, <1>4
  <2>2. ASSUME NEW f \in Broadcasts \ {e}, Book[f] = Book[e], phase'[f] # "new"
        PROVE  tells'[f] < tells'[e]
    <3>1. tells[f] <= latest[b] /\ tells'[f] = tells[f] /\ tells'[e] = latest[b] + 1
      BY <1>1, <1>3, <2>2
    <3>. QED  BY <1>0, <1>2, <3>1
  <2>. QED  BY <2>1, <2>2 DEF Newest
<1>6. ASSUME NEW g \in Writers, g # e, Active(g)' PROVE Newest(g)'
  <2>1. Active(g) /\ Newest(g) /\ g \in Broadcasts
    BY <1>1, <1>6 DEF Ordered, Active, Writers
  <2>2. Book[g] # b
    BY <1>1, <1>6, <2>1 DEF RowFree, Active
  <2>. QED  BY <1>0, <1>1, <2>1, <2>2 DEF Newest
<1>7. (\A c \in Books : committed[c] <= latest[c])'
  BY <1>0, <1>1, <1>2, <1>4
<1>8. ASSUME NEW f \in Broadcasts, phase'[f] # "new" PROVE tells'[f] <= latest'[Book[f]]
  <2>1. CASE f = e
    BY <1>0, <1>1, <1>2, <2>1
  <2>2. CASE f # e
    <3>1. tells[f] <= latest[Book[f]] /\ tells'[f] = tells[f] /\ latest[Book[f]] <= latest'[Book[f]]
      BY <1>0, <1>1, <1>2, <1>3, <1>8, <2>2
    <3>. QED  BY <1>0, <1>1, <1>2, <3>1
  <2>. QED  BY <2>1, <2>2
<1>9. (\A f \in Broadcasts, w \in Clients : f \in told[w] => phase[f] \notin {"new", "ready"})'
  BY <1>1 DEF Ordered
<1>. QED  BY <1>5, <1>6, <1>7, <1>8, <1>9 DEF Ordered

\* Whoever reads the row reads an older version than the one that its writer tells.
LEMMA ReadOrdered ==
  ASSUME Typed, Ordered, NEW e \in Broadcasts, Read(e)
  PROVE  Ordered'
<1>0. Book[e] \in Books /\ e \notin Writers
  BY HubAssumption DEF Books, Read, Writers
<1>1. /\ \A f \in Broadcasts : /\ phase'[f] = IF f = e THEN "ready" ELSE phase[f]
                               /\ tells'[f] = IF f = e THEN committed[Book[e]] ELSE tells[f]
      /\ latest' = latest /\ committed' = committed /\ told' = told /\ phase[e] = "new"
  BY DEF Read, Goto, Typed, TypeOK
<1>2. ASSUME NEW g \in Writers, Active(g)' PROVE Newest(g)'
  <2>1. g # e /\ Active(g) /\ Newest(g) /\ g \in Broadcasts
    BY <1>0, <1>1, <1>2 DEF Ordered, Active, Writers
  <2>. QED  BY <1>1, <2>1 DEF Newest
<1>3. \A f \in Broadcasts : phase'[f] # "new" => tells'[f] <= latest'[Book[f]]
  BY <1>0, <1>1 DEF Ordered
<1>4. (\A f \in Broadcasts, w \in Clients : f \in told[w] => phase[f] \notin {"new", "ready"})'
  BY <1>1 DEF Ordered
<1>. QED  BY <1>1, <1>2, <1>3, <1>4 DEF Ordered

\* What is committed is the last version written, and no other writer has the row.
LEMMA CommitOrdered ==
  ASSUME Typed, Ordered, NEW e \in Broadcasts, Commit(e)
  PROVE  Ordered'
<1>. DEFINE b == Book[e]
<1>0. b \in Books /\ \A f \in Broadcasts : Book[f] \in Books
  BY HubAssumption DEF Books
<1>1. /\ \A f \in Broadcasts : phase'[f] = IF f = e THEN "done" ELSE phase[f]
      /\ tells' = tells /\ latest' = latest /\ told' = told /\ phase[e] = "sent"
      /\ \A c \in Books : committed'[c] = IF e \in Writers /\ c = b THEN tells[e] ELSE committed[c]
  BY <1>0 DEF Commit, Goto, Typed, TypeOK
<1>2. /\ \A c \in Books : latest[c] \in Nat /\ committed[c] \in Nat
      /\ \A f \in Broadcasts : tells[f] \in Nat
  BY DEF Typed, TypeOK
<1>3. e \in Writers => Newest(e)
  BY <1>1 DEF Ordered, Active
<1>4. ASSUME NEW c \in Books PROVE committed'[c] <= latest'[c]
  <2>1. committed[c] <= latest[c] /\ (e \in Writers => tells[e] = latest[b])
    BY <1>3 DEF Ordered, Newest
  <2>. QED  BY <1>1, <1>2, <2>1
<1>5. ASSUME NEW g \in Writers, Active(g)' PROVE Newest(g)'
  <2>1. g # e /\ Active(g) /\ Newest(g) /\ g \in Broadcasts /\ phase[g] # "new"
    BY <1>1, <1>5 DEF Ordered, Active, Writers
  <2>2. ASSUME e \in Writers PROVE Book[g] # b
    <3>1. Book[g] = b => tells[g] < tells[e] /\ tells[e] < tells[g]
      BY <1>1, <1>3, <2>1, <2>2 DEF Newest
    <3>. QED  BY <1>2, <2>1, <3>1
  <2>3. committed'[Book[g]] = committed[Book[g]]
    BY <1>0, <1>1, <2>1, <2>2
  <2>. QED  BY <1>1, <2>1, <2>3 DEF Newest
<1>6. \A f \in Broadcasts : phase'[f] # "new" => tells'[f] <= latest'[Book[f]]
  BY <1>1 DEF Ordered
<1>7. (\A f \in Broadcasts, w \in Clients : f \in told[w] => phase[f] \notin {"new", "ready"})'
  BY <1>1 DEF Ordered
<1>. QED  BY <1>4, <1>5, <1>6, <1>7 DEF Ordered

\* Only a broadcast that is being sent is heard by anybody new.
LEMMA OnlySendingTells ==
  ASSUME Typed, Next, NEW w \in Clients, NEW e \in told'[w] \ told[w]
  PROVE  Send(e)
<1>0. told \in [Clients -> SUBSET Broadcasts] /\ told' # told
  BY DEF Typed, TypeOK
<1>1. PICK g \in Broadcasts : Send(g)
  <2>1. ASSUME NEW v \in Clients,
               \/ Connect(v) \/ Greet(v) \/ HangUp(v)
               \/ Stall(v) \/ Resume(v) \/ Close(v) \/ PingTimeout(v)
        PROVE  FALSE
    <3>1. told' = told \/ told' = [told EXCEPT ![v] = {}]
      BY <2>1 DEF Connect, Greet, HangUp, Stall, Resume, Close, PingTimeout, Peer, loops
    <3>. QED  BY <1>0, <3>1
  <2>2. ASSUME NEW g \in Broadcasts,
               \/ Write(g) \/ Read(g) \/ Commit(g) \/ Rollback(g) \/ Begin(g) \/ Prune(g)
        PROVE  FALSE
    BY <1>0, <2>2 DEF Write, Read, Commit, Rollback, Begin, Prune
  <2>3. ~Idle
    BY <1>0 DEF Idle, vars, loops
  <2>. QED  BY <2>1, <2>2, <2>3 DEF Next
<1>2. told'[w] \subseteq told[w] \cup {g}
  BY <1>0, <1>1 DEF Send
<1>. QED  BY <1>1, <1>2

LEMMA NextOrdered == Typed /\ Ordered /\ [Next]_vars => Ordered'
<1>. SUFFICES ASSUME Typed, Ordered, [Next]_vars PROVE Ordered'
  OBVIOUS
<1>1. CASE Idle \/ UNCHANGED vars
  BY <1>1, VersionsSame DEF Idle, vars, rows, loops, Active
<1>2. ASSUME NEW w \in Clients,
             \/ Connect(w) \/ Greet(w) \/ HangUp(w)
             \/ Stall(w) \/ Resume(w) \/ Close(w) \/ PingTimeout(w)
      PROVE  Ordered'
  <2>1. UNCHANGED <<rows, phase>> /\ \A x \in Clients : told'[x] \subseteq told[x]
    BY <1>2 DEF Connect, Greet, HangUp, Stall, Resume, Close, PingTimeout, Peer, rows, loops, Typed, TypeOK
  <2>. QED  BY <2>1, VersionsSame DEF Active
<1>3. ASSUME NEW e \in Broadcasts, Begin(e) \/ Prune(e) \/ Rollback(e) PROVE Ordered'
  <2>1. /\ UNCHANGED <<rows, told>>
        /\ \A f \in Broadcasts \ {e} : phase'[f] = phase[f]
        /\ phase[e] \in {"ready", "sending", "sent"} /\ phase'[e] \in {"sending", "sent", "done"}
    BY <1>3 DEF Begin, Prune, Rollback, Goto, Ended, Typed, TypeOK
  <2>. QED  BY <2>1, VersionsSame DEF Active
<1>4. ASSUME NEW e \in Broadcasts, Send(e) PROVE Ordered'
  <2>1. UNCHANGED <<rows, phase>> /\ phase[e] = "sending"
    BY <1>4 DEF Send
  <2>2. \A w \in Clients : told'[w] \subseteq told[w] \cup {e}
    BY <1>4 DEF Send, Typed, TypeOK
  <2>. QED  BY <2>1, <2>2, VersionsSame DEF Active
<1>. QED  BY <1>1, <1>2, <1>3, <1>4, WriteOrdered, ReadOrdered, CommitOrdered DEF Next

\* What a request tells that has written the book's row is newer than all that the
\* client has heard of the book, whatever broadcasts and rollbacks overlap; only a
\* PATCH that leaves the row alone can bring an older stock back
\* (orders.py:53-62, books.py:157-158).
THEOREM EventsComeInOrder == Spec => EventsInOrder
<1> DEFINE InOrder == \A w \in Clients, e \in Writers : e \in told'[w] \ told[w] =>
                         \A f \in told[w] : Book[f] = Book[e] => tells[f] < tells[e]
<1>1. Typed /\ Ordered /\ [Next]_vars => [InOrder]_vars
  <2>1. SUFFICES ASSUME Typed, Ordered, Next, NEW w \in Clients, NEW e \in Writers,
                        e \in told'[w] \ told[w], NEW f \in told[w], Book[f] = Book[e]
                 PROVE  tells[f] < tells[e]
    OBVIOUS
  <2>2. f \in Broadcasts \ {e} /\ phase[f] # "new"
    BY <2>1 DEF Ordered, Typed, TypeOK
  <2>3. phase[e] = "sending"
    BY <2>1, OnlySendingTells DEF Send
  <2>. QED  BY <2>1, <2>2, <2>3 DEF Ordered, Newest, Active
<1>2. Init => Typed /\ Ordered
  BY InitTyped, InitOrdered
<1>3. Typed /\ Ordered /\ [Next]_vars => (Typed /\ Ordered)'
  BY NextTyped, NextOrdered
<1>. QED  BY <1>1, <1>2, <1>3, PTL DEF Spec, EventsInOrder
=============================================================================
