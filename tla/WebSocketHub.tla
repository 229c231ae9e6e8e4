---------------------------- MODULE WebSocketHub ----------------------------
(***************************************************************************)
(* The hub that pushes stock levels to the browsers (core/realtime.py) and *)
(* the websocket route that feeds it.  No await happens while _lock is     *)
(* held, so each critical section is one step of the event loop.  A        *)
(* broadcast awaits one send after the other, so broadcasts, arrivals and  *)
(* departures interleave between any two sends.                            *)
(***************************************************************************)
EXTENDS Naturals, FiniteSets, SequencesExt

CONSTANTS
    Clients,        \* websockets; a browser that comes back is another one
    Broadcasts,     \* calls of broadcast, each by a request that publishes a stock
    Readers,        \* those by a PATCH that leaves the row of the book as it is
    Book            \* Book[e]: the book whose stock e tells

ASSUME HubAssumption ==
    /\ IsFiniteSet(Clients)
    /\ Readers \subseteq Broadcasts
    /\ DOMAIN Book = Broadcasts

Writers == Broadcasts \ Readers
Books == {Book[e] : e \in Broadcasts}

VARIABLES
    connections,    \* _connections
    handler,        \* handler[w]: where inventory_updates is for w
    peer,           \* peer[w]: what the server's end of w is able to do
    latest,         \* latest[b]: how often the row of b has been written
    committed,      \* committed[b]: which of these versions is the committed one
    tells,          \* tells[e]: the version whose stock e tells
    phase,          \* phase[e]: how far the request that publishes is
    todo,           \* todo[e]: the rest of the list e iterates over
    stale,          \* stale[e]: stale_connections
    told,           \* told[w]: the broadcasts sent to w while it lives
    audience        \* history: the connections when e took its list, while e runs

clients == <<handler, peer>>
rows == <<latest, committed, tells>>
loops == <<phase, todo, stale, told, audience>>
vars == <<connections, clients, rows, loops>>

-----------------------------------------------------------------------------
(* The route: connect, greet, read until the client is gone, disconnect.   *)

Connect(w) ==
    /\ handler[w] = "none" /\ peer[w] = "open"
    /\ handler' = [handler EXCEPT ![w] = "greeting"]
    /\ connections' = connections \cup {w}
    /\ UNCHANGED <<peer, rows, loops>>

Greet(w) ==
    /\ handler[w] = "greeting" /\ peer[w] = "open"
    /\ handler' = [handler EXCEPT ![w] = "reading"]
    /\ UNCHANGED <<connections, peer, rows, loops>>

\* Mutant: no finally branch.
LeaveListed(w) == connections

Leave(w) == connections \ {w}

\* send_json or receive_text raises; the finally branch runs either way.
HangUp(w) ==
    /\ handler[w] \in {"greeting", "reading"} /\ peer[w] = "dead"
    /\ handler' = [handler EXCEPT ![w] = "gone"]
    /\ connections' = Leave(w)
    /\ UNCHANGED <<peer, rows, loops>>

-----------------------------------------------------------------------------
(* The request that publishes: it writes the row of the book or reads it,  *)
(* broadcasts, and its transaction ends.                                   *)

Goto(e, step) == phase' = [phase EXCEPT ![e] = step]

\* Mutant: the broadcast is started and not awaited, so that the transaction ends
\* and gives up the row while it is going on.
RowFreeAtOnce(e) == \A f \in Writers : Book[f] = Book[e] => phase[f] # "ready"

\* No transaction has the row locked.
RowFree(e) == \A f \in Writers : Book[f] = Book[e] => phase[f] \in {"new", "done"}

\* A checkout, a cancellation, or an administrator's write: the row stays locked
\* until the transaction ends.
Write(e) ==
    LET b == Book[e] IN
    /\ e \in Writers /\ phase[e] = "new" /\ RowFree(e)
    /\ latest' = [latest EXCEPT ![b] = @ + 1]
    /\ tells' = [tells EXCEPT ![e] = latest[b] + 1]
    /\ Goto(e, "ready")
    /\ UNCHANGED <<connections, clients, committed, todo, stale, told, audience>>

\* A PATCH without a change of the row sends no UPDATE and locks nothing.
Read(e) ==
    /\ e \in Readers /\ phase[e] = "new"
    /\ tells' = [tells EXCEPT ![e] = committed[Book[e]]]
    /\ Goto(e, "ready")
    /\ UNCHANGED <<connections, clients, latest, committed, todo, stale, told, audience>>

Commit(e) ==
    /\ phase[e] = "sent"
    /\ committed' = IF e \in Writers THEN [committed EXCEPT ![Book[e]] = tells[e]] ELSE committed
    /\ Goto(e, "done")
    /\ audience' = [audience EXCEPT ![e] = {}]
    /\ UNCHANGED <<connections, clients, latest, tells, todo, stale, told>>

\* The request fails after its broadcast; one that fails earlier has told nothing.
Rollback(e) ==
    /\ phase[e] = "sent"
    /\ Goto(e, "done")
    /\ audience' = [audience EXCEPT ![e] = {}]
    /\ UNCHANGED <<connections, clients, rows, todo, stale, told>>

-----------------------------------------------------------------------------
(* broadcast                                                               *)

\* A set is listed in any order.
Begin(e) ==
    /\ phase[e] = "ready"
    /\ Goto(e, "sending")
    /\ \E list \in SetToSeqs(connections) : todo' = [todo EXCEPT ![e] = list]
    /\ audience' = [audience EXCEPT ![e] = connections]
    /\ UNCHANGED <<connections, clients, rows, stale, told>>

\* Mutant: the exception of a send ends the loop.
AfterSendBreak(e) == IF peer[Head(todo[e])] = "dead" THEN << >> ELSE Tail(todo[e])

\* Mutant: a failed send is tried again.
AfterSendRetry(e) == IF peer[Head(todo[e])] = "dead" THEN todo[e] ELSE Tail(todo[e])

AfterSend(e) == Tail(todo[e])

\* The send to a client that takes nothing does not return.
Send(e) ==
    LET w == Head(todo[e]) IN
    /\ phase[e] = "sending" /\ todo[e] # << >>
    /\ \/ peer[w] = "open" /\ told' = [told EXCEPT ![w] = @ \cup {e}] /\ stale' = stale
       \/ peer[w] = "dead" /\ stale' = [stale EXCEPT ![e] = @ \cup {w}] /\ told' = told
    /\ todo' = [todo EXCEPT ![e] = AfterSend(e)]
    /\ UNCHANGED <<connections, clients, rows, phase, audience>>

\* Mutant: the first exception is raised again once all have been tried.
EndedRaising(e) == IF stale[e] # {} THEN "failed" ELSE "sent"

Ended(e) == "sent"

Prune(e) ==
    /\ phase[e] = "sending" /\ todo[e] = << >>
    /\ connections' = connections \ stale[e]
    /\ stale' = [stale EXCEPT ![e] = {}]
    /\ Goto(e, Ended(e))
    /\ UNCHANGED <<clients, rows, todo, told, audience>>

-----------------------------------------------------------------------------
(* The clients.                                                            *)

Peer(w, from, to) ==
    /\ handler[w] # "none" /\ peer[w] \in from
    /\ peer' = [peer EXCEPT ![w] = to]
    /\ told' = IF to = "dead" THEN [told EXCEPT ![w] = {}] ELSE told
    /\ UNCHANGED <<connections, handler, rows, phase, todo, stale, audience>>

\* The client stops reading and the write buffer is full, or reads again.
Stall(w) == Peer(w, {"open"}, "stalled")
Resume(w) == Peer(w, {"stalled"}, "open")

\* The client closes, or uvicorn gives up on one that answers no ping.
Close(w) == Peer(w, {"open"}, "dead")
PingTimeout(w) == Peer(w, {"stalled"}, "dead")

-----------------------------------------------------------------------------
Init ==
    /\ connections = {}
    /\ handler = [w \in Clients |-> "none"]
    /\ peer = [w \in Clients |-> "open"]
    /\ latest = [b \in Books |-> 0]
    /\ committed = [b \in Books |-> 0]
    /\ tells = [e \in Broadcasts |-> 0]
    /\ phase = [e \in Broadcasts |-> "new"]
    /\ todo = [e \in Broadcasts |-> << >>]
    /\ stale = [e \in Broadcasts |-> {}]
    /\ told = [w \in Clients |-> {}]
    /\ audience = [e \in Broadcasts |-> {}]

\* Everybody has left and everything has been told.
Idle == (\A w \in Clients : peer[w] = "dead") /\ UNCHANGED vars

Next ==
    \/ \E w \in Clients : \/ Connect(w) \/ Greet(w) \/ HangUp(w)
                          \/ Stall(w) \/ Resume(w) \/ Close(w) \/ PingTimeout(w)
    \/ \E e \in Broadcasts : \/ Write(e) \/ Read(e) \/ Commit(e) \/ Rollback(e)
                             \/ Begin(e) \/ Send(e) \/ Prune(e)
    \/ Idle

Spec == Init /\ [][Next]_vars

\* The event loop runs on what it has begun; a client that reads again, however
\* often it stalls, takes the bytes that wait for it; one that never does runs
\* into the ping timeout.
FairSpec ==
    /\ Spec
    /\ \A w \in Clients : WF_vars(HangUp(w)) /\ WF_vars(PingTimeout(w))
    /\ \A e \in Broadcasts : /\ WF_vars(Begin(e)) /\ SF_vars(Send(e)) /\ WF_vars(Prune(e))
                            /\ WF_vars(Commit(e))

-----------------------------------------------------------------------------
TypeOK ==
    /\ connections \subseteq Clients
    /\ handler \in [Clients -> {"none", "greeting", "reading", "gone"}]
    /\ peer \in [Clients -> {"open", "stalled", "dead"}]
    /\ latest \in [Books -> Nat] /\ committed \in [Books -> Nat]
    /\ tells \in [Broadcasts -> Nat]
    /\ phase \in [Broadcasts -> {"new", "ready", "sending", "sent", "done"}]
    /\ \A e \in Broadcasts : ToSet(todo[e]) \subseteq Clients
    /\ stale \in [Broadcasts -> SUBSET Clients]
    /\ told \in [Clients -> SUBSET Broadcasts]
    /\ audience \in [Broadcasts -> SUBSET Clients]

\* When a broadcast returns it has been sent to every client that was connected
\* when it began and still is, whatever became of the others meanwhile, and each
\* of these stays connected (realtime.py:29-39).
ReachesTheLiving ==
    \A e \in Broadcasts : phase[e] = "sent" =>
        \A w \in audience[e] : peer[w] # "dead" => e \in told[w] /\ w \in connections

\* What a request tells that has written the book's row is newer than all that
\* the client has heard of the book, although each broadcast lists the clients in
\* an order of its own, clients stall, and requests roll back what they have told:
\* the row stays locked until the broadcast has returned (orders.py:53-62).  Only
\* the event of a PATCH that leaves the row alone, which has no lock, can bring an
\* older stock back (books.py:157-158).
EventsInOrder ==
    [][\A w \in Clients, e \in Writers : e \in told'[w] \ told[w] =>
          \A f \in told[w] : Book[f] = Book[e] => tells[f] < tells[e]]_vars

\* A broadcast, and with it the transaction that publishes, ends and gives up the
\* row: a client that stalls holds it up until the ping timeout, no longer.
EveryBroadcastEnds ==
    \A e \in Broadcasts : phase[e] \in {"ready", "sending", "sent"} ~> phase[e] = "done"

\* A client that is gone leaves the set, also when it goes between accept and
\* the greeting or while a broadcast has it on its list.
DeadClientsForgotten == \A w \in Clients : peer[w] = "dead" ~> w \notin connections
=============================================================================
