----------------------------- MODULE AddressBook -----------------------------
(***************************************************************************)
(* What the accounts promise, as if every request were carried out at one  *)
(* moment: a registration brings an account with an address nobody has,    *)
(* and at most its own audit row, together; a change of a profile takes an *)
(* address nobody else has; nothing else changes an address; and a login   *)
(* or logout is recorded after it was carried out, for who sent it.        *)
(* Accounts implements this.                                               *)
(***************************************************************************)
CONSTANTS Accounts, Emails

VARIABLES
    address,        \* address[a]: the address of account a, or none of Emails
    events,         \* the audit rows
    served          \* what was carried out: by whom, for which account, and what

book == <<address, events, served>>

Open(a) == address[a] \in Emails
Free(e, a) == \A b \in Accounts \ {a} : address[b] # e
Take(e, a) == address' = [address EXCEPT ![a] = e]

\* No request is carried out twice.
Serve(x) ==
    /\ \A y \in served : y.by # x.by
    /\ served' = served \cup {x}

Enrol(x) ==
    /\ x.event = "register" /\ x.user = x.by /\ ~Open(x.user)
    /\ Serve(x)
    /\ \E e \in Emails : Free(e, x.user) /\ Take(e, x.user)
    /\ events' \in {events, events \cup {x}}

Move(x) ==
    /\ x.event = "patch" /\ Open(x.user)
    /\ Serve(x)
    /\ \E e \in Emails : Free(e, x.user) /\ Take(e, x.user)
    /\ UNCHANGED events

Admit(x) ==
    /\ x.event \in {"admin", "login", "logout"} /\ Open(x.user)
    /\ Serve(x)
    /\ UNCHANGED <<address, events>>

Record(x) ==
    /\ x.event \in {"login", "logout"} /\ x \in served
    /\ events' = events \cup {x}
    /\ UNCHANGED <<address, served>>

Init ==
    /\ \A a, b \in Accounts : Open(a) /\ address[a] = address[b] => a = b
    /\ events = {} /\ served = {}

Next == \E x \in served' : Enrol(x) \/ Move(x) \/ Admit(x) \/ Record(x)

Spec == Init /\ [][Next]_book
===============================================================================
