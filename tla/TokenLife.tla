------------------------------ MODULE TokenLife ------------------------------
(***************************************************************************)
(* What the refresh tokens promise, whatever Redis, tabs and retries do: a *)
(* token lives once and dies for good, and its owner is told that it is    *)
(* spent only when it is dead.  RefreshTokens implements this.             *)
(***************************************************************************)
CONSTANT Tokens

VARIABLES
    live,           \* the tokens with which a refresh may succeed
    dead,           \* the tokens with which none will any more
    spent           \* the tokens of which a response has said so

life == <<live, dead, spent>>

Init == live = {} /\ dead = {} /\ spent = {}

\* A token is issued, at most once.
Issue(t) ==
    /\ t \notin live \cup dead
    /\ live' = live \cup {t}
    /\ UNCHANGED <<dead, spent>>

\* A token is revoked or expires; one never issued may be given up.
Die(t) ==
    /\ t \notin dead
    /\ dead' = dead \cup {t}
    /\ live' = live \ {t}
    /\ UNCHANGED spent

\* A refresh or a logout with the token is answered with success.
Confirm(t) ==
    /\ t \in dead
    /\ spent' = spent \cup {t}
    /\ UNCHANGED <<live, dead>>

Next == \E t \in Tokens : Issue(t) \/ Die(t) \/ Confirm(t)

Spec == Init /\ [][Next]_life
==============================================================================
