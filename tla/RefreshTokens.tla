---------------------------- MODULE RefreshTokens ----------------------------
(***************************************************************************)
(* POST /auth/login, /auth/refresh and /auth/logout: the refresh tokens in *)
(* the dedicated Redis, and the cookie in which each browser keeps one.    *)
(*                                                                         *)
(* A request presents the cookie its browser had when it was sent; its     *)
(* handler then issues one Redis command per step, interleaved with the    *)
(* other requests of the same browser (tabs, retries).  Any command may    *)
(* end in a RedisError, and then it may or may not have taken effect.  A   *)
(* token is named by the request that issued it (its jti is random).       *)
(***************************************************************************)

CONSTANTS
    Browsers,
    Requests,
    Browser,        \* Browser[r]: the browser that sends r
    RedisFails,     \* may a Redis command fail?
    Crashes,        \* may a handler be cut off?
    Losses,         \* may a response fail to reach its browser?
    Nil             \* no cookie, no token presented

ASSUME TokensAssumption ==
    /\ Browser \in [Requests -> Browsers]
    /\ Nil \notin Requests
    /\ {RedisFails, Crashes, Losses} \subseteq BOOLEAN

VARIABLES
    redis,          \* the tokens whose key is in redis-refresh
    expired,        \* the tokens past their expiry, in the JWT and in Redis alike
    cookie,         \* cookie[d]: the refresh token browser d holds, or Nil
    kind,           \* kind[r]: the handler r runs, "none" before r is sent
    shown,          \* shown[r]: the token r presented, or Nil
    pc,             \* pc[r]: the next step of r, or how it was answered
    lost            \* the requests whose response has not reached the browser

vars == <<redis, expired, cookie, kind, shown, pc, lost>>

Kinds == {"login", "refresh", "logout"}
Answers == {"ok", "refused", "unavailable", "failed"}
Running(r) == pc[r] \notin {"new"} \cup Answers

Goto(r, step) == pc' = [pc EXCEPT ![r] = step]

-----------------------------------------------------------------------------
(* Sending a request; the checks made before any Redis command.            *)

Send(r, k) ==
    /\ pc[r] = "new"
    /\ kind' = [kind EXCEPT ![r] = k]
    /\ UNCHANGED <<redis, expired, cookie, lost>>

\* The credentials are right and the user is active, or they are not.
Login(r) ==
    /\ Send(r, "login")
    /\ UNCHANGED shown
    /\ Goto(r, "store") \/ Goto(r, "refused")

\* _resolve_refresh_token and decode_token: a cookie is there and not expired.
Present(r, k, step) ==
    LET token == cookie[Browser[r]] IN
    /\ Send(r, k)
    /\ shown' = [shown EXCEPT ![r] = token]
    /\ \/ token \notin {Nil} \cup expired /\ Goto(r, step)
       \/ token \in {Nil} \cup expired /\ Goto(r, "refused")

Refresh(r) == Present(r, "refresh", "lookup")
Logout(r) == Present(r, "logout", "revoke")

-----------------------------------------------------------------------------
(* The Redis commands of the handlers.                                     *)

\* A command that leaves the keys in after, or fails with or without effect.
Command(r, after, replied, raised) ==
    /\ \/ redis' = after /\ Goto(r, replied)
       \/ RedisFails /\ redis' \in {redis, after} /\ Goto(r, raised)
    /\ UNCHANGED <<expired, cookie, kind, shown, lost>>

\* get_subject: the key must be there; the subject stored is the token's own.
Lookup(r) ==
    /\ pc[r] = "lookup"
    /\ Command(r, redis, IF shown[r] \in redis THEN "store" ELSE "refused", "unavailable")

\* Mutant: the old token is left in Redis.
AfterStoreReply(r) == "reply"

AfterStore(r) == IF kind[r] = "refresh" THEN "revoke" ELSE "reply"

\* Mutant: refresh_token is stored where new_refresh_token should be.
KeysWithShown(r) == redis \cup {shown[r]}

KeysWithNew(r) == redis \cup {r}

Store(r) ==
    /\ pc[r] = "store"
    /\ Command(r, KeysWithNew(r), AfterStore(r), "unavailable")

Revoke(r) ==
    /\ pc[r] = "revoke"
    /\ Command(r, redis \ {shown[r]}, "reply",
               IF kind[r] = "refresh" THEN "undo" ELSE "unavailable")

\* The new token is revoked as best the handler can.
Undo(r) ==
    /\ pc[r] = "undo"
    /\ Command(r, redis \ {r}, "unavailable", "unavailable")

-----------------------------------------------------------------------------
(* The answer.  Only a success touches the cookie.                         *)

\* Mutant: refresh sets the cookie it was sent.
CookieKept(r) == IF kind[r] = "logout" THEN Nil ELSE IF kind[r] = "login" THEN r ELSE shown[r]

CookieSet(r) == IF kind[r] = "logout" THEN Nil ELSE r

Answer(r) ==
    /\ pc[r] = "reply"
    /\ Goto(r, "ok")
    /\ \/ /\ cookie' = [cookie EXCEPT ![Browser[r]] = CookieSet(r)]
          /\ lost' = lost
       \/ /\ Losses
          /\ lost' = lost \cup {r}
          /\ cookie' = cookie
    /\ UNCHANGED <<redis, expired, kind, shown>>

-----------------------------------------------------------------------------
(* Time and faults.                                                        *)

\* REFRESH_TOKEN_EXPIRE_DAYS later, when its request is long over, the token's
\* exp has passed, Redis drops its key and the browser its cookie.
Expire(t) ==
    /\ pc[t] \in Answers /\ t \notin expired
    /\ expired' = expired \cup {t}
    /\ redis' = redis \ {t}
    /\ cookie' = [d \in Browsers |-> IF cookie[d] = t THEN Nil ELSE cookie[d]]
    /\ UNCHANGED <<kind, shown, pc, lost>>

\* The process dies, or an error other than a RedisError ends the handler.
Crash(r) ==
    /\ Crashes /\ Running(r)
    /\ Goto(r, "failed")
    /\ UNCHANGED <<redis, expired, cookie, kind, shown, lost>>

-----------------------------------------------------------------------------
Init ==
    /\ redis = {}
    /\ expired = {}
    /\ cookie = [d \in Browsers |-> Nil]
    /\ kind = [r \in Requests |-> "none"]
    /\ shown = [r \in Requests |-> Nil]
    /\ pc = [r \in Requests |-> "new"]
    /\ lost = {}

Step(r) ==
    \/ Login(r) \/ Refresh(r) \/ Logout(r)
    \/ Lookup(r) \/ Store(r) \/ Revoke(r) \/ Undo(r) \/ Answer(r)

\* No request is in progress; none need ever be sent.
Idle == (\A r \in Requests : ~Running(r)) /\ UNCHANGED vars

Next == (\E r \in Requests : Step(r) \/ Expire(r) \/ Crash(r)) \/ Idle

Spec == Init /\ [][Next]_vars

-----------------------------------------------------------------------------
TypeOK ==
    /\ redis \subseteq Requests
    /\ expired \subseteq Requests
    /\ cookie \in [Browsers -> Requests \cup {Nil}]
    /\ kind \in [Requests -> Kinds \cup {"none"}]
    /\ shown \in [Requests -> Requests \cup {Nil}]
    /\ pc \in [Requests -> {"new", "lookup", "store", "revoke", "undo", "reply"} \cup Answers]
    /\ lost \subseteq Requests

\* Once a refresh or a logout is to be answered with success, the token it was
\* sent is not in Redis, and no late store, retry, failed undo or crash of any
\* request brings it back (auth.py:221-244, 272-278): a spent token stays spent.
Spent(r) == pc[r] \in {"reply", "ok"} /\ kind[r] \in {"refresh", "logout"}

SpentTokensStayRevoked == \A r \in Requests : Spent(r) => shown[r] \notin redis

\* While a browser has no request under way, and if none of its requests was cut
\* off, found Redis failing or had its response lost, the cookie it holds is
\* good for a refresh: however its tabs race, the browser and the server stay
\* aligned (auth.py:247-249).
Unharmed(r) == pc[r] \in {"new", "ok", "refused"} /\ r \notin lost

BrowserStaysSignedIn ==
    \A d \in Browsers :
        (\A r \in Requests : Browser[r] = d => Unharmed(r)) => cookie[d] \in redis \cup {Nil}

\* "Logout immediately invalidates the session" (README.md:60): no browser holds
\* a live token that a refresh got for a token logged out.
LogoutEndsSession ==
    \A r, x \in Requests :
        /\ pc[r] = "ok" /\ kind[r] = "logout"
        /\ pc[x] = "ok" /\ kind[x] = "refresh"
        /\ shown[x] = shown[r] /\ x \in redis
        => \A d \in Browsers : cookie[d] # x

-----------------------------------------------------------------------------
(* The tokens as TokenLife sees them.  A token is given up when the request *)
(* that was to issue it is past doing so.                                   *)

Issuable(t) == pc[t] \in {"new", "lookup", "store"}
GivenUp == {t \in Requests : ~Issuable(t) /\ t \notin redis}
Confirmed == {shown[r] : r \in {x \in Requests : pc[x] = "ok" /\ kind[x] \in {"refresh", "logout"}}}

Life == INSTANCE TokenLife WITH
            Tokens <- Requests, live <- redis, dead <- GivenUp, spent <- Confirmed

\* However the commands of racing tabs, retries, failed undos, crashes and expiry
\* interleave, each token goes from unissued to live to dead and never back, and
\* a success is answered only when the token sent is dead (auth.py:206-250, 272-297).
TokensLiveOnce == Life!Spec
==============================================================================
