------------------------- MODULE RefreshTokensProofs -------------------------
(***************************************************************************)
(* A spent refresh token stays revoked and a browser nothing has gone      *)
(* wrong for stays signed in, for any number of browsers and requests and  *)
(* under every fault RefreshTokens has.                                    *)
(***************************************************************************)
EXTENDS RefreshTokens, TLAPS

\* Whatever token a browser holds or a request was sent, the request that
\* issued it has been answered, so that no store of it can still come.
Settled ==
    /\ \A d \in Browsers : cookie[d] # Nil => pc[cookie[d]] = "ok"
    /\ \A r \in Requests : shown[r] # Nil => pc[shown[r]] = "ok"

\* A logout stores nothing, a login revokes nothing.
Routed ==
    \A r \in Requests :
        /\ pc[r] \in {"lookup", "store"} => kind[r] # "logout"
        /\ pc[r] = "revoke" => kind[r] \in {"refresh", "logout"}

\* A refresh or logout that went on has a token to show.
Shown ==
    \A r \in Requests :
        pc[r] \in {"lookup", "store", "revoke", "undo", "reply"} /\ kind[r] \in {"refresh", "logout"}
           => shown[r] # Nil

Safe == TypeOK /\ Settled /\ Routed /\ Shown /\ SpentTokensStayRevoked

\* Before a request was sent, it had no token to be sent with it.
LEMMA InitSafe == Init => Safe
  BY DEF Init, Safe, TypeOK, Settled, Routed, Shown, SpentTokensStayRevoked, Spent, Answers, Kinds

\* Sending: the request takes over a token whose request is answered.
LEMMA SendSafe ==
  ASSUME Safe, NEW r \in Requests, Login(r) \/ Refresh(r) \/ Logout(r)
  PROVE  Safe'
<1> USE TokensAssumption
<1>1. CASE Login(r)
  BY <1>1 DEF Login, Send, Goto, Safe, TypeOK, Settled, Routed, Shown, SpentTokensStayRevoked, Spent, Answers, Kinds
<1>2. CASE Refresh(r)
  BY <1>2 DEF Refresh, Present, Send, Goto, Safe, TypeOK, Settled, Routed, Shown, SpentTokensStayRevoked, Spent, Answers, Kinds
<1>3. CASE Logout(r)
  BY <1>3 DEF Logout, Present, Send, Goto, Safe, TypeOK, Settled, Routed, Shown, SpentTokensStayRevoked, Spent, Answers, Kinds
<1>. QED  BY <1>1, <1>2, <1>3

\* The commands that put nothing into Redis.
LEMMA CommandSafe ==
  ASSUME Safe, NEW r \in Requests, Lookup(r) \/ Revoke(r) \/ Undo(r)
  PROVE  Safe'
<1> USE TokensAssumption
<1>1. CASE Lookup(r)
  BY <1>1 DEF Lookup, Command, Goto, Safe, TypeOK, Settled, Routed, Shown, SpentTokensStayRevoked, Spent, Answers
<1>2. CASE Revoke(r)
  BY <1>2 DEF Revoke, Command, Goto, Safe, TypeOK, Settled, Routed, Shown, SpentTokensStayRevoked, Spent, Answers
<1>3. CASE Undo(r)
  BY <1>3 DEF Undo, Command, Goto, Safe, TypeOK, Settled, Routed, Shown, SpentTokensStayRevoked, Spent, Answers
<1>. QED  BY <1>1, <1>2, <1>3

\* The one command that adds a key: its token is nobody's cookie yet, so it is
\* not among the spent ones.
LEMMA StoreSafe ==
  ASSUME Safe, NEW r \in Requests, Store(r)
  PROVE  Safe'
<1> USE TokensAssumption DEF Safe
<1>1. pc[r] = "store" /\ redis' \subseteq redis \cup {r}
  BY DEF Store, Command, KeysWithNew
<1>2. TypeOK'
  BY DEF Store, Command, KeysWithNew, AfterStore, Goto, TypeOK, Answers
<1>3. Settled'
  BY DEF Store, Command, AfterStore, Goto, TypeOK, Settled, Answers
<1>4. Routed' /\ Shown'
  BY DEF Store, Command, AfterStore, Goto, TypeOK, Routed, Shown
<1>5. SpentTokensStayRevoked'
  <2> SUFFICES ASSUME NEW x \in Requests, Spent(x)' PROVE shown'[x] \notin redis'
    BY DEF SpentTokensStayRevoked
  <2>1. shown' = shown /\ kind' = kind
    BY DEF Store, Command
  <2>2. shown[x] # r
    BY <1>1 DEF Settled, TypeOK
  <2>3. CASE x = r
    BY <1>1, <2>1, <2>3 DEF Store, Command, AfterStore, Goto, Spent, Routed, TypeOK, Answers
  <2>4. CASE x # r
    BY <1>1, <2>1, <2>2, <2>4 DEF Store, Command, Goto, Spent, TypeOK, SpentTokensStayRevoked
  <2>. QED  BY <2>3, <2>4
<1>. QED  BY <1>2, <1>3, <1>4, <1>5

\* The answer, the passing of time and the cut-off of a handler.
LEMMA EndSafe ==
  ASSUME Safe, NEW r \in Requests, Answer(r) \/ Expire(r) \/ Crash(r)
  PROVE  Safe'
<1> USE TokensAssumption
<1>1. CASE Answer(r)
  BY <1>1 DEF Answer, CookieSet, Goto, Safe, TypeOK, Settled, Routed, Shown, SpentTokensStayRevoked, Spent, Answers
<1>2. CASE Expire(r)
  BY <1>2 DEF Expire, Safe, TypeOK, Settled, Routed, Shown, SpentTokensStayRevoked, Spent, Answers
<1>3. CASE Crash(r)
  BY <1>3 DEF Crash, Running, Goto, Safe, TypeOK, Settled, Routed, Shown, SpentTokensStayRevoked, Spent, Answers
<1>. QED  BY <1>1, <1>2, <1>3

-----------------------------------------------------------------------------
\* The inductive invariant: a spent token is out of Redis (auth.py:221-244,
\* 272-278), and the request that issued a token in use is over.
THEOREM AlwaysSafe == Spec => []Safe
<1>1. Init => Safe
  BY InitSafe
<1>2. Safe /\ [Next]_vars => Safe'
  <2> SUFFICES ASSUME Safe, [Next]_vars PROVE Safe'
    OBVIOUS
  <2>1. ASSUME NEW r \in Requests, Step(r) \/ Expire(r) \/ Crash(r) PROVE Safe'
    BY <2>1, SendSafe, CommandSafe, StoreSafe, EndSafe DEF Step
  <2>2. CASE Idle \/ UNCHANGED vars
    BY <2>2 DEF Idle, vars, Safe, TypeOK, Settled, Routed, Shown, SpentTokensStayRevoked, Spent
  <2>. QED  BY <2>1, <2>2 DEF Next
<1>. QED  BY <1>1, <1>2, PTL DEF Spec

\* Every variable keeps its type.
THEOREM TypesHold == Spec => []TypeOK
<1>1. Safe => TypeOK
  BY DEF Safe
<1>. QED  BY <1>1, AlwaysSafe, PTL

\* A refresh or a logout that succeeds has spent the token it was sent, for good
\* (auth.py:221-244, 272-278).
THEOREM SpentForGood == Spec => []SpentTokensStayRevoked
<1>1. Safe => SpentTokensStayRevoked
  BY DEF Safe
<1>. QED  BY <1>1, AlwaysSafe, PTL

-----------------------------------------------------------------------------
(* RefreshTokens implements TokenLife.                                     *)

\* A request that is sent, or a handler that issues no command, at most gives up
\* the token it was to issue.
LEMMA QuietImplements ==
  ASSUME Safe, NEW r \in Requests,
         Login(r) \/ Refresh(r) \/ Logout(r) \/ Lookup(r) \/ Crash(r)
  PROVE  [Life!Next]_(Life!life)
<1> USE TokensAssumption DEF Safe
<1>1. redis' = redis /\ Confirmed' = Confirmed
  BY DEF Login, Refresh, Logout, Present, Send, Lookup, Command, Crash, Running, Goto,
         Confirmed, TypeOK, Answers
<1>2. \A t \in Requests : t # r => pc'[t] = pc[t]
  BY DEF Login, Refresh, Logout, Present, Send, Lookup, Command, Crash, Goto, TypeOK
<1>3. GivenUp' \in {GivenUp, GivenUp \cup {r}}
  <2>1. r \in GivenUp => r \in GivenUp'
    BY <1>1 DEF Login, Refresh, Logout, Present, Send, Lookup, Command, Crash, Running, Goto,
                GivenUp, Issuable, TypeOK, Answers
  <2>. QED  BY <1>1, <1>2, <2>1 DEF GivenUp, Issuable
<1>4. CASE GivenUp' = GivenUp
  BY <1>1, <1>4 DEF Life!life
<1>5. CASE GivenUp' = GivenUp \cup {r} /\ GivenUp' # GivenUp
  <2>1. r \notin redis
    BY <1>1, <1>5 DEF GivenUp
  <2>2. Life!Die(r)
    BY <1>1, <1>5, <2>1 DEF Life!Die
  <2>. QED  BY <2>2 DEF Life!Next
<1>. QED  BY <1>3, <1>4, <1>5

\* SET: the token is issued, or given up when the command failed.
LEMMA StoreImplements ==
  ASSUME Safe, NEW r \in Requests, Store(r)
  PROVE  [Life!Next]_(Life!life)
<1> USE TokensAssumption DEF Safe
<1>1. Confirmed' = Confirmed
  BY DEF Store, Command, AfterStore, Goto, Confirmed, TypeOK, Answers
<1>2. /\ pc[r] = "store" /\ pc'[r] \in {"revoke", "reply", "unavailable"}
      /\ \A t \in Requests : t # r => pc'[t] = pc[t]
      /\ redis' \in {redis, redis \cup {r}}
  BY DEF Store, Command, AfterStore, KeysWithNew, Goto, TypeOK
<1>3. r \notin GivenUp
  BY <1>2 DEF GivenUp, Issuable
<1>4. CASE redis' = redis /\ r \notin redis
  <2>1. GivenUp' = GivenUp \cup {r}
    BY <1>2, <1>4 DEF GivenUp, Issuable
  <2>2. Life!Die(r)
    BY <1>1, <1>3, <1>4, <2>1 DEF Life!Die
  <2>. QED  BY <2>2 DEF Life!Next
<1>5. CASE redis' = redis \cup {r}
  <2>1. GivenUp' = GivenUp
    BY <1>2, <1>5 DEF GivenUp, Issuable
  <2>2. Life!Issue(r) \/ redis' = redis
    BY <1>1, <1>3, <1>5, <2>1 DEF Life!Issue
  <2>. QED  BY <1>1, <2>1, <2>2 DEF Life!Next, Life!life
<1>. QED  BY <1>2, <1>4, <1>5

\* DEL and expiry: at most one token dies.
LEMMA DelImplements ==
  ASSUME Safe, NEW r \in Requests, Revoke(r) \/ Undo(r) \/ Expire(r)
  PROVE  [Life!Next]_(Life!life)
<1> USE TokensAssumption DEF Safe
<1>1. Confirmed' = Confirmed
  BY DEF Revoke, Undo, Expire, Command, Goto, Confirmed, TypeOK, Answers
<1>2. \A t \in Requests : Issuable(t)' <=> Issuable(t)
  BY DEF Revoke, Undo, Expire, Command, Goto, Issuable, TypeOK
<1>3. PICK t \in Requests \cup {Nil} : redis' \in {redis, redis \ {t}} /\ (t \in Requests => ~Issuable(t))
  BY DEF Revoke, Undo, Expire, Command, Issuable, TypeOK, Settled, Answers
<1>4. CASE redis' = redis
  BY <1>1, <1>2, <1>4 DEF GivenUp, Life!life
<1>5. CASE redis' = redis \ {t} /\ t \in redis
  <2>1. t \in Requests /\ t \notin GivenUp
    BY <1>5 DEF TypeOK, GivenUp
  <2>2. GivenUp' = GivenUp \cup {t}
    BY <1>2, <1>3, <1>5, <2>1 DEF GivenUp
  <2>3. Life!Die(t)
    BY <1>1, <1>5, <2>1, <2>2 DEF Life!Die
  <2>. QED  BY <2>1, <2>3 DEF Life!Next
<1>. QED  BY <1>3, <1>4, <1>5

\* A success is answered when the token sent is dead.
LEMMA AnswerImplements ==
  ASSUME Safe, NEW r \in Requests, Answer(r)
  PROVE  [Life!Next]_(Life!life)
<1> USE TokensAssumption DEF Safe
<1>1. /\ redis' = redis /\ kind' = kind /\ shown' = shown
      /\ pc[r] = "reply" /\ pc' = [pc EXCEPT ![r] = "ok"]
  BY DEF Answer, Goto
<1>2. GivenUp' = GivenUp
  BY <1>1 DEF GivenUp, Issuable, TypeOK
<1>3. CASE kind[r] \notin {"refresh", "logout"}
  <2>1. Confirmed' = Confirmed
    BY <1>1, <1>3 DEF Confirmed, TypeOK
  <2>. QED  BY <1>1, <1>2, <2>1 DEF Life!life
<1>4. CASE kind[r] \in {"refresh", "logout"}
  <2>1. Confirmed' = Confirmed \cup {shown[r]}
    BY <1>1, <1>4 DEF Confirmed, TypeOK
  <2>2. shown[r] \notin redis
    BY <1>1, <1>4 DEF SpentTokensStayRevoked, Spent
  <2>3. shown[r] \in Requests
    BY <1>1, <1>4 DEF Shown, TypeOK
  <2>4. shown[r] \in GivenUp
    BY <2>2, <2>3 DEF GivenUp, Issuable, Settled
  <2>5. Life!Confirm(shown[r])
    BY <1>1, <1>2, <2>1, <2>4 DEF Life!Confirm
  <2>. QED  BY <2>3, <2>5 DEF Life!Next
<1>. QED  BY <1>3, <1>4

\* A token lives once and dies for good, and a success is answered only when the
\* token sent is dead (auth.py:206-250, 272-297).
THEOREM ImplementsTokenLife == Spec => TokensLiveOnce
<1>1. Init => Life!Init
  BY DEF Init, Life!Init, GivenUp, Confirmed, Issuable, Answers
<1>2. Safe /\ [Next]_vars => [Life!Next]_(Life!life)
  <2> SUFFICES ASSUME Safe, [Next]_vars PROVE [Life!Next]_(Life!life)
    OBVIOUS
  <2>1. ASSUME NEW r \in Requests, Step(r) \/ Expire(r) \/ Crash(r)
        PROVE  [Life!Next]_(Life!life)
    BY <2>1, QuietImplements, StoreImplements, DelImplements, AnswerImplements DEF Step
  <2>2. CASE Idle \/ UNCHANGED vars
    BY <2>2 DEF Idle, vars, Life!life, GivenUp, Issuable, Confirmed
  <2>. QED  BY <2>1, <2>2 DEF Next
<1>. QED  BY <1>1, <1>2, AlwaysSafe, PTL DEF Spec, TokensLiveOnce, Life!Spec

-----------------------------------------------------------------------------
(* The cookie and Redis stay aligned.                                      *)

\* A browser holds, and its requests show, tokens its own requests got.
Owned ==
    /\ \A d \in Browsers : cookie[d] # Nil => Browser[cookie[d]] = d
    /\ \A r \in Requests : shown[r] # Nil => Browser[shown[r]] = Browser[r]

\* A handler that has stored its token has it in Redis until it answers.
Kept ==
    \A r \in Requests :
        \/ pc[r] = "reply" /\ kind[r] # "logout"
        \/ pc[r] = "revoke" /\ kind[r] = "refresh"
        => r \in redis

\* r has spent the cookie of its browser and not given it another one yet, or it
\* has failed to.
Spends(r, t) ==
    /\ shown[r] = t
    /\ pc[r] \in {"reply", "undo", "unavailable", "failed"} \/ r \in lost

\* A browser whose cookie is not in Redis has such a request.
Accounted ==
    \A d \in Browsers :
        cookie[d] \notin redis \cup {Nil} => \E r \in Requests : Browser[r] = d /\ Spends(r, cookie[d])

Aligned == Owned /\ Kept /\ Accounted

LEMMA InitAligned == Init => Aligned
BY TokensAssumption DEF TokensAssumption, Init, Aligned, Owned, Kept, Accounted

\* A step that takes no token out of Redis and sets no cookie.
LEMMA KeepAligned ==
  ASSUME Safe, Aligned, NEW r \in Requests, cookie' = cookie, redis \subseteq redis',
         \A x \in Requests \ {r} : pc'[x] = pc[x] /\ kind'[x] = kind[x] /\ shown'[x] = shown[x],
         lost' = lost, shown'[r] = shown[r] \/ pc[r] = "new",
         shown'[r] \in {shown[r], cookie[Browser[r]]},
         pc'[r] \notin {"reply", "revoke"} \/ r \in redis' \/ kind'[r] = "logout",
         pc[r] \in {"reply", "undo", "unavailable", "failed"} =>
            pc'[r] \in {"reply", "undo", "unavailable", "failed"},
         pc[r] = "new" => r \notin lost
  PROVE  Aligned'
<1> USE TokensAssumption DEF TokensAssumption
<1>1. Owned'
  BY DEF Aligned, Owned, Safe, TypeOK
<1>2. Kept'
  BY DEF Aligned, Kept
<1>3. Accounted'
  <2>1. \A t : \A x \in Requests : Spends(x, t) => Spends(x, t)'
    BY DEF Spends
  <2>. QED  BY <2>1 DEF Aligned, Accounted
<1>. QED  BY <1>1, <1>2, <1>3 DEF Aligned

\* Only an answer can be lost.
Answered == \A r \in lost : pc[r] = "ok"

LEMMA StepAnswered ==
  ASSUME Safe, Answered, NEW r \in Requests, Step(r) \/ Expire(r) \/ Crash(r)
  PROVE  Answered'
<1>1. CASE Answer(r)
  BY <1>1 DEF Answer, Answered, Goto, Safe, TypeOK
<1>2. CASE ~Answer(r)
  <2>1. lost' = lost /\ (pc[r] = "ok" => pc'[r] = "ok") /\ \A x \in Requests \ {r} : pc'[x] = pc[x]
    BY <1>2 DEF Step, Login, Refresh, Logout, Present, Send, Lookup, Store, Revoke, Undo, Command,
                Expire, Crash, Running, Answers, Goto, Safe, TypeOK
  <2>. QED  BY <2>1 DEF Answered, Safe, TypeOK
<1>. QED  BY <1>1, <1>2

LEMMA SendAligned ==
  ASSUME Safe, Aligned, Answered, NEW r \in Requests,
         Login(r) \/ Refresh(r) \/ Logout(r) \/ Lookup(r) \/ Store(r) \/ Crash(r)
  PROVE  Aligned'
<1> USE DEF Safe, TypeOK
<1>0. pc[r] = "new" => r \notin lost
  BY DEF Answered
<1>1. CASE Login(r)
  BY <1>0, <1>1, KeepAligned DEF Login, Send, Goto
<1>2. CASE Refresh(r) \/ Logout(r)
  <2>1. PICK k \in {"refresh", "logout"}, step \in {"lookup", "revoke"} :
            Present(r, k, step) /\ (step = "revoke" => k = "logout")
    BY <1>2 DEF Refresh, Logout
  <2>2. pc[r] = "new" /\ redis' = redis /\ cookie' = cookie /\ lost' = lost
    BY <2>1 DEF Present, Send
  <2>3. /\ kind'[r] = k /\ shown'[r] = cookie[Browser[r]] /\ pc'[r] \in {step, "refused"}
        /\ \A x \in Requests \ {r} : pc'[x] = pc[x] /\ kind'[x] = kind[x] /\ shown'[x] = shown[x]
    BY <2>1 DEF Present, Send, Goto
  <2>. QED  BY <1>0, <2>1, <2>2, <2>3, KeepAligned
<1>3. CASE Lookup(r)
  BY <1>0, <1>3, KeepAligned DEF Lookup, Command, Goto
<1>4. CASE Store(r)
  <2>1. /\ pc[r] = "store" /\ redis' \in {redis, redis \cup {r}} /\ cookie' = cookie /\ lost' = lost
        /\ kind' = kind /\ shown' = shown
        /\ pc'[r] \in {"revoke", "reply", "unavailable"}
        /\ pc'[r] # "unavailable" => redis' = redis \cup {r}
        /\ \A x \in Requests \ {r} : pc'[x] = pc[x]
    BY <1>4 DEF Store, Command, KeysWithNew, AfterStore, Goto
  <2>. QED  BY <2>1, KeepAligned
<1>5. CASE Crash(r)
  BY <1>0, <1>5, KeepAligned DEF Crash, Running, Answers, Goto
<1>. QED  BY <1>1, <1>2, <1>3, <1>4, <1>5

\* Whoever takes the cookie of its browser out of Redis is to answer for it.
LEMMA RevokeAligned ==
  ASSUME Safe, Aligned, NEW r \in Requests, Revoke(r)
  PROVE  Aligned'
<1> USE TokensAssumption DEF TokensAssumption
<1>1. /\ pc[r] = "revoke" /\ redis' \in {redis, redis \ {shown[r]}}
      /\ pc'[r] \in {"reply", "undo", "unavailable"}
      /\ \A x \in Requests \ {r} : pc'[x] = pc[x]
      /\ cookie' = cookie /\ kind' = kind /\ shown' = shown /\ lost' = lost
  BY DEF Revoke, Command, Goto, Safe, TypeOK
<1>2. Owned'
  BY <1>1 DEF Aligned, Owned
<1>3. Kept'
  <2>1. \A x \in Requests : pc[x] # "ok" => x # shown[r] \/ shown[r] = Nil
    BY DEF Safe, Settled
  <2>2. r \notin {shown[r]} /\ \A x \in Requests : pc[x] # "ok" /\ x \in redis => x \in redis'
    BY <1>1, <2>1
  <2>3. kind[r] # "logout" => r \in redis
    BY <1>1 DEF Aligned, Kept, Safe, Routed
  <2>. QED  BY <1>1, <2>2, <2>3 DEF Aligned, Kept
<1>4. Accounted'
  <2>1. SUFFICES ASSUME NEW d \in Browsers, cookie[d] \notin redis' \cup {Nil}
                 PROVE  \E x \in Requests : Browser[x] = d /\ Spends(x, cookie[d])'
    BY <1>1 DEF Accounted
  <2>2. CASE cookie[d] \notin redis
    <3>1. \A t : \A x \in Requests : Spends(x, t) => Spends(x, t)'
      BY <1>1 DEF Spends
    <3>. QED  BY <1>1, <2>1, <2>2, <3>1 DEF Aligned, Accounted
  <2>3. CASE cookie[d] \in redis
    <3>1. shown[r] = cookie[d]
      BY <1>1, <2>1, <2>3
    <3>2. Browser[r] = d
      BY <2>1, <3>1 DEF Aligned, Owned
    <3>. QED  BY <1>1, <3>1, <3>2 DEF Spends
  <2>. QED  BY <2>2, <2>3
<1>. QED  BY <1>2, <1>3, <1>4 DEF Aligned

\* Nobody holds a token that is taken back before it is answered.
LEMMA UndoAligned ==
  ASSUME Safe, Aligned, NEW r \in Requests, Undo(r)
  PROVE  Aligned'
<1>1. /\ pc[r] = "undo" /\ redis' \in {redis, redis \ {r}} /\ pc'[r] = "unavailable"
      /\ \A x \in Requests \ {r} : pc'[x] = pc[x]
      /\ cookie' = cookie /\ kind' = kind /\ shown' = shown /\ lost' = lost
  BY DEF Undo, Command, Goto, Safe, TypeOK
<1>2. \A d \in Browsers : cookie[d] # Nil => cookie[d] # r
  BY <1>1 DEF Safe, Settled
<1>3. Owned' /\ Kept'
  BY <1>1 DEF Aligned, Owned, Kept
<1>4. \A t : \A x \in Requests : Spends(x, t) => Spends(x, t)'
  BY <1>1 DEF Spends
<1>5. Accounted'
  BY <1>1, <1>2, <1>4 DEF Aligned, Accounted
<1>. QED  BY <1>3, <1>5 DEF Aligned

\* The new cookie is in Redis.
LEMMA AnswerAligned ==
  ASSUME Safe, Aligned, NEW r \in Requests, Answer(r)
  PROVE  Aligned'
<1> USE TokensAssumption DEF TokensAssumption
<1>1. /\ pc[r] = "reply" /\ pc'[r] = "ok" /\ redis' = redis /\ kind' = kind /\ shown' = shown
      /\ \A x \in Requests \ {r} : pc'[x] = pc[x]
  BY DEF Answer, Goto, Safe, TypeOK
<1>2. kind[r] # "logout" => r \in redis
  BY <1>1 DEF Aligned, Kept
<1>3. \/ /\ lost' = lost
         /\ \A d \in Browsers : cookie'[d] = IF d = Browser[r] THEN CookieSet(r) ELSE cookie[d]
      \/ lost' = lost \cup {r} /\ cookie' = cookie
  BY DEF Answer, Safe, TypeOK
<1>4. Owned'
  BY <1>1, <1>3 DEF Aligned, Owned, CookieSet
<1>5. Kept'
  BY <1>1 DEF Aligned, Kept
<1>6. Accounted'
  <2>1. SUFFICES ASSUME NEW d \in Browsers, cookie'[d] \notin redis \cup {Nil}
                 PROVE  \E x \in Requests : Browser[x] = d /\ Spends(x, cookie[d])' /\ cookie'[d] = cookie[d]
    BY <1>1 DEF Accounted, Spends
  <2>2. cookie'[d] = cookie[d] /\ (d = Browser[r] => r \in lost')
    BY <1>2, <1>3, <2>1 DEF CookieSet
  <2>3. PICK x \in Requests : Browser[x] = d /\ Spends(x, cookie[d])
    BY <2>1, <2>2 DEF Aligned, Accounted
  <2>4. Spends(x, cookie[d])'
    BY <1>1, <1>3, <2>2, <2>3 DEF Spends
  <2>. QED  BY <2>2, <2>3, <2>4
<1>. QED  BY <1>4, <1>5, <1>6 DEF Aligned

\* A cookie expires with its token.
LEMMA ExpireAligned ==
  ASSUME Safe, Aligned, NEW r \in Requests, Expire(r)
  PROVE  Aligned'
<1>1. /\ pc[r] \in Answers /\ redis' = redis \ {r}
      /\ pc' = pc /\ kind' = kind /\ shown' = shown /\ lost' = lost
      /\ \A d \in Browsers : cookie'[d] = IF cookie[d] = r THEN Nil ELSE cookie[d]
  BY DEF Expire
<1>2. Owned' /\ Kept'
  BY <1>1 DEF Aligned, Owned, Kept, Answers
<1>3. Accounted'
  BY <1>1 DEF Aligned, Accounted, Spends
<1>. QED  BY <1>2, <1>3 DEF Aligned

\* However its tabs race, a browser with no request under way, and none that was
\* cut off, found Redis failing or had its response lost, holds a cookie that is
\* good for a refresh, or none (auth.py:247-249).
THEOREM BrowsersStaySignedIn == Spec => []BrowserStaysSignedIn
<1>1. Init => Aligned /\ Answered
  BY InitAligned DEF Init, Answered
<1>2. Safe /\ Aligned /\ Answered /\ [Next]_vars => (Aligned /\ Answered)'
  <2> SUFFICES ASSUME Safe, Aligned, Answered, [Next]_vars PROVE (Aligned /\ Answered)'
    OBVIOUS
  <2>1. ASSUME NEW r \in Requests, Step(r) \/ Expire(r) \/ Crash(r) PROVE (Aligned /\ Answered)'
    BY <2>1, StepAnswered, SendAligned, RevokeAligned, UndoAligned, AnswerAligned, ExpireAligned DEF Step
  <2>2. CASE Idle \/ UNCHANGED vars
    BY <2>2 DEF Idle, vars, Aligned, Owned, Kept, Accounted, Spends, Answered
  <2>. QED  BY <2>1, <2>2 DEF Next
<1>3. Safe /\ Aligned /\ Answered => BrowserStaysSignedIn
  BY DEF Aligned, Accounted, Spends, BrowserStaysSignedIn, Unharmed
<1>. QED  BY <1>1, <1>2, <1>3, AlwaysSafe, PTL DEF Spec
==============================================================================
