---------------------------- MODULE ClientSession ----------------------------
(* The browser's session: the cookie NextAuth keeps, the jwt callback that     *)
(* rotates the API's tokens (client/src/auth.config.ts), the axios             *)
(* interceptors that read the session before every call and sign out on a 401  *)
(* (lib/api.ts), and the service worker in front of them (public/sw.js).       *)
(*                                                                             *)
(* A grant is one answer of /auth/login or /auth/refresh-token: an access and  *)
(* a refresh token.  Grants are numbered as they are issued, so the cookie is   *)
(* the number of the grant in it, or 0.  A session read carries the cookie as   *)
(* it was when the read was sent, and its answer sets the cookie: of several    *)
(* answers the last one to arrive wins.                                         *)
EXTENDS Naturals

CONSTANTS Reads,      \* session reads that may be under way at once
          MaxGrants   \* bound: logins and refreshes of one behaviour

ASSUME BoundsOK == MaxGrants \in Nat

VARIABLES cookie,    \* the grant in the session cookie
          live,      \* grants whose refresh token is in Redis
          issued,    \* how many grants there have been
          age,       \* of the grants' access tokens
          pc, held,  \* where each read is, and the grant it carries
          spent,     \* the grant it has rotated away, or 0
          calls,     \* the reads made for an API call; others are for a page
          error,     \* the reads whose refresh failed: t.error
          worker,    \* sw.js is in control of the page
          cached,    \* the answer the service worker has for /api/auth/session
          severed    \* history: grants that expired, or whose rotation got lost

reading == <<pc, held, spent, calls, error>>
tokens == <<live, issued, age, severed>>
cache == <<worker, cached>>
vars == <<cookie, reading, tokens, cache>>

Grants == 1..MaxGrants
NoAnswer == MaxGrants + 1
Ages == {"fresh", "near", "dead"}

TypeOK ==
    /\ cookie \in 0..issued /\ issued \in 0..MaxGrants
    /\ live \subseteq 1..issued /\ severed \subseteq 1..issued
    /\ age \in [Grants -> Ages]
    /\ pc \in [Reads -> {"idle", "asked", "rotating", "answering", "calling"}]
    /\ held \in [Reads -> 0..issued] /\ spent \in [Reads -> 0..issued]
    /\ calls \subseteq Reads /\ error \subseteq Reads
    /\ worker \in BOOLEAN /\ cached \in 0..issued \cup {NoAnswer}

Init ==
    /\ cookie = 0 /\ live = {} /\ issued = 0 /\ severed = {}
    /\ worker = FALSE /\ cached = NoAnswer
    /\ age = [g \in Grants |-> "fresh"]
    /\ pc = [r \in Reads |-> "idle"] /\ held = [r \in Reads |-> 0]
    /\ spent = [r \in Reads |-> 0]
    /\ calls = {} /\ error = {}

-----------------------------------------------------------------------------
\* authorize and the first jwt: the tokens of /auth/login go into the cookie.
SignIn ==
    /\ cookie = 0 /\ issued < MaxGrants
    /\ issued' = issued + 1
    /\ live' = live \cup {issued + 1}
    /\ cookie' = issued + 1
    /\ UNCHANGED <<reading, age, severed, cache>>

\* signOut drops the cookie and tells the API nothing.
SignOut ==
    /\ cookie # 0 /\ cookie' = 0
    /\ UNCHANGED <<reading, tokens, cache>>

Begin(r, at, g) ==
    /\ pc[r] = "idle"
    /\ pc' = [pc EXCEPT ![r] = at]
    /\ held' = [held EXCEPT ![r] = g]
    /\ spent' = [spent EXCEPT ![r] = 0]
    /\ error' = error \ {r}

\* The request interceptor's getSession, when the network answers it.
ReadForCall(r) ==
    /\ worker => cached = NoAnswer
    /\ Begin(r, "asked", cookie)
    /\ calls' = calls \cup {r}
    /\ UNCHANGED <<cookie, tokens, cache>>

\* The same, answered from the service worker's cache, the answer that there is no
\* session included: no request is sent.
ReadFromCache(r) ==
    /\ worker /\ cached # NoAnswer
    /\ Begin(r, "calling", cached)
    /\ calls' = calls \cup {r}
    /\ UNCHANGED <<cookie, tokens, cache>>

\* A navigation to a page of the middleware's matcher: network first.
ReadForPage(r) ==
    /\ Begin(r, "asked", cookie)
    /\ calls' = calls \ {r}
    /\ UNCHANGED <<cookie, tokens, cache>>

Goes(r, from, to) == pc[r] = from /\ pc' = [pc EXCEPT ![r] = to]

\* Mutation: a missing expiry counts as one that never comes.
NeverNearExpiry(g) == g \in {}

\* Date.now() is within thirty seconds of the access token's expiry, or after it.
NearExpiry(g) == g \in Grants /\ age[g] # "fresh"

\* jwt, when there is no session or its access token is good for a while.
AnswerAsIs(r) ==
    /\ ~NearExpiry(held[r])
    /\ Goes(r, "asked", "answering")
    /\ UNCHANGED <<cookie, held, spent, calls, error, tokens, cache>>

\* jwt, /auth/refresh-token: redis.get finds the token, or not.
Refresh(r) ==
    /\ NearExpiry(held[r])
    /\ \/ held[r] \in live /\ Goes(r, "asked", "rotating") /\ error' = error
       \/ held[r] \notin live /\ Goes(r, "asked", "answering") /\ error' = error \cup {r}
    /\ UNCHANGED <<cookie, held, spent, calls, tokens, cache>>

\* The request, or the server before it has deleted anything, fails.
RefreshFails(r) ==
    /\ NearExpiry(held[r])
    /\ Goes(r, "asked", "answering")
    /\ error' = error \cup {r}
    /\ UNCHANGED <<cookie, held, spent, calls, tokens, cache>>

\* Mutation: the new refresh token is not written to the session.
RotateUnsaved(r) ==
    /\ issued < MaxGrants
    /\ Goes(r, "rotating", "answering")
    /\ issued' = issued + 1
    /\ live' = (live \ {held[r]}) \cup {issued + 1}
    /\ spent' = [spent EXCEPT ![r] = held[r]]
    /\ UNCHANGED <<cookie, held, calls, error, age, severed, cache>>

\* The old token is deleted, the new grant made, and jwt puts it in the session.
Rotate(r) ==
    /\ issued < MaxGrants
    /\ Goes(r, "rotating", "answering")
    /\ issued' = issued + 1
    /\ live' = (live \ {held[r]}) \cup {issued + 1}
    /\ held' = [held EXCEPT ![r] = issued + 1]
    /\ spent' = [spent EXCEPT ![r] = held[r]]
    /\ UNCHANGED <<cookie, calls, error, age, severed, cache>>

\* The old token is deleted and the answer never reaches jwt.
RotateLost(r) ==
    /\ Goes(r, "rotating", "answering")
    /\ live' = live \ {held[r]}
    /\ severed' = severed \cup {held[r]}
    /\ error' = error \cup {r}
    /\ UNCHANGED <<cookie, held, spent, calls, issued, age, cache>>

\* The answer arrives: it sets the cookie, and the worker keeps what it fetched.
Answer(r) ==
    /\ Goes(r, "answering", IF r \in calls THEN "calling" ELSE "idle")
    /\ cookie' = IF held[r] = 0 THEN cookie ELSE held[r]
    /\ cached' = IF worker /\ r \in calls THEN held[r] ELSE cached
    /\ UNCHANGED <<held, spent, calls, error, tokens, worker>>

\* The answer does not arrive: the grant it would have replaced may be spent.
AnswerLost(r) ==
    /\ Goes(r, "answering", "idle")
    /\ severed' = severed \cup ({spent[r]} \ {0})
    /\ UNCHANGED <<cookie, held, spent, calls, error, live, issued, age, cache>>

\* The API answers 401 to a call without a token or with one that has run out.
Refused(g) == g = 0 \/ age[g] = "dead"

\* The API call itself, and the response interceptor: a 401 signs out.
Call(r) ==
    /\ Goes(r, "calling", "idle")
    /\ cookie' = IF Refused(held[r]) THEN 0 ELSE cookie
    /\ UNCHANGED <<held, spent, calls, error, tokens, cache>>

\* Time passes.  An access token does not run out between a read that found it
\* good for thirty seconds and the call made with it (axios: ten seconds).
Age(g) ==
    /\ g <= issued
    /\ \/ age[g] = "fresh" /\ age' = [age EXCEPT ![g] = "near"]
       \/ /\ age[g] = "near" /\ age' = [age EXCEPT ![g] = "dead"]
          /\ \A r \in Reads : pc[r] \in {"answering", "calling"} => held[r] # g
    /\ UNCHANGED <<cookie, reading, live, issued, severed, cache>>

\* A refresh token's seven days are over.
Expire(g) ==
    /\ g \in live /\ age[g] = "dead"
    /\ live' = live \ {g}
    /\ severed' = severed \cup {g}
    /\ UNCHANGED <<cookie, reading, issued, age, cache>>

\* The worker that a production page registers claims it.
WorkerClaims ==
    /\ ~worker /\ worker' = TRUE
    /\ UNCHANGED <<cookie, reading, tokens, cached>>

Next ==
    \/ SignIn \/ SignOut \/ WorkerClaims
    \/ \E r \in Reads :
          \/ ReadForCall(r) \/ ReadFromCache(r) \/ ReadForPage(r)
          \/ AnswerAsIs(r) \/ Refresh(r) \/ RefreshFails(r)
          \/ Rotate(r) \/ RotateLost(r) \/ Answer(r) \/ AnswerLost(r) \/ Call(r)
    \/ \E g \in Grants : Age(g) \/ Expire(g)

Spec == Init /\ [][Next]_vars

-----------------------------------------------------------------------------
\* Comment on the request interceptor (lib/api.ts): the session's token is kept
\* fresh by the jwt callback.  So whenever no answer is on its way, the refresh
\* token in the cookie still works, or it expired or its rotation was lost.
SessionKeptFresh ==
    (\A r \in Reads : pc[r] \notin {"rotating", "answering"})
        => cookie = 0 \/ cookie \in live \cup severed

CallSignsOut(r) == Call(r) /\ cookie # 0 /\ cookie' = 0

\* A call signs the user out only if its read found no session, or the refresh
\* before it failed, or it used an answer the service worker had kept: a session
\* whose refresh works, read from the server, never costs the user the session
\* (lib/api.ts; auth.config.ts, jwt).
SignOutHasCause ==
    [][\A r \in Reads :
          CallSignsOut(r) => held[r] = 0 \/ r \in error \/ (worker /\ held[r] = cached)]_vars
=============================================================================
