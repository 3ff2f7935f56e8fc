----------------------------- MODULE AuthTokens -----------------------------
(* Accounts and refresh tokens: server/src/services/auth.service.ts with the   *)
(* handlers of controllers/auth.controller.ts, one action per stretch between  *)
(* two awaits.  Accounts are rows of PostgreSQL, a refresh token is a key of    *)
(* Redis, and the three operations on them (get, del, setex) are separate      *)
(* commands, so that requests interleave between any two.                      *)
(*                                                                             *)
(* Ids are never reused (uuids, a jwtid per token), and a request makes at     *)
(* most one account and one token: both are named by the request that made     *)
(* them.  Passwords are the choice of LoginCompare; isActive is never written  *)
(* by this code and is left out.                                               *)
(*                                                                             *)
(* Redis is reached over two connections.  The shared client gives up: its     *)
(* commands fail while Redis is down, and after three attempts it never        *)
(* reconnects (database/redis.ts).  The queue's connection has                 *)
(* maxRetriesPerRequest null and waits as long as it takes (jobs/emailQueue).  *)
EXTENDS FiniteSets

CONSTANTS Requests, Emails, None

ASSUME NoneFresh == None \notin Requests \cup Emails

VARIABLES op,          \* what each request is
          pc,          \* where it is
          email,       \* input.email of a registration: the email of account r
          uid,         \* the account a request acts for: payload.userId
          presented,   \* the refresh token in its body
          users,       \* the User table: the registrations that made the rows
          stored,      \* the keys in Redis: the requests that made the tokens
          gone,        \* history: tokens that were deleted or have expired
          redisUp,
          client       \* the shared Redis client: "ready" or "ended"

input == <<op, email, uid, presented>>
redis == <<redisUp, client>>
vars == <<input, pc, users, stored, gone, redis>>

Ops == {"register", "login", "refresh", "logout", "deleteMe"}
Busy == {"creating", "comparing", "deleting", "storing", "queueing", "removing", "revoking"}
Ended == {"answered", "refused", "failed"}
TokenOps == {"register", "login", "refresh"}

TypeOK ==
    /\ op \in [Requests -> Ops \cup {None}]
    /\ pc \in [Requests -> {"idle"} \cup Busy \cup Ended]
    /\ email \in [Requests -> Emails \cup {None}]
    /\ uid \in [Requests -> Requests \cup {None}]
    /\ presented \in [Requests -> Requests \cup {None}]
    /\ users \subseteq Requests /\ stored \subseteq Requests /\ gone \subseteq Requests
    /\ redisUp \in BOOLEAN /\ client \in {"ready", "ended"}

\* The tokens some client has been given.
Given == {r \in Requests : pc[r] = "answered" /\ op[r] \in TokenOps}
Taken(e) == \E u \in users : email[u] = e
Reachable == redisUp /\ client = "ready"

Init ==
    /\ op = [r \in Requests |-> None] /\ pc = [r \in Requests |-> "idle"]
    /\ email = [r \in Requests |-> None] /\ uid = [r \in Requests |-> None]
    /\ presented = [r \in Requests |-> None]
    /\ users = {} /\ stored = {} /\ gone = {}
    /\ redisUp = TRUE /\ client = "ready"

-----------------------------------------------------------------------------
\* A new request reaches `at`, for account u, with token t in its body.
Arrives(r, what, e, u, t, at) ==
    /\ pc[r] = "idle"
    /\ op' = [op EXCEPT ![r] = what]
    /\ email' = [email EXCEPT ![r] = e]
    /\ uid' = [uid EXCEPT ![r] = u]
    /\ presented' = [presented EXCEPT ![r] = t]
    /\ pc' = [pc EXCEPT ![r] = at]
    /\ UNCHANGED redis

Moves(r, from, to) ==
    /\ pc[r] = from
    /\ pc' = [pc EXCEPT ![r] = to]
    /\ UNCHANGED <<input, redis>>

Forget(t) == stored' = stored \ {t} /\ gone' = gone \cup (stored \cap {t})

\* The first query of a register, a login or a deleteMe fails: a 500, nothing done.
FindFails(r, what) ==
    /\ what \in {"register", "login"} \/ (what = "deleteMe" /\ Given # {})
    /\ Arrives(r, what, None, None, None, "failed")
    /\ UNCHANGED <<users, stored, gone>>

\* register, findByEmail: the fast path.
RegisterFind(r, e) ==
    /\ Arrives(r, "register", e, None, None, IF Taken(e) THEN "refused" ELSE "creating")
    /\ UNCHANGED <<users, stored, gone>>

\* Mutation: the check before the hash is trusted and the column is not unique.
RegisterCreateUnchecked(r) ==
    /\ Moves(r, "creating", "storing")
    /\ users' = users \cup {r}
    /\ UNCHANGED <<stored, gone>>

\* register, create: the unique index decides, and the loser gets a 409.
RegisterCreate(r) ==
    /\ Moves(r, "creating", IF Taken(email[r]) THEN "refused" ELSE "storing")
    /\ users' = IF Taken(email[r]) THEN users ELSE users \cup {r}
    /\ UNCHANGED <<stored, gone>>

\* The insert fails, before or after it is committed: a 500.
CreateFails(r) ==
    /\ Moves(r, "creating", "failed")
    /\ users' \in {users} \cup IF Taken(email[r]) THEN {} ELSE {users \cup {r}}
    /\ UNCHANGED <<stored, gone>>

LoginFind(r, e) ==
    /\ \/ ~Taken(e) /\ Arrives(r, "login", None, None, None, "refused")
       \/ \E u \in users : email[u] = e /\ Arrives(r, "login", None, u, None, "comparing")
    /\ UNCHANGED <<users, stored, gone>>

LoginCompare(r) ==
    /\ \E to \in {"refused", "storing"} : Moves(r, "comparing", to)
    /\ UNCHANGED <<users, stored, gone>>

\* refreshAccessToken, redis.get of the presented token's key: it fails, or its
\* reply is lost, or the key is there or not.
RefreshGet(r, t) ==
    /\ t \in Given
    /\ \E at \in {"failed", IF t \in stored THEN "deleting" ELSE "refused"} :
          /\ at # "failed" => Reachable
          /\ Arrives(r, "refresh", None, uid[t], t, at)
    /\ UNCHANGED <<users, stored, gone>>

\* Mutation: the used token is left valid.
RefreshKeeps(r) ==
    /\ Reachable
    /\ Moves(r, "deleting", "storing")
    /\ UNCHANGED <<users, stored, gone>>

RefreshDelete(r) ==
    /\ Reachable
    /\ Moves(r, "deleting", "storing")
    /\ Forget(presented[r])
    /\ UNCHANGED users

AfterStore(r) == IF op[r] = "register" THEN "queueing" ELSE "answered"

\* Mutation: a token that could not be stored is handed out all the same.
StoreBestEffort(r) ==
    /\ Moves(r, "storing", AfterStore(r))
    /\ stored' = IF Reachable THEN stored \cup {r} ELSE stored
    /\ UNCHANGED <<users, gone>>

\* storeRefreshToken of the token just made.
StoreToken(r) ==
    /\ Reachable
    /\ Moves(r, "storing", AfterStore(r))
    /\ stored' = stored \cup {r}
    /\ UNCHANGED <<users, gone>>

\* enqueueWelcomeEmail: an error is swallowed, a missing Redis is waited for.
Enqueue(r) ==
    /\ redisUp
    /\ Moves(r, "queueing", "answered")
    /\ UNCHANGED <<users, stored, gone>>

\* logout, which answers at once without a token in the body; with one, the del
\* is answered, its reply is lost, or it fails.
Logout(r, t, body) ==
    /\ t \in Given /\ body \in {t, None}
    /\ \E at \in {"answered", "failed"} :
          /\ Arrives(r, "logout", None, uid[t], body, at)
          /\ \/ body = None /\ at = "answered" /\ UNCHANGED <<stored, gone>>
             \/ body # None /\ Reachable /\ Forget(body)
             \/ body # None /\ ~Reachable /\ at = "failed" /\ UNCHANGED <<stored, gone>>
    /\ UNCHANGED users

\* deleteMe: findUserById, then the row, then the token in the body.
DeleteFind(r, t, body) ==
    /\ t \in Given /\ body \in {t, None}
    /\ Arrives(r, "deleteMe", None, uid[t], body, IF uid[t] \in users THEN "removing" ELSE "refused")
    /\ UNCHANGED <<users, stored, gone>>

DeleteUser(r) ==
    /\ Moves(r, "removing", IF uid[r] \notin users THEN "failed"
                            ELSE IF presented[r] = None THEN "answered" ELSE "revoking")
    /\ users' = users \ {uid[r]}
    /\ UNCHANGED <<stored, gone>>

\* The delete fails, before or after it is committed; the token is left alone.
DeleteFails(r) ==
    /\ Moves(r, "removing", "failed")
    /\ users' \in {users, users \ {uid[r]}}
    /\ UNCHANGED <<stored, gone>>

DeleteToken(r) ==
    /\ Reachable
    /\ Moves(r, "revoking", "answered")
    /\ Forget(presented[r])
    /\ UNCHANGED users

\* Mutation: a client that has ended leaves its callers waiting.
UnreachableWhileDown(r) ==
    /\ ~redisUp
    /\ \E from \in {"deleting", "storing", "revoking"} : Moves(r, from, "failed")
    /\ UNCHANGED <<users, stored, gone>>

\* A command on the shared client fails.
Unreachable(r) ==
    /\ ~Reachable
    /\ \E from \in {"deleting", "storing", "revoking"} : Moves(r, from, "failed")
    /\ UNCHANGED <<users, stored, gone>>

\* A command runs and its reply is lost with the connection: the request fails,
\* and when is all that is left open.
ReplyLost(r) ==
    /\ Reachable
    /\ \/ /\ Moves(r, "storing", "failed")
          /\ stored' = stored \cup {r} /\ UNCHANGED gone
       \/ /\ \E from \in {"deleting", "revoking"} : Moves(r, from, "failed")
          /\ Forget(presented[r])
    /\ UNCHANGED users

\* A token's seven days are over.
Expire(t) ==
    /\ t \in stored
    /\ Forget(t)
    /\ UNCHANGED <<input, pc, users, redis>>

RedisFails ==
    /\ redisUp /\ redisUp' = FALSE
    /\ UNCHANGED <<input, pc, users, stored, gone, client>>

\* retryStrategy returns null after the third attempt: the client is closed.
ClientGivesUp ==
    /\ ~redisUp /\ client = "ready" /\ client' = "ended"
    /\ UNCHANGED <<input, pc, users, stored, gone, redisUp>>

RedisReturns ==
    /\ ~redisUp /\ redisUp' = TRUE
    /\ UNCHANGED <<input, pc, users, stored, gone, client>>

\* The process exits and is started again: its requests are cut short.
Restart ==
    /\ client = "ended" \/ \E r \in Requests : pc[r] \in Busy
    /\ pc' = [r \in Requests |-> IF pc[r] \in Busy THEN "failed" ELSE pc[r]]
    /\ client' = "ready"
    /\ UNCHANGED <<input, users, stored, gone, redisUp>>

\* What the server does next for a request it has begun.
Serve(r) ==
    \/ RegisterCreate(r) \/ CreateFails(r) \/ LoginCompare(r)
    \/ RefreshDelete(r) \/ StoreToken(r) \/ Enqueue(r)
    \/ DeleteUser(r) \/ DeleteFails(r) \/ DeleteToken(r) \/ Unreachable(r)

Next ==
    \/ \E r \in Requests, e \in Emails : RegisterFind(r, e) \/ LoginFind(r, e)
    \/ \E r \in Requests, what \in Ops : FindFails(r, what)
    \/ \E r, t \in Requests : RefreshGet(r, t)
    \/ \E r, t \in Requests, body \in Requests \cup {None} :
          Logout(r, t, body) \/ DeleteFind(r, t, body)
    \/ \E r \in Requests : Serve(r) \/ ReplyLost(r)
    \/ \E t \in Requests : Expire(t)
    \/ RedisFails \/ ClientGivesUp \/ RedisReturns \/ Restart

Safety == Init /\ [][Next]_vars

\* Queries end, and a command that can be sent over and over is sent in the end;
\* nothing makes Redis come back.
Spec == Safety /\ \A r \in Requests : SF_vars(Serve(r))

\* The operator restarts Redis when it is down.
OperatedSpec == Spec /\ WF_vars(RedisReturns)

-----------------------------------------------------------------------------
\* Registrations that race past findByEmail still make one account per email
\* (register, lines 63-77).
OneAccountPerEmail == \A u, v \in users : email[u] = email[v] => u = v

\* A refresh token a client was given is in Redis, unless it was used, logged out
\* or has expired since: no answer promises a token that was never stored.
GivenTokenIsKnown == Given \subseteq stored \cup gone

\* Once a refresh, a logout or an account deletion has answered, the token it
\* presented is not in Redis, and no command still under way puts it back: the
\* rotation of lines 167-171.
SpentTokenIsGone ==
    \A r \in Requests :
        pc[r] = "answered" /\ presented[r] # None => presented[r] \notin stored

\* No request waits for ever, provided Redis comes back.
EveryRequestEnds == \A r \in Requests : pc[r] \in Busy ~> pc[r] \notin Busy

\* Comment on enqueueWelcomeEmail: the API stays responsive even if Redis is
\* unavailable, so a registration does not wait for it.
RegistrationAnswers == \A r \in Requests : pc[r] = "queueing" ~> pc[r] # "queueing"
=============================================================================
