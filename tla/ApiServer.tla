------------------------------ MODULE ApiServer ------------------------------
(* The HTTP side of server/src: what happens to a request before, between and  *)
(* after the awaits of its middlewares (app.ts, middlewares/, routes/, the      *)
(* single-image endpoint), and the processes it happens in: their start, their  *)
(* graceful shutdown, their crashes (server.ts).                               *)
(*                                                                             *)
(* External: PM2 starts a process again when it exits.  Node may keep a         *)
(* connection after an answer and take one more request on it, though the       *)
(* server has closed, until it has been idle too long; server.close waits for   *)
(* connections, not for handlers.  Redis counts a hit and answers with the      *)
(* count in one step.  A client of Redis that has failed to connect more than   *)
(* three times has ended, and fails every command from then on; the connection  *)
(* of the mail queue never does, and its commands wait.                        *)
EXTENDS Naturals, FiniteSets

CONSTANTS Requests,
          Workers,    \* API processes; they share PostgreSQL and Redis
          Hosts,      \* req.ip
          Users,      \* the users of the access tokens
          None,       \* no token, or one that does not verify
          Traffic,    \* what the requests may be: functions to Sort
          Limit       \* `max` of each limiter

Limiters == {"api", "auth", "upload"}
Kinds == {"health", "ready", "register", "login", "refresh", "logout", "read", "update", "delete",
          "upload"}

\* `token`: a refresh token is in the body, which logout and DELETE /me look for.
Sort == [kind : Kinds, host : Hosts, user : Users \cup {None}, token : BOOLEAN, at : Workers]

ASSUME TrafficAssumption == Traffic \subseteq [Requests -> Sort]
ASSUME LimitAssumption == Limit \in [Limiters -> Nat]
ASSUME NoneAssumption == None \notin Users

VARIABLES phase,     \* where each process is between start and exit
          client,    \* its Redis client
          redisUp,
          req,       \* what each request is, and which process has it
          pc,        \* what its handler waits for, or how it was answered
          open,      \* the requests whose client waits on its connection
          kept,      \* the answered ones whose connection is kept alive
          hits,      \* Redis: <<key, request>> for each hit of the window
          admitted,  \* history: those of them that were within the limit
          victims    \* history: requests answered with an error of Redis

process == <<phase, client>>
store == <<hits, admitted, victims>>
vars == <<process, redisUp, req, pc, open, kept, store>>

\* What a handler waits for: a command of Redis, the mail queue, a query, a body
\* or the CDN.
TokenAwaits == {"looking", "revoking", "issuing", "queueing"}
Queries == {"querying", "writing"}
UploadAwaits == {"buffering", "storing"}
Awaits == Limiters \cup TokenAwaits \cup Queries \cup UploadAwaits \cup {"checking"}
Living == {r \in Requests : pc[r] \in Awaits}
HasConnections(w) == phase[w] \in {"serving", "draining"}
Reachable(w) == redisUp /\ client[w] = "ready"

-----------------------------------------------------------------------------
(* The answers, by the class of their status: 2xx, 4xx, 429, 5xx.  A request    *)
(* that its process took along has none.                                       *)
Ended == {"ok", "refused", "throttled", "failed", "cut"}

ApiErrors == {"BadRequest", "Unauthorized", "NotFound", "Conflict", "PayloadTooLarge",
              "UnsupportedMediaType"}

\* errorHandler: an error it does not know is a 500, the one of the body parsers
\* for a body over 10kb (BodyTooLarge) among them.
ErrorHandler(e) == IF e \in ApiErrors \cup {"ZodError", "SyntaxError"} THEN "refused" ELSE "failed"

-----------------------------------------------------------------------------
Init ==
    /\ phase = [w \in Workers |-> "down"] /\ client = [w \in Workers |-> "ready"]
    /\ redisUp = TRUE
    /\ req \in Traffic
    /\ pc = [r \in Requests |-> "idle"]
    /\ open = {} /\ kept = {} /\ hits = {} /\ admitted = {} /\ victims = {}

To(r, await) == pc' = [pc EXCEPT ![r] = await] /\ UNCHANGED <<open, kept>>

Answer(r, status) ==
    /\ pc' = [pc EXCEPT ![r] = status]
    /\ open' = open \ {r}
    /\ \/ UNCHANGED kept
       \/ r \in open /\ kept' = kept \cup {r}
Throw(r, e) == Answer(r, ErrorHandler(e))

\* A request is accepted, on a connection of its own or, once the server is
\* closed, on one that was kept: up to the first await of app.ts.
Arrive(r) ==
    /\ pc[r] = "idle"
    /\ \/ phase[req[r].at] = "serving" /\ UNCHANGED kept
       \/ /\ phase[req[r].at] = "draining"
          /\ \E c \in kept : req[c].at = req[r].at /\ kept' = kept \ {c}
    /\ \/ req[r].kind = "health" /\ pc' = [pc EXCEPT ![r] = "ok"] /\ UNCHANGED open
       \/ req[r].kind # "health"
          /\ pc' = [pc EXCEPT ![r] = IF req[r].kind = "ready" THEN "checking" ELSE "api"]
          /\ open' = open \cup {r}
    /\ UNCHANGED <<process, redisUp, req, store>>

-----------------------------------------------------------------------------
\* Mutations: every process counts for itself; uploads are counted by address.
KeyPerProcess(l, r) == <<l, req[r].at, IF l = "upload" THEN req[r].user ELSE req[r].host>>
KeyByAddress(l, r) == <<l, req[r].host>>

\* The prefix of createStore and the keyGenerator.
Key(l, r) == <<l, IF l = "upload" THEN req[r].user ELSE req[r].host>>

Count(key) == Cardinality({h \in hits : h[1] = key})
Hit(r) == hits' = hits \cup {<<Key(pc[r], r), r>>}

\* authMiddleware, then what follows it; validateBody, then the handler.
Authenticated(r, then) == IF req[r].user = None THEN Throw(r, "Unauthorized") ELSE then
Validated(r, await) == To(r, await) \/ Throw(r, "ZodError")

\* The parsers of app.ts, where there is a body for them.
Unparsable(r) ==
    /\ req[r].kind \notin {"read", "upload"}
    /\ \E e \in {"BodyTooLarge", "SyntaxError"} : Throw(r, e)

\* auth.service.logout: without a token in the body there is nothing to delete.
Revoke(r) == IF req[r].token THEN To(r, "revoking") ELSE Answer(r, "ok")

\* What the routes do once limiter pc[r] has called next, up to the next await.
Onward(r) ==
    \/ /\ pc[r] = "api"
       /\ \/ Unparsable(r)
          \/ req[r].kind \in {"register", "login"} /\ To(r, "auth")
          \/ req[r].kind = "refresh" /\ (Validated(r, "looking") \/ Throw(r, "Unauthorized"))
          \/ req[r].kind = "logout" /\ Authenticated(r, Revoke(r))
          \/ req[r].kind \in {"read", "delete"} /\ Authenticated(r, To(r, "querying"))
          \/ req[r].kind = "update" /\ Authenticated(r, Validated(r, "querying"))
          \/ req[r].kind = "upload" /\ Authenticated(r, To(r, "upload"))
    \/ pc[r] = "auth" /\ Validated(r, "querying")
    \/ pc[r] = "upload" /\ To(r, "buffering")

\* The store answers with the count, within the limit or over it.
Admit(r) ==
    /\ pc[r] \in Limiters /\ Reachable(req[r].at)
    /\ Count(Key(pc[r], r)) < Limit[pc[r]]
    /\ Hit(r) /\ admitted' = admitted \cup {<<Key(pc[r], r), r>>}
    /\ Onward(r)
    /\ UNCHANGED <<process, redisUp, req, victims>>

Refuse(r) ==
    /\ pc[r] \in Limiters /\ Reachable(req[r].at)
    /\ Count(Key(pc[r], r)) >= Limit[pc[r]]
    /\ Hit(r) /\ Answer(r, "throttled")
    /\ UNCHANGED <<process, redisUp, req, admitted, victims>>

\* Mutations: the store's error is passed on; nobody is served without a count.
FailClosed(r) ==
    /\ pc[r] \in Limiters /\ ~Reachable(req[r].at)
    /\ Throw(r, "RedisError") /\ victims' = victims \cup {r}
    /\ UNCHANGED <<process, redisUp, req, hits, admitted>>
WaitForRedis(r) ==
    /\ pc[r] \in Limiters /\ ~redisUp /\ client[req[r].at] = "ready"
    /\ Onward(r)
    /\ UNCHANGED <<process, redisUp, req, store>>

\* failOpen: the command failed, and the request goes on uncounted.
FailOpen(r) ==
    /\ pc[r] \in Limiters /\ ~Reachable(req[r].at)
    /\ Onward(r)
    /\ UNCHANGED <<process, redisUp, req, store>>

\* Fifteen minutes after the first hit its key expires.
WindowEnds(key) ==
    /\ hits' = {h \in hits : h[1] # key}
    /\ admitted' = {x \in admitted : x[1] # key}
    /\ UNCHANGED <<process, redisUp, req, pc, open, kept, victims>>

-----------------------------------------------------------------------------
(* The handlers.                                                               *)
\* The query each begins with.
Find(r) ==
    \/ req[r].kind = "read" /\ Answer(r, "ok")
    \/ req[r].kind \in {"update", "delete"} /\ To(r, "writing")
    \/ req[r].kind \in {"read", "update", "delete"} /\ Throw(r, "NotFound")
    \/ req[r].kind = "register" /\ (To(r, "writing") \/ Throw(r, "Conflict"))
    \/ req[r].kind = "login" /\ (To(r, "issuing") \/ Throw(r, "Unauthorized"))

\* The row is written; the unique index may know the email meanwhile.
Write(r) ==
    \/ req[r].kind = "update" /\ Answer(r, "ok")
    \/ req[r].kind = "delete" /\ Revoke(r)
    \/ req[r].kind = "register" /\ (To(r, "issuing") \/ Throw(r, "Conflict"))

\* A query answers, or finds the database away.
Query(r) ==
    /\ \/ pc[r] = "querying" /\ Find(r)
       \/ pc[r] = "writing" /\ Write(r)
       \/ pc[r] \in Queries /\ Throw(r, "DatabaseError")
    /\ UNCHANGED <<process, redisUp, req, store>>

\* The get, the del and the setex of auth.service.ts.
TokenCommand(r) ==
    \/ pc[r] = "looking" /\ (To(r, "revoking") \/ Throw(r, "Unauthorized"))
    \/ /\ pc[r] = "revoking"
       /\ IF req[r].kind = "refresh" THEN To(r, "issuing") ELSE Answer(r, "ok")
    \/ /\ pc[r] = "issuing"
       /\ IF req[r].kind = "register" THEN To(r, "queueing") ELSE Answer(r, "ok")

\* It is answered, or fails with the client it goes through.
UseTokens(r) ==
    /\ pc[r] \in {"looking", "revoking", "issuing"}
    /\ IF Reachable(req[r].at) THEN TokenCommand(r) /\ UNCHANGED victims
       ELSE Throw(r, "RedisError") /\ victims' = victims \cup {r}
    /\ UNCHANGED <<process, redisUp, req, hits, admitted>>

\* register awaits enqueueWelcomeEmail, whose connection waits for Redis; what
\* else goes wrong there is swallowed.
Enqueue(r) ==
    /\ pc[r] = "queueing" /\ redisUp
    /\ Answer(r, "ok")
    /\ UNCHANGED <<process, redisUp, req, store>>

\* GET /ready: the database and Redis both answered, or 503.
Check(r) ==
    /\ pc[r] = "checking"
    /\ IF Reachable(req[r].at) THEN Answer(r, "ok") \/ Answer(r, "failed") ELSE Answer(r, "failed")
    /\ victims' = IF Reachable(req[r].at) THEN victims ELSE victims \cup {r}
    /\ UNCHANGED <<process, redisUp, req, hits, admitted>>

\* POST /uploads/image: multer's refusals as translate() has them and the errors
\* that are not its own; the controller's, without credentials, file or format.
MulterErrors == {"PayloadTooLarge", "BadRequest", "StreamError"}
UploadErrors == {"ServiceUnavailable", "BadRequest", "UnsupportedMediaType"}
Buffered(r) ==
    /\ pc[r] = "buffering"
    /\ \/ \E e \in MulterErrors \cup UploadErrors : Throw(r, e)
       \/ To(r, "storing")
    /\ UNCHANGED <<process, redisUp, req, store>>

\* toDecodable, then uploadToImageKit, which resolves or rejects.
UploadToImageKit(r) == Answer(r, "ok") \/ Throw(r, "ServiceUnavailable")
Stored(r) ==
    /\ pc[r] = "storing"
    /\ UploadToImageKit(r) \/ \E e \in {"BadRequest", "DecodeError"} : Throw(r, e)
    /\ UNCHANGED <<process, redisUp, req, store>>

\* The client closes its connection; the handler knows nothing of it.
ClientLeaves(r) ==
    /\ r \in open
    /\ open' = open \ {r}
    /\ UNCHANGED <<process, redisUp, req, pc, kept, store>>

\* A kept connection goes: its client closes it, or keepAliveTimeout has passed.
IdleEnds(r) ==
    /\ r \in kept
    /\ kept' = kept \ {r}
    /\ UNCHANGED <<process, redisUp, req, pc, open, store>>

-----------------------------------------------------------------------------
(* The process.                                                                *)
Moves(w, from, to) ==
    /\ phase[w] = from
    /\ phase' = [phase EXCEPT ![w] = to]
    /\ UNCHANGED <<redisUp, req, pc, open, kept, store>>

Exit(w) ==
    /\ phase' = [phase EXCEPT ![w] = "down"]
    /\ client' = [client EXCEPT ![w] = "ready"]
    /\ pc' = [r \in Requests |-> IF r \in Living /\ req[r].at = w THEN "cut" ELSE pc[r]]
    /\ open' = {r \in open : req[r].at # w}
    /\ kept' = {r \in kept : req[r].at # w}
    /\ UNCHANGED <<redisUp, req, store>>

\* startServer: connectDatabase, redis.ping, listen.  A process that fails exits
\* with status 1 before it has done anything, and PM2 starts it again.
Start(w) == /\ \E r \in Requests : req[r].at = w /\ pc[r] = "idle"   \* bound: there is work left
            /\ Reachable(w) /\ Moves(w, "down", "serving") /\ UNCHANGED client

\* Mutation: the connections to the backends are closed with the server.
ShutdownAtOnce(w) == Moves(w, "serving", "closing") /\ UNCHANGED client

\* SIGTERM or SIGINT: server.close().  A second signal waits for the same event.
Shutdown(w) == Moves(w, "serving", "draining") /\ UNCHANGED client

\* The last connection has gone: the callback of server.close disconnects.
Closed(w) == /\ \A r \in open \cup kept : req[r].at # w
             /\ Moves(w, "draining", "closing") /\ UNCHANGED client

QuitOnSuccess(w) == phase[w] = "closing" /\ Reachable(w) /\ Exit(w)   \* exit not in `finally`

\* redis.quit() resolves or rejects, and the process exits with status 0.
Quit(w) == phase[w] = "closing" /\ Exit(w)

Crash(w) == phase[w] # "down" /\ Exit(w)

ClientEnds(w) ==
    /\ ~redisUp /\ phase[w] # "down" /\ client[w] = "ready"
    /\ client' = [client EXCEPT ![w] = "ended"]
    /\ UNCHANGED <<phase, redisUp, req, pc, open, kept, store>>

RedisTurns == redisUp' = ~redisUp /\ UNCHANGED <<process, req, pc, open, kept, store>>

Keys == {h[1] : h \in hits}
Handling(r) ==
    Query(r) \/ UseTokens(r) \/ Enqueue(r) \/ Check(r) \/ Buffered(r) \/ Stored(r)
Proceed(r) == Admit(r) \/ Refuse(r) \/ FailOpen(r) \/ Handling(r)

Next ==
    \/ \E r \in Requests : Arrive(r) \/ Proceed(r) \/ ClientLeaves(r) \/ IdleEnds(r)
    \/ \E w \in Workers :
          \/ Start(w) \/ Shutdown(w) \/ Closed(w) \/ Quit(w) \/ Crash(w) \/ ClientEnds(w)
    \/ \E key \in Keys : WindowEnds(key)
    \/ RedisTurns

\* Every command and query ends in a reply or an error, but those that wait for
\* Redis; every body in its last byte or an error; an idle connection times out;
\* and a shutdown goes on once the connections are closed.
Fairness ==
    /\ \A r \in Requests : WF_vars(Proceed(r)) /\ WF_vars(IdleEnds(r))
    /\ \A w \in Workers : WF_vars(Closed(w) \/ Quit(w))

Spec == Init /\ [][Next]_vars /\ Fairness

-----------------------------------------------------------------------------
TypeOK ==
    /\ phase \in [Workers -> {"down", "serving", "draining", "closing"}]
    /\ client \in [Workers -> {"ready", "ended"}]
    /\ redisUp \in BOOLEAN
    /\ req \in [Requests -> Sort]
    /\ pc \in [Requests -> {"idle"} \cup Awaits \cup Ended]
    /\ open \subseteq Requests /\ kept \subseteq Requests /\ victims \subseteq Requests
    /\ hits \subseteq (Limiters \X (Hosts \cup Users \cup {None})) \X Requests
    /\ admitted \subseteq hits

\* Whatever process serves them, no address and, for uploads, no user gets more
\* requests past a limiter in a window than its limit, those apart that were
\* served uncounted (the comment on createStore).
Whose(l, r) == IF l = "upload" THEN req[r].user ELSE req[r].host
LimitHolds ==
    \A l \in Limiters, r \in Requests :
        Cardinality({x \in admitted : x[1][1] = l /\ Whose(l, x[2]) = Whose(l, r)}) <= Limit[l]

\* An upload is turned away only when the user itself has sent too many in this
\* window: not because of the others behind the same address, and not because of
\* what the user has read meanwhile (image.routes.ts:13-18, rateLimiter.ts:59-61).
RefusedForOwnUploads ==
    [][\A r \in Requests :
          (pc[r] = "upload" /\ pc'[r] = "throttled") =>
              LET own == {h \in hits' : req[h[2]].user = req[r].user
                                         /\ req[h[2]].kind = "upload" /\ h[1][1] = "upload"}
              IN Cardinality(own) > Limit["upload"]]_vars

\* As long as a client waits for an answer the process that has its request has
\* its connections and has not exited, crashes apart.
ConnectionsOutliveRequests == \A r \in open : r \in Living /\ HasConnections(req[r].at)

\* Redis fails nobody whose work is not in it.  Through every limiter, on a
\* client that may have ended for ever, a profile is read and changed and a photo
\* uploaded; of the rest the requests it can answer with a 5xx are those that
\* read or keep a refresh token (a logout or DELETE /me only of one in its body)
\* and the probe that is asked about it (the comment on failOpen).
NeedsRedis(r) ==
    \/ req[r].kind \in {"ready", "register", "login", "refresh"}
    \/ req[r].kind \in {"logout", "delete"} /\ req[r].token
RedisTakesDownOnlyItsOwn == \A r \in victims : NeedsRedis(r)

\* While Redis is away a registration whose account and token are stored waits
\* for the mail queue.
Stuck(r) == pc[r] = "queueing" /\ ~redisUp

\* Every request ends, whatever has gone and whether or not it comes back, except
\* a registration that finds Redis away while it waits for the mail queue, and
\* that again and again (auth.service.ts:97 awaits what emailQueue.ts:22 lets wait).
EveryRequestEnds ==
    \A r \in Requests : (r \in Living ~> r \notin Living) \/ []<>Stuck(r)

\* A signalled process exits in the end, with no timer of its own, once its
\* clients stop sending on kept connections: except while such a registration
\* holds its connection open, for server.close to wait on (server.ts:23).
ShutdownEnds ==
    \A w \in Workers :
        \/ phase[w] \in {"draining", "closing"} ~> phase[w] = "down"
        \/ \E r \in Requests : []<>(Stuck(r) /\ req[r].at = w /\ r \in open)
=============================================================================
