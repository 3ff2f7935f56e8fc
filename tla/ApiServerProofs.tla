-------------------------- MODULE ApiServerProofs --------------------------
(* The HTTP side for any requests, processes, addresses and limits.  A step of  *)
(* a request moves its pc to an await or to an answer (Advances) and a step of  *)
(* a process leaves the counters alone, so each half of the invariant is        *)
(* disturbed by few actions.                                                   *)
EXTENDS ApiServer, FiniteSetTheorems, TLAPS

KeyType == Limiters \X (Hosts \cup Users \cup {None})

\* What Redis must answer for the request to end well, limiters apart.
Commands == {"checking", "looking", "revoking", "issuing"}

\* Who waits in the limiter of uploads uploads, who waits for a command needs it.
KindsFit ==
    \A r \in Requests :
        /\ pc[r] = "upload" => req[r].kind = "upload"
        /\ pc[r] \in Commands => NeedsRedis(r)

\* A process keeps connections only while it has any.
KeptServed == \A c \in kept : HasConnections(req[c].at)

\* A request hits each of its limiters once, the general one first.
HitOnce ==
    \A h \in hits :
        /\ pc[h[2]] \notin {"idle", "api"}
        /\ pc[h[2]] \in {"auth", "upload"} => h[1][1] = "api"

\* Every hit is under the key of its request, and those of uploads are of uploads.
HitsKeyed ==
    \A h \in hits : /\ h[1] = Key(h[1][1], h[2])
                    /\ h[1][1] = "upload" => req[h[2]].kind = "upload"

AdmittedWithin ==
    /\ IsFiniteSet(hits)
    /\ \A k \in KeyType : Cardinality({x \in admitted : x[1] = k}) <= Limit[k[1]]

\* The two halves of the invariant: where the requests are, what is counted.
Places == /\ phase \in [Workers -> {"down", "serving", "draining", "closing"}]
          /\ client \in [Workers -> {"ready", "ended"}]
          /\ redisUp \in BOOLEAN /\ req \in [Requests -> Sort]
          /\ pc \in [Requests -> {"idle"} \cup Awaits \cup Ended]
          /\ open \subseteq Requests /\ kept \subseteq Requests /\ victims \subseteq Requests
          /\ KindsFit /\ ConnectionsOutliveRequests /\ KeptServed /\ RedisTakesDownOnlyItsOwn
Counts == /\ hits \subseteq KeyType \X Requests /\ admitted \subseteq hits
          /\ HitOnce /\ HitsKeyed /\ AdmittedWithin
Inv == Places /\ Counts

-----------------------------------------------------------------------------
\* What a step of a request does to the request.
Advances(r, v) ==
    /\ pc' = [pc EXCEPT ![r] = v]
    /\ open' = IF v \in Awaits THEN open ELSE open \ {r}
    /\ kept' \subseteq kept \cup (open \cap {r})

Handled == (Awaits \ Limiters)
AfterHandling == {"writing", "revoking", "issuing", "queueing", "storing"} \cup Ended

LEMMA ErrorIsAnswer ==
  ASSUME NEW e
  PROVE  ErrorHandler(e) \in {"refused", "failed"}
  BY DEF ErrorHandler

LEMMA AnswerAdvances ==
  ASSUME NEW r \in Requests, NEW v \in Ended, Answer(r, v)
  PROVE  Advances(r, v)
  BY DEF Answer, Advances, Ended, Awaits, Limiters, TokenAwaits, Queries, UploadAwaits

LEMMA ThrowAdvances ==
  ASSUME NEW r \in Requests, NEW e, Throw(r, e)
  PROVE  \E v \in {"refused", "failed"} : Advances(r, v)
<1>1. PICK v \in {"refused", "failed"} : v = ErrorHandler(e)
  BY ErrorIsAnswer
<1>2. Answer(r, v)
  BY <1>1 DEF Throw
<1> QED BY <1>2, AnswerAdvances DEF Ended

LEMMA ToAdvances ==
  ASSUME NEW r \in Requests, NEW v \in Awaits, To(r, v)
  PROVE  Advances(r, v)
  BY DEF To, Advances

\* Deleting the token of the body, if there is one.
LEMMA RevokeAdvances ==
  ASSUME NEW r \in Requests, Revoke(r), req[r].kind \in {"logout", "delete"}
  PROVE  \E v \in {"revoking", "ok"} : Advances(r, v) /\ (v \in Commands => NeedsRedis(r))
<1>1. CASE req[r].token
  <2>1. Advances(r, "revoking")
    BY <1>1, ToAdvances DEF Revoke, Awaits, TokenAwaits, Queries, UploadAwaits
  <2> QED BY <1>1, <2>1 DEF NeedsRedis
<1>2. CASE ~req[r].token
  BY <1>2, AnswerAdvances DEF Revoke, Ended, Commands
<1> QED BY <1>1, <1>2

\* After a limiter: another limiter only after the general one, uploads to their
\* own, and to a command of Redis only who needs it.
LEMMA OnwardAdvances ==
  ASSUME NEW r \in Requests, Onward(r)
  PROVE  \E v \in (Awaits \ {"api"}) \cup Ended :
            /\ Advances(r, v)
            /\ v \in {"auth", "upload"} => pc[r] = "api"
            /\ v = "upload" => req[r].kind = "upload"
            /\ v \in Commands => NeedsRedis(r)
<1> USE DEF Awaits, Limiters, TokenAwaits, Queries, UploadAwaits, Commands
<1>1. CASE \E e : Throw(r, e)
  BY <1>1, ThrowAdvances DEF Ended
<1>2. CASE pc[r] = "api" /\ To(r, "auth")
  BY <1>2, ToAdvances
<1>3. CASE pc[r] = "api" /\ req[r].kind = "upload" /\ To(r, "upload")
  BY <1>3, ToAdvances
<1>4. CASE To(r, "querying")
  BY <1>4, ToAdvances
<1>5. CASE To(r, "buffering")
  BY <1>5, ToAdvances
<1>6. CASE req[r].kind = "refresh" /\ To(r, "looking")
  BY <1>6, ToAdvances DEF NeedsRedis
<1>7. CASE req[r].kind = "logout" /\ Revoke(r)
  BY <1>7, RevokeAdvances DEF Ended
<1> QED BY <1>1, <1>2, <1>3, <1>4, <1>5, <1>6, <1>7
        DEF Onward, Authenticated, Validated, Unparsable

\* A handler leads to no limiter, to a command of Redis only who needs it, and
\* only those are failed by one.
LEMMA HandlingAdvances ==
  ASSUME NEW r \in Requests, Handling(r), KindsFit
  PROVE  /\ UNCHANGED <<process, redisUp, req, hits, admitted>>
         /\ pc[r] \in Handled
         /\ victims' \in {victims, victims \cup {r}}
         /\ victims' # victims => NeedsRedis(r)
         /\ \E v \in AfterHandling : Advances(r, v) /\ (v \in Commands => NeedsRedis(r))
<1> DEFINE Goal == \E v \in AfterHandling : Advances(r, v) /\ (v \in Commands => NeedsRedis(r))
<1>1. ASSUME NEW e, Throw(r, e) PROVE Goal
  BY <1>1, ThrowAdvances DEF Ended, AfterHandling, Commands
<1>2. ASSUME NEW v \in {"ok", "failed"}, Answer(r, v) PROVE Goal
  BY <1>2, AnswerAdvances DEF Ended, AfterHandling, Commands
<1>3. ASSUME NEW v \in {"writing", "revoking", "issuing", "queueing", "storing"}, To(r, v),
             v \in Commands => NeedsRedis(r)
      PROVE  Goal
  BY <1>3, ToAdvances DEF Awaits, TokenAwaits, Queries, UploadAwaits, AfterHandling
<1>4. ASSUME Revoke(r), req[r].kind = "delete" PROVE Goal
  BY <1>4, RevokeAdvances DEF Ended, AfterHandling
<1> HIDE DEF Goal
<1>5. ASSUME Query(r) PROVE Goal
  <2>1. ASSUME Find(r) PROVE Goal
    BY <1>1, <1>2, <1>3, <2>1 DEF Find, NeedsRedis, Commands
  <2>2. ASSUME Write(r) PROVE Goal
    BY <1>1, <1>2, <1>3, <1>4, <2>2 DEF Write, NeedsRedis
  <2> QED BY <1>1, <1>5, <2>1, <2>2 DEF Query
<1>6. ASSUME UseTokens(r) PROVE Goal
  <2>1. NeedsRedis(r)
    BY <1>6 DEF UseTokens, KindsFit, Commands
  <2> QED BY <1>1, <1>2, <1>3, <1>6, <2>1 DEF UseTokens, TokenCommand
<1>7. ASSUME Enqueue(r) \/ Check(r) PROVE Goal
  BY <1>2, <1>7 DEF Enqueue, Check
<1>8. ASSUME Buffered(r) \/ Stored(r) PROVE Goal
  BY <1>1, <1>2, <1>3, <1>8 DEF Buffered, Stored, UploadToImageKit, Commands
<1>9. Goal
  BY <1>5, <1>6, <1>7, <1>8 DEF Handling
<1>10. UNCHANGED <<process, redisUp, req, hits, admitted>>
  BY DEF Handling, Query, UseTokens, Enqueue, Check, Buffered, Stored, store
<1>11. pc[r] \in Handled
  BY DEF Handling, Query, UseTokens, Enqueue, Check, Buffered, Stored, Handled, Awaits,
         Limiters, TokenAwaits, Queries, UploadAwaits
<1>12. victims' \in {victims, victims \cup {r}} /\ (victims' # victims => NeedsRedis(r))
  <2>1. CASE UseTokens(r) \/ Check(r)
    BY <2>1 DEF UseTokens, Check, KindsFit, Commands
  <2>2. CASE Query(r) \/ Enqueue(r) \/ Buffered(r) \/ Stored(r)
    BY <2>2 DEF Query, Enqueue, Buffered, Stored, store
  <2> QED BY <2>1, <2>2 DEF Handling
<1> QED BY <1>9, <1>10, <1>11, <1>12 DEF Goal

-----------------------------------------------------------------------------
LEMMA InitInv == Init => Inv
<1> SUFFICES ASSUME Init PROVE Inv
  OBVIOUS
<1>1. Places
  BY TrafficAssumption DEF Init, Places, KindsFit, ConnectionsOutliveRequests, KeptServed,
                           RedisTakesDownOnlyItsOwn, Commands
<1>2. \A k \in KeyType : {x \in admitted : x[1] = k} = {} /\ 0 <= Limit[k[1]]
  BY LimitAssumption DEF Init, KeyType
<1>3. Counts
  BY <1>2, FS_EmptySet DEF Init, Counts, HitOnce, HitsKeyed, AdmittedWithin
<1> QED BY <1>1, <1>3 DEF Inv

LEMMA AdvanceKeepsPlaces ==
  ASSUME Places, NEW r \in Requests, NEW v \in Awaits \cup Ended, Advances(r, v),
         pc[r] \in Awaits, UNCHANGED <<process, redisUp, req>>,
         v = "upload" => req[r].kind = "upload",
         v \in Commands => NeedsRedis(r),
         victims' \subseteq Requests, RedisTakesDownOnlyItsOwn'
  PROVE  Places'
<1>1. /\ pc' \in [Requests -> {"idle"} \cup Awaits \cup Ended]
      /\ open' \subseteq Requests /\ kept' \subseteq Requests
  BY DEF Places, Advances
<1>2. KindsFit'
  BY DEF Places, Advances, KindsFit, NeedsRedis
<1>3. ConnectionsOutliveRequests'
  BY DEF Places, Advances, ConnectionsOutliveRequests, Living, HasConnections, process
<1>4. KeptServed'
  BY DEF Places, Advances, ConnectionsOutliveRequests, KeptServed, HasConnections, process
<1> QED BY <1>1, <1>2, <1>3, <1>4 DEF Places, process

LEMMA AdvanceKeepsCounts ==
  ASSUME Places, Counts, NEW r \in Requests, NEW v \in (Awaits \ {"api"}) \cup Ended,
         pc' = [pc EXCEPT ![r] = v],
         v \in {"auth", "upload"} => pc[r] \in {"idle", "api"},
         UNCHANGED <<req, hits, admitted>>
  PROVE  Counts'
<1>1. HitOnce'
  BY DEF Counts, Places, HitOnce, Awaits, Limiters, TokenAwaits, Queries, UploadAwaits, Ended
<1>2. HitsKeyed' /\ AdmittedWithin'
  BY DEF Counts, HitsKeyed, AdmittedWithin, Key
<1> QED BY <1>1, <1>2 DEF Counts

LEMMA ArriveKeeps ==
  ASSUME Inv, NEW r \in Requests, Arrive(r)
  PROVE  Inv'
<1> USE DEF Inv
<1>1. PICK v \in {"ok", "checking", "api"} : pc' = [pc EXCEPT ![r] = v]
  BY DEF Arrive
<1>2. /\ open' \subseteq open \cup {r} /\ kept' \subseteq kept
      /\ pc[r] = "idle" /\ HasConnections(req[r].at)
      /\ UNCHANGED <<phase, client, redisUp, req, hits, admitted, victims>>
  BY DEF Arrive, HasConnections, process, store
<1>6. r \in open' => v # "ok"
  <2>1. r \notin open
    BY <1>2 DEF Places, ConnectionsOutliveRequests, Living, Awaits, Limiters, TokenAwaits,
                  Queries, UploadAwaits
  <2> QED BY <1>1, <2>1 DEF Arrive, Places
<1>3. Places'
  <2>1. /\ pc' \in [Requests -> {"idle"} \cup Awaits \cup Ended]
        /\ open' \subseteq Requests /\ kept' \subseteq Requests
    BY <1>1, <1>2 DEF Places, Awaits, Limiters, Ended
  <2>2. KindsFit'
    BY <1>1, <1>2 DEF Places, KindsFit, Arrive, NeedsRedis, Commands
  <2>3. ConnectionsOutliveRequests'
    BY <1>1, <1>2, <1>6 DEF Places, ConnectionsOutliveRequests, Living, HasConnections,
                      Awaits, Limiters
  <2>4. KeptServed'
    BY <1>2 DEF Places, KeptServed, HasConnections
  <2> QED BY <1>2, <2>1, <2>2, <2>3, <2>4 DEF Places, RedisTakesDownOnlyItsOwn, NeedsRedis
<1>4. HitOnce'
  BY <1>1 DEF Counts, HitOnce, Arrive, store, Places
<1>5. HitsKeyed' /\ AdmittedWithin'
  BY DEF Counts, HitsKeyed, AdmittedWithin, Key, Arrive, store
<1> QED BY <1>3, <1>4, <1>5 DEF Counts, Arrive, store

\* A request in a limiter has the type of key the limiter counts by.
LEMMA KeyInType ==
  ASSUME Places, NEW r \in Requests, NEW l \in Limiters
  PROVE  Key(l, r) \in KeyType /\ Key(l, r)[1] = l
  BY DEF Places, Key, KeyType, Sort

\* A hit is the first of its request under its key.
LEMMA HitIsNew ==
  ASSUME Places, Counts, NEW r \in Requests, pc[r] \in Limiters
  PROVE  <<Key(pc[r], r), r>> \notin hits
<1> SUFFICES ASSUME <<Key(pc[r], r), r>> \in hits
             PROVE  FALSE
  OBVIOUS
<1>1. PICK h \in hits : h = <<Key(pc[r], r), r>>
  OBVIOUS
<1>2. h[2] = r /\ h[1][1] = pc[r]
  BY <1>1, KeyInType
<1> QED BY <1>2 DEF Counts, HitOnce, Limiters

\* Counting a request that goes on.
LEMMA HitKeepsCounts ==
  ASSUME Places, Counts, NEW r \in Requests, NEW v \in (Awaits \ {"api"}) \cup Ended,
         pc[r] \in Limiters, pc' = [pc EXCEPT ![r] = v],
         v \in {"auth", "upload"} => pc[r] = "api",
         UNCHANGED req, Hit(r),
         \/ UNCHANGED admitted
         \/ /\ Count(Key(pc[r], r)) < Limit[pc[r]]
            /\ admitted' = admitted \cup {<<Key(pc[r], r), r>>}
  PROVE  Counts'
<1> DEFINE key == Key(pc[r], r)
<1>1. key \in KeyType /\ key[1] = pc[r]
  BY KeyInType
<1>2. hits' = hits \cup {<<key, r>>}
  BY DEF Hit
<1>3. hits' \subseteq KeyType \X Requests /\ admitted' \subseteq hits'
  BY <1>1, <1>2 DEF Counts
<1>4. HitOnce'
  BY <1>1, <1>2 DEF HitOnce, Counts, Places, Awaits, Limiters, TokenAwaits, Queries, UploadAwaits,
                    Ended
<1>5. HitsKeyed'
  BY <1>1, <1>2 DEF HitsKeyed, Counts, Key, Places, KindsFit
<1>6. IsFiniteSet(hits')
  BY <1>2, FS_AddElement DEF Counts, AdmittedWithin
<1>7. ASSUME NEW k \in KeyType
      PROVE  Cardinality({x \in admitted' : x[1] = k}) <= Limit[k[1]]
  <2> DEFINE S == {x \in admitted : x[1] = k}
             H == {h \in hits : h[1] = k}
  <2>1. S \subseteq H /\ IsFiniteSet(H)
    <3>1. H \subseteq hits /\ S \subseteq H /\ IsFiniteSet(hits)
      BY DEF Counts, AdmittedWithin
    <3> QED BY <3>1, FS_Subset
  <2>2. Cardinality(S) <= Cardinality(H) /\ IsFiniteSet(S)
        /\ Cardinality(S) \in Nat /\ Cardinality(H) \in Nat
    BY <2>1, FS_Subset, FS_CardinalityType
  <2>3. Cardinality(S) <= Limit[k[1]] /\ Limit[k[1]] \in Nat
    BY LimitAssumption DEF Counts, AdmittedWithin, KeyType
  <2>4. CASE UNCHANGED admitted \/ k # key
    <3>1. {x \in admitted' : x[1] = k} = S
      BY <2>4
    <3> QED BY <3>1, <2>3
  <2>5. CASE ~UNCHANGED admitted /\ k = key
    <3>1. {x \in admitted' : x[1] = k} = S \cup {<<key, r>>}
      BY <2>5
    <3>2. Cardinality(H) < Limit[k[1]]
      BY <2>5, <1>1 DEF Count
    <3>3. <<key, r>> \notin S
      BY HitIsNew DEF Counts
    <3>4. Cardinality(S \cup {<<key, r>>}) = Cardinality(S) + 1
      BY <3>3, <2>2, FS_AddElement
    <3> QED BY <3>1, <3>2, <3>4, <2>2, <2>3
  <2> QED BY <2>4, <2>5
<1> QED BY <1>3, <1>4, <1>5, <1>6, <1>7 DEF Counts, AdmittedWithin

LEMMA LimiterKeeps ==
  ASSUME Inv, NEW r \in Requests, Admit(r) \/ Refuse(r) \/ FailOpen(r)
  PROVE  Inv'
<1> USE DEF Inv
<1>1. UNCHANGED <<process, redisUp, req, victims>> /\ pc[r] \in Limiters
  BY DEF Admit, Refuse, FailOpen, store
<1>2. RedisTakesDownOnlyItsOwn' /\ victims' \subseteq Requests
  BY <1>1 DEF Places, RedisTakesDownOnlyItsOwn, NeedsRedis
<1>3. PICK v \in (Awaits \ {"api"}) \cup Ended :
         /\ Advances(r, v)
         /\ v \in {"auth", "upload"} => pc[r] = "api"
         /\ v = "upload" => req[r].kind = "upload"
         /\ v \in Commands => NeedsRedis(r)
  <2>1. CASE Refuse(r)
    BY <2>1, AnswerAdvances DEF Refuse, Ended, Commands
  <2>2. CASE Admit(r) \/ FailOpen(r)
    BY <2>2, OnwardAdvances DEF Admit, FailOpen
  <2> QED BY <2>1, <2>2
<1>4. Places'
  BY <1>1, <1>2, <1>3, AdvanceKeepsPlaces DEF Awaits, Ended
<1>5. pc' = [pc EXCEPT ![r] = v] /\ v \in (Awaits \ {"api"}) \cup Ended
  BY <1>3 DEF Advances
<1>6. CASE Admit(r)
  BY <1>1, <1>3, <1>4, <1>5, <1>6, HitKeepsCounts DEF Admit
<1>7. CASE Refuse(r)
  BY <1>1, <1>3, <1>4, <1>5, <1>7, HitKeepsCounts DEF Refuse
<1>8. CASE FailOpen(r)
  BY <1>1, <1>3, <1>4, <1>5, <1>8, AdvanceKeepsCounts DEF FailOpen, store
<1> QED BY <1>4, <1>6, <1>7, <1>8

LEMMA HandlingKeeps ==
  ASSUME Inv, NEW r \in Requests, Handling(r)
  PROVE  Inv'
<1> USE DEF Inv
<1>1. /\ UNCHANGED <<process, redisUp, req, hits, admitted>>
      /\ pc[r] \in Handled
      /\ victims' \in {victims, victims \cup {r}}
      /\ victims' # victims => NeedsRedis(r)
  BY HandlingAdvances DEF Places
<1>2. PICK v \in AfterHandling : Advances(r, v) /\ (v \in Commands => NeedsRedis(r))
  BY HandlingAdvances DEF Places
<1>3. RedisTakesDownOnlyItsOwn' /\ victims' \subseteq Requests
  BY <1>1 DEF Places, RedisTakesDownOnlyItsOwn, NeedsRedis
<1>4. /\ v \in (Awaits \ {"api"}) \cup Ended /\ v \notin {"auth", "upload"}
      /\ pc[r] \in Awaits
  BY <1>1 DEF Awaits, Limiters, TokenAwaits, Queries, UploadAwaits, Ended, Handled, AfterHandling
<1>5. Places'
  BY <1>1, <1>2, <1>3, <1>4, AdvanceKeepsPlaces
<1>6. Counts'
  BY <1>1, <1>2, <1>4, AdvanceKeepsCounts DEF Advances
<1> QED BY <1>5, <1>6

\* A step that leaves the requests and the counters where they are.
LEMMA CountsKept ==
  ASSUME Counts, UNCHANGED <<req, pc, hits, admitted>>
  PROVE  Counts'
  BY DEF Counts, HitOnce, HitsKeyed, AdmittedWithin, Key

LEMMA ExitKeeps ==
  ASSUME Inv, NEW w \in Workers, Exit(w)
  PROVE  Inv'
<1> USE DEF Inv, Exit
<1>1. pc' \in [Requests -> {"idle"} \cup Awaits \cup Ended]
  BY DEF Places, Ended
<1>2. ConnectionsOutliveRequests' /\ KeptServed'
  BY DEF Places, ConnectionsOutliveRequests, KeptServed, Living, HasConnections
<1>3. KindsFit'
  BY DEF Places, KindsFit, NeedsRedis, Commands
<1>6. Places'
  BY <1>1, <1>2, <1>3 DEF Places, RedisTakesDownOnlyItsOwn, NeedsRedis, store
<1>4. HitOnce'
  BY DEF Counts, HitOnce, Places, store
<1>5. HitsKeyed' /\ AdmittedWithin'
  BY DEF Counts, HitsKeyed, AdmittedWithin, Key, store
<1> QED BY <1>4, <1>5, <1>6 DEF Counts, store

\* The steps of a process that do not end it.
LEMMA ProcessKeeps ==
  ASSUME Inv, NEW w \in Workers,
         Start(w) \/ Shutdown(w) \/ Closed(w) \/ ClientEnds(w)
  PROVE  Inv'
<1> USE DEF Inv
<1>1. UNCHANGED <<redisUp, req, pc, open, kept, hits, admitted, victims>>
  BY DEF Start, Shutdown, Closed, ClientEnds, Moves, store
<1>2. /\ phase' \in [Workers -> {"down", "serving", "draining", "closing"}]
      /\ client' \in [Workers -> {"ready", "ended"}]
  BY DEF Places, Start, Shutdown, Closed, ClientEnds, Moves
<1>3. \A r \in open \cup kept : HasConnections(req[r].at)'
  <2>1. \A r \in open \cup kept : HasConnections(req[r].at)
    BY DEF Places, ConnectionsOutliveRequests, KeptServed
  <2>2. CASE Start(w)
    BY <1>1, <2>1, <2>2 DEF Places, Start, Moves, HasConnections
  <2>3. CASE Shutdown(w)
    BY <1>1, <2>1, <2>3 DEF Places, Shutdown, Moves, HasConnections
  <2>4. CASE Closed(w)
    BY <1>1, <2>1, <2>4 DEF Places, Closed, Moves, HasConnections
  <2>5. CASE ClientEnds(w)
    BY <1>1, <2>1, <2>5 DEF ClientEnds, HasConnections
  <2> QED BY <2>2, <2>3, <2>4, <2>5
<1>4. ConnectionsOutliveRequests' /\ KeptServed'
  BY <1>1, <1>3 DEF Places, ConnectionsOutliveRequests, KeptServed, Living
<1>5. Places'
  BY <1>1, <1>2, <1>4 DEF Places, KindsFit, RedisTakesDownOnlyItsOwn, NeedsRedis
<1> QED BY <1>1, <1>5, CountsKept

LEMMA EnvironmentKeeps ==
  ASSUME Inv,
         RedisTurns \/ UNCHANGED vars \/ (\E r \in Requests : ClientLeaves(r) \/ IdleEnds(r))
  PROVE  Inv'
<1> USE DEF Inv
<1>1. /\ UNCHANGED <<phase, client, req, pc, hits, admitted, victims>>
      /\ open' \subseteq open /\ kept' \subseteq kept /\ redisUp' \in BOOLEAN
  BY DEF Places, RedisTurns, ClientLeaves, IdleEnds, vars, process, store
<1>2. Places'
  BY <1>1 DEF Places, KindsFit, ConnectionsOutliveRequests, KeptServed, RedisTakesDownOnlyItsOwn,
             Living, HasConnections, NeedsRedis
<1> QED BY <1>1, <1>2, CountsKept

LEMMA WindowEndsKeeps ==
  ASSUME Inv, NEW key, WindowEnds(key)
  PROVE  Inv'
<1> USE DEF Inv, WindowEnds
<1>1. Places'
  BY DEF Places, process, KindsFit, ConnectionsOutliveRequests, KeptServed,
         RedisTakesDownOnlyItsOwn, Living, HasConnections, NeedsRedis
<1>2. hits' \subseteq hits /\ admitted' \subseteq admitted /\ admitted' \subseteq hits'
  BY DEF Counts
<1>3. HitOnce' /\ HitsKeyed'
  BY <1>2 DEF Counts, HitOnce, HitsKeyed, Key
<1>4. IsFiniteSet(hits')
  BY <1>2, FS_Subset DEF Counts, AdmittedWithin
<1>5. ASSUME NEW k \in KeyType
      PROVE  Cardinality({x \in admitted' : x[1] = k}) <= Limit[k[1]]
  <2> DEFINE S == {x \in admitted : x[1] = k}
             T == {x \in admitted' : x[1] = k}
  <2>1. T \subseteq S /\ IsFiniteSet(S)
    <3>1. T \subseteq S /\ S \subseteq hits /\ IsFiniteSet(hits)
      BY <1>2 DEF Counts, AdmittedWithin
    <3> QED BY <3>1, FS_Subset
  <2>2. Cardinality(T) <= Cardinality(S) /\ Cardinality(T) \in Nat /\ Cardinality(S) \in Nat
    BY <2>1, FS_Subset, FS_CardinalityType
  <2>3. Cardinality(S) <= Limit[k[1]] /\ Limit[k[1]] \in Nat
    BY LimitAssumption DEF Counts, AdmittedWithin, KeyType
  <2> QED BY <2>2, <2>3
<1>6. Counts'
  BY <1>2, <1>3, <1>4, <1>5 DEF Counts, AdmittedWithin
<1> QED BY <1>1, <1>6

LEMMA StepKeepsInv == Inv /\ [Next]_vars => Inv'
<1> SUFFICES ASSUME Inv, [Next]_vars PROVE Inv'
  OBVIOUS
<1>1. ASSUME NEW r \in Requests, Arrive(r) PROVE Inv'
  BY <1>1, ArriveKeeps
<1>2. ASSUME NEW r \in Requests, Proceed(r) PROVE Inv'
  BY <1>2, LimiterKeeps, HandlingKeeps DEF Proceed
<1>3. ASSUME NEW w \in Workers,
             Start(w) \/ Shutdown(w) \/ Closed(w) \/ Quit(w) \/ Crash(w) \/ ClientEnds(w)
      PROVE  Inv'
  BY <1>3, ProcessKeeps, ExitKeeps DEF Quit, Crash
<1>4. ASSUME NEW key \in Keys, WindowEnds(key) PROVE Inv'
  BY <1>4, WindowEndsKeeps
<1>5. CASE RedisTurns \/ UNCHANGED vars \/ (\E r \in Requests : ClientLeaves(r) \/ IdleEnds(r))
  BY <1>5, EnvironmentKeeps
<1> QED BY <1>1, <1>2, <1>3, <1>4, <1>5 DEF Next

THEOREM Invariance == Spec => []Inv
<1> QED BY InitInv, StepKeepsInv, PTL DEF Spec

\* Type correctness of the HTTP side.
THEOREM TypeCorrect == Spec => []TypeOK
<1>1. Inv => TypeOK
  BY DEF Inv, Places, Counts, TypeOK, KeyType
<1> QED BY <1>1, Invariance, PTL

\* The limits are limits whatever process counts: uploads per user, everything
\* else per address (createStore and the keyGenerator of rateLimiter.ts).
THEOREM LimitHoldsHolds == Spec => []LimitHolds
<1>1. Inv => LimitHolds
  <2> SUFFICES ASSUME Inv, NEW l \in Limiters, NEW r \in Requests
               PROVE  Cardinality({x \in admitted : x[1][1] = l /\ Whose(l, x[2]) = Whose(l, r)})
                          <= Limit[l]
    BY DEF LimitHolds
  <2>1. Key(l, r) \in KeyType /\ Key(l, r)[1] = l
    BY KeyInType DEF Inv
  <2>2. \A x \in admitted : x[1] = Key(x[1][1], x[2])
    BY DEF Inv, Counts, HitsKeyed
  <2>3. \A x \in admitted : (x[1][1] = l /\ Whose(l, x[2]) = Whose(l, r)) <=> x[1] = Key(l, r)
    BY <2>2 DEF Key, Whose
  <2>4. {x \in admitted : x[1][1] = l /\ Whose(l, x[2]) = Whose(l, r)}
            = {x \in admitted : x[1] = Key(l, r)}
    BY <2>3
  <2> QED BY <2>1, <2>4 DEF Inv, Counts, AdmittedWithin
<1> QED BY <1>1, Invariance, PTL

\* No graceful shutdown takes the connections from a request with a client.
THEOREM ConnectionsOutliveRequestsHolds == Spec => []ConnectionsOutliveRequests
<1>1. Inv => ConnectionsOutliveRequests
  BY DEF Inv, Places
<1> QED BY <1>1, Invariance, PTL

\* Who waits for a command needs it (KindsFit), and no limiter fails anybody: so
\* Redis fails nobody who could be served without it (failOpen).
THEOREM RedisTakesDownOnlyItsOwnHolds == Spec => []RedisTakesDownOnlyItsOwn
<1>1. Inv => RedisTakesDownOnlyItsOwn
  BY DEF Inv, Places
<1> QED BY <1>1, Invariance, PTL

\* The only way out of the upload limiter with a 429.
LEMMA ThrottledByRefusal ==
  ASSUME Inv, [Next]_vars, NEW r \in Requests, pc[r] = "upload", pc'[r] = "throttled"
  PROVE  Refuse(r)
<1> USE DEF Inv
<1>1. pc' # pc /\ pc \in [Requests -> {"idle"} \cup Awaits \cup Ended]
  BY DEF Places
<1>2. ASSUME NEW s \in Requests, Arrive(s) PROVE FALSE
  <2>1. PICK v \in {"ok", "checking", "api"} : pc' = [pc EXCEPT ![s] = v]
    BY <1>2 DEF Arrive
  <2> QED BY <1>1, <1>2, <2>1 DEF Arrive
<1>3. ASSUME NEW s \in Requests, Handling(s) PROVE FALSE
  <2>1. PICK v : Advances(s, v)
    BY <1>3, HandlingAdvances DEF Places
  <2>2. pc[s] \in Handled
    BY <1>3, HandlingAdvances DEF Places
  <2> QED BY <1>1, <2>1, <2>2 DEF Advances, Handled, Limiters
<1>4. ASSUME NEW s \in Requests, Admit(s) \/ FailOpen(s) PROVE FALSE
  <2>1. Onward(s)
    BY <1>4 DEF Admit, FailOpen
  <2>2. PICK v : Advances(s, v)
    BY <2>1, OnwardAdvances
  <2>3. s = r
    BY <1>1, <2>2 DEF Advances
  <2>4. pc' = [pc EXCEPT ![r] = "buffering"]
    BY <2>1, <2>3 DEF Onward, To
  <2> QED BY <1>1, <2>4
<1>5. ASSUME NEW s \in Requests, Refuse(s) PROVE s = r
  BY <1>1, <1>5 DEF Refuse, Answer
<1>6. ASSUME NEW w \in Workers, Exit(w) PROVE FALSE
  BY <1>1, <1>6 DEF Exit
<1>7. ASSUME NEW w \in Workers, Start(w) \/ Shutdown(w) \/ Closed(w) \/ ClientEnds(w) PROVE FALSE
  BY <1>1, <1>7 DEF Start, Shutdown, Closed, ClientEnds, Moves
<1>8. (\E s \in Requests : ClientLeaves(s) \/ IdleEnds(s))
         \/ (\E key \in Keys : WindowEnds(key)) \/ RedisTurns
         \/ UNCHANGED vars
      => UNCHANGED pc
  BY DEF ClientLeaves, IdleEnds, WindowEnds, RedisTurns, vars
<1> QED BY <1>1, <1>2, <1>3, <1>4, <1>5, <1>6, <1>7, <1>8 DEF Next, Proceed, Quit, Crash

\* An upload that is turned away is one too many of its own user.
THEOREM RefusedForOwnUploadsHolds == Spec => RefusedForOwnUploads
<1> DEFINE Own(r) == {h \in hits' : req[h[2]].user = req[r].user
                                      /\ req[h[2]].kind = "upload" /\ h[1][1] = "upload"}
           P(r) == (pc[r] = "upload" /\ pc'[r] = "throttled")
                      => Cardinality(Own(r)) > Limit["upload"]
<1>1. ASSUME Inv, [Next]_vars, NEW r \in Requests, pc[r] = "upload", pc'[r] = "throttled"
      PROVE  Cardinality(Own(r)) > Limit["upload"]
  <2> DEFINE key == Key("upload", r)
             H == {h \in hits : h[1] = key}
  <2>1. Refuse(r)
    BY <1>1, ThrottledByRefusal
  <2>2. /\ hits' = hits \cup {<<key, r>>} /\ <<key, r>> \notin hits
        /\ Cardinality(H) >= Limit["upload"]
    BY <1>1, <2>1, HitIsNew DEF Refuse, Hit, Count, Inv, Limiters
  <2>3. IsFiniteSet(H) /\ IsFiniteSet(hits')
    <3>1. H \subseteq hits /\ IsFiniteSet(hits)
      BY <1>1 DEF Inv, Counts, AdmittedWithin
    <3> QED BY <3>1, <2>2, FS_Subset, FS_AddElement
  <2>4. H \cup {<<key, r>>} \subseteq Own(r)
    <3>1. ASSUME NEW h \in H PROVE h \in Own(r)
      <4>1. h \in hits' /\ h[1] = key /\ key = <<"upload", req[r].user>>
        BY <2>2 DEF Key
      <4>2. h[1] = Key(h[1][1], h[2]) /\ (h[1][1] = "upload" => req[h[2]].kind = "upload")
        BY <1>1 DEF Inv, Counts, HitsKeyed
      <4> QED BY <4>1, <4>2 DEF Key
    <3>2. req[r].kind = "upload" /\ key[1] = "upload"
      BY <1>1 DEF Inv, Places, KindsFit, Key
    <3> QED BY <2>2, <3>1, <3>2
  <2>5. Cardinality(H \cup {<<key, r>>}) = Cardinality(H) + 1 /\ Cardinality(H) \in Nat
    BY <2>2, <2>3, FS_AddElement, FS_CardinalityType
  <2>6. IsFiniteSet(Own(r)) /\ Cardinality(Own(r)) \in Nat
    <3>1. Own(r) \subseteq hits'
      OBVIOUS
    <3> QED BY <3>1, <2>3, FS_Subset, FS_CardinalityType
  <2>7. Cardinality(H \cup {<<key, r>>}) <= Cardinality(Own(r))
    BY <2>4, <2>6, FS_Subset
  <2>8. Limit["upload"] \in Nat
    BY LimitAssumption DEF Limiters
  <2> HIDE DEF H, Own
  <2> QED BY <2>2, <2>5, <2>6, <2>7, <2>8
<1>2. Inv /\ [Next]_vars => [\A r \in Requests : P(r)]_vars
  BY <1>1
<1> QED BY <1>2, Invariance, PTL DEF Spec, RefusedForOwnUploads
=============================================================================
