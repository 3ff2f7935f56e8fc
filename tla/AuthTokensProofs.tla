-------------------------- MODULE AuthTokensProofs --------------------------
(* The safety properties of AuthTokens for every set of requests and emails.   *)
(* OneAccountPerEmail needs only that a row's request has begun.  A token a    *)
(* client holds was answered, so it can never again be one a request is about  *)
(* to store: that is why a deleted token stays deleted, and why Presented and  *)
(* Spent are proved together.                                                  *)
EXTENDS AuthTokens, TLAPS

Begun == \A u \in users : pc[u] # "idle"

\* Only account deletions remove, only they revoke.
DeletesOnly == \A r \in Requests : pc[r] \in {"removing", "revoking"} => op[r] = "deleteMe"

\* A request has no token in its body before it has begun, nor while it registers
\* or logs in; any other presents one that some client was given.
Presented ==
    \A r \in Requests :
        /\ pc[r] \in {"idle", "creating", "comparing"} => presented[r] = None
        /\ presented[r] # None => presented[r] \in Given

\* From the moment a rotated token is deleted, Redis does not have it.
Spent ==
    \A r \in Requests :
        pc[r] \in {"storing", "queueing", "answered"} /\ presented[r] # None
            => presented[r] \notin stored

\* A registration that has stored its token has it or has lost it.
Queued == \A r \in Requests : pc[r] = "queueing" => r \in stored \cup gone

Inductive ==
    /\ TypeOK /\ OneAccountPerEmail /\ Begun
    /\ DeletesOnly /\ Presented /\ Spent /\ Queued /\ GivenTokenIsKnown

USE NoneFresh

LEMMA InitInductive == Init => Inductive
  BY DEF Init, Inductive, TypeOK, OneAccountPerEmail, Begun, DeletesOnly, Presented,
         Spent, Queued, GivenTokenIsKnown, Given

\* A new request that ends up at `at` keeps the invariant, if it is at no place
\* where a token is being stored and has the token it presents from a client.
LEMMA ArrivesKeeps ==
  ASSUME Inductive, NEW r \in Requests, NEW what \in Ops, NEW e \in Emails \cup {None},
         NEW u \in Requests \cup {None}, NEW t \in Given \cup {None},
         NEW at \in {"creating", "comparing", "deleting", "removing"} \cup Ended,
         Arrives(r, what, e, u, t, at),
         at \in {"creating", "comparing"} => t = None,
         at = "removing" => what = "deleteMe",
         at = "answered" => what \notin TokenOps /\ (t = None \/ t \notin stored'),
         users' = users, Forget(t) \/ UNCHANGED <<stored, gone>>
  PROVE  Inductive'
<1>1. TypeOK'
  BY DEF Inductive, TypeOK, Arrives, redis, Ops, Ended, Busy, Given, Forget
<1>2. OneAccountPerEmail' /\ Begun'
  BY DEF Inductive, TypeOK, OneAccountPerEmail, Begun, Arrives, Ended
<1>3. DeletesOnly'
  BY DEF Inductive, TypeOK, DeletesOnly, Arrives, Ended
<1>4. Given' = Given
  BY DEF Inductive, TypeOK, Arrives, Given
<1>5. Presented'
  BY <1>4 DEF Inductive, TypeOK, Presented, Arrives, Ended
<1>6. Spent'
  BY DEF Inductive, TypeOK, Spent, Arrives, Ended, Forget
<1>7. Queued' /\ GivenTokenIsKnown'
  BY <1>4 DEF Inductive, TypeOK, Queued, GivenTokenIsKnown, Arrives, Ended, Forget
<1> QED BY <1>1, <1>2, <1>3, <1>5, <1>6, <1>7 DEF Inductive

\* A step of a request that stores nothing keeps the invariant, if it answers only
\* what holds no token or has one already.
LEMMA MovesKeeps ==
  ASSUME Inductive, NEW r \in Requests, NEW from \in Busy, NEW to \in Busy \cup Ended,
         Moves(r, from, to),
         to \notin {"idle", "creating", "comparing", "queueing"},
         to \in {"removing", "revoking"} => op[r] = "deleteMe",
         to \in {"storing", "answered"} /\ presented[r] # None => presented[r] \notin stored',
         to = "answered" /\ op[r] \in TokenOps => r \in stored \cup gone,
         \/ users' = users \/ users' = users \ {uid[r]}
         \/ users' = users \cup {r} /\ ~Taken(email[r]),
         Forget(presented[r]) \/ UNCHANGED <<stored, gone>>
  PROVE  Inductive'
<1>1. TypeOK'
  BY DEF Inductive, TypeOK, Moves, input, redis, Forget
<1>2. Begun' /\ OneAccountPerEmail'
  BY DEF Inductive, TypeOK, OneAccountPerEmail, Begun, Moves, input, Taken, Busy
<1>3. DeletesOnly'
  BY DEF Inductive, TypeOK, DeletesOnly, Moves, input
<1>4. Given \subseteq Given' /\ Given' \subseteq Given \cup {r}
  BY DEF Inductive, TypeOK, Moves, input, Given, Busy
<1>5. Presented'
  BY <1>4 DEF Inductive, TypeOK, Presented, Moves, input
<1>6. Spent'
  BY DEF Inductive, TypeOK, Spent, Moves, input, Forget
<1>7. stored' \cup gone' = stored \cup gone
  BY DEF Forget
<1>8. Queued'
  BY <1>7 DEF Inductive, TypeOK, Queued, Moves, input
<1>9. GivenTokenIsKnown'
  <2>1. r \in Given' => r \in stored \cup gone
    BY DEF Inductive, TypeOK, Moves, input, Given
  <2> QED BY <2>1, <1>4, <1>7 DEF Inductive, GivenTokenIsKnown
<1> QED BY <1>1, <1>2, <1>3, <1>5, <1>6, <1>8, <1>9 DEF Inductive

\* The new token of a request is no token that any request presents.
LEMMA StoringKeeps ==
  ASSUME Inductive, NEW r \in Requests, NEW to \in {AfterStore(r), "failed"},
         Moves(r, "storing", to), stored' = stored \cup {r}, UNCHANGED <<users, gone>>
  PROVE  Inductive'
<1> USE DEF Inductive, TypeOK, Moves, AfterStore, input, redis
<1>1. TypeOK'
  BY DEF Busy, Ended
<1>2. Begun' /\ OneAccountPerEmail' /\ DeletesOnly'
  BY DEF Begun, OneAccountPerEmail, DeletesOnly
<1>3. Given \subseteq Given' /\ Given' \subseteq Given \cup {r}
  BY DEF Given
<1>4. Presented'
  BY <1>3 DEF Presented
<1>5. Spent'
  <2>1. r \notin Given
    BY DEF Given
  <2>2. \A q \in Requests : presented[q] # r
    BY <2>1 DEF Presented
  <2> QED BY <2>2 DEF Spent
<1>6. Queued' /\ GivenTokenIsKnown'
  BY <1>3 DEF Queued, GivenTokenIsKnown
<1> QED BY <1>1, <1>2, <1>4, <1>5, <1>6

LEMMA StepInductive == Inductive /\ [Next]_vars => Inductive'
<1> SUFFICES ASSUME Inductive, [Next]_vars PROVE Inductive'
  OBVIOUS
<1>1. ASSUME NEW r \in Requests, NEW e \in Emails, RegisterFind(r, e)
      PROVE  Inductive'
  BY <1>1, ArrivesKeeps DEF RegisterFind, Ops, Ended
<1>2. ASSUME NEW r \in Requests, NEW e \in Emails, LoginFind(r, e)
      PROVE  Inductive'
  BY <1>2, ArrivesKeeps DEF LoginFind, Ops, Ended, Inductive, TypeOK
<1>3. ASSUME NEW r \in Requests, NEW t \in Requests, RefreshGet(r, t)
      PROVE  Inductive'
  <2>1. uid[t] \in Requests \cup {None}
    BY DEF Inductive, TypeOK
  <2> QED BY <1>3, <2>1, ArrivesKeeps DEF RefreshGet, Ops, Ended
<1>4. ASSUME NEW r \in Requests, NEW t \in Requests, NEW body \in Requests \cup {None},
             Logout(r, t, body)
      PROVE  Inductive'
  <2>1. uid[t] \in Requests \cup {None} /\ body \in Given \cup {None}
    BY <1>4 DEF Inductive, TypeOK, Logout
  <2>2. PICK at \in {"answered", "failed"} :
            /\ Arrives(r, "logout", None, uid[t], body, at)
            /\ \/ body = None /\ at = "answered" /\ UNCHANGED <<stored, gone>>
               \/ body # None /\ Reachable /\ Forget(body)
               \/ body # None /\ ~Reachable /\ at = "failed" /\ UNCHANGED <<stored, gone>>
    BY <1>4 DEF Logout
  <2>3. users' = users
    BY <1>4 DEF Logout
  <2>4. at = "answered" => body = None \/ body \notin stored'
    BY <2>2 DEF Forget
  <2> QED BY <2>1, <2>2, <2>3, <2>4, ArrivesKeeps DEF Ops, Ended, TokenOps
<1>5. ASSUME NEW r \in Requests, NEW t \in Requests, NEW body \in Requests \cup {None},
             DeleteFind(r, t, body)
      PROVE  Inductive'
  <2>1. uid[t] \in Requests \cup {None} /\ body \in Given \cup {None}
    BY <1>5 DEF Inductive, TypeOK, DeleteFind
  <2> QED BY <1>5, <2>1, ArrivesKeeps DEF DeleteFind, Ops, Ended
<1>6. ASSUME NEW r \in Requests, RegisterCreate(r)
      PROVE  Inductive'
  <2>1. presented[r] = None
    BY <1>6 DEF Inductive, Presented, RegisterCreate, Moves
  <2> QED BY <1>6, <2>1, MovesKeeps DEF RegisterCreate, Busy, Ended
<1>7. ASSUME NEW r \in Requests, CreateFails(r)
      PROVE  Inductive'
  BY <1>7, MovesKeeps DEF CreateFails, Busy, Ended
<1>8. ASSUME NEW r \in Requests, LoginCompare(r)
      PROVE  Inductive'
  <2>1. presented[r] = None
    BY <1>8 DEF Inductive, Presented, LoginCompare, Moves
  <2> QED BY <1>8, <2>1, MovesKeeps DEF LoginCompare, Busy, Ended
<1>9. ASSUME NEW r \in Requests, RefreshDelete(r)
      PROVE  Inductive'
  BY <1>9, MovesKeeps DEF RefreshDelete, Busy, Ended, Forget
<1>10. ASSUME NEW r \in Requests, Enqueue(r)
       PROVE  Inductive'
  <2>1. r \in stored \cup gone /\ (presented[r] # None => presented[r] \notin stored)
    BY <1>10 DEF Enqueue, Moves, Inductive, Queued, Spent
  <2> QED BY <1>10, <2>1, MovesKeeps DEF Enqueue, Busy, Ended
<1>11. ASSUME NEW r \in Requests, DeleteUser(r)
       PROVE  Inductive'
  <2>1. op[r] = "deleteMe"
    BY <1>11 DEF DeleteUser, Moves, Inductive, DeletesOnly
  <2> QED BY <1>11, <2>1, MovesKeeps DEF DeleteUser, Busy, Ended, TokenOps
<1>12. ASSUME NEW r \in Requests, DeleteToken(r)
       PROVE  Inductive'
  <2>1. op[r] = "deleteMe"
    BY <1>12 DEF DeleteToken, Moves, Inductive, DeletesOnly
  <2> QED BY <1>12, <2>1, MovesKeeps DEF DeleteToken, Busy, Ended, TokenOps, Forget
<1>13. ASSUME NEW r \in Requests, Unreachable(r)
       PROVE  Inductive'
  BY <1>13, MovesKeeps DEF Unreachable, Busy, Ended
<1>14. ASSUME NEW r \in Requests, StoreToken(r) \/ ReplyLost(r)
       PROVE  Inductive'
  <2>1. CASE StoreToken(r)
    BY <2>1, StoringKeeps DEF StoreToken
  <2>2. CASE /\ Moves(r, "storing", "failed")
             /\ stored' = stored \cup {r} /\ UNCHANGED <<users, gone>>
    BY <2>2, StoringKeeps
  <2>3. CASE /\ \E from \in {"deleting", "revoking"} : Moves(r, from, "failed")
             /\ Forget(presented[r]) /\ UNCHANGED users
    BY <2>3, MovesKeeps DEF Busy, Ended
  <2> QED BY <1>14, <2>1, <2>2, <2>3 DEF ReplyLost
<1>15. ASSUME NEW t \in Requests, Expire(t)
       PROVE  Inductive'
  BY <1>15 DEF Expire, Forget, Inductive, TypeOK, OneAccountPerEmail, Begun, DeletesOnly,
               Presented, Spent, Queued, GivenTokenIsKnown, Given, input, redis
<1>16. CASE RedisFails \/ ClientGivesUp \/ RedisReturns \/ UNCHANGED vars
  BY <1>16 DEF RedisFails, ClientGivesUp, RedisReturns, Inductive, TypeOK, OneAccountPerEmail,
               Begun, DeletesOnly, Presented, Spent, Queued, GivenTokenIsKnown, Given,
               vars, input, redis
<1>17. CASE Restart
  <2>1. Given' = Given
    BY <1>17 DEF Restart, Inductive, TypeOK, Given, Busy, input
  <2> QED
    BY <1>17, <2>1 DEF Restart, Inductive, TypeOK, OneAccountPerEmail, Begun, DeletesOnly,
               Presented, Spent, Queued, GivenTokenIsKnown, Busy, Ended, input
<1>18. ASSUME NEW r \in Requests, NEW what \in Ops, FindFails(r, what)
       PROVE  Inductive'
  BY <1>18, ArrivesKeeps DEF FindFails, Ended
<1>19. ASSUME NEW r \in Requests, DeleteFails(r)
       PROVE  Inductive'
  BY <1>19, MovesKeeps DEF DeleteFails, Busy, Ended
<1> QED
  BY <1>1, <1>2, <1>3, <1>4, <1>5, <1>6, <1>7, <1>8, <1>9, <1>10, <1>11, <1>12, <1>13,
     <1>14, <1>15, <1>16, <1>17, <1>18, <1>19 DEF Next, Serve

LEMMA InductiveHolds == Safety => []Inductive
  BY InitInductive, StepInductive, PTL DEF Safety

\* Every variable of the model keeps its type, for any requests and emails.
THEOREM TypeCorrect == Safety => []TypeOK
<1>1. Inductive => TypeOK
  BY DEF Inductive
<1> QED BY <1>1, InductiveHolds, PTL

\* Registrations that race past findByEmail (auth.service.ts, register) make one
\* account per email, whatever fails in between.
THEOREM OneAccountPerEmailHolds == Safety => []OneAccountPerEmail
<1>1. Inductive => OneAccountPerEmail
  BY DEF Inductive
<1> QED BY <1>1, InductiveHolds, PTL

\* A token that register, login or refresh answered with is in Redis until it is
\* used, logged out or expires.
THEOREM GivenTokenIsKnownHolds == Safety => []GivenTokenIsKnown
<1>1. Inductive => GivenTokenIsKnown
  BY DEF Inductive
<1> QED BY <1>1, InductiveHolds, PTL

\* A token that a refresh, a logout or an account deletion has consumed is never
\* in Redis again, however the commands of concurrent requests interleave.
THEOREM SpentTokenIsGoneHolds == Safety => []SpentTokenIsGone
<1>1. Inductive => SpentTokenIsGone
  BY DEF Inductive, Spent, SpentTokenIsGone
<1> QED BY <1>1, InductiveHolds, PTL
=============================================================================
