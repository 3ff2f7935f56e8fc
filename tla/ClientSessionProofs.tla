------------------------- MODULE ClientSessionProofs -------------------------
(* The session properties for any number of grants and one read at a time.     *)
(* With two reads they fail (MCSessionConcurrent).  The argument is that the   *)
(* cookie works but for one moment: while the answer of a read that has spent  *)
(* the grant in it is on its way, and that answer replaces it.                 *)
EXTENDS ClientSession, TLAPS

OneRead == \A r, s \in Reads : r = s

Works(g) == g = 0 \/ g \in live \cup severed

\* The cookie and a read under way carry grants that work; while an answer is on
\* its way the cookie may still be the grant it spent.
Carried ==
    \A r \in Reads :
        /\ pc[r] \in {"asked", "rotating"} => Works(cookie)
        /\ pc[r] \in {"asked", "rotating", "answering"} => Works(held[r])
        /\ pc[r] \in {"asked", "rotating"} => spent[r] = 0
        /\ pc[r] = "answering" => Works(cookie) \/ cookie = spent[r]
        /\ pc[r] = "answering" /\ held[r] = 0 => spent[r] = 0

\* No read is rotating the absent session.
Held == \A r \in Reads : pc[r] = "rotating" => held[r] # 0

\* Grants not yet issued have not aged.
Unissued == \A g \in Grants : g > issued => age[g] = "fresh"

\* Only a failed refresh or the cache lets a call go out with a dead token.
DeadHasCause ==
    \A r \in Reads :
        /\ pc[r] = "answering" /\ held[r] # 0 /\ age[held[r]] = "dead" => r \in error
        /\ pc[r] = "calling" /\ held[r] # 0 /\ age[held[r]] = "dead"
               => r \in error \/ (worker /\ held[r] = cached)

Inductive == TypeOK /\ Held /\ SessionKeptFresh /\ Carried /\ Unissued /\ DeadHasCause

USE BoundsOK DEF Grants, Ages, NoAnswer

LEMMA TypeStep == TypeOK /\ Held /\ [Next]_vars => (TypeOK /\ Held)'
<1> SUFFICES ASSUME TypeOK, Held, [Next]_vars PROVE TypeOK' /\ Held'
  OBVIOUS
<1> USE DEF TypeOK, Held, cache, tokens, reading
<1>1. CASE SignIn
  <2>1. issued \in Nat /\ issued' = issued + 1 /\ issued' \in 0..MaxGrants
    BY <1>1 DEF SignIn
  <2>2. live' \subseteq 1..issued' /\ severed' \subseteq 1..issued'
    BY <1>1, <2>1 DEF SignIn
  <2>3. held' \in [Reads -> 0..issued'] /\ spent' \in [Reads -> 0..issued']
    BY <1>1, <2>1 DEF SignIn
  <2>4. cookie' \in 0..issued' /\ cached' \in 0..issued' \cup {NoAnswer}
    BY <1>1, <2>1 DEF SignIn
  <2> QED BY <1>1, <2>1, <2>2, <2>3, <2>4 DEF SignIn
<1>2. CASE SignOut \/ WorkerClaims \/ UNCHANGED vars
  <2>1. CASE SignOut
    BY <2>1 DEF SignOut
  <2>2. CASE WorkerClaims
    BY <2>2 DEF WorkerClaims
  <2>3. CASE UNCHANGED vars
    BY <2>3 DEF vars
  <2> QED BY <1>2, <2>1, <2>2, <2>3
<1>3. ASSUME NEW r \in Reads, ReadForCall(r) \/ ReadForPage(r)
      PROVE  TypeOK' /\ Held'
  <2>1. PICK at \in {"asked"} : Begin(r, at, cookie)
    BY <1>3 DEF ReadForCall, ReadForPage
  <2>2. calls' \subseteq Reads /\ UNCHANGED <<cookie, tokens, cache>>
    BY <1>3 DEF ReadForCall, ReadForPage
  <2> QED BY <2>1, <2>2 DEF Begin
<1>4. ASSUME NEW r \in Reads, ReadFromCache(r)
      PROVE  TypeOK' /\ Held'
  <2>1. cached \in 0..issued
    BY <1>4 DEF ReadFromCache
  <2> QED BY <1>4, <2>1 DEF ReadFromCache, Begin
<1>5. ASSUME NEW r \in Reads, AnswerAsIs(r) \/ Refresh(r) \/ RefreshFails(r)
      PROVE  TypeOK' /\ Held'
  <2>1. PICK to \in {"answering", "rotating"} :
           Goes(r, "asked", to) /\ (to = "rotating" => NearExpiry(held[r]))
    BY <1>5 DEF AnswerAsIs, Refresh, RefreshFails
  <2>2. error' \subseteq Reads /\ UNCHANGED <<cookie, held, spent, calls, tokens, cache>>
    BY <1>5 DEF AnswerAsIs, Refresh, RefreshFails
  <2> QED BY <2>1, <2>2 DEF Goes, NearExpiry
<1>6. ASSUME NEW r \in Reads, Rotate(r)
      PROVE  TypeOK' /\ Held'
  <2>1. issued \in Nat /\ issued' = issued + 1 /\ issued' \in 0..MaxGrants
    BY <1>6 DEF Rotate
  <2>2. live' \subseteq 1..issued' /\ severed' \subseteq 1..issued'
    <3>1. 1..issued \subseteq 1..issued' /\ issued + 1 \in 1..issued'
      BY <2>1
    <3>2. live' \subseteq live \cup {issued + 1} /\ severed' = severed
      BY <1>6 DEF Rotate
    <3> QED BY <3>1, <3>2
  <2>5. spent' \in [Reads -> 0..issued']
    BY <1>6, <2>1 DEF Rotate, Goes
  <2>3. held' \in [Reads -> 0..issued'] /\ \A s \in Reads : held'[s] = 0 => held[s] = 0
    BY <1>6, <2>1 DEF Rotate
  <2>4. cookie' \in 0..issued' /\ cached' \in 0..issued' \cup {NoAnswer}
    BY <1>6, <2>1 DEF Rotate
  <2> QED BY <1>6, <2>1, <2>2, <2>3, <2>4, <2>5 DEF Rotate, Goes
<1>7. ASSUME NEW r \in Reads, RotateLost(r)
      PROVE  TypeOK' /\ Held'
  <2>1. held[r] \in 1..issued
    BY <1>7 DEF RotateLost, Goes
  <2>2. live' \subseteq 1..issued /\ severed' \subseteq 1..issued
    BY <1>7, <2>1 DEF RotateLost
  <2> QED BY <1>7, <2>2 DEF RotateLost, Goes
<1>8. ASSUME NEW r \in Reads, Answer(r)
      PROVE  TypeOK' /\ Held'
  <2>1. PICK to \in {"idle", "calling"} : Goes(r, "answering", to)
    BY <1>8 DEF Answer
  <2>2. cookie' \in 0..issued /\ cached' \in 0..issued \cup {NoAnswer}
    BY <1>8 DEF Answer
  <2> QED BY <1>8, <2>1, <2>2 DEF Answer, Goes
<1>9. ASSUME NEW r \in Reads, AnswerLost(r)
      PROVE  TypeOK' /\ Held'
  <2>1. {spent[r]} \ {0} \subseteq 1..issued
    OBVIOUS
  <2> QED BY <1>9, <2>1 DEF AnswerLost, Goes
<1>10. ASSUME NEW r \in Reads, Call(r)
       PROVE  TypeOK' /\ Held'
  <2>1. cookie' \in 0..issued
    BY <1>10 DEF Call
  <2> QED BY <1>10, <2>1 DEF Call, Goes
<1>11. ASSUME NEW g \in Grants, Age(g) \/ Expire(g)
       PROVE  TypeOK' /\ Held'
  BY <1>11 DEF Age, Expire
<1> QED
  BY <1>1, <1>2, <1>3, <1>4, <1>5, <1>6, <1>7, <1>8, <1>9, <1>10, <1>11 DEF Next

\* What a step leaves alone between a read and the grant it carries.
LEMMA KeptStep ==
  ASSUME Inductive, OneRead, [Next]_vars
  PROVE  (SessionKeptFresh /\ Carried)'
<1> USE DEF Inductive, TypeOK, Held, SessionKeptFresh, Carried, Works, cache, tokens, reading
<1>1. CASE SignIn
  <2>1. issued + 1 \in live' /\ live \subseteq live' /\ severed' = severed
    BY <1>1 DEF SignIn
  <2> QED BY <1>1, <2>1 DEF SignIn
<1>2. CASE SignOut
  BY <1>2 DEF SignOut
<1>3. CASE WorkerClaims \/ UNCHANGED vars
  BY <1>3 DEF WorkerClaims, vars
<1>4. ASSUME NEW r \in Reads, ReadForCall(r) \/ ReadForPage(r) \/ ReadFromCache(r)
      PROVE  SessionKeptFresh' /\ Carried'
  <2>1. PICK at \in {"asked", "calling"}, g \in 0..MaxGrants :
           Begin(r, at, g) /\ (at = "asked" => g = cookie)
    BY <1>4 DEF ReadForCall, ReadForPage, ReadFromCache
  <2>2. UNCHANGED <<cookie, live, severed>>
    BY <1>4 DEF ReadForCall, ReadForPage, ReadFromCache
  <2>3. \A s \in Reads : s = r
    BY DEF OneRead
  <2>4. Works(cookie)
    BY <2>1, <2>3 DEF Begin
  <2> QED BY <2>1, <2>2, <2>3, <2>4 DEF Begin
<1>5. ASSUME NEW r \in Reads, AnswerAsIs(r) \/ Refresh(r) \/ RefreshFails(r)
      PROVE  SessionKeptFresh' /\ Carried'
  <2>1. PICK to \in {"answering", "rotating"} : Goes(r, "asked", to)
    BY <1>5 DEF AnswerAsIs, Refresh, RefreshFails
  <2>2. UNCHANGED <<cookie, live, severed, held, spent>>
    BY <1>5 DEF AnswerAsIs, Refresh, RefreshFails
  <2>3. \A s \in Reads : s = r
    BY DEF OneRead
  <2>4. Works(cookie)
    BY <2>1, <2>3 DEF Goes
  <2> QED BY <2>1, <2>2, <2>3, <2>4 DEF Goes
<1>6. ASSUME NEW r \in Reads, Rotate(r)
      PROVE  SessionKeptFresh' /\ Carried'
  <2>1. \A s \in Reads : s = r
    BY DEF OneRead
  <2>2. pc'[r] = "answering" /\ held'[r] = issued + 1 /\ issued + 1 \in live' /\ issued + 1 # 0
    BY <1>6 DEF Rotate, Goes
  <2>3. Works(cookie)
    BY <1>6 DEF Rotate, Goes
  <2>4. /\ live \ {held[r]} \subseteq live' /\ cookie' = cookie /\ severed' = severed
        /\ spent'[r] = held[r]
    BY <1>6 DEF Rotate
  <2>5. Works(cookie)' \/ cookie' = spent'[r]
    BY <2>3, <2>4
  <2> QED BY <2>1, <2>2, <2>5
<1>7. ASSUME NEW r \in Reads, RotateLost(r)
      PROVE  SessionKeptFresh' /\ Carried'
  <2>1. \A s \in Reads : s = r
    BY DEF OneRead
  <2>2. pc'[r] = "answering" /\ held'[r] = held[r] /\ held[r] \in severed' /\ held[r] # 0
    BY <1>7 DEF RotateLost, Goes
  <2>3. Works(cookie)
    BY <1>7 DEF RotateLost, Goes
  <2>4. live \cup severed \subseteq live' \cup severed' /\ cookie' = cookie
    BY <1>7 DEF RotateLost
  <2> QED BY <2>1, <2>2, <2>3, <2>4
<1>8. ASSUME NEW r \in Reads, Answer(r)
      PROVE  SessionKeptFresh' /\ Carried'
  <2>1. \A s \in Reads : s = r
    BY DEF OneRead
  <2>2. pc[r] = "answering" /\ pc'[r] \in {"calling", "idle"}
    BY <1>8 DEF Answer, Goes
  <2>3. cookie' = (IF held[r] = 0 THEN cookie ELSE held[r]) /\ live' = live /\ severed' = severed
    BY <1>8 DEF Answer
  <2> QED BY <2>1, <2>2, <2>3
<1>9. ASSUME NEW r \in Reads, AnswerLost(r)
      PROVE  SessionKeptFresh' /\ Carried'
  <2>1. \A s \in Reads : s = r
    BY DEF OneRead
  <2>2. pc[r] = "answering" /\ pc'[r] = "idle"
    BY <1>9 DEF AnswerLost, Goes
  <2>3. cookie' = cookie /\ live' = live /\ severed' = severed \cup ({spent[r]} \ {0})
    BY <1>9 DEF AnswerLost
  <2> QED BY <2>1, <2>2, <2>3
<1>10. ASSUME NEW r \in Reads, Call(r)
       PROVE  SessionKeptFresh' /\ Carried'
  <2>1. \A s \in Reads : s = r
    BY DEF OneRead
  <2>2. pc[r] = "calling" /\ pc'[r] = "idle"
    BY <1>10 DEF Call, Goes
  <2>3. cookie' \in {0, cookie} /\ live' = live /\ severed' = severed
    BY <1>10 DEF Call
  <2> QED BY <2>1, <2>2, <2>3
<1>11. ASSUME NEW g \in Grants, Age(g) \/ Expire(g)
       PROVE  SessionKeptFresh' /\ Carried'
  <2>1. live \cup severed \subseteq live' \cup severed'
    BY <1>11 DEF Age, Expire
  <2>2. UNCHANGED <<cookie, pc, held, spent>>
    BY <1>11 DEF Age, Expire
  <2> QED BY <2>1, <2>2
<1> QED
  BY <1>1, <1>2, <1>3, <1>4, <1>5, <1>6, <1>7, <1>8, <1>9, <1>10, <1>11 DEF Next

\* A dead access token in the hands of a call.
LEMMA CauseStep ==
  ASSUME Inductive, OneRead, [Next]_vars
  PROVE  (Unissued /\ DeadHasCause)'
<1> USE DEF Inductive, TypeOK, Held, Unissued, DeadHasCause, cache, tokens, reading
<1>0. \A r, s \in Reads : s = r
  BY DEF OneRead
<1>1. CASE SignIn \/ SignOut \/ WorkerClaims \/ UNCHANGED vars
  <2>1. UNCHANGED <<age, reading, cached>> /\ issued' \in Nat /\ issued' >= issued
    BY <1>1 DEF SignIn, SignOut, WorkerClaims, vars
  <2>2. worker => worker'
    BY <1>1 DEF SignIn, SignOut, WorkerClaims, vars
  <2> QED BY <2>1, <2>2
<1>2. ASSUME NEW r \in Reads, ReadForCall(r) \/ ReadForPage(r)
      PROVE  Unissued' /\ DeadHasCause'
  BY <1>0, <1>2 DEF ReadForCall, ReadForPage, Begin
<1>3. ASSUME NEW r \in Reads, ReadFromCache(r)
      PROVE  Unissued' /\ DeadHasCause'
  BY <1>0, <1>3 DEF ReadFromCache, Begin
<1>4. ASSUME NEW r \in Reads, AnswerAsIs(r) \/ Refresh(r) \/ RefreshFails(r)
      PROVE  Unissued' /\ DeadHasCause'
  <2>1. UNCHANGED <<age, issued, held>>
    BY <1>4 DEF AnswerAsIs, Refresh, RefreshFails
  <2>2. pc'[r] = "answering" /\ held[r] \in Grants /\ age[held[r]] # "fresh" => r \in error'
    BY <1>4 DEF AnswerAsIs, Refresh, RefreshFails, Goes, NearExpiry
  <2>3. pc'[r] \in {"answering", "rotating"}
    BY <1>4 DEF AnswerAsIs, Refresh, RefreshFails, Goes
  <2>4. held[r] # 0 => held[r] \in Grants
    OBVIOUS
  <2> QED BY <1>0, <2>1, <2>2, <2>3, <2>4
<1>5. ASSUME NEW r \in Reads, Rotate(r)
      PROVE  Unissued' /\ DeadHasCause'
  <2>1. pc'[r] = "answering" /\ held'[r] = issued + 1 /\ issued' = issued + 1 /\ age' = age
    BY <1>5 DEF Rotate, Goes
  <2>2. issued + 1 \in Grants /\ age[issued + 1] = "fresh"
    BY <1>5 DEF Rotate
  <2> QED BY <1>0, <2>1, <2>2
<1>6. ASSUME NEW r \in Reads, RotateLost(r)
      PROVE  Unissued' /\ DeadHasCause'
  BY <1>0, <1>6 DEF RotateLost, Goes
<1>7. ASSUME NEW r \in Reads, Answer(r)
      PROVE  Unissued' /\ DeadHasCause'
  <2>1. pc[r] = "answering" /\ pc'[r] # "answering"
    BY <1>7 DEF Answer, Goes
  <2>2. UNCHANGED <<age, issued, held, error>>
    BY <1>7 DEF Answer
  <2> QED BY <1>0, <2>1, <2>2
<1>8. ASSUME NEW r \in Reads, AnswerLost(r) \/ Call(r)
      PROVE  Unissued' /\ DeadHasCause'
  <2>1. pc'[r] = "idle" /\ UNCHANGED <<age, issued>>
    BY <1>8 DEF AnswerLost, Call, Goes
  <2> QED BY <1>0, <2>1
<1>9. ASSUME NEW g \in Grants, Age(g)
      PROVE  Unissued' /\ DeadHasCause'
  <2>1. UNCHANGED <<reading, cache, issued>>
    BY <1>9 DEF Age
  <2>2. g <= issued /\ \A h \in Grants : h # g => age'[h] = age[h]
    BY <1>9 DEF Age
  <2>3. \A r \in Reads : pc[r] \in {"answering", "calling"} /\ held[r] = g => age'[g] # "dead"
    BY <1>9 DEF Age
  <2>4. \A r \in Reads : held[r] # 0 => held[r] \in Grants
    OBVIOUS
  <2> QED BY <2>1, <2>2, <2>3, <2>4
<1>10. ASSUME NEW g \in Grants, Expire(g)
       PROVE  Unissued' /\ DeadHasCause'
  BY <1>10 DEF Expire
<1> QED
  BY <1>1, <1>2, <1>3, <1>4, <1>5, <1>6, <1>7, <1>8, <1>9, <1>10 DEF Next

LEMMA InitTyped == Init => TypeOK /\ Held
<1> SUFFICES ASSUME Init PROVE TypeOK /\ Held
  OBVIOUS
<1>1. issued = 0 /\ 0 \in 0..0 /\ 0 \in 0..MaxGrants
  BY DEF Init
<1>2. cookie \in 0..issued /\ live \subseteq 1..issued /\ severed \subseteq 1..issued
  BY <1>1 DEF Init
<1>3. age \in [Grants -> Ages]
  BY DEF Init
<1>4. held \in [Reads -> 0..issued] /\ spent \in [Reads -> 0..issued]
  BY <1>1 DEF Init
<1> QED BY <1>1, <1>2, <1>3, <1>4 DEF Init, TypeOK, Held

LEMMA InitInductive == Init => Inductive
<1> SUFFICES ASSUME Init PROVE Inductive
  OBVIOUS
<1>1. SessionKeptFresh /\ Carried /\ Unissued /\ DeadHasCause
  BY DEF Init, SessionKeptFresh, Carried, Unissued, DeadHasCause
<1> QED BY <1>1, InitTyped DEF Inductive

LEMMA StepInductive == ASSUME Inductive, OneRead, [Next]_vars PROVE Inductive'
  BY TypeStep, KeptStep, CauseStep DEF Inductive

\* Every variable keeps its type, for any number of reads and grants.
THEOREM TypeCorrect == Spec => []TypeOK
  BY InitTyped, TypeStep, PTL DEF Spec

\* With one read at a time the refresh token in the cookie works until it expires
\* or its rotation is lost, whatever refreshes, sign-outs and answers fail
\* (auth.config.ts, jwt).
THEOREM SessionKeptFreshHolds == ASSUME OneRead PROVE Spec => []SessionKeptFresh
<1>1. Inductive => SessionKeptFresh
  BY DEF Inductive
<1>2. Inductive /\ [Next]_vars => Inductive'
  BY StepInductive
<1> QED BY <1>1, <1>2, InitInductive, PTL DEF Spec

\* With one read at a time a 401 signs the user out only when the read found no
\* session, after a refresh failed, or with an answer the service worker had kept
\* (lib/api.ts, response interceptor).
THEOREM SignOutHasCauseHolds == ASSUME OneRead PROVE Spec => SignOutHasCause
<1> DEFINE Cause(r) == held[r] = 0 \/ r \in error \/ (worker /\ held[r] = cached)
<1>1. ASSUME Inductive, NEW r \in Reads, CallSignsOut(r)
      PROVE  Cause(r)
  BY <1>1 DEF CallSignsOut, Call, Refused, Goes, Inductive, DeadHasCause
<1>2. Inductive /\ [Next]_vars => [\A r \in Reads : CallSignsOut(r) => Cause(r)]_vars
  BY <1>1
<1>3. Inductive /\ [Next]_vars => Inductive'
  BY StepInductive
<1> QED BY <1>2, <1>3, InitInductive, PTL DEF Spec, SignOutHasCause
=============================================================================
