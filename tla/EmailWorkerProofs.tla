-------------------------- MODULE EmailWorkerProofs --------------------------
(* The welcome-email jobs for any number of jobs, workers and stalls.  The      *)
(* argument is a count: a job is fetched once for each stalled count, so the    *)
(* emails sent and those a worker still has to send are no more than the        *)
(* claims there have been.                                                     *)
EXTENDS EmailWorker, FiniteSetTheorems, TLAPS

\* Claims of a job whose email a worker still has to send.
Pending(j) == {c \in Claims : c[1] = j /\ \E w \in Workers : c \in busy[w] \ mailed[w]}

\* How often the job has been fetched.
Fetched(j) == stalls[j] + IF stage[j] \in {"none", "wait"} THEN 0 ELSE 1

ClaimsAreOnce ==
    /\ \A w \in Workers : \A c \in busy[w] : c[2] < Fetched(c[1])
    /\ \A v, w \in Workers : v # w => busy[v] \cap busy[w] = {}
MailsCounted ==
    \A j \in Jobs : IsFiniteSet(Pending(j)) /\ mails[j] + Cardinality(Pending(j)) <= Fetched(j)
MailedSent ==
    \A w \in Workers : mailed[w] \subseteq busy[w] /\ \A c \in mailed[w] : mails[c[1]] > 0
Stalling ==
    \A j \in Jobs : /\ stage[j] \in {"none", "wait", "active"} => stalls[j] <= MaxStalled
                    /\ stage[j] = "none" => stalls[j] = 0
Leaving == \A w \in Workers : proc[w] \in {"quitting", "down"} => busy[w] = {}

Inv == TypeOK /\ ClaimsAreOnce /\ MailsCounted /\ MailedSent /\ Stalling /\ Leaving
           /\ DoneMeansMailed

-----------------------------------------------------------------------------
LEMMA ClaimType == \A c \in Claims : c[1] \in Jobs /\ c[2] \in 0 .. MaxStalled /\ c = <<c[1], c[2]>>
  BY DEF Claims

LEMMA CountsType ==
  ASSUME TypeOK, NEW j \in Jobs
  PROVE  Fetched(j) \in Nat /\ stalls[j] \in Nat /\ mails[j] \in Nat
  BY MaxStalledAssumption DEF TypeOK, Fetched

LEMMA InitInv == Init => Inv
<1> SUFFICES ASSUME Init PROVE Inv
  OBVIOUS
<1>1. TypeOK
  BY MaxStalledAssumption DEF Init, TypeOK
<1>2. ClaimsAreOnce /\ MailedSent /\ Stalling /\ Leaving /\ DoneMeansMailed
  BY MaxStalledAssumption DEF Init, ClaimsAreOnce, MailedSent, Stalling, Leaving, DoneMeansMailed
<1>3. MailsCounted
  <2> SUFFICES ASSUME NEW j \in Jobs
               PROVE  IsFiniteSet(Pending(j)) /\ mails[j] + Cardinality(Pending(j)) <= Fetched(j)
    BY DEF MailsCounted
  <2>1. Pending(j) = {}
    BY DEF Init, Pending
  <2> QED BY <2>1, FS_EmptySet DEF Init, Fetched
<1> QED BY <1>1, <1>2, <1>3 DEF Inv

\* A step that sends nothing, fetches nothing and leaves no more to be sent.
LEMMA FewerPending ==
  ASSUME Inv, TypeOK', UNCHANGED mails,
         \A j \in Jobs : Pending(j)' \subseteq Pending(j) /\ Fetched(j) <= Fetched(j)'
  PROVE  MailsCounted'
<1> SUFFICES ASSUME NEW j \in Jobs
             PROVE  /\ IsFiniteSet(Pending(j)')
                    /\ mails[j] + Cardinality(Pending(j)') <= Fetched(j)'
  BY DEF MailsCounted
<1>1. IsFiniteSet(Pending(j)) /\ mails[j] + Cardinality(Pending(j)) <= Fetched(j)
  BY DEF Inv, MailsCounted
<1>2. /\ IsFiniteSet(Pending(j)') /\ Cardinality(Pending(j)') <= Cardinality(Pending(j))
      /\ Cardinality(Pending(j)) \in Nat /\ Cardinality(Pending(j)') \in Nat
  BY <1>1, FS_Subset, FS_CardinalityType
<1>3. Fetched(j) \in Nat /\ mails[j] \in Nat /\ Fetched(j)' \in Nat
  BY CountsType DEF Inv, TypeOK, Fetched
<1> QED BY <1>1, <1>2, <1>3

LEMMA EnqueueKeeps ==
  ASSUME Inv, NEW j \in Jobs, Enqueue(j)
  PROVE  Inv'
<1> USE DEF Inv
<1>1. TypeOK'
  BY DEF TypeOK, Enqueue, processVars
<1>2. \A i \in Jobs : Pending(i)' = Pending(i) /\ Fetched(i)' = Fetched(i)
  BY DEF Enqueue, processVars, Pending, Fetched, TypeOK
<1>3. MailsCounted'
  BY <1>1, <1>2, FewerPending, CountsType DEF Enqueue
<1>4. ClaimsAreOnce'
  BY <1>2, ClaimType DEF Enqueue, processVars, ClaimsAreOnce, TypeOK
<1>5. MailedSent' /\ Stalling' /\ Leaving' /\ DoneMeansMailed'
  BY DEF Enqueue, processVars, MailedSent, Stalling, Leaving, DoneMeansMailed, TypeOK
<1> QED BY <1>1, <1>3, <1>4, <1>5

LEMMA FetchKeeps ==
  ASSUME Inv, NEW w \in Workers, NEW j \in Jobs, Fetch(w, j)
  PROVE  Inv'
<1> USE DEF Inv
<1>1. Claim(j) \in Claims /\ Claim(j)[1] = j /\ Claim(j)[2] = stalls[j]
  BY MaxStalledAssumption DEF Claim, Claims, Fetch, Stalling, TypeOK
<1>2. TypeOK'
  BY <1>1 DEF TypeOK, Fetch
<1>3. Fetched(j) = stalls[j] /\ Fetched(j)' = stalls[j] + 1
  BY DEF Fetch, Fetched, TypeOK
<1>4. \A i \in Jobs : i # j => Fetched(i)' = Fetched(i)
  BY DEF Fetch, Fetched, TypeOK
<1>5. \A v \in Workers : Claim(j) \notin busy[v]
  BY <1>1, <1>3, CountsType DEF ClaimsAreOnce
<1>6. \A v \in Workers : busy'[v] = IF v = w THEN busy[w] \cup {Claim(j)} ELSE busy[v]
  BY DEF Fetch, TypeOK
<1>7. ClaimsAreOnce'
  <2>1. ASSUME NEW v \in Workers, NEW c \in busy'[v] PROVE c[2] < Fetched(c[1])'
    <3>1. CASE c = Claim(j)
      BY <3>1, <1>1, <1>3, CountsType
    <3>2. CASE c \in busy[v]
      <4>1. c \in Claims /\ c[2] < Fetched(c[1])
        BY <3>2 DEF ClaimsAreOnce, TypeOK
      <4> QED BY <4>1, <1>3, <1>4, CountsType, ClaimType, MaxStalledAssumption
    <3> QED BY <3>1, <3>2, <1>6
  <2>2. \A u, v \in Workers : u # v => busy'[u] \cap busy'[v] = {}
    BY <1>5, <1>6 DEF ClaimsAreOnce
  <2> QED BY <2>1, <2>2 DEF ClaimsAreOnce
<1>8. ASSUME NEW i \in Jobs
      PROVE  IsFiniteSet(Pending(i)') /\ mails'[i] + Cardinality(Pending(i)') <= Fetched(i)'
  <2>1. IsFiniteSet(Pending(i)) /\ mails[i] + Cardinality(Pending(i)) <= Fetched(i)
    BY DEF MailsCounted
  <2>2. CASE i # j
    <3>1. Pending(i)' = Pending(i)
      BY <2>2, <1>1, <1>6 DEF Pending, Fetch
    <3> QED BY <3>1, <2>1, <2>2, <1>4 DEF Fetch
  <2>3. CASE i = j
    <3>1. Pending(j)' = Pending(j) \cup {Claim(j)}
      <4>1. Claim(j) \notin mailed[w]
        BY <1>5 DEF MailedSent
      <4> QED BY <4>1, <1>1, <1>6 DEF Pending, Fetch
    <3>2. Claim(j) \notin Pending(j)
      BY <1>5 DEF Pending
    <3>3. IsFiniteSet(Pending(j)') /\ Cardinality(Pending(j)') = Cardinality(Pending(j)) + 1
      BY <3>1, <3>2, <2>1, <2>3, FS_AddElement
    <3>4. Cardinality(Pending(j)) \in Nat
      BY <2>1, <2>3, FS_CardinalityType
    <3> QED BY <3>3, <3>4, <2>1, <2>3, <1>3, CountsType DEF Fetch
  <2> QED BY <2>2, <2>3
<1>9. MailedSent' /\ Stalling' /\ Leaving' /\ DoneMeansMailed'
  BY <1>6 DEF Fetch, MailedSent, Stalling, Leaving, DoneMeansMailed, TypeOK
<1> QED BY <1>2, <1>7, <1>8, <1>9 DEF MailsCounted

LEMMA ProcessKeeps ==
  ASSUME Inv, NEW w \in Workers, NEW c \in Claims, Process(w, c)
  PROVE  Inv'
<1> USE DEF Inv
<1> DEFINE j == c[1]
<1>1. j \in Jobs
  BY ClaimType
<1>2. TypeOK'
  BY <1>1 DEF TypeOK, Process, queueVars
<1>3. mails'[j] = mails[j] + 1 /\ \A i \in Jobs : i # j => mails'[i] = mails[i]
  BY <1>1 DEF Process, TypeOK
<1>4. \A i \in Jobs : Fetched(i)' = Fetched(i)
  BY DEF Process, queueVars, Fetched
<1>5. \A v \in Workers : mailed'[v] = IF v = w THEN mailed[w] \cup {c} ELSE mailed[v]
  BY DEF Process, TypeOK
<1>6. ASSUME NEW i \in Jobs
      PROVE  IsFiniteSet(Pending(i)') /\ mails'[i] + Cardinality(Pending(i)') <= Fetched(i)'
  <2>1. IsFiniteSet(Pending(i)) /\ mails[i] + Cardinality(Pending(i)) <= Fetched(i)
    BY DEF MailsCounted
  <2>2. CASE i # j
    <3>1. Pending(i)' = Pending(i)
      BY <2>2, <1>5 DEF Pending, Process
    <3> QED BY <3>1, <2>1, <2>2, <1>3, <1>4
  <2>3. CASE i = j
    <3>1. c \in Pending(j) /\ Pending(j)' = Pending(j) \ {c}
      <4>1. \A v \in Workers : c \in busy[v] => v = w
        BY DEF Process, ClaimsAreOnce
      <4> QED BY <4>1, <1>5 DEF Pending, Process
    <3>2. IsFiniteSet(Pending(j)') /\ Cardinality(Pending(j)') = Cardinality(Pending(j)) - 1
      BY <3>1, <2>1, <2>3, FS_RemoveElement
    <3>3. Cardinality(Pending(j)) \in Nat
      BY <2>1, <2>3, FS_CardinalityType
    <3> QED BY <3>2, <3>3, <2>1, <2>3, <1>1, <1>3, <1>4, CountsType
  <2> QED BY <2>2, <2>3
<1>7. ClaimsAreOnce'
  BY <1>4, ClaimType DEF ClaimsAreOnce, Process, TypeOK
<1>8. MailedSent'
  <2>1. \A i \in Jobs : mails[i] > 0 => mails'[i] > 0
    BY <1>1, <1>3, CountsType
  <2>2. mails'[j] > 0
    BY <1>1, <1>3, CountsType
  <2> QED BY <2>1, <2>2, <1>5, ClaimType DEF MailedSent, Process, TypeOK
<1>9. Stalling' /\ Leaving' /\ DoneMeansMailed'
  BY <1>1, <1>3, CountsType DEF Process, queueVars, Stalling, Leaving, DoneMeansMailed
<1> QED BY <1>2, <1>6, <1>7, <1>8, <1>9 DEF MailsCounted

LEMMA CompleteKeeps ==
  ASSUME Inv, NEW w \in Workers, NEW c \in Claims, Complete(w, c)
  PROVE  Inv'
<1> USE DEF Inv, Complete, Settles
<1>1. c[1] \in Jobs /\ c \in mailed[w] /\ mails[c[1]] > 0
  BY ClaimType DEF MailedSent
<1>2. TypeOK'
  BY <1>1 DEF TypeOK
<1>3. \A v \in Workers : /\ busy'[v] = IF v = w THEN busy[w] \ {c} ELSE busy[v]
                         /\ mailed'[v] = IF v = w THEN mailed[w] \ {c} ELSE mailed[v]
  BY DEF TypeOK
<1>4. \A i \in Jobs : Pending(i)' \subseteq Pending(i)
  BY <1>1, <1>3 DEF Pending
<1>5. lock[c[1]] = w /\ c = Claim(c[1]) => stage[c[1]] \notin {"none", "wait"}
  <2>1. c[2] < Fetched(c[1])
    BY <1>1 DEF ClaimsAreOnce, MailedSent
  <2> QED BY <2>1, <1>1, CountsType DEF Claim, Fetched
<1>6. \A i \in Jobs : Fetched(i)' = Fetched(i)
  BY <1>1, <1>5 DEF Fetched, TypeOK
<1>7. MailsCounted'
  BY <1>2, <1>4, <1>6, FewerPending, CountsType
<1>8. ClaimsAreOnce'
  BY <1>3, <1>6, ClaimType DEF ClaimsAreOnce, TypeOK
<1>9. MailedSent' /\ Stalling' /\ Leaving' /\ DoneMeansMailed'
  BY <1>1, <1>3 DEF MailedSent, Stalling, Leaving, DoneMeansMailed, TypeOK
<1> QED BY <1>2, <1>7, <1>8, <1>9

LEMMA StallKeeps ==
  ASSUME Inv, NEW w \in Workers, NEW j \in Jobs, Stall(w, j)
  PROVE  Inv'
<1> USE DEF Inv, Stall
<1>1. stalls[j] \in Nat /\ stalls[j] <= MaxStalled /\ stalls'[j] = stalls[j] + 1
  BY MaxStalledAssumption DEF TypeOK, Stalling
<1>2. TypeOK'
  BY <1>1, MaxStalledAssumption DEF TypeOK, processVars
<1>3. \A i \in Jobs : Fetched(i) <= Fetched(i)'
  BY <1>1, CountsType DEF Fetched, TypeOK
<1>4. \A i \in Jobs : Pending(i)' = Pending(i)
  BY DEF processVars, Pending
<1>5. MailsCounted'
  BY <1>2, <1>3, <1>4, FewerPending
<1>6. ClaimsAreOnce'
  <2> SUFFICES ASSUME NEW v \in Workers, NEW c \in busy[v]
               PROVE  c[2] < Fetched(c[1])'
    BY DEF ClaimsAreOnce, processVars
  <2>1. c \in Claims /\ c[2] < Fetched(c[1])
    BY DEF ClaimsAreOnce, TypeOK
  <2>2. c[1] \in Jobs /\ c[2] \in Nat
    BY <2>1, ClaimType, MaxStalledAssumption
  <2>3. Fetched(c[1]) \in Nat /\ Fetched(c[1])' \in Nat
    BY <2>2, <1>2, CountsType DEF Fetched, TypeOK
  <2> QED BY <2>1, <2>2, <2>3, <1>3
<1>7. MailedSent' /\ Stalling' /\ Leaving' /\ DoneMeansMailed'
  BY <1>1, MaxStalledAssumption
     DEF processVars, MailedSent, Stalling, Leaving, DoneMeansMailed, TypeOK
<1> QED BY <1>2, <1>5, <1>6, <1>7

LEMMA ExitKeeps ==
  ASSUME Inv, NEW w \in Workers, NEW status \in {"clean", "failed"}, Exit(w, status)
  PROVE  Inv'
<1> USE DEF Inv, Exit
<1>1. TypeOK'
  BY DEF TypeOK, queueVars
<1>2. \A v \in Workers : /\ busy'[v] = IF v = w THEN {} ELSE busy[v]
                         /\ mailed'[v] = IF v = w THEN {} ELSE mailed[v]
  BY DEF TypeOK
<1>3. \A i \in Jobs : Pending(i)' \subseteq Pending(i) /\ Fetched(i)' = Fetched(i)
  BY <1>2 DEF Pending, Fetched, queueVars
<1>4. MailsCounted'
  BY <1>1, <1>3, FewerPending, CountsType
<1>5. ClaimsAreOnce'
  BY <1>2, <1>3, ClaimType DEF ClaimsAreOnce, TypeOK
<1>6. MailedSent' /\ Stalling' /\ Leaving' /\ DoneMeansMailed'
  BY <1>2 DEF MailedSent, Stalling, Leaving, DoneMeansMailed, TypeOK, queueVars
<1> QED BY <1>1, <1>4, <1>5, <1>6

\* Steps that leave claims, stalls and emails alone.
LEMMA OthersKeep ==
  ASSUME Inv,
         \/ UNCHANGED vars \/ RedisFails \/ RedisReturns
         \/ \E j \in Jobs : LockExpires(j)
         \/ \E w \in Workers : Boot(w) \/ Shutdown(w) \/ Closed(w)
  PROVE  Inv'
<1> USE DEF Inv
<1>1. UNCHANGED <<stage, stalls, code, busy, mailed, mails>>
  BY DEF vars, queueVars, processVars, RedisFails, RedisReturns, LockExpires, Boot, Shutdown, Closed
<1>2. TypeOK'
  BY DEF TypeOK, vars, queueVars, processVars, RedisFails, RedisReturns, LockExpires, Boot,
         Shutdown, Closed, Up
<1>3. Leaving'
  BY DEF Leaving, vars, queueVars, processVars, RedisFails, RedisReturns, LockExpires, Boot,
         Shutdown, Closed, TypeOK
<1>4. \A i \in Jobs : Pending(i)' = Pending(i) /\ Fetched(i)' = Fetched(i)
  BY <1>1 DEF Pending, Fetched
<1>5. MailsCounted' /\ ClaimsAreOnce'
  BY <1>1, <1>4, ClaimType DEF MailsCounted, ClaimsAreOnce, TypeOK
<1>6. MailedSent' /\ Stalling' /\ DoneMeansMailed'
  BY <1>1 DEF MailedSent, Stalling, DoneMeansMailed
<1> QED BY <1>2, <1>3, <1>5, <1>6

LEMMA StepKeepsInv == Inv /\ [Next]_vars => Inv'
<1> SUFFICES ASSUME Inv, [Next]_vars PROVE Inv'
  OBVIOUS
<1>1. ASSUME NEW j \in Jobs, Enqueue(j) PROVE Inv'
  BY <1>1, EnqueueKeeps
<1>2. ASSUME NEW w \in Workers, Quit(w) \/ ForceExit(w) \/ Crash(w) PROVE Inv'
  BY <1>2, ExitKeeps DEF Quit, ForceExit, Crash
<1>3. ASSUME NEW w \in Workers, NEW j \in Jobs, Fetch(w, j) \/ Stall(w, j) PROVE Inv'
  BY <1>3, FetchKeeps, StallKeeps
<1>4. ASSUME NEW w \in Workers, NEW c \in Claims, Process(w, c) \/ Complete(w, c) PROVE Inv'
  BY <1>4, ProcessKeeps, CompleteKeeps
<1> QED BY <1>1, <1>2, <1>3, <1>4, OthersKeep DEF Next

THEOREM Invariance == Spec => []Inv
<1> QED BY InitInv, StepKeepsInv, PTL DEF Spec

\* Type correctness, and with it: a job stalls at most MaxStalled + 1 times.
THEOREM TypeCorrect == Spec => []TypeOK
<1> QED BY Invariance, PTL DEF Inv

\* No user gets more than one welcome email per claim of the job, whatever
\* crashes, times out or loses its lock (worker.ts, email.worker.ts).
THEOREM OneMailPerClaimHolds == Spec => []OneMailPerClaim
<1>1. Inv => OneMailPerClaim
  <2> SUFFICES ASSUME Inv, NEW j \in Jobs
               PROVE  mails[j] <= stalls[j] + 1
    BY DEF OneMailPerClaim
  <2>1. mails[j] + Cardinality(Pending(j)) <= Fetched(j) /\ Cardinality(Pending(j)) \in Nat
    BY FS_CardinalityType DEF Inv, MailsCounted
  <2>2. Fetched(j) <= stalls[j] + 1 /\ stalls[j] \in Nat /\ mails[j] \in Nat /\ Fetched(j) \in Nat
    BY CountsType DEF Inv, Fetched
  <2> QED BY <2>1, <2>2
<1> QED BY <1>1, Invariance, PTL

\* A job is done only when its email was sent (processWelcomeEmail before the
\* settling of its job).
THEOREM DoneMeansMailedHolds == Spec => []DoneMeansMailed
<1>1. Inv => DoneMeansMailed
  BY DEF Inv
<1> QED BY <1>1, Invariance, PTL

\* An exit with status 0 leaves no job in process (shutdown of worker.ts).
THEOREM CleanExitDropsNothingHolds == Spec => CleanExitDropsNothing
<1> DEFINE P(w) == (code'[w] = "clean" /\ proc'[w] = "down" /\ proc[w] # "down") => busy[w] = {}
<1>1. ASSUME Inv, [Next]_vars, NEW w \in Workers,
             code'[w] = "clean", proc'[w] = "down", proc[w] # "down"
      PROVE  busy[w] = {}
  <2>1. proc[w] = "quitting"
    <3>1. ASSUME NEW v \in Workers, Quit(v) PROVE proc[w] = "quitting"
      BY <1>1, <3>1 DEF Quit, Exit, Inv, TypeOK
    <3>2. ASSUME NEW v \in Workers, Crash(v) \/ ForceExit(v) PROVE FALSE
      BY <1>1, <3>2 DEF Crash, ForceExit, Exit, Inv, TypeOK
    <3>3. ASSUME NEW v \in Workers, Boot(v) \/ Shutdown(v) \/ Closed(v) PROVE FALSE
      BY <1>1, <3>3 DEF Boot, Shutdown, Closed, Inv, TypeOK
    <3>4. ASSUME NEW v \in Workers,
                 \/ \E j \in Jobs : Fetch(v, j) \/ Stall(v, j)
                 \/ \E c \in Claims : Process(v, c) \/ Complete(v, c)
          PROVE  FALSE
      BY <1>1, <3>4 DEF Fetch, Stall, Process, Complete, Settles, processVars
    <3>5. ~UNCHANGED vars /\ ~RedisFails /\ ~RedisReturns
            /\ \A j \in Jobs : ~Enqueue(j) /\ ~LockExpires(j)
      BY <1>1 DEF vars, processVars, RedisFails, RedisReturns, Enqueue, LockExpires
    <3> QED BY <1>1, <3>1, <3>2, <3>3, <3>4, <3>5 DEF Next
  <2> QED BY <1>1, <2>1 DEF Inv, Leaving
<1>2. Inv /\ [Next]_vars => [\A w \in Workers : P(w)]_vars
  BY <1>1
<1> QED BY <1>2, Invariance, PTL DEF Spec, CleanExitDropsNothing
=============================================================================
