------------------------ MODULE UploadPipelineProofs ------------------------
(* NoTwins and DuplicateHasOriginal of UploadPipeline, for any number of       *)
(* requests, owners and photos and any batches.                                *)
(*                                                                             *)
(* NoTwins needs one process (KNOWN HOLE in lib/keyedMutex.ts): with it, a     *)
(* request that is storing verdicts stands alone at the head of its owner's    *)
(* queue (HeadInside), so the corpus it read is still the corpus               *)
(* (CorpusIsCurrent) and its verdicts still follow from it (Decided).          *)
(* DuplicateHasOriginal needs no lock at all, only the order of the persist    *)
(* loop (History).  The last part is about the index: the bands of             *)
(* lib/metrics.ts, and NearPairsSpread of IndexedUpload.                       *)
EXTENDS IndexedUpload, FiniteSetTheorems, TLAPS

\* The process and the owner of a request are known once it has arrived.
Sited ==
    \A r \in Requests : pc[r] # "idle" => owner[r] \in Owners /\ inst[r] \in Instances

\* A request in its critical section is at the head of its owner's queue.
HeadInside ==
    \A r \in Requests :
        pc[r] \in Holding => /\ r \in inside
                             /\ queue[Key(r)] # << >>
                             /\ Head(queue[Key(r)]) = r

\* The verdicts a request is storing follow from its batch and the corpus it read.
Decided ==
    \A r \in Requests :
        pc[r] \in Deciding =>
            /\ DOMAIN decided[r] = DOMAIN batch[r]
            /\ pos[r] # 0
            /\ Reconciled(decided[r], batch[r], usable[r], prior[r])

\* The rows of a request are the ones its persist loop has passed.
RowsOfRequests ==
    \A x \in rows :
        /\ pc[x.req] \notin {"idle", "measuring", "queued", "reading"}
        /\ x.owner = owner[x.req]
        /\ pc[x.req] \in Deciding =>
              /\ x.pos < pos[x.req]
              /\ x.photo = batch[x.req][x.pos]
              /\ x.verdict = decided[x.req][x.pos]

\* What everAccepted remembers of the corpus and of the request's own photos.
History ==
    /\ \A x \in rows : x.verdict = "ACCEPTED" => x \in everAccepted
    /\ \A r \in Requests :
          pc[r] \in Deciding =>
              /\ \A h \in prior[r] : \E a \in everAccepted :
                     a.owner = owner[r] /\ a.photo = h /\ a.req # r
              /\ \A j \in 1..(pos[r] - 1) :
                     decided[r][j] = "ACCEPTED" =>
                         \E a \in everAccepted :
                             /\ a.owner = owner[r] /\ a.photo = batch[r][j]
                             /\ a.req = r /\ a.pos = j

IInv ==
    /\ TypeOK
    /\ Sited
    /\ HeadInside
    /\ Decided
    /\ RowsOfRequests
    /\ History
    /\ DuplicateHasOriginal

OneProcess == \A i, j \in Instances : i = j

-----------------------------------------------------------------------------
(* The shape of a step: what it may change, and for whom.                      *)

\* A step of request r leaves the local state of every other request alone.
OthersKeep(r) ==
    \A s \in Requests : s # r =>
        /\ pc'[s] = pc[s] /\ owner'[s] = owner[s] /\ inst'[s] = inst[s]
        /\ batch'[s] = batch[s] /\ usable'[s] = usable[s] /\ prior'[s] = prior[s]
        /\ decided'[s] = decided[s] /\ pos'[s] = pos[s]

LEMMA ArriveShape ==
    ASSUME TypeOK, NEW r \in Requests, NEW o \in Owners, NEW i \in Instances,
           NEW b \in Batches, NEW at \in {"refused", "measuring"}, Arrive(r, o, i, b, at)
    PROVE  TypeOK' /\ OthersKeep(r)
  BY BatchesAreSeqs DEF TypeOK, Arrive, OthersKeep, lockVars, PCs, Holding, Deciding, Ended

LEMMA MeasureShape ==
    ASSUME TypeOK, Sited, NEW r \in Requests, NEW ok \in SUBSET DOMAIN batch[r],
           Measure(r, ok)
    PROVE  TypeOK' /\ OthersKeep(r)
  <1> USE DEF TypeOK, Measure, request
  <1>1. Key(r) \in Instances \X Owners
    BY DEF Sited, Key
  <1>2. queue' \in [Instances \X Owners -> Seq(Requests)] /\ inside' = inside
    BY <1>1 DEF Lock!Request
  <1>3. usable' \in [Requests -> SUBSET Nat]
    <2>1. ok \in SUBSET Nat
      OBVIOUS
    <2> QED BY <2>1
  <1>4. OthersKeep(r)
    BY DEF OthersKeep
  <1> QED BY <1>2, <1>3, <1>4 DEF PCs, Holding, Deciding, Ended

LEMMA EnterShape ==
    ASSUME TypeOK, NEW r \in Requests, EnterLock(r)
    PROVE  TypeOK' /\ OthersKeep(r)
  BY DEF TypeOK, EnterLock, Lock!Enter, OthersKeep, request, PCs, Holding, Deciding, Ended

LEMMA FunctionIsSeq ==
    ASSUME NEW S, NEW n \in Nat, NEW f \in [1..n -> S]
    PROVE  f \in Seq(S)
  OBVIOUS

LEMMA ReadShape ==
    ASSUME TypeOK, NEW r \in Requests, ReadAndDecide(r)
    PROVE  TypeOK' /\ OthersKeep(r)
  <1> USE DEF TypeOK, ReadAndDecide, request, lockVars
  <1>1. Candidates(r) \in SUBSET Photos
    BY DEF Candidates, Row
  <1>2. prior' \in [Requests -> SUBSET Photos]
    BY <1>1
  <1>3. decided' \in [Requests -> Seq(Verdicts)]
    <2>1. PICK v \in [DOMAIN batch[r] -> Verdicts] : decided' = [decided EXCEPT ![r] = v]
      OBVIOUS
    <2>2. DOMAIN batch[r] = 1..Len(batch[r]) /\ Len(batch[r]) \in Nat
      OBVIOUS
    <2>3. v \in Seq(Verdicts)
      BY <2>1, <2>2, FunctionIsSeq
    <2> QED BY <2>1, <2>3
  <1>4. OthersKeep(r)
    BY DEF OthersKeep
  <1> QED BY <1>2, <1>3, <1>4 DEF PCs, Holding, Deciding, Ended

\* A row the persist loop inserts is a row of the table's type.
LEMMA RowAtType ==
    ASSUME TypeOK, Sited, Decided, NEW r \in Requests, pc[r] \in Deciding, More(r)
    PROVE  /\ RowAt(r) \in Row
           /\ pos[r] \in DOMAIN batch[r] /\ pos[r] \in Nat \ {0}
  <1>1. pos[r] \in Nat /\ pos[r] # 0 /\ batch[r] \in Seq(Photos)
    BY DEF TypeOK, Decided
  <1>2. pos[r] \in DOMAIN batch[r] /\ batch[r][pos[r]] \in Photos
    BY <1>1 DEF More
  <1>3. decided[r][pos[r]] \in Verdicts
    <2>1. decided[r] \in Seq(Verdicts) /\ DOMAIN decided[r] = DOMAIN batch[r]
      BY DEF TypeOK, Decided
    <2> QED BY <2>1, <1>2
  <1>4. owner[r] \in Owners
    BY DEF Sited, Deciding
  <1> QED BY <1>1, <1>2, <1>3, <1>4 DEF RowAt, Row

LEMMA InsertShape ==
    ASSUME TypeOK, Sited, Decided, NEW r \in Requests, Insert(r)
    PROVE  /\ pc[r] \in Deciding /\ More(r) /\ RowAt(r) \in Row
           /\ rows' \subseteq Row /\ everAccepted' \subseteq Row
           /\ pos' \in [Requests -> Nat] /\ pos'[r] = pos[r] + 1
           /\ \A s \in Requests : s # r => pos'[s] = pos[s]
  <1>1. pc[r] \in Deciding /\ More(r)
    BY DEF Insert, InsertDue, Deciding
  <1>2. RowAt(r) \in Row
    BY <1>1, RowAtType
  <1> QED BY <1>1, <1>2 DEF TypeOK, Insert

\* Of the rows inserted only the accepted ones are remembered.
LEMMA InsertRemembers ==
    ASSUME NEW r \in Requests, Insert(r)
    PROVE  \/ decided[r][pos[r]] # "ACCEPTED" /\ UNCHANGED everAccepted
           \/ decided[r][pos[r]] = "ACCEPTED" /\ everAccepted' = everAccepted \cup {RowAt(r)}
  BY DEF Insert, RowAt

LEMMA CreateShape ==
    ASSUME TypeOK, Sited, Decided, NEW r \in Requests, Create(r)
    PROVE  TypeOK' /\ OthersKeep(r)
  BY InsertShape DEF TypeOK, Create, Insert, OthersKeep, request, lockVars, PCs, Holding, Deciding

\* Leaving the lock keeps the types of its variables.
LEMMA LeaveShape ==
    ASSUME TypeOK, Sited, NEW r \in Requests, pc[r] # "idle", Lock!Leave(r, Key(r))
    PROVE  queue' \in [Instances \X Owners -> Seq(Requests)] /\ inside' \subseteq Requests
  <1>1. Key(r) \in Instances \X Owners
    BY DEF Sited, Key
  <1> QED BY <1>1 DEF Lock!Leave, TypeOK

LEMMA CreateReplyLostShape ==
    ASSUME TypeOK, Sited, Decided, NEW r \in Requests, CreateReplyLost(r)
    PROVE  TypeOK' /\ OthersKeep(r)
  <1>1. Insert(r) /\ pc[r] # "idle" /\ Lock!Leave(r, Key(r))
    BY DEF CreateReplyLost, Insert, InsertDue
  <1>2. OthersKeep(r)
    BY <1>1, InsertShape DEF CreateReplyLost, Insert, OthersKeep, TypeOK, request
  <1> QED BY <1>1, <1>2, InsertShape, LeaveShape
          DEF TypeOK, CreateReplyLost, Insert, request, PCs, Ended

LEMMA GoShape ==
    ASSUME TypeOK, NEW r \in Requests, UploadToCdn(r) \/ CdnAnswers(r)
    PROVE  TypeOK' /\ OthersKeep(r)
  BY DEF TypeOK, UploadToCdn, CdnAnswers, Go, OthersKeep, request, lockVars,
     PCs, Holding, Deciding, Ended

LEMMA SettleShape ==
    ASSUME TypeOK, Sited, NEW r \in Requests, pc[r] # "idle",
           NEW at \in {"answered", "failed"}, Settle(r, at)
    PROVE  TypeOK' /\ OthersKeep(r)
  <1>2. queue' \in [Instances \X Owners -> Seq(Requests)] /\ inside' \subseteq Requests
    BY LeaveShape DEF Settle
  <1> USE DEF TypeOK, Settle, request
  <1>3. OthersKeep(r)
    BY DEF OthersKeep
  <1> QED BY <1>2, <1>3 DEF PCs, Holding, Deciding, Ended

LEMMA CrashType ==
    ASSUME TypeOK, NEW i \in Instances, Crash(i)
    PROVE  TypeOK'
  <1>1. pc' \in [Requests -> PCs]
    BY DEF TypeOK, Crash, PCs, Ended
  <1>2. queue' \in [Instances \X Owners -> Seq(Requests)] /\ inside' \subseteq Requests
    BY DEF TypeOK, Crash
  <1> QED BY <1>1, <1>2 DEF TypeOK, Crash, request

LEMMA DeleteType ==
    ASSUME TypeOK, (\E row \in rows : DeleteImage(row)) \/ (\E o \in Owners : DeleteUser(o))
    PROVE  TypeOK'
  BY DEF TypeOK, DeleteImage, DeleteUser, request, lockVars

\* Every step keeps the types of the variables.
LEMMA TypeStep ==
    ASSUME TypeOK, Sited, Decided, [Next]_vars
    PROVE  TypeOK'
  <1>1. ASSUME NEW r \in Requests, Serve(r)
        PROVE  TypeOK'
    <2>1. Finish(r) => Settle(r, "answered") /\ pc[r] # "idle"
      BY DEF Finish
    <2>2. Fail(r) => Settle(r, "failed") /\ pc[r] # "idle"
      BY DEF Fail, InsertDue
    <2> QED BY <1>1, <2>1, <2>2, MeasureShape, EnterShape, ReadShape, CreateShape,
               CreateReplyLostShape, GoShape, SettleShape DEF Serve
  <1>2. ASSUME NEW r \in Requests, NEW o \in Owners, NEW i \in Instances, NEW b \in Batches,
               Refuse(r, o, i, b) \/ Receive(r, o, i, b)
        PROVE  TypeOK'
    BY <1>2, ArriveShape DEF Refuse, Receive
  <1>3. CASE UNCHANGED vars
    BY <1>3 DEF vars, request, lockVars, TypeOK
  <1> QED BY <1>1, <1>2, <1>3, CrashType, DeleteType DEF Next

-----------------------------------------------------------------------------
\* The steps of a request that moves on, told apart by what they do to the lock
\* and to the table.
Moves(r) ==
    \/ \E ok \in SUBSET DOMAIN batch[r] : Measure(r, ok)
    \/ EnterLock(r)
    \/ ReadAndDecide(r)
    \/ pc[r] \in Deciding /\ (Create(r) \/ CreateReplyLost(r))
    \/ \E from, to \in Deciding : Go(r, from, to)
    \/ \E at \in {"answered", "failed"} : pc[r] \in Holding /\ Settle(r, at)

LEMMA ServeMoves ==
    ASSUME NEW r \in Requests, Serve(r)
    PROVE  Moves(r)
  BY DEF Serve, Moves, Create, CreateReplyLost, Insert, InsertDue, UploadToCdn, CdnAnswers,
     Finish, Fail, Deciding, Holding

LEMMA ServeOthers ==
    ASSUME TypeOK, Sited, Decided, NEW r \in Requests, Serve(r)
    PROVE  OthersKeep(r)
  <1>1. Finish(r) => Settle(r, "answered") /\ pc[r] # "idle"
    BY DEF Finish
  <1>2. Fail(r) => Settle(r, "failed") /\ pc[r] # "idle"
    BY DEF Fail, InsertDue
  <1> QED BY <1>1, <1>2, MeasureShape, EnterShape, ReadShape, CreateShape,
             CreateReplyLostShape, GoShape, SettleShape DEF Serve

\* A request never loses its process or its owner, and its batch stays.
LEMMA ServeKeepsRequest ==
    ASSUME NEW r \in Requests, Serve(r)
    PROVE  owner' = owner /\ inst' = inst /\ batch' = batch
  BY ServeMoves DEF Moves, Measure, EnterLock, ReadAndDecide, Create, CreateReplyLost, Insert,
     Go, Settle, request

LEMMA SitedStep ==
    ASSUME TypeOK, Sited, Decided, [Next]_vars
    PROVE  Sited'
  <1>1. ASSUME NEW r \in Requests, Serve(r)
        PROVE  Sited'
    <2>1. pc[r] # "idle"
      BY <1>1, ServeMoves DEF Moves, Measure, EnterLock, ReadAndDecide, Go, Deciding, Holding
    <2> QED BY <1>1, <2>1, ServeKeepsRequest, ServeOthers DEF Sited, OthersKeep
  <1>2. ASSUME NEW r \in Requests, NEW o \in Owners, NEW i \in Instances, NEW b \in Batches,
               Refuse(r, o, i, b) \/ Receive(r, o, i, b)
        PROVE  Sited'
    BY <1>2 DEF Sited, Refuse, Receive, Arrive, TypeOK
  <1>3. ASSUME NEW i \in Instances, Crash(i)
        PROVE  Sited'
    BY <1>3 DEF Sited, Crash, request, Active
  <1>4. ASSUME (\E row \in rows : DeleteImage(row)) \/ (\E o \in Owners : DeleteUser(o))
        PROVE  Sited'
    BY <1>4 DEF Sited, DeleteImage, DeleteUser, request
  <1>5. CASE UNCHANGED vars
    BY <1>5 DEF vars, request, Sited
  <1> QED BY <1>1, <1>2, <1>3, <1>4, <1>5 DEF Next

-----------------------------------------------------------------------------
\* Standing at the head of its owner's queue, for one request.
AtHead(r) == r \in inside /\ queue[Key(r)] # << >> /\ Head(queue[Key(r)]) = r

LEMMA ServeKeepsHead ==
    ASSUME TypeOK, Sited, Decided, HeadInside, NEW r \in Requests, Serve(r)
    PROVE  HeadInside'
  <1>0. OthersKeep(r) /\ owner' = owner /\ inst' = inst
    BY ServeOthers, ServeKeepsRequest
  <1>1. \A s \in Requests : Key(s)' = Key(s)
    BY <1>0 DEF Key
  <1>2. \A s \in Requests : pc[s] \in Holding \cup {"queued", "measuring"} =>
                            Key(s) \in Instances \X Owners
    BY DEF Sited, Key, Holding, Deciding
  <1> SUFFICES ASSUME NEW s \in Requests, pc'[s] \in Holding
               PROVE  AtHead(s)'
    BY DEF HeadInside, AtHead
  <1>3. ASSUME NEW ok \in SUBSET DOMAIN batch[r], Measure(r, ok)
        PROVE  AtHead(s)'
    <2>1. s # r /\ pc[s] \in Holding
      BY <1>0, <1>3 DEF OthersKeep, Measure, TypeOK, Holding, Deciding
    <2>2. AtHead(s) /\ Key(s) \in Instances \X Owners /\ Key(r) \in Instances \X Owners
      BY <2>1, <1>2, <1>3 DEF HeadInside, AtHead, Measure
    <2>3. queue[Key(s)] \in Seq(Requests) /\ queue[Key(s)] # << >>
      BY <2>2 DEF TypeOK, AtHead
    <2>4. /\ Append(queue[Key(s)], r) # << >>
          /\ Head(Append(queue[Key(s)], r)) = Head(queue[Key(s)])
      BY <2>3
    <2>5. queue'[Key(s)] \in {queue[Key(s)], Append(queue[Key(s)], r)} /\ inside' = inside
      BY <2>2, <1>3 DEF Measure, Lock!Request, TypeOK
    <2> QED BY <2>2, <2>4, <2>5, <1>1 DEF AtHead
  <1>4. CASE EnterLock(r)
    <2>1. queue' = queue /\ inside' = inside \cup {r} /\ AtHead(r)'
      BY <1>4, <1>1 DEF EnterLock, Lock!Enter, AtHead
    <2>2. CASE s = r
      BY <2>1, <2>2
    <2>3. CASE s # r
      <3>1. AtHead(s)
        BY <2>3, <1>0 DEF OthersKeep, HeadInside, AtHead
      <3> QED BY <3>1, <2>1, <1>1 DEF AtHead
    <2> QED BY <2>2, <2>3
  <1>5. CASE \/ ReadAndDecide(r)
             \/ pc[r] \in Deciding /\ Create(r)
             \/ \E from, to \in Deciding : Go(r, from, to)
    <2>1. queue' = queue /\ inside' = inside /\ pc[r] \in Holding
      BY <1>5 DEF ReadAndDecide, Create, Go, lockVars, Holding
    <2>2. pc[s] \in Holding
      BY <2>1, <1>0 DEF OthersKeep
    <2> QED BY <2>1, <2>2, <1>1 DEF HeadInside, AtHead
  <1>6. ASSUME NEW at \in {"answered", "failed"}, pc[r] \in Holding,
               Settle(r, at) \/ CreateReplyLost(r)
        PROVE  AtHead(s)'
    <2>1. s # r /\ pc[s] \in Holding
      BY <1>0, <1>6 DEF OthersKeep, Settle, CreateReplyLost, TypeOK, Holding, Deciding
    <2>2. AtHead(s) /\ AtHead(r)
      BY <2>1, <1>6 DEF HeadInside, AtHead
    <2>3. Key(s) # Key(r) /\ Key(s) \in Instances \X Owners
      BY <2>1, <2>2, <1>2 DEF AtHead
    <2>4. queue'[Key(s)] = queue[Key(s)] /\ s \in inside'
      BY <2>1, <2>2, <2>3, <1>6 DEF Settle, CreateReplyLost, Lock!Leave, AtHead, TypeOK
    <2> QED BY <2>2, <2>4, <1>1 DEF AtHead
  <1>7. Deciding \subseteq Holding
    BY DEF Holding
  <1> QED BY <1>3, <1>4, <1>5, <1>6, <1>7, ServeMoves DEF Moves

LEMMA HeadInsideStep ==
    ASSUME TypeOK, Sited, Decided, HeadInside, [Next]_vars
    PROVE  HeadInside'
  <1>1. ASSUME NEW r \in Requests, NEW o \in Owners, NEW i \in Instances, NEW b \in Batches,
               Refuse(r, o, i, b) \/ Receive(r, o, i, b)
        PROVE  HeadInside'
    <2>1. /\ queue' = queue /\ inside' = inside /\ pc'[r] \notin Holding
          /\ \A s \in Requests : s # r => pc'[s] = pc[s] /\ owner'[s] = owner[s]
                                         /\ inst'[s] = inst[s]
      BY <1>1 DEF Refuse, Receive, Arrive, TypeOK, lockVars, Holding, Deciding
    <2> QED BY <2>1 DEF HeadInside, Key
  <1>2. ASSUME NEW i \in Instances, Crash(i)
        PROVE  HeadInside'
    <2> SUFFICES ASSUME NEW s \in Requests, pc'[s] \in Holding
                 PROVE  AtHead(s)'
      BY DEF HeadInside, AtHead
    <2>1. pc'[s] = pc[s] /\ owner' = owner /\ inst' = inst /\ inst[s] # i /\ s \in inside'
      BY <1>2 DEF Crash, Holding, Deciding, Active, Ended, request, HeadInside
    <2>2. Key(s) \in Instances \X Owners /\ Key(s)[1] = inst[s] /\ Key(s)' = Key(s)
      BY <2>1 DEF Key, Sited, Holding, Deciding
    <2>3. queue'[Key(s)] = queue[Key(s)]
      BY <2>1, <2>2, <1>2 DEF Crash
    <2> QED BY <2>1, <2>2, <2>3 DEF HeadInside, AtHead
  <1>3. CASE \/ \E row \in rows : DeleteImage(row)
             \/ \E o \in Owners : DeleteUser(o)
             \/ UNCHANGED vars
    <2>1. queue' = queue /\ inside' = inside /\ pc' = pc /\ owner' = owner /\ inst' = inst
      BY <1>3 DEF DeleteImage, DeleteUser, vars, lockVars, request
    <2> QED BY <2>1 DEF HeadInside, Key
  <1> QED BY <1>1, <1>2, <1>3, ServeKeepsHead DEF Next

-----------------------------------------------------------------------------
(* What is not a step of a request changes no verdict under way: rows may go,  *)
(* requests may arrive or be lost.                                             *)
Disturbs == /\ rows' \subseteq rows /\ everAccepted' = everAccepted
            /\ usable' = usable /\ prior' = prior /\ decided' = decided /\ pos' = pos
            /\ \A s \in Requests :
                  /\ pc'[s] \in Deciding => pc[s] \in Deciding
                  /\ pc'[s] = "answered" => pc[s] = "answered"
                  /\ pc[s] # "idle" => /\ owner'[s] = owner[s] /\ inst'[s] = inst[s]
                                       /\ batch'[s] = batch[s] /\ pc'[s] \in {pc[s], "lost"}

LEMMA OtherStepsDisturb ==
    ASSUME TypeOK, [Next]_vars, ~(\E r \in Requests : Serve(r))
    PROVE  Disturbs
  <1>1. ASSUME NEW r \in Requests, NEW o \in Owners, NEW i \in Instances, NEW b \in Batches,
               Refuse(r, o, i, b) \/ Receive(r, o, i, b)
        PROVE  Disturbs
    BY <1>1 DEF Disturbs, Refuse, Receive, Arrive, TypeOK, Deciding
  <1>2. ASSUME NEW i \in Instances, Crash(i)
        PROVE  Disturbs
    BY <1>2 DEF Disturbs, Crash, TypeOK, Deciding, request
  <1>3. CASE \/ \E row \in rows : DeleteImage(row)
             \/ \E o \in Owners : DeleteUser(o)
             \/ UNCHANGED vars
    BY <1>3 DEF Disturbs, DeleteImage, DeleteUser, vars, request
  <1> QED BY <1>1, <1>2, <1>3 DEF Next

LEMMA DecidedStep ==
    ASSUME TypeOK, Sited, Decided, [Next]_vars
    PROVE  Decided'
  <1>1. ASSUME NEW r \in Requests, Serve(r)
        PROVE  Decided'
    <2>0. OthersKeep(r) /\ batch' = batch
      BY <1>1, ServeOthers, ServeKeepsRequest
    <2> SUFFICES ASSUME NEW s \in Requests, pc'[s] \in Deciding
                 PROVE  (/\ DOMAIN decided[s] = DOMAIN batch[s]
                         /\ pos[s] # 0
                         /\ Reconciled(decided[s], batch[s], usable[s], prior[s]))'
      BY DEF Decided
    <2>1. CASE s # r
      <3>1. /\ pc[s] \in Deciding /\ decided'[s] = decided[s] /\ batch'[s] = batch[s]
            /\ pos'[s] = pos[s] /\ usable'[s] = usable[s] /\ prior'[s] = prior[s]
        BY <2>1, <2>0 DEF OthersKeep
      <3> QED BY <3>1 DEF Decided, Reconciled
    <2>2. CASE s = r /\ ReadAndDecide(r)
      <3>1. PICK v \in [DOMAIN batch[r] -> Verdicts] :
                /\ Reconciled(v, batch[r], usable[r], Candidates(r))
                /\ decided' = [decided EXCEPT ![r] = v]
        BY <2>2 DEF ReadAndDecide
      <3>2. /\ decided'[r] = v /\ prior'[r] = Candidates(r) /\ usable'[r] = usable[r]
            /\ pos'[r] = 1 /\ batch'[r] = batch[r]
        BY <2>2, <3>1, <2>0 DEF ReadAndDecide, TypeOK
      <3>3. DOMAIN v = DOMAIN batch[r]
        OBVIOUS
      <3> QED BY <2>2, <3>1, <3>2, <3>3 DEF Reconciled
    <2>3. CASE s = r /\ ~ReadAndDecide(r)
      <3>1. /\ pc[r] \in Deciding /\ decided'[r] = decided[r] /\ usable'[r] = usable[r]
            /\ prior'[r] = prior[r] /\ pos'[r] # 0 /\ batch'[r] = batch[r]
        <4>1. \/ pc[r] \in Deciding /\ Create(r)
              \/ \E from, to \in Deciding : Go(r, from, to)
          <5>1. pc \in [Requests -> PCs] /\ pc'[r] \in Deciding
            BY <2>3 DEF TypeOK
          <5>2. ~\E ok \in SUBSET DOMAIN batch[r] : Measure(r, ok)
            BY <5>1 DEF Measure, Deciding
          <5>3. ~EnterLock(r)
            BY <5>1 DEF EnterLock, Deciding
          <5>4. ~(\E at \in {"answered", "failed"} : Settle(r, at)) /\ ~CreateReplyLost(r)
            BY <5>1 DEF Settle, CreateReplyLost, Deciding
          <5>5. Moves(r)
            BY <1>1, ServeMoves
          <5> QED BY <2>3, <5>2, <5>3, <5>4, <5>5 DEF Moves
        <4> QED BY <4>1, <2>0 DEF Create, Insert, Go, Decided, TypeOK
      <3> QED BY <2>3, <3>1 DEF Decided, Reconciled
    <2> QED BY <2>1, <2>2, <2>3
  <1>2. ASSUME ~(\E r \in Requests : Serve(r))
        PROVE  Decided'
    <2>1. Disturbs
      BY <1>2, OtherStepsDisturb
    <2> SUFFICES ASSUME NEW s \in Requests, pc'[s] \in Deciding
                 PROVE  (/\ DOMAIN decided[s] = DOMAIN batch[s]
                         /\ pos[s] # 0
                         /\ Reconciled(decided[s], batch[s], usable[s], prior[s]))'
      BY DEF Decided
    <2>2. /\ pc[s] \in Deciding /\ decided'[s] = decided[s] /\ batch'[s] = batch[s]
          /\ pos'[s] = pos[s] /\ usable'[s] = usable[s] /\ prior'[s] = prior[s]
      BY <2>1 DEF Disturbs, Deciding
    <2> QED BY <2>2 DEF Decided, Reconciled
  <1> QED BY <1>1, <1>2

-----------------------------------------------------------------------------
\* What a step of a request does to the table: it inserts the row at pos, or
\* nothing; and the request that decides has no row yet.
Inserts(r) ==
    /\ pc[r] \in Deciding /\ More(r) /\ Insert(r)
    /\ \/ decided[r][pos[r]] # "ACCEPTED" /\ UNCHANGED everAccepted
       \/ decided[r][pos[r]] = "ACCEPTED" /\ everAccepted' = everAccepted \cup {RowAt(r)}

LEMMA ServePhases ==
    ASSUME TypeOK, Sited, Decided, NEW r \in Requests, Serve(r)
    PROVE  \/ /\ pc[r] \in {"measuring", "queued"} /\ pc'[r] \notin Deciding
              /\ rows' = rows /\ everAccepted' = everAccepted
           \/ /\ ReadAndDecide(r) /\ pc[r] = "reading" /\ pos'[r] = 1
              /\ prior'[r] = Candidates(r) /\ usable'[r] = usable[r]
              /\ rows' = rows /\ everAccepted' = everAccepted
           \/ /\ Inserts(r) /\ pc[r] \in Deciding /\ pc'[r] \in {"persisting", "failed"}
              /\ pos'[r] = pos[r] + 1 /\ decided' = decided /\ prior' = prior
              /\ usable' = usable /\ rows' = rows \cup {RowAt(r)}
              /\ RowAt(r) \in Row /\ pos[r] \in Nat \ {0} /\ pos[r] \in DOMAIN batch[r]
           \/ /\ pc[r] \in Holding /\ decided' = decided /\ prior' = prior /\ pos' = pos
              /\ pc'[r] \notin {"idle", "measuring", "queued", "reading"}
              /\ pc'[r] \in Deciding => pc[r] \in Deciding
              /\ usable' = usable /\ rows' = rows /\ everAccepted' = everAccepted
  <1>1. ASSUME (\E ok \in SUBSET DOMAIN batch[r] : Measure(r, ok)) \/ EnterLock(r)
        PROVE  /\ pc[r] \in {"measuring", "queued"} /\ pc'[r] \notin Deciding
               /\ rows' = rows /\ everAccepted' = everAccepted
    BY <1>1 DEF Measure, EnterLock, TypeOK, Deciding
  <1>2. CASE ReadAndDecide(r)
    BY <1>2 DEF ReadAndDecide, TypeOK
  <1>3. CASE Inserts(r) /\ pc'[r] \in {"persisting", "failed"}
    <2>1. pos'[r] = pos[r] + 1 /\ RowAt(r) \in Row
      BY <1>3, InsertShape DEF Inserts
    <2>2. pos[r] \in Nat \ {0} /\ pos[r] \in DOMAIN batch[r]
      BY <1>3, RowAtType DEF Inserts
    <2> QED BY <1>3, <2>1, <2>2 DEF Inserts, Insert, Deciding
  <1>5. ASSUME Create(r) \/ CreateReplyLost(r)
        PROVE  Inserts(r) /\ pc'[r] \in {"persisting", "failed"}
    BY <1>5, InsertShape, InsertRemembers DEF Create, CreateReplyLost, Inserts, TypeOK
  <1>4. ASSUME \/ \E from, to \in Deciding : Go(r, from, to)
               \/ \E at \in {"answered", "failed"} : pc[r] \in Holding /\ Settle(r, at)
        PROVE  /\ pc[r] \in Holding /\ decided' = decided /\ prior' = prior /\ pos' = pos
               /\ pc'[r] \notin {"idle", "measuring", "queued", "reading"}
               /\ pc'[r] \in Deciding => pc[r] \in Deciding
               /\ usable' = usable /\ rows' = rows /\ everAccepted' = everAccepted
    BY <1>4 DEF Go, Settle, TypeOK, Deciding, Holding
  <1> QED BY <1>1, <1>2, <1>3, <1>4, <1>5, ServeMoves DEF Moves

-----------------------------------------------------------------------------
LEMMA RowsStep ==
    ASSUME TypeOK, Sited, Decided, RowsOfRequests, [Next]_vars
    PROVE  RowsOfRequests'
  <1> DEFINE Fits(x) ==
        /\ pc[x.req] \notin {"idle", "measuring", "queued", "reading"}
        /\ x.owner = owner[x.req]
        /\ pc[x.req] \in Deciding =>
              /\ x.pos < pos[x.req]
              /\ x.photo = batch[x.req][x.pos]
              /\ x.verdict = decided[x.req][x.pos]
  <1>0. \A x \in rows : Fits(x) /\ x \in Row /\ x.req \in Requests /\ x.pos \in Nat
    BY DEF RowsOfRequests, TypeOK, Row
  <1> SUFFICES ASSUME NEW x \in rows' PROVE Fits(x)'
    BY DEF RowsOfRequests
  <1>1. ASSUME NEW r \in Requests, Serve(r)
        PROVE  Fits(x)'
    <2>1. OthersKeep(r) /\ owner' = owner /\ batch' = batch
      BY <1>1, ServeOthers, ServeKeepsRequest
    <2>2. CASE x \in rows /\ x.req # r
      BY <2>1, <2>2, <1>0 DEF OthersKeep
    <2>3. CASE x \in rows /\ x.req = r
      <3>1. Fits(x) /\ x.pos \in Nat /\ pos[r] \in Nat
        BY <2>3, <1>0 DEF TypeOK
      <3>2. pc[r] \notin {"measuring", "queued", "reading"}
        BY <3>1, <2>3
      <3>3. CASE Inserts(r) /\ pc[r] \in Deciding /\ pos'[r] = pos[r] + 1 /\ decided' = decided
                 /\ pc'[r] \in {"persisting", "failed"}
        BY <3>1, <3>3, <2>1, <2>3 DEF Deciding
      <3>4. CASE /\ decided' = decided /\ pos' = pos
                 /\ pc'[r] \notin {"idle", "measuring", "queued", "reading"}
                 /\ pc'[r] \in Deciding => pc[r] \in Deciding
        BY <3>1, <3>4, <2>1, <2>3
      <3> QED BY <3>2, <3>3, <3>4, <1>1, ServePhases
    <2>4. CASE x \notin rows
      <3>1. /\ Inserts(r) /\ x = RowAt(r) /\ pos'[r] = pos[r] + 1 /\ pos[r] \in Nat
            /\ pc'[r] \in {"persisting", "failed"} /\ decided' = decided
        BY <2>4, <1>1, ServePhases
      <3>2. /\ x.req = r /\ x.owner = owner[r] /\ x.pos = pos[r]
            /\ x.photo = batch[r][pos[r]] /\ x.verdict = decided[r][pos[r]]
        BY <3>1 DEF RowAt
      <3> QED BY <3>1, <3>2, <2>1 DEF Deciding
    <2> QED BY <2>2, <2>3, <2>4
  <1>2. ASSUME ~(\E r \in Requests : Serve(r))
        PROVE  Fits(x)'
    <2>1. Disturbs
      BY <1>2, OtherStepsDisturb
    <2>2. x \in rows /\ Fits(x) /\ x.req \in Requests
      BY <2>1, <1>0 DEF Disturbs
    <2> QED BY <2>1, <2>2 DEF Disturbs
  <1> QED BY <1>1, <1>2

\* What History says of one request.
Remembers(s) ==
    pc[s] \in Deciding =>
        /\ \A h \in prior[s] : \E a \in everAccepted :
               a.owner = owner[s] /\ a.photo = h /\ a.req # s
        /\ \A j \in 1..(pos[s] - 1) :
               decided[s][j] = "ACCEPTED" =>
                   \E a \in everAccepted :
                       /\ a.owner = owner[s] /\ a.photo = batch[s][j]
                       /\ a.req = s /\ a.pos = j

LEMMA HistoryStep ==
    ASSUME TypeOK, Sited, Decided, RowsOfRequests, History, [Next]_vars
    PROVE  History'
  <1>0. /\ \A x \in rows : x.verdict = "ACCEPTED" => x \in everAccepted
        /\ \A s \in Requests : Remembers(s)
    BY DEF History, Remembers
  <1>1. ASSUME NEW r \in Requests, Serve(r)
        PROVE  /\ \A x \in rows' : x.verdict = "ACCEPTED" => x \in everAccepted'
               /\ \A s \in Requests : Remembers(s)'
    <2>0. OthersKeep(r) /\ owner' = owner /\ batch' = batch
      BY <1>1, ServeOthers, ServeKeepsRequest
    <2>1. everAccepted \subseteq everAccepted'
      BY <1>1, ServePhases DEF Inserts
    <2>2. \A x \in rows' : x.verdict = "ACCEPTED" => x \in everAccepted'
      <3>1. Inserts(r) => \/ RowAt(r).verdict # "ACCEPTED"
                          \/ RowAt(r) \in everAccepted'
        BY DEF Inserts, RowAt
      <3> QED BY <1>0, <1>1, <2>1, <3>1, ServePhases
    <2>3. ASSUME NEW s \in Requests, s # r
          PROVE  Remembers(s)'
      <3>1. /\ pc'[s] = pc[s] /\ prior'[s] = prior[s] /\ owner'[s] = owner[s]
            /\ pos'[s] = pos[s] /\ decided'[s] = decided[s] /\ batch'[s] = batch[s]
        BY <2>0, <2>3 DEF OthersKeep
      <3> QED BY <3>1, <2>1, <1>0 DEF Remembers
    <2>4. Remembers(r)'
      <3>1. CASE pc'[r] \notin Deciding
        BY <3>1 DEF Remembers
      <3>2. CASE /\ pc[r] = "reading" /\ pos'[r] = 1 /\ prior'[r] = Candidates(r)
        <4>1. ASSUME NEW h \in Candidates(r)
              PROVE  \E a \in everAccepted : a.owner = owner[r] /\ a.photo = h /\ a.req # r
          <5>1. PICK x \in rows : /\ x.owner = owner[r] /\ x.verdict = "ACCEPTED"
                                  /\ x.photo = h
            BY <4>1 DEF Candidates
          <5>2. x \in everAccepted /\ x.req # r
            BY <5>1, <1>0, <3>2 DEF RowsOfRequests
          <5> QED BY <5>1, <5>2
        <4>2. 1..(pos'[r] - 1) = {}
          BY <3>2
        <4> QED BY <4>1, <4>2, <3>2, <2>0, <2>1 DEF Remembers
      <3>3. CASE /\ Inserts(r) /\ pc[r] \in Deciding /\ pos'[r] = pos[r] + 1
                 /\ decided' = decided /\ prior' = prior /\ pos[r] \in Nat \ {0}
        <4>1. ASSUME NEW j \in 1..pos[r], decided[r][j] = "ACCEPTED"
              PROVE  \E a \in everAccepted' : /\ a.owner = owner[r] /\ a.photo = batch[r][j]
                                              /\ a.req = r /\ a.pos = j
          <5>1. CASE j = pos[r]
            <6>1. RowAt(r) \in everAccepted'
              BY <5>1, <4>1, <3>3 DEF Inserts
            <6> QED BY <6>1, <5>1 DEF RowAt
          <5>2. CASE j # pos[r]
            <6>1. j \in 1..(pos[r] - 1)
              BY <5>2, <3>3
            <6> QED BY <6>1, <4>1, <3>3, <1>0, <2>1 DEF Remembers
          <5> QED BY <5>1, <5>2
        <4>2. 1..(pos'[r] - 1) = 1..pos[r]
          BY <3>3
        <4>3. \A h \in prior[r] : \E a \in everAccepted' :
                  a.owner = owner[r] /\ a.photo = h /\ a.req # r
          BY <3>3, <1>0, <2>1 DEF Remembers
        <4> QED BY <4>1, <4>2, <4>3, <3>3, <2>0 DEF Remembers
      <3>4. CASE /\ decided' = decided /\ prior' = prior /\ pos' = pos
                 /\ pc'[r] \in Deciding => pc[r] \in Deciding
        BY <3>4, <1>0, <2>0, <2>1 DEF Remembers
      <3> QED BY <3>1, <3>2, <3>3, <3>4, <1>1, ServePhases
    <2> QED BY <2>2, <2>3, <2>4
  <1>2. ASSUME ~(\E r \in Requests : Serve(r))
        PROVE  /\ \A x \in rows' : x.verdict = "ACCEPTED" => x \in everAccepted'
               /\ \A s \in Requests : Remembers(s)'
    <2>1. Disturbs
      BY <1>2, OtherStepsDisturb
    <2>2. ASSUME NEW s \in Requests
          PROVE  Remembers(s)'
      <3>1. CASE pc'[s] \notin Deciding
        BY <3>1 DEF Remembers
      <3>2. CASE pc'[s] \in Deciding
        <4>1. /\ pc[s] \in Deciding /\ prior'[s] = prior[s] /\ owner'[s] = owner[s]
              /\ pos'[s] = pos[s] /\ decided'[s] = decided[s] /\ batch'[s] = batch[s]
              /\ everAccepted' = everAccepted
          BY <2>1, <3>2 DEF Disturbs, Deciding
        <4> QED BY <4>1, <1>0 DEF Remembers
      <3> QED BY <3>1, <3>2
    <2> QED BY <2>1, <2>2, <1>0 DEF Disturbs
  <1> QED BY <1>1, <1>2 DEF History, Remembers

\* What DuplicateHasOriginal says of one row.
HadOriginal(d) ==
    \E a \in everAccepted : /\ a.owner = d.owner /\ <<a.photo, d.photo>> \in Near
                            /\ a.req = d.req => a.pos < d.pos

\* A duplicate a request stores had its original accepted before.
LEMMA InsertedHasOriginal ==
    ASSUME IInv, NEW r \in Requests, Inserts(r), pos[r] \in DOMAIN batch[r],
           pos[r] \in Nat \ {0}, decided[r][pos[r]] = "DUPLICATE"
    PROVE  HadOriginal(RowAt(r))
  <1> USE DEF IInv, HadOriginal
  <1>1. \/ \E h \in prior[r] : <<h, batch[r][pos[r]]>> \in Near
        \/ \E j \in 1..(pos[r] - 1) : /\ decided[r][j] = "ACCEPTED"
                                     /\ <<batch[r][j], batch[r][pos[r]]>> \in Near
    BY DEF Decided, Reconciled, Inserts
  <1>2. Remembers(r)
    BY DEF History, Remembers
  <1>3. pc[r] \in Deciding
    BY DEF Inserts
  <1>4. /\ RowAt(r).owner = owner[r] /\ RowAt(r).req = r /\ RowAt(r).pos = pos[r]
        /\ RowAt(r).photo = batch[r][pos[r]]
    BY DEF RowAt
  <1>5. ASSUME NEW h \in prior[r], <<h, batch[r][pos[r]]>> \in Near
        PROVE  HadOriginal(RowAt(r))
    <2>1. PICK a \in everAccepted : a.owner = owner[r] /\ a.photo = h /\ a.req # r
      BY <1>2, <1>3 DEF Remembers
    <2> QED BY <2>1, <1>4, <1>5
  <1>6. ASSUME NEW j \in 1..(pos[r] - 1), decided[r][j] = "ACCEPTED",
               <<batch[r][j], batch[r][pos[r]]>> \in Near
        PROVE  HadOriginal(RowAt(r))
    <2>1. PICK a \in everAccepted : /\ a.owner = owner[r] /\ a.photo = batch[r][j]
                                    /\ a.req = r /\ a.pos = j
      BY <1>2, <1>3, <1>6 DEF Remembers
    <2>2. a.pos < pos[r]
      BY <2>1
    <2> QED BY <2>1, <2>2, <1>4, <1>6
  <1> QED BY <1>1, <1>5, <1>6

LEMMA OriginalStep ==
    ASSUME IInv, [Next]_vars
    PROVE  DuplicateHasOriginal'
  <1> USE DEF IInv
  <1> DEFINE Original(d, past) ==
        \E a \in past : /\ a.owner = d.owner /\ <<a.photo, d.photo>> \in Near
                        /\ a.req = d.req => a.pos < d.pos
  <1>1. ASSUME NEW r \in Requests, Serve(r)
        PROVE  \A d \in rows' : d.verdict = "DUPLICATE" => Original(d, everAccepted')
    <2>1. everAccepted \subseteq everAccepted'
      BY <1>1, ServePhases DEF Inserts
    <2>3. ASSUME NEW d \in rows', d.verdict = "DUPLICATE"
          PROVE  Original(d, everAccepted')
      <3>1. CASE d \in rows
        BY <3>1, <2>1, <2>3 DEF DuplicateHasOriginal
      <3>2. CASE d \notin rows
        <4>1. Inserts(r) /\ d = RowAt(r) /\ pos[r] \in DOMAIN batch[r] /\ pos[r] \in Nat \ {0}
          BY <3>2, <1>1, ServePhases
        <4>2. decided[r][pos[r]] = "DUPLICATE"
          BY <4>1, <2>3 DEF RowAt
        <4> QED BY <4>1, <4>2, <2>1, InsertedHasOriginal DEF HadOriginal
      <3> QED BY <3>1, <3>2
    <2> QED BY <2>3
  <1>2. ASSUME ~(\E r \in Requests : Serve(r))
        PROVE  \A d \in rows' : d.verdict = "DUPLICATE" => Original(d, everAccepted')
    BY <1>2, OtherStepsDisturb DEF Disturbs, DuplicateHasOriginal
  <1> QED BY <1>1, <1>2 DEF DuplicateHasOriginal

LEMMA InitIInv == Init => IInv
  BY DEF Init, Lock!LockInit, IInv, TypeOK, Sited, HeadInside, Decided, RowsOfRequests, History,
     DuplicateHasOriginal, PCs, Holding, Deciding, Ended

LEMMA NextIInv == IInv /\ [Next]_vars => IInv'
  BY TypeStep, SitedStep, HeadInsideStep, DecidedStep, RowsStep, HistoryStep, OriginalStep DEF IInv

THEOREM Inductive == Safety => []IInv
  BY InitIInv, NextIInv, PTL DEF Safety

\* The variables keep their types; every stored row is a row of the table.
THEOREM TypeCorrect == Safety => []TypeOK
  <1>1. IInv => TypeOK
    BY DEF IInv
  <1> QED BY <1>1, Inductive, PTL

\* Never zero: whatever fails, crashes or is deleted, and even with several
\* processes, a photo refused as a duplicate had an accepted original.
THEOREM DuplicateHasOriginalHolds == Safety => []DuplicateHasOriginal
  <1>1. IInv => DuplicateHasOriginal
    BY DEF IInv
  <1> QED BY <1>1, Inductive, PTL

-----------------------------------------------------------------------------
(* With one process the lock protects the corpus.                              *)

\* Two requests of one owner are never both past the read.
LEMMA Alone ==
    ASSUME OneProcess, Sited, HeadInside,
           NEW r \in Requests, pc[r] \in Holding, NEW s \in Requests, pc[s] \in Holding,
           owner[r] = owner[s]
    PROVE  r = s
  <1>1. Key(r) = Key(s)
    BY DEF OneProcess, Sited, Key, Holding, Deciding
  <1> QED BY <1>1 DEF HeadInside

\* What CorpusIsCurrent says of one request.
Current(s) ==
    pc[s] \in Deciding =>
        \A x \in Accepted(owner[s]) :
            x.req # s /\ (\E i \in usable[s] : <<x.photo, batch[s][i]>> \in ShareBand)
                => x.photo \in prior[s]

LEMMA CorpusStep ==
    ASSUME OneProcess, IInv, CorpusIsCurrent, [Next]_vars
    PROVE  CorpusIsCurrent'
  <1> USE DEF IInv
  <1>0. \A s \in Requests : Current(s)
    BY DEF CorpusIsCurrent, Current
  <1> SUFFICES ASSUME NEW s \in Requests, pc'[s] \in Deciding,
                      NEW x \in rows', x.owner = owner'[s], x.verdict = "ACCEPTED", x.req # s,
                      \E i \in usable'[s] : <<x.photo, batch'[s][i]>> \in ShareBand
               PROVE  x.photo \in prior'[s]
    BY DEF CorpusIsCurrent, Accepted
  <1>1. ASSUME NEW r \in Requests, Serve(r)
        PROVE  x.photo \in prior'[s]
    <2>0. OthersKeep(r) /\ owner' = owner /\ batch' = batch
      BY <1>1, ServeOthers, ServeKeepsRequest
    <2>1. ASSUME x \notin rows
          PROVE  FALSE
      <3>1. Inserts(r) /\ x = RowAt(r) /\ pc[r] \in Deciding
        BY <2>1, <1>1, ServePhases
      <3>2. x.req = r /\ x.owner = owner[r] /\ s # r
        BY <3>1 DEF RowAt
      <3>3. pc[s] \in Deciding /\ owner[s] = owner[r]
        BY <3>2, <2>0 DEF OthersKeep
      <3> QED BY <3>1, <3>2, <3>3, Alone DEF Holding
    <2>2. CASE s # r
      <3>1. /\ pc[s] \in Deciding /\ usable'[s] = usable[s] /\ prior'[s] = prior[s]
        BY <2>0, <2>2 DEF OthersKeep
      <3> QED BY <3>1, <2>0, <2>1, <1>0 DEF Current, Accepted
    <2>3. CASE s = r
      <3>1. CASE pc[r] = "reading" /\ prior'[r] = Candidates(r) /\ usable'[r] = usable[r]
        BY <3>1, <2>0, <2>1, <2>3 DEF Candidates
      <3>2. CASE pc[r] \in Deciding /\ prior' = prior /\ usable' = usable
        BY <3>2, <2>0, <2>1, <2>3, <1>0 DEF Current, Accepted
      <3> QED BY <3>1, <3>2, <2>3, <1>1, ServePhases
    <2> QED BY <2>2, <2>3
  <1>2. ASSUME ~(\E r \in Requests : Serve(r))
        PROVE  x.photo \in prior'[s]
    <2>1. Disturbs
      BY <1>2, OtherStepsDisturb
    <2>2. /\ x \in rows /\ pc[s] \in Deciding /\ owner'[s] = owner[s] /\ usable'[s] = usable[s]
          /\ batch'[s] = batch[s] /\ prior'[s] = prior[s]
      BY <2>1 DEF Disturbs, Deciding
    <2> QED BY <2>2, <1>0 DEF Current, Accepted
  <1> QED BY <1>1, <1>2

\* A photo a request accepts has no twin in the table at that moment.
LEMMA InsertedHasNoTwin ==
    ASSUME IInv, CorpusIsCurrent, NEW r \in Requests, Inserts(r), NEW a \in rows,
           a.owner = owner[r], a.verdict = "ACCEPTED", decided[r][pos[r]] = "ACCEPTED",
           pos[r] \in DOMAIN batch[r], pos[r] \in Nat \ {0}
    PROVE  ~(<<a.photo, RowAt(r).photo>> \in Near /\ <<a.photo, RowAt(r).photo>> \in ShareBand)
  <1> USE DEF IInv
  <1>0. RowAt(r).photo = batch[r][pos[r]] /\ pc[r] \in Deciding
    BY DEF RowAt, Inserts
  <1>1. /\ pos[r] \in usable[r]
        /\ \A h \in prior[r] : <<h, batch[r][pos[r]]>> \notin Near
        /\ \A j \in 1..(pos[r] - 1) :
              decided[r][j] = "ACCEPTED" => <<batch[r][j], batch[r][pos[r]]>> \notin Near
    BY <1>0 DEF Decided, Reconciled
  <1>2. CASE a.req = r
    <2>1. a.pos < pos[r] /\ a.photo = batch[r][a.pos] /\ decided[r][a.pos] = "ACCEPTED"
      BY <1>0, <1>2 DEF RowsOfRequests
    <2>2. a.pos \in 1..(pos[r] - 1)
      BY <2>1 DEF TypeOK, Row
    <2> QED BY <2>1, <2>2, <1>0, <1>1
  <1>3. CASE a.req # r
    <2>1. a \in Accepted(owner[r])
      BY DEF Accepted
    <2>2. <<a.photo, batch[r][pos[r]]>> \in ShareBand => a.photo \in prior[r]
      BY <2>1, <1>0, <1>1, <1>3 DEF CorpusIsCurrent
    <2> QED BY <2>2, <1>0, <1>1
  <1> QED BY <1>2, <1>3

LEMMA TwinsStep ==
    ASSUME OneProcess, IInv, CorpusIsCurrent, NoTwins, [Next]_vars
    PROVE  NoTwins'
  <1> USE DEF IInv
  <1> DEFINE Twins(a, b) == <<a.photo, b.photo>> \in Near /\ <<a.photo, b.photo>> \in ShareBand
  <1>0. \A a, b \in Row : Twins(a, b) => Twins(b, a)
    BY NearSymmetric, ShareBandSymmetric DEF Row
  <1>2. ASSUME NEW r \in Requests, Serve(r)
        PROVE  NoTwins'
    <2> SUFFICES ASSUME NEW o \in Owners, NEW a \in rows', NEW b \in rows', a # b,
                        a.owner = o, b.owner = o, a.verdict = "ACCEPTED", b.verdict = "ACCEPTED"
                 PROVE  ~Twins(a, b)
      BY DEF NoTwins, Accepted
    <2>1. CASE a \in rows /\ b \in rows
      BY <2>1 DEF NoTwins, Accepted
    <2>2. CASE ~(a \in rows /\ b \in rows)
      <3>1. /\ Inserts(r) /\ rows' = rows \cup {RowAt(r)} /\ RowAt(r) \in Row
            /\ pos[r] \in DOMAIN batch[r] /\ pos[r] \in Nat \ {0}
        BY <2>2, <1>2, ServePhases
      <3>2. RowAt(r).verdict = decided[r][pos[r]] /\ RowAt(r).owner = owner[r]
        BY DEF RowAt
      <3>3. a \in Row /\ b \in Row
        BY <3>1 DEF TypeOK
      <3>4. CASE a = RowAt(r) /\ b \in rows
        BY <3>1, <3>2, <3>3, <3>4, <1>0, InsertedHasNoTwin
      <3>5. CASE b = RowAt(r) /\ a \in rows
        BY <3>1, <3>2, <3>5, InsertedHasNoTwin
      <3> QED BY <3>1, <3>4, <3>5, <2>2
    <2> QED BY <2>1, <2>2
  <1>3. ASSUME ~(\E r \in Requests : Serve(r))
        PROVE  NoTwins'
    BY <1>3, OtherStepsDisturb DEF Disturbs, NoTwins, Accepted
  <1> QED BY <1>2, <1>3

\* With one API process the corpus a request decided against stays current until
\* its last insert, which is what the owner's lock is held for.
THEOREM CorpusIsCurrentHolds ==
    ASSUME OneProcess
    PROVE  Safety => []CorpusIsCurrent
  <1>1. Init => CorpusIsCurrent
    BY DEF Init, CorpusIsCurrent, Deciding
  <1>2. IInv /\ CorpusIsCurrent /\ [Next]_vars => CorpusIsCurrent'
    BY CorpusStep
  <1> QED BY <1>1, <1>2, Inductive, PTL DEF Safety

\* Never two: with one API process, no owner ever has two accepted photos that
\* are near each other and share a band (decideAndPersist under decisionLock).
THEOREM NoTwinsHolds ==
    ASSUME OneProcess
    PROVE  Safety => []NoTwins
  <1>1. Init => NoTwins
    BY DEF Init, NoTwins, Accepted
  <1>2. IInv /\ CorpusIsCurrent /\ NoTwins /\ [Next]_vars => NoTwins'
    BY TwinsStep
  <1> QED BY <1>1, <1>2, Inductive, CorpusIsCurrentHolds, PTL DEF Safety

-----------------------------------------------------------------------------
(* What a request that is answered leaves behind.                              *)

LEMMA KeptStep ==
    ASSUME IInv, EveryPhotoKept, [Next]_vars
    PROVE  EveryPhotoKept'
  <1> DEFINE Kept(past, o, p) == \E a \in past : a.owner = o /\ (a.photo = p \/ <<a.photo, p>> \in Near)
  <1> SUFFICES ASSUME NEW s \in Requests, pc'[s] = "answered",
                      NEW i \in DOMAIN batch'[s], i \in usable'[s]
               PROVE  Kept(everAccepted', owner'[s], batch'[s][i])
    BY DEF EveryPhotoKept
  <1>1. ASSUME NEW r \in Requests, Serve(r)
        PROVE  Kept(everAccepted', owner'[s], batch'[s][i])
    <2>0. OthersKeep(r) /\ owner' = owner /\ batch' = batch
      BY <1>1, ServeOthers, ServeKeepsRequest DEF IInv
    <2>1. everAccepted \subseteq everAccepted'
      BY <1>1, ServePhases DEF Inserts, IInv
    <2>2. CASE s # r
      <3>1. pc[s] = "answered" /\ usable'[s] = usable[s]
        BY <2>0, <2>2 DEF OthersKeep
      <3> QED BY <3>1, <2>0, <2>1 DEF EveryPhotoKept
    <2>3. CASE s = r
      <3>1. Finish(r) /\ usable'[r] = usable[r] /\ pc[r] \in Deciding
        BY <1>1, <2>3 DEF Serve, Measure, EnterLock, ReadAndDecide, Create, CreateReplyLost,
           UploadToCdn, CdnAnswers, Insert, Go, Finish, Fail, Settle, Deciding, IInv, TypeOK
      <3>2. i \in 1..(pos[r] - 1)
        BY <3>1, <2>0, <2>3 DEF Finish, More, IInv, TypeOK
      <3>3. i \in DOMAIN batch[r] /\ i \in usable[r] /\ i \in 1..(i + 1) /\ i \in Nat
        BY <3>1, <3>2, <2>0, <2>3
      <3>4. Remembers(r)
        BY DEF IInv, History, Remembers
      <3>5. CASE decided[r][i] = "ACCEPTED"
        <4>1. PICK a \in everAccepted : a.owner = owner[r] /\ a.photo = batch[r][i]
          BY <3>1, <3>2, <3>4, <3>5 DEF Remembers
        <4>2. a \in everAccepted' /\ owner'[s] = owner[r] /\ batch'[s][i] = batch[r][i]
          BY <2>0, <2>1, <2>3
        <4> QED BY <4>1, <4>2
      <3>6. CASE decided[r][i] # "ACCEPTED"
        <4>1. \/ \E h \in prior[r] : <<h, batch[r][i]>> \in Near
              \/ \E j \in 1..(i - 1) : decided[r][j] = "ACCEPTED" /\ <<batch[r][j], batch[r][i]>> \in Near
          BY <3>1, <3>3, <3>6 DEF IInv, Decided, Reconciled
        <4>2. 1..(i - 1) \subseteq 1..(pos[r] - 1)
          BY <3>2 DEF IInv, TypeOK
        <4>3. \E a \in everAccepted : a.owner = owner[r] /\ <<a.photo, batch[r][i]>> \in Near
          BY <4>1, <4>2, <3>1, <3>4 DEF Remembers
        <4>4. owner'[s] = owner[r] /\ batch'[s][i] = batch[r][i]
          BY <2>0, <2>3
        <4> QED BY <4>3, <4>4, <2>1
      <3> QED BY <3>5, <3>6
    <2> QED BY <2>2, <2>3
  <1>2. ASSUME ~(\E r \in Requests : Serve(r))
        PROVE  Kept(everAccepted', owner'[s], batch'[s][i])
    <2>1. Disturbs
      BY <1>2, OtherStepsDisturb DEF IInv
    <2>2. /\ pc[s] = "answered" /\ owner'[s] = owner[s] /\ batch'[s] = batch[s]
          /\ usable'[s] = usable[s] /\ everAccepted' = everAccepted
      BY <2>1 DEF Disturbs
    <2> QED BY <2>2 DEF EveryPhotoKept
  <1> QED BY <1>1, <1>2

\* Never neither: whatever fails, crashes or is deleted, and with any number of
\* processes, every usable photo of an answered request was accepted or is near
\* one that was (the persist loop of image.service.ts).
THEOREM EveryPhotoKeptHolds == Safety => []EveryPhotoKept
  <1>1. Init => EveryPhotoKept
    BY DEF Init, EveryPhotoKept
  <1> QED BY <1>1, KeptStep, Inductive, PTL DEF Safety

-----------------------------------------------------------------------------
(* The pipeline implements PhotoSet.                                           *)

LEMMA InsertKeepsPromise ==
    ASSUME IInv, CorpusIsCurrent, NEW r \in Requests, Inserts(r),
           pos[r] \in DOMAIN batch[r], pos[r] \in Nat \ {0}
    PROVE  Promise!Next
  <1>1. RowAt(r) \notin rows
    <2>1. RowAt(r).req = r /\ RowAt(r).pos = pos[r]
      BY DEF RowAt
    <2>2. \A x \in rows : x.req = r => x.pos < pos[r] /\ x.pos \in Nat
      BY DEF IInv, RowsOfRequests, Inserts, TypeOK, Row
    <2>3. ~(pos[r] < pos[r])
      BY DEF Inserts
    <2> QED BY <2>1, <2>2, <2>3
  <1>2. rows' = rows \cup {RowAt(r)}
    BY DEF Inserts, Insert
  <1>3. /\ RowAt(r).owner = owner[r] /\ RowAt(r).photo = batch[r][pos[r]]
        /\ RowAt(r).verdict = decided[r][pos[r]]
    BY DEF RowAt
  <1>4. CASE decided[r][pos[r]] = "ACCEPTED"
    <2>1. \A y \in Promise!AcceptedRows : ~Promise!AreTwins(y, RowAt(r))
      BY <1>3, <1>4, InsertedHasNoTwin DEF Promise!AcceptedRows, Promise!AreTwins
    <2>2. everAccepted' = everAccepted \cup {RowAt(r)}
      BY <1>4 DEF Inserts
    <2>3. {<<a.owner, a.photo>> : a \in everAccepted'} =
              {<<a.owner, a.photo>> : a \in everAccepted} \cup {<<RowAt(r).owner, RowAt(r).photo>>}
      BY <2>2
    <2>4. PICK x \in rows' \ rows : x = RowAt(r)
      BY <1>1, <1>2
    <2>5. Promise!Accept(x)
      BY <1>2, <1>3, <1>4, <2>1, <2>3, <2>4 DEF Promise!Accept
    <2> QED BY <2>5 DEF Promise!Next
  <1>5. CASE decided[r][pos[r]] = "DUPLICATE"
    <2>1. HadOriginal(RowAt(r)) /\ everAccepted' = everAccepted
      BY <1>5, InsertedHasOriginal DEF Inserts
    <2>2. \E e \in {<<a.owner, a.photo>> : a \in everAccepted} :
              e[1] = RowAt(r).owner /\ <<e[2], RowAt(r).photo>> \in Near
      <3>1. PICK a \in everAccepted : a.owner = RowAt(r).owner /\ <<a.photo, RowAt(r).photo>> \in Near
        BY <2>1 DEF HadOriginal
      <3> WITNESS <<a.owner, a.photo>> \in {<<b.owner, b.photo>> : b \in everAccepted}
      <3> QED BY <3>1
    <2>3. Promise!TurnDown(RowAt(r))
      BY <1>2, <1>3, <1>5, <2>1, <2>2 DEF Promise!TurnDown
    <2> QED BY <1>1, <1>2, <2>3 DEF Promise!Next
  <1>6. CASE decided[r][pos[r]] = "UNUSABLE"
    <2>1. Promise!Reject(RowAt(r))
      BY <1>2, <1>3, <1>6 DEF Promise!Reject, Inserts
    <2> QED BY <1>1, <1>2, <2>1 DEF Promise!Next
  <1>7. decided[r][pos[r]] \in Verdicts
    <2>1. pc[r] \in Deciding
      BY DEF Inserts
    <2>2. decided[r] \in Seq(Verdicts) /\ pos[r] \in DOMAIN decided[r]
      BY <2>1 DEF IInv, TypeOK, Decided
    <2> QED BY <2>2
  <1> QED BY <1>4, <1>5, <1>6, <1>7 DEF Verdicts

LEMMA StepKeepsPromise ==
    ASSUME IInv, CorpusIsCurrent, [Next]_vars
    PROVE  [Promise!Next]_(Promise!promised)
  <1>1. ASSUME NEW r \in Requests, Serve(r)
        PROVE  [Promise!Next]_(Promise!promised)
    <2>1. CASE rows' = rows /\ everAccepted' = everAccepted
      BY <2>1 DEF Promise!promised
    <2>2. CASE Inserts(r) /\ pos[r] \in DOMAIN batch[r] /\ pos[r] \in Nat \ {0}
      BY <2>2, InsertKeepsPromise
    <2> QED BY <1>1, <2>1, <2>2, ServePhases DEF IInv
  <1>2. CASE \E row \in rows : DeleteImage(row)
    BY <1>2 DEF DeleteImage, Promise!Next, Promise!Delete
  <1>3. ASSUME NEW o \in Owners, DeleteUser(o)
        PROVE  [Promise!Next]_(Promise!promised)
    <2>1. rows' = {x \in rows : x.owner # o} /\ everAccepted' = everAccepted
      BY <1>3 DEF DeleteUser
    <2>2. CASE \E x \in rows : x.owner = o
      BY <2>1, <2>2 DEF Promise!Next, Promise!DeleteOwner
    <2>3. CASE ~\E x \in rows : x.owner = o
      BY <2>1, <2>3 DEF Promise!promised
    <2> QED BY <2>2, <2>3
  <1>4. ASSUME NEW i \in Instances, Crash(i)
        PROVE  [Promise!Next]_(Promise!promised)
    BY <1>4 DEF Crash, Promise!promised
  <1>5. ASSUME NEW r \in Requests, NEW o \in Owners, NEW i \in Instances, NEW b \in Batches,
               Refuse(r, o, i, b) \/ Receive(r, o, i, b)
        PROVE  [Promise!Next]_(Promise!promised)
    BY <1>5 DEF Refuse, Receive, Arrive, Promise!promised
  <1>6. CASE UNCHANGED vars
    BY <1>6 DEF vars, Promise!promised
  <1> QED BY <1>1, <1>2, <1>3, <1>4, <1>5, <1>6 DEF Next

\* With one API process the many steps of concurrent uploads, their failures,
\* deletes and exits included, are steps of a store that judges each photo
\* against exactly what it holds when the photo comes in (PhotoSet).
THEOREM PipelineImplementsPhotoSet ==
    ASSUME OneProcess
    PROVE  Safety => ImplementsPhotoSet
  <1>1. Init => Promise!Init
    BY DEF Init, Promise!Init, Promise!AcceptedRows
  <1>2. IInv /\ CorpusIsCurrent /\ [Next]_vars => [Promise!Next]_(Promise!promised)
    BY StepKeepsPromise
  <1> QED BY <1>1, <1>2, Inductive, CorpusIsCurrentHolds, PTL
          DEF Safety, ImplementsPhotoSet, Promise!Spec

-----------------------------------------------------------------------------
(* The pigeonhole argument of lib/metrics.ts for any number of bands of any    *)
(* size, and what it gives the pipeline: which near pairs NoTwins leaves.      *)

(* Differing is symmetric and finite, so Hamming is a symmetric natural number.*)
LEMMA HammingNat ==
    ASSUME NEW g \in Hashes, NEW h \in Hashes
    PROVE  /\ IsFiniteSet(Differing(g, h))
           /\ Hamming(g, h) \in Nat
           /\ Hamming(g, h) = Hamming(h, g)
<1>1. IsFiniteSet(Bits)
  <2>1. NBands * Per - 1 \in Int
    BY BandsAssumption
  <2>2. QED
    BY <2>1, FS_Interval DEF Bits
<1>2. Differing(g, h) \in SUBSET Bits
  BY DEF Differing, Hashes
<1>3. IsFiniteSet(Differing(g, h))
  BY <1>1, <1>2, FS_Subset
<1>4. Differing(g, h) = Differing(h, g)
  BY DEF Differing
<1>5. QED
  BY <1>3, <1>4, FS_CardinalityType DEF Hamming

(* Two slices have no bit in common.                                           *)
LEMMA SlicesDisjoint ==
    ASSUME NEW i \in Bands, NEW j \in Bands, NEW b \in Slice(i), b \in Slice(j)
    PROVE  i = j
<1>1. Per \in Nat /\ Per > 0 /\ i \in Nat /\ j \in Nat
  BY BandsAssumption DEF Bands
<1>2. ASSUME NEW k \in Nat, NEW l \in Nat, k < l
      PROVE  k * Per + Per <= l * Per
  <2>1. PICK d \in Nat : l = k + 1 + d
    <3>1. l - k - 1 \in Nat /\ l = k + 1 + (l - k - 1)
      BY <1>2
    <3>2. QED
      BY <3>1
  <2>2. l * Per = k * Per + Per + d * Per
    BY <2>1, <1>1
  <2>3. d * Per \in Nat /\ k * Per \in Nat
    BY <1>1
  <2>4. QED
    BY <2>2, <2>3, <1>1
<1>3. i * Per \in Nat /\ j * Per \in Nat
  BY <1>1
<1>4. b \in Int /\ i * Per <= b /\ b < i * Per + Per /\ j * Per <= b /\ b < j * Per + Per
  BY <1>1, <1>3 DEF Slice
<1>5. ~(i < j) /\ ~(j < i)
  BY <1>1, <1>2, <1>3, <1>4
<1>6. QED
  BY <1>1, <1>5

(* Two hashes with an equal slice have a band in common (bandsOf).             *)
LEMMA EqualSliceSharesBand ==
    ASSUME NEW g, NEW h, NEW i \in Bands, g \cap Slice(i) = h \cap Slice(i)
    PROVE  SharesBand(g, h)
<1> DEFINE band == <<i, {b - i * Per : b \in g \cap Slice(i)}>>
<1>1. band \in BandsOf(g)
  BY DEF BandsOf
<1>2. band = <<i, {b - i * Per : b \in h \cap Slice(i)}>>
  OBVIOUS
<1>3. band \in BandsOf(h)
  BY <1>2 DEF BandsOf
<1>4. QED
  BY <1>1, <1>3 DEF SharesBand

(* The pigeonhole of bandsOf: hashes that differ in fewer bits than there are  *)
(* bands share a band.                                                         *)
THEOREM NearSharesBand ==
    ASSUME NEW g \in Hashes, NEW h \in Hashes, Hamming(g, h) < NBands
    PROVE  SharesBand(g, h)
<1> DEFINE D == Differing(g, h)
<1> SUFFICES ASSUME ~SharesBand(g, h)
             PROVE  FALSE
  OBVIOUS
<1>1. \A i \in Bands : \E b \in D : b \in Slice(i)
  <2> TAKE i \in Bands
  <2>1. g \cap Slice(i) # h \cap Slice(i)
    BY EqualSliceSharesBand
  <2>2. QED
    BY <2>1 DEF Differing
<1> DEFINE f == [i \in Bands |-> CHOOSE b \in D : b \in Slice(i)]
<1>2. \A i \in Bands : f[i] \in D /\ f[i] \in Slice(i)
  BY <1>1
<1>3. f \in Injection(Bands, D)
  <2>1. f \in [Bands -> D]
    BY <1>2
  <2>2. \A i, j \in Bands : f[i] = f[j] => i = j
    <3> TAKE i, j \in Bands
    <3> HAVE f[i] = f[j]
    <3>1. f[i] \in Slice(i) /\ f[i] \in Slice(j)
      BY <1>2
    <3>2. QED
      BY <3>1, SlicesDisjoint
  <2>3. IsInjective(f)
    BY <2>1, <2>2 DEF IsInjective
  <2>4. QED
    BY <2>1, <2>3 DEF Injection
<1>4. IsFiniteSet(D)
  BY HammingNat
<1>5. Cardinality(Bands) <= Cardinality(D)
  <2> HIDE DEF f, D
  <2>1. QED
    BY <1>3, <1>4, FS_Injection
<1>6. Cardinality(Bands) = NBands
  <2>1. 0 \in Int /\ NBands - 1 \in Int /\ NBands > 0 /\ NBands \in Int
    BY BandsAssumption
  <2>2. Cardinality(0 .. NBands - 1) = IF 0 > NBands - 1 THEN 0 ELSE (NBands - 1) - 0 + 1
    BY <2>1, FS_Interval
  <2>3. QED
    BY <2>1, <2>2 DEF Bands
<1>7. Cardinality(D) = Hamming(g, h)
  BY DEF Hamming
<1>8. Hamming(g, h) \in Nat /\ NBands \in Nat
  BY HammingNat, BandsAssumption
<1>9. QED
  BY <1>5, <1>6, <1>7, <1>8

(* The array overlap finds a row only for an equal slice at the same place,    *)
(* never because band 0 of one hash reads like band 2 of another: what the i:  *)
(* of bandsOf is for.                                                          *)
THEOREM SharedBandIsSlice ==
    ASSUME NEW g \in Hashes, NEW h \in Hashes, SharesBand(g, h)
    PROVE  \E i \in Bands : g \cap Slice(i) = h \cap Slice(i)
<1>1. PICK i \in Bands, j \in Bands :
          <<i, {b - i * Per : b \in g \cap Slice(i)}>> = <<j, {b - j * Per : b \in h \cap Slice(j)}>>
  BY DEF SharesBand, BandsOf
<1>2. {b - i * Per : b \in g \cap Slice(i)} = {b - i * Per : b \in h \cap Slice(i)}
  BY <1>1
<1>3. i * Per \in Int /\ Slice(i) \subseteq Int
  BY BandsAssumption DEF Bands, Slice
<1>4. ASSUME NEW x \in SUBSET Slice(i), NEW y \in SUBSET Slice(i), NEW n \in Int,
             {b - n : b \in x} = {b - n : b \in y}
      PROVE  x \subseteq y
  <2> SUFFICES ASSUME NEW b \in x
               PROVE  b \in y
    OBVIOUS
  <2>1. PICK c \in y : b - n = c - n
    BY <1>4
  <2>2. b \in Int /\ c \in Int
    BY <1>3
  <2>3. QED
    BY <2>1, <2>2
<1>5. g \cap Slice(i) \subseteq h \cap Slice(i) /\ h \cap Slice(i) \subseteq g \cap Slice(i)
  BY <1>2, <1>3, <1>4
<1>6. QED
  BY <1>5

-----------------------------------------------------------------------------
(* Two hashes that share no band differ in each, and in as many bits at least. *)
LEMMA ApartIsSpread ==
    ASSUME NEW g \in Hashes, NEW h \in Hashes, ~SharesBand(g, h)
    PROVE  /\ \A i \in Bands : Differing(g, h) \cap Slice(i) # {}
           /\ Hamming(g, h) >= NBands
<1>1. ASSUME NEW i \in Bands
      PROVE  Differing(g, h) \cap Slice(i) # {}
  <2>1. g \cap Slice(i) # h \cap Slice(i)
    BY EqualSliceSharesBand
  <2>2. QED
    BY <2>1 DEF Differing
<1>2. Hamming(g, h) \in Nat /\ NBands \in Nat
  BY HammingNat, BandsAssumption
<1>3. QED
  BY <1>1, <1>2, NearSharesBand

(* In one process, for photos that are hashes and any distance, two accepted   *)
(* photos of an owner near each other differ in every band, so that below the  *)
(* number of bands there are none: the lock, the order of the persist loop and *)
(* the bands together keep the rule of README.md, "Not a near-duplicate", up   *)
(* to the pairs the index cannot see.                                          *)
THEOREM NearPairsSpreadHolds ==
    ASSUME OneProcess, IndexedByBands
    PROVE  Safety => []NearPairsSpread
<1>1. TypeOK /\ NoTwins => NearPairsSpread
  <2> SUFFICES ASSUME TypeOK, NoTwins,
                      NEW o \in Owners, NEW a \in Accepted(o), NEW b \in Accepted(o),
                      a # b, IsNear(a.photo, b.photo)
               PROVE  /\ \A i \in Bands : Differing(a.photo, b.photo) \cap Slice(i) # {}
                      /\ Hamming(a.photo, b.photo) >= NBands
    BY DEF NearPairsSpread
  <2>1. a.photo \in Photos /\ b.photo \in Photos
    BY DEF Accepted, TypeOK, Row
  <2>2. <<a.photo, b.photo>> \in Near /\ a.photo \in Hashes /\ b.photo \in Hashes
    BY <2>1 DEF IndexedByBands
  <2>3. ~SharesBand(a.photo, b.photo)
    <3>1. <<a.photo, b.photo>> \notin ShareBand
      BY <2>2 DEF NoTwins
    <3>2. QED
      BY <2>1, <3>1 DEF IndexedByBands
  <2>4. QED
    BY <2>2, <2>3, ApartIsSpread
<1>2. QED
  BY <1>1, TypeCorrect, NoTwinsHolds, PTL
=============================================================================
