---------------------------- MODULE MeasureFiles ----------------------------
(* Phase 1 of an upload: measureFiles (services/validation.service.ts) runs     *)
(* validateFile on every file of a batch at once, and the files of all batches  *)
(* share the single-flight model load of lib/faceDetector.ts.                   *)
(*                                                                              *)
(* A batch is a function from 1..MaxFiles to photos; None where it has no file. *)
(* A load is a promise: loadPromise is the one the module keeps, and a file      *)
(* that has joined a load waits for that one whatever the module keeps later.   *)
EXTENDS ValidateFile

CONSTANTS Requests, MaxFiles, Photos, Batches, None,
          MaxLoads   \* bound: the last load of a behaviour does not fail

ASSUME BatchesOK ==
    /\ MaxFiles \in Nat /\ MaxLoads \in Nat \ {0}
    /\ None \notin Photos /\ None \notin Verdicts /\ None \notin Batches
    /\ Batches \subseteq [1..MaxFiles -> Photos \cup {None}]
    /\ Photos \subseteq File

VARIABLES batch,        \* of each request, while it is measured
          stage,        \* of each file: where validateFile is
          verdict,      \* settled[i] of each file
          answer,       \* what measureFiles returned to each request
          loadPromise,  \* the load the module keeps, 0 for null
          load,         \* how each load stands
          joined        \* the load each file awaits

vars == <<batch, stage, verdict, answer, loadPromise, load, joined>>

Slots == Requests \X (1..MaxFiles)
Loads == 1..MaxLoads
\* What the detector and the gates after it make of each photo.
Seen == [f \in Photos |-> FaceVerdict(f)]
PhotoAt(s) == batch[s[1]][s[2]]
FilesOf(r) == {s \in Slots : s[1] = r /\ stage[s] # "none"}

TypeOK ==
    /\ batch \in [Requests -> Batches \cup {None}]
    /\ stage \in [Slots -> {"none", "gates", "waiting", "settled"}]
    /\ verdict \in [Slots -> Verdicts \cup {None}]
    /\ answer \in [Requests -> [1..MaxFiles -> Verdicts \cup {None}] \cup {None}]
    /\ loadPromise \in 0..MaxLoads
    /\ load \in [Loads -> {"none", "pending", "ok", "rejected"}]
    /\ joined \in [Slots -> 0..MaxLoads]

Init ==
    /\ batch = [r \in Requests |-> None] /\ answer = [r \in Requests |-> None]
    /\ stage = [s \in Slots |-> "none"] /\ verdict = [s \in Slots |-> None]
    /\ loadPromise = 0 /\ load = [p \in Loads |-> "none"]
    /\ joined = [s \in Slots |-> 0]

-----------------------------------------------------------------------------
\* measureFiles begins every file of the batch.
Begin(r, b) ==
    /\ batch[r] = None
    /\ batch' = [batch EXCEPT ![r] = b]
    /\ stage' = [s \in Slots |-> IF s[1] = r /\ b[s[2]] # None THEN "gates" ELSE stage[s]]
    /\ UNCHANGED <<verdict, answer, loadPromise, load, joined>>

Settle(s, v) ==
    /\ stage' = [stage EXCEPT ![s] = "settled"]
    /\ verdict' = [verdict EXCEPT ![s] = v]

\* Mutation: every caller loads the models.
EnsureReadyAlone(s) ==
    \E p \in Loads :
        /\ load[p] = "none" /\ \A q \in Loads : load[q] = "none" => p <= q
        /\ load' = [load EXCEPT ![p] = "pending"] /\ loadPromise' = p
        /\ joined' = [joined EXCEPT ![s] = p]

\* ensureReady: join the load there is, or start one.
EnsureReady(s) ==
    \/ /\ loadPromise # 0
       /\ joined' = [joined EXCEPT ![s] = loadPromise]
       /\ UNCHANGED <<loadPromise, load>>
    \/ /\ loadPromise = 0
       /\ \E p \in Loads :
             /\ load[p] = "none" /\ \A q \in Loads : load[q] = "none" => p <= q
             /\ load' = [load EXCEPT ![p] = "pending"] /\ loadPromise' = p
             /\ joined' = [joined EXCEPT ![s] = p]

\* A gate before the detector refuses the file.
RefuseEarly(s) ==
    /\ stage[s] = "gates" /\ Failed(PhotoAt(s)) # {}
    /\ Settle(s, Gates[FirstFailed(PhotoAt(s))][2])
    /\ UNCHANGED <<batch, answer, loadPromise, load, joined>>

\* The file reaches detectFaces.
Await(s) ==
    /\ stage[s] = "gates" /\ Failed(PhotoAt(s)) = {}
    /\ EnsureReady(s)
    /\ stage' = [stage EXCEPT ![s] = "waiting"]
    /\ UNCHANGED <<batch, verdict, answer>>

LoadSucceeds(p) ==
    /\ load[p] = "pending"
    /\ load' = [load EXCEPT ![p] = "ok"]
    /\ UNCHANGED <<batch, stage, verdict, answer, loadPromise, joined>>

\* Mutation: the rejected promise is kept.
LoadFailsForGood(p) ==
    /\ load[p] = "pending" /\ p < MaxLoads
    /\ load' = [load EXCEPT ![p] = "rejected"]
    /\ UNCHANGED <<batch, stage, verdict, answer, loadPromise, joined>>

\* The .catch forgets the load before anyone who awaits it sees it fail.
LoadFails(p) ==
    /\ load[p] = "pending" /\ p < MaxLoads
    /\ load' = [load EXCEPT ![p] = "rejected"]
    /\ loadPromise' = 0
    /\ UNCHANGED <<batch, stage, verdict, answer, joined>>

\* Mutation: the error is not thrown on, and whoever awaits the load waits for ever.
DetectOnSuccess(s) ==
    /\ stage[s] = "waiting" /\ load[joined[s]] = "ok"
    /\ Settle(s, Seen[PhotoAt(s)])
    /\ UNCHANGED <<batch, answer, loadPromise, load, joined>>

\* Awaiting the load is over: the faces decide, or validateFile throws.
Detect(s) ==
    /\ stage[s] = "waiting"
    /\ \/ load[joined[s]] = "ok" /\ Settle(s, Seen[PhotoAt(s)])
       \/ load[joined[s]] = "rejected" /\ Settle(s, "IMAGE_UNREADABLE")
    /\ UNCHANGED <<batch, answer, loadPromise, load, joined>>

\* Mutation: Promise.all, where one unreadable file is everybody's verdict.
AnswerAll(r) ==
    /\ batch[r] # None /\ answer[r] = None
    /\ \A s \in FilesOf(r) : stage[s] = "settled"
    /\ LET sunk == \E s \in FilesOf(r) : verdict[s] = "IMAGE_UNREADABLE"
       IN  answer' = [answer EXCEPT ![r] = [i \in 1..MaxFiles |->
               IF sunk /\ batch[r][i] # None THEN "IMAGE_UNREADABLE" ELSE verdict[<<r, i>>]]]
    /\ UNCHANGED <<batch, stage, verdict, loadPromise, load, joined>>

\* Promise.allSettled: every file has its own verdict.
Answer(r) ==
    /\ batch[r] # None /\ answer[r] = None
    /\ \A s \in FilesOf(r) : stage[s] = "settled"
    /\ answer' = [answer EXCEPT ![r] = [i \in 1..MaxFiles |-> verdict[<<r, i>>]]]
    /\ UNCHANGED <<batch, stage, verdict, loadPromise, load, joined>>

Measure(s) == RefuseEarly(s) \/ Await(s) \/ Detect(s)
Loaded(p) == LoadSucceeds(p) \/ LoadFails(p)

Next ==
    \/ \E r \in Requests : Answer(r) \/ \E b \in Batches : Begin(r, b)
    \/ \E s \in Slots : Measure(s)
    \/ \E p \in Loads : Loaded(p)

\* What has been begun goes on: awaits settle, one way or the other.
Spec ==
    /\ Init /\ [][Next]_vars
    /\ \A r \in Requests : WF_vars(Answer(r))
    /\ \A s \in Slots : WF_vars(Measure(s))
    /\ \A p \in Loads : WF_vars(Loaded(p))

-----------------------------------------------------------------------------
\* Wherever a face is found, at the border or half out of the frame, its box can be
\* extracted from the rotated pixels (clampBox, and lines 105-107 of validateFile).
MeasuredInside ==
    \A r \in Requests : batch[r] # None =>
        \A i \in 1..MaxFiles : batch[r][i] # None =>
            \A face \in batch[r][i].faces : Extractable(batch[r][i], BoxOf(batch[r][i], face))

\* A file's answer is what it would get alone, whatever else is in its batch and
\* whoever else loads the models; only a load it awaited itself can fail it
\* (measureFiles, Promise.allSettled).
VerdictIsOwn ==
    \A r \in Requests : answer[r] # None =>
        \A i \in 1..MaxFiles : batch[r][i] # None =>
            \/ answer[r][i] = VerdictOf(batch[r][i])
            \/ /\ answer[r][i] = "IMAGE_UNREADABLE"
               /\ joined[<<r, i>>] # 0 /\ load[joined[<<r, i>>]] = "rejected"

\* A face that is too small or too uncertain to count never costs a photo its
\* acceptance: a face on a poster does not reject the selfie in front of it
\* (comment on rule 6 in validateFile).
CrowdIgnored ==
    \A r \in Requests : answer[r] # None =>
        \A i \in 1..MaxFiles :
            LET f == batch[r][i] IN
            f # None => \A face \in f.faces :
                /\ face.score = "weak" \/ ShortSide(BoxOf(f, face)) < FaceMinPixels
                /\ VerdictOf([f EXCEPT !.faces = @ \ {face}]) = "OK"
                => VerdictOf(f) = "OK"

\* The models are loaded once: no two loads run together, and none starts after one
\* has succeeded (ensureReady, single flight).
OneLoad ==
    \A p, q \in Loads :
        p # q /\ load[p] \in {"pending", "ok"} => load[q] \notin {"pending", "ok"}

\* No file joins a load that has already failed: one transient failure does not end
\* face detection for the life of the process (comment on ensureReady).
FailureIsForgotten ==
    [][\A s \in Slots : Await(s) => load'[joined'[s]] # "rejected"]_vars

\* Every batch is answered.
EveryBatchAnswered ==
    \A r \in Requests : batch[r] # None ~> answer[r] # None
=============================================================================
