--------------------------- MODULE UploadPipeline ---------------------------
(* The batch upload of server/src: POST /images from the multipart parser to   *)
(* the last row, with the deletes, account deletions and process exits that    *)
(* can fall between any two of its awaits.                                     *)
(*                                                                             *)
(* Receive, Refuse  middlewares/uploadImages.ts and the controller;            *)
(* Measure          services/validation.service.ts measureFiles (phase 1);     *)
(* Enter .. Finish  decideAndPersist and the persist loop of                   *)
(*                  services/image.service.ts (phase 2), one action for the    *)
(*                  code between two awaits, under the owner's lock;           *)
(* the rows         prisma.image.repository.ts on one table.                   *)
(*                                                                             *)
(* A photo stands for its perceptual hash: Near is "Hamming distance at most   *)
(* duplicateMaxDistance", ShareBand is "some 16-bit band is equal".  The lock  *)
(* is KeyedLock, which KeyedMutex implements; each API process has its own     *)
(* decisionLock, so a key is a process and an owner.                           *)
EXTENDS Naturals, Sequences, SequencesExt, FiniteSets

CONSTANTS Requests,     \* POST /images requests, each made once
          Owners,
          Instances,    \* API processes
          Photos,
          Batches,      \* the batches a client may send
          Unusable,     \* photos that fail a per-file rule of validateFile
          Oversized,    \* files over multer's per-file fileSize limit
          MaxFiles,     \* MAX_BATCH_FILES
          TooHeavy,     \* batches of more than MAX_BATCH_TOTAL_BYTES together
          Misfielded,   \* batches with a part that is not a file of "images"
          Near,         \* pairs of photos at most duplicateMaxDistance apart
          ShareBand,    \* pairs of photos that agree on a band
          ImageKit,     \* isImageKitConfigured()
          Favoured,     \* owners whose requests are sure to be served (Spec)
          None          \* not set yet

ASSUME BatchesAreSeqs == Batches \subseteq Seq(Photos)
ASSUME NearSymmetric == \A p, q \in Photos : <<p, q>> \in Near => <<q, p>> \in Near
ASSUME ShareBandSymmetric ==
    \A p, q \in Photos : <<p, q>> \in ShareBand => <<q, p>> \in ShareBand
ASSUME ImageKitConfigured == ImageKit \in BOOLEAN

VARIABLES queue, inside,  \* decisionLock, one per process (KeyedLock)
          pc,             \* where each request is
          owner, inst,    \* req.user.userId, the process that serves it
          batch,          \* req.files, in order
          usable,         \* the positions whose per-file verdict is ok
          prior,          \* priorHashes: the corpus as it was read
          decided,        \* reconcileDuplicates' verdict per position
          pos,            \* the position the persist loop is at
          rows,           \* the Image table
          users,          \* the User table
          everAccepted    \* history: every ACCEPTED row that was ever inserted

lockVars == <<queue, inside>>
request == <<owner, inst, batch>>
vars == <<lockVars, pc, request, usable, prior, decided, pos, rows, users, everAccepted>>

Lock == INSTANCE KeyedLock WITH Keys <- Instances \X Owners, Calls <- Requests

Verdicts == {"ACCEPTED", "DUPLICATE", "UNUSABLE"}
Row == [owner : Owners, req : Requests, pos : Nat \ {0}, photo : Photos, verdict : Verdicts]

Deciding == {"persisting", "storing", "inserting"}   \* verdicts known, lock held
Holding == {"reading"} \cup Deciding                 \* inside the critical section
Ended == {"refused", "answered", "failed", "lost"}
PCs == {"idle", "measuring", "queued"} \cup Holding \cup Ended

\* Mutation: one lock for all owners.
KeyGlobal(r) == <<inst[r], CHOOSE o \in Owners : TRUE>>

Key(r) == <<inst[r], owner[r]>>
Active(r) == pc[r] \notin {"idle"} \cup Ended

TypeOK ==
    /\ queue \in [Instances \X Owners -> Seq(Requests)]
    /\ inside \subseteq Requests
    /\ pc \in [Requests -> PCs]
    /\ owner \in [Requests -> Owners \cup {None}]
    /\ inst \in [Requests -> Instances \cup {None}]
    /\ batch \in [Requests -> Seq(Photos)]
    /\ usable \in [Requests -> SUBSET Nat]
    /\ prior \in [Requests -> SUBSET Photos]
    /\ decided \in [Requests -> Seq(Verdicts)]
    /\ pos \in [Requests -> Nat]
    /\ rows \subseteq Row
    /\ users \subseteq Owners
    /\ everAccepted \subseteq Row

Init ==
    /\ Lock!LockInit
    /\ pc = [r \in Requests |-> "idle"]
    /\ owner = [r \in Requests |-> None]
    /\ inst = [r \in Requests |-> None]
    /\ batch = [r \in Requests |-> << >>]
    /\ usable = [r \in Requests |-> {}]
    /\ prior = [r \in Requests |-> {}]
    /\ decided = [r \in Requests |-> << >>]
    /\ pos = [r \in Requests |-> 0]
    /\ rows = {}
    /\ users = Owners
    /\ everAccepted = {}

-----------------------------------------------------------------------------
\* guardTotalBytes, multer and the controller: one part that breaks a limit, or
\* all of them together, fails the whole request, and so does no file at all.
Refusable(b) ==
    \/ b = << >> \/ Len(b) > MaxFiles
    \/ ToSet(b) \cap Oversized # {}
    \/ b \in TooHeavy \cup Misfielded

Arrive(r, o, i, b, at) ==
    /\ pc[r] = "idle"
    /\ owner' = [owner EXCEPT ![r] = o]
    /\ inst' = [inst EXCEPT ![r] = i]
    /\ batch' = [batch EXCEPT ![r] = b]
    /\ pc' = [pc EXCEPT ![r] = at]
    /\ UNCHANGED <<lockVars, usable, prior, decided, pos, rows, users, everAccepted>>

Refuse(r, o, i, b) == Refusable(b) /\ Arrive(r, o, i, b, "refused")
Receive(r, o, i, b) == ~Refusable(b) /\ Arrive(r, o, i, b, "measuring")

\* measureFiles: every file gets its own verdict, one that throws included
\* (IMAGE_UNREADABLE); then the request asks for its owner's lock.
Measure(r, ok) ==
    /\ pc[r] = "measuring"
    /\ ok \subseteq {i \in DOMAIN batch[r] : batch[r][i] \notin Unusable}
    /\ usable' = [usable EXCEPT ![r] = ok]
    /\ pc' = [pc EXCEPT ![r] = "queued"]
    /\ Lock!Request(r, Key(r))
    /\ UNCHANGED <<request, prior, decided, pos, rows, users, everAccepted>>

EnterLock(r) ==
    /\ pc[r] = "queued"
    /\ Lock!Enter(r, Key(r))
    /\ pc' = [pc EXCEPT ![r] = "reading"]
    /\ UNCHANGED <<request, usable, prior, decided, pos, rows, users, everAccepted>>

\* Mutation: the bands of the first file instead of the union over the batch.
CandidatesOfFirst(r) ==
    {row.photo : row \in {x \in rows :
        /\ x.owner = owner[r] /\ x.verdict = "ACCEPTED"
        /\ 1 \in usable[r] /\ <<x.photo, batch[r][1]>> \in ShareBand}}

\* findHashCandidates: the owner's ACCEPTED rows that share a band with some
\* usable file of the batch.
Candidates(r) ==
    {row.photo : row \in {x \in rows :
        /\ x.owner = owner[r] /\ x.verdict = "ACCEPTED"
        /\ \E i \in usable[r] : <<x.photo, batch[r][i]>> \in ShareBand}}

\* Mutations: decide in parallel, each file against the corpus alone (two win), or
\* each against every sibling (none wins).
ReconciledAlone(v, b, ok, corpus) ==
    \A i \in DOMAIN b :
        v[i] = IF i \notin ok THEN "UNUSABLE"
               ELSE IF \E h \in corpus : <<h, b[i]>> \in Near THEN "DUPLICATE" ELSE "ACCEPTED"
ReconciledMutually(v, b, ok, corpus) ==
    \A i \in DOMAIN b :
        v[i] = IF i \notin ok THEN "UNUSABLE"
               ELSE IF \/ \E h \in corpus : <<h, b[i]>> \in Near
                       \/ \E j \in ok \ {i} : <<b[j], b[i]>> \in Near
                    THEN "DUPLICATE" ELSE "ACCEPTED"

\* reconcileDuplicates: walking the batch, a usable file is a duplicate of the
\* corpus or of a sibling already accepted, else it is accepted and joins them.
Reconciled(v, b, ok, corpus) ==
    \A i \in DOMAIN b :
        v[i] = IF i \notin ok THEN "UNUSABLE"
               ELSE IF \/ \E h \in corpus : <<h, b[i]>> \in Near
                       \/ \E j \in 1..(i - 1) : v[j] = "ACCEPTED" /\ <<b[j], b[i]>> \in Near
                    THEN "DUPLICATE" ELSE "ACCEPTED"

\* The corpus arrives; the decision is synchronous with its arrival.
ReadAndDecide(r) ==
    /\ pc[r] = "reading"
    /\ prior' = [prior EXCEPT ![r] = Candidates(r)]
    /\ \E v \in [DOMAIN batch[r] -> Verdicts] :
          /\ Reconciled(v, batch[r], usable[r], Candidates(r))
          /\ decided' = [decided EXCEPT ![r] = v]
    /\ pos' = [pos EXCEPT ![r] = 1]
    /\ pc' = [pc EXCEPT ![r] = "persisting"]
    /\ UNCHANGED <<lockVars, request, usable, rows, users, everAccepted>>

-----------------------------------------------------------------------------
\* Mutation: the loop stops one short.
MoreButLast(r) == pos[r] < Len(batch[r])

\* The persist loop, in batch order.
More(r) == pos[r] <= Len(batch[r])
RowAt(r) == [owner |-> owner[r], req |-> r, pos |-> pos[r],
             photo |-> batch[r][pos[r]], verdict |-> decided[r][pos[r]]]

\* The row at pos is due: a rejected one at once, an accepted one after the CDN.
InsertDue(r) ==
    /\ pc[r] \in {"persisting", "inserting"} /\ More(r)
    /\ ImageKit /\ decided[r][pos[r]] = "ACCEPTED" => pc[r] = "inserting"

\* It is committed; the foreign key refuses a row whose owner is gone (Fail).
Insert(r) ==
    /\ InsertDue(r)
    /\ owner[r] \in users
    /\ rows' = rows \cup {RowAt(r)}
    /\ everAccepted' = everAccepted \cup {x \in {RowAt(r)} : x.verdict = "ACCEPTED"}
    /\ pos' = [pos EXCEPT ![r] = @ + 1]
    /\ UNCHANGED <<request, usable, prior, decided, users>>

\* createRejected and createAccepted.
Create(r) ==
    /\ Insert(r)
    /\ pc' = [pc EXCEPT ![r] = "persisting"]
    /\ UNCHANGED lockVars

\* The same, with the reply of the database lost: the code sees a failed query.
CreateReplyLost(r) ==
    /\ Insert(r)
    /\ pc' = [pc EXCEPT ![r] = "failed"]
    /\ Lock!Leave(r, Key(r))

Go(r, from, to) ==
    /\ pc[r] = from
    /\ pc' = [pc EXCEPT ![r] = to]
    /\ UNCHANGED <<lockVars, request, usable, prior, decided, pos, rows, users, everAccepted>>

\* The CDN upload, awaited inside the critical section.  Success or a caught
\* error, the row is inserted next: only its URL differs.
UploadToCdn(r) ==
    /\ ImageKit
    /\ pc[r] = "persisting" /\ More(r) /\ decided[r][pos[r]] = "ACCEPTED"
    /\ Go(r, "persisting", "storing")

CdnAnswers(r) == Go(r, "storing", "inserting")

\* The task settles and the lock is released.
Settle(r, at) ==
    /\ Lock!Leave(r, Key(r))
    /\ pc' = [pc EXCEPT ![r] = at]
    /\ UNCHANGED <<request, usable, prior, decided, pos, rows, users, everAccepted>>

Finish(r) == pc[r] = "persisting" /\ ~More(r) /\ Settle(r, "answered")

\* A query fails: the loop is abandoned, earlier rows stay, the answer is a 500.
\* A batch without a usable file asks for no candidates.
Fail(r) ==
    /\ InsertDue(r) \/ (pc[r] = "reading" /\ usable[r] # {})
    /\ Settle(r, "failed")

-----------------------------------------------------------------------------
\* deleteImage: one owner-scoped DELETE, not under the lock.
DeleteImage(row) ==
    /\ rows' = rows \ {row}
    /\ UNCHANGED <<lockVars, pc, request, usable, prior, decided, pos, users, everAccepted>>

\* Mutation: the rows outlive the account (onDelete: SetNull).
DeleteUserOnly(o) ==
    /\ o \in users
    /\ users' = users \ {o}
    /\ rows' = {IF x.owner = o THEN [x EXCEPT !.owner = None] ELSE x : x \in rows}
    /\ UNCHANGED <<lockVars, pc, request, usable, prior, decided, pos, everAccepted>>

\* deleteUser: the rows go with the account (onDelete: Cascade).
DeleteUser(o) ==
    /\ o \in users
    /\ users' = users \ {o}
    /\ rows' = {x \in rows : x.owner # o}
    /\ UNCHANGED <<lockVars, pc, request, usable, prior, decided, pos, everAccepted>>

\* The process exits: its requests end without an answer, its locks are gone.
Crash(i) ==
    LET gone == {r \in Requests : inst[r] = i /\ Active(r)} IN
    /\ gone # {}
    /\ pc' = [r \in Requests |-> IF r \in gone THEN "lost" ELSE pc[r]]
    /\ queue' = [k \in Instances \X Owners |-> IF k[1] = i THEN << >> ELSE queue[k]]
    /\ inside' = inside \ gone
    /\ UNCHANGED <<request, usable, prior, decided, pos, rows, users, everAccepted>>

\* What the server itself does next for a request, a failing query aside.
Serve(r) ==
    \/ \E ok \in SUBSET DOMAIN batch[r] : Measure(r, ok)
    \/ EnterLock(r)
    \/ ReadAndDecide(r)
    \/ Create(r)
    \/ CreateReplyLost(r)
    \/ UploadToCdn(r)
    \/ CdnAnswers(r)
    \/ Finish(r)
    \/ Fail(r)

Next ==
    \/ \E r \in Requests, o \in Owners, i \in Instances, b \in Batches :
          Refuse(r, o, i, b) \/ Receive(r, o, i, b)
    \/ \E r \in Requests : Serve(r)
    \/ \E row \in rows : DeleteImage(row)
    \/ \E o \in Owners : DeleteUser(o)
    \/ \E i \in Instances : Crash(i)

Safety == Init /\ [][Next]_vars

\* Every await inside a request of a Favoured owner is a decode, a query or a
\* fetch that ends; the others' requests may stop anywhere, inside their locks too.
Spec == Safety /\ \A r \in Requests : WF_vars(owner[r] \in Favoured /\ Serve(r))

-----------------------------------------------------------------------------
Accepted(o) == {x \in rows : x.owner = o /\ x.verdict = "ACCEPTED"}

\* Never two: of two photos of one owner that the index can tell are near each
\* other, one at most is accepted, over any number of concurrent requests,
\* batches, failures, deletes and restarts (domain/validation.ts, invariant 1).
NoTwins ==
    \A o \in Owners : \A a, b \in Accepted(o) :
        a # b => ~(<<a.photo, b.photo>> \in Near /\ <<a.photo, b.photo>> \in ShareBand)

\* Never zero: a photo is turned down as a duplicate only when a photo of the
\* same owner near it was accepted and stored, earlier in the batch when it was
\* one of the same batch; a failed insert or a lost sibling never leaves the
\* owner with neither.
DuplicateHasOriginal ==
    \A d \in rows :
        d.verdict = "DUPLICATE" =>
            \E a \in everAccepted :
                /\ a.owner = d.owner /\ <<a.photo, d.photo>> \in Near
                /\ a.req = d.req => a.pos < d.pos

\* Never neither: when a request is answered, every usable photo of it has been
\* accepted or is near one that was.  Of the photos of an answered upload the user
\* can only miss what the user has deleted, before, after, or while the request
\* was deciding against it (image.service.ts, lines 41-103 against 121-124).
EveryPhotoKept ==
    \A r \in Requests : pc[r] = "answered" =>
        \A i \in DOMAIN batch[r] : i \in usable[r] =>
            \E a \in everAccepted :
                /\ a.owner = owner[r]
                /\ a.photo = batch[r][i] \/ <<a.photo, batch[r][i]>> \in Near

\* While verdicts are being stored the corpus they were decided against is still
\* current: no other request has added a photo the index would have returned.
\* This is what holding the lock from the read to the last insert is for
\* (services/validation.service.ts, decideAndPersist).
CorpusIsCurrent ==
    \A r \in Requests :
        pc[r] \in Deciding =>
            \A x \in Accepted(owner[r]) :
                x.req # r /\ (\E i \in usable[r] : <<x.photo, batch[r][i]>> \in ShareBand)
                    => x.photo \in prior[r]

\* Every request the server has begun for an owner whose awaits end comes to an
\* end, those that fail in front of it in the lock included, and whatever another
\* owner's uploads do: the locks are keyed by owner (lib/keyedMutex.ts, lines 8-10).
OwnersIndependent ==
    \A r \in Requests : Active(r) /\ owner[r] \in Favoured ~> ~Active(r)

\* Decided in one step and stored in another, with other requests in between, the
\* rows are still those of a store that judges each photo as it comes in.
Promise == INSTANCE PhotoSet WITH
    Indexed <- ShareBand, ever <- {<<a.owner, a.photo>> : a \in everAccepted}
ImplementsPhotoSet == Promise!Spec
=============================================================================
