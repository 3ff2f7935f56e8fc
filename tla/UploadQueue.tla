---------------------------- MODULE UploadQueue ----------------------------
(* The photo set of one browser page: client/src/hooks/useUploadQueue.ts with  *)
(* the calls it makes (lib/images.ts), the screen in front of it               *)
(* (lib/uploadValidation.ts), the panels that show it (components/upload), and  *)
(* the server as the page sees it: the PhotoSet that UploadPipeline implements,  *)
(* at the far end of requests that may fail, time out, or be answered after the  *)
(* page has stopped listening.                                                 *)
(*                                                                             *)
(* A file stands for its bytes; Near is the server's duplicate rule.  Each     *)
(* upload request carries one file, so the server judges it in the one step    *)
(* that stores it.  The abort controllers are left out because nothing reads   *)
(* their signal but the catch of runUpload, whose patch of a removed photo is  *)
(* void either way: uploadImages is not given the signal.                      *)
EXTENDS Naturals, Sequences, SequencesExt, FiniteSets

CONSTANTS Files,          \* what the user may pick
          Unsupported,    \* files that fail the screen's type or size check
          Unusable,       \* files the server rejects for their own sake
          Near,           \* pairs of files the server takes for duplicates
          Stored,         \* files accepted in an earlier session
          MAX_PHOTOS,
          UPLOAD_CONCURRENCY,
          MaxPicks,       \* bound: photos picked
          PickSize,       \* bound: files in one pick
          MaxAgain,       \* bound: retries, and page loads after the first
          Faults,         \* whether requests may fail or time out
          Removals        \* whether the user removes photos

ASSUME LimitsArePositive == MAX_PHOTOS \in Nat \ {0} /\ UPLOAD_CONCURRENCY \in Nat \ {0}
ASSUME BoundsAreNatural == PickSize \in Nat /\ MaxPicks \in Nat /\ MaxAgain \in Nat
ASSUME StoredAreFiles == Stored \subseteq Files /\ IsFiniteSet(Stored)
ASSUME SwitchesAreBoolean == Faults \in BOOLEAN /\ Removals \in BOOLEAN

VARIABLES photos,     \* the state of the hook, in display order
          started,    \* started.current: ids the pump has started
          counter,    \* nextId
          list,       \* GET /images on mount: asked, answered, done with
          listed,     \* the rows it answered
          requests,   \* POST /images under way
          deletes,    \* DELETE /images/:id under way, by row id
          rows, ever, \* the server's PhotoSet
          sent,       \* uploads sent so far: the next row id
          picks, again   \* how much of each bound is used

page == <<photos, started, counter, list, listed>>
server == <<requests, deletes, rows, ever, sent>>
spent == <<picks, again>>
vars == <<page, server, spent>>

Statuses == {"queued", "uploading", "accepted", "rejected", "error"}
Judged == {"accepted", "rejected"}
NoRow == 0
NoFile == "stub"
ASSUME StubIsNoFile == NoFile \notin Files
RowOf(id, f, v) == [id |-> id, owner |-> "me", photo |-> f, verdict |-> v]

Store == INSTANCE PhotoSet WITH Indexed <- Near

\* What the page makes of a row: accepted, or rejected for whatever reason.
Shown(verdict) == IF verdict = "ACCEPTED" THEN "accepted" ELSE "rejected"

Ids == {photos[i].id : i \in DOMAIN photos}
WithStatus(S) == {i \in DOMAIN photos : photos[i].status \in S}

\* `occupied` and `isFull`.
Occupied == Cardinality(WithStatus({"queued", "uploading", "accepted"}))
IsFull == Occupied >= MAX_PHOTOS

\* The panels: the grid of accepted photos; the dropzone, which neither opens nor
\* takes a drop when the set is full; the rows that offer a retry.
Grid == WithStatus({"accepted"})
DropzoneOpen == ~IsFull
Retryable == {photos[i].id : i \in WithStatus({"error"})}

\* The page's first load, with the rows of earlier sessions on the server.
Init ==
    /\ photos = << >> /\ started = {} /\ counter = 0
    /\ list = "asked" /\ listed = {}
    /\ requests = {} /\ deletes = {}
    /\ LET old == SetToSeq(Stored) IN
       /\ rows = {RowOf(i, old[i], "ACCEPTED") : i \in DOMAIN old}
       /\ sent = Len(old)
    /\ Store!Init
    /\ picks = 0 /\ again = 0

\* patch(id, changes): no effect when the photo is gone.
Patched(id, status, row) ==
    [i \in DOMAIN photos |->
        IF photos[i].id = id THEN [photos[i] EXCEPT !.status = status, !.row = row]
                             ELSE photos[i]]

-----------------------------------------------------------------------------
\* screenFiles, its type, size and key checks: the places in a pick of supported
\* files that the set does not show yet (stored photos have keys of their own:
\* NoFile) and that come up for the first time.
Fresh(incoming) ==
    {k \in DOMAIN incoming :
        /\ incoming[k] \notin Unsupported
        /\ \A i \in DOMAIN photos : photos[i].file # incoming[k]
        /\ \A j \in DOMAIN incoming : j < k => incoming[j] # incoming[k]}

\* Mutation: the slots left are those of the whole set but one.
KeptOneMore(incoming) ==
    {k \in Fresh(incoming) : Occupied + Cardinality({j \in Fresh(incoming) : j < k}) <= MAX_PHOTOS}

\* screenFiles, its slots: as many of them as fit, from the first on.
Kept(incoming) ==
    {k \in Fresh(incoming) : Occupied + Cardinality({j \in Fresh(incoming) : j < k}) < MAX_PHOTOS}

\* The places of S from the first to the last.
InOrder(S) == {f \in [1..Cardinality(S) -> S] : \A m, n \in DOMAIN f : m < n => f[m] < f[n]}

\* addFiles, as the dropzone calls it.
AddFiles(incoming) ==
    /\ DropzoneOpen
    /\ picks + Len(incoming) <= MaxPicks
    /\ picks' = picks + Len(incoming)
    /\ \E at \in InOrder(Kept(incoming)) :
          /\ counter' = counter + Len(at)
          /\ photos' = photos \o [i \in DOMAIN at |->
                [id |-> counter + i, file |-> incoming[at[i]], status |-> "queued", row |-> NoRow]]
    /\ UNCHANGED <<started, list, listed, server, again>>

\* Mutation: any queued photo, whatever was picked first.
PumpAny ==
    /\ Cardinality(WithStatus({"uploading"})) < UPLOAD_CONCURRENCY
    /\ \E i \in WithStatus({"queued"}) :
          /\ started' = started \cup {photos[i].id}
          /\ photos' = Patched(photos[i].id, "uploading", NoRow)
          /\ requests' = requests \cup
                {[id |-> photos[i].id, file |-> photos[i].file, row |-> sent + 1,
                  verdict |-> "none", heard |-> TRUE]}
    /\ sent' = sent + 1
    /\ UNCHANGED <<counter, list, listed, deletes, rows, ever, spent>>

\* The pump effect, for the first photo it takes: `started`, the patch and the
\* request itself happen before its first await.
Startable == {i \in WithStatus({"queued"}) : photos[i].id \notin started}
Pump ==
    /\ Cardinality(WithStatus({"uploading"})) < UPLOAD_CONCURRENCY
    /\ \E i \in Startable :
          /\ \A j \in Startable : i <= j
          /\ started' = started \cup {photos[i].id}
          /\ photos' = Patched(photos[i].id, "uploading", NoRow)
          /\ requests' = requests \cup
                {[id |-> photos[i].id, file |-> photos[i].file, row |-> sent + 1,
                  verdict |-> "none", heard |-> TRUE]}
    /\ sent' = sent + 1
    /\ UNCHANGED <<counter, list, listed, deletes, rows, ever, spent>>

\* Mutation: a 200 is taken for an acceptance.
AnswerIgnoresVerdict(q) ==
    /\ q \in requests /\ q.heard /\ q.verdict \in Judged
    /\ requests' = requests \ {q}
    /\ photos' = Patched(q.id, "accepted", q.row)
    /\ UNCHANGED <<started, counter, list, listed, deletes, rows, ever, sent, spent>>

\* The verdict comes back: runUpload after its await.
Answer(q) ==
    /\ q \in requests /\ q.heard /\ q.verdict \in Judged
    /\ requests' = requests \ {q}
    /\ photos' = Patched(q.id, q.verdict, q.row)
    /\ UNCHANGED <<started, counter, list, listed, deletes, rows, ever, sent, spent>>

\* The request fails at the page (no network, a 4xx or 5xx, 120 s elapsed): the
\* catch of runUpload.  Whether the server has it, or will, the page cannot tell.
GiveUp(q) ==
    /\ Faults /\ q \in requests /\ q.heard
    /\ requests' = (requests \ {q}) \cup {[q EXCEPT !.heard = FALSE]}
    /\ photos' = Patched(q.id, "error", NoRow)
    /\ UNCHANGED <<started, counter, list, listed, deletes, rows, ever, sent, spent>>

\* remove: forget the photo here and ask the server to forget its row.
RemovePhoto(id) ==
    /\ Removals
    /\ started' = started \ {id}
    /\ \E i \in DOMAIN photos :
          /\ photos[i].id = id
          /\ deletes' = deletes \cup ({photos[i].row} \ {NoRow})
          /\ photos' = RemoveAt(photos, i)
    /\ UNCHANGED <<counter, list, listed, requests, rows, ever, sent, spent>>

\* Mutation: the photo stays in `started`.
RetryStarted(id) ==
    /\ again < MaxAgain /\ id \in Retryable
    /\ again' = again + 1
    /\ photos' = Patched(id, "queued", NoRow)
    /\ UNCHANGED <<started, counter, list, listed, server, picks>>

\* retry: a failed photo goes back to the queue.
Retry(id) ==
    /\ again < MaxAgain /\ id \in Retryable
    /\ again' = again + 1
    /\ started' = started \ {id}
    /\ photos' = Patched(id, "queued", NoRow)
    /\ UNCHANGED <<counter, list, listed, server, picks>>

\* listImages answers, or fails; the stored photos go in front of what was picked.
ListAnswered ==
    /\ list = "asked"
    /\ list' = "answered" /\ listed' = rows
    /\ UNCHANGED <<photos, started, counter, server, spent>>

ListFails ==
    /\ Faults /\ list # "done"
    /\ list' = "done" /\ listed' = {}
    /\ UNCHANGED <<photos, started, counter, server, spent>>

\* Mutations: the stored photos replace the set; the answer is not shown at all.
HydrateReplaces ==
    /\ list = "answered"
    /\ LET stored == SetToSeq(listed) IN
       /\ photos' = [i \in DOMAIN stored |->
                        [id |-> counter + i, file |-> NoFile,
                         status |-> Shown(stored[i].verdict), row |-> stored[i].id]]
       /\ counter' = counter + Len(stored)
    /\ list' = "done" /\ listed' = {}
    /\ UNCHANGED <<started, server, spent>>
HydrateNothing ==
    /\ list = "answered"
    /\ list' = "done" /\ listed' = {}
    /\ UNCHANGED <<photos, started, counter, server, spent>>

Hydrate ==
    /\ list = "answered"
    /\ LET stored == SetToSeq(listed) IN
       /\ photos' = [i \in DOMAIN stored |->
                        [id |-> counter + i, file |-> NoFile,
                         status |-> Shown(stored[i].verdict), row |-> stored[i].id]] \o photos
       /\ counter' = counter + Len(stored)
    /\ list' = "done" /\ listed' = {}
    /\ UNCHANGED <<started, server, spent>>

\* Mutation: ids are counted from one again, and `started` outlives the page.
ReloadKeepsStarted ==
    /\ again < MaxAgain
    /\ again' = again + 1
    /\ photos' = << >> /\ counter' = 0 /\ list' = "asked" /\ listed' = {}
    /\ requests' = {[q EXCEPT !.heard = FALSE] : q \in requests}
    /\ UNCHANGED <<started, deletes, rows, ever, sent, picks>>

\* The page is left and opened again: its photos are gone and nothing listens to
\* its requests.  Ids go on counting, so that old requests stay apart from new.
Reload ==
    /\ again < MaxAgain
    /\ again' = again + 1
    /\ photos' = << >> /\ started' = {} /\ list' = "asked" /\ listed' = {}
    /\ requests' = {[q EXCEPT !.heard = FALSE] : q \in requests}
    /\ UNCHANGED <<counter, deletes, rows, ever, sent, picks>>

-----------------------------------------------------------------------------
(* The server's side: POST /images for one file, DELETE /images/:id.           *)
Judge(q) ==
    /\ q \in requests /\ q.verdict = "none"
    /\ \E v \in {"ACCEPTED", "DUPLICATE", "UNUSABLE"} :
          /\ v = "UNUSABLE" <=> q.file \in Unusable
          /\ LET row == RowOf(q.row, q.file, v)
             IN  Store!Accept(row) \/ Store!TurnDown(row) \/ Store!Reject(row)
          /\ requests' = (requests \ {q}) \cup
                IF q.heard THEN {[q EXCEPT !.verdict = Shown(v)]} ELSE {}
    /\ UNCHANGED <<page, deletes, sent, spent>>

\* A request nobody listens to any more goes no further, or its answer does.
Vanish(q) ==
    /\ q \in requests /\ ~q.heard
    /\ requests' = requests \ {q}
    /\ UNCHANGED <<page, deletes, rows, ever, sent, spent>>

\* A row that is not there is a 404, which the page does not look at.
Delete(id) ==
    /\ id \in deletes
    /\ deletes' = deletes \ {id}
    /\ \/ \E x \in rows : x.id = id /\ Store!Delete(x)
       \/ (\A x \in rows : x.id # id) /\ UNCHANGED <<rows, ever>>
    /\ UNCHANGED <<page, requests, sent, spent>>

DeleteFails(id) ==
    /\ Faults /\ id \in deletes
    /\ deletes' = deletes \ {id}
    /\ UNCHANGED <<page, requests, rows, ever, sent, spent>>

Picks == UNION {[1..n -> Files] : n \in 1..PickSize}

Next ==
    \/ \E incoming \in Picks : AddFiles(incoming)
    \/ Pump
    \/ \E q \in requests : Answer(q) \/ GiveUp(q) \/ Judge(q) \/ Vanish(q)
    \/ \E id \in Ids : RemovePhoto(id) \/ Retry(id)
    \/ ListAnswered \/ ListFails \/ Hydrate \/ Reload
    \/ \E id \in deletes : Delete(id) \/ DeleteFails(id)

Safety == Init /\ [][Next]_vars

\* Effects run after each render, requests are answered or time out, and the
\* list is answered or fails.  The user need not do anything.
Spec ==
    /\ Safety
    /\ WF_vars(Pump)
    /\ WF_vars(\E q \in requests : Judge(q) \/ Vanish(q))
    /\ WF_vars(\E q \in requests : Answer(q) \/ GiveUp(q))

-----------------------------------------------------------------------------
Photo == [id : Nat, file : Files \cup {NoFile}, status : Statuses, row : Nat]
Request == [id : Nat, file : Files, row : Nat \ {NoRow}, verdict : Judged \cup {"none"},
            heard : BOOLEAN]
StoredRow == [id : Nat \ {NoRow}, owner : {"me"}, photo : Files,
              verdict : {"ACCEPTED", "DUPLICATE", "UNUSABLE"}]

\* The types of the page's and the server's variables.
TypeOK ==
    /\ photos \in Seq(Photo) /\ started \subseteq Nat /\ counter \in Nat
    /\ list \in {"asked", "answered", "done"}
    /\ listed \subseteq StoredRow /\ IsFiniteSet(listed)
    /\ requests \subseteq Request /\ deletes \subseteq Nat
    /\ rows \subseteq StoredRow /\ IsFiniteSet(rows)
    /\ sent \in Nat /\ picks \in Nat /\ again \in Nat

\* A photo leaves the set only because the user removed it or left the page: a
\* list that answers late erases nothing picked meanwhile (lines 233-238).
NothingErased == [][~Removals /\ again' = again => Ids \subseteq {photos'[i].id : i \in DOMAIN photos'}]_vars

\* A photo is never turned down in favour of one picked after it (the comment on
\* UPLOAD_CONCURRENCY: the first photo the user picked is the one that wins).
PickOrderWins ==
    \A i \in WithStatus({"rejected"}) :
        photos[i].file \in Files \ Unusable =>
            \E x \in rows : /\ x.verdict = "ACCEPTED" /\ <<x.photo, photos[i].file>> \in Near
                            /\ \A j \in DOMAIN photos : j > i => photos[j].row # x.id

\* A photo is turned down as a duplicate only of a photo the user can see: the
\* failure hydration is there to prevent (lines 175-180).
DuplicateIsVisible ==
    list = "done" =>
        \A i \in WithStatus({"rejected"}) :
            photos[i].file \in Files \ Unusable =>
                \E j \in Grid, x \in rows :
                    x.id = photos[j].row /\ <<x.photo, photos[i].file>> \in Near

\* A photo in the grid of accepted ones is stored, and is the one the user sees
\* there, although answers come in any order and the list of stored photos may
\* arrive between them (UploadedPanel.tsx, lines 95-98).  Removals apart: of a
\* photo that is shown twice the page can remove the one row twice.
AcceptedIsStored ==
    \A i \in Grid : \E x \in rows :
        x.id = photos[i].row /\ x.verdict = "ACCEPTED" /\ photos[i].file \in {NoFile, x.photo}

\* Picking more photos, several at once, never takes the set over MAX_PHOTOS.
PickingFits == [][picks' # picks => Occupied' <= MAX_PHOTOS]_vars

\* Once the user stops picking, every photo that is waiting or on its way is
\* judged, reported as failed, or taken out of the set: removals, failures,
\* retries and reloads never stop the pump (lines 148-162).
Waiting == WithStatus({"queued", "uploading"})
QueueDrains == Waiting # {} ~> Waiting = {}

\* Comment at lines 91-92: removing a photo cancels its request, instead of
\* letting it land on a photo that no longer exists.
NothingLandsOnRemoved ==
    [][\A x \in rows' \ rows : \E q \in requests : q.row = x.id /\ q.id \in Ids]_vars
=============================================================================
