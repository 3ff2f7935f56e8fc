# A TLA+ verification of the Image Validator

The repository is a web application that accepts portrait photos: an Express
API (`server/src`), a Next.js client (`client/src`), PostgreSQL behind Prisma,
Redis for refresh tokens, rate limits and a BullMQ mail queue, and ImageKit as
CDN. A photo passes per-file gates (bytes, format, dimensions, sharpness, one
face) and then the one rule that relates photos to each other: it must not be a
near-duplicate of a photo its owner already has.

Everything below was translated from the source. `PROJECT.json` names for each
definition the lines it stands for, lists the runs, the mutated definitions
that show each property can fail, the hazards, the findings and the theorems.

## 1. Inventory

| Part | State | Operations | What makes it hard | Modules |
|---|---|---|---|---|
| Decision lock `lib/keyedMutex.ts` | Map from owner to a promise chain and a reference count | `runExclusive` of both classes | the entry is evicted by one caller while another is queued on it; rejections on the chain; microtask order | `KeyedMutex`, `KeyedLock` |
| Batch upload `middlewares/uploadImages`, `image.controller`, `image.service`, `validation.service`, `domain/validation` | rows of `Image`; per request: verdicts, corpus, position | parse, measure, read corpus, decide, persist, delete, delete account | awaits between read, decision and insert; concurrent requests; failing queries; process exit; CDN inside the lock | `UploadPipeline` |
| Phase 1 `measureFiles`, `lib/faceDetector.ts` | `loadPromise`, one verdict per file | validate each file, load the models once | several batches share one load that may fail; one file throws | `MeasureFiles` |
| Per-file rules `lib/validateFile.ts`, `lib/faceBox.ts` | none (pure) | gates in order, face boxes | EXIF swaps sides, boxes at the border, the order of filters | `ValidateFile`, `FaceBox` |
| Client queue `hooks/useUploadQueue.ts`, `lib/uploadValidation.ts`, `lib/images.ts` | photos, `started`, ids, the list asked for on mount | pick, pump, answer, fail, remove, retry, hydrate, reload | late lists, removed photos with requests under way, timeouts, slots given up and taken again | `UploadQueue` |
| Accounts and tokens `auth.service`, `auth.controller`, `user.service`, `database/redis.ts` | `User` rows, refresh tokens in Redis | register, login, refresh, logout, delete account | check then insert; get, del and setex are three commands; Redis may go and the client gives up | `AuthTokens` |
| Browser session `auth.config.ts`, `auth.ts`, `lib/api.ts`, `middleware.ts`, `public/sw.js` | the session cookie, the service worker's cache | sign in, read the session, rotate, call, sign out | concurrent reads rotate one token; answers set the cookie in any order; a worker in front that keeps answers, the null one too | `ClientSession` |
| Hashes and bands `lib/metrics.ts`, `findHashCandidates` | the owner's accepted hashes | hash, band, look up, compare | an index in front of a distance test: what it misses is never compared | `HashBands`, `IndexedUpload` |
| Mail queue and worker `jobs/` | jobs and their locks in Redis; per process: jobs under way, shutting down or not | enqueue, fetch, process, settle, shut down | waits for Redis; a lapsed lock lets a job run twice; shutdown races its timer | `EmailWorker`, the producer also in `AuthTokens` |
| HTTP side `app.ts`, `server.ts`, `routes/`, `middlewares/`, `upload.controller` | phase of each process, its Redis client, the hits in Redis, open and kept connections | limit, authenticate, validate, handle, answer; start, drain, close, exit | counters shared by processes; limiters that fail open; a Redis client that ends for ever; the one await that waits for Redis; a shutdown under open and kept connections | `ApiServer` |
| Upload page: grid, dropzone, rows | none of their own | show, pick, retry | what they show is the queue's state | `Grid`, `DropzoneOpen`, `Retryable` of `UploadQueue` |
| Account pages, CDN URLs, configuration and copy | see section 7 | | | not modelled |

How they interact. The browser's queue (`UploadQueue`) sends one file per
request to `POST /images`; the API measures the batch (`MeasureFiles`, which
asks `ValidateFile` about each file and waits for the one model load), then
enters its owner's lock (`KeyedLock`), reads the owner's accepted photos,
decides and stores (`UploadPipeline`). Deletes and account deletions change the
same table without the lock. Seen from outside, all of that is `PhotoSet`, a store
that judges one photo at a time: `UploadPipeline` is shown to implement it, and
`UploadQueue` has it as its server. `ApiServer` is what every request passes
before and after its handler. Every call carries an access token that
`ClientSession` keeps fresh by spending refresh tokens, which live in
`AuthTokens`' Redis; account deletion is shared by `AuthTokens` (the token) and
`UploadPipeline` (the photos).

What makes the parts correct, in one line each: one task per owner and no
leaked lock; never two near photos accepted and never a duplicate of nothing;
each file's verdict is its own; pick order decides between twins and no picked
photo is forgotten by the pump; what the page shows as accepted is stored; no
limit is passed by going to another process, and a dead Redis fails only the
requests that read or keep a refresh token and the probe that asks about it; a
spent token never works again and no answer promises a token that does not
exist; the session holds no token it spent.

## 2. The modules

* **`KeyedLock`** is the abstract first-come first-served lock: `Request`,
  `Enter`, `Leave`. **`KeyedMutex`** is the code: the Map, `EntryFor`, the
  promise chain, the rejection handlers, the count and the eviction in
  `finally`, one action per microtask (`Call`, `Start`, `Settle`, `Return`,
  `Finally`). It implements `KeyedLock` under a refinement mapping
  (`ImplementsLock`).
* **`UploadPipeline`** composes `KeyedLock` with the requests. A request is
  `idle`, `measuring`, `queued`, `reading`, `persisting`, `storing` (the CDN),
  `inserting`, or ended. `Reconciled` is `reconcileDuplicates`, `Candidates` is
  `findHashCandidates` with its band prefilter. A batch is refused (`Refusable`)
  when it is empty, has more than `MaxFiles` files, an `Oversized` one, too many
  bytes together (`TooHeavy`) or a file in another field (`Misfielded`). A row is
  inserted (`Create`), or the insert fails (`Fail`), or it is committed and its
  reply is lost, so that the request fails with the row stored
  (`CreateReplyLost`). A photo stands for its hash:
  `Near` is "distance at most `duplicateMaxDistance`", `ShareBand` is "some
  16-bit band is equal"; both are constants, so neither is assumed of the
  other. `everAccepted` is a history variable.
* **`PhotoSet`** is what the pipeline promises: rows with a verdict, and the
  steps `Accept`, `TurnDown` (a duplicate of a photo that was accepted at some
  time), `Reject`, `Delete`, `DeleteOwner`. `UploadPipeline` implements it with
  its own rows and history as the mapping (`ImplementsPhotoSet`).
* **`HashBands`** is the arithmetic of `metrics.ts` behind the two: a hash is the
  set of its one bits, `Hamming` a distance, `BandsOf` the namespaced slices.
  **`IndexedUpload`** composes it with `UploadPipeline`: photos are hashes,
  `Near` is `IsNear` and `ShareBand` is `SharesBand` (`IndexedByBands`, which
  the run assumes and the theorems on the index take as a hypothesis).
  `NearPairsSpread` says which near pairs the index can let through: those that
  differ in every band. All runs of the pipeline are runs of this composition.
* **`FaceBox`** is all the arithmetic of `faceBox.ts` on integers (hundredths
  for the paddings, `Math.round` rounding halves up). **`ValidateFile`** is the
  verdict on one file; gates without arithmetic are a set of defects of the
  file. **`MeasureFiles`** runs it over batches with the single-flight load;
  a load is numbered, `loadPromise` is the number the module keeps.
* **`UploadQueue`** is the hook: `AddFiles` (`screenFiles` is `Fresh`, the files
  that pass, and `Kept`, those that fit, taken `InOrder` of the pick), `Pump`, `Answer`,
  `GiveUp`, `RemovePhoto`, `Retry`, `ListAnswered`, `ListFails`, `Hydrate`,
  `Reload`. Its server is an instance of `PhotoSet` (`Judge`, `Delete`), whose
  requests may be lost before or after their work (`Vanish`, `DeleteFails`).
  `Grid` is what the page's two panels show, `DropzoneOpen` when it takes files,
  `Retryable` which row offers a retry.
* **`AuthTokens`** has one action per stretch between two awaits of
  `auth.service.ts`; a token is named by the request that made it. Each query may
  fail (`FindFails`, `CreateFails`, `DeleteFails`), the writes before or after
  they are committed, and each command of Redis may fail or run and lose its
  reply (`Unreachable`, `ReplyLost`, and within `RefreshGet` and `Logout`). Redis is
  reached over two connections: the shared client fails and gives up after
  three attempts, the queue's connection waits.
* **`EmailWorker`** has the worker processes (`Boot`, `Fetch`, `Process`,
  `Complete`, `Shutdown`, `Closed`, `Quit`, `ForceExit`, `Crash`) and, marked
  external, BullMQ: locks that run out, the stalled check, Redis going and
  coming back. A claim is a job and its stalled count, so that an old claim and
  a new one of the same job are told apart.
* **`ClientSession`** numbers the grants of tokens; the cookie is a grant. A
  session read carries the cookie as it was sent and its answer sets it; `spent`
  is the grant it has rotated away. The service worker keeps the answer to a read,
  that there is no session too, and a call without a session goes out without a
  token and is answered 401.
* **`ApiServer`** is one action per stretch between two awaits of a request on
  its way through the middlewares: `Arrive`, the three limiters (`Admit`,
  `Refuse`, `FailOpen`) and what is `Onward` of each, then the handler: its
  queries (`Query`: `Find`, `Write`), its commands on refresh tokens
  (`UseTokens`), the mail queue (`Enqueue`), `Check` of /ready, `Buffered` and
  `Stored` of the single upload, with each error mapped to its status by
  `ErrorHandler`; and of the process: `Start`, `Shutdown`, `Closed`, `Quit`,
  `Crash`, and the shared Redis client that `ClientEnds`. A connection may be
  kept after its answer (`kept`) and take another request, from a process that
  is draining too, until `IdleEnds`. The kinds of request are the probes, all
  routes of `/auth` and the single upload; reading and changing the profile stand
  for the routes behind `authMiddleware` without and with a body to validate, and
  `POST /images` has the middlewares of the single upload up to its own parser.

`MC...` modules give the constants their values, `...Proofs` modules hold the
theorems. No `RECURSIVE` operator is used anywhere.

## 3. The runs

| Run | What it asks | Bounds, and why they are enough |
|---|---|---|
| `keyed_mutex` | `MutualExclusion`, `NoLeak`, `EveryCallReturns`, and the refinement of `KeyedLock` (`ImplementsLock`) | three calls on two keys: one call inside, one queued, one arriving during the eviction |
| `upload` | `NoTwins`, `DuplicateHasOriginal`, `EveryPhotoKept`, `CorpusIsCurrent`, `NearPairsSpread`, `OwnersIndependent`, and the refinement of `PhotoSet` (`ImplementsPhotoSet`) | hashes of eight bits in the four bands and at the distance of 5 the server is configured with: two of the photos differ in three bands and share the fourth, two differ in all four, near each other and out of reach of the index; two requests, two owners, a batch with a twin before its original, one with an unusable sibling, and one each refused for an oversized file, too many files, too many bytes and the wrong field; two requests are the pair that can race, deletes and exits fall anywhere |
| `queue_order` | `PickOrderWins`, `DuplicateIsVisible`, `AcceptedIsStored`, `NothingErased`, `PickingFits` | four picks in a set of three slots, one photo stored earlier and the list arriving at any moment: the set can be full in every way, and a failed or unusable file between two near ones |
| `queue_live` | `QueueDrains` | two picks, failures and timeouts, removals, one retry or reload |
| `auth` | `OneAccountPerEmail`, `GivenTokenIsKnown`, `SpentTokenIsGone`, `EveryRequestEnds` | three requests on one email: two that race and one that made what they race for |
| `email_worker` | `OneMailPerClaim`, `DoneMeansMailed`, `CleanExitDropsNothing`, `ShutdownEnds`, `EveryMailSettles` | two processes, as during a deploy, and one job that stalls at most twice: both may hold a claim of it |
| `session` | `SessionKeptFresh`, `SignOutHasCause` | one session read at a time, three grants: a login and two rotations, or logins after a session has gone |
| `measure` | `MeasuredInside`, `VerdictIsOwn`, `CrowdIgnored`, `OneLoad`, `FailureIsForgotten`, `EveryBatchAnswered` | two batches of two out of thirteen kinds of photo in a frame of 12 by 8 (faces at the corner, beyond the edge, in a rotated frame, upended landmarks); up to two failed loads before one that does not fail |
| `api` | `LimitHolds`, `ConnectionsOutliveRequests`, `RedisTakesDownOnlyItsOwn`, `RefusedForOwnUploads`, `EveryRequestEnds`, `ShutdownEnds` | nine pairs of requests on two processes with limits of one: pairs that share an address, a user, a process, or nothing, and every kind of request in one of them; an answered connection may be kept for the other request of its process; a limit of one is passed by the second hit; windows end, Redis goes and comes back, processes crash and drain at any moment |

Bounds that are in the specifications: `MaxPicks`, `PickSize` and `MaxAgain`
(photos picked; files in one pick; retries and reloads) in `UploadQueue`, `MaxGrants` in `ClientSession`,
`MaxLoads` in `MeasureFiles` (the last load does not fail). In `ApiServer` a
process is started only while a request for it has not arrived (`Start`). Runs do not check
for deadlock where the modelled requests are finite in number and all of them
may be over.

Three more runs find what a comment or a document of the repository promises
and the code does not keep (the finding in `PROJECT.json` quotes the line):

| Run | Promise | What happens |
|---|---|---|
| `queue_remove` | removing a photo cancels its request (`useUploadQueue.ts:91`) | the abort signal is never given to the request; the row lands and nothing deletes it |
| `auth_outage` | the API stays responsive without Redis (`emailQueue.ts:49`) | registration awaits a connection that waits for Redis for ever |
| `session_concurrent` | the session's token is kept fresh (`api.ts:16`) | two reads are made of one session, one of them spends its token, and the answer of the other sets the cookie last |

Disagreements met while modelling that have no run of their own:

* two hashes within the configured distance of 5 may differ in four bits, one in
  each of the four bands: they share none, so the index never returns the one
  for the other and both photos are accepted (README.md:55 against
  `metrics.ts:196-206`, whose comment admits it). `upload` has such a pair.
  `NoTwins` speaks of the near pairs that share a band, and `NearPairsSpread` of
  the others: they differ in every band, so in at least four bits;
* a registration that finds Redis away waits for the mail queue, with its account
  and token stored, as long as Redis is away, and holds its connection open.
  `server.close` waits for that connection, and nothing else ends the process:
  docs/COMPLIANCE.md:82 has "SIGTERM/SIGINT graceful shutdown" against
  `server.ts:23`. `EveryRequestEnds` and `ShutdownEnds` of `ApiServer` except
  exactly this; the run `auth_outage` finds the wait itself;
* after SIGTERM new requests are still taken on connections kept alive, as long
  as their clients keep sending on them (`Arrive` while draining);
* two refreshes that present one token may both find it before either deletes it,
  and each is given a grant: rotation spends a token, and not once only;
* a photo that failed gives up its slot, another may take it, and `retry`
  (`useUploadQueue.ts:320`) takes it again unasked: the set is overfull, though
  `constants/upload.ts:36` says that a full set accepts no more;
* one file over multer's `fileSize` fails its whole batch with a 413, though
  README.md:83-84 says one bad photo never fails the others;
* two API processes each have a `decisionLock` and both accept the same photo
  (README.md:64-65 against `keyedMutex.ts:13-15`); no property would find the
  twins of two processes: `Instances` is a constant of
  `UploadPipeline`, and the theorem `NoTwinsHolds` assumes one process;
* the CDN upload is awaited inside the lock, which `validation.service.ts:50-51`
  says holds one read, a decision and inserts only;
* a delete between the corpus read and the insert leaves the owner with neither
  photo; `DuplicateHasOriginal` and `EveryPhotoKept` are about everything that
  was ever accepted, and do not notice;
* in the client queue, a list that arrives late, or an upload stored after a
  reload has read the list, can overfill the set or make a duplicate of a photo
  not on the page; a timed-out upload may have been stored, and its retry is
  then a duplicate of itself (`useUploadQueue.ts:346`); removing the uploading
  photo lets the next one run beside it (`constants/upload.ts:40`);
* a photo of the late list that was also uploaded here is shown twice, "Your set
  is ready. N photos are stored" (`UploadedPanel.tsx:79`) counts it twice, and
  removing the one deletes the row under the other;
* the service worker caches `/api/auth/session` like any same-origin GET, though
  `sw.js:3` speaks of static assets: an aged answer signs a live session out
  (a cause `SignOutHasCause` names). It keeps an answer that there is no session,
  too, and for ever: signed in after that, the page makes every call without a
  token, and every 401 signs it out;
* of two session reads of which one refreshes and the other is refused, the 401
  of the other's call signs out the session that the first has just refreshed
  (`api.ts:34`): `SignOutHasCause` names the failed refresh as a cause;
* a rotation whose answer is lost leaves the session with a spent token
  (`auth.config.ts:81`), which `SessionKeptFresh` excuses (`severed`);
* `README.md:107-108` limits the write path only; `app.ts:35` limits everything
  but the probes, so polling the list uses up an address's `api` limit;
* all logins of users behind the Next server come from its address and share
  one bucket of the `auth` limiter;
* a body over 10kb is answered 500, not 413: `errorHandler` does not know the
  parser's error (`Unparsable`);
* `server.close` waits for connections, not for handlers: a request whose client
  has left loses its database and Redis under it (`ClientLeaves`), which is why
  `ConnectionsOutliveRequests` speaks of requests somebody waits for;
* docs/COMPLIANCE.md:92 names a PM2 cluster file that is not in the repository;
* the login page stays in its loading state if `signIn` throws, and registration
  reports failure when the account was made and only the login after it failed;
* `warmFaceDetector` is called by nobody, and sign-out never calls
  `/auth/logout`, so the refresh token lives on for its seven days.

## 4. Fairness

* `KeyedMutex`: a microtask that is due runs, and tasks settle; without that no
  promise of JavaScript ever resolves.
* `UploadPipeline`: `Spec` makes only the requests of `Favoured` owners fair.
  Their awaits are decodes, queries and fetches that end. The other owners'
  requests may stop anywhere, inside their locks too, which is what
  `OwnersIndependent` is about: a hanging CDN upload of one owner.
* `UploadQueue`: effects run after a render, axios answers or times out, so
  `Pump`, the server and `Answer`/`GiveUp` are weakly fair. The user and the
  list are not.
* `AuthTokens`: strong fairness of `Serve` (a command that can be sent again
  and again is sent in the end). `OperatedSpec` adds that Redis is restarted;
  `auth_outage` does without.
* `MeasureFiles`: weak fairness of every file, load and answer; each await
  settles one way or the other.
* `EmailWorker`: timers fire, processors return, locks run out, and a process
  that exits is started again (worker.ts counts on an orchestrator). Fetching,
  settling and the stalled check are strongly fair, since crashes and outages
  come in between. Redis owes nothing: `EveryMailSettles` assumes that it stays
  in the end, `ShutdownEnds` does not.
* `ApiServer`: weak fairness of `Proceed` (a command or a query ends in a reply
  or an error, and so does a CDN call), of `IdleEnds` (Node closes a connection
  that has been idle for its `keepAliveTimeout`) and of `Closed` and `Quit`.
  Nobody has to start, to stop, or to leave, and Redis need not come back: then
  `Enqueue`, which waits for it, is never enabled, and the two liveness
  properties except the registration that waits there.
* `ClientSession` claims safety only, so it needs none.

## 5. What is proved

The theorems hold for every value of the constants that satisfies the named
assumptions (sets of any size, any `Near` and `ShareBand` that are symmetric,
any integer box and frame). Each module has an inductive invariant; the
properties alone are not inductive.

Each component's `TypeCorrect` states its types; the runs do not check them
again. No theorem says anything of liveness.

* **`KeyedMutexProofs`**: `MutualExclusion`, `OneEntryPerKey`, `NoLeak`. The
  argument is a count: an entry's `waiting` is the number of calls that hold it,
  so the `finally` that reaches zero is that of the last holder, and nobody is
  queued on an entry that leaves the Map. Exclusion then follows from the order
  of each entry's chain. `MutexImplementsLock` is the refinement of `KeyedLock`
  without its fairness: `Call` is `Request`, `Start` is `Enter`, `Settle` is
  `Leave`, and `Finally` is a stutter, because the chain of an entry that is
  evicted is empty (`Ordered`: a chain holds each call once and none that has
  settled).
* **`UploadPipelineProofs`**: `DuplicateHasOriginal`, `CorpusIsCurrent` and
  `NoTwins`. The lock gives that at most one request per owner is between its
  read and its last insert; so every accepted row of another request that the
  index could return is in the corpus already read (`CorpusIsCurrent`), and a
  row a request inserts was compared with all of them and with its earlier
  siblings. `NoTwins` and `CorpusIsCurrent` assume one API process.
  `EveryPhotoKept` holds for any number of them: a photo that is turned down
  was near one accepted before it, and an accepted one is inserted before the
  answer.
  `PipelineImplementsPhotoSet` (one process) takes each insert to `Accept`,
  `TurnDown` or `Reject`, the deletes to deletes, and all else to stuttering.
  Its last part is the index: `NearSharesBand` is the pigeonhole the comment of
  `bandsOf` appeals to: pick in each band a bit that differs; slices are
  disjoint, so the picks are an injection from bands to differing bits. So two
  hashes that share no band differ in at least as many bits as there are bands,
  and with `NoTwins` that is `NearPairsSpread`, in one process, for any distance
  and any number and size of bands; the configured 5 with four bands is one case.
  `SharedBandIsSlice` needs no bound: bands of different places never match.
* **`UploadQueueProofs`**: the five safety properties of the queue, by
  invariants in layers.
  `Basis`: ids tell the photos of a page apart, are never used twice, and a
  request the page listens to is of the photo with its id. With it
  `NothingErased` and `PickingFits` hold of every step the page can take, the
  latter because the files kept are counted among the slots left.
  `ShownStored` (`AcceptedIsStored`): a verdict on its way back is that of a
  stored row. It assumes that nothing is removed; the uploads at once, failures,
  retries and reloads are any.
  `Queue` and `Winners` (`PickOrderWins`): a request under way is the last that
  was sent and its row is above that of every photo on the page, so the rows of
  picked photos rise in display order, and what a photo is turned down for has a
  lower row. They assume one upload at a time, as `constants/upload.ts` has it,
  nothing removed (removing the uploading photo lets the next run beside it)
  and no failed photo sent again (`[][NoRetry]_vars`: a retried photo keeps its
  place and gets a row above those of photos after it, which may then be what it
  is turned down for). Requests may fail and be lost, and the page be reloaded.
  `OnThePage` (`DuplicateIsVisible`): every accepted row is in the grid, in the
  list still to come, or that of the one request under way, and that one is
  nobody's winner. It assumes in addition that no request fails and the page is
  not reloaded: the list may otherwise be lost or be older than an upload of the
  page before (section 3).
* **`MeasureFilesProofs`**: first the boxes: a clamped box is inside its frame,
  a box inside it is not changed, and the box of any face, from landmarks or from
  the detector, is inside the frame (`TrueBoxInside`). Then `MeasuredInside` (from `TrueBoxInside` and
  the symmetry of swapping sides), `CrowdIgnored` (adding a face that does not
  count changes neither the confident nor the usable faces of an accepted
  photo), `VerdictIsOwn` (`Own`: a file is under way exactly when its batch has
  it, and an answer is what its slot settled with), `OneLoad` and `FailureIsForgotten` (`Kept`: `loadPromise` is the only
  load that is pending or done).
* **`AuthTokensProofs`**: `OneAccountPerEmail`, `GivenTokenIsKnown` and
  `SpentTokenIsGone`. The step that matters is the setex: a token being stored
  has been given to nobody, so no request presents it (`Presented`), and a
  deleted token stays deleted (`Spent`).
* **`ClientSessionProofs`**: types for any number of reads, and `SessionKeptFresh`
  and `SignOutHasCause` under the assumption `OneRead`, that no two session
  reads are under way at once. The invariant (`Carried`) is that the cookie works
  but while the answer of the read that has spent the grant in it is on its way;
  that answer replaces it, or is lost and leaves the grant among the `severed`.
  `session_concurrent` shows that the assumption is needed.
* **`ApiServerProofs`**: `LimitHolds`, `ConnectionsOutliveRequests`,
  `RedisTakesDownOnlyItsOwn`, `RefusedForOwnUploads`, for any requests, processes
  and limits. The invariant has two halves. `Places`: who waits, waits for a
  process that is serving or draining, and only the kinds that use refresh tokens,
  those with one in the body among them, are ever at an await of Redis that can
  fail them (`KindsFit`). `Counts`: a request hits each limiter at
  most once and under its own key, and the admitted hits of a key never exceed
  its limit, because the hit and the answer of the store are one step.
* **`EmailWorkerProofs`**: `OneMailPerClaim`, `DoneMeansMailed`,
  `CleanExitDropsNothing`, for any jobs, workers and number of stalls. The
  argument is a count: the mails of a job sent so far and the claims of it that
  may still send one are together at most the times it was fetched.

## 6. What is only model-checked

Liveness (`EveryCallReturns`, `OwnersIndependent`, `QueueDrains`,
`EveryRequestEnds` and `ShutdownEnds` of both modules that have them,
`EveryBatchAnswered`, `EveryMailSettles`), the fairness that `ImplementsLock`
asks of `KeyedLock`. Liveness under fairness, `ENABLED`, and induction over data
are out of the prover's reach and stay with TLC. Every safety invariant and
every action property that a passing run checks is also a theorem; the safety
part of `ImplementsLock` and the whole of `ImplementsPhotoSet` are too. Where a
theorem has hypotheses (one process, one upload at a time, one session read, no
removals), section 5 names them and what happens without.

## 7. What is not modelled

* Signal processing (the DCT, the Laplacian variance, the detector's network) and
  the byte signatures of image formats: numerical code and tables, whose results
  are inputs of the models.
* The API document and its pages, configuration, copy, seed data, audit lines,
  logs and correlation ids: they change no state a request depends on.
* The account pages (login, registration, profile, dashboard): each is a form and
  one call, whose effects are in `AuthTokens` and `ClientSession`. The name of a
  user, which `updateMe` writes, is no part of the models.
* URL building for the CDN, previews, progress, and object URLs.
* A Redis client that sends a command again after a reconnect, so that a hit of a
  limiter counts twice; and the window of a limiter as a time: it may end at any
  moment.

`PROJECT.json` says of each component what is left out. Loss of data inside
PostgreSQL or Redis is outside the models; a command whose reply is lost is
inside, in `UploadPipeline` (`CreateReplyLost`) as in `AuthTokens` (`ReplyLost`,
`RefreshGet`, `Logout`, `CreateFails`, `DeleteFails`).

## 8. Plan

Done: the core (lock, pipeline) and the store it implements, the bands it is
indexed by, the queue on that store, tokens, session, phase 1, the mail worker
and the HTTP side, with their runs, and theorems on the safety of each. Next, in
this order:

1. Composition of `ClientSession` with `AuthTokens` in place of its `live` set.
2. `UploadQueue`: two tabs of one user on one `PhotoSet`.
3. The account pages, once they keep more than a form.
