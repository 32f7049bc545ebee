# Verification of face_search_ai

TLA+ specifications of the face search system: photographers upload the photos
of an event, a worker finds the faces in them, and visitors of the event's public
page find and download their own pictures with a selfie. The specifications are
translated from the Go API (`apps/api`), the Python photo worker
(`workers/photo-worker`) and the SQL schema (`migrations`). TLC checks them on
small instances and TLAPS proves the main results for every value of the
constants. Paths in this file are relative to `src/`.

    tlc -config MCOutbox.cfg MCOutbox        # a run (PROJECT.json lists them all)
    tlapm OutboxProofs.tla                   # the proofs of a module

## 1. The system

| Component | Where | State it keeps | Operations |
|---|---|---|---|
| Transactional outbox and publisher | `store/postgres/outbox.go`, `platform/outbox_publisher.go` | `outbox_messages` rows (`pending`, `publishing`, `published`, `failed`), `available_at`, the lease in `updated_at`; Redis stream and dedup set | insert with a business change, neutralize by a tombstone, claim a batch, XADD through a dedup script, mark published or failed, recover stale claims |
| Photo lifecycle (API) | `store/postgres/photo.go`, `photo_upload.go` | `photos.status`, `processing_generation` | create, finalize an upload, reprocess, delete |
| Event lifecycle | `store/postgres/event.go`, `domain/event`, `handlers/events.go` | `events` row: status, visibility, expiry, download policy, public token | create, update, archive, public lookup |
| Worker consumer | `photo_worker/consumer.py` | stream cursor and pending list of the consumer group, its tasks, the dead-letter stream | read loop, autoclaim loop, attempts, retry, dead-letter, acknowledge |
| Photo processing job | `processor.py`, `persist.py`, `index.py`, `storage.py` | derivatives in the object store, vectors in Qdrant, `faces` rows | claim, fetch, derive, extract, upsert, store faces, verdict |
| Purge jobs | `deletion.py` | the same three stores | remove objects, vectors, rows of a photo or an event |
| Upload sessions | `domain/photo/upload.go`, `photo_upload.go`, `minio.go` | `photo_upload_sessions` rows; multipart uploads of the object store | initiate, sign a part, complete, abort |
| Authentication sessions | `domain/auth/auth.go`, `store/postgres/auth.go`, `handlers/auth.go` | `auth_sessions` rows, the refresh cookie | register, login, refresh, logout |
| Authorization | `domain/authorization`, `store/postgres/authorization.go` | `organization_memberships` rows, which it only reads | membership lookup, permission check |
| Public search | `domain/search/service.go`, `store/postgres/search.go`, `searchinfra` | none (reads event, photos, index) | find scope, infer, match, rank, filter |
| Downloads | `domain/download` | best-effort audit rows | authorize each photo, sign links |
| Rate limiter | `ratelimit/ratelimit.go` | fixed windows under a mutex | allow, sweep |
| Upload and request arithmetic | `upload.go`, `download.go`, `service.go` | none | part counts and manifests, request normalization, ranking, backoff |
| Face AI service | `services/face-ai/src/face_ai/runtime.py`, `routes/inference.py`, `main.py` | a cached pipeline runtime: its state, `_initialized`, the prepared pipeline | readiness probe, extraction |
| Retention and backup scripts | `scripts/` | - | prune, back up, restore |
| HTTP layer, configuration, observability | `http/router.go`, `config`, `observability` | - | routing, parsing, metrics |
| Web client | `apps/web` | refresh cookie, upload progress | the requests of the above |
| Database schema | `migrations` | - | constraints the code relies on |

How they interact: every business change that asks for work (a completed
upload, a reprocess, a deletion, an archive) inserts an outbox row in the same
transaction. The API's publisher goroutine, one per process, moves rows into a
Redis stream. The worker's consumer group reads the stream, runs each job in one
of `max_concurrency` asyncio tasks and acknowledges last. Jobs write to three
systems that share no transaction (PostgreSQL, MinIO, Qdrant). Public search and
downloads read all of it while it changes. Nothing is locked across calls: the
event row, the photo status and the processing generation are what the parts
check one another by.

What is hard, and what makes each part correct:

- *Outbox*: publishers die or lose a reply between XADD and the mark; leases
  expire under a slow publisher; a tombstone withdraws rows someone holds. Correct
  when each committed message is in the stream at most once, none is lost, and a
  settled row stays settled.
- *Pipeline*: at-least-once delivery, two tasks on one photo after an autoclaim,
  redelivery across a reprocess, crashes between any two writes, an archive or
  delete at any time. Correct when a ready photo is complete, verdicts are of the
  current generation and unique, no job vanishes, failures end visibly, and a
  purge is complete.
- *Uploads*: racing initiates open several multipart uploads on one object key; a
  completion assembles, stats and finalizes in separate calls. Correct when one
  session wins and is completed once, the stored object is its own unless an upload
  whose session expired under its completion comes behind it, and an upload without a row
  is left open only where something failed. (One that has a row, of a session that
  expired or a photo that was deleted, is left open by the code; section 7.)
- *Public access*: a search spans seconds of inference, the event is edited from
  stale copies, the index lags. Correct when answers come from an event that was
  open during the request and show photos that were ready and not deleted when it
  began, and edits neither replace a link nor revive an archive.
- *Limiter*: clock readings and turns at the mutex come in different orders. Correct
  when a burst is bounded, a refusal is earned, and ended windows are forgotten.
- *Face AI*: probes on the event loop and extractions in threads find the process
  cold at once; the preparation is tried once. Correct when a runtime is prepared at
  most once, a preparation ends, and readiness once reported is kept; callers that race
  for the cold cache may break the last one, and nothing else does.
- *Authorization*: an edit is let in by the role of a membership whose user, organization
  and row are all active. Correct when nobody else edits; it is part of the step that
  begins an edit in `PublicAccess`.
- *Sessions*: several tabs share one rotating token; replies reorder and get lost.
  Correct when a token has one successor, a replay gets none, a revoked family
  stays out, a logout ends what the browser knew of, and the cookie is behind the rows
  only while a reply is on its way or lost.

PROJECT.json lists all hazards at their lines, with the properties that watch
them or the reason none does.

## 2. Modules

| Module | Models | Used by |
|---|---|---|
| `Handoff` | abstract promise of outbox and publisher: committed messages, a stream without duplicates, withdrawn ones | refined by `Outbox`, instantiated in `PhotoPipeline` |
| `Outbox` | rows, publishers, Redis | `MCOutbox`, `OutboxProofs` |
| `PhotoUpload` | abstract: one upload per photo, let in, given up, assembled, queued | refined by `UploadSessions` and by `PhotoPipeline` |
| `PhotoLifecycle` | abstract promise of API and worker about a photo's status and its data | refined by `PhotoPipeline` |
| `PhotoView` | abstract: the photos as searches and downloads see them | refined by `PhotoPipeline`; its actions move the photos of `PublicAccess` |
| `TokenFamilies` | abstract: logins as chains of tokens, one of them good | refined by `AuthSessions` |
| `PhotoPipeline` | API lifecycle + consumer + jobs + stores, over `Handoff` | `MCPhotoPipeline`, `PipelineProofs`, `PurgeProofs` |
| `UploadPlan` | the arithmetic of an upload: policy, part counts, part numbers, manifests | extended by `UploadSessions` |
| `UploadSessions` | one photo's upload | `MCUploadSessions`, `UploadProofs` |
| `Authorization` | the permission table, the membership lookup, the check | instantiated in `PublicAccess` |
| `PublicAccess` | event settings, search, downloads | `MCPublicAccess`, `PublicProofs` |
| `AuthSessions` | refresh sessions and the browser | `MCAuthSessions`, `AuthProofs` |
| `RateLimiter` | fixed windows under a mutex | `MCRateLimiter`, `RateProofs` |
| `FaceAIRuntime` | the Face AI process: its pipeline runtime, probes and extractions | `MCFaceAIRuntime`, `FaceAIProofs` |

The components meet in small abstract modules, each of them implemented on one side and
built upon on the other:

- `Handoff`, between the outbox and the worker. `Outbox` implements it, and
  `PhotoPipeline` composes the API and the worker over it (`Queue == INSTANCE
  Handoff`), so that the pipeline is explored without the publisher's internals.
- `PhotoUpload`, between the upload sessions and the pipeline. `UploadSessions` implements
  it, with as many requests, sessions and multipart uploads as race for the photo. The
  completion steps of `PhotoPipeline` are its steps with what they do to the rest and no
  further guard (`UploadStepsAreTaken`), so that the pipeline takes photos in as uploads
  bring them; and nothing else in the pipeline brings one in (`UploadsAreServed`).
- `PhotoView`, between the pipeline and the public pages. `PublicAccess` moves its photos
  by these actions only, and `PhotoPipeline` implements them: what is proved of searches
  and downloads rests on what the API and the worker do.

`PhotoLifecycle` and `TokenFamilies` are promises to no module but to a reader:
`PhotoPipeline` and `AuthSessions` implement them.

### Outbox
`rows` is `outbox_messages.status` per idempotency key. Time is two facts:
`backingOff` (a failed row's `available_at` is ahead) and `expired` (a claim is
older than the lease). A publisher loops `tick` (RecoverStale) - `claim` (Claim) -
`publish` (XADD of each message of its batch) - `sent`/`unsent` (MarkPublished,
MarkFailed), with `Crash` anywhere. `XaddOk` runs the dedup script: SADD and XADD
are one step. A lost reply leaves the message in the stream and the publisher
believing it failed. `Tombstone(d)` inserts the purge row and neutralizes what it
covers, pending and failed rows only, as the SQL does.

### PhotoPipeline
One event with photos. API actions: the three steps of an upload's completion
(`CheckCompletion`, `AssembleObject`, `FinalizeCompleted`), `Reprocess`, `Delete`,
`Archive`. Worker actions: `ReadBatch` (XREADGROUP), `Autoclaim` (XAUTOCLAIM),
the dispatch of each loop, and `TaskStep(s)`, one action per call a job makes: claim,
fetch, two derivatives, extraction, vectors, face rows, verdict; the
three removals of a purge; then the acknowledgement, or the two calls of the
dead-letter path. Every call may fail and sends the task to its next attempt, up to
`MaxRetries`. `WorkerCrash` drops the tasks and what was read and not dispatched;
the pending list stays in Redis. A completion is let in, gives up or assembles, as
`PhotoUpload` has it. Photos start with an open upload session, which
is what Initiate's contract promises (section 7 says where the repository departs
from it).

`Lifecycle`, `View` and `Completion` are the three refinement mappings: a photo is whole
when it has its three objects, vectors and face rows; its job was handed out when the
consumer group has read it; searches see `ready` and `deleted` and nothing of the rest; its
upload waits while the status is `uploading`.

### UploadPlan and UploadSessions
`UploadPlan` holds the pure part of `upload.go`: `PolicyAccepted` (NewUploadPolicy),
`PartCount`, `Signable` (SignPart), `ValidManifest` (NewCompletedParts), `FullCount`.
`UploadSessions` has Initiate, Complete and Abort as their sequences of calls to rows
and object store, for concurrent requests on one photo. `PutPart` signs a part and
uploads it; `pieces` is what the object store has of each upload, and a completion
names its parts in one of `Manifests`. `session` is the row per upload id,
`multi` the object store's multipart upload, `object` the upload the stored
object came from. `Progress` and `Stage` are the one upload that `PhotoUpload` has of all
this: checked while some completion is about to assemble, assembled from the first object
that is the whole photo. The constant `MissIsError` says whether the lookup
reports a missing session as the interface promises (FALSE) or as the
PostgreSQL repository does (TRUE). A session may expire at any time, under a
completion that has looked it up (`LetIn`) too: `overran` is the history of those.

### PublicAccess
`log` is the history of the event row, `edits` each Update's command and the row it
found (its place in the log), so that reading and writing back are two steps and
`Merged` is what the second one writes. A search is scope - infer - match
- filter, a download scope - one photo after another. A request remembers
in history fields when it began (`from`) and what was gone then. Similarity is
nondeterministic: the index may return anything it holds for the event;
`Ranked` is RankPublicMatches. An edit is begun by someone the check of `Authorization`
lets write events. The memberships are a constant: no code of the repository changes one.

### AuthSessions
A token stands for its `auth_sessions` row. `RotateSession`'s transaction is two
steps, `BeginRotation` (SELECT ... FOR UPDATE: takes `lock`) and `Rotate` (insert
successor, retire, commit), so that a second tab, a logout or a lapse may come
between. `LookupUser` follows the commit, as in the code. The chains of
`TokenFamilies` are the families, and the good tokens their active rows. `Send`, `Receive` and
`LoseReply` are the browser; `CookieAfter` is what the handlers do to the cookie.
A request that was refused and one that failed (`Fail`: a database error) get the same
answer; the model tells them apart because properties do. `lost` is the history of the
tokens that were used up by a request whose reply never arrived.

### RateLimiter
A request reads the clock (`Arrive`) and decides later (`Allow`), under the mutex:
sweep, then open a window, count in it, or refuse. `MaxLag` is the longest wait in
between; it is assumed shorter than a window (windows are a minute and more, the
mutex is held for a map access). `log` is a history of each key's admissions in real
time, which is what a bound on bursts is about.

### FaceAIRuntime
A runtime is named by the call that made it: `lru_cache` fills its entry with the
first to finish and lets the others go on with their own (`LookUp`, `Build`). `Enter`
is the unlocked look at `state` and `_initialized`, `Prepare` and `Settle` the two
assignments after a preparation, in their order. `promised` is the history of a probe of
any runtime having answered that the pipeline is ready, and a call is `late` if it began
after that. A probe holds the event loop from
its first step to its answer (`loop`); the dependencies of an extraction run in a
thread, its body on the loop. `Restart` starts the process again, with any of the
settings in `Deployments`.

## 3. Runs

All passing runs finish with no error; the state counts are distinct states.

| Run | Instance | Shows |
|---|---|---|
| `outbox` (16k) | 2 publishers, 1 job, 1 tombstone, batch 2, 2 faults | no duplicates in the stream, nothing published without being handed over or withdrawn, published is final, `Outbox` implements `Handoff`, every committed row is eventually published or withdrawn |
| `pipeline_safety` (1.4M) | 1 photo, 2 tasks, 2 generations, 1 attempt, delete, 1 fault | the pipeline implements `PhotoLifecycle` and `PhotoView`, ready is complete, work stays visible, what a done purge left clean stays clean |
| `pipeline_serial` (63k) | 1 photo, 1 task, 2 attempts, batch 2, archive, 1 fault | acknowledged purges are complete when jobs run one at a time; every message settles, failures terminate visibly |
| `work_after_tombstone` | 2 tasks, no faults | *violation*, see section 7 |
| `purge_residue` | 2 tasks, no faults | *violation*, see section 7 |
| `purge_given_up` | 1 task, 2 attempts, no faults | *violation*, see section 7 |
| `upload_sessions` (1.7M) | 3 requests, 2 multipart uploads, a photo of one part of two allowed, 4 manifests, sessions that expire at any step, 1 fault | the requests implement `PhotoUpload`, completed once, object whole, and verified but for one way, only faults orphan, answers have sessions |
| `upload_lookup` | `MissIsError` | *violation*, see section 7 |
| `public_access` (1.1M) | 2 photos and 1 of another event, 1 request, 4 members (two editors, a viewer, a suspended one) with 2 commands, clock 0..1, 3 changes | what answers contain, links survive, archive is final, edits only restore |
| `auth_sessions` (1.0M) | 2 tabs, 3 tokens, 2 faults | the rows implement `TokenFamilies`, revocation, how far a logout reaches and how current the cookie is under any overlap |
| `rate_limiter` (3.7M) | 2 requests, 2 keys, limit 2, window 2, lag 1, clock 2..6 | bursts, refusals, pruning |
| `face_ai` (332k) | 3 calls at once, 4 deployments, restarts | one preparation, how a report of readiness may be broken, preparations settle |

Why these bounds are enough to be interesting:

- Two of each racing party (publishers, tasks, tabs, administrators, sessions) is
  where each race of the code begins; three initiates are needed for a loser that
  aborts while a third one looks the winner up.
- Faults are budgeted (`MaxFaults`): one fault hits every point of the protocol in
  turn, two let the second hit the recovery of the first. Failing calls *inside* a job
  need no budget: the code bounds them by `max_retries`.
- `MaxGen` 2 is one reprocess, which is all a stale job needs. `MaxRetries` 1 in the
  run with two tasks keeps it small; the retry path is in the runs with 2.
- Requests of `PublicAccess` only read, so one request sees everything that
  several would.
- Larger instances were run by hand, with the same result: outbox with two jobs
  (342k), pipeline with two faults and no tombstone (584k), two photos one after the
  other with an archive (5M),
  public access with a third command (2.1M), with four kinds of edit (3.8M) and with a
  clock up to 2, an upload of two parts, three multipart uploads, the refresh sessions with four tokens
  and one fault (5.0M), the pipeline's
  runs with `ServesUploads`, `OneVerdictPerGeneration`, `StatusFollowsTable` and
  `DecidedByCurrentGeneration`, and the inductive invariants of all proofs as invariants of a run.
- The limiter's clock runs for two windows with a lag of half a window, so that a
  late reading may open, count in or sweep a window of a neighbour; two requests are
  a reading and one that overtakes it.
- Three callers of the Face AI process are one that prepares, one that arrives while
  it does and one that comes after; the deployments are a working one and one per
  reason not to be ready.
- The upload has two parts at most and a photo of one: a part the policy knows and the
  photo does not have is the boundary the manifest checks are about. `UploadProofs`
  covers all sizes.

`CHECK_DEADLOCK FALSE` is set for the pipeline only: an archived event whose
messages are all settled really has nothing left to do. The other modules are
checked for deadlock.

Symmetry (of slots, photos, tabs, requests, uploads, editors, keys) is used in runs
without liveness properties only. Action properties and refinements compare a state with
its successor, and none of them names a symmetric value, so they may be checked under it.

## 4. Fairness

Liveness runs use `FairSpec`.

- *Outbox*: weak fairness of each phase of the loop: the goroutine ticks every 2 s
  and retries after errors. Leases and backoffs elapse (they are clock
  readings). Strong fairness of `XaddOk` for each message: Redis may fail again and
  again, but not for ever at the moment this message is tried. Publishers retry
  without limit (`MaxAttempts` is configured and never read), so without it nothing
  could be said. Crashes, database errors and overstayed leases are finite.
- *Pipeline*: weak fairness of reading, autoclaim, dispatch, each task and each
  message's way through the outbox: both loops run for as long as the worker
  does, and a worker that dies is started again. A step of a job may fail
  every time it is tried: no fairness is assumed of success, it is
  `max_retries` and the dead-letter stream that end it.
- *Face AI*: weak fairness of each caller's next step: threads are scheduled, the
  event loop serves the calls that are due, and a preparation (which loads files and
  has no loop) ends, one way or the other. None of success, of new calls or of
  restarts.

## 5. Properties

Each property stands in its module under a comment that says which behaviour of
the code it is about. Those a reviewer would argue about most:

- `ReadyIsComplete`: `ready` is written last and by a statement that checks the
  generation, while a second task of the same job, or of an older one, deletes and
  rewrites the same rows.
- `ImplementsLifecycle`: five UPDATEs in two languages, and a table of transitions that no
  statement consults. Two tasks on one generation may end differently; only the `WHERE
  status = 'processing'` of the verdicts keeps the first one, and only the generation keeps
  a redelivered job off a photo that was requeued since. `OneVerdictPerGeneration`,
  `DecidedByCurrentGeneration` and `StatusFollowsTable` say parts of it as action
  properties and an invariant of their own; they are theorems.
- `ServesPublicAccess`: the verdict comes after the upsert of the vectors and the removal of
  vectors after a tombstone, in steps that a second task may interleave with; the index may
  get points back after a purge, which `PublicAccess` therefore has to live with.
- `PurgesLast`: what a done purge left clean and nobody was at work on then stays clean, with
  any number of tasks: redelivery, a late job and a reprocess all meet the tombstone.
- `ImplementsPhotoUpload`: requests hold what they read of session and photo across calls to
  the object store, and all sessions write one object key; yet a photo is queued once, while
  it waits, and of an object that is all of it.
- `WorkIsVisible`: acknowledging before the verdict, or moving to the dead-letter
  stream in the wrong order, would strand a photo in `processing`.
- `QueuedObjectIsVerified`: all sessions of a photo write one object key, and a completion
  asks for its session once, before it assembles. The property says which upload alone may
  take the place of the one that was verified: one whose completion was let in and whose
  session expired before it assembled (`overran`). Without that disjunct TLC finds the
  race, a completion that slept past its session's expiry and overwrites the object of the
  next session.
- `LinkSurvives`, `ArchiveIsFinal`: updates write whole rows back from stale copies;
  the COALESCE on the token and the WHERE on the status are what save them.
- `EditsOnlyRestore`: concurrent updates do undo each other's fields; the property is
  how far that goes. A field the command leaves out gets back a value the row has had
  since this update read it, and nothing older or made up.
- `PurgeIsComplete`: an acknowledged purge leaves no derivatives, vectors and face
  rows, and no original of a photo that was queued before it. Runs with one task pass
  and runs with two fail: nothing but `max_concurrency = 1` keeps a job that claimed
  its photo before the tombstone from writing behind the purge.
- `AssembledIsWhole`: Complete compares the *number* of parts; that they are the right
  ones follows from SignPart refusing a number above the count, from manifests being
  strictly increasing, and from the object store refusing parts it does not have.
- `BurstBounded`: the textbook bound of a fixed window, twice the limit, but under
  readings that arrive out of order, where it holds for a window less the lag only.
- `ReadinessIsKept`: the pipeline is assigned before the state says `ready`, and a probe
  may have asked any of the runtimes a cold start made, not only the cached one. Later calls
  always get the cached one; they are told it is not ready only if somebody has prepared
  another (`Strays`). Without that exception TLC finds the race of section 7.
- `LogoutEndsLogin`: about every logout the database serves, with whatever overlaps it. What
  it names is all that can keep the login active: the presented token was exchanged, and the
  reply that carries the successor is on its way, was lost, or came after the logout was sent.
- `CookieIsCurrent`: the cookie against the rows while replies overtake one another. A used
  token stays in the cookie until the reply arrives, or was lost; and of the refusals on their
  way, which clear the cookie whenever they arrive, none is of a good token that is in
  it. So a refusal logs out a browser only after another reply has replaced the
  token it is about. (A refresh that *fails* clears a good token at once, as the code has it.)
- `ImplementsTokenFamilies`, `RevocationEndsFamily`: replay rejection under
  concurrency, which rests on FOR UPDATE and on a rotation retiring what it read. A family
  never has two good tokens, a good one is exchanged for one never seen, and a family that
  has none gets none (`OneActivePerFamily` and `SuccessorsReplace`, theorems of their own,
  are parts of it).

Every property of a passing run has a mutant in its module (an operator marked
`Mutant:`), a plausible bug of the mapped code under which TLC finds the property
violated.

## 6. Proofs

| Module | Proved for every value of the constants |
|---|---|
| `OutboxProofs` | `TypeOK`, `NoDuplicateEnqueue`, `PublishedMeansHandedOver`, `PublishedIsFinal`, and that `Outbox` implements `Handoff` |
| `PipelineProofs` | `TypeOK`, `ReadyIsComplete`, `DecidedByCurrentGeneration`, `WorkIsVisible`, `StatusFollowsTable`, `OneVerdictPerGeneration`; that the pipeline takes photos in by the steps of `PhotoUpload` and implements it |
| `PurgeProofs` | `PurgeIsComplete` in every behaviour without an overlap of a job and a purge, and so with one slot; `PurgesLast`; that `PhotoPipeline` implements `PhotoLifecycle` and `PhotoView` |
| `UploadProofs` | the part arithmetic; `TypeOK`, `CompletedIsQueued`, `AssembledIsWhole`, `OnlyFaultsOrphan`, `AnswerHasSession`, `QueuedObjectIsVerified`, and that `UploadSessions` implements `PhotoUpload` |
| `PublicProofs` | `TypeOK`, `AnswersAreVisible`, `AnswersComeFromAnOpenEvent`, `AllOrNothing`, `LinkSurvives`, `ArchiveIsFinal`, `EditsOnlyRestore` |
| `AuthProofs` | `TypeOK`, `OneActivePerFamily`, `RevocationEndsFamily`, `CookieIsCurrent`, `SuccessorsReplace`, `LogoutEndsLogin`, and that `AuthSessions` implements `TokenFamilies` |
| `RateProofs` | type correctness, `BurstBounded`, `RefusalIsEarned`, `MapIsPruned` |
| `FaceAIProofs` | type correctness, `PreparedOnce`, `ReadinessIsKept` |

Assumptions are the named ASSUMEs of the modules: bounds are natural numbers, the
special values are not members of the sets they stand outside of, and the sets of
administrators and of tabs are finite (their requests under way are counted). Two
theorems have a hypothesis of their own:

- `OnlyOverlapsLeaveData` is about behaviours in which `NoOverlap` always holds: while a
  purge that has removed a photo's objects goes on, no job is past its claim of that photo.
  Without it the property is false (section 7), so that the theorem says that
  this overlap is the only way to a residue.
- `PurgesAreComplete` assumes `OneSlot` (any two slots are the same, `max_concurrency = 1`).
  One slot has no overlap, so it is a corollary.

None of the safety properties is inductive. What each module's `IInv` adds:

- *Outbox*: the stream is a listing of the dedup set; a publisher about to mark a
  message as sent has it in the dedup set; held and enqueued messages are
  committed; an idle publisher holds nothing. "At most once" then rests on the dedup
  set alone, "nothing lost" on marks following the dedup set, and the refinement
  maps the stream and the settled rows.
- *PhotoPipeline*: tasks hold messages that were read; at each step a processing
  task has written what its step requires, or its generation is over
  (`TasksHaveWritten`); a claimed generation is not queued; a task about to
  acknowledge is decided; a message about to leave for the dead-letter stream is in
  it; tombstones precede their purges; and the job of every undecided photo is
  accounted for (`Accounted`). `PipelineProofs` splits the step into what the queue
  does (`QueueStep`), what tasks do and what happens to a photo, and combines them.
- *Purges*: on top of the pipeline's invariant, a purge task has cleared what the steps
  behind it clear (`TasksHavePurged`), a purge that is done has gone through all of them
  (`DoneIsPurged`), and no task is past its claim for a photo of a purge that is done
  (`NoWriteBehind`). With one slot the task that acknowledges a purge is the only one,
  and a job claimed later finds the tombstone; that the original stays away rests on a
  photo being queued only after its object was assembled (`AssembledFirst`). `PurgesLast` needs
  only that the photos of a purge that is done have their tombstones (`PurgedAreDeleted`):
  a tombstone is final, and a job claims only a photo without one.
- *The pipeline's refinements*: `PhotoLifecycle` rests on the same invariant (a verdict is
  given by a task that has written what its step requires) and on the order of a photo's
  beginnings (`AssembledFirst`, `UnbuiltFirst`: nothing is built before the object was assembled and the job handed
  out). Each step of a task is one of its actions or a stutter; reading a batch hands out
  jobs. `PhotoView` follows from `ReadyIsComplete` in the next state, `PhotoUpload` from
  types alone, because nothing but its own steps touches an upload or a waiting photo.
- *UploadSessions*: what each request under way knows of its upload (`Knows`), that an
  upload is opened by one request only (`Distinct`), that at most one session was ever
  completed and then none is active (`Queue`), that pieces are parts of the photo and
  what was assembled is all of them (`Parts`), that every upload without a session is
  either held by its request or paid for by a fault (`Strays`), and that the object is an
  active session's upload once it is assembled, unless one that overran replaced it
  (`OneObject`). `AssembledIsWhole` rests on
  a completion listing as many distinct parts as the photo has, all of them stored, and
  so all of them the photo's. The refinement of `PhotoUpload` adds that there is an object from
  the first assembly on (`Stored`), so that `Progress` never goes back behind it; a second
  completion, let in, assembling again or failing, is then a stutter.
- *RateLimiter*: waiting readings are at most `MaxLag` old, windows end after the last
  sweep, and a key's history is cut into windows: openings are `Window - MaxLag` apart,
  every admission is among the first `Limit` of its window, and the last `count` of
  them are those of the window in the map. Two admissions 2 * `Limit` apart then have
  two openings between them.
- *FaceAIRuntime*: the fields of a runtime agree with how often it was prepared
  (`Coherent`), each call is where its runtime lets it be (`Placed`), nobody prepares
  what another is preparing (`Alone`), and once a probe has reported readiness there is a cached runtime, which every
  later call has, and it is ready or there are strays, which stay (`Promise`, `Kept`).
- *PublicAccess*: a request under way has seen the event open in a value the row
  had since it began (`SawOpen`) and holds only photos that were ready and not
  gone when it began (`Sound`); tokens in the row's history never change once drawn
  (`TokensOnce`); edits under way leave room in the history.
- *AuthSessions*: tokens and rows correspond (`DrawnHaveSessions`); a family is
  named by one of its tokens; a rotation under way is of an active session and
  holds its lock (`RotatingActive`), so rotations never meet; a token on its way to
  the browser is good and in no other request (`NewIsHeld`); the cookie is good or a reply
  accounts for it (`CookieAccounted`); and what was refused was no longer good
  (`RefusalsDue`). All changes
  of the rows reduce to four kinds (`RowStep`: nothing, a new family, a successor, a
  revocation), from which the session properties follow, and which are the steps of
  `TokenFamilies` (`FamiliesStep`).

Only model-checked: liveness (`EventuallySettled`, `EveryMessageSettles`,
`FailuresTerminateVisibly`, `PreparationSettles`), which is out of the prover's reach
like everything about ENABLED. Every other property of a passing run is a theorem.

## 7. Where code and documents disagree

Four runs are expected to be violated. Each states what the repository says of
itself, and TLC's trace is what the code does.

1. `MissIsNoError` (`photo_upload.go:30`, `:57`). The lookups test for
   `pgx.ErrNoRows` after `scanUploadSession` has mapped it to `store.ErrNotFound`,
   so a missing session is an error. `upload.go:47` and the unit tests (with a fake
   repository) say it is `found = false`. With the real repository an Initiate
   that finds no active session fails, and so does aborting twice.
2. `NoWorkEnqueuedAfterTombstone` (`photo.go:111`, `event.go:147`). A row that a
   publisher has claimed is not neutralized and enters the stream after the
   tombstone; `docs/architecture.md:30` says no new indexing work is enqueued.
3. `PurgeIsComplete` with two tasks (`processor.py:62`). The tombstone is read once,
   at the claim; a purge that runs beside the rest of the job is acknowledged and
   the data is then written back. The photo is never ready, but its derived data
   stays. `OnlyOverlapsLeaveData` proves that there is no other way to a residue.
4. `PurgeRetriesUntilItSucceeds` (`consumer.py:302`). A purge that fails
   `max_retries` times is dead-lettered like any other job;
   `docs/architecture.md:33` says it retries until it succeeds.

Noted while modelling, without a run of their own:

- A JSON null for `expiresAt` is decoded as a field left out (`handlers/events.go:42`,
  a `**time.Time`), so that an expiry cannot be removed, although
  `packages/contracts/openapi.yaml` allows null there.
- Concurrent updates of an event undo each other's fields, within what
  `EditsOnlyRestore` allows; the event's `matchThreshold` is stored and never reaches
  the search.
- A logout that races a refresh revokes nothing, because the token it presents has just
  been rotated, and the login goes on without its cookie; a refresh that is refused or fails
  clears the cookie a concurrent refresh has set. `LogoutEndsLogin` and `CookieIsCurrent`
  say how far each goes.
- A completion that outlasts its session may replace the verified object of a photo that was
  queued through another session (`upload.go:141`, `:161`); the worker then processes an
  object that was never compared with what was announced. `VerifiedObject` proves that
  there is no other way.
- A multipart upload whose session has expired, or whose photo or event was tombstoned, is
  not aborted by any code: its row names it, and nothing reads that row again to do so.
- Signed links outlive a tombstone by up to their lifetime. Two users of a lookup's
  result (an upload under completion, a link being signed) do not look again.
- An upload whose `Stat` or finalization fails after the assembly can neither be
  completed nor aborted; its photo stays `uploading` until the session expires.
- The published row of a purge is pruned after its retention (`retention-prune.sh:72`)
  and its key freed, but the stream's dedup set has no expiry: deleting a photo again
  never asks again for a purge that went to the dead-letter stream.
- A Face AI preparation that failed once is `load_failed` until the process restarts
  (`runtime.py:224`), and the API's readiness with it; `docs/runbooks.md:99` says
  "Once the dependency recovers, readiness returns to `200` automatically". Calls that find the
  process cold at once make more than one runtime, against the service's README (`README.md:26`,
  "initializes one cached pipeline per effective model configuration"); a probe of one that
  is not cached may report `ready` while the cached one is not, or has failed.
  `ReadinessKept` proves that this is the only way a report of readiness is broken. Nothing calls
  `ModelRuntime.load()`, so that a model that is configured or required keeps the
  process unready; and a disabled pipeline is ready while every extraction gets a 503.
- The web uploader plans parts of a fixed size until it has seen an upload of the same
  file size (`photo-uploader.tsx:37`); with another part size on the server the number
  of parts differs from `PartCount` and the completion is refused.

## 8. Not modelled, and why

- *Who is who*: that the access token of a request is genuine is a credential that is right
  or wrong. The role and the three statuses of a membership are constants of `PublicAccess`:
  the repository has no code that changes one, and `ListMemberships` only reads.
  Of the permissions, `event:write` guards the edits; reading has no state to protect.
- *Arithmetic and text*: the upload plan, the size of a bulk request and the ranking of
  matches are modelled; UUID, checksum, ETag and file-name syntax are not.
- *Retention and backup scripts*: they delete rows in a final state, older than any
  request; nothing modelled reads these rows again.
- *Configuration, HTTP, metrics*: no state beyond the components above. The bounds
  `config.go` puts on sizes are the policy assumption of `UploadPlan`.
- *Web pages*: the browser is modelled where it keeps protocol state (the refresh
  cookie, the parts it uploads); progress displays are not.
- *Photo rows before their upload*: creation and listing; a photo starts pending.
- *Data*: images, face boxes, embeddings, names, thresholds, passwords and access
  tokens. A credential is right or wrong, a photo has faces, a match is any photo the
  index holds.
- *Envelopes that do not parse*: the publisher writes none.

## 9. What is left

The plan was followed in the order of importance: `Handoff` and `Outbox`;
`PhotoPipeline` over `Handoff`; `UploadSessions`; `PublicAccess`; `AuthSessions`; their
proofs; then `RateLimiter`, `FaceAIRuntime`, the upload plan, and the proofs of uploads
and purges; then the abstract modules at the joints and the proofs that both sides keep to
them. What would come next:

1. A pipeline that looks at the tombstone again before its verdict, as a model of the
   repair of `purge_residue`, with `PurgeProofs` without its hypothesis.
2. Upload sessions of several photos under one purge of their event.
3. The lifetime of signed links, with the object store as a component.
