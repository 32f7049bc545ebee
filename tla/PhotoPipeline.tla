----------------------------- MODULE PhotoPipeline -----------------------------
(***************************************************************************)
(* The life of the photos of one event: the API handlers that move a photo *)
(* and commit messages (apps/api/internal/store/postgres), the outbox as   *)
(* Handoff.tla promises it, and the photo worker's consumer                *)
(* (workers/photo-worker/src/photo_worker/consumer.py) running processing  *)
(* and purge jobs against the object store, the vector index and the       *)
(* database.                                                               *)
(*                                                                         *)
(* Face extraction is deterministic (same bytes, same faces), and every    *)
(* photo has a face.                                                       *)
(***************************************************************************)
EXTENDS Naturals, FiniteSets, Sequences, Functions

CONSTANTS
    Photos,
    Slots,       \* Settings.max_concurrency: the worker's concurrent tasks
    MaxGen,      \* bound on processing_generation
    MaxRetries,  \* Settings.max_retries
    BatchSize,   \* Settings.batch_size of XREADGROUP
    Tombstones,  \* kinds of tombstone asked for: "delete" (a photo), "archive" (the event)
    MaxFaults,   \* bound on crashes, Redis errors of publishers and DLQ, slow tasks
    None

ASSUME PhotosAssumption == None \notin Photos
ASSUME BoundsAssumption == /\ MaxGen \in Nat /\ MaxFaults \in Nat
                           /\ MaxRetries \in Nat \ {0} /\ BatchSize \in Nat \ {0}

\* A message is its idempotency key: photo.process:{id}:{generation}, photo.delete:{id}, event.delete:{id}.
ProcessMsg(p, g) == [type |-> "process", photo |-> p, gen |-> g]
DeleteMsg(p)     == [type |-> "delete", photo |-> p, gen |-> 0]
ArchiveMsg       == [type |-> "archive", photo |-> None, gen |-> 0]

Jobs(p)  == {ProcessMsg(p, g) : g \in 1..MaxGen}
AllJobs  == UNION {Jobs(p) : p \in Photos}
Purges   == {DeleteMsg(p) : p \in Photos} \cup {ArchiveMsg}
Messages == AllJobs \cup Purges

VARIABLES
    event,       \* events.status
    status,      \* photos.status
    gen,         \* photos.processing_generation
    upload,      \* progress of the call that completes the upload
    objects,     \* objects stored under the photo's key prefix
    vectors,     \* photos with face vectors in Qdrant
    faceRows,    \* photos with rows in faces
    committed, settled, claimed, delivered,   \* the outbox and the stream, as in Handoff.tla
    cursor,      \* the consumer group's last delivered entry
    pel,         \* the group's pending entries list
    fresh,       \* messages read and not yet dispatched by _read_loop
    reclaimed,   \* message claimed and not yet dispatched by _autoclaim_loop
    tasks,       \* the worker's tasks
    dlq,         \* the dead-letter stream
    faults       \* faults so far (bound only)

photoVars  == <<event, status, gen, upload>>
dataVars   == <<objects, vectors, faceRows>>
outboxVars == <<committed, settled, claimed, delivered>>
groupVars  == <<cursor, pel, fresh, reclaimed, dlq>>
vars       == <<photoVars, dataVars, outboxVars, groupVars, tasks, faults>>

Queue == INSTANCE Handoff

Statuses == {"uploading", "queued", "processing", "ready", "failed", "deleted"}
Objects  == {"original", "thumbnail", "preview"}
Steps    == {"claim", "fetch", "thumbnail", "preview", "extract", "upsert", "faces", "ready", "fail",
             "objects", "vectors", "rows", "ack", "failack", "deadletter", "deadack"}

Idle == [job |-> None, pc |-> "idle", attempt |-> 0]
Task == [job : Messages, pc : Steps, attempt : 0..MaxRetries]

TypeOK ==
    /\ event \in {"active", "archived"}
    /\ status \in [Photos -> Statuses]
    /\ gen \in [Photos -> 0..MaxGen]
    /\ upload \in [Photos -> {"open", "checked", "assembled"}]
    /\ objects \in [Photos -> SUBSET Objects]
    /\ vectors \subseteq Photos
    /\ faceRows \subseteq Photos
    /\ committed \subseteq Messages
    /\ settled \subseteq committed
    /\ claimed \subseteq committed
    /\ delivered \in Seq(committed)
    /\ cursor \in 0..Len(delivered)
    /\ pel \subseteq Messages
    /\ fresh \in Seq(Messages)
    /\ reclaimed \in Messages \cup {None}
    /\ tasks \in [Slots -> Task \cup {Idle}]
    /\ dlq \subseteq Messages
    /\ faults \in 0..MaxFaults

\* A photo is followed from the moment its upload session exists.
Init ==
    /\ event = "active"
    /\ status = [p \in Photos |-> "uploading"]
    /\ gen = [p \in Photos |-> 0]
    /\ upload = [p \in Photos |-> "open"]
    /\ objects = [p \in Photos |-> {}]
    /\ vectors = {}
    /\ faceRows = {}
    /\ Queue!Init
    /\ cursor = 0
    /\ pel = {}
    /\ fresh = << >>
    /\ reclaimed = None
    /\ tasks = [s \in Slots |-> Idle]
    /\ dlq = {}
    /\ faults = 0

Fault == faults < MaxFaults /\ faults' = faults + 1

-----------------------------------------------------------------------------
(* The API.                                                                 *)

\* UploadService.Complete reads the session and the photo ...
CheckCompletion(p) ==
    /\ upload[p] = "open" /\ status[p] = "uploading" /\ event = "active"
    /\ upload' = [upload EXCEPT ![p] = "checked"]
    /\ UNCHANGED <<event, status, gen, dataVars, outboxVars, groupVars, tasks, faults>>

\* ... or gives up: the upload is gone or lacks a part, or the API dies ...
GiveUpCompletion(p) ==
    /\ upload[p] = "checked"
    /\ upload' = [upload EXCEPT ![p] = "open"]
    /\ UNCHANGED <<event, status, gen, dataVars, outboxVars, groupVars, tasks, faults>>

\* ... or has the object store assemble the parts ...
AssembleObject(p) ==
    /\ upload[p] = "checked"
    /\ upload' = [upload EXCEPT ![p] = "assembled"]
    /\ objects' = [objects EXCEPT ![p] = @ \cup {"original"}]
    /\ UNCHANGED <<event, status, gen, vectors, faceRows, outboxVars, groupVars, tasks, faults>>

\* The next generation of p is queued and its job committed with it.
Enqueue(p) ==
    /\ gen[p] < MaxGen
    /\ status' = [status EXCEPT ![p] = "queued"]
    /\ gen' = [gen EXCEPT ![p] = @ + 1]
    /\ Queue!Commit({ProcessMsg(p, gen[p] + 1)}, {})

\* ... and finalizes in one transaction, which no longer looks at the event.
FinalizeCompleted(p) ==
    /\ upload[p] = "assembled" /\ status[p] = "uploading"
    /\ Enqueue(p)
    /\ UNCHANGED <<event, upload, dataVars, groupVars, tasks, faults>>

Reprocess(p) ==
    /\ status[p] = "failed" /\ event = "active"
    /\ Enqueue(p)
    /\ UNCHANGED <<event, upload, dataVars, groupVars, tasks, faults>>

\* Rows a tombstone neutralizes: 'pending' or 'failed', so not the ones a publisher holds.
Withdrawable(W) == (W \cap committed) \ (settled \cup claimed)

Delete(p) ==
    /\ "delete" \in Tombstones
    /\ event = "active"
    /\ status' = [status EXCEPT ![p] = "deleted"]
    /\ Queue!Commit({DeleteMsg(p)}, Withdrawable(Jobs(p)))
    /\ UNCHANGED <<event, gen, upload, dataVars, groupVars, tasks, faults>>

Archive ==
    /\ "archive" \in Tombstones
    /\ event = "active"
    /\ event' = "archived"
    /\ Queue!Commit({ArchiveMsg}, Withdrawable(AllJobs))
    /\ UNCHANGED <<status, gen, upload, dataVars, groupVars, tasks, faults>>

-----------------------------------------------------------------------------
(* The publishers, as Handoff.tla bounds them (Outbox.tla has the detail).  *)

Take(m) ==
    /\ m \in committed \ (settled \cup claimed)
    /\ Queue!Take({m})
    /\ UNCHANGED <<photoVars, dataVars, groupVars, tasks, faults>>

HandOver(m) ==
    /\ Queue!Deliver(m)
    /\ UNCHANGED <<photoVars, dataVars, groupVars, tasks, faults>>

Settle(m) ==
    /\ m \in claimed
    /\ Queue!Finish({m}, {m})
    /\ UNCHANGED <<photoVars, dataVars, groupVars, tasks, faults>>

\* The XADD failed or the publisher died: the row is due again.
LetGo(m) ==
    /\ m \in claimed
    /\ Fault
    /\ Queue!Finish({}, {m})
    /\ UNCHANGED <<photoVars, dataVars, groupVars, tasks>>

-----------------------------------------------------------------------------
(* The consumer's loops.                                                    *)

Smaller(a, b) == IF a < b THEN a ELSE b

\* XREADGROUP ">" COUNT batch_size: new entries become pending and wait for the semaphore.
ReadBatch ==
    /\ fresh = << >> /\ cursor < Len(delivered)
    /\ LET upto == Smaller(cursor + BatchSize, Len(delivered))
       IN /\ fresh' = SubSeq(delivered, cursor + 1, upto)
          /\ cursor' = upto
          /\ pel' = pel \cup Range(fresh')
    /\ UNCHANGED <<photoVars, dataVars, outboxVars, reclaimed, dlq, tasks, faults>>

Handled(m) == m \in Range(fresh) \/ \E s \in Slots : tasks[s].job = m

\* XAUTOCLAIM: an entry idle for min_idle_time, which nobody handles or whose handler is slow.
Autoclaim(m) ==
    /\ reclaimed = None /\ m \in pel
    /\ reclaimed' = m
    /\ IF Handled(m) THEN Fault ELSE UNCHANGED faults
    /\ UNCHANGED <<photoVars, dataVars, outboxVars, cursor, pel, fresh, dlq, tasks>>

FirstStep(m) == IF m.type = "process" THEN "claim" ELSE "objects"

Start(s, m) == /\ tasks[s] = Idle
               /\ tasks' = [tasks EXCEPT ![s] = [job |-> m, pc |-> FirstStep(m), attempt |-> 1]]

\* A slot of the semaphore is free: _dispatch starts a task, even if m was handled meanwhile.
DispatchFresh ==
    /\ fresh # << >>
    /\ \E s \in Slots : Start(s, Head(fresh))
    /\ fresh' = Tail(fresh)
    /\ UNCHANGED <<photoVars, dataVars, outboxVars, cursor, pel, reclaimed, dlq, faults>>

DispatchReclaimed ==
    /\ reclaimed # None
    /\ \E s \in Slots : Start(s, reclaimed)
    /\ reclaimed' = None
    /\ UNCHANGED <<photoVars, dataVars, outboxVars, cursor, pel, fresh, dlq, faults>>

\* The worker dies and is restarted; what it was handling stays pending.
WorkerCrash ==
    /\ Fault
    /\ tasks' = [s \in Slots |-> Idle]
    /\ fresh' = << >>
    /\ reclaimed' = None
    /\ UNCHANGED <<photoVars, dataVars, outboxVars, cursor, pel, dlq>>

-----------------------------------------------------------------------------
(* One attempt at a job (PhotoProcessor.process, DeletionProcessor).        *)

At(s, pc) == tasks[s].pc = pc
Goto(s, pc) == tasks' = [tasks EXCEPT ![s].pc = pc]

\* Only the message is kept once retrying is over.
Leave(s, pc) == tasks' = [tasks EXCEPT ![s].pc = pc, ![s].attempt = 0]

\* Mutant: while attempt <= max_retries.
RetryOnceMore(s) ==
    IF tasks[s].attempt <= MaxRetries
      THEN tasks' = [tasks EXCEPT ![s].pc = FirstStep(tasks[s].job), ![s].attempt = @ + 1]
      ELSE Leave(s, "deadletter")

\* Mutant: attempts are not counted.
RetryUncounted(s) == Goto(s, FirstStep(tasks[s].job))

\* The attempt raised: try again from the start, or give the message up.
Retry(s) == IF tasks[s].attempt < MaxRetries
              THEN tasks' = [tasks EXCEPT ![s].pc = FirstStep(tasks[s].job), ![s].attempt = @ + 1]
              ELSE Leave(s, "deadletter")

\* Any step of an attempt may raise; a call whose reply was lost has had its effect.
AttemptFails(s) ==
    /\ tasks[s].attempt > 0
    /\ Retry(s)
    /\ UNCHANGED <<photoVars, dataVars, outboxVars, groupVars, faults>>

\* Mutant: the UPDATE does not look at the generation.
ClaimableAnyGen(m) == status[m.photo] \in {"queued", "processing"}

\* Mutant: status <> 'ready'.
ClaimableNotReady(m) == gen[m.photo] = m.gen /\ status[m.photo] # "ready"

Claimable(m) == gen[m.photo] = m.gen /\ status[m.photo] \in {"queued", "processing"}

\* Somebody else's generation, or nothing left to do.
Skippable(m) == gen[m.photo] # m.gen \/ status[m.photo] \in {"ready", "deleted"}

\* persist.claim: take the photo over, skip it, or raise.
Claim(s) == LET m == tasks[s].job IN
    /\ At(s, "claim")
    /\ \/ /\ Claimable(m)
          /\ status' = [status EXCEPT ![m.photo] = "processing"]
          /\ Goto(s, "fetch")
       \/ ~Claimable(m) /\ Skippable(m) /\ Goto(s, "ack") /\ UNCHANGED status
       \/ ~Claimable(m) /\ ~Skippable(m) /\ Retry(s) /\ UNCHANGED status
    /\ UNCHANGED <<event, gen, upload, dataVars, outboxVars, groupVars, faults>>

\* Mutant: the photo is marked ready before its faces are written.
AfterIndexLast == [fetch |-> "thumbnail", thumbnail |-> "preview", preview |-> "extract",
                   extract |-> "ready", upsert |-> "faces", faces |-> "ready"]

\* The order of the steps of PhotoProcessor.process.
After == [fetch |-> "thumbnail", thumbnail |-> "preview", preview |-> "extract",
          extract |-> "upsert", upsert |-> "faces", faces |-> "ready"]

GetObject(s) ==
    /\ At(s, "fetch")
    /\ IF "original" \in objects[tasks[s].job.photo] THEN Goto(s, After.fetch) ELSE Retry(s)
    /\ UNCHANGED <<photoVars, dataVars, outboxVars, groupVars, faults>>

PutDerivative(s) ==
    /\ tasks[s].pc \in {"thumbnail", "preview"}
    /\ objects' = [objects EXCEPT ![tasks[s].job.photo] = @ \cup {tasks[s].pc}]
    /\ Goto(s, After[tasks[s].pc])
    /\ UNCHANGED <<photoVars, vectors, faceRows, outboxVars, groupVars, faults>>

ExtractFaces(s) ==
    /\ At(s, "extract")
    /\ Goto(s, After.extract)
    /\ UNCHANGED <<photoVars, dataVars, outboxVars, groupVars, faults>>

\* The image cannot be decoded, or Face AI rejects it: no retry.
TerminalError(s) ==
    /\ tasks[s].pc \in {"thumbnail", "extract"}
    /\ Leave(s, "fail")
    /\ UNCHANGED <<photoVars, dataVars, outboxVars, groupVars, faults>>

\* upsert_faces, then delete_extra_faces, which finds nothing to trim.
UpsertFaces(s) ==
    /\ At(s, "upsert")
    /\ vectors' = vectors \cup {tasks[s].job.photo}
    /\ Goto(s, After.upsert)
    /\ UNCHANGED <<photoVars, objects, faceRows, outboxVars, groupVars, faults>>

ReplaceFaces(s) ==
    /\ At(s, "faces")
    /\ faceRows' = faceRows \cup {tasks[s].job.photo}
    /\ Goto(s, After.faces)
    /\ UNCHANGED <<photoVars, objects, vectors, outboxVars, groupVars, faults>>

MarkReady(s) == LET m == tasks[s].job IN
    /\ At(s, "ready")
    /\ IF gen[m.photo] = m.gen /\ status[m.photo] = "processing"
         THEN status' = [status EXCEPT ![m.photo] = "ready"] /\ Goto(s, "ack")
         ELSE Retry(s) /\ UNCHANGED status
    /\ UNCHANGED <<event, gen, upload, dataVars, outboxVars, groupVars, faults>>

\* Mutant: WHERE id = ... AND processing_generation = ... only.
FailableAny(m) == gen[m.photo] = m.gen

Failable(m) == gen[m.photo] = m.gen /\ status[m.photo] \in {"queued", "processing"}

\* _fail_terminal_photo: mark_failed, silent when no row matches; an error gives the message up.
MarkFailed(s) == LET m == tasks[s].job IN
    /\ At(s, "fail")
    /\ \/ /\ status' = IF Failable(m) THEN [status EXCEPT ![m.photo] = "failed"] ELSE status
          /\ Goto(s, "failack")
       \/ Goto(s, "deadletter") /\ UNCHANGED status
    /\ UNCHANGED <<event, gen, upload, dataVars, outboxVars, groupVars, faults>>

\* The photos a purge reaches: one, or all of the event's.
Scope(m) == IF m.type = "archive" THEN Photos ELSE {m.photo}

\* remove_prefix may leave some objects behind, and then raises.
RemoveObjects(s) == LET scope == Scope(tasks[s].job) IN
    /\ At(s, "objects")
    /\ \E left \in [scope -> SUBSET Objects] :
         /\ \A p \in scope : left[p] \subseteq objects[p]
         /\ objects' = [p \in Photos |-> IF p \in scope THEN left[p] ELSE objects[p]]
         /\ IF \A p \in scope : left[p] = {} THEN Goto(s, "vectors") ELSE Retry(s)
    /\ UNCHANGED <<photoVars, vectors, faceRows, outboxVars, groupVars, faults>>

RemoveVectors(s) ==
    /\ At(s, "vectors")
    /\ vectors' = vectors \ Scope(tasks[s].job)
    /\ Goto(s, "rows")
    /\ UNCHANGED <<photoVars, objects, faceRows, outboxVars, groupVars, faults>>

\* purge_photo_faces, or purge_event, which also tombstones the event's photos.
RemoveRows(s) == LET m == tasks[s].job IN
    /\ At(s, "rows")
    /\ faceRows' = faceRows \ Scope(m)
    /\ status' = IF m.type = "archive" THEN [p \in Photos |-> "deleted"] ELSE status
    /\ Goto(s, "ack")
    /\ UNCHANGED <<event, gen, upload, objects, vectors, outboxVars, groupVars, faults>>

-----------------------------------------------------------------------------
(* The end of a job.                                                        *)

Release(s) == tasks' = [tasks EXCEPT ![s] = Idle]

\* XACK; losing its reply counts as a failed attempt.
Ack(s) ==
    /\ At(s, "ack")
    /\ pel' = pel \ {tasks[s].job}
    /\ Release(s) \/ Retry(s)
    /\ UNCHANGED <<photoVars, dataVars, outboxVars, cursor, fresh, reclaimed, dlq, faults>>

AckFailed(s) ==
    /\ At(s, "failack")
    /\ \/ pel' = pel \ {tasks[s].job} /\ Release(s)
       \/ pel' \in {pel, pel \ {tasks[s].job}} /\ Goto(s, "deadletter")
    /\ UNCHANGED <<photoVars, dataVars, outboxVars, cursor, fresh, reclaimed, dlq, faults>>

\* Mutant: the message is acknowledged whether or not it reached the dead-letter stream.
DeadLetterLossy(s) ==
    /\ At(s, "deadletter")
    /\ \/ dlq' = dlq \cup {tasks[s].job} /\ UNCHANGED faults
       \/ Fault /\ UNCHANGED dlq
    /\ Goto(s, "deadack")
    /\ UNCHANGED <<photoVars, dataVars, outboxVars, cursor, pel, fresh, reclaimed>>

\* _dead_letter: an error is only logged, and the message stays pending.
DeadLetter(s) ==
    /\ At(s, "deadletter")
    /\ \/ dlq' = dlq \cup {tasks[s].job} /\ Goto(s, "deadack") /\ UNCHANGED faults
       \/ Fault /\ Release(s) /\ UNCHANGED dlq
    /\ UNCHANGED <<photoVars, dataVars, outboxVars, cursor, pel, fresh, reclaimed>>

DeadAck(s) ==
    /\ At(s, "deadack")
    /\ Release(s)
    /\ \/ pel' = pel \ {tasks[s].job} /\ UNCHANGED faults
       \/ Fault /\ UNCHANGED pel
    /\ UNCHANGED <<photoVars, dataVars, outboxVars, cursor, fresh, reclaimed, dlq>>

-----------------------------------------------------------------------------

Api(p)       == CheckCompletion(p) \/ GiveUpCompletion(p) \/ AssembleObject(p) \/ FinalizeCompleted(p)
                  \/ Reprocess(p) \/ Delete(p)
Publisher(m) == Take(m) \/ HandOver(m) \/ Settle(m) \/ LetGo(m)
Loops        == ReadBatch \/ DispatchFresh \/ DispatchReclaimed
Processing(s) == Claim(s) \/ GetObject(s) \/ PutDerivative(s) \/ ExtractFaces(s)
                   \/ TerminalError(s) \/ UpsertFaces(s) \/ ReplaceFaces(s) \/ MarkReady(s)
Purging(s)   == RemoveObjects(s) \/ RemoveVectors(s) \/ RemoveRows(s)
Ending(s)    == Ack(s) \/ MarkFailed(s) \/ AckFailed(s) \/ DeadLetter(s) \/ DeadAck(s)
TaskStep(s)  == Processing(s) \/ Purging(s) \/ AttemptFails(s) \/ Ending(s)

Next ==
    \/ \E p \in Photos : Api(p)
    \/ Archive
    \/ \E m \in Messages : Publisher(m) \/ Autoclaim(m)
    \/ Loops
    \/ \E s \in Slots : TaskStep(s)
    \/ WorkerCrash

Spec == Init /\ [][Next]_vars

(***************************************************************************)
(* Processes run and are restarted, and the loops come round to every      *)
(* message: weak fairness.  A step of a task may fail any number of times: *)
(* it is max_retries that bounds the attempts, not fairness.               *)
(***************************************************************************)
Fairness ==
    /\ WF_vars(ReadBatch)
    /\ WF_vars(\E m \in Messages : Autoclaim(m))
    /\ WF_vars(DispatchFresh \/ DispatchReclaimed)
    /\ \A s \in Slots : WF_vars(TaskStep(s))
    /\ \A m \in Messages : WF_vars(Take(m) \/ HandOver(m) \/ Settle(m))

FairSpec == Spec /\ Fairness

-----------------------------------------------------------------------------
(* Properties.                                                              *)

Read(m)   == m \in Range(SubSeq(delivered, 1, cursor))
Unread(m) == m \in Range(SubSeq(delivered, cursor + 1, Len(delivered)))

\* A photo that searches and downloads may show (ready, in an active event) has everything
\* they rely on: its original, both derivatives, its vectors and its face rows, whatever
\* duplicates of its job run, crash or are retried beside it (processor.py, persist.py).
ReadyIsComplete ==
    \A p \in Photos : status[p] = "ready" /\ event = "active" =>
        objects[p] = Objects /\ p \in vectors /\ p \in faceRows

\* The verdict on a generation is that generation's own: a redelivered job of an earlier
\* generation neither takes over, finishes nor fails a photo that was requeued since.
DecidedByCurrentGeneration ==
    \A p \in Photos : status[p] \in {"processing", "ready", "failed"} =>
        Read(ProcessMsg(p, gen[p]))

\* Where a job that was asked for can be found: in the outbox, in the stream, or given up.
Visible(m) == \/ m \in committed \ settled
              \/ Unread(m)
              \/ m \in pel
              \/ m \in dlq

\* No photo waits for a job that no longer exists: while it is queued or processing its job
\* is in the outbox, the stream or the dead-letter stream (consumer.py acknowledges last).
WorkIsVisible ==
    \A p \in Photos : status[p] \in {"queued", "processing"} /\ event = "active" =>
        Visible(ProcessMsg(p, gen[p]))

\* photo.CanTransition, which the code states and no statement consults.
CanTransition(from, to) ==
    \/ to = "deleted"
    \/ <<from, to>> \in {<<"uploading", "uploaded">>, <<"uploaded", "queued">>,
                         <<"queued", "processing">>, <<"processing", "ready">>,
                         <<"processing", "failed">>, <<"failed", "queued">>}

\* The SQL of the API and of the worker together keep to the lifecycle table; only
\* FinalizeCompleted takes two of its steps at once (uploading, uploaded, queued).
StatusFollowsTable ==
    [][\A p \in Photos : status[p] # status'[p] =>
         \/ CanTransition(status[p], status'[p])
         \/ \E mid \in {"uploaded"} : /\ CanTransition(status[p], mid)
                                      /\ CanTransition(mid, status'[p])]_vars

\* Where the pipeline keeps what PhotoLifecycle.tla promises.
HandedOut == [p \in Photos |-> {g \in 1..MaxGen : Read(ProcessMsg(p, g))}]
Whole     == {p \in vectors \cap faceRows : objects[p] = Objects}
Lifecycle == INSTANCE PhotoLifecycle WITH open <- event = "active", handed <- HandedOut, whole <- Whole

\* The API and the worker together keep the promise of PhotoLifecycle.tla: work is asked for
\* of new and failed photos only and begun by the job of the present generation, a verdict is
\* given once, "ready" of a photo that has everything, and only tombstones take data away,
\* whatever tasks overlap and messages are repeated (photo.go, consumer.py, persist.py).
ImplementsLifecycle == Lifecycle!Spec

\* A photo as those who search and download tell it from others.
Shown == [p \in Photos |-> IF status[p] \in {"ready", "deleted"} THEN status[p] ELSE "processing"]
View  == INSTANCE PhotoView WITH open <- event = "active", status <- Shown

\* The photos move as PublicAccess.tla takes them to: whoever finds a photo ready in an active
\* event finds its vectors, vectors disappear behind a tombstone only, though they may come back
\* after it, and a tombstone is final (persist.py, index.py, deletion.py).
ServesPublicAccess == View!Spec

\* A photo as its upload tells it from others.
Stage      == [p \in Photos |-> CASE status[p] = "uploading" -> "waiting"
                                   [] status[p] = "deleted" -> "gone"
                                   [] OTHER -> "queued"]
Completion == INSTANCE PhotoUpload WITH open <- event = "active", stage <- Stage

\* Photos enter the pipeline as PhotoUpload.tla hands them over and UploadSessions.tla implements
\* it: once each, of an assembled object, and not after their tombstone (upload.go:162-172).
ServesUploads == Completion!Spec

\* Each generation gets one verdict: a ready or failed photo stays so, until a reprocess
\* starts the next generation or a tombstone ends it, whatever duplicates still run.
OneVerdictPerGeneration ==
    [][\A p \in Photos : status[p] \in {"ready", "failed"} /\ status'[p] # status[p] =>
         \/ status'[p] = "deleted"
         \/ status[p] = "failed" /\ gen'[p] = gen[p] + 1]_vars

Acknowledged(m) == Read(m) /\ m \notin pel

\* What the worker derives from a photo.
NoDerivedData(p) == objects[p] \subseteq {"original"} /\ p \notin vectors /\ p \notin faceRows

\* The job of p entered the stream before m did.
QueuedBefore(p, m) ==
    \E i, j \in DOMAIN delivered : i < j /\ delivered[i] \in Jobs(p) /\ delivered[j] = m

\* A purge that was acknowledged and not given up leaves none of the data the worker derives
\* (deletion.py): the claim of a job that comes later, redelivered or not, finds the tombstone.
\* Of a photo that was queued before the purge not even the original stays; the call that
\* assembles an upload looks at no tombstone and may leave one behind (upload.go:162).
\* It holds while the worker runs one job at a time, and not with concurrent tasks.
PurgeIsComplete ==
    \A m \in Purges : Acknowledged(m) /\ m \notin dlq =>
        \A p \in Scope(m) : NoDerivedData(p) /\ (QueuedBefore(p, m) => objects[p] = {})

\* The purge was acknowledged and not given up.
Done(m) == Acknowledged(m) /\ m \notin dlq

AfterClaim == {"fetch", "thumbnail", "preview", "extract", "upsert", "faces", "ready", "fail"}

\* A task past its claim is at work on p.
WorkingOn(p) == \E s \in Slots : tasks[s].pc \in AfterClaim /\ tasks[s].job.photo = p

\* Whatever a done purge leaves behind is the doing of a task that was past its claim when the
\* purge was done: of a photo that is clean and that nobody is at work on then, no redelivered,
\* reclaimed or late job ever claims or writes again (consumer.py, persist.py, deletion.py).
PurgesLast ==
    [][\A m \in Purges : Done(m) =>
         \A p \in Scope(m) : NoDerivedData(p) /\ ~WorkingOn(p) => (NoDerivedData(p) /\ ~WorkingOn(p))']_vars

\* Every committed message is eventually acknowledged, unless a tombstone withdraws it:
\* none is lost with a crashed worker and none is retried for ever.
EveryMessageSettles ==
    \A m \in Messages : m \in committed ~>
        Acknowledged(m) \/ (m \in settled /\ m \notin Range(delivered))

\* A queued photo is eventually decided, gone, or visible as a failure in the dead-letter
\* stream (tasks/plan.md: failures terminate visibly in FAILED/DLQ).
FailuresTerminateVisibly ==
    \A p \in Photos : \A g \in 1..MaxGen :
        status[p] = "queued" /\ gen[p] = g ~>
            \/ status[p] \in {"ready", "failed", "deleted"} \/ event = "archived"
            \/ ProcessMsg(p, g) \in dlq

-----------------------------------------------------------------------------
(* What the documentation says and the code does not do.                    *)

Tombstoned(p) == status[p] = "deleted" \/ event = "archived"

\* docs/architecture.md:30: a tombstone neutralizes what is not yet published, so that no
\* new indexing work is enqueued.
NoWorkEnqueuedAfterTombstone ==
    [][\A p \in Photos : Tombstoned(p) =>
         \A m \in Jobs(p) : m \in Range(delivered') => m \in Range(delivered)]_vars

\* docs/architecture.md:33: the purge retries until it succeeds.
PurgeRetriesUntilItSucceeds ==
    \A p \in Photos : DeleteMsg(p) \in committed ~> NoDerivedData(p)

=============================================================================
