------------------------------ MODULE PurgeProofs ------------------------------
(***************************************************************************)
(* A purge that was acknowledged and not given up leaves nothing behind    *)
(* unless a processing task overlapped it: for any number of photos,       *)
(* slots, generations, retries and faults.  A worker that runs one job at  *)
(* a time has no overlaps; with concurrent tasks there is one that leaves  *)
(* a residue.                                                              *)
(***************************************************************************)
EXTENDS PipelineProofs

-----------------------------------------------------------------------------
(* The inductive invariant.                                                 *)

\* No derivatives, and no original if the photo was queued before the purge.
Cleared(p, m) == objects[p] \subseteq {"original"} /\ (QueuedBefore(p, m) => objects[p] = {})

\* What is true of the photos of purge m when it has come to step pc.
Purged(p, m, pc) ==
    /\ pc \in {"vectors", "rows", "ack"} => Cleared(p, m)
    /\ pc \in {"rows", "ack"} => p \notin vectors
    /\ pc = "ack" => p \notin faceRows /\ status[p] = "deleted"

\* A purge that is done has gone through all of its steps.
DoneIsPurged == \A m \in Purges : Done(m) => \A p \in Scope(m) : Purged(p, m, "ack")

\* A purge under way has gone through the steps it has passed.
TasksHavePurged == \A s \in Slots, m \in Purges, pc \in {"vectors", "rows", "ack"} :
    tasks[s].job = m /\ tasks[s].pc = pc => \A p \in Scope(m) : Purged(p, m, pc)

\* No task writes behind a purge that is done.
NoWriteBehind == \A s \in Slots : tasks[s].pc \in AfterClaim =>
    \A m \in Purges : Done(m) => tasks[s].job.photo \notin Scope(m)

\* A photo is queued only after its original was assembled.
AssembledFirst == \A p \in Photos : upload[p] # "assembled" => gen[p] = 0

PurgeInv == DoneIsPurged /\ TasksHavePurged /\ NoWriteBehind /\ AssembledFirst

\* No task is past its claim of a photo that a purge is through removing the objects of.
NoOverlap == \A s, t \in Slots, m \in Purges :
    tasks[s].job = m /\ tasks[s].pc \in {"vectors", "rows", "ack"} /\ tasks[t].pc \in AfterClaim =>
        tasks[t].job.photo \notin Scope(m)

OneSlot == \A s, t \in Slots : s = t

-----------------------------------------------------------------------------
(* What a step does to the stream and to the data of a photo.               *)

\* A message enters the stream once, at its end.
LEMMA StreamSteps ==
    ASSUME Typed, [Next]_vars
    PROVE  delivered' = delivered \/ \E m \in committed \ Range(delivered) : delivered' = Append(delivered, m)
<1> USE DEF photoVars, dataVars, outboxVars, groupVars
<1>1. CASE \/ \E p \in Photos : CheckCompletion(p) \/ GiveUpCompletion(p) \/ AssembleObject(p)
           \/ Loops \/ WorkerCrash
           \/ \E m \in Messages : Autoclaim(m)
           \/ UNCHANGED vars
  BY <1>1 DEF CheckCompletion, GiveUpCompletion, AssembleObject, Loops, ReadBatch, DispatchFresh, DispatchReclaimed,
     WorkerCrash, Autoclaim, vars
<1>2. CASE Archive \/ \E p \in Photos : FinalizeCompleted(p) \/ Reprocess(p) \/ Delete(p)
  BY <1>2 DEF Archive, FinalizeCompleted, Reprocess, Delete, Enqueue, Queue!Commit
<1>3. ASSUME NEW m \in Messages, HandOver(m)
      PROVE  \E x \in committed \ Range(delivered) : delivered' = Append(delivered, x)
  <2>1. m \in claimed \ Range(delivered) /\ delivered' = Append(delivered, m)
    BY <1>3 DEF HandOver, Queue!Deliver, Queue!Range, Range
  <2>2. QED
    BY <2>1 DEF Typed, TypeOK
<1>4. ASSUME NEW m \in Messages, Take(m) \/ Settle(m) \/ LetGo(m) PROVE delivered' = delivered
  BY <1>4 DEF Take, Settle, LetGo, Queue!Take, Queue!Finish
<1>5. ASSUME NEW s \in Slots, TaskStep(s) PROVE delivered' = delivered
  BY <1>5 DEF TaskStep, Processing, Claim, GetObject, PutDerivative, ExtractFaces, TerminalError, UpsertFaces,
     ReplaceFaces, MarkReady, Purging, RemoveObjects, RemoveVectors, RemoveRows, AttemptFails, Ending,
     MarkFailed, Ack, AckFailed, DeadLetter, DeadAck
<1>6. QED
  BY <1>1, <1>2, <1>3, <1>4, <1>5 DEF Next, Api, Publisher

\* Which jobs came before a message in the stream is settled when it enters.
LEMMA OrderIsSettled ==
    ASSUME Typed, [Next]_vars, NEW p \in Photos, NEW m \in Range(delivered), QueuedBefore(p, m)'
    PROVE  QueuedBefore(p, m)
<1>1. delivered \in Seq(committed) /\ Len(delivered) \in Nat /\ DOMAIN delivered = 1..Len(delivered)
  BY DEF Typed, TypeOK
<1>2. PICK i, j \in DOMAIN delivered' : i < j /\ delivered'[i] \in Jobs(p) /\ delivered'[j] = m
  BY DEF QueuedBefore
<1>3. CASE delivered' = delivered
  BY <1>2, <1>3 DEF QueuedBefore
<1>4. ASSUME NEW x \in committed \ Range(delivered), delivered' = Append(delivered, x) PROVE QueuedBefore(p, m)
  <2>1. /\ DOMAIN delivered' = 1..Len(delivered) + 1 /\ delivered'[Len(delivered) + 1] = x
        /\ \A k \in 1..Len(delivered) : delivered'[k] = delivered[k]
    BY <1>1, <1>4
  <2>2. j # Len(delivered) + 1
    BY <1>2, <1>4, <2>1
  <2>3. i \in 1..Len(delivered) /\ j \in 1..Len(delivered)
    BY <1>1, <1>2, <2>1, <2>2
  <2>4. QED
    BY <1>1, <1>2, <2>1, <2>3 DEF QueuedBefore
<1>5. QED
  BY <1>3, <1>4, StreamSteps

\* A photo that was queued has a generation.
LEMMA QueuedHasGeneration ==
    ASSUME Typed, NoFutureJobs, NEW p \in Photos, NEW m, QueuedBefore(p, m)
    PROVE  gen[p] # 0
<1>1. PICK i \in DOMAIN delivered : delivered[i] \in Jobs(p)
  BY DEF QueuedBefore
<1>2. PICK g \in 1..MaxGen : delivered[i] = ProcessMsg(p, g)
  BY <1>1 DEF Jobs
<1>3. ProcessMsg(p, g) \in committed
  BY <1>1, <1>2 DEF Typed, TypeOK
<1>4. g <= gen[p] /\ gen[p] \in Nat /\ MaxGen \in Nat
  BY <1>3, BoundsAssumption DEF NoFutureJobs, Typed, TypeOK
<1>5. QED
  BY <1>4

NothingAdded(p) == objects'[p] \subseteq objects[p] /\ (p \in vectors' => p \in vectors)
                     /\ (p \in faceRows' => p \in faceRows)

OriginalAdded(p) == /\ upload[p] = "checked" /\ objects'[p] = objects[p] \cup {"original"}
                    /\ vectors' = vectors /\ faceRows' = faceRows

LEMMA PurgesAddNothing ==
    ASSUME NEW s \in Slots, Purging(s), NEW p \in Photos
    PROVE  NothingAdded(p)
<1>1. CASE RemoveObjects(s)
  <2> DEFINE scope == Scope(tasks[s].job)
  <2> HIDE DEF scope
  <2>1. PICK left \in [scope -> SUBSET Objects] :
          /\ \A q \in scope : left[q] \subseteq objects[q]
          /\ objects' = [q \in Photos |-> IF q \in scope THEN left[q] ELSE objects[q]]
    BY <1>1 DEF RemoveObjects, scope
  <2>2. vectors' = vectors /\ faceRows' = faceRows
    BY <1>1 DEF RemoveObjects
  <2>3. QED
    BY <2>1, <2>2 DEF NothingAdded
<1>2. CASE RemoveVectors(s) \/ RemoveRows(s)
  BY <1>2 DEF RemoveVectors, RemoveRows, NothingAdded
<1>3. QED
  BY <1>1, <1>2 DEF Purging

\* Only the completion of its upload and a task at work on it add data of a photo.
LEMMA DataAdded ==
    ASSUME Typed, [Next]_vars, NEW p \in Photos
    PROVE  NothingAdded(p) \/ OriginalAdded(p) \/ WorkingOn(p)
<1> USE DEF photoVars, dataVars, outboxVars, groupVars
<1>0. objects \in [Photos -> SUBSET Objects]
  BY DEF Typed, TypeOK
<1>1. ASSUME UNCHANGED dataVars PROVE NothingAdded(p)
  BY <1>1 DEF NothingAdded
<1>2. CASE \/ \E q \in Photos : FinalizeCompleted(q) \/ Reprocess(q) \/ Delete(q)
           \/ \E q \in Photos : CheckCompletion(q) \/ GiveUpCompletion(q)
           \/ Archive
           \/ \E m \in Messages : Publisher(m) \/ Autoclaim(m)
           \/ Loops \/ WorkerCrash
           \/ UNCHANGED vars
  <2>1. UNCHANGED dataVars
    BY <1>2 DEF FinalizeCompleted, Reprocess, Delete, CheckCompletion, GiveUpCompletion, Archive,
       Publisher, Take, HandOver,
       Settle, LetGo, Autoclaim, Loops, ReadBatch, DispatchFresh, DispatchReclaimed, WorkerCrash, vars
  <2>2. QED
    BY <1>1, <2>1
<1>3. ASSUME NEW q \in Photos, AssembleObject(q) PROVE NothingAdded(p) \/ OriginalAdded(p)
  <2>1. /\ upload[q] = "checked" /\ objects' = [objects EXCEPT ![q] = @ \cup {"original"}]
        /\ vectors' = vectors /\ faceRows' = faceRows
    BY <1>3 DEF AssembleObject
  <2>2. CASE p = q
    BY <1>0, <2>1, <2>2 DEF OriginalAdded
  <2>3. CASE p # q
    BY <1>0, <2>1, <2>3 DEF NothingAdded
  <2>4. QED
    BY <2>2, <2>3
<1>4. ASSUME NEW s \in Slots, PutDerivative(s) \/ UpsertFaces(s) \/ ReplaceFaces(s)
      PROVE  NothingAdded(p) \/ WorkingOn(p)
  <2> DEFINE m == tasks[s].job
  <2>1. tasks[s].pc \in AfterClaim
    BY <1>4 DEF PutDerivative, UpsertFaces, ReplaceFaces, At, AfterClaim
  <2>2. CASE m.photo = p
    BY <2>1, <2>2 DEF WorkingOn
  <2>3. CASE m.photo # p
    <3> HIDE DEF m
    <3>1. \/ objects' = [objects EXCEPT ![m.photo] = @ \cup {tasks[s].pc}] /\ vectors' = vectors /\ faceRows' = faceRows
          \/ objects' = objects /\ vectors' = vectors \cup {m.photo} /\ faceRows' = faceRows
          \/ objects' = objects /\ vectors' = vectors /\ faceRows' = faceRows \cup {m.photo}
      BY <1>4 DEF PutDerivative, UpsertFaces, ReplaceFaces, m
    <3>2. QED
      BY <1>0, <2>3, <3>1 DEF NothingAdded
  <2>4. QED
    BY <2>2, <2>3
<1>5. ASSUME NEW s \in Slots, Purging(s) PROVE NothingAdded(p)
  BY <1>5, PurgesAddNothing
<1>6. ASSUME NEW s \in Slots, \/ Claim(s) \/ GetObject(s) \/ ExtractFaces(s) \/ TerminalError(s) \/ MarkReady(s)
                              \/ AttemptFails(s) \/ Ending(s)
      PROVE  NothingAdded(p)
  <2>1. UNCHANGED dataVars
    BY <1>6 DEF Claim, GetObject, ExtractFaces, TerminalError, MarkReady, AttemptFails, Ending, Ack,
       MarkFailed, AckFailed, DeadLetter, DeadAck
  <2>2. QED
    BY <1>1, <2>1
<1>7. QED
  BY <1>2, <1>3, <1>4, <1>5, <1>6 DEF Next, Api, TaskStep, Processing

-----------------------------------------------------------------------------
(* Steps of a purge.                                                        *)

\* A task comes to a step other than its first by a step of its own.
LEMMA OwnSteps ==
    ASSUME Typed, [Next]_vars, NEW s \in Slots, tasks'[s].pc \notin {"idle", "claim", "objects"}
    PROVE  tasks'[s] = tasks[s] \/ TaskStep(s)
<1> USE DEF photoVars, dataVars, outboxVars, groupVars
<1>0. TasksOK /\ fresh \in Seq(Messages) /\ reclaimed \in Messages \cup {None}
  BY TypeParts DEF Typed, SharedOK
<1>1. CASE \/ \E p \in Photos : Api(p)
           \/ Archive
           \/ \E m \in Messages : Publisher(m) \/ Autoclaim(m)
           \/ ReadBatch
           \/ UNCHANGED vars
  BY <1>1 DEF Api, CheckCompletion, GiveUpCompletion, AssembleObject, FinalizeCompleted, Reprocess,
       Delete, Archive,
       Publisher, Take, HandOver, Settle, LetGo, Autoclaim, ReadBatch, vars
<1>2. ASSUME NEW m \in Messages, NEW t \in Slots, Start(t, m) PROVE tasks'[s] = tasks[s]
  <2>1. tasks'[t].pc = FirstStep(m) /\ \A u \in Slots \ {t} : tasks'[u] = tasks[u]
    BY <1>0, <1>2, StartMoves
  <2>2. QED
    BY <2>1 DEF FirstStep
<1>3. CASE DispatchFresh
  <2>1. fresh # << >> /\ \E t \in Slots : Start(t, Head(fresh))
    BY <1>3 DEF DispatchFresh
  <2>2. Head(fresh) \in Messages
    BY <1>0, <2>1
  <2>3. QED
    BY <1>2, <2>1, <2>2
<1>4. CASE DispatchReclaimed
  <2>1. reclaimed \in Messages /\ \E t \in Slots : Start(t, reclaimed)
    BY <1>0, <1>4 DEF DispatchReclaimed
  <2>2. QED
    BY <1>2, <2>1
<1>5. CASE WorkerCrash
  BY <1>5 DEF WorkerCrash, Idle
<1>6. ASSUME NEW t \in Slots, TaskStep(t) PROVE tasks'[s] = tasks[s] \/ TaskStep(s)
  BY <1>6, TaskMoves
<1>7. QED
  BY <1>1, <1>3, <1>4, <1>5, <1>6 DEF Next, Loops

\* The photos of a purge.
LEMMA ScopeIsPhotos ==
    /\ \A m \in Purges : Scope(m) \subseteq Photos
    /\ Scope(ArchiveMsg) = Photos
    /\ \A p \in Photos : Scope(DeleteMsg(p)) = {p}
BY DEF Scope, Purges, DeleteMsg, ArchiveMsg

\* A purge goes on once the step it is at has done its part.
LEMMA PurgeAdvances ==
    ASSUME Typed, HeldIsRead, PurgesHaveTombstones, NEW s \in Slots, TaskStep(s),
           tasks[s].job \in Purges, tasks'[s].pc \in {"vectors", "rows", "ack"},
           NEW p \in Scope(tasks[s].job)
    PROVE  \/ tasks'[s].pc = "vectors" /\ objects'[p] = {}
           \/ tasks[s].pc = "vectors" /\ tasks'[s].pc = "rows" /\ p \notin vectors'
           \/ /\ tasks[s].pc = "rows" /\ tasks'[s].pc = "ack"
              /\ p \notin faceRows' /\ status'[p] = "deleted"
<1> DEFINE m == tasks[s].job
<1>0. /\ TasksOK /\ tasks[s].pc # "idle" /\ p \in Photos /\ m \notin AllJobs /\ m.type # "process"
      /\ status \in [Photos -> Statuses]
  BY TypeParts, TaskMoves, ScopeIsPhotos, JobKinds DEF Typed, TypeOK, Messages
<1>1. m \in committed
  BY <1>0, ReadIsDelivered DEF HeldIsRead, Typed
<1>2. CASE RemoveObjects(s)
  <2> DEFINE scope == Scope(m)
  <2> HIDE DEF scope
  <2>1. PICK left \in [scope -> SUBSET Objects] :
          /\ objects' = [q \in Photos |-> IF q \in scope THEN left[q] ELSE objects[q]]
          /\ IF \A q \in scope : left[q] = {} THEN Goto(s, "vectors") ELSE Retry(s)
    BY <1>2 DEF RemoveObjects, scope
  <2>2. CASE \A q \in scope : left[q] = {}
    <3>1. MovesTo(s, "vectors")
      BY <1>0, <2>1, <2>2, GotoMoves DEF Steps
    <3>2. objects'[p] = {}
      BY <1>0, <2>1, <2>2 DEF scope
    <3>3. QED
      BY <3>1, <3>2 DEF MovesTo
  <2>3. CASE ~(\A q \in scope : left[q] = {})
    <3>1. \E pc \in {FirstStep(m), "deadletter"} : MovesTo(s, pc)
      BY <1>0, <2>1, <2>3, RetryMoves
    <3>2. QED
      BY <1>0, <3>1 DEF MovesTo, FirstStep
  <2>4. QED
    BY <2>2, <2>3
<1>3. CASE RemoveVectors(s)
  <2>1. tasks[s].pc = "vectors" /\ vectors' = vectors \ Scope(m) /\ Goto(s, "rows")
    BY <1>3 DEF RemoveVectors, At
  <2>2. MovesTo(s, "rows")
    BY <1>0, <2>1, GotoMoves DEF Steps
  <2>3. QED
    BY <2>1, <2>2 DEF MovesTo
<1>4. CASE RemoveRows(s)
  <2>1. /\ tasks[s].pc = "rows" /\ faceRows' = faceRows \ Scope(m) /\ Goto(s, "ack")
        /\ status' = IF m.type = "archive" THEN [q \in Photos |-> "deleted"] ELSE status
    BY <1>4 DEF RemoveRows, At
  <2>2. MovesTo(s, "ack")
    BY <1>0, <2>1, GotoMoves DEF Steps
  <2>3. status'[p] = "deleted"
    <3>1. CASE m.type = "archive"
      BY <1>0, <2>1, <3>1
    <3>2. CASE m.type # "archive"
      <4>1. PICK q \in Photos : m = DeleteMsg(q)
        BY <3>2 DEF Purges, ArchiveMsg
      <4>2. p = q
        BY <4>1, ScopeIsPhotos
      <4>3. status[p] = "deleted"
        BY <1>1, <4>1, <4>2 DEF PurgesHaveTombstones
      <4>4. QED
        BY <2>1, <3>2, <4>3
    <3>3. QED
      BY <3>1, <3>2
  <2>4. QED
    BY <2>1, <2>2, <2>3 DEF MovesTo
<1>5. ~Processing(s)
  BY <1>0, ProcessingStep
<1>6. CASE AttemptFails(s)
  BY <1>0, <1>6, AttemptFailsStep DEF MovesTo, FirstStep
<1>7. CASE Ending(s)
  BY <1>0, <1>7, EndingStep DEF MovesTo, FirstStep, Idle
<1>8. QED
  BY <1>2, <1>3, <1>4, <1>5, <1>6, <1>7 DEF TaskStep, Purging

-----------------------------------------------------------------------------
(* Every step preserves the invariant.                                      *)

\* What a purge has removed stays away while no task is at work on the photo.
LEMMA StaysPurged ==
    ASSUME IInv, AssembledFirst, [Next]_vars,
           NEW m \in Purges, Read(m), NEW p \in Scope(m), ~WorkingOn(p),
           NEW pc, Purged(p, m, pc)
    PROVE  /\ pc \in {"vectors", "rows", "ack"} => Cleared(p, m)'
           /\ pc \in {"rows", "ack"} => p \notin vectors'
           /\ pc = "ack" => p \notin faceRows' /\ status'[p] = "deleted"
<1>1. /\ Typed /\ NoFutureJobs /\ p \in Photos /\ m \in Range(delivered)
      /\ objects \in [Photos -> SUBSET Objects] /\ upload \in [Photos -> {"open", "checked", "assembled"}]
  BY ScopeIsPhotos, ReadIsDelivered DEF IInv, Typed, TypeOK, PhotoInv
<1>2. QueuedBefore(p, m)' => QueuedBefore(p, m)
  BY <1>1, OrderIsSettled
<1>3. status[p] = "deleted" => status'[p] = "deleted"
  BY <1>1, TombstonesStay
<1>4. CASE NothingAdded(p)
  BY <1>2, <1>3, <1>4 DEF NothingAdded, Purged, Cleared
<1>5. CASE OriginalAdded(p)
  <2>1. ~QueuedBefore(p, m)
    BY <1>1, <1>5, QueuedHasGeneration DEF OriginalAdded, AssembledFirst
  <2>2. QED
    BY <1>2, <1>3, <1>5, <2>1 DEF OriginalAdded, Purged, Cleared
<1>6. QED
  BY <1>1, <1>4, <1>5, DataAdded

\* A purge becomes done when a task that is about to acknowledge it does so.
LEMMA DoneByAck ==
    ASSUME IInv, [Next]_vars, NEW m \in Purges, Done(m)'
    PROVE  Read(m) /\ (Done(m) \/ \E s \in Slots : tasks[s].job = m /\ tasks[s].pc = "ack")
<1>1. Typed /\ DeadIsKept /\ QueueStep
  BY QueueSteps DEF IInv, TaskInv
<1>2. m \notin pel' /\ m \notin dlq' /\ m \in Range(SubSeq(delivered', 1, cursor'))
  BY DEF Done, Acknowledged, Read
<1>3. Read(m)
  BY <1>1, <1>2, ReadSteps
<1>4. m \notin dlq
  BY <1>1, <1>2 DEF QueueStep, GrowStep
<1>5. CASE m \in pel
  <2>1. PICK s \in Slots : tasks[s].job = m /\ tasks[s].pc \in {"ack", "failack", "deadack"}
    BY <1>1, <1>2, <1>5 DEF QueueStep, AckStep
  <2>2. tasks[s].pc # "deadack"
    BY <1>1, <1>4, <2>1 DEF DeadIsKept
  <2>3. tasks[s].pc # "failack"
    BY <1>1, <2>1, JobKinds DEF Typed, KindOK, ProcessSteps, Messages
  <2>4. QED
    BY <1>3, <2>1, <2>2, <2>3
<1>6. QED
  BY <1>3, <1>4, <1>5 DEF Done, Acknowledged

LEMMA DoneIsPurgedStep ==
    ASSUME IInv, PurgeInv, NoOverlap, [Next]_vars
    PROVE  DoneIsPurged'
<1> SUFFICES ASSUME NEW m \in Purges, Done(m)', NEW p \in Scope(m) PROVE Purged(p, m, "ack")'
  BY DEF DoneIsPurged
<1>1. Read(m) /\ p \in Photos
  BY DoneByAck, ScopeIsPhotos
<1>2. ASSUME Purged(p, m, "ack"), ~WorkingOn(p) PROVE Purged(p, m, "ack")'
  <2>1. Cleared(p, m)' /\ p \notin vectors' /\ p \notin faceRows' /\ status'[p] = "deleted"
    BY <1>1, <1>2, StaysPurged DEF PurgeInv
  <2>2. QED
    BY <2>1 DEF Purged
<1>3. CASE Done(m)
  <2>1. Purged(p, m, "ack")
    BY <1>3 DEF PurgeInv, DoneIsPurged
  <2>2. ~WorkingOn(p)
    BY <1>3 DEF PurgeInv, NoWriteBehind, WorkingOn
  <2>3. QED
    BY <1>2, <2>1, <2>2
<1>4. ASSUME NEW s \in Slots, tasks[s].job = m, tasks[s].pc = "ack" PROVE Purged(p, m, "ack")'
  <2>1. Purged(p, m, "ack")
    BY <1>4 DEF PurgeInv, TasksHavePurged
  <2>2. ~WorkingOn(p)
    BY <1>4 DEF NoOverlap, WorkingOn
  <2>3. QED
    BY <1>2, <2>1, <2>2
<1>5. QED
  BY <1>3, <1>4, DoneByAck

LEMMA TasksHavePurgedStep ==
    ASSUME IInv, PurgeInv, NoOverlap, [Next]_vars
    PROVE  TasksHavePurged'
<1> SUFFICES ASSUME NEW s \in Slots, NEW m \in Purges, NEW pc \in {"vectors", "rows", "ack"},
                    tasks'[s].job = m, tasks'[s].pc = pc, NEW p \in Scope(m)
             PROVE  Purged(p, m, pc)'
  BY DEF TasksHavePurged
<1>0. Typed /\ HeldIsRead /\ PurgesHaveTombstones
  BY DEF IInv, TaskInv, PhotoInv
<1>1. tasks'[s] = tasks[s] \/ TaskStep(s)
  BY <1>0, OwnSteps
<1>2. tasks[s].pc # "idle" /\ tasks[s].job = m
  BY <1>0, <1>1, TaskMoves DEF Idle
<1>3. p \in Photos /\ Read(m)
  BY <1>0, <1>2, ScopeIsPhotos DEF HeldIsRead
<1>4. tasks[s].pc \in {"vectors", "rows", "ack"} => ~WorkingOn(p)
  BY <1>2 DEF NoOverlap, WorkingOn
<1>5. AssembledFirst
  BY DEF PurgeInv
<1>6. CASE tasks'[s] = tasks[s]
  <2>1. Purged(p, m, pc)
    BY <1>2, <1>6 DEF PurgeInv, TasksHavePurged
  <2>2. /\ Cleared(p, m)'
        /\ pc \in {"rows", "ack"} => p \notin vectors'
        /\ pc = "ack" => p \notin faceRows' /\ status'[p] = "deleted"
    BY <1>3, <1>4, <1>5, <1>6, <2>1, StaysPurged
  <2>3. QED
    BY <2>2 DEF Purged
<1>7. CASE TaskStep(s)
  <2>1. CASE pc = "vectors" /\ objects'[p] = {}
    BY <2>1 DEF Purged, Cleared
  <2>2. CASE tasks[s].pc = "vectors" /\ pc = "rows" /\ p \notin vectors'
    <3>1. Purged(p, m, "vectors")
      BY <1>2, <2>2 DEF PurgeInv, TasksHavePurged
    <3>2. Cleared(p, m)'
      BY <1>3, <1>4, <1>5, <2>2, <3>1, StaysPurged
    <3>3. QED
      BY <2>2, <3>2 DEF Purged
  <2>3. CASE tasks[s].pc = "rows" /\ pc = "ack" /\ p \notin faceRows' /\ status'[p] = "deleted"
    <3>1. Purged(p, m, "rows")
      BY <1>2, <2>3 DEF PurgeInv, TasksHavePurged
    <3>2. Cleared(p, m)' /\ p \notin vectors'
      BY <1>3, <1>4, <1>5, <2>3, <3>1, StaysPurged
    <3>3. QED
      BY <2>3, <3>2 DEF Purged
  <2>4. QED
    BY <1>0, <1>2, <1>7, <2>1, <2>2, <2>3, PurgeAdvances
<1>8. QED
  BY <1>1, <1>6, <1>7

LEMMA NoWriteBehindStep ==
    ASSUME IInv, PurgeInv, NoOverlap, [Next]_vars
    PROVE  NoWriteBehind'
<1> SUFFICES ASSUME NEW s \in Slots, tasks'[s].pc \in AfterClaim, NEW m \in Purges, Done(m)'
             PROVE  tasks'[s].job.photo \notin Scope(m)
  BY DEF NoWriteBehind
<1>0. Typed
  BY DEF IInv
<1>1. tasks'[s] = tasks[s] \/ (tasks[s].pc # "idle" /\ MovesTo(s, tasks'[s].pc)
                                  /\ Advance(tasks[s].job, tasks[s].pc, tasks'[s].pc))
  BY <1>0, TaskChanges DEF AfterClaim
<1>2. tasks'[s].job = tasks[s].job
  BY <1>1 DEF MovesTo
<1>3. CASE tasks[s].pc \in AfterClaim
  <2>1. CASE Done(m)
    BY <1>2, <1>3, <2>1 DEF PurgeInv, NoWriteBehind
  <2>2. ASSUME NEW t \in Slots, tasks[t].job = m, tasks[t].pc = "ack" PROVE tasks[s].job.photo \notin Scope(m)
    BY <1>3, <2>2 DEF NoOverlap
  <2>3. QED
    BY <1>2, <2>1, <2>2, DoneByAck
<1>4. CASE tasks[s].pc \notin AfterClaim
  <2>1. status'[tasks[s].job.photo] = "processing"
    BY <1>1, <1>4 DEF Advance, AfterClaim
  <2>2. \A p \in Scope(m) : status[p] = "deleted"
    <3>1. CASE Done(m)
      BY <3>1 DEF PurgeInv, DoneIsPurged, Purged
    <3>2. ASSUME NEW t \in Slots, tasks[t].job = m, tasks[t].pc = "ack"
          PROVE  \A p \in Scope(m) : status[p] = "deleted"
      BY <3>2 DEF PurgeInv, TasksHavePurged, Purged
    <3>3. QED
      BY <3>1, <3>2, DoneByAck
  <2>3. \A p \in Scope(m) : status'[p] = "deleted"
    BY <1>0, <2>2, ScopeIsPhotos, TombstonesStay
  <2>4. QED
    BY <1>2, <2>1, <2>3
<1>5. QED
  BY <1>3, <1>4

\* A photo gets a generation from its upload, or has one already.
LEMMA AssembledFirstStep ==
    ASSUME IInv, AssembledFirst, [Next]_vars
    PROVE  AssembledFirst'
<1> USE DEF photoVars, dataVars, outboxVars, groupVars
<1>0. /\ gen \in [Photos -> 0..MaxGen] /\ committed \subseteq Messages
      /\ upload \in [Photos -> {"open", "checked", "assembled"}]
  BY DEF IInv, Typed, TypeOK
<1>1. ASSUME UNCHANGED <<gen, upload>> PROVE AssembledFirst'
  BY <1>1 DEF AssembledFirst
<1>2. ASSUME NEW q \in Photos, CheckCompletion(q) \/ GiveUpCompletion(q) \/ AssembleObject(q)
      PROVE  AssembledFirst'
  <2>1. gen' = gen /\ \E u \in {"open", "checked", "assembled"} :
          upload' = [upload EXCEPT ![q] = u] /\ upload[q] # "assembled"
    BY <1>2 DEF CheckCompletion, GiveUpCompletion, AssembleObject
  <2>2. QED
    BY <1>0, <2>1 DEF AssembledFirst
<1>3. ASSUME NEW q \in Photos, FinalizeCompleted(q) \/ Reprocess(q) PROVE AssembledFirst'
  <2>1. upload' = upload /\ gen' = [gen EXCEPT ![q] = @ + 1]
    BY <1>3 DEF FinalizeCompleted, Reprocess, Enqueue
  <2>2. upload[q] = "assembled"
    <3>1. CASE FinalizeCompleted(q)
      BY <3>1 DEF FinalizeCompleted
    <3>2. CASE Reprocess(q)
      <4>1. ProcessMsg(q, gen[q]) \in Messages
        <5>1. Read(ProcessMsg(q, gen[q]))
          BY <3>2 DEF Reprocess, IInv, PhotoInv, DecidedByCurrentGeneration
        <5>2. QED
          BY <1>0, <5>1, ReadIsDelivered DEF IInv, Typed
      <4>2. gen[q] \in 1..MaxGen
        BY <4>1, JobKinds DEF ProcessMsg
      <4>3. QED
        BY <4>2, BoundsAssumption DEF AssembledFirst
    <3>3. QED
      BY <1>3, <3>1, <3>2
  <2>3. QED
    BY <1>0, <2>1, <2>2 DEF AssembledFirst
<1>4. CASE \/ \E p \in Photos : Delete(p)
           \/ Archive
           \/ \E m \in Messages : Publisher(m) \/ Autoclaim(m)
           \/ Loops \/ WorkerCrash
           \/ UNCHANGED vars
  <2>1. UNCHANGED <<gen, upload>>
    BY <1>4 DEF Delete, Archive, Publisher, Take, HandOver, Settle, LetGo, Autoclaim, Loops, ReadBatch,
       DispatchFresh, DispatchReclaimed, WorkerCrash, vars
  <2>2. QED
    BY <1>1, <2>1
<1>5. ASSUME NEW s \in Slots, TaskStep(s) PROVE AssembledFirst'
  <2>1. UNCHANGED <<gen, upload>>
    BY <1>5 DEF TaskStep, Processing, Claim, GetObject, PutDerivative, ExtractFaces, TerminalError, UpsertFaces,
       ReplaceFaces, MarkReady, Purging, RemoveObjects, RemoveVectors, RemoveRows, AttemptFails, Ending,
       MarkFailed, Ack, AckFailed, DeadLetter, DeadAck
  <2>2. QED
    BY <1>1, <2>1
<1>6. QED
  BY <1>2, <1>3, <1>4, <1>5 DEF Next, Api

LEMMA InitPurgeInv == Init => PurgeInv
<1> SUFFICES ASSUME Init PROVE PurgeInv
  OBVIOUS
<1>1. /\ \A s \in Slots : tasks[s].pc = "idle"
      /\ \A p \in Photos : gen[p] = 0
  BY DEF Init, Idle
<1>2. \A m : ~Done(m)
  <2>1. Typed /\ cursor = 0
    BY InitTyped DEF Init
  <2>2. QED
    BY <2>1, ReadPrefix DEF Done, Acknowledged, Typed
<1>3. QED
  BY <1>1, <1>2 DEF PurgeInv, DoneIsPurged, TasksHavePurged, NoWriteBehind, AssembledFirst, AfterClaim

\* Every step without an overlap keeps the purges complete.
LEMMA StepPurgeInv ==
    ASSUME IInv, PurgeInv, NoOverlap, [Next]_vars
    PROVE  PurgeInv'
<1>1. AssembledFirst'
  BY AssembledFirstStep DEF PurgeInv
<1>2. QED
  BY <1>1, DoneIsPurgedStep, TasksHavePurgedStep, NoWriteBehindStep DEF PurgeInv

\* An overlap is the only way to a residue: with any number of slots, as long as no task is
\* past its claim of a photo while a purge goes on after the objects of that photo, a purge
\* that was acknowledged and not given up leaves no vectors, no face rows, no derivatives, and
\* no original of a photo queued before it (consumer.py, processor.py, deletion.py, persist.py).
THEOREM OnlyOverlapsLeaveData == Spec /\ []NoOverlap => []PurgeIsComplete
<1>1. Init => PurgeInv
  BY InitPurgeInv
<1>2. IInv /\ NoOverlap /\ PurgeInv /\ [Next]_vars => PurgeInv'
  BY StepPurgeInv
<1>3. PurgeInv => PurgeIsComplete
  BY DEF PurgeInv, DoneIsPurged, Purged, Cleared, PurgeIsComplete, Done, NoDerivedData
<1>4. QED
  BY <1>1, <1>2, <1>3, Inductive, PTL DEF Spec

\* A worker with one slot (max_concurrency = 1) has no overlaps, and so leaves nothing behind a
\* purge that it acknowledged and did not give up (config.py, consumer.py).
THEOREM PurgesAreComplete ==
    ASSUME OneSlot
    PROVE  Spec => []PurgeIsComplete
<1>1. NoOverlap
  BY DEF NoOverlap, OneSlot, AfterClaim
<1>2. QED
  BY <1>1, OnlyOverlapsLeaveData, PTL

-----------------------------------------------------------------------------
(* What a done purge has settled, with any number of slots.                 *)

\* The photos of a purge that is done, or about to be acknowledged, have their tombstones.
PurgedAreDeleted == \A m \in Purges :
    Done(m) \/ (\E s \in Slots : tasks[s].job = m /\ tasks[s].pc = "ack") =>
        \A p \in Scope(m) : status[p] = "deleted"

LEMMA PurgedAreDeletedStep ==
    ASSUME IInv, PurgedAreDeleted, [Next]_vars
    PROVE  PurgedAreDeleted'
<1>0. Typed /\ HeldIsRead /\ PurgesHaveTombstones
  BY DEF IInv, TaskInv, PhotoInv
<1>1. \A m \in Purges : (\A p \in Scope(m) : status[p] = "deleted") => \A p \in Scope(m) : status'[p] = "deleted"
  BY <1>0, ScopeIsPhotos, TombstonesStay
<1>2. ASSUME NEW m \in Purges, Done(m)' PROVE \A p \in Scope(m) : status'[p] = "deleted"
  BY <1>1, <1>2, DoneByAck DEF PurgedAreDeleted
<1>3. ASSUME NEW m \in Purges, NEW s \in Slots, tasks'[s].job = m, tasks'[s].pc = "ack", NEW p \in Scope(m)
      PROVE  status'[p] = "deleted"
  <2>1. CASE tasks'[s] = tasks[s]
    BY <1>1, <1>3, <2>1 DEF PurgedAreDeleted
  <2>2. CASE TaskStep(s)
    BY <1>0, <1>3, <2>2, TaskMoves, PurgeAdvances DEF Idle
  <2>3. QED
    BY <1>0, <1>3, <2>1, <2>2, OwnSteps
<1>4. QED
  BY <1>2, <1>3 DEF PurgedAreDeleted

\* A photo with a tombstone gets no new task at work on it.
LEMMA TombstonesStopClaims ==
    ASSUME Typed, [Next]_vars, NEW p \in Photos, status[p] = "deleted", ~WorkingOn(p)
    PROVE  ~WorkingOn(p)'
<1> SUFFICES ASSUME NEW s \in Slots, tasks'[s].pc \in AfterClaim, tasks'[s].job.photo = p PROVE FALSE
  BY DEF WorkingOn
<1>1. tasks'[s] # tasks[s]
  BY DEF WorkingOn
<1>2. MovesTo(s, tasks'[s].pc) /\ Advance(tasks[s].job, tasks[s].pc, tasks'[s].pc)
  BY <1>1, TaskChanges DEF AfterClaim
<1>3. tasks[s].job.photo = p
  BY <1>2 DEF MovesTo
<1>4. tasks[s].pc \notin AfterClaim
  BY <1>3 DEF WorkingOn
<1>5. status'[p] = "processing"
  BY <1>2, <1>3, <1>4 DEF Advance, AfterClaim
<1>6. QED
  BY <1>5, TombstonesStay

\* With any number of slots, whatever a done purge leaves behind is the doing of a task that was
\* past its claim when the purge was done: no later delivery of any job brings a clean photo's
\* data back, for the claim finds the tombstone (persist.py, deletion.py).
THEOREM DonePurgesLast == Spec => PurgesLast
<1>1. Init => PurgedAreDeleted
  <2> SUFFICES ASSUME Init PROVE PurgedAreDeleted
    OBVIOUS
  <2>1. TypeOK /\ cursor = 0 /\ \A s \in Slots : tasks[s].pc = "idle"
    BY InitTyped DEF Init, Idle, Typed
  <2>2. \A m : ~Done(m)
    BY <2>1, ReadPrefix DEF Done, Acknowledged
  <2>3. QED
    BY <2>1, <2>2 DEF PurgedAreDeleted
<1>2. IInv /\ PurgedAreDeleted /\ [Next]_vars => PurgedAreDeleted'
  BY PurgedAreDeletedStep
<1>3. IInv /\ PurgedAreDeleted /\ [Next]_vars =>
        [\A m \in Purges : Done(m) =>
           \A p \in Scope(m) : NoDerivedData(p) /\ ~WorkingOn(p) => (NoDerivedData(p) /\ ~WorkingOn(p))']_vars
  <2> SUFFICES ASSUME IInv, PurgedAreDeleted, [Next]_vars, NEW m \in Purges, Done(m),
                      NEW p \in Scope(m), NoDerivedData(p), ~WorkingOn(p)
               PROVE  NoDerivedData(p)' /\ ~WorkingOn(p)'
    OBVIOUS
  <2>1. Typed /\ p \in Photos /\ status[p] = "deleted"
    BY ScopeIsPhotos DEF IInv, PurgedAreDeleted
  <2>2. NoDerivedData(p)'
    BY <2>1, DataAdded DEF NoDerivedData, NothingAdded, OriginalAdded
  <2>3. QED
    BY <2>1, <2>2, TombstonesStopClaims
<1>4. QED
  BY <1>1, <1>2, <1>3, Inductive, PTL DEF Spec, PurgesLast

-----------------------------------------------------------------------------
(* The pipeline keeps the promise of PhotoLifecycle.tla.                    *)

\* Nothing of what a worker derives is there before the photo was queued.
UnbuiltFirst == \A p \in Photos : gen[p] = 0 => p \notin faceRows

\* Who is at work on a photo was handed one of its jobs.
LEMMA WorkIsHandedOut ==
    ASSUME IInv, NEW s \in Slots, tasks[s].pc \in AfterClaim
    PROVE  LET p == tasks[s].job.photo IN p \in Photos /\ tasks[s].job.gen \in HandedOut[p] /\ gen[p] # 0
<1> DEFINE m == tasks[s].job
<1>1. m \in AllJobs /\ Read(m) /\ TypeOK
  BY DEF IInv, Typed, TaskInv, KindOK, HeldIsRead, AfterClaim, ProcessSteps
<1>2. m.photo \in Photos /\ m.gen \in 1..MaxGen /\ m = ProcessMsg(m.photo, m.gen) /\ m \in committed
  BY <1>1, JobKinds, ReadIsDelivered
<1> HIDE DEF m
<1>3. m.gen \in HandedOut[m.photo]
  BY <1>1, <1>2 DEF HandedOut
<1>4. m.gen <= gen[m.photo] /\ gen[m.photo] \in Nat
  BY <1>1, <1>2, BoundsAssumption DEF IInv, PhotoInv, NoFutureJobs, TypeOK
<1>5. QED
  BY <1>2, <1>3, <1>4 DEF m

LEMMA UnbuiltFirstStep ==
    ASSUME IInv, AssembledFirst, UnbuiltFirst, [Next]_vars
    PROVE  UnbuiltFirst'
<1> SUFFICES ASSUME NEW p \in Photos, gen'[p] = 0 PROVE p \notin faceRows'
  BY DEF UnbuiltFirst
<1>1. Typed /\ gen \in [Photos -> 0..MaxGen] /\ MaxGen \in Nat
  BY BoundsAssumption DEF IInv, Typed, TypeOK
<1>2. gen[p] = 0
  BY <1>1, StatusSteps DEF StatusStep
<1>3. ~WorkingOn(p)
  BY <1>2, WorkIsHandedOut DEF WorkingOn
<1>4. QED
  BY <1>1, <1>2, <1>3, DataAdded DEF UnbuiltFirst, NothingAdded, OriginalAdded

\* What was handed out stays so, and was asked for.
LEMMA HandingOut ==
    ASSUME IInv, IInv', [Next]_vars
    PROVE  /\ HandedOut' \in [Photos -> SUBSET Nat]
           /\ \A p \in Photos : HandedOut[p] \subseteq HandedOut'[p] /\ HandedOut'[p] \subseteq 1..gen'[p]
<1>1. \A m : Read(m) => Read(m)'
  BY QueueSteps, TypedStep, ReadGrows DEF IInv, Typed, QueueStep, GrowStep
<1>2. ASSUME NEW m, Read(m)' PROVE m \in committed'
  <2>1. delivered' \in Seq(committed') /\ cursor' \in 0..Len(delivered')
    BY DEF IInv, Typed, TypeOK
  <2>2. \E i \in 1..cursor' : delivered'[i] = m
    BY <1>2, <2>1, PrefixRange DEF Read
  <2>3. QED
    BY <2>1, <2>2
<1>3. ASSUME NEW p \in Photos PROVE HandedOut'[p] \subseteq 1..gen'[p]
  <2>1. \A g \in 1..MaxGen : ProcessMsg(p, g) \in committed' => g <= gen'[p]
    BY DEF IInv, PhotoInv, NoFutureJobs, ProcessMsg
  <2>2. gen'[p] \in Nat /\ MaxGen \in Nat
    BY BoundsAssumption DEF IInv, Typed, TypeOK
  <2>3. \A g \in HandedOut'[p] : g \in 1..MaxGen /\ ProcessMsg(p, g) \in committed'
    BY <1>2 DEF HandedOut, ProcessMsg
  <2>4. QED
    BY <2>1, <2>2, <2>3
<1>4. \A p \in Photos : HandedOut[p] \subseteq HandedOut'[p]
  BY <1>1 DEF HandedOut, ProcessMsg
<1>5. HandedOut' \in [Photos -> SUBSET Nat]
  BY BoundsAssumption DEF HandedOut
<1>6. QED
  BY <1>3, <1>4, <1>5

\* Steps that decide nothing and touch no data hand out at most.
LEMMA QuietSteps ==
    ASSUME IInv, IInv', [Next]_vars, UNCHANGED <<event, status, gen, dataVars>>
    PROVE  Lifecycle!HandOut
<1>1. UNCHANGED <<event = "active", status, gen, Whole>>
  BY DEF dataVars, Whole
<1>2. gen' = gen
  OBVIOUS
<1>3. QED
  BY <1>1, <1>2, HandingOut DEF Lifecycle!HandOut

\* What the API does to a photo.
LEMMA ApiKeepsPromise ==
    ASSUME IInv, IInv', UnbuiltFirst, AssembledFirst, [Next]_vars, (\E p \in Photos : Api(p)) \/ Archive
    PROVE  Lifecycle!Next
<1> USE DEF photoVars, dataVars, outboxVars, groupVars
<1>0. /\ status \in [Photos -> Statuses] /\ gen \in [Photos -> 0..MaxGen] /\ objects \in [Photos -> SUBSET Objects]
  BY DEF IInv, Typed, TypeOK
<1>1. ASSUME UNCHANGED <<delivered, cursor>> PROVE HandedOut' = HandedOut
  BY <1>1 DEF HandedOut, Read, ProcessMsg
<1>2. ASSUME UNCHANGED dataVars PROVE Whole' = Whole
  BY <1>2 DEF Whole
<1>3. ASSUME NEW p \in Photos, FinalizeCompleted(p) \/ Reprocess(p) PROVE Lifecycle!Ask(p)
  <2>1. UNCHANGED <<delivered, cursor, dataVars, event>>
    BY <1>3 DEF FinalizeCompleted, Reprocess, Enqueue, Queue!Commit
  <2>2. /\ status[p] \in {"uploading", "failed"}
        /\ status' = [status EXCEPT ![p] = "queued"] /\ gen' = [gen EXCEPT ![p] = @ + 1]
    BY <1>3 DEF FinalizeCompleted, Reprocess, Enqueue
  <2>3. QED
    BY <1>1, <1>2, <2>1, <2>2 DEF Lifecycle!Ask, Lifecycle!Becomes
<1>4. ASSUME NEW p \in Photos, Delete(p) PROVE Lifecycle!Tombstone(p)
  <2>1. UNCHANGED <<delivered, cursor, dataVars, event, gen>> /\ status' = [status EXCEPT ![p] = "deleted"]
    BY <1>4 DEF Delete, Queue!Commit
  <2>2. QED
    BY <1>1, <1>2, <2>1 DEF Lifecycle!Tombstone, Lifecycle!Becomes
<1>5. CASE Archive
  <2>1. UNCHANGED <<delivered, cursor, dataVars, status, gen>> /\ event' = "archived"
    BY <1>5 DEF Archive, Queue!Commit
  <2>2. (event = "active")' = FALSE
    BY <2>1
  <2>3. Lifecycle!Close
    BY <1>1, <1>2, <2>1, <2>2 DEF Lifecycle!Close
  <2>4. QED
    BY <2>3 DEF Lifecycle!Next
<1>6. ASSUME NEW p \in Photos, CheckCompletion(p) \/ GiveUpCompletion(p) PROVE Lifecycle!HandOut
  BY <1>6, QuietSteps DEF CheckCompletion, GiveUpCompletion
<1>7. ASSUME NEW p \in Photos, AssembleObject(p) PROVE Lifecycle!HandOut
  <2>1. /\ upload[p] = "checked" /\ objects' = [objects EXCEPT ![p] = @ \cup {"original"}]
        /\ UNCHANGED <<event, status, gen, vectors, faceRows>>
    BY <1>7 DEF AssembleObject
  <2>2. p \notin faceRows
    BY <2>1 DEF AssembledFirst, UnbuiltFirst
  <2>3. Whole' = Whole
    BY <1>0, <2>1, <2>2 DEF Whole
  <2>4. QED
    BY <2>1, <2>3, HandingOut DEF Lifecycle!HandOut
<1>8. QED
  BY <1>3, <1>4, <1>5, <1>6, <1>7 DEF Api, Lifecycle!Next

\* What a task does to a photo.
LEMMA TasksKeepPromise ==
    ASSUME IInv, IInv', [Next]_vars, NEW s \in Slots, TaskStep(s)
    PROVE  [Lifecycle!Next]_(Lifecycle!vars)
<1> USE DEF photoVars, dataVars, outboxVars, groupVars
<1>0. /\ status \in [Photos -> Statuses] /\ gen \in [Photos -> 0..MaxGen] /\ objects \in [Photos -> SUBSET Objects]
      /\ KindOK
  BY DEF IInv, Typed, TypeOK
<1> DEFINE m == tasks[s].job
<1>1. ASSUME UNCHANGED <<delivered, cursor>> PROVE HandedOut' = HandedOut
  BY <1>1 DEF HandedOut, Read, ProcessMsg
<1>2. ASSUME UNCHANGED dataVars PROVE Whole' = Whole
  BY <1>2 DEF Whole
<1>3. ASSUME UNCHANGED <<event, status, gen, dataVars>> PROVE Lifecycle!Next
  BY <1>3, QuietSteps DEF Lifecycle!Next
<1>4. CASE Claim(s)
  <2>1. m \in AllJobs /\ m.photo \in Photos /\ m.gen \in 1..MaxGen /\ m = ProcessMsg(m.photo, m.gen) /\ Read(m)
    BY <1>0, <1>4, JobKinds DEF Claim, At, KindOK, ProcessSteps, IInv, TaskInv, HeldIsRead
  <2> HIDE DEF m
  <2>2. UNCHANGED <<delivered, cursor, event, gen, dataVars>>
    BY <1>4 DEF Claim
  <2>3. CASE Claimable(m) /\ status' = [status EXCEPT ![m.photo] = "processing"] /\ status[m.photo] = "queued"
    <3>1. gen[m.photo] \in HandedOut[m.photo]
      BY <2>1, <2>3 DEF Claimable, HandedOut
    <3>2. Lifecycle!Begin(m.photo)
      BY <1>1, <1>2, <2>2, <2>3, <3>1 DEF Lifecycle!Begin, Lifecycle!Becomes
    <3>3. QED
      BY <2>1, <3>2 DEF Lifecycle!Next
  <2>4. CASE Claimable(m) /\ status' = [status EXCEPT ![m.photo] = "processing"] /\ status[m.photo] # "queued"
    <3>1. status' = status
      BY <1>0, <2>1, <2>4 DEF Claimable
    <3>2. QED
      BY <1>3, <2>2, <3>1
  <2>5. CASE status' = status
    BY <1>3, <2>2, <2>5
  <2>6. QED
    BY <1>4, <2>3, <2>4, <2>5 DEF Claim, m
<1>5. CASE PutDerivative(s) \/ UpsertFaces(s) \/ ReplaceFaces(s)
  <2>1. tasks[s].pc \in AfterClaim
    BY <1>5 DEF PutDerivative, UpsertFaces, ReplaceFaces, At, AfterClaim
  <2>2. m.photo \in Photos /\ HandedOut[m.photo] # {}
    BY <2>1, WorkIsHandedOut
  <2> HIDE DEF m
  <2>3. UNCHANGED <<delivered, cursor, event, status, gen>>
    BY <1>5 DEF PutDerivative, UpsertFaces, ReplaceFaces
  <2>4. \/ /\ objects' = [objects EXCEPT ![m.photo] = @ \cup {tasks[s].pc}] /\ tasks[s].pc \in Objects
           /\ vectors' = vectors /\ faceRows' = faceRows
        \/ objects' = objects /\ vectors' = vectors \cup {m.photo} /\ faceRows' = faceRows
        \/ objects' = objects /\ vectors' = vectors /\ faceRows' = faceRows \cup {m.photo}
    BY <1>5 DEF PutDerivative, UpsertFaces, ReplaceFaces, m, Objects
  <2>5. Whole' = Whole \/ Whole' = Whole \cup {m.photo}
    <3>0. objects' \in [Photos -> SUBSET Objects] /\ vectors \subseteq Photos /\ faceRows \subseteq Photos
      BY DEF IInv, Typed, TypeOK
    <3>1. ASSUME NEW p \in Whole PROVE p \in Whole'
      <4>1. objects[p] \subseteq objects'[p] /\ objects'[p] \subseteq Objects
        BY <1>0, <2>2, <2>4, <3>0, <3>1 DEF Whole
      <4>2. QED
        BY <2>4, <3>1, <4>1 DEF Whole
    <3>2. ASSUME NEW p \in Whole', p # m.photo PROVE p \in Whole
      <4>1. p \in Photos
        BY <2>2, <2>4, <3>0, <3>2 DEF Whole
      <4>2. objects'[p] = objects[p]
        BY <1>0, <2>4, <3>2, <4>1
      <4>3. QED
        BY <2>4, <3>2, <4>2 DEF Whole
    <3>3. QED
      BY <3>1, <3>2
  <2>6. CASE Whole' = Whole
    BY <2>3, <2>6, HandingOut DEF Lifecycle!HandOut, Lifecycle!Next
  <2>7. CASE Whole' = Whole \cup {m.photo}
    <3>1. Lifecycle!Build(m.photo)
      BY <1>1, <2>2, <2>3, <2>7 DEF Lifecycle!Build
    <3>2. QED
      BY <2>2, <3>1 DEF Lifecycle!Next
  <2>8. QED
    BY <2>5, <2>6, <2>7
<1>6. CASE MarkReady(s) \/ MarkFailed(s)
  <2>1. UNCHANGED <<delivered, cursor, event, gen, dataVars>>
    BY <1>6 DEF MarkReady, MarkFailed
  <2>2. m \in AllJobs /\ m.photo \in Photos
    BY <1>0, <1>6, JobKinds DEF MarkReady, MarkFailed, At, KindOK, ProcessSteps
  <2>3. CASE status' = status
    BY <1>3, <2>1, <2>3
  <2>4. CASE MarkReady(s) /\ status[m.photo] = "processing" /\ status' = [status EXCEPT ![m.photo] = "ready"]
    <3> HIDE DEF m
    <3>1. status'[m.photo] = "ready" /\ event' = event /\ objects' = objects /\ vectors' = vectors /\ faceRows' = faceRows
      BY <1>0, <2>1, <2>2, <2>4
    <3>2. event = "active" => m.photo \in Whole
      BY <2>2, <3>1 DEF IInv, PhotoInv, ReadyIsComplete, Whole
    <3>3. Lifecycle!Pass(m.photo)
      BY <1>1, <1>2, <2>1, <2>4, <3>2 DEF Lifecycle!Pass, Lifecycle!Becomes
    <3>4. QED
      BY <2>2, <3>3 DEF Lifecycle!Next
  <2>5. CASE MarkFailed(s) /\ Failable(m) /\ status' = [status EXCEPT ![m.photo] = "failed"]
    <3>1. status[m.photo] = "processing"
      BY <2>5 DEF MarkFailed, At, Failable, IInv, TaskInv, ClaimedIsNotQueued, AfterClaim
    <3> HIDE DEF m
    <3>2. Lifecycle!Reject(m.photo)
      BY <1>1, <1>2, <2>1, <2>5, <3>1 DEF Lifecycle!Reject, Lifecycle!Becomes
    <3>3. QED
      BY <2>2, <3>2 DEF Lifecycle!Next
  <2>6. QED
    BY <1>6, <2>3, <2>4, <2>5 DEF MarkReady, MarkFailed
<1>7. CASE Purging(s)
  <2>0. m \in Purges /\ m \in committed
    BY <1>7, PurgingStep, ReadIsDelivered, TaskMoves DEF IInv, Typed, TaskInv, HeldIsRead
  <2>1. UNCHANGED <<delivered, cursor, event, gen>>
    BY <1>7 DEF Purging, RemoveObjects, RemoveVectors, RemoveRows
  <2>2. /\ Typed /\ vectors \subseteq Photos /\ vectors' \subseteq Photos
        /\ objects \in [Photos -> SUBSET Objects] /\ objects' \in [Photos -> SUBSET Objects]
    BY DEF IInv, Typed, TypeOK
  <2>3. Whole' \subseteq Whole
    BY <1>7, <2>2, PurgesAddNothing DEF Whole, NothingAdded
  <2>4. CASE status' = status
    <3>1. ASSUME NEW p \in Whole \ Whole' PROVE status[p] = "deleted" \/ event # "active"
      <4> SUFFICES ASSUME status[p] # "deleted", event = "active" PROVE FALSE
        OBVIOUS
      <4>1. p \in Photos /\ objects[p] = Objects /\ p \in vectors /\ p \in faceRows
        BY <2>2, <3>1 DEF Whole
      <4>2. objects[p] \subseteq objects'[p] /\ p \in vectors' /\ p \in faceRows'
        BY <2>1, <2>4, <4>1, DataSteps DEF IInv, TaskInv, PhotoInv
      <4>3. objects'[p] = Objects
        BY <2>2, <4>1, <4>2
      <4>4. QED
        BY <3>1, <4>2, <4>3 DEF Whole
    <3>2. Lifecycle!Purge
      BY <1>1, <2>1, <2>3, <2>4, <3>1 DEF Lifecycle!Purge
    <3>3. QED
      BY <3>2 DEF Lifecycle!Next
  <2>5. CASE m.type = "archive" /\ status' = [p \in Photos |-> "deleted"]
    <3>1. m = ArchiveMsg
      BY <2>0, <2>5 DEF Purges, DeleteMsg, ArchiveMsg
    <3>2. event # "active"
      BY <2>0, <3>1 DEF IInv, PhotoInv, PurgesHaveTombstones
    <3>3. Lifecycle!Clear
      BY <1>1, <2>1, <2>3, <2>5, <3>2 DEF Lifecycle!Clear
    <3>4. QED
      BY <3>3 DEF Lifecycle!Next
  <2>6. QED
    BY <1>7, <2>4, <2>5 DEF Purging, RemoveObjects, RemoveVectors, RemoveRows
<1>8. CASE \/ GetObject(s) \/ ExtractFaces(s) \/ TerminalError(s) \/ AttemptFails(s)
           \/ Ack(s) \/ AckFailed(s) \/ DeadLetter(s) \/ DeadAck(s)
  <2>1. UNCHANGED <<event, status, gen, dataVars>>
    BY <1>8 DEF GetObject, ExtractFaces, TerminalError, AttemptFails, Ack, AckFailed, DeadLetter, DeadAck
  <2>2. QED
    BY <1>3, <2>1
<1>9. QED
  BY <1>4, <1>5, <1>6, <1>7, <1>8 DEF TaskStep, Processing, Ending

\* The API and the worker keep the promise of PhotoLifecycle.tla for any number of photos,
\* slots, generations, retries, faults and tombstones: every step of theirs is one of the few
\* the promise has, or one that nobody who reads the photos can see.
THEOREM KeepsPromise == Spec => ImplementsLifecycle
<1> DEFINE Built == AssembledFirst /\ UnbuiltFirst
<1>1. Init => Lifecycle!Init /\ Built
  <2> SUFFICES ASSUME Init PROVE Lifecycle!Init /\ Built
    OBVIOUS
  <2>1. TypeOK /\ cursor = 0
    BY InitTyped DEF Init, Typed
  <2>2. \A m : ~Read(m)
    BY <2>1, ReadPrefix
  <2>3. HandedOut = [p \in Photos |-> {}] /\ Whole = {} /\ (event = "active") = TRUE
    BY <2>2 DEF HandedOut, Whole, Init
  <2>4. QED
    BY <2>3 DEF Init, Lifecycle!Init, AssembledFirst, UnbuiltFirst
<1>2. IInv /\ Built /\ [Next]_vars => Built'
  BY AssembledFirstStep, UnbuiltFirstStep
<1>3. IInv /\ IInv' /\ Built /\ [Next]_vars => [Lifecycle!Next]_(Lifecycle!vars)
  <2> SUFFICES ASSUME IInv, IInv', Built, [Next]_vars PROVE [Lifecycle!Next]_(Lifecycle!vars)
    OBVIOUS
  <2>1. CASE (\E p \in Photos : Api(p)) \/ Archive
    BY <2>1, ApiKeepsPromise
  <2>2. CASE \E s \in Slots : TaskStep(s)
    BY <2>2, TasksKeepPromise
  <2>3. CASE (\E m \in Messages : Publisher(m) \/ Autoclaim(m)) \/ Loops \/ WorkerCrash \/ UNCHANGED vars
    <3>1. UNCHANGED <<event, status, gen, dataVars>>
      BY <2>3 DEF photoVars, dataVars, outboxVars, groupVars, vars, Publisher, Take, HandOver, Settle, LetGo,
         Autoclaim, Loops, ReadBatch, DispatchFresh, DispatchReclaimed, WorkerCrash
    <3>2. QED
      BY <3>1, QuietSteps DEF Lifecycle!Next
  <2>4. QED
    BY <2>1, <2>2, <2>3 DEF Next
<1> HIDE DEF Built
<1>4. QED
  BY <1>1, <1>2, <1>3, Inductive, PTL DEF Spec, ImplementsLifecycle, Lifecycle!Spec

-----------------------------------------------------------------------------
(* The photos move as PublicAccess.tla takes them to.                       *)

\* A change of status that shows is to ready or deleted.
LEMMA ShownChanges ==
    ASSUME Typed, [Next]_vars, \A p \in Photos : status'[p] \in {"ready", "deleted"} => status'[p] = status[p]
    PROVE  Shown' = Shown
<1>1. ASSUME NEW p \in Photos PROVE Shown'[p] = Shown[p]
  BY StatusSteps DEF StatusStep, Shown
<1>2. QED
  BY <1>1 DEF Shown

LEMMA TasksServe ==
    ASSUME IInv, IInv', [Next]_vars, NEW s \in Slots, TaskStep(s)
    PROVE  [View!Next]_(View!vvars)
<1> USE DEF photoVars, dataVars, outboxVars, groupVars
<1> DEFINE m == tasks[s].job
<1>0. Typed /\ status \in [Photos -> Statuses] /\ event' = event
  BY DEF IInv, Typed, TypeOK, TaskStep, Processing, Claim, GetObject, PutDerivative, ExtractFaces,
     TerminalError, UpsertFaces, ReplaceFaces, MarkReady, Purging, RemoveObjects, RemoveVectors, RemoveRows,
     AttemptFails, Ending, MarkFailed, Ack, AckFailed, DeadLetter, DeadAck
<1>1. ASSUME UNCHANGED vectors, \A p \in Photos : status'[p] \in {"ready", "deleted"} => status'[p] = status[p]
      PROVE  UNCHANGED View!vvars
  BY <1>0, <1>1, ShownChanges DEF View!vvars
<1>2. CASE Claim(s) \/ MarkFailed(s)
  <2>1. m \in AllJobs /\ m.photo \in Photos
    BY <1>2, JobKinds DEF Claim, MarkFailed, At, IInv, Typed, KindOK, ProcessSteps
  <2>2. vectors' = vectors /\ \E new \in {"processing", "failed"} :
          status' = status \/ status' = [status EXCEPT ![m.photo] = new]
    BY <1>2 DEF Claim, MarkFailed
  <2> HIDE DEF m
  <2>3. QED
    BY <1>0, <1>1, <2>1, <2>2
<1>3. CASE MarkReady(s)
  <2>1. m \in AllJobs /\ m.photo \in Photos
    BY <1>3, JobKinds DEF MarkReady, At, IInv, Typed, KindOK, ProcessSteps
  <2>2. /\ vectors' = vectors
        /\ status' = status \/ (status[m.photo] = "processing" /\ status' = [status EXCEPT ![m.photo] = "ready"])
    BY <1>3 DEF MarkReady
  <2> HIDE DEF m
  <2>3. CASE status' = status
    BY <1>1, <2>2, <2>3
  <2>4. CASE status[m.photo] = "processing" /\ status' = [status EXCEPT ![m.photo] = "ready"]
    <3>1. Shown[m.photo] = "processing" /\ Shown' = [Shown EXCEPT ![m.photo] = "ready"]
      BY <1>0, <2>1, <2>4 DEF Shown
    <3>2. event = "active" => m.photo \in vectors
      BY <1>0, <2>1, <2>2, <2>4 DEF IInv, PhotoInv, ReadyIsComplete
    <3>3. View!MarkReady(m.photo)
      BY <1>0, <2>2, <3>1, <3>2 DEF View!MarkReady
    <3>4. QED
      BY <2>1, <3>3 DEF View!Next
  <2>5. QED
    BY <2>2, <2>3, <2>4
<1>4. CASE UpsertFaces(s)
  <2>0. tasks[s].pc \in AfterClaim /\ vectors' = vectors \cup {m.photo} /\ status' = status
    BY <1>4 DEF UpsertFaces, At, AfterClaim
  <2>1. m.photo \in Photos /\ vectors' = vectors \cup {m.photo} /\ status' = status
    BY <2>0, WorkIsHandedOut
  <2> HIDE DEF m
  <2>2. View!Index(m.photo)
    BY <1>0, <2>1 DEF View!Index, Shown
  <2>3. QED
    BY <2>1, <2>2 DEF View!Next
<1>5. CASE RemoveVectors(s) \/ RemoveRows(s)
  <2>1. m \in Purges /\ m \in committed /\ Scope(m) \subseteq Photos
    <3>1. Purging(s) /\ TypeOK /\ HeldIsRead
      BY <1>5 DEF Purging, IInv, Typed, TaskInv
    <3>2. m \in Purges /\ Read(m)
      BY <1>0, <3>1, PurgingStep, TaskMoves DEF HeldIsRead
    <3>3. QED
      BY <3>1, <3>2, ReadIsDelivered, ScopeIsPhotos
  <2>2. CASE RemoveVectors(s)
    <3>1. vectors' = vectors \ Scope(m) /\ Shown' = Shown
      BY <2>2 DEF RemoveVectors, Shown
    <3>2. ASSUME NEW p \in Scope(m) PROVE Shown[p] = "deleted" \/ event # "active"
      <4>1. CASE m = ArchiveMsg
        BY <2>1, <4>1 DEF IInv, PhotoInv, PurgesHaveTombstones
      <4>2. ASSUME NEW q \in Photos, m = DeleteMsg(q) PROVE Shown[p] = "deleted"
        BY <2>1, <3>2, <4>2, ScopeIsPhotos DEF IInv, PhotoInv, PurgesHaveTombstones, Shown
      <4>3. QED
        BY <2>1, <4>1, <4>2 DEF Purges
    <3>3. View!PurgeVectors(Scope(m))
      BY <1>0, <3>1, <3>2 DEF View!PurgeVectors
    <3>4. QED
      BY <2>1, <3>3 DEF View!Next
  <2>3. CASE RemoveRows(s)
    <3>1. vectors' = vectors /\ status' = IF m.type = "archive" THEN [p \in Photos |-> "deleted"] ELSE status
      BY <2>3 DEF RemoveRows
    <3>2. CASE m.type = "archive"
      <4>1. Shown' = [p \in DOMAIN Shown |-> IF p \in Photos THEN "deleted" ELSE Shown[p]]
        BY <3>1, <3>2 DEF Shown
      <4>2. View!Delete(Photos)
        BY <1>0, <3>1, <4>1 DEF View!Delete
      <4>3. QED
        BY <4>2 DEF View!Next
    <3>3. CASE m.type # "archive"
      BY <1>1, <3>1, <3>3
    <3>4. QED
      BY <3>2, <3>3
  <2>4. QED
    BY <1>5, <2>2, <2>3
<1>6. CASE \/ GetObject(s) \/ PutDerivative(s) \/ ExtractFaces(s) \/ TerminalError(s) \/ ReplaceFaces(s)
           \/ AttemptFails(s) \/ RemoveObjects(s) \/ Ack(s) \/ AckFailed(s) \/ DeadLetter(s) \/ DeadAck(s)
  <2>1. UNCHANGED <<status, vectors>>
    BY <1>6 DEF GetObject, PutDerivative, ExtractFaces, TerminalError, ReplaceFaces, AttemptFails,
       RemoveObjects, Ack, AckFailed, DeadLetter, DeadAck
  <2>2. QED
    BY <1>1, <2>1
<1>7. QED
  BY <1>2, <1>3, <1>4, <1>5, <1>6 DEF TaskStep, Processing, Purging, Ending

\* What PublicAccess.tla takes the photos of its event to do is what the API and the worker do
\* with them, for any number of photos, slots, generations, retries, faults and tombstones.
THEOREM PublicAccessIsServed == Spec => ServesPublicAccess
<1> USE DEF photoVars, dataVars, outboxVars, groupVars
<1>1. Init => View!Init
  BY DEF Init, View!Init, Shown
<1>2. IInv /\ IInv' /\ [Next]_vars => [View!Next]_(View!vvars)
  <2> SUFFICES ASSUME IInv, IInv', [Next]_vars PROVE [View!Next]_(View!vvars)
    OBVIOUS
  <2>0. Typed /\ status \in [Photos -> Statuses]
    BY DEF IInv, Typed, TypeOK
  <2>1. ASSUME NEW p \in Photos, Delete(p) PROVE View!Delete({p})
    <3>1. UNCHANGED <<vectors, event>> /\ status' = [status EXCEPT ![p] = "deleted"]
      BY <2>1 DEF Delete
    <3>2. Shown' = [q \in DOMAIN Shown |-> IF q \in {p} THEN "deleted" ELSE Shown[q]]
      BY <2>0, <3>1 DEF Shown
    <3>3. QED
      BY <3>1, <3>2 DEF View!Delete
  <2>2. ASSUME Archive PROVE View!Close
    <3>1. UNCHANGED <<status, vectors>> /\ (event = "active")' = FALSE
      BY <2>2 DEF Archive
    <3>2. QED
      BY <3>1 DEF View!Close, Shown
  <2>3. CASE \E p \in Photos : FinalizeCompleted(p) \/ Reprocess(p)
    <3>1. PICK p \in Photos : FinalizeCompleted(p) \/ Reprocess(p)
      BY <2>3
    <3>2. UNCHANGED <<vectors, event>> /\ status' = [status EXCEPT ![p] = "queued"]
      BY <3>1 DEF FinalizeCompleted, Reprocess, Enqueue
    <3>3. Shown' = Shown
      BY <2>0, <3>2, ShownChanges
    <3>4. QED
      BY <3>2, <3>3 DEF View!vvars
  <2>4. CASE \/ \E p \in Photos : CheckCompletion(p) \/ GiveUpCompletion(p) \/ AssembleObject(p)
             \/ (\E m \in Messages : Publisher(m) \/ Autoclaim(m)) \/ Loops \/ WorkerCrash \/ UNCHANGED vars
    <3>1. UNCHANGED <<event, status, vectors>>
      BY <2>4 DEF vars, CheckCompletion, GiveUpCompletion, AssembleObject, Publisher, Take, HandOver, Settle, LetGo,
         Autoclaim, Loops, ReadBatch, DispatchFresh, DispatchReclaimed, WorkerCrash
    <3>2. QED
      BY <3>1 DEF View!vvars, Shown
  <2>5. CASE \E s \in Slots : TaskStep(s)
    BY <2>5, TasksServe
  <2>6. QED
    BY <2>1, <2>2, <2>3, <2>4, <2>5 DEF Next, Api, View!Next
<1>3. QED
  BY <1>1, <1>2, Inductive, PTL DEF Spec, ServesPublicAccess, View!Spec

=============================================================================
