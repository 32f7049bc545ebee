---------------------------- MODULE PipelineProofs ----------------------------
(***************************************************************************)
(* The photo pipeline for any number of photos, slots, generations,        *)
(* retries and faults: its type invariant, that a ready photo is complete, *)
(* that verdicts belong to the current generation, that no job vanishes,   *)
(* and the two rules about how statuses may change.                        *)
(***************************************************************************)
EXTENDS PhotoPipeline, TLAPS

-----------------------------------------------------------------------------
(* The inductive invariant.                                                 *)

ProcessSteps == {"claim", "fetch", "thumbnail", "preview", "extract", "upsert", "faces", "ready", "fail", "failack"}
PurgeSteps   == {"objects", "vectors", "rows"}

\* A task is at a step of the kind of job it has.
KindOK == \A s \in Slots : /\ tasks[s].pc \in ProcessSteps => tasks[s].job \in AllJobs
                           /\ tasks[s].pc \in PurgeSteps => tasks[s].job \in Purges

Typed == TypeOK /\ KindOK

\* What the worker holds or owes, it has read from the stream.
HeldIsRead == /\ \A m \in pel : Read(m)
              /\ \A m \in Range(fresh) : Read(m)
              /\ reclaimed # None => Read(reclaimed)
              /\ \A s \in Slots : tasks[s].pc # "idle" => Read(tasks[s].job)

\* A purge is committed by its tombstone only.
PurgesHaveTombstones == /\ \A p \in Photos : DeleteMsg(p) \in committed => status[p] = "deleted"
                        /\ ArchiveMsg \in committed => event = "archived"

\* No job is of a generation still to come.
NoFutureJobs == \A p \in Photos : \A g \in 1..MaxGen : ProcessMsg(p, g) \in committed => g <= gen[p]

Alive(p) == status[p] # "deleted" /\ event = "active"

\* What an attempt that has come to step pc has written.
Written(p, pc) ==
    /\ pc \in {"thumbnail", "preview", "extract", "upsert", "faces", "ready"} => "original" \in objects[p]
    /\ pc \in {"preview", "extract", "upsert", "faces", "ready"} => "thumbnail" \in objects[p]
    /\ pc \in {"extract", "upsert", "faces", "ready"} => "preview" \in objects[p]
    /\ pc \in {"faces", "ready"} => p \in vectors
    /\ pc = "ready" => p \in faceRows

\* An attempt on a photo that lives has written what its earlier steps write.
TasksHaveWritten == \A s \in Slots :
    tasks[s].pc \in AfterClaim /\ Alive(tasks[s].job.photo) => Written(tasks[s].job.photo, tasks[s].pc)

\* A photo whose current job is past its claim is no longer queued.
ClaimedIsNotQueued == \A s \in Slots : LET m == tasks[s].job IN
    tasks[s].pc \in AfterClaim /\ gen[m.photo] = m.gen => status[m.photo] # "queued"

\* A job about to be acknowledged leaves no photo undecided.
AckedIsDecided == \A s \in Slots : LET m == tasks[s].job IN
    tasks[s].pc \in {"ack", "failack"} /\ m \in AllJobs /\ gen[m.photo] = m.gen =>
        status[m.photo] \notin {"queued", "processing"}

\* A message is in the dead-letter stream before it is acknowledged.
DeadIsKept == \A s \in Slots : tasks[s].pc = "deadack" => tasks[s].job \in dlq

\* The job of an undecided photo is committed, settled only after it entered the stream,
\* and pending or given up once it was read.
Accounted == \A p \in Photos : LET m == ProcessMsg(p, gen[p]) IN
    status[p] \in {"queued", "processing"} /\ event = "active" =>
        /\ gen[p] > 0
        /\ m \in committed
        /\ m \in settled => m \in Range(delivered)
        /\ Read(m) => m \in pel \cup dlq

TaskInv == HeldIsRead /\ TasksHaveWritten /\ ClaimedIsNotQueued /\ AckedIsDecided /\ DeadIsKept

PhotoInv == /\ PurgesHaveTombstones
            /\ NoFutureJobs
            /\ ReadyIsComplete
            /\ DecidedByCurrentGeneration
            /\ Accounted

IInv == Typed /\ TaskInv /\ PhotoInv

-----------------------------------------------------------------------------
(* Sequences.                                                               *)

\* The elements of a prefix of a sequence.
LEMMA PrefixRange ==
    ASSUME NEW S, NEW d \in Seq(S), NEW c \in 0..Len(d), NEW m
    PROVE  m \in Range(SubSeq(d, 1, c)) <=> \E i \in 1..c : d[i] = m
<1> DEFINE t == SubSeq(d, 1, c)
<1>1. Len(t) = c /\ DOMAIN t = 1..c /\ \A i \in 1..c : t[i] = d[i]
  OBVIOUS
<1>2. QED
  BY <1>1 DEF Range

\* What was read is a prefix of the stream.
LEMMA ReadPrefix ==
    ASSUME TypeOK, NEW m
    PROVE  Read(m) <=> \E i \in 1..cursor : delivered[i] = m
<1>1. delivered \in Seq(committed) /\ cursor \in 0..Len(delivered)
  BY DEF TypeOK
<1>2. QED
  BY <1>1, PrefixRange DEF Read

\* What was read is in the stream, and so committed.
LEMMA ReadIsDelivered ==
    ASSUME TypeOK, NEW m, Read(m)
    PROVE  m \in Range(delivered) /\ m \in committed
<1>1. PICK i \in 1..cursor : delivered[i] = m
  BY ReadPrefix
<1>2. delivered \in Seq(committed) /\ cursor \in 0..Len(delivered) /\ Len(delivered) \in Nat
  BY DEF TypeOK
<1>3. i \in DOMAIN delivered
  BY <1>2
<1>4. QED
  BY <1>1, <1>2, <1>3 DEF Range

\* What was read stays read while the stream and the cursor only grow.
LEMMA ReadGrows ==
    ASSUME TypeOK, TypeOK', cursor <= cursor',
           delivered' = delivered \/ \E x : delivered' = Append(delivered, x),
           NEW m, Read(m)
    PROVE  Read(m)'
<1>1. PICK i \in 1..cursor : delivered[i] = m
  BY ReadPrefix
<1>2. /\ delivered \in Seq(committed) /\ cursor \in 0..Len(delivered) /\ Len(delivered) \in Nat
      /\ cursor' \in Nat
  BY DEF TypeOK
<1>3. i \in 1..cursor' /\ delivered'[i] = m
  BY <1>1, <1>2
<1>4. Read(m)' <=> \E j \in 1..cursor' : delivered'[j] = m
  <2>1. delivered' \in Seq(committed') /\ cursor' \in 0..Len(delivered')
    BY DEF TypeOK
  <2>2. QED
    BY <2>1, PrefixRange DEF Read
<1>5. QED
  BY <1>3, <1>4

-----------------------------------------------------------------------------
(* The tasks of the worker.                                                 *)

TasksOK == tasks \in [Slots -> Task \cup {Idle}]

\* A slot that is not idle has a task.
LEMMA BusySlot ==
    ASSUME TasksOK, NEW s \in Slots, tasks[s].pc # "idle"
    PROVE  tasks[s] \in Task /\ tasks[s].job \in Messages /\ tasks[s].pc \in Steps
BY DEF TasksOK, Idle, Task

\* Everybody else's task stays, and s goes on with its job at step pc.
MovesTo(s, pc) == /\ tasks'[s].pc = pc /\ tasks'[s].job = tasks[s].job
                  /\ \A t \in Slots \ {s} : tasks'[t] = tasks[t]

LEMMA GotoMoves ==
    ASSUME TasksOK, NEW s \in Slots, tasks[s].pc # "idle", NEW pc \in Steps, Goto(s, pc) \/ Leave(s, pc)
    PROVE  TasksOK' /\ MovesTo(s, pc)
<1>0. 0 \in 0..MaxRetries
  BY BoundsAssumption
<1>1. tasks[s] \in Task
  BY BusySlot
<1>2. CASE Goto(s, pc)
  <2> DEFINE r == [tasks[s] EXCEPT !.pc = pc]
  <2>1. tasks' = [tasks EXCEPT ![s] = r]
    BY <1>2 DEF Goto
  <2>2. r \in Task /\ r.pc = pc /\ r.job = tasks[s].job
    BY <1>1 DEF Task
  <2>3. QED
    BY <2>1, <2>2 DEF TasksOK, MovesTo
<1>3. CASE Leave(s, pc)
  <2> DEFINE q == [tasks[s] EXCEPT !.pc = pc]
             r == [q EXCEPT !.attempt = 0]
  <2>1. tasks' = [tasks EXCEPT ![s] = r]
    BY <1>3 DEF Leave, TasksOK
  <2>2. q \in Task /\ q.pc = pc /\ q.job = tasks[s].job
    BY <1>1 DEF Task
  <2> HIDE DEF q
  <2>3. r \in Task /\ r.pc = pc /\ r.job = tasks[s].job
    BY <1>0, <2>2 DEF Task
  <2>4. QED
    BY <2>1, <2>3 DEF TasksOK, MovesTo
<1>4. QED
  BY <1>2, <1>3

\* A retry starts the job over or gives it up.
LEMMA RetryMoves ==
    ASSUME TasksOK, NEW s \in Slots, tasks[s].pc # "idle", Retry(s)
    PROVE  /\ TasksOK'
           /\ \E pc \in {FirstStep(tasks[s].job), "deadletter"} : MovesTo(s, pc)
<1>1. tasks[s] \in Task /\ FirstStep(tasks[s].job) \in Steps
  BY BusySlot DEF FirstStep, Steps
<1>2. CASE tasks[s].attempt < MaxRetries
  <2> DEFINE q == [tasks[s] EXCEPT !.pc = FirstStep(tasks[s].job)]
             r == [q EXCEPT !.attempt = tasks[s].attempt + 1]
  <2>1. tasks' = [tasks EXCEPT ![s] = r]
    BY <1>2 DEF Retry, TasksOK
  <2>2. q \in Task /\ q.pc = FirstStep(tasks[s].job) /\ q.job = tasks[s].job
    BY <1>1 DEF Task
  <2>3. tasks[s].attempt + 1 \in 0..MaxRetries
    BY <1>1, <1>2, BoundsAssumption DEF Task
  <2> HIDE DEF q
  <2>4. r \in Task /\ r.pc = FirstStep(tasks[s].job) /\ r.job = tasks[s].job
    BY <2>2, <2>3 DEF Task
  <2>5. QED
    BY <2>1, <2>4 DEF TasksOK, MovesTo
<1>3. CASE ~(tasks[s].attempt < MaxRetries)
  <2>1. Leave(s, "deadletter")
    BY <1>3 DEF Retry
  <2>2. QED
    BY <2>1, GotoMoves DEF Steps
<1>4. QED
  BY <1>2, <1>3

\* A slot that is released is idle.
LEMMA ReleaseMoves ==
    ASSUME TasksOK, NEW s \in Slots, Release(s)
    PROVE  TasksOK' /\ tasks'[s] = Idle /\ \A t \in Slots \ {s} : tasks'[t] = tasks[t]
BY DEF TasksOK, Release

\* A started slot is at the first step of its job.
LEMMA StartMoves ==
    ASSUME TasksOK, NEW s \in Slots, NEW m \in Messages, Start(s, m)
    PROVE  /\ TasksOK'
           /\ tasks'[s].job = m /\ tasks'[s].pc = FirstStep(m)
           /\ \A t \in Slots \ {s} : tasks'[t] = tasks[t]
<1> DEFINE r == [job |-> m, pc |-> FirstStep(m), attempt |-> 1]
<1>1. r \in Task
  BY BoundsAssumption DEF Task, FirstStep, Steps
<1>2. QED
  BY <1>1 DEF TasksOK, Start

\* Processing jobs and purges are different messages, told apart by their type.
LEMMA JobKinds ==
    /\ \A m \in Messages : m.type = "process" <=> m \in AllJobs
    /\ \A m \in Messages : m \in Purges <=> m \notin AllJobs
    /\ \A m \in AllJobs : m.photo \in Photos /\ m.gen \in 1..MaxGen /\ m = ProcessMsg(m.photo, m.gen)
BY DEF Messages, AllJobs, Jobs, Purges, ProcessMsg, DeleteMsg, ArchiveMsg

-----------------------------------------------------------------------------
(* Types.                                                                   *)

\* The types of everything but the worker's tasks.
SharedOK ==
    /\ event \in {"active", "archived"}
    /\ status \in [Photos -> Statuses]
    /\ gen \in [Photos -> 0..MaxGen]
    /\ upload \in [Photos -> {"open", "checked", "assembled"}]
    /\ objects \in [Photos -> SUBSET Objects]
    /\ vectors \subseteq Photos
    /\ faceRows \subseteq Photos
    /\ committed \subseteq Messages
    /\ settled \subseteq committed
    /\ claimed \subseteq committed
    /\ delivered \in Seq(committed)
    /\ cursor \in 0..Len(delivered)
    /\ pel \subseteq Messages
    /\ fresh \in Seq(Messages)
    /\ reclaimed \in Messages \cup {None}
    /\ dlq \subseteq Messages
    /\ faults \in 0..MaxFaults

LEMMA TypeParts == TypeOK <=> SharedOK /\ TasksOK
BY DEF TypeOK, SharedOK, TasksOK

\* A longer stream of more messages is still well typed.
LEMMA StreamTypes ==
    ASSUME NEW S, NEW T, S \subseteq T, NEW d \in Seq(S), NEW c \in 0..Len(d)
    PROVE  /\ d \in Seq(T)
           /\ \A m \in S : /\ Append(d, m) \in Seq(S) /\ c \in 0..Len(Append(d, m))
                           /\ Range(Append(d, m)) = Range(d) \cup {m}
<1>1. d \in Seq(T)
  OBVIOUS
<1>2. ASSUME NEW m \in S
      PROVE  /\ Append(d, m) \in Seq(S) /\ c \in 0..Len(Append(d, m))
             /\ Range(Append(d, m)) = Range(d) \cup {m}
  <2> DEFINE e == Append(d, m)
  <2>1. /\ e \in Seq(S) /\ Len(d) \in Nat /\ Len(e) = Len(d) + 1
        /\ DOMAIN d = 1..Len(d) /\ DOMAIN e = 1..Len(d) + 1
        /\ e[Len(d) + 1] = m
        /\ \A i \in 1..Len(d) : e[i] = d[i]
    OBVIOUS
  <2>2. c \in 0..Len(e)
    BY <2>1
  <2>3. Len(d) + 1 \in DOMAIN e /\ \A i \in DOMAIN d : i \in DOMAIN e /\ e[i] = d[i]
    BY <2>1
  <2>4. \A i \in DOMAIN e : i \in DOMAIN d \/ i = Len(d) + 1
    BY <2>1
  <2> HIDE DEF e
  <2>5. Range(e) = Range(d) \cup {m}
    BY <2>1, <2>3, <2>4 DEF Range
  <2>6. QED
    BY <2>1, <2>2, <2>5 DEF e
<1>3. QED
  BY <1>1, <1>2

\* XREADGROUP takes the next entries: they become pending and fresh, and the cursor passes them.
LEMMA ReadBatchReads ==
    ASSUME TypeOK, ReadBatch
    PROVE  /\ cursor' \in 0..Len(delivered) /\ cursor <= cursor'
           /\ fresh' \in Seq(committed)
           /\ \A m : m \in Range(fresh') <=> \E i \in cursor + 1..cursor' : delivered[i] = m
           /\ pel' = pel \cup Range(fresh')
<1>1. delivered \in Seq(committed) /\ cursor \in 0..Len(delivered) /\ Len(delivered) \in Nat
  BY DEF TypeOK
<1> DEFINE upto == Smaller(cursor + BatchSize, Len(delivered))
           t == SubSeq(delivered, cursor + 1, upto)
<1>2. fresh' = t /\ cursor' = upto /\ pel' = pel \cup Range(fresh') /\ cursor < Len(delivered)
  BY DEF ReadBatch
<1>3. upto \in cursor + 1..Len(delivered)
  BY <1>1, <1>2, BoundsAssumption DEF Smaller
<1> HIDE DEF upto
<1>4. /\ t \in Seq(committed) /\ Len(t) = upto - cursor /\ DOMAIN t = 1..upto - cursor
      /\ \A i \in 1..upto - cursor : t[i] = delivered[cursor + i]
  BY <1>1, <1>3
<1> HIDE DEF t
<1>5. ASSUME NEW m PROVE m \in Range(t) <=> \E i \in cursor + 1..upto : delivered[i] = m
  <2>1. ASSUME m \in Range(t) PROVE \E i \in cursor + 1..upto : delivered[i] = m
    <3>1. PICK j \in 1..upto - cursor : t[j] = m
      BY <1>4, <2>1 DEF Range
    <3>2. cursor + j \in cursor + 1..upto /\ delivered[cursor + j] = m
      BY <1>1, <1>3, <1>4, <3>1
    <3>3. QED
      BY <3>2
  <2>2. ASSUME NEW i \in cursor + 1..upto, delivered[i] = m PROVE m \in Range(t)
    <3>1. i - cursor \in 1..upto - cursor /\ t[i - cursor] = m
      BY <1>1, <1>3, <1>4, <2>2
    <3>2. QED
      BY <1>4, <3>1 DEF Range
  <2>3. QED
    BY <2>1, <2>2
<1>6. QED
  BY <1>1, <1>2, <1>3, <1>4, <1>5

\* A processing step keeps the job's kind, and so do its retries.
LEMMA ProcessingStep ==
    ASSUME Typed, NEW s \in Slots, Processing(s)
    PROVE  /\ SharedOK' /\ TasksOK'
           /\ tasks[s].job \in AllJobs /\ tasks[s].job.photo \in Photos
           /\ \E pc \in {"claim", "fetch", "thumbnail", "preview", "extract", "upsert", "faces", "ready",
                         "fail", "ack", "deadletter"} : MovesTo(s, pc)
<1> USE DEF SharedOK, photoVars, dataVars, outboxVars, groupVars
<1>0. SharedOK /\ TasksOK /\ KindOK
  BY TypeParts DEF Typed
<1>1. tasks[s].pc \in ProcessSteps \ {"fail", "failack"}
  BY DEF Processing, Claim, GetObject, PutDerivative, ExtractFaces, TerminalError, UpsertFaces,
         ReplaceFaces, MarkReady, At, ProcessSteps
<1>2. /\ tasks[s].pc # "idle"
      /\ tasks[s].job \in AllJobs /\ tasks[s].job \in Messages /\ tasks[s].job.photo \in Photos
      /\ FirstStep(tasks[s].job) = "claim"
  BY <1>0, <1>1, BusySlot, JobKinds DEF KindOK, ProcessSteps, FirstStep
<1>3. \A pc \in Steps : Goto(s, pc) \/ Leave(s, pc) => TasksOK' /\ MovesTo(s, pc)
  BY <1>0, <1>2, GotoMoves
<1>4. Retry(s) => TasksOK' /\ \E pc \in {"claim", "deadletter"} : MovesTo(s, pc)
  BY <1>0, <1>2, RetryMoves
<1> DEFINE m == tasks[s].job
<1>5. CASE Claim(s)
  <2>1. SharedOK'
    BY <1>0, <1>5 DEF Claim, Statuses
  <2>2. Goto(s, "fetch") \/ Goto(s, "ack") \/ Retry(s)
    BY <1>5 DEF Claim
  <2>3. QED
    BY <1>2, <1>3, <1>4, <2>1, <2>2 DEF Steps
<1>6. CASE GetObject(s)
  BY <1>0, <1>2, <1>3, <1>4, <1>6 DEF GetObject, After, Steps
<1>7. CASE PutDerivative(s)
  <2>1. objects' \in [Photos -> SUBSET Objects]
    BY <1>0, <1>7 DEF PutDerivative, Objects
  <2>2. Goto(s, "preview") \/ Goto(s, "extract")
    BY <1>7 DEF PutDerivative, After
  <2>3. QED
    BY <1>0, <1>2, <1>3, <1>7, <2>1, <2>2 DEF PutDerivative, Steps
<1>8. CASE ExtractFaces(s)
  BY <1>0, <1>2, <1>3, <1>8 DEF ExtractFaces, After, Steps
<1>9. CASE TerminalError(s)
  BY <1>0, <1>2, <1>3, <1>9 DEF TerminalError, Steps
<1>10. CASE UpsertFaces(s)
  BY <1>0, <1>2, <1>3, <1>10 DEF UpsertFaces, After, Steps
<1>11. CASE ReplaceFaces(s)
  BY <1>0, <1>2, <1>3, <1>11 DEF ReplaceFaces, After, Steps
<1>12. CASE MarkReady(s)
  <2>1. SharedOK'
    BY <1>0, <1>12 DEF MarkReady, Statuses
  <2>2. Goto(s, "ack") \/ Retry(s)
    BY <1>12 DEF MarkReady
  <2>3. QED
    BY <1>2, <1>3, <1>4, <2>1, <2>2 DEF Steps
<1>13. QED
  BY <1>5, <1>6, <1>7, <1>8, <1>9, <1>10, <1>11, <1>12 DEF Processing

\* So does a step of a purge.
LEMMA PurgingStep ==
    ASSUME Typed, NEW s \in Slots, Purging(s)
    PROVE  /\ SharedOK' /\ TasksOK'
           /\ tasks[s].job \in Purges
           /\ \E pc \in {"objects", "vectors", "rows", "ack", "deadletter"} : MovesTo(s, pc)
<1> USE DEF SharedOK, photoVars, dataVars, outboxVars, groupVars
<1>0. SharedOK /\ TasksOK /\ KindOK
  BY TypeParts DEF Typed
<1>1. tasks[s].pc \in PurgeSteps
  BY DEF Purging, RemoveObjects, RemoveVectors, RemoveRows, At, PurgeSteps
<1>2. /\ tasks[s].pc # "idle"
      /\ tasks[s].job \in Purges /\ tasks[s].job \in Messages
      /\ FirstStep(tasks[s].job) = "objects"
  BY <1>0, <1>1, BusySlot, JobKinds DEF KindOK, PurgeSteps, FirstStep
<1>3. \A pc \in Steps : Goto(s, pc) \/ Leave(s, pc) => TasksOK' /\ MovesTo(s, pc)
  BY <1>0, <1>2, GotoMoves
<1>4. Retry(s) => TasksOK' /\ \E pc \in {"objects", "deadletter"} : MovesTo(s, pc)
  BY <1>0, <1>2, RetryMoves
<1>5. CASE RemoveObjects(s)
  <2> DEFINE scope == Scope(tasks[s].job)
  <2>1. PICK left \in [scope -> SUBSET Objects] :
          /\ objects' = [p \in Photos |-> IF p \in scope THEN left[p] ELSE objects[p]]
          /\ IF \A p \in scope : left[p] = {} THEN Goto(s, "vectors") ELSE Retry(s)
    BY <1>5 DEF RemoveObjects
  <2>2. objects' \in [Photos -> SUBSET Objects]
    <3> HIDE DEF scope
    <3> QED
      BY <1>0, <2>1
  <2>3. Goto(s, "vectors") \/ Retry(s)
    BY <2>1
  <2>4. QED
    BY <1>0, <1>2, <1>3, <1>4, <1>5, <2>2, <2>3 DEF RemoveObjects, Steps
<1>6. CASE RemoveVectors(s)
  BY <1>0, <1>2, <1>3, <1>6 DEF RemoveVectors, Steps
<1>7. CASE RemoveRows(s)
  <2>1. SharedOK'
    BY <1>0, <1>7 DEF RemoveRows, Statuses
  <2>2. Goto(s, "ack")
    BY <1>7 DEF RemoveRows
  <2>3. QED
    BY <1>2, <1>3, <2>1, <2>2 DEF Steps
<1>8. QED
  BY <1>5, <1>6, <1>7 DEF Purging

\* The end of a job releases its slot, or goes on towards the dead-letter stream.
LEMMA EndingStep ==
    ASSUME Typed, NEW s \in Slots, Ending(s)
    PROVE  /\ SharedOK' /\ TasksOK'
           /\ tasks[s].job \in Messages
           /\ tasks[s].pc = "fail" => tasks[s].job \in AllJobs
           /\ \/ tasks'[s] = Idle /\ \A t \in Slots \ {s} : tasks'[t] = tasks[t]
              \/ \E pc \in {FirstStep(tasks[s].job), "deadletter", "deadack"} : MovesTo(s, pc)
              \/ tasks[s].pc = "fail" /\ MovesTo(s, "failack")
<1> USE DEF SharedOK, photoVars, dataVars, outboxVars, groupVars
<1>0. SharedOK /\ TasksOK /\ KindOK
  BY TypeParts DEF Typed
<1>1. tasks[s].pc \in {"fail", "ack", "failack", "deadletter", "deadack"}
  BY DEF Ending, Ack, MarkFailed, AckFailed, DeadLetter, DeadAck, At
<1>2. /\ tasks[s].pc # "idle" /\ tasks[s].job \in Messages
      /\ tasks[s].pc = "fail" => tasks[s].job \in AllJobs
  BY <1>0, <1>1, BusySlot DEF KindOK, ProcessSteps
<1>3. \A pc \in Steps : Goto(s, pc) => TasksOK' /\ MovesTo(s, pc)
  BY <1>0, <1>2, GotoMoves
<1>4. Retry(s) => TasksOK' /\ \E pc \in {FirstStep(tasks[s].job), "deadletter"} : MovesTo(s, pc)
  BY <1>0, <1>2, RetryMoves
<1>5. Release(s) => TasksOK' /\ tasks'[s] = Idle /\ \A t \in Slots \ {s} : tasks'[t] = tasks[t]
  BY <1>0, ReleaseMoves
<1>6. CASE Ack(s)
  BY <1>0, <1>2, <1>4, <1>5, <1>6 DEF Ack, At
<1>7. CASE MarkFailed(s)
  <2>1. SharedOK'
    BY <1>0, <1>7 DEF MarkFailed, Statuses
  <2>2. tasks[s].pc = "fail" /\ (Goto(s, "failack") \/ Goto(s, "deadletter"))
    BY <1>7 DEF MarkFailed, At
  <2>3. QED
    BY <1>2, <1>3, <2>1, <2>2 DEF Steps
<1>8. CASE AckFailed(s)
  BY <1>0, <1>2, <1>3, <1>5, <1>8 DEF AckFailed, At, Steps
<1>9. CASE DeadLetter(s)
  <2>1. SharedOK'
    BY <1>0, <1>2, <1>9, BoundsAssumption DEF DeadLetter, Fault
  <2>2. Goto(s, "deadack") \/ Release(s)
    BY <1>9 DEF DeadLetter
  <2>3. QED
    BY <1>2, <1>3, <1>5, <2>1, <2>2 DEF Steps
<1>10. CASE DeadAck(s)
  <2>1. SharedOK'
    BY <1>0, <1>2, <1>10, BoundsAssumption DEF DeadAck, Fault
  <2>2. QED
    BY <1>2, <1>5, <1>10, <2>1 DEF DeadAck
<1>11. QED
  BY <1>6, <1>7, <1>8, <1>9, <1>10 DEF Ending

\* An attempt that raises is retried or given up.
LEMMA AttemptFailsStep ==
    ASSUME Typed, NEW s \in Slots, AttemptFails(s)
    PROVE  /\ SharedOK' /\ TasksOK'
           /\ tasks[s].pc # "idle" /\ tasks[s].job \in Messages
           /\ \E pc \in {FirstStep(tasks[s].job), "deadletter"} : MovesTo(s, pc)
<1>0. SharedOK /\ TasksOK
  BY TypeParts DEF Typed
<1>1. tasks[s].attempt > 0 /\ Retry(s)
  BY DEF AttemptFails
<1>2. tasks[s].pc # "idle"
  BY <1>0, <1>1 DEF TasksOK, Idle, Task, Steps
<1>3. TasksOK' /\ \E pc \in {FirstStep(tasks[s].job), "deadletter"} : MovesTo(s, pc)
  BY <1>0, <1>1, <1>2, RetryMoves
<1>4. SharedOK'
  BY <1>0 DEF SharedOK, AttemptFails, photoVars, dataVars, outboxVars, groupVars
<1>5. QED
  BY <1>0, <1>2, <1>3, <1>4, BusySlot

\* A move to a step of the job's own kind, or of no kind, keeps tasks and jobs together.
LEMMA KindKept ==
    ASSUME Typed, TasksOK', NEW s \in Slots,
           \/ tasks'[s] = Idle /\ \A t \in Slots \ {s} : tasks'[t] = tasks[t]
           \/ \E pc : /\ MovesTo(s, pc)
                      /\ pc \in ProcessSteps => tasks[s].job \in AllJobs
                      /\ pc \in PurgeSteps => tasks[s].job \in Purges
    PROVE  KindOK'
BY DEF Typed, KindOK, MovesTo, Idle, ProcessSteps, PurgeSteps

\* Every step of a task keeps the types.
LEMMA TaskStepTyped ==
    ASSUME Typed, NEW s \in Slots, TaskStep(s)
    PROVE  Typed'
<1>0. SharedOK' /\ TasksOK' => TypeOK'
  BY DEF TypeOK, SharedOK, TasksOK
<1>1. \A m \in Messages : /\ FirstStep(m) \in ProcessSteps => m \in AllJobs
                          /\ FirstStep(m) \in PurgeSteps => m \in Purges
  BY JobKinds DEF FirstStep, ProcessSteps, PurgeSteps
<1>2. CASE Processing(s)
  <2>1. KindOK'
    BY <1>2, ProcessingStep, KindKept DEF PurgeSteps
  <2>2. QED
    BY <1>0, <1>2, <2>1, ProcessingStep DEF Typed
<1>3. CASE Purging(s)
  <2>1. KindOK'
    BY <1>3, PurgingStep, KindKept DEF ProcessSteps
  <2>2. QED
    BY <1>0, <1>3, <2>1, PurgingStep DEF Typed
<1>4. CASE AttemptFails(s)
  <2>1. KindOK'
    BY <1>1, <1>4, AttemptFailsStep, KindKept DEF ProcessSteps, PurgeSteps
  <2>2. QED
    BY <1>0, <1>4, <2>1, AttemptFailsStep DEF Typed
<1>5. CASE Ending(s)
  <2>1. KindOK'
    BY <1>1, <1>5, EndingStep, KindKept DEF ProcessSteps, PurgeSteps
  <2>2. QED
    BY <1>0, <1>5, <2>1, EndingStep DEF Typed
<1>6. QED
  BY <1>2, <1>3, <1>4, <1>5 DEF TaskStep

\* The API's transactions keep the types; what they commit is new, and is a message.
LEMMA ApiTyped ==
    ASSUME Typed, (\E p \in Photos : Api(p)) \/ Archive
    PROVE  Typed'
<1> USE DEF SharedOK, photoVars, dataVars, outboxVars, groupVars
<1>0. SharedOK /\ TasksOK /\ KindOK /\ (SharedOK' /\ TasksOK' => TypeOK')
  BY TypeParts DEF Typed, TypeOK, TasksOK
<1>1. ASSUME UNCHANGED tasks PROVE TasksOK' /\ KindOK'
  BY <1>0, <1>1 DEF TasksOK, KindOK
<1>2. ASSUME NEW C \in SUBSET Messages, NEW W, Queue!Commit(C, W)
      PROVE  /\ committed' \subseteq Messages /\ settled' \subseteq committed' /\ claimed' \subseteq committed'
             /\ delivered' \in Seq(committed') /\ delivered' = delivered
  BY <1>0, <1>2, StreamTypes DEF Queue!Commit
<1>3. ASSUME NEW p \in Photos, CheckCompletion(p) \/ GiveUpCompletion(p) PROVE Typed'
  BY <1>0, <1>1, <1>3 DEF CheckCompletion, GiveUpCompletion, Typed
<1>4. ASSUME NEW p \in Photos, AssembleObject(p) PROVE Typed'
  <2>1. objects' \in [Photos -> SUBSET Objects]
    BY <1>0, <1>4 DEF AssembleObject, Objects
  <2>2. QED
    BY <1>0, <1>1, <1>4, <2>1 DEF AssembleObject, Typed
<1>5. ASSUME NEW p \in Photos, Enqueue(p)
      PROVE  /\ status' \in [Photos -> Statuses] /\ gen' \in [Photos -> 0..MaxGen]
             /\ committed' \subseteq Messages /\ settled' \subseteq committed' /\ claimed' \subseteq committed'
             /\ delivered' \in Seq(committed') /\ delivered' = delivered
  <2>1. gen[p] + 1 \in 1..MaxGen
    BY <1>0, <1>5, BoundsAssumption DEF Enqueue
  <2>2. {ProcessMsg(p, gen[p] + 1)} \in SUBSET Messages
    BY <2>1 DEF Messages, AllJobs, Jobs
  <2>3. QED
    BY <1>0, <1>2, <1>5, <2>1, <2>2 DEF Enqueue, Statuses
<1>6. ASSUME NEW p \in Photos, FinalizeCompleted(p) \/ Reprocess(p) PROVE Typed'
  BY <1>0, <1>1, <1>5, <1>6 DEF FinalizeCompleted, Reprocess, Typed
<1>7. ASSUME NEW p \in Photos, Delete(p) PROVE Typed'
  <2>1. {DeleteMsg(p)} \in SUBSET Messages
    BY DEF Messages, Purges
  <2>2. QED
    BY <1>0, <1>1, <1>2, <1>7, <2>1 DEF Delete, Statuses, Typed
<1>8. CASE Archive
  <2>1. {ArchiveMsg} \in SUBSET Messages
    BY DEF Messages, Purges
  <2>2. QED
    BY <1>0, <1>1, <1>2, <1>8, <2>1 DEF Archive, Typed
<1>9. QED
  BY <1>3, <1>4, <1>6, <1>7, <1>8 DEF Api

\* A publisher keeps the types.
LEMMA PublisherTyped ==
    ASSUME Typed, NEW m \in Messages, Publisher(m)
    PROVE  Typed'
<1> USE DEF SharedOK, photoVars, dataVars, outboxVars, groupVars
<1>0. SharedOK /\ TasksOK /\ KindOK /\ (SharedOK' /\ TasksOK' => TypeOK')
  BY TypeParts DEF Typed, TypeOK, TasksOK
<1>1. UNCHANGED tasks /\ UNCHANGED <<photoVars, dataVars, groupVars>> /\ committed' = committed
  BY DEF Publisher, Take, HandOver, Settle, LetGo, Queue!Take, Queue!Deliver, Queue!Finish
<1>2. TasksOK' /\ KindOK'
  BY <1>0, <1>1 DEF TasksOK, KindOK
<1>3. CASE Take(m)
  BY <1>0, <1>2, <1>3 DEF Take, Queue!Take, Typed
<1>4. CASE HandOver(m)
  <2>1. m \in committed /\ delivered' = Append(delivered, m)
    BY <1>0, <1>4 DEF HandOver, Queue!Deliver
  <2>2. delivered' \in Seq(committed) /\ cursor \in 0..Len(delivered')
    BY <1>0, <2>1, StreamTypes
  <2>3. QED
    BY <1>0, <1>1, <1>2, <1>4, <2>2 DEF HandOver, Queue!Deliver, Typed
<1>5. CASE Settle(m)
  BY <1>0, <1>2, <1>5 DEF Settle, Queue!Finish, Typed
<1>6. CASE LetGo(m)
  BY <1>0, <1>2, <1>6, BoundsAssumption DEF LetGo, Queue!Finish, Fault, Typed
<1>7. QED
  BY <1>3, <1>4, <1>5, <1>6 DEF Publisher

\* The consumer's loops and a crash keep the types.
LEMMA LoopsTyped ==
    ASSUME Typed, Loops \/ WorkerCrash \/ \E m \in Messages : Autoclaim(m)
    PROVE  Typed'
<1> USE DEF SharedOK, photoVars, dataVars, outboxVars, groupVars
<1>0. SharedOK /\ TasksOK /\ KindOK /\ TypeOK /\ (SharedOK' /\ TasksOK' => TypeOK')
  BY TypeParts DEF Typed, TypeOK, TasksOK
<1>1. ASSUME UNCHANGED tasks PROVE TasksOK' /\ KindOK'
  BY <1>0, <1>1 DEF TasksOK, KindOK
<1>2. ASSUME NEW s \in Slots, NEW m \in Messages, Start(s, m) PROVE TasksOK' /\ KindOK'
  <2>1. /\ TasksOK' /\ tasks'[s].job = m /\ tasks'[s].pc = FirstStep(m)
        /\ \A t \in Slots \ {s} : tasks'[t] = tasks[t]
    BY <1>0, <1>2, StartMoves
  <2>2. /\ FirstStep(m) \in ProcessSteps => m \in AllJobs
        /\ FirstStep(m) \in PurgeSteps => m \in Purges
    BY JobKinds DEF FirstStep, ProcessSteps, PurgeSteps
  <2>3. QED
    BY <1>0, <2>1, <2>2 DEF KindOK
<1>3. CASE ReadBatch
  <2>1. fresh' \in Seq(Messages) /\ pel' \subseteq Messages
    <3>1. fresh' \in Seq(committed) /\ pel' = pel \cup Range(fresh')
      BY <1>0, <1>3, ReadBatchReads
    <3>2. QED
      BY <1>0, <3>1 DEF Range
  <2>2. QED
    BY <1>0, <1>1, <1>3, <2>1, ReadBatchReads DEF ReadBatch, Typed
<1>4. ASSUME NEW m \in Messages, Autoclaim(m) PROVE Typed'
  BY <1>0, <1>1, <1>4, BoundsAssumption DEF Autoclaim, Fault, Typed
<1>5. CASE DispatchFresh
  <2>1. Head(fresh) \in Messages /\ fresh' \in Seq(Messages)
    BY <1>0, <1>5 DEF DispatchFresh
  <2>2. TasksOK' /\ KindOK'
    BY <1>2, <1>5, <2>1 DEF DispatchFresh
  <2>3. QED
    BY <1>0, <1>5, <2>1, <2>2 DEF DispatchFresh, Typed
<1>6. CASE DispatchReclaimed
  <2>1. reclaimed \in Messages
    BY <1>0, <1>6 DEF DispatchReclaimed
  <2>2. TasksOK' /\ KindOK'
    BY <1>2, <1>6, <2>1 DEF DispatchReclaimed
  <2>3. QED
    BY <1>0, <1>6, <2>2 DEF DispatchReclaimed, Typed
<1>7. CASE WorkerCrash
  <2>1. TasksOK' /\ KindOK'
    BY <1>7 DEF WorkerCrash, TasksOK, KindOK, Idle, ProcessSteps, PurgeSteps
  <2>2. QED
    BY <1>0, <1>7, <2>1, BoundsAssumption DEF WorkerCrash, Fault, Typed
<1>8. QED
  BY <1>3, <1>4, <1>5, <1>6, <1>7 DEF Loops

\* So does every step.
LEMMA TypedStep == Typed /\ [Next]_vars => Typed'
<1> SUFFICES ASSUME Typed, [Next]_vars PROVE Typed'
  OBVIOUS
<1>1. CASE UNCHANGED vars
  BY <1>1 DEF vars, photoVars, dataVars, outboxVars, groupVars, Typed, TypeOK, KindOK
<1>2. CASE Next
  BY <1>2, ApiTyped, PublisherTyped, LoopsTyped, TaskStepTyped DEF Next
<1>3. QED
  BY <1>1, <1>2

LEMMA InitTyped == Init => Typed
<1> SUFFICES ASSUME Init PROVE Typed
  OBVIOUS
<1>1. delivered = << >> /\ committed = {} /\ delivered \in Seq(committed) /\ Len(delivered) = 0
      /\ settled = {} /\ claimed = {} /\ fresh \in Seq(Messages)
  BY DEF Init, Queue!Init
<1>2. TypeOK
  BY <1>1, BoundsAssumption DEF Init, TypeOK, Statuses, Idle
<1>3. KindOK
  BY DEF Init, KindOK, Idle, ProcessSteps, PurgeSteps
<1>4. QED
  BY <1>2, <1>3 DEF Typed

\* The pipeline is type-correct, and a task is only ever at a step of its job's kind.
THEOREM TypeCorrect == Spec => []TypeOK
<1>1. Typed => TypeOK
  BY DEF Typed
<1>2. QED
  BY <1>1, InitTyped, TypedStep, PTL DEF Spec

-----------------------------------------------------------------------------
(* What a step may do to a photo.                                           *)

\* The task in slot s is about to record that its current job failed on p.
Failing(s, p) == /\ tasks[s].pc = "fail" /\ tasks[s].job \in AllJobs
                 /\ tasks[s].job.photo = p /\ tasks[s].job.gen = gen[p]

\* The task in slot s is about to record that its current job completed p.
Finishing(s, p) == /\ tasks[s].pc = "ready" /\ tasks[s].job \in AllJobs
                   /\ tasks[s].job.photo = p /\ tasks[s].job.gen = gen[p]

\* A photo is taken by a task whose message is its current job.
Claiming(s, p) == /\ tasks[s].pc = "claim" /\ tasks[s].job = ProcessMsg(p, gen[p])

StatusStep(p) ==
    \/ status'[p] = status[p] /\ gen'[p] = gen[p]
    \/ status[p] \in {"uploading", "failed"} /\ status'[p] = "queued" /\ gen'[p] = gen[p] + 1
    \/ gen'[p] = gen[p] /\ status'[p] = "deleted"
    \/ gen'[p] = gen[p] /\ \E s \in Slots :
         \/ status[p] \in {"queued", "processing"} /\ status'[p] = "processing" /\ Claiming(s, p)
         \/ status[p] = "processing" /\ status'[p] = "ready" /\ Finishing(s, p)
         \/ status[p] \in {"queued", "processing"} /\ status'[p] = "failed" /\ Failing(s, p)

EventStep == event' = event \/ event' = "archived"

\* Only the API and four steps of the worker touch a photo's status or generation.
LEMMA StatusSteps ==
    ASSUME Typed, [Next]_vars
    PROVE  EventStep /\ \A p \in Photos : StatusStep(p)
<1> USE DEF photoVars, dataVars, outboxVars, groupVars
<1>0. /\ status \in [Photos -> Statuses] /\ gen \in [Photos -> 0..MaxGen] /\ TasksOK /\ KindOK
      /\ MaxGen \in Nat
  BY TypeParts, BoundsAssumption DEF Typed, SharedOK
<1>1. ASSUME UNCHANGED <<event, status, gen>> PROVE EventStep /\ \A p \in Photos : StatusStep(p)
  BY <1>1 DEF EventStep, StatusStep
<1>2. CASE UNCHANGED vars
  BY <1>1, <1>2 DEF vars
<1>3. ASSUME NEW p \in Photos, CheckCompletion(p) \/ GiveUpCompletion(p) \/ AssembleObject(p)
      PROVE  UNCHANGED <<event, status, gen>>
  BY <1>3 DEF CheckCompletion, GiveUpCompletion, AssembleObject
<1>4. ASSUME NEW q \in Photos, FinalizeCompleted(q) \/ Reprocess(q)
      PROVE  EventStep /\ \A p \in Photos : StatusStep(p)
  <2>1. /\ status[q] \in {"uploading", "failed"} /\ event' = event
        /\ status' = [status EXCEPT ![q] = "queued"] /\ gen' = [gen EXCEPT ![q] = @ + 1]
    BY <1>4 DEF FinalizeCompleted, Reprocess, Enqueue
  <2>2. QED
    BY <1>0, <2>1 DEF EventStep, StatusStep
<1>5. ASSUME NEW q \in Photos, Delete(q) PROVE EventStep /\ \A p \in Photos : StatusStep(p)
  <2>1. event' = event /\ gen' = gen /\ status' = [status EXCEPT ![q] = "deleted"]
    BY <1>5 DEF Delete
  <2>2. QED
    BY <1>0, <2>1 DEF EventStep, StatusStep
<1>6. CASE Archive
  BY <1>6 DEF Archive, EventStep, StatusStep
<1>7. ASSUME NEW m \in Messages, Publisher(m) \/ Autoclaim(m) PROVE UNCHANGED <<event, status, gen>>
  BY <1>7 DEF Publisher, Take, HandOver, Settle, LetGo, Autoclaim
<1>8. CASE Loops \/ WorkerCrash
  <2>1. UNCHANGED <<event, status, gen>>
    BY <1>8 DEF Loops, ReadBatch, DispatchFresh, DispatchReclaimed, WorkerCrash
  <2>2. QED
    BY <1>1, <2>1
<1>9. ASSUME NEW s \in Slots, TaskStep(s) PROVE EventStep /\ \A p \in Photos : StatusStep(p)
  <2> DEFINE m == tasks[s].job
  <2>1. CASE GetObject(s) \/ PutDerivative(s) \/ ExtractFaces(s) \/ TerminalError(s) \/ UpsertFaces(s)
               \/ ReplaceFaces(s) \/ RemoveObjects(s) \/ RemoveVectors(s) \/ AttemptFails(s)
               \/ Ack(s) \/ AckFailed(s) \/ DeadLetter(s) \/ DeadAck(s)
    <3>1. UNCHANGED <<event, status, gen>>
      BY <2>1 DEF GetObject, PutDerivative, ExtractFaces, TerminalError, UpsertFaces, ReplaceFaces,
         RemoveObjects, RemoveVectors, AttemptFails, Ack, AckFailed, DeadLetter, DeadAck
    <3>2. QED
      BY <1>1, <3>1
  <2>2. CASE Claim(s)
    <3>1. tasks[s].pc = "claim" /\ m \in AllJobs /\ event' = event /\ gen' = gen
      BY <1>0, <2>2 DEF Claim, At, KindOK, ProcessSteps
    <3>2. m.photo \in Photos /\ m = ProcessMsg(m.photo, m.gen)
      BY <3>1, JobKinds
    <3>3. CASE status' = status
      BY <1>1, <3>1, <3>3
    <3>4. CASE Claimable(m) /\ status' = [status EXCEPT ![m.photo] = "processing"]
      <4>1. /\ status[m.photo] \in {"queued", "processing"} /\ Claiming(s, m.photo)
            /\ status'[m.photo] = "processing"
            /\ \A p \in Photos \ {m.photo} : status'[p] = status[p]
        BY <1>0, <3>1, <3>2, <3>4 DEF Claimable, Claiming
      <4>2. QED
        BY <3>1, <4>1 DEF EventStep, StatusStep
    <3>5. QED
      BY <2>2, <3>3, <3>4 DEF Claim
  <2>3. CASE MarkReady(s)
    <3>1. tasks[s].pc = "ready" /\ m \in AllJobs /\ event' = event /\ gen' = gen
      BY <1>0, <2>3 DEF MarkReady, At, KindOK, ProcessSteps
    <3>2. m.photo \in Photos
      BY <3>1, JobKinds
    <3>3. CASE status' = status
      BY <1>1, <3>1, <3>3
    <3>4. CASE /\ gen[m.photo] = m.gen /\ status[m.photo] = "processing"
               /\ status' = [status EXCEPT ![m.photo] = "ready"]
      <4>1. Finishing(s, m.photo)
        BY <3>1, <3>4 DEF Finishing
      <4>2. QED
        BY <1>0, <3>1, <3>2, <3>4, <4>1 DEF EventStep, StatusStep
    <3>5. QED
      BY <2>3, <3>3, <3>4 DEF MarkReady
  <2>4. CASE MarkFailed(s)
    <3>1. tasks[s].pc = "fail" /\ m \in AllJobs /\ event' = event /\ gen' = gen
      BY <1>0, <2>4 DEF MarkFailed, At, KindOK, ProcessSteps
    <3>2. m.photo \in Photos
      BY <3>1, JobKinds
    <3>3. CASE status' = status
      BY <1>1, <3>1, <3>3
    <3>4. CASE Failable(m) /\ status' = [status EXCEPT ![m.photo] = "failed"]
      <4>1. Failing(s, m.photo) /\ status[m.photo] \in {"queued", "processing"}
        BY <3>1, <3>4 DEF Failing, Failable
      <4>2. QED
        BY <1>0, <3>1, <3>2, <3>4, <4>1 DEF EventStep, StatusStep
    <3>5. QED
      BY <2>4, <3>3, <3>4 DEF MarkFailed
  <2>5. CASE RemoveRows(s)
    <3>1. event' = event /\ gen' = gen /\ (status' = status \/ status' = [p \in Photos |-> "deleted"])
      BY <2>5 DEF RemoveRows
    <3>2. QED
      BY <3>1 DEF EventStep, StatusStep
  <2>6. QED
    BY <1>9, <2>1, <2>2, <2>3, <2>4, <2>5 DEF TaskStep, Processing, Purging, Ending
<1>10. QED
  BY <1>1, <1>2, <1>3, <1>4, <1>5, <1>6, <1>7, <1>8, <1>9 DEF Next, Api

\* Each generation of a photo gets one verdict.
THEOREM OneVerdict == Spec => OneVerdictPerGeneration
<1>1. Typed /\ [Next]_vars =>
        [\A p \in Photos : status[p] \in {"ready", "failed"} /\ status'[p] # status[p] =>
           \/ status'[p] = "deleted"
           \/ status[p] = "failed" /\ gen'[p] = gen[p] + 1]_vars
  BY StatusSteps DEF StatusStep
<1>2. QED
  BY <1>1, InitTyped, TypedStep, PTL DEF Spec, OneVerdictPerGeneration

-----------------------------------------------------------------------------
(* What a step may do to the messages.                                      *)

\* What becomes committed is a photo's next job, or a purge whose tombstone is in the same step.
CommitStep == \A m \in committed' \ committed :
    \/ \E p \in Photos : gen'[p] = gen[p] + 1 /\ m = ProcessMsg(p, gen'[p])
    \/ \E p \in Photos : status'[p] = "deleted" /\ m = DeleteMsg(p)
    \/ event' = "archived" /\ m = ArchiveMsg

\* What becomes settled has entered the stream, or is the work of a photo that is tombstoned now.
SettleStep == \A m \in settled' \ settled :
    \/ m \in Range(delivered)
    \/ m \in AllJobs /\ (status'[m.photo] = "deleted" \/ event' = "archived")

GrowStep == /\ committed \subseteq committed' /\ Range(delivered) \subseteq Range(delivered') /\ dlq \subseteq dlq'
            /\ cursor <= cursor' /\ (delivered' = delivered \/ \E x : delivered' = Append(delivered, x))

\* Only a task that is done with a message, or has moved it to the dead-letter stream, acknowledges it.
AckStep == \A m \in pel \ pel' :
    \E s \in Slots : tasks[s].job = m /\ tasks[s].pc \in {"ack", "failack", "deadack"}

\* Messages become pending as they are read.
PendingStep == \/ cursor' = cursor /\ pel' \subseteq pel
               \/ ReadBatch

QueueStep == CommitStep /\ SettleStep /\ GrowStep /\ AckStep /\ PendingStep

LEMMA QueueSteps ==
    ASSUME Typed, [Next]_vars
    PROVE  QueueStep
<1> USE DEF photoVars, dataVars, outboxVars, groupVars
<1>0. /\ status \in [Photos -> Statuses] /\ gen \in [Photos -> 0..MaxGen] /\ claimed \subseteq committed
      /\ committed \subseteq Messages /\ delivered \in Seq(committed) /\ cursor \in Nat
      /\ cursor \in 0..Len(delivered)
  BY TypeParts DEF Typed, SharedOK
<1>1. ASSUME UNCHANGED <<outboxVars, cursor, pel>>, dlq \subseteq dlq' PROVE QueueStep
  BY <1>0, <1>1 DEF QueueStep, CommitStep, SettleStep, GrowStep, AckStep, PendingStep
<1>2. ASSUME UNCHANGED <<committed, settled, delivered>>, UNCHANGED <<cursor, pel, dlq>> PROVE QueueStep
  BY <1>0, <1>2 DEF QueueStep, CommitStep, SettleStep, GrowStep, AckStep, PendingStep
<1>3. CASE UNCHANGED vars
  BY <1>1, <1>3 DEF vars
<1>4. ASSUME NEW p \in Photos, CheckCompletion(p) \/ GiveUpCompletion(p) \/ AssembleObject(p)
      PROVE  QueueStep
  BY <1>1, <1>4 DEF CheckCompletion, GiveUpCompletion, AssembleObject
<1>5. ASSUME NEW p \in Photos, FinalizeCompleted(p) \/ Reprocess(p) PROVE QueueStep
  <2>1. /\ Enqueue(p) /\ UNCHANGED <<cursor, pel, dlq>>
    BY <1>5 DEF FinalizeCompleted, Reprocess
  <2>2. /\ gen'[p] = gen[p] + 1
        /\ committed' = committed \cup {ProcessMsg(p, gen[p] + 1)}
        /\ settled' = settled /\ delivered' = delivered
    BY <1>0, <2>1 DEF Enqueue, Queue!Commit
  <2>3. QED
    BY <1>0, <2>1, <2>2 DEF QueueStep, CommitStep, SettleStep, GrowStep, AckStep, PendingStep
<1>6. ASSUME NEW p \in Photos, Delete(p) PROVE QueueStep
  <2>1. /\ status'[p] = "deleted" /\ UNCHANGED <<cursor, pel, dlq>>
        /\ committed' = committed \cup {DeleteMsg(p)} /\ delivered' = delivered
        /\ settled' = settled \cup Withdrawable(Jobs(p))
    BY <1>0, <1>6 DEF Delete, Queue!Commit
  <2>2. \A m \in Withdrawable(Jobs(p)) : m \in AllJobs /\ m.photo = p
    BY DEF Withdrawable, AllJobs, Jobs, ProcessMsg
  <2>3. CommitStep /\ SettleStep
    BY <2>1, <2>2 DEF CommitStep, SettleStep
  <2>4. QED
    BY <1>0, <2>1, <2>3 DEF QueueStep, GrowStep, AckStep, PendingStep
<1>7. CASE Archive
  <2>1. /\ event' = "archived" /\ UNCHANGED <<cursor, pel, dlq>>
        /\ committed' = committed \cup {ArchiveMsg} /\ delivered' = delivered
        /\ settled' = settled \cup Withdrawable(AllJobs)
    BY <1>0, <1>7 DEF Archive, Queue!Commit
  <2>2. CommitStep /\ SettleStep
    BY <2>1 DEF CommitStep, SettleStep, Withdrawable
  <2>3. QED
    BY <1>0, <2>1, <2>2 DEF QueueStep, GrowStep, AckStep, PendingStep
<1>8. ASSUME NEW m \in Messages, Publisher(m) PROVE QueueStep
  <2>1. UNCHANGED <<cursor, pel, dlq>> /\ committed' = committed
    BY <1>8 DEF Publisher, Take, HandOver, Settle, LetGo, Queue!Take, Queue!Deliver, Queue!Finish
  <2>2. CASE Take(m)
    BY <1>2, <2>1, <2>2 DEF Take, Queue!Take
  <2>3. CASE HandOver(m)
    <3>1. delivered' = Append(delivered, m) /\ m \in committed /\ settled' = settled
      BY <1>0, <2>3 DEF HandOver, Queue!Deliver
    <3>2. Range(delivered') = Range(delivered) \cup {m}
      BY <1>0, <3>1, StreamTypes
    <3>3. QED
      BY <1>0, <2>1, <3>1, <3>2 DEF QueueStep, CommitStep, SettleStep, GrowStep, AckStep, PendingStep
  <2>4. CASE Settle(m) \/ LetGo(m)
    <3>1. \A x \in settled' \ settled : x \in Range(delivered)
      <4>1. CASE Settle(m)
        <5>1. {m} \subseteq Range(delivered) /\ settled' = settled \cup {m}
          BY <4>1 DEF Settle, Queue!Finish, Queue!Range, Range
        <5>2. QED
          BY <5>1
      <4>2. CASE LetGo(m)
        <5>1. settled' = settled \cup {}
          BY <4>2 DEF LetGo, Queue!Finish
        <5>2. QED
          BY <5>1
      <4>3. QED
        BY <2>4, <4>1, <4>2
    <3>2. delivered' = delivered
      BY <2>4 DEF Settle, LetGo, Queue!Finish
    <3>3. QED
      BY <1>0, <2>1, <3>1, <3>2 DEF QueueStep, CommitStep, SettleStep, GrowStep, AckStep, PendingStep
  <2>5. QED
    BY <1>8, <2>2, <2>3, <2>4 DEF Publisher
<1>9. ASSUME NEW m \in Messages, Autoclaim(m) PROVE QueueStep
  BY <1>1, <1>9 DEF Autoclaim
<1>10. CASE ReadBatch
  <2>1. cursor' \in Nat /\ cursor <= cursor' /\ pel \subseteq pel'
    BY <1>0, <1>10, ReadBatchReads DEF Typed
  <2>2. UNCHANGED <<outboxVars, dlq>>
    BY <1>10 DEF ReadBatch
  <2>3. QED
    BY <1>10, <2>1, <2>2 DEF QueueStep, CommitStep, SettleStep, GrowStep, AckStep, PendingStep
<1>11. CASE DispatchFresh \/ DispatchReclaimed \/ WorkerCrash
  BY <1>1, <1>11 DEF DispatchFresh, DispatchReclaimed, WorkerCrash
<1>12. ASSUME NEW s \in Slots, TaskStep(s) PROVE QueueStep
  <2>1. CASE Processing(s) \/ Purging(s) \/ AttemptFails(s) \/ MarkFailed(s)
    <3>1. UNCHANGED <<outboxVars, cursor, pel, dlq>>
      BY <2>1 DEF Processing, Claim, GetObject, PutDerivative, ExtractFaces, TerminalError, UpsertFaces,
         ReplaceFaces, MarkReady, Purging, RemoveObjects, RemoveVectors, RemoveRows, AttemptFails, MarkFailed
    <3>2. QED
      BY <1>1, <3>1
  <2>2. CASE Ack(s) \/ AckFailed(s) \/ DeadAck(s)
    <3>1. /\ UNCHANGED <<outboxVars, cursor, dlq>> /\ tasks[s].pc \in {"ack", "failack", "deadack"}
          /\ pel' = pel \/ pel' = pel \ {tasks[s].job}
      BY <2>2 DEF Ack, AckFailed, DeadAck, At
    <3>2. AckStep /\ PendingStep
      BY <3>1 DEF AckStep, PendingStep
    <3>3. QED
      BY <1>0, <3>1, <3>2 DEF QueueStep, CommitStep, SettleStep, GrowStep
  <2>3. CASE DeadLetter(s)
    BY <1>1, <2>3 DEF DeadLetter
  <2>4. QED
    BY <1>12, <2>1, <2>2, <2>3 DEF TaskStep, Ending
<1>13. QED
  BY <1>3, <1>4, <1>5, <1>6, <1>7, <1>8, <1>9, <1>10, <1>11, <1>12 DEF Next, Api, Loops

-----------------------------------------------------------------------------
(* What a step may do to what the worker holds.                             *)

\* The first of a sequence, and the rest.
LEMMA HeadAndTail ==
    ASSUME NEW S, NEW q \in Seq(S), q # << >>
    PROVE  Head(q) \in Range(q) /\ Range(Tail(q)) \subseteq Range(q)
<1>1. /\ Len(q) \in Nat /\ Len(q) > 0 /\ DOMAIN q = 1..Len(q) /\ Head(q) = q[1]
  OBVIOUS
<1> DEFINE t == Tail(q)
<1>2. DOMAIN t = 1..Len(q) - 1 /\ \A i \in 1..Len(q) - 1 : t[i] = q[i + 1] /\ i + 1 \in 1..Len(q)
  BY <1>1
<1>3. 1 \in DOMAIN q
  BY <1>1
<1> HIDE DEF t
<1>4. Range(t) \subseteq Range(q)
  BY <1>1, <1>2 DEF Range
<1>5. QED
  BY <1>1, <1>3, <1>4 DEF t, Range

\* A task keeps its job; a new task's comes from the loops, and theirs from the pending entries.
HoldStep ==
    /\ \A m \in Range(fresh') : m \in Range(fresh) \/ ReadBatch
    /\ reclaimed' # None => reclaimed' = reclaimed \/ reclaimed' \in pel
    /\ \A s \in Slots : tasks'[s].pc # "idle" =>
         \/ tasks[s].pc # "idle" /\ tasks'[s].job = tasks[s].job
         \/ tasks'[s].job \in Range(fresh)
         \/ reclaimed # None /\ tasks'[s].job = reclaimed

\* At most one task changes in a step of a task, and it keeps its job while it has one.
LEMMA TaskMoves ==
    ASSUME Typed, NEW s \in Slots, TaskStep(s)
    PROVE  /\ tasks[s].pc # "idle" /\ UNCHANGED <<fresh, reclaimed>>
           /\ \A t \in Slots \ {s} : tasks'[t] = tasks[t]
           /\ tasks'[s] = Idle \/ tasks'[s].job = tasks[s].job
<1> USE DEF photoVars, dataVars, outboxVars, groupVars
<1>1. UNCHANGED <<fresh, reclaimed>>
  BY DEF TaskStep, Processing, Claim, GetObject, PutDerivative, ExtractFaces, TerminalError, UpsertFaces,
     ReplaceFaces, MarkReady, Purging, RemoveObjects, RemoveVectors, RemoveRows, AttemptFails, Ending,
     MarkFailed, Ack, AckFailed, DeadLetter, DeadAck
<1>2. tasks[s].pc # "idle"
  <2>1. CASE AttemptFails(s)
    BY <2>1, AttemptFailsStep
  <2>2. CASE ~AttemptFails(s)
    BY <2>2 DEF TaskStep, Processing, Claim, GetObject, PutDerivative, ExtractFaces, TerminalError,
       UpsertFaces, ReplaceFaces, MarkReady, Purging, RemoveObjects, RemoveVectors, RemoveRows, Ending,
       MarkFailed, Ack, AckFailed, DeadLetter, DeadAck, At
  <2>3. QED
    BY <2>1, <2>2
<1>3. \/ tasks'[s] = Idle /\ \A t \in Slots \ {s} : tasks'[t] = tasks[t]
      \/ \E pc : MovesTo(s, pc)
  <2>1. CASE Processing(s)
    BY <2>1, ProcessingStep
  <2>2. CASE Purging(s)
    BY <2>2, PurgingStep
  <2>3. CASE AttemptFails(s)
    BY <2>3, AttemptFailsStep
  <2>4. CASE Ending(s)
    BY <2>4, EndingStep
  <2>5. QED
    BY <2>1, <2>2, <2>3, <2>4 DEF TaskStep
<1>4. QED
  BY <1>1, <1>2, <1>3 DEF MovesTo

LEMMA HoldSteps ==
    ASSUME Typed, [Next]_vars
    PROVE  HoldStep
<1> USE DEF photoVars, dataVars, outboxVars, groupVars
<1>0. fresh \in Seq(Messages) /\ TasksOK /\ reclaimed \in Messages \cup {None}
  BY TypeParts DEF Typed, SharedOK
<1>1. ASSUME UNCHANGED <<fresh, reclaimed, tasks>> PROVE HoldStep
  BY <1>1 DEF HoldStep
<1>2. CASE \/ \E p \in Photos : Api(p)
           \/ Archive
           \/ \E m \in Messages : Publisher(m)
           \/ UNCHANGED vars
  <2>1. UNCHANGED <<fresh, reclaimed, tasks>>
    BY <1>2 DEF Api, CheckCompletion, GiveUpCompletion, AssembleObject, FinalizeCompleted, Reprocess,
       Delete, Archive,
       Publisher, Take, HandOver, Settle, LetGo, vars
  <2>2. QED
    BY <1>1, <2>1
<1>3. ASSUME NEW m \in Messages, Autoclaim(m) PROVE HoldStep
  BY <1>3 DEF Autoclaim, HoldStep
<1>4. CASE ReadBatch
  BY <1>4 DEF ReadBatch, HoldStep
<1>5. CASE DispatchFresh
  <2>1. /\ Head(fresh) \in Range(fresh) /\ Range(fresh') \subseteq Range(fresh)
        /\ Head(fresh) \in Messages /\ reclaimed' = reclaimed
    BY <1>0, <1>5, HeadAndTail DEF DispatchFresh
  <2>2. PICK s \in Slots : Start(s, Head(fresh))
    BY <1>5 DEF DispatchFresh
  <2>3. tasks'[s].job = Head(fresh) /\ \A t \in Slots \ {s} : tasks'[t] = tasks[t]
    BY <1>0, <2>1, <2>2, StartMoves
  <2>4. QED
    BY <2>1, <2>3 DEF HoldStep
<1>6. CASE DispatchReclaimed
  <2>1. reclaimed # None /\ reclaimed \in Messages /\ reclaimed' = None /\ fresh' = fresh
    BY <1>0, <1>6 DEF DispatchReclaimed
  <2>2. PICK s \in Slots : Start(s, reclaimed)
    BY <1>6 DEF DispatchReclaimed
  <2>3. tasks'[s].job = reclaimed /\ \A t \in Slots \ {s} : tasks'[t] = tasks[t]
    BY <1>0, <2>1, <2>2, StartMoves
  <2>4. QED
    BY <2>1, <2>3 DEF HoldStep
<1>7. CASE WorkerCrash
  <2>1. fresh' = << >> /\ reclaimed' = None /\ \A s \in Slots : tasks'[s].pc = "idle"
    BY <1>7 DEF WorkerCrash, Idle
  <2>2. Range(fresh') = {}
    BY <2>1 DEF Range
  <2>3. QED
    BY <2>1, <2>2 DEF HoldStep
<1>8. ASSUME NEW s \in Slots, TaskStep(s) PROVE HoldStep
  BY <1>8, TaskMoves DEF HoldStep, Idle
<1>9. QED
  BY <1>2, <1>3, <1>4, <1>5, <1>6, <1>7, <1>8 DEF Next, Loops

\* The worker only ever holds messages it has read.
LEMMA HeldStep ==
    ASSUME Typed, HeldIsRead, [Next]_vars
    PROVE  HeldIsRead'
<1>0. HoldStep /\ QueueStep /\ TypeOK /\ TypeOK'
  BY HoldSteps, QueueSteps, TypedStep DEF Typed
<1>1. \A m : Read(m) => Read(m)'
  BY <1>0, ReadGrows DEF QueueStep, GrowStep
<1>2. ASSUME ReadBatch, NEW m \in Range(fresh') PROVE Read(m)'
  <2>1. PICK i \in cursor + 1..cursor' : delivered[i] = m
    BY <1>0, <1>2, ReadBatchReads
  <2>2. delivered' = delivered /\ delivered' \in Seq(committed') /\ cursor' \in 0..Len(delivered') /\ cursor \in Nat
    BY <1>0, <1>2 DEF ReadBatch, outboxVars, TypeOK
  <2>3. i \in 1..cursor' /\ delivered'[i] = m
    BY <2>1, <2>2
  <2>4. QED
    BY <2>2, <2>3, PrefixRange DEF Read
<1>3. \A m \in Range(fresh') : Read(m)'
  BY <1>0, <1>1, <1>2 DEF HoldStep, HeldIsRead
<1>4. \A m \in pel' : Read(m)'
  <2>1. CASE pel' \subseteq pel
    BY <1>1, <2>1 DEF HeldIsRead
  <2>2. CASE ReadBatch
    BY <1>0, <1>1, <1>2, <2>2, ReadBatchReads DEF HeldIsRead
  <2>3. QED
    BY <1>0, <2>1, <2>2 DEF QueueStep, PendingStep
<1>5. reclaimed' # None => Read(reclaimed)'
  <2>1. ASSUME reclaimed' # None PROVE Read(reclaimed')
    BY <1>0, <2>1 DEF HoldStep, HeldIsRead
  <2>2. QED
    BY <1>0, <2>1, ReadGrows DEF QueueStep, GrowStep, Read
<1>6. ASSUME NEW s \in Slots, tasks'[s].pc # "idle" PROVE Read(tasks[s].job)'
  <2>1. Read(tasks'[s].job)
    BY <1>0, <1>6 DEF HoldStep, HeldIsRead
  <2>2. QED
    BY <1>0, <2>1, ReadGrows DEF QueueStep, GrowStep, Read
<1>7. QED
  BY <1>3, <1>4, <1>5, <1>6 DEF HeldIsRead

-----------------------------------------------------------------------------
(* The photos' side of the invariant.                                       *)

\* Messages of different kinds, photos or generations differ.
LEMMA MessagesDiffer ==
    /\ \A p, q, g, h : ProcessMsg(p, g) = ProcessMsg(q, h) => p = q /\ g = h
    /\ \A p, q : DeleteMsg(p) = DeleteMsg(q) => p = q
    /\ \A p, q, g : ProcessMsg(p, g) # DeleteMsg(q) /\ ProcessMsg(p, g) # ArchiveMsg /\ DeleteMsg(q) # ArchiveMsg
<1>1. /\ \A p, g : /\ ProcessMsg(p, g).type = "process"
                   /\ ProcessMsg(p, g).photo = p /\ ProcessMsg(p, g).gen = g
      /\ \A p : DeleteMsg(p).type = "delete" /\ DeleteMsg(p).photo = p
      /\ ArchiveMsg.type = "archive"
  BY DEF ProcessMsg, DeleteMsg, ArchiveMsg
<1>2. \A p, q, g, h : ProcessMsg(p, g) = ProcessMsg(q, h) => p = q /\ g = h
  BY <1>1
<1>3. \A p, q : DeleteMsg(p) = DeleteMsg(q) => p = q
  BY <1>1
<1>4. \A p, q, g : ProcessMsg(p, g) # DeleteMsg(q) /\ ProcessMsg(p, g) # ArchiveMsg /\ DeleteMsg(q) # ArchiveMsg
  BY <1>1
<1>5. QED
  BY <1>2, <1>3, <1>4

\* A tombstone is never taken back.
LEMMA TombstonesStay ==
    ASSUME Typed, [Next]_vars
    PROVE  /\ \A p \in Photos : status[p] = "deleted" => status'[p] = "deleted"
           /\ event = "archived" => event' = "archived"
BY StatusSteps DEF StatusStep, EventStep

LEMMA PurgesHaveTombstonesStep ==
    ASSUME Typed, PurgesHaveTombstones, [Next]_vars
    PROVE  PurgesHaveTombstones'
<1>1. CommitStep
  BY QueueSteps DEF QueueStep
<1>2. ASSUME NEW p \in Photos, DeleteMsg(p) \in committed' PROVE status'[p] = "deleted"
  <2>1. CASE DeleteMsg(p) \in committed
    BY <2>1, TombstonesStay DEF PurgesHaveTombstones
  <2>2. CASE DeleteMsg(p) \notin committed
    BY <1>1, <1>2, <2>2, MessagesDiffer DEF CommitStep
  <2>3. QED
    BY <2>1, <2>2
<1>3. ASSUME ArchiveMsg \in committed' PROVE event' = "archived"
  <2>1. CASE ArchiveMsg \in committed
    BY <2>1, TombstonesStay DEF PurgesHaveTombstones
  <2>2. CASE ArchiveMsg \notin committed
    BY <1>1, <1>3, <2>2, MessagesDiffer DEF CommitStep
  <2>3. QED
    BY <2>1, <2>2
<1>4. QED
  BY <1>2, <1>3, Zenon DEF PurgesHaveTombstones, DeleteMsg, ArchiveMsg

LEMMA NoFutureJobsStep ==
    ASSUME Typed, NoFutureJobs, [Next]_vars
    PROVE  NoFutureJobs'
<1>1. CommitStep /\ gen \in [Photos -> 0..MaxGen] /\ gen' \in [Photos -> 0..MaxGen] /\ MaxGen \in Nat
  BY QueueSteps, TypedStep, BoundsAssumption DEF QueueStep, Typed, TypeOK
<1>2. ASSUME NEW p \in Photos, NEW g \in 1..MaxGen, ProcessMsg(p, g) \in committed' PROVE g <= gen'[p]
  <2>1. gen[p] <= gen'[p]
    BY <1>1, StatusSteps DEF StatusStep
  <2>2. CASE ProcessMsg(p, g) \in committed
    BY <1>1, <2>1, <2>2 DEF NoFutureJobs
  <2>3. CASE ProcessMsg(p, g) \notin committed
    <3>1. g = gen'[p]
      BY <1>1, <1>2, <2>3, MessagesDiffer DEF CommitStep
    <3>2. QED
      BY <1>1, <3>1
  <2>4. QED
    BY <2>2, <2>3
<1>3. QED
  BY <1>2 DEF NoFutureJobs, ProcessMsg

\* The job of a claimed generation was read, and remains the photo's job until a requeue.
LEMMA DecidedStep ==
    ASSUME Typed, HeldIsRead, DecidedByCurrentGeneration, [Next]_vars
    PROVE  DecidedByCurrentGeneration'
<1>1. \A m : Read(m) => Read(m)'
  BY QueueSteps, TypedStep, ReadGrows DEF Typed, QueueStep, GrowStep
<1>2. ASSUME NEW p \in Photos, status'[p] \in {"processing", "ready", "failed"}
      PROVE  Read(ProcessMsg(p, gen'[p]))
  <2>1. StatusStep(p)
    BY StatusSteps
  <2>2. CASE status[p] \in {"processing", "ready", "failed"} /\ gen'[p] = gen[p]
    BY <2>2 DEF DecidedByCurrentGeneration
  <2>3. CASE status[p] = "queued" /\ gen'[p] = gen[p]
    <3>1. PICK s \in Slots : Claiming(s, p) \/ Failing(s, p)
      BY <1>2, <2>1, <2>3 DEF StatusStep
    <3>2. tasks[s].job = ProcessMsg(p, gen[p]) /\ tasks[s].pc # "idle"
      BY <3>1, JobKinds DEF Claiming, Failing
    <3>3. QED
      BY <2>3, <3>2 DEF HeldIsRead
  <2>4. QED
    BY <1>2, <2>1, <2>2, <2>3 DEF StatusStep
<1>3. ASSUME NEW p \in Photos, status'[p] \in {"processing", "ready", "failed"}
      PROVE  ProcessMsg(p, gen'[p]) \in Range(SubSeq(delivered', 1, cursor'))
  BY <1>1, <1>2, <1>3 DEF Read
<1>4. QED
  BY <1>3 DEF DecidedByCurrentGeneration, Read, ProcessMsg

-----------------------------------------------------------------------------
(* The worker's side of the invariant.                                      *)

\* What is true when a task goes on from step to next with job m.
Advance(m, step, next) ==
    \/ next \in {"claim", "objects", "vectors", "rows", "deadletter"}
    \/ next = "fetch" /\ m \in AllJobs /\ status'[m.photo] = "processing"
    \/ step = "fetch" /\ next = "thumbnail" /\ "original" \in objects'[m.photo]
    \/ step = "thumbnail" /\ next = "preview" /\ "thumbnail" \in objects'[m.photo]
    \/ step = "preview" /\ next = "extract" /\ "preview" \in objects'[m.photo]
    \/ step = "extract" /\ next = "upsert"
    \/ step = "upsert" /\ next = "faces" /\ m.photo \in vectors'
    \/ step = "faces" /\ next = "ready" /\ m.photo \in faceRows'
    \/ step \in {"thumbnail", "extract"} /\ next = "fail" /\ status' = status
    \/ /\ next \in {"ack", "failack"}
       /\ m \in AllJobs => gen[m.photo] # m.gen \/ status'[m.photo] \notin {"queued", "processing"}
    \/ next = "deadack" /\ m \in dlq'

\* The steps of a task, each with what it leaves true.
LEMMA Advances ==
    ASSUME Typed, NEW s \in Slots, TaskStep(s)
    PROVE  \/ tasks'[s] = Idle
           \/ \E next : MovesTo(s, next) /\ Advance(tasks[s].job, tasks[s].pc, next)
<1> DEFINE m == tasks[s].job
<1>0. /\ status \in [Photos -> Statuses] /\ objects \in [Photos -> SUBSET Objects] /\ TasksOK /\ KindOK
      /\ tasks[s].pc # "idle" /\ m \in Messages
  BY TypeParts, TaskMoves, BusySlot DEF Typed, SharedOK
<1>1. \A pc \in Steps : Goto(s, pc) \/ Leave(s, pc) => MovesTo(s, pc)
  BY <1>0, GotoMoves
<1>2. Retry(s) => \E next \in {"claim", "objects", "deadletter"} : MovesTo(s, next)
  BY <1>0, RetryMoves DEF FirstStep
<1>3. Retry(s) => \E next : MovesTo(s, next) /\ Advance(m, tasks[s].pc, next)
  BY <1>2 DEF Advance
<1>4. tasks[s].pc \in ProcessSteps => m \in AllJobs /\ m.photo \in Photos
  BY <1>0, JobKinds DEF KindOK
<1>5. CASE Claim(s)
  <2>1. m \in AllJobs /\ m.photo \in Photos
    BY <1>4, <1>5 DEF Claim, At, ProcessSteps
  <2>2. CASE Goto(s, "fetch") /\ status' = [status EXCEPT ![m.photo] = "processing"]
    BY <1>0, <1>1, <2>1, <2>2 DEF Advance, Steps
  <2>3. CASE Goto(s, "ack") /\ Skippable(m) /\ status' = status
    BY <1>1, <2>3 DEF Advance, Skippable, Steps
  <2>4. QED
    BY <1>3, <1>5, <2>2, <2>3 DEF Claim
<1>6. CASE GetObject(s)
  <2>1. tasks[s].pc = "fetch" /\ objects' = objects
    BY <1>6 DEF GetObject, At, dataVars
  <2>2. CASE "original" \in objects[m.photo]
    BY <1>1, <1>6, <2>1, <2>2 DEF GetObject, After, Advance, Steps
  <2>3. CASE "original" \notin objects[m.photo]
    BY <1>3, <1>6, <2>3 DEF GetObject
  <2>4. QED
    BY <2>2, <2>3
<1>7. CASE PutDerivative(s)
  <2>1. tasks[s].pc \in {"thumbnail", "preview"} /\ objects' = [objects EXCEPT ![m.photo] = @ \cup {tasks[s].pc}]
    BY <1>7 DEF PutDerivative
  <2>2. tasks[s].pc \in objects'[m.photo]
    BY <1>0, <1>4, <2>1 DEF ProcessSteps
  <2>3. \/ tasks[s].pc = "thumbnail" /\ Goto(s, "preview")
        \/ tasks[s].pc = "preview" /\ Goto(s, "extract")
    BY <1>7 DEF PutDerivative, After
  <2>4. QED
    BY <1>1, <2>2, <2>3 DEF Advance, Steps
<1>8. CASE ExtractFaces(s)
  BY <1>1, <1>8 DEF ExtractFaces, At, After, Advance, Steps
<1>9. CASE TerminalError(s)
  BY <1>1, <1>9 DEF TerminalError, Advance, Steps, photoVars
<1>10. CASE UpsertFaces(s)
  BY <1>1, <1>10 DEF UpsertFaces, At, After, Advance, Steps
<1>11. CASE ReplaceFaces(s)
  BY <1>1, <1>11 DEF ReplaceFaces, At, After, Advance, Steps
<1>12. CASE MarkReady(s)
  <2>1. m.photo \in Photos
    BY <1>4, <1>12 DEF MarkReady, At, ProcessSteps
  <2>2. CASE Goto(s, "ack") /\ status' = [status EXCEPT ![m.photo] = "ready"]
    BY <1>0, <1>1, <2>1, <2>2 DEF Advance, Steps
  <2>3. QED
    BY <1>3, <1>12, <2>2 DEF MarkReady
<1>13. CASE MarkFailed(s)
  <2>1. m.photo \in Photos
    BY <1>4, <1>13 DEF MarkFailed, At, ProcessSteps
  <2>2. CASE Goto(s, "failack") /\ status' = IF Failable(m) THEN [status EXCEPT ![m.photo] = "failed"] ELSE status
    BY <1>0, <1>1, <2>1, <2>2 DEF Advance, Failable, Steps
  <2>3. CASE Goto(s, "deadletter")
    BY <1>1, <2>3 DEF Advance, Steps
  <2>4. QED
    BY <1>13, <2>2, <2>3 DEF MarkFailed
<1>14. CASE RemoveObjects(s)
  <2>1. Goto(s, "vectors") \/ Retry(s)
    BY <1>14 DEF RemoveObjects
  <2>2. QED
    BY <1>1, <1>3, <2>1 DEF Advance, Steps
<1>15. CASE RemoveVectors(s)
  BY <1>1, <1>15 DEF RemoveVectors, Advance, Steps
<1>16. CASE RemoveRows(s)
  <2>1. m \notin AllJobs /\ Goto(s, "ack")
    BY <1>0, <1>16, JobKinds DEF RemoveRows, At, KindOK, PurgeSteps
  <2>2. QED
    BY <1>1, <2>1 DEF Advance, Steps
<1>17. CASE AttemptFails(s) \/ Ack(s)
  BY <1>0, <1>3, <1>17, ReleaseMoves DEF AttemptFails, Ack
<1>18. CASE AckFailed(s) \/ DeadAck(s)
  BY <1>0, <1>1, <1>18, ReleaseMoves DEF AckFailed, DeadAck, Advance, Steps
<1>19. CASE DeadLetter(s)
  BY <1>0, <1>1, <1>19, ReleaseMoves DEF DeadLetter, Advance, Steps
<1>20. QED
  BY <1>5, <1>6, <1>7, <1>8, <1>9, <1>10, <1>11, <1>12, <1>13, <1>14, <1>15, <1>16, <1>17, <1>18, <1>19
     DEF TaskStep, Processing, Purging, Ending

\* In any step, a slot's task stays, ends, begins a job, or advances.
LEMMA TaskChanges ==
    ASSUME Typed, [Next]_vars, NEW s \in Slots
    PROVE  \/ tasks'[s] = tasks[s]
           \/ tasks'[s].pc \in {"idle", "claim", "objects"}
           \/ /\ tasks[s].pc # "idle" /\ MovesTo(s, tasks'[s].pc)
              /\ Advance(tasks[s].job, tasks[s].pc, tasks'[s].pc)
<1> USE DEF photoVars, dataVars, outboxVars, groupVars
<1>0. TasksOK /\ fresh \in Seq(Messages) /\ reclaimed \in Messages \cup {None}
  BY TypeParts DEF Typed, SharedOK
<1>1. CASE \/ \E p \in Photos : Api(p)
           \/ Archive
           \/ \E m \in Messages : Publisher(m) \/ Autoclaim(m)
           \/ ReadBatch
           \/ UNCHANGED vars
  BY <1>1 DEF Api, CheckCompletion, GiveUpCompletion, AssembleObject, FinalizeCompleted, Reprocess,
       Delete, Archive,
       Publisher, Take, HandOver, Settle, LetGo, Autoclaim, ReadBatch, vars
<1>2. ASSUME NEW t \in Slots, NEW m \in Messages, Start(t, m)
      PROVE  tasks'[s] = tasks[s] \/ tasks'[s].pc \in {"idle", "claim", "objects"}
  BY <1>0, <1>2, StartMoves DEF FirstStep
<1>3. CASE DispatchFresh
  <2>1. Head(fresh) \in Messages
    BY <1>0, <1>3 DEF DispatchFresh
  <2>2. QED
    BY <1>2, <1>3, <2>1 DEF DispatchFresh
<1>4. CASE DispatchReclaimed
  BY <1>0, <1>2, <1>4 DEF DispatchReclaimed
<1>5. CASE WorkerCrash
  BY <1>5 DEF WorkerCrash, Idle
<1>6. ASSUME NEW t \in Slots, TaskStep(t)
      PROVE  \/ tasks'[s] = tasks[s]
             \/ tasks'[s].pc = "idle"
             \/ /\ tasks[s].pc # "idle" /\ MovesTo(s, tasks'[s].pc)
                /\ Advance(tasks[s].job, tasks[s].pc, tasks'[s].pc)
  <2>1. CASE s # t
    BY <1>6, <2>1, TaskMoves
  <2>2. CASE s = t
    BY <1>6, <2>2, Advances, TaskMoves DEF MovesTo, Idle
  <2>3. QED
    BY <2>1, <2>2
<1>7. QED
  BY <1>1, <1>3, <1>4, <1>5, <1>6 DEF Next, Loops

\* A job held by a task is not of a later generation than its photo, now or after the step,
\* so that it is its photo's current job after the step only if it was before.
LEMMA CurrentJobs ==
    ASSUME Typed, HeldIsRead, NoFutureJobs, [Next]_vars, NEW s \in Slots,
           tasks[s].pc # "idle", tasks[s].job \in AllJobs, gen'[tasks[s].job.photo] = tasks[s].job.gen
    PROVE  gen[tasks[s].job.photo] = tasks[s].job.gen
<1> DEFINE m == tasks[s].job
<1>1. m.photo \in Photos /\ m.gen \in 1..MaxGen /\ m = ProcessMsg(m.photo, m.gen)
  BY JobKinds
<1>2. m \in committed
  BY ReadIsDelivered DEF Typed, HeldIsRead
<1>3. m.gen <= gen[m.photo]
  BY <1>1, <1>2 DEF NoFutureJobs
<1>4. StatusStep(m.photo) /\ gen[m.photo] \in 0..MaxGen /\ MaxGen \in Nat
  BY <1>1, StatusSteps, BoundsAssumption DEF Typed, TypeOK
<1>5. gen'[m.photo] = gen[m.photo] \/ gen'[m.photo] = gen[m.photo] + 1
  BY <1>4 DEF StatusStep
<1>6. QED
  BY <1>1, <1>3, <1>4, <1>5

LEMMA ClaimedIsNotQueuedStep ==
    ASSUME Typed, HeldIsRead, NoFutureJobs, ClaimedIsNotQueued, [Next]_vars
    PROVE  ClaimedIsNotQueued'
<1> SUFFICES ASSUME NEW s \in Slots, tasks'[s].pc \in AfterClaim,
                    gen'[tasks'[s].job.photo] = tasks'[s].job.gen
             PROVE  status'[tasks'[s].job.photo] # "queued"
  BY DEF ClaimedIsNotQueued, AfterClaim
<1> DEFINE m == tasks[s].job
<1>1. CASE tasks[s].pc \in AfterClaim /\ tasks'[s].job = m
  <2>1. tasks[s].pc # "idle" /\ m \in AllJobs /\ m.photo \in Photos
    BY <1>1, JobKinds DEF Typed, KindOK, AfterClaim, ProcessSteps
  <2>2. gen[m.photo] = m.gen
    BY <1>1, <2>1, CurrentJobs
  <2>3. status[m.photo] # "queued"
    BY <1>1, <2>2 DEF ClaimedIsNotQueued
  <2> DEFINE p == m.photo
  <2>4. p \in Photos /\ StatusStep(p) /\ gen[p] \in Nat
    BY <2>1, StatusSteps, BoundsAssumption DEF Typed, TypeOK
  <2>5. tasks'[s].job.photo = p /\ gen'[p] = gen[p] /\ status[p] # "queued"
    BY <1>1, <2>2, <2>3
  <2> HIDE DEF p
  <2>6. status'[p] # "queued"
    BY <2>4, <2>5 DEF StatusStep
  <2>7. QED
    BY <2>5, <2>6
<1>2. CASE tasks'[s] = tasks[s]
  BY <1>1, <1>2
<1>3. CASE MovesTo(s, tasks'[s].pc) /\ Advance(m, tasks[s].pc, tasks'[s].pc)
  <2>1. tasks'[s].job = m
    BY <1>3 DEF MovesTo
  <2>2. tasks[s].pc \in AfterClaim \/ (tasks'[s].pc = "fetch" /\ status'[m.photo] = "processing")
    BY <1>3 DEF Advance, AfterClaim
  <2>3. QED
    BY <1>1, <2>1, <2>2
<1>4. QED
  BY <1>2, <1>3, TaskChanges DEF AfterClaim

LEMMA AckedIsDecidedStep ==
    ASSUME Typed, HeldIsRead, NoFutureJobs, AckedIsDecided, [Next]_vars
    PROVE  AckedIsDecided'
<1> SUFFICES ASSUME NEW s \in Slots, tasks'[s].pc \in {"ack", "failack"}, tasks'[s].job \in AllJobs,
                    gen'[tasks'[s].job.photo] = tasks'[s].job.gen
             PROVE  status'[tasks'[s].job.photo] \notin {"queued", "processing"}
  BY DEF AckedIsDecided, AllJobs, Jobs, ProcessMsg
<1> DEFINE m == tasks[s].job
<1>1. CASE tasks'[s] = tasks[s]
  <2>1. m \in AllJobs /\ m.photo \in Photos /\ gen[m.photo] = m.gen
    BY <1>1, CurrentJobs, JobKinds
  <2>2. status[m.photo] \notin {"queued", "processing"}
    BY <1>1, <2>1 DEF AckedIsDecided
  <2> DEFINE p == m.photo
  <2>3. p \in Photos /\ StatusStep(p) /\ gen[p] \in Nat
    BY <2>1, StatusSteps, BoundsAssumption DEF Typed, TypeOK
  <2>4. tasks'[s].job.photo = p /\ gen'[p] = gen[p] /\ status[p] \notin {"queued", "processing"}
    BY <1>1, <2>1, <2>2
  <2> HIDE DEF p
  <2>5. status'[p] \notin {"queued", "processing"}
    BY <2>3, <2>4 DEF StatusStep
  <2>6. QED
    BY <2>4, <2>5
<1>2. CASE tasks[s].pc # "idle" /\ MovesTo(s, tasks'[s].pc) /\ Advance(m, tasks[s].pc, tasks'[s].pc)
  <2>1. tasks'[s].job = m /\ m \in AllJobs
    BY <1>2 DEF MovesTo
  <2>2. QED
    BY <1>2, <2>1, CurrentJobs DEF Advance
<1>3. QED
  BY <1>1, <1>2, TaskChanges

LEMMA DeadIsKeptStep ==
    ASSUME Typed, DeadIsKept, [Next]_vars
    PROVE  DeadIsKept'
<1> SUFFICES ASSUME NEW s \in Slots, tasks'[s].pc = "deadack" PROVE tasks'[s].job \in dlq'
  BY DEF DeadIsKept
<1>1. dlq \subseteq dlq'
  BY QueueSteps DEF QueueStep, GrowStep
<1>2. CASE tasks'[s] = tasks[s]
  BY <1>1, <1>2 DEF DeadIsKept
<1>3. CASE MovesTo(s, tasks'[s].pc) /\ Advance(tasks[s].job, tasks[s].pc, tasks'[s].pc)
  BY <1>3 DEF Advance, MovesTo
<1>4. QED
  BY <1>2, <1>3, TaskChanges

\* What a photo that lives has, it keeps: only purges remove, and their tombstones come first.
LEMMA DataSteps ==
    ASSUME Typed, HeldIsRead, PurgesHaveTombstones, [Next]_vars,
           NEW p \in Photos, status'[p] # "deleted", event' = "active"
    PROVE  /\ Alive(p)
           /\ objects[p] \subseteq objects'[p]
           /\ p \in vectors => p \in vectors'
           /\ p \in faceRows => p \in faceRows'
<1> USE DEF photoVars, dataVars, outboxVars, groupVars
<1>0. event \in {"active", "archived"} /\ objects \in [Photos -> SUBSET Objects]
  BY DEF Typed, TypeOK
<1>1. Alive(p)
  BY <1>0, TombstonesStay DEF Alive
<1>2. ASSUME UNCHANGED dataVars PROVE objects[p] \subseteq objects'[p] /\ vectors' = vectors /\ faceRows' = faceRows
  BY <1>2
<1>3. CASE \/ \E q \in Photos : FinalizeCompleted(q) \/ Reprocess(q) \/ Delete(q)
           \/ \E q \in Photos : CheckCompletion(q) \/ GiveUpCompletion(q)
           \/ Archive
           \/ \E m \in Messages : Publisher(m) \/ Autoclaim(m)
           \/ Loops \/ WorkerCrash
           \/ UNCHANGED vars
  <2>1. UNCHANGED dataVars
    BY <1>3 DEF FinalizeCompleted, Reprocess, Delete, CheckCompletion, GiveUpCompletion, Archive,
       Publisher, Take, HandOver,
       Settle, LetGo, Autoclaim, Loops, ReadBatch, DispatchFresh, DispatchReclaimed, WorkerCrash, vars
  <2>2. QED
    BY <1>1, <1>2, <2>1
<1>4. ASSUME NEW q \in Photos, AssembleObject(q)
      PROVE  objects[p] \subseteq objects'[p] /\ vectors' = vectors /\ faceRows' = faceRows
  BY <1>0, <1>4 DEF AssembleObject
<1>5. ASSUME NEW s \in Slots, Processing(s) \/ AttemptFails(s) \/ Ending(s)
      PROVE  objects[p] \subseteq objects'[p] /\ vectors \subseteq vectors' /\ faceRows \subseteq faceRows'
  <2>1. CASE PutDerivative(s)
    BY <1>0, <2>1 DEF PutDerivative
  <2>2. CASE UpsertFaces(s) \/ ReplaceFaces(s)
    BY <2>2 DEF UpsertFaces, ReplaceFaces
  <2>3. CASE ~PutDerivative(s) /\ ~UpsertFaces(s) /\ ~ReplaceFaces(s)
    <3>1. UNCHANGED dataVars
      BY <1>5, <2>3 DEF Processing, Claim, GetObject, ExtractFaces, TerminalError, MarkReady, AttemptFails,
         Ending, Ack, MarkFailed, AckFailed, DeadLetter, DeadAck
    <3>2. QED
      BY <1>2, <3>1
  <2>4. QED
    BY <2>1, <2>2, <2>3
<1>6. ASSUME NEW s \in Slots, Purging(s)
      PROVE  objects[p] \subseteq objects'[p] /\ (p \in vectors => p \in vectors') /\ (p \in faceRows => p \in faceRows')
  <2> DEFINE m == tasks[s].job
  <2>1. m \in Purges /\ tasks[s].pc # "idle"
    BY <1>6, PurgingStep, TaskMoves DEF TaskStep
  <2>2. m \in committed
    BY <2>1, ReadIsDelivered DEF Typed, HeldIsRead
  <2>3. p \notin Scope(m)
    <3>1. CASE m = ArchiveMsg
      BY <1>1, <2>2, <3>1 DEF PurgesHaveTombstones, Alive
    <3>2. ASSUME NEW q \in Photos, m = DeleteMsg(q) PROVE p \notin Scope(m)
      <4>1. m.type = "delete" /\ m.photo = q /\ status[q] = "deleted"
        BY <2>2, <3>2 DEF PurgesHaveTombstones, DeleteMsg
      <4>2. QED
        BY <1>1, <4>1 DEF Scope, Alive
    <3>3. QED
      BY <2>1, <3>1, <3>2 DEF Purges
  <2>4. CASE RemoveObjects(s)
    <3> HIDE DEF m
    <3>1. PICK left : objects' = [q \in Photos |-> IF q \in Scope(m) THEN left[q] ELSE objects[q]]
      BY <2>4 DEF RemoveObjects, m
    <3>2. objects'[p] = objects[p]
      BY <2>3, <3>1
    <3>3. QED
      BY <2>4, <3>2 DEF RemoveObjects
  <2>5. CASE RemoveVectors(s) \/ RemoveRows(s)
    BY <2>3, <2>5 DEF RemoveVectors, RemoveRows
  <2>6. QED
    BY <1>6, <2>4, <2>5 DEF Purging
<1>7. QED
  BY <1>1, <1>3, <1>4, <1>5, <1>6 DEF Next, Api, TaskStep

LEMMA TasksHaveWrittenStep ==
    ASSUME Typed, HeldIsRead, PurgesHaveTombstones, TasksHaveWritten, [Next]_vars
    PROVE  TasksHaveWritten'
<1> DEFINE W(p, pc) ==
      /\ pc \in {"thumbnail", "preview", "extract", "upsert", "faces", "ready"} => "original" \in objects'[p]
      /\ pc \in {"preview", "extract", "upsert", "faces", "ready"} => "thumbnail" \in objects'[p]
      /\ pc \in {"extract", "upsert", "faces", "ready"} => "preview" \in objects'[p]
      /\ pc \in {"faces", "ready"} => p \in vectors'
      /\ pc = "ready" => p \in faceRows'
<1> SUFFICES ASSUME NEW s \in Slots, tasks'[s].pc \in AfterClaim,
                    status'[tasks'[s].job.photo] # "deleted", event' = "active"
             PROVE  W(tasks'[s].job.photo, tasks'[s].pc)
  BY DEF TasksHaveWritten, Written, Alive, AfterClaim
<1> DEFINE p == tasks[s].job.photo
<1>1. ASSUME tasks[s].pc \in AfterClaim, tasks'[s].job = tasks[s].job PROVE W(p, tasks[s].pc)
  <2>1. p \in Photos
    BY <1>1, JobKinds DEF Typed, KindOK, AfterClaim, ProcessSteps
  <2>2. /\ Alive(p) /\ objects[p] \subseteq objects'[p]
        /\ p \in vectors => p \in vectors'
        /\ p \in faceRows => p \in faceRows'
    BY <1>1, <2>1, DataSteps
  <2>3. Written(p, tasks[s].pc)
    BY <1>1, <2>2 DEF TasksHaveWritten
  <2>4. QED
    BY <2>2, <2>3 DEF Written
<1>2. CASE tasks'[s] = tasks[s]
  BY <1>1, <1>2
<1>3. CASE MovesTo(s, tasks'[s].pc) /\ Advance(tasks[s].job, tasks[s].pc, tasks'[s].pc)
  <2>1. tasks'[s].job = tasks[s].job
    BY <1>3 DEF MovesTo
  <2>2. CASE tasks'[s].pc = "fetch"
    BY <2>2
  <2>3. CASE tasks'[s].pc # "fetch"
    <3>1. tasks[s].pc \in AfterClaim
      BY <1>3, <2>3 DEF Advance, AfterClaim
    <3>2. W(p, tasks[s].pc)
      BY <1>1, <2>1, <3>1
    <3>3. QED
      BY <1>3, <2>1, <2>3, <3>2 DEF Advance, AfterClaim
  <2>4. QED
    BY <2>2, <2>3
<1>4. QED
  BY <1>2, <1>3, TaskChanges DEF AfterClaim

LEMMA ReadyIsCompleteStep ==
    ASSUME Typed, HeldIsRead, PurgesHaveTombstones, TasksHaveWritten, ReadyIsComplete, [Next]_vars
    PROVE  ReadyIsComplete'
<1> SUFFICES ASSUME NEW p \in Photos, status'[p] = "ready", event' = "active"
             PROVE  objects'[p] = Objects /\ p \in vectors' /\ p \in faceRows'
  BY DEF ReadyIsComplete, Objects
<1>1. /\ Alive(p) /\ objects[p] \subseteq objects'[p] /\ objects'[p] \subseteq Objects
      /\ p \in vectors => p \in vectors'
      /\ p \in faceRows => p \in faceRows'
  BY DataSteps, TypedStep DEF Typed, TypeOK
<1>2. Objects \subseteq objects[p] /\ p \in vectors /\ p \in faceRows
  <2>1. CASE status[p] = "ready"
    BY <1>1, <2>1 DEF ReadyIsComplete, Alive
  <2>2. CASE \E s \in Slots : Finishing(s, p)
    <3>1. PICK s \in Slots : Finishing(s, p)
      BY <2>2
    <3>2. Written(p, "ready")
      BY <1>1, <3>1 DEF Finishing, TasksHaveWritten, AfterClaim
    <3>3. QED
      BY <3>2 DEF Written, Objects
  <2>3. QED
    BY <2>1, <2>2, StatusSteps DEF StatusStep
<1>3. QED
  BY <1>1, <1>2

-----------------------------------------------------------------------------
(* No job vanishes.                                                         *)

\* A photo's generation and its job go together.
LEMMA RequeueCommits ==
    ASSUME Typed, [Next]_vars, NEW p \in Photos, gen'[p] # gen[p]
    PROVE  ProcessMsg(p, gen'[p]) \in committed'
<1> USE DEF photoVars, dataVars, outboxVars, groupVars
<1>1. gen \in [Photos -> 0..MaxGen] /\ MaxGen \in Nat
  BY BoundsAssumption DEF Typed, TypeOK
<1>2. ASSUME NEW q \in Photos, FinalizeCompleted(q) \/ Reprocess(q)
      PROVE  ProcessMsg(p, gen'[p]) \in committed'
  <2>1. gen' = [gen EXCEPT ![q] = @ + 1] /\ committed' = committed \cup {ProcessMsg(q, gen[q] + 1)}
    BY <1>2 DEF FinalizeCompleted, Reprocess, Enqueue, Queue!Commit
  <2>2. p = q /\ gen'[p] = gen[q] + 1
    BY <1>1, <2>1
  <2>3. QED
    BY <2>1, <2>2
<1>3. \E q \in Photos : FinalizeCompleted(q) \/ Reprocess(q)
  <2>1. ASSUME NEW s \in Slots, TaskStep(s) PROVE gen' = gen
    BY <2>1 DEF TaskStep, Processing, Claim, GetObject, PutDerivative, ExtractFaces, TerminalError, UpsertFaces,
       ReplaceFaces, MarkReady, Purging, RemoveObjects, RemoveVectors, RemoveRows, AttemptFails, Ending,
       MarkFailed, Ack, AckFailed, DeadLetter, DeadAck
  <2>2. ASSUME \/ \E q \in Photos : CheckCompletion(q) \/ GiveUpCompletion(q) \/ AssembleObject(q) \/ Delete(q)
               \/ Archive
               \/ \E m \in Messages : Publisher(m) \/ Autoclaim(m)
               \/ Loops \/ WorkerCrash
               \/ UNCHANGED vars
        PROVE  gen' = gen
    BY <2>2 DEF CheckCompletion, GiveUpCompletion, AssembleObject, Delete, Archive,
       Publisher, Take, HandOver, Settle, LetGo,
       Autoclaim, Loops, ReadBatch, DispatchFresh, DispatchReclaimed, WorkerCrash, vars
  <2>3. QED
    BY <2>1, <2>2 DEF Next, Api
<1>4. QED
  BY <1>2, <1>3

\* What a step reads becomes pending.
LEMMA ReadSteps ==
    ASSUME Typed, [Next]_vars, NEW m, m \in Range(SubSeq(delivered', 1, cursor'))
    PROVE  Read(m) \/ m \in pel'
<1>1. QueueStep /\ TypeOK /\ TypeOK'
  BY QueueSteps, TypedStep DEF Typed
<1>2. /\ delivered \in Seq(committed) /\ cursor \in 0..Len(delivered) /\ Len(delivered) \in Nat
      /\ delivered' \in Seq(committed') /\ cursor' \in 0..Len(delivered') /\ Len(delivered') \in Nat
  BY <1>1 DEF TypeOK
<1>3. PICK i \in 1..cursor' : delivered'[i] = m
  BY <1>2, PrefixRange
<1>4. CASE i <= cursor
  <2>1. i \in 1..cursor /\ i \in 1..Len(delivered)
    BY <1>2, <1>4
  <2>2. delivered'[i] = delivered[i]
    BY <1>1, <1>2, <2>1 DEF QueueStep, GrowStep
  <2>3. QED
    BY <1>1, <1>3, <2>1, <2>2, ReadPrefix
<1>5. CASE ~(i <= cursor)
  <2>1. ReadBatch
    BY <1>1, <1>2, <1>5 DEF QueueStep, PendingStep
  <2>2. delivered' = delivered
    BY <2>1 DEF ReadBatch, outboxVars
  <2>3. i \in cursor + 1..cursor'
    BY <1>2, <1>5
  <2>4. m \in Range(fresh') /\ pel' = pel \cup Range(fresh')
    BY <1>1, <1>3, <2>1, <2>2, <2>3, ReadBatchReads
  <2>5. QED
    BY <2>4
<1>6. QED
  BY <1>4, <1>5

LEMMA AccountedStep ==
    ASSUME Typed, HeldIsRead, NoFutureJobs, AckedIsDecided, DeadIsKept, Accounted, [Next]_vars
    PROVE  Accounted'
<1> SUFFICES ASSUME NEW p \in Photos, status'[p] \in {"queued", "processing"}, event' = "active"
             PROVE  LET m == ProcessMsg(p, gen'[p]) IN
                    /\ gen'[p] > 0
                    /\ m \in committed'
                    /\ m \in settled' => m \in Range(delivered')
                    /\ m \in Range(SubSeq(delivered', 1, cursor')) => m \in pel' \cup dlq'
  BY DEF Accounted, Read, ProcessMsg
<1> DEFINE m == ProcessMsg(p, gen'[p])
<1>0. /\ QueueStep /\ StatusStep(p) /\ TypeOK /\ TypeOK' /\ EventStep
      /\ gen[p] \in 0..MaxGen /\ gen'[p] \in 0..MaxGen /\ MaxGen \in Nat /\ settled \subseteq committed
      /\ event \in {"active", "archived"}
  BY QueueSteps, StatusSteps, TypedStep, BoundsAssumption DEF Typed, TypeOK
<1>1. m.photo = p /\ m.gen = gen'[p]
  BY DEF ProcessMsg
<1>2. m \in settled' => m \in settled \/ m \in Range(delivered')
  BY <1>0, <1>1 DEF QueueStep, SettleStep, GrowStep
<1>3. CASE gen'[p] = gen[p] + 1
  <2>1. gen'[p] \in 1..MaxGen /\ gen'[p] > gen[p]
    BY <1>0, <1>3
  <2>2. m \notin committed
    BY <1>0, <2>1 DEF NoFutureJobs
  <2>3. m \in committed'
    BY <1>0, <2>1, RequeueCommits
  <2>4. m \in settled' => m \in Range(delivered')
    BY <1>0, <1>2, <2>2
  <2>5. m \in Range(SubSeq(delivered', 1, cursor')) => m \in pel'
    BY <1>0, <2>2, ReadSteps, ReadIsDelivered
  <2>6. QED
    BY <1>0, <2>1, <2>3, <2>4, <2>5
<1>4. CASE gen'[p] = gen[p]
  <2>1. status[p] \in {"queued", "processing"} /\ event = "active"
    BY <1>0, <1>4 DEF StatusStep, EventStep
  <2>2. /\ gen[p] > 0 /\ m \in committed
        /\ m \in settled => m \in Range(delivered)
        /\ Read(m) => m \in pel \cup dlq
    BY <1>4, <2>1 DEF Accounted
  <2>3. m \in committed' /\ (m \in settled' => m \in Range(delivered')) /\ dlq \subseteq dlq'
    BY <1>0, <1>2, <2>2 DEF QueueStep, GrowStep
  <2>4. ASSUME m \in pel, m \notin pel' PROVE m \in dlq'
    <3>1. PICK s \in Slots : tasks[s].job = m /\ tasks[s].pc \in {"ack", "failack", "deadack"}
      BY <1>0, <2>4 DEF QueueStep, AckStep
    <3>2. m \in AllJobs
      BY <1>0, <1>4, <2>2 DEF AllJobs, Jobs
    <3>3. tasks[s].pc = "deadack"
      BY <1>1, <1>4, <2>1, <3>1, <3>2 DEF AckedIsDecided
    <3>4. QED
      BY <2>3, <3>1, <3>3 DEF DeadIsKept
  <2>5. m \in Range(SubSeq(delivered', 1, cursor')) => m \in pel' \cup dlq'
    BY <2>2, <2>3, <2>4, ReadSteps
  <2>6. QED
    BY <1>4, <2>2, <2>3, <2>5
<1>5. QED
  BY <1>0, <1>3, <1>4 DEF StatusStep

-----------------------------------------------------------------------------
(* The invariant holds, and what follows from it.                           *)

LEMMA InitIInv == Init => IInv
<1> SUFFICES ASSUME Init PROVE IInv
  OBVIOUS
<1>1. Typed
  BY InitTyped
<1>2. /\ \A s \in Slots : tasks[s].pc = "idle"
      /\ \A p \in Photos : status[p] = "uploading"
      /\ pel = {} /\ reclaimed = None /\ committed = {} /\ Range(fresh) = {}
  BY DEF Init, Queue!Init, Idle, Range
<1>3. TaskInv
  BY <1>2 DEF TaskInv, HeldIsRead, TasksHaveWritten, ClaimedIsNotQueued, AckedIsDecided, DeadIsKept, AfterClaim
<1>4. PhotoInv
  BY <1>2 DEF PhotoInv, PurgesHaveTombstones, NoFutureJobs, ReadyIsComplete, DecidedByCurrentGeneration, Accounted
<1>5. QED
  BY <1>1, <1>3, <1>4 DEF IInv

LEMMA StepIInv == IInv /\ [Next]_vars => IInv'
<1> SUFFICES ASSUME IInv, [Next]_vars PROVE IInv'
  OBVIOUS
<1> USE DEF IInv, TaskInv, PhotoInv
<1>1. Typed'
  BY TypedStep
<1>2. TaskInv'
  BY HeldStep, TasksHaveWrittenStep, ClaimedIsNotQueuedStep, AckedIsDecidedStep, DeadIsKeptStep
<1>3. PhotoInv'
  BY PurgesHaveTombstonesStep, NoFutureJobsStep, ReadyIsCompleteStep, DecidedStep, AccountedStep
<1>4. QED
  BY <1>1, <1>2, <1>3

\* The strengthened invariant is inductive.
THEOREM Inductive == Spec => []IInv
BY InitIInv, StepIInv, PTL DEF Spec

\* A ready photo has its original, derivatives, vectors and face rows, however many tasks,
\* duplicates, retries and crashes there were (processor.py, deletion.py).
THEOREM ReadyPhotosAreComplete == Spec => []ReadyIsComplete
<1>1. IInv => ReadyIsComplete
  BY DEF IInv, PhotoInv
<1>2. QED
  BY <1>1, Inductive, PTL

\* Every verdict on a photo is on the generation it now has (persist.py).
THEOREM VerdictsAreCurrent == Spec => []DecidedByCurrentGeneration
<1>1. IInv => DecidedByCurrentGeneration
  BY DEF IInv, PhotoInv
<1>2. QED
  BY <1>1, Inductive, PTL

\* What is in the stream has been read or has not.
LEMMA ReadOrUnread ==
    ASSUME TypeOK, NEW m \in Range(delivered), ~Read(m)
    PROVE  Unread(m)
<1>1. delivered \in Seq(committed) /\ cursor \in 0..Len(delivered) /\ Len(delivered) \in Nat
  BY DEF TypeOK
<1>2. PICK i \in 1..Len(delivered) : delivered[i] = m
  BY <1>1 DEF Range
<1>3. ~(i <= cursor)
  <2>1. ASSUME i <= cursor PROVE i \in 1..cursor
    BY <1>1, <2>1
  <2>2. QED
    BY <1>2, <2>1, ReadPrefix
<1> DEFINE t == SubSeq(delivered, cursor + 1, Len(delivered))
<1>4. DOMAIN t = 1..Len(delivered) - cursor /\ \A j \in 1..Len(delivered) - cursor : t[j] = delivered[cursor + j]
  BY <1>1
<1>5. i - cursor \in 1..Len(delivered) - cursor /\ t[i - cursor] = m
  BY <1>1, <1>2, <1>3, <1>4
<1> HIDE DEF t
<1>6. m \in Range(t)
  BY <1>4, <1>5 DEF Range
<1>7. QED
  BY <1>6 DEF Unread, t

\* The job of an undecided photo is in the outbox, the stream or the dead-letter stream,
\* whatever crashes and failures there were (consumer.py).
THEOREM NoJobVanishes == Spec => []WorkIsVisible
<1>1. IInv => WorkIsVisible
  <2> SUFFICES ASSUME IInv, NEW p \in Photos, status[p] \in {"queued", "processing"}, event = "active"
               PROVE  Visible(ProcessMsg(p, gen[p]))
    BY DEF WorkIsVisible
  <2> DEFINE m == ProcessMsg(p, gen[p])
  <2>1. /\ TypeOK /\ m \in committed
        /\ m \in settled => m \in Range(delivered)
        /\ Read(m) => m \in pel \cup dlq
    BY DEF IInv, PhotoInv, Accounted, Typed
  <2> HIDE DEF m
  <2>2. Visible(m)
    BY <2>1, ReadOrUnread DEF Visible
  <2>3. QED
    BY <2>2 DEF m
<1>2. QED
  BY <1>1, Inductive, PTL

\* The statements of both programs together keep to the lifecycle table, for only a task that
\* has claimed its generation fails it (photo.CanTransition).
THEOREM LifecycleTable == Spec => StatusFollowsTable
<1>1. IInv /\ [Next]_vars =>
        [\A p \in Photos : status[p] # status'[p] =>
           \/ CanTransition(status[p], status'[p])
           \/ \E mid \in {"uploaded"} : /\ CanTransition(status[p], mid)
                                        /\ CanTransition(mid, status'[p])]_vars
  <2> SUFFICES ASSUME IInv, [Next]_vars, NEW p \in Photos, status[p] # status'[p]
               PROVE  \/ CanTransition(status[p], status'[p])
                      \/ CanTransition(status[p], "uploaded") /\ CanTransition("uploaded", status'[p])
    OBVIOUS
  <2>1. StatusStep(p)
    BY StatusSteps DEF IInv
  <2>2. ASSUME NEW s \in Slots, Failing(s, p) PROVE status[p] # "queued"
    BY <2>2 DEF IInv, TaskInv, ClaimedIsNotQueued, Failing, AfterClaim
  <2>3. QED
    BY <2>1, <2>2 DEF StatusStep, CanTransition
<1>2. QED
  BY <1>1, Inductive, PTL DEF StatusFollowsTable, Spec

-----------------------------------------------------------------------------
(* Where photos come from.                                                  *)

\* What completing an upload leaves to others.
OthersKept == UNCHANGED <<event, status, gen, vectors, faceRows, outboxVars, groupVars, tasks, faults>>

\* The pipeline takes a photo in whenever and only when PhotoUpload.tla hands it over: each step
\* of UploadService.Complete is a step of PhotoUpload with what it does to the rest, no more
\* guarded, so that a photo is explored with every upload that UploadSessions.tla may bring.
THEOREM UploadStepsAreTaken ==
    ASSUME TypeOK, NEW p \in Photos
    PROVE  /\ CheckCompletion(p) <=> Completion!Check(p) /\ UNCHANGED objects /\ OthersKept
           /\ GiveUpCompletion(p) <=> Completion!GiveUp(p) /\ UNCHANGED objects /\ OthersKept
           /\ AssembleObject(p) <=>
                 /\ Completion!Assemble(p) /\ OthersKept
                 /\ objects' = [objects EXCEPT ![p] = @ \cup {"original"}]
           /\ FinalizeCompleted(p) <=>
                 /\ Completion!Queue(p) /\ Enqueue(p)
                 /\ UNCHANGED <<event, upload, dataVars, groupVars, tasks, faults>>
<1> USE DEF dataVars, outboxVars, groupVars
<1>1. /\ status \in [Photos -> Statuses] /\ Stage \in [Photos -> {"waiting", "queued", "gone"}]
      /\ Stage[p] = "waiting" <=> status[p] = "uploading"
  BY DEF TypeOK, Stage, Statuses
<1>2. UNCHANGED <<event, status>> => UNCHANGED <<event = "active", Stage>>
  BY DEF Stage
<1>3. CheckCompletion(p) <=> Completion!Check(p) /\ UNCHANGED objects /\ OthersKept
  BY <1>1, <1>2 DEF CheckCompletion, Completion!Check, Completion!Moves, OthersKept
<1>4. GiveUpCompletion(p) <=> Completion!GiveUp(p) /\ UNCHANGED objects /\ OthersKept
  BY <1>2 DEF GiveUpCompletion, Completion!GiveUp, Completion!Moves, OthersKept
<1>5. AssembleObject(p) <=>
        /\ Completion!Assemble(p) /\ OthersKept
        /\ objects' = [objects EXCEPT ![p] = @ \cup {"original"}]
  BY <1>2 DEF AssembleObject, Completion!Assemble, Completion!Moves, OthersKept
<1>6. FinalizeCompleted(p) <=>
        /\ Completion!Queue(p) /\ Enqueue(p)
        /\ UNCHANGED <<event, upload, dataVars, groupVars, tasks, faults>>
  <2>1. Enqueue(p) => Stage' = [Stage EXCEPT ![p] = "queued"]
    <3> SUFFICES ASSUME Enqueue(p) PROVE Stage' = [Stage EXCEPT ![p] = "queued"]
      OBVIOUS
    <3>1. status' = [status EXCEPT ![p] = "queued"]
      BY DEF Enqueue
    <3>2. ASSUME NEW q \in Photos PROVE Stage'[q] = [Stage EXCEPT ![p] = "queued"][q]
      BY <1>1, <3>1 DEF Stage
    <3>3. QED
      BY <1>1, <3>2 DEF Stage
  <2>2. QED
    BY <1>1, <1>2, <2>1 DEF FinalizeCompleted, Completion!Queue
<1>7. QED
  BY <1>3, <1>4, <1>5, <1>6

\* Without a new generation photos stay where they are, or go.
LEMMA StageKept ==
    ASSUME Typed, [Next]_vars, UNCHANGED <<event, upload, gen>>
    PROVE  [Completion!Next]_(Completion!uvars)
<1> DEFINE S == {p \in Photos : status'[p] = "deleted"}
<1>1. ASSUME NEW p \in Photos PROVE Stage'[p] = IF p \in S THEN "gone" ELSE Stage[p]
  <2>1. StatusStep(p) /\ gen[p] \in Nat
    BY StatusSteps, BoundsAssumption DEF Typed, TypeOK
  <2>2. QED
    BY <2>1 DEF StatusStep, Stage
<1>2. Stage' = [p \in Photos |-> IF p \in S THEN "gone" ELSE Stage[p]]
  BY <1>1 DEF Stage
<1>3. Completion!Delete(S)
  BY <1>2 DEF Completion!Delete
<1>4. QED
  BY <1>3 DEF Completion!Next

\* Photos enter the pipeline once each, of an assembled object, and not after their tombstone,
\* whatever the worker, the publishers and the rest of the API do meanwhile.
THEOREM UploadsAreServed == Spec => ServesUploads
<1> USE DEF photoVars
<1>1. Init => Completion!Init
  BY DEF Init, Completion!Init, Stage
<1>2. Typed /\ [Next]_vars => [Completion!Next]_(Completion!uvars)
  <2> SUFFICES ASSUME Typed, [Next]_vars PROVE [Completion!Next]_(Completion!uvars)
    OBVIOUS
  <2>0. TypeOK
    BY DEF Typed
  <2>1. ASSUME NEW p \in Photos,
               CheckCompletion(p) \/ GiveUpCompletion(p) \/ AssembleObject(p) \/ FinalizeCompleted(p)
        PROVE  Completion!Next
    BY <2>0, <2>1, UploadStepsAreTaken DEF Completion!Next
  <2>2. ASSUME NEW p \in Photos, Reprocess(p) PROVE UNCHANGED Completion!uvars
    <3>1. /\ status[p] = "failed" /\ status' = [status EXCEPT ![p] = "queued"]
          /\ UNCHANGED <<event, upload>>
      BY <2>2 DEF Reprocess, Enqueue
    <3>2. ASSUME NEW q \in Photos PROVE Stage'[q] = Stage[q]
      BY <2>0, <3>1 DEF TypeOK, Stage
    <3>3. Stage' = Stage
      BY <3>2 DEF Stage
    <3>4. QED
      BY <3>1, <3>3 DEF Completion!uvars
  <2>3. ASSUME NEW p \in Photos, Delete(p) PROVE [Completion!Next]_(Completion!uvars)
    BY <2>3, StageKept DEF Delete
  <2>4. ASSUME Archive PROVE Completion!Close
    BY <2>4 DEF Archive, Completion!Close, Stage
  <2>5. CASE \/ \E m \in Messages : Publisher(m) \/ Autoclaim(m)
             \/ Loops \/ WorkerCrash \/ UNCHANGED vars
    <3>1. UNCHANGED <<event, upload, gen>>
      BY <2>5 DEF vars, Publisher, Take, HandOver, Settle, LetGo,
         Autoclaim, Loops, ReadBatch, DispatchFresh, DispatchReclaimed, WorkerCrash
    <3>2. QED
      BY <3>1, StageKept
  <2>6. ASSUME NEW s \in Slots, TaskStep(s) PROVE [Completion!Next]_(Completion!uvars)
    <3>1. UNCHANGED <<event, upload, gen>>
      BY <2>6 DEF TaskStep, Processing, Purging, Ending, Claim, GetObject, PutDerivative, ExtractFaces,
         TerminalError, UpsertFaces, ReplaceFaces, MarkReady, MarkFailed, RemoveObjects, RemoveVectors,
         RemoveRows, AttemptFails, Ack, AckFailed, DeadLetter, DeadAck
    <3>2. QED
      BY <3>1, StageKept
  <2>7. QED
    BY <2>1, <2>2, <2>3, <2>4, <2>5, <2>6 DEF Next, Api, Completion!Next
<1>3. QED
  BY <1>1, <1>2, InitTyped, TypedStep, PTL DEF Spec, ServesUploads, Completion!Spec

=============================================================================
