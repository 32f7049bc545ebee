----------------------------- MODULE UploadSessions -----------------------------
(***************************************************************************)
(* The multipart upload of one photo: UploadService                        *)
(* (apps/api/internal/domain/photo/upload.go) serving concurrent requests  *)
(* against the session rows (store/postgres/photo_upload.go) and the       *)
(* object store's multipart uploads, which share one object key.           *)
(*                                                                         *)
(* The service relies on its repository to report a missing session as     *)
(* found = false.  The PostgreSQL repository reports an error instead: its *)
(* test for pgx.ErrNoRows comes after the error has been mapped.  The      *)
(* constant MissIsError says which of the two the model has.               *)
(***************************************************************************)
EXTENDS UploadPlan, FiniteSets

CONSTANTS
    Requests,     \* requests the API serves at once
    Uploads,      \* multipart upload ids the object store hands out
    None,         \* no upload
    ByteSize,     \* photos.byte_size
    Manifests,    \* the lists of part numbers clients send to complete an upload
    MissIsError,  \* the session lookups return an error when no row matches
    MaxFaults     \* bound on process crashes, lost replies and storage errors

ASSUME NoneAssumption == None \notin Uploads
ASSUME PhotoAssumption == ByteSize \in Nat \ {0} /\ \A parts \in Manifests : parts \in Seq(Nat)
ASSUME ModesAssumption == MissIsError \in BOOLEAN /\ MaxFaults \in Nat

VARIABLES
    event,    \* events.status
    photo,    \* photos.status
    gen,      \* photos.processing_generation
    session,  \* photo_upload_sessions.status per upload id, "none" before the insert
    lapsed,   \* uploads whose session is past expires_at
    overran,  \* history: uploads whose session expired under a completion let in but not begun
    multi,    \* the multipart upload in the object store
    pieces,   \* parts an open upload has; parts an assembled one was assembled from
    object,   \* the upload the stored object was assembled from
    reqs,     \* what each request is doing
    faults    \* faults so far (bound only)

photoVars == <<event, photo, gen>>
expiry    == <<lapsed, overran>>
rowVars   == <<session, expiry>>
storeVars == <<multi, pieces, object>>
vars      == <<photoVars, rowVars, storeVars, reqs, faults>>

Idle == [op |-> "none", pc |-> "idle", upload |-> None, parts |-> {}, result |-> "none"]

Request == [op : {"initiate", "complete", "abort", "none"},
            pc : {"find", "open", "create", "abandon", "refind", "assemble", "stat",
                  "finalize", "release", "mark", "done"},
            upload : Uploads \cup {None}, parts : SUBSET (1..MaxParts),
            result : {"none", "ok", "failed", "lookup"}]

TypeOK ==
    /\ event \in {"active", "archived"}
    /\ photo \in {"pending", "uploading", "queued", "deleted"}
    /\ gen \in 0..1
    /\ session \in [Uploads -> {"none", "active", "completed", "aborted", "expired"}]
    /\ lapsed \subseteq Uploads
    /\ overran \subseteq Uploads
    /\ multi \in [Uploads -> {"none", "open", "assembled", "aborted"}]
    /\ pieces \in [Uploads -> SUBSET (1..MaxParts)]
    /\ object \in Uploads \cup {None}
    /\ reqs \in [Requests -> Request \cup {Idle}]
    /\ faults \in 0..MaxFaults
    \* one active session per photo: photo_upload_sessions_active_photo_idx
    /\ \A u, v \in Uploads : session[u] = "active" /\ session[v] = "active" => u = v

Init ==
    /\ event = "active"
    /\ photo = "pending"
    /\ gen = 0
    /\ session = [u \in Uploads |-> "none"]
    /\ lapsed = {}
    /\ overran = {}
    /\ multi = [u \in Uploads |-> "none"]
    /\ pieces = [u \in Uploads |-> {}]
    /\ object = None
    /\ reqs = [r \in Requests |-> Idle]
    /\ faults = 0

Fault == faults < MaxFaults /\ faults' = faults + 1

At(r, op, pc) == reqs[r].op = op /\ reqs[r].pc = pc
Goto(r, pc) == reqs' = [reqs EXCEPT ![r].pc = pc]

\* What is left of a request is its answer: "failed" stands for every error but that of a lookup,
\* and an initiate that succeeds names the session's upload.
Reply(r, result) == reqs' = [reqs EXCEPT ![r] = [Idle EXCEPT !.pc = "done", !.result = result]]
Answer(r, u) ==
    reqs' = [reqs EXCEPT ![r] = [op |-> "initiate", pc |-> "done", upload |-> u, parts |-> {}, result |-> "ok"]]

Eligible == photo \in {"pending", "uploading"} /\ event = "active"
Live(u)  == session[u] = "active" /\ u \notin lapsed

\* A client asks; completing and aborting name an upload.
Ask(r, op, u) ==
    /\ reqs[r] = Idle
    /\ op = "initiate" <=> u = None
    /\ reqs' = [reqs EXCEPT ![r] = [Idle EXCEPT !.op = op, !.pc = "find", !.upload = u]]
    /\ UNCHANGED <<photoVars, rowVars, storeVars, faults>>

Answered(r) ==
    /\ reqs[r].pc = "done"
    /\ reqs' = [reqs EXCEPT ![r] = Idle]
    /\ UNCHANGED <<photoVars, rowVars, storeVars, faults>>

-----------------------------------------------------------------------------
(* Initiate.                                                                *)

\* FindActive.
Found == {u \in Uploads : Live(u) /\ Eligible}

\* Initiate looks up the photo, then the active session, which it reuses.
FindOrOpen(r) ==
    /\ At(r, "initiate", "find")
    /\ \/ ~(Eligible /\ Admitted(ByteSize)) /\ Reply(r, "failed")
       \/ /\ Eligible /\ Admitted(ByteSize)
          /\ \E u \in Found : Answer(r, u)
       \/ /\ Eligible /\ Admitted(ByteSize) /\ Found = {}
          /\ IF MissIsError THEN Reply(r, "lookup") ELSE Goto(r, "open")
    /\ UNCHANGED <<photoVars, rowVars, storeVars, faults>>

\* The multipart upload is opened before any row knows of it.
OpenUpload(r) ==
    /\ At(r, "initiate", "open")
    /\ \/ \E u \in Uploads :
            /\ multi[u] = "none"
            /\ multi' = [multi EXCEPT ![u] = "open"]
            /\ reqs' = [reqs EXCEPT ![r].pc = "create", ![r].upload = u]
            /\ UNCHANGED faults
       \/ Fault /\ Reply(r, "failed") /\ UNCHANGED multi
       \* all of Uploads are used up (bound)
       \/ /\ \A u \in Uploads : multi[u] # "none"
          /\ Reply(r, "failed")
          /\ UNCHANGED <<multi, faults>>
    /\ UNCHANGED <<photoVars, rowVars, pieces, object>>

\* Mutant: the partial unique index is missing.
ConflictNever == FALSE

\* The unique index rejects a second active session; one past its expiry gives way.
Conflict == \E u \in Uploads : Live(u)

\* Sessions past their expiry become 'expired' in the same statement.
Expired == [u \in Uploads |-> IF session[u] = "active" /\ u \in lapsed THEN "expired" ELSE session[u]]

\* Create: one statement, so a conflict undoes all of it; its reply may be lost.
CreateSession(r) ==
    /\ At(r, "initiate", "create")
    /\ \/ /\ Eligible /\ ~Conflict
          /\ session' = [Expired EXCEPT ![reqs[r].upload] = "active"]
          /\ photo' = "uploading"
          /\ \/ Answer(r, reqs[r].upload) /\ UNCHANGED faults
             \/ Fault /\ Goto(r, "abandon")
       \/ /\ Eligible /\ Conflict
          /\ Goto(r, "abandon")
          /\ UNCHANGED <<session, photo, faults>>
       \/ /\ ~Eligible
          /\ session' = Expired
          /\ Goto(r, "abandon")
          /\ UNCHANGED <<photo, faults>>
    /\ UNCHANGED <<event, gen, expiry, storeVars>>

\* AbortMultipartUpload: the parts go with the upload.
Drop(u) ==
    /\ multi' = [multi EXCEPT ![u] = "aborted"]
    /\ pieces' = [pieces EXCEPT ![u] = {}]

\* Mutant: the loser leaves its multipart upload open.
AbandonNothing(r) ==
    /\ At(r, "initiate", "abandon")
    /\ Goto(r, "refind")
    /\ UNCHANGED <<photoVars, rowVars, storeVars, faults>>

\* The loser of a race aborts its own upload; an error (it is no longer open, or a fault) is
\* ignored.
Abandon(r) == LET u == reqs[r].upload IN
    /\ At(r, "initiate", "abandon")
    /\ \/ multi[u] = "open" /\ Drop(u) /\ UNCHANGED faults
       \/ multi[u] # "open" /\ UNCHANGED <<multi, pieces, faults>>
       \/ Fault /\ UNCHANGED <<multi, pieces>>
    /\ Goto(r, "refind")
    /\ UNCHANGED <<photoVars, rowVars, object>>

\* Mutant: the loser answers with the upload it opened itself.
RefindOwn(r) ==
    /\ At(r, "initiate", "refind")
    /\ IF Found = {} THEN Reply(r, "failed") ELSE Answer(r, reqs[r].upload)
    /\ UNCHANGED <<photoVars, rowVars, storeVars, faults>>

\* ... and answers with the session that won, if there is one.  The clock was read when the
\* request began, so a session that has lapsed since may be found too.
Refind(r) ==
    /\ At(r, "initiate", "refind")
    /\ \/ \E u \in Uploads : /\ session[u] = "active" /\ Eligible
                           /\ Answer(r, u)
       \/ Found = {} /\ Reply(r, IF MissIsError THEN "lookup" ELSE "failed")
    /\ UNCHANGED <<photoVars, rowVars, storeVars, faults>>

-----------------------------------------------------------------------------
(* Parts.                                                                   *)

\* SignPart, and the browser's PUT to the link.  A link used later than this changes nothing:
\* a completion looks the session up again, and an aborted upload takes no parts.
PutPart(u, n) ==
    /\ u \in Found /\ Signable(n, ByteSize)
    /\ multi[u] = "open" /\ n \notin pieces[u]
    /\ pieces' = [pieces EXCEPT ![u] = @ \cup {n}]
    /\ UNCHANGED <<photoVars, rowVars, multi, object, reqs, faults>>

-----------------------------------------------------------------------------
(* Complete.                                                                *)

\* Mutant: a session that has expired may still be completed.
CompletableExpired(u) == session[u] \in {"active", "expired"} /\ Eligible

\* Mutant: nobody asks whether the event is archived.
CompletableAnyEvent(u) == Live(u) /\ photo \in {"pending", "uploading"}

\* FindForCompletion, for the first completion ...
Completable(u) == Live(u) /\ Eligible

\* ... and for a replay.
Replayable(u)  == session[u] = "completed" /\ photo = "queued" /\ event = "active"

FindForCompletion(r) == LET u == reqs[r].upload IN
    /\ At(r, "complete", "find")
    /\ \E parts \in Manifests :
        \/ ~ValidManifest(parts) /\ Reply(r, "failed")
        \/ /\ ValidManifest(parts) /\ Completable(u) /\ FullCount(parts, ByteSize)
           /\ reqs' = [reqs EXCEPT ![r].pc = "assemble", ![r].parts = Range(parts)]
        \/ /\ ValidManifest(parts) /\ Completable(u) /\ ~FullCount(parts, ByteSize)
           /\ Reply(r, "failed")
        \/ ValidManifest(parts) /\ Replayable(u) /\ Reply(r, "ok")
        \/ /\ ValidManifest(parts) /\ ~Completable(u) /\ ~Replayable(u)
           /\ Reply(r, IF MissIsError THEN "lookup" ELSE "failed")
    /\ UNCHANGED <<photoVars, rowVars, storeVars, faults>>

\* CompleteMultipartUpload joins the listed parts and replaces the object; without an open
\* upload, or with a part it does not have, it is an error.
Assemble(r) == LET u == reqs[r].upload IN
    /\ At(r, "complete", "assemble")
    /\ \/ /\ multi[u] = "open" /\ reqs[r].parts \subseteq pieces[u]
          /\ multi' = [multi EXCEPT ![u] = "assembled"]
          /\ pieces' = [pieces EXCEPT ![u] = reqs[r].parts]
          /\ object' = u
          /\ \/ Goto(r, "stat") /\ UNCHANGED faults
             \/ Fault /\ Reply(r, "failed")
       \/ /\ ~(multi[u] = "open" /\ reqs[r].parts \subseteq pieces[u])
          /\ Reply(r, "failed")
          /\ UNCHANGED <<storeVars, faults>>
    /\ UNCHANGED <<photoVars, rowVars>>

\* The stored size, type and checksum are compared with what was announced.
Verify(r) ==
    /\ At(r, "complete", "stat")
    /\ Goto(r, "finalize") \/ Reply(r, "failed")
    /\ UNCHANGED <<photoVars, rowVars, storeVars, faults>>

\* Mutant: the session is completed though no photo row matched.
FinalizeHalf(r) == LET u == reqs[r].upload IN
    /\ At(r, "complete", "finalize")
    /\ session' = IF session[u] = "active" THEN [session EXCEPT ![u] = "completed"] ELSE session
    /\ IF photo = "uploading" /\ session[u] = "active"
         THEN photo' = "queued" /\ gen' = gen + 1 /\ Reply(r, "ok")
         ELSE Reply(r, "failed") /\ UNCHANGED <<photo, gen>>
    /\ UNCHANGED <<event, expiry, storeVars, faults>>

\* FinalizeCompleted: session and photo move in one transaction, or neither does.
Finalize(r) == LET u == reqs[r].upload IN
    /\ At(r, "complete", "finalize")
    /\ IF session[u] = "active" /\ photo = "uploading"
         THEN /\ session' = [session EXCEPT ![u] = "completed"]
              /\ photo' = "queued"
              /\ gen' = gen + 1
              /\ \/ Reply(r, "ok") /\ UNCHANGED faults
                 \/ Fault /\ Reply(r, "failed")
         ELSE Reply(r, "failed") /\ UNCHANGED <<session, photo, gen, faults>>
    /\ UNCHANGED <<event, expiry, storeVars>>

-----------------------------------------------------------------------------
(* Abort.                                                                   *)

\* Nothing to abort is success; another upload's session is not.
FindToAbort(r) ==
    /\ At(r, "abort", "find")
    /\ \/ Found = {} /\ Reply(r, IF MissIsError THEN "lookup" ELSE "ok")
       \/ reqs[r].upload \in Found /\ Goto(r, "release")
       \/ Found # {} /\ reqs[r].upload \notin Found /\ Reply(r, "failed")
    /\ UNCHANGED <<photoVars, rowVars, storeVars, faults>>

AbortUpload(r) == LET u == reqs[r].upload IN
    /\ At(r, "abort", "release")
    /\ \/ /\ multi[u] = "open"
          /\ Drop(u)
          /\ \/ Goto(r, "mark") /\ UNCHANGED faults
             \/ Fault /\ Reply(r, "failed")
       \/ multi[u] # "open" /\ Reply(r, "failed") /\ UNCHANGED <<multi, pieces, faults>>
    /\ UNCHANGED <<photoVars, rowVars, object>>

MarkAborted(r) == LET u == reqs[r].upload IN
    /\ At(r, "abort", "mark")
    /\ IF session[u] = "active"
         THEN session' = [session EXCEPT ![u] = "aborted"] /\ Reply(r, "ok")
         ELSE Reply(r, "failed") /\ UNCHANGED session
    /\ UNCHANGED <<photoVars, expiry, storeVars, faults>>

-----------------------------------------------------------------------------
(* Time, tombstones and crashes.                                            *)

\* A completion has looked the session up and will assemble the upload whatever happens to the
\* session meanwhile.
LetIn(u) == \E r \in Requests : At(r, "complete", "assemble") /\ reqs[r].upload = u

\* expires_at passes.
Lapse(u) ==
    /\ session[u] = "active" /\ u \notin lapsed
    /\ lapsed' = lapsed \cup {u}
    /\ overran' = IF LetIn(u) THEN overran \cup {u} ELSE overran
    /\ UNCHANGED <<photoVars, session, storeVars, reqs, faults>>

Delete ==
    /\ event = "active" /\ photo # "deleted"
    /\ photo' = "deleted"
    /\ UNCHANGED <<event, gen, rowVars, storeVars, reqs, faults>>

Archive ==
    /\ event = "active"
    /\ event' = "archived"
    /\ UNCHANGED <<photo, gen, rowVars, storeVars, reqs, faults>>

\* The API process dies with the request; the client gets no answer.
Crash(r) ==
    /\ reqs[r] # Idle /\ reqs[r].pc # "done"
    /\ Fault
    /\ reqs' = [reqs EXCEPT ![r] = Idle]
    /\ UNCHANGED <<photoVars, rowVars, storeVars>>

Client(r) == \/ Ask(r, "initiate", None) \/ Answered(r) \/ Crash(r)
             \/ \E u \in Uploads : Ask(r, "complete", u) \/ Ask(r, "abort", u)
Initiate(r) == FindOrOpen(r) \/ OpenUpload(r) \/ CreateSession(r) \/ Abandon(r) \/ Refind(r)
Complete(r) == FindForCompletion(r) \/ Assemble(r) \/ Verify(r) \/ Finalize(r)
Abort(r)    == FindToAbort(r) \/ AbortUpload(r) \/ MarkAborted(r)

Next ==
    \/ \E r \in Requests : Client(r) \/ Initiate(r) \/ Complete(r) \/ Abort(r)
    \/ \E u \in Uploads, n \in 1..MaxParts : PutPart(u, n)
    \/ \E u \in Uploads : Lapse(u)
    \/ Delete \/ Archive

Spec == Init /\ [][Next]_vars

-----------------------------------------------------------------------------
(* Properties.                                                              *)

\* A photo is queued exactly as often as one of its sessions is completed, though they are
\* two rows, and a tombstone or a lost reply may come between (FinalizeCompleted).
CompletedIsQueued == Cardinality({u \in Uploads : session[u] = "completed"}) = gen

\* The object of a queued photo is the one its completed session assembled and verified: no late
\* completion or abort of another session replaces it, although all of them share the object key.
\* But a completion does not look at the clock again: let in before its session expired and
\* assembled after another session was completed, it puts its upload in place of the object that
\* was verified (upload.go:141, :161).  Nothing else does.
QueuedObjectIsVerified ==
    photo = "queued" => \A u \in Uploads : session[u] = "completed" =>
        object = u \/ object \in overran

\* What was assembled is the whole photo: the completion counts the parts and does not ask
\* which they are, so it takes the bound SignPart puts on part numbers to make them the photo's
\* (upload.go:126, :158).
AssembledIsWhole ==
    \A u \in Uploads : multi[u] = "assembled" => pieces[u] = 1..PartCount(ByteSize)

\* Multipart uploads nobody will ever find: open, without a session, held by no request.  An open
\* upload whose session has expired, or whose photo is deleted, is not among them: its row names
\* it, though nothing in the code aborts it.
Orphans == {u \in Uploads : /\ multi[u] = "open" /\ session[u] = "none"
                            /\ \A r \in Requests : reqs[r].upload # u \/ reqs[r].op # "initiate"}

\* Racing initiates leave no multipart upload without a row: only a crash or a failed abort does,
\* one each (upload.go:98).
OnlyFaultsOrphan == Cardinality(Orphans) <= faults

\* The upload an initiate answers with is a session's, the winner's if it lost the race, so
\* that signing and completing can find it again.
AnswerHasSession ==
    \A r \in Requests : reqs[r].op = "initiate" /\ reqs[r].result = "ok" =>
        session[reqs[r].upload] # "none"

\* The upload as PhotoUpload.tla has it: how far completing has come, whichever request and
\* session it was that came so far.
ThePhoto == "photo"
Stage    == CASE photo \in {"pending", "uploading"} -> "waiting"
              [] photo = "queued" -> "queued"
              [] photo = "deleted" -> "gone"
Checking == \E r \in Requests : At(r, "complete", "assemble")
Progress == IF object # None /\ pieces[object] = 1..PartCount(ByteSize) THEN "assembled"
            ELSE IF Checking THEN "checked" ELSE "open"

Upload == INSTANCE PhotoUpload WITH
    Photos <- {ThePhoto}, open <- event = "active",
    stage <- [p \in {ThePhoto} |-> Stage], upload <- [p \in {ThePhoto} |-> Progress]

\* However many completions, sessions and multipart uploads race for the photo's one object
\* key, crash or give up: they come to one upload, let in while the photo waits in an active
\* event, and queued once, when the object is the whole photo (UploadService.Complete).
ImplementsPhotoUpload == Upload!Spec

\* upload.go:45-47 and TestAbortUploadIsIdempotentWithoutActiveSession (upload_test.go:162):
\* that there is no session is reported as found = false, never as an error.
MissIsNoError == \A r \in Requests : reqs[r].result # "lookup"

=============================================================================
