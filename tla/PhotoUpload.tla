------------------------------ MODULE PhotoUpload ------------------------------
(***************************************************************************)
(* What completing an upload does to its photo, however many requests,     *)
(* sessions and multipart uploads it takes: UploadSessions.tla implements  *)
(* it, and PhotoPipeline.tla starts its photos with these steps.           *)
(***************************************************************************)

CONSTANT Photos

VARIABLES
    open,    \* the event is active
    stage,   \* of each photo: "waiting" for its upload, "queued" (or beyond), "gone"
    upload   \* how far the completion of each photo's upload is

uvars == <<open, stage, upload>>

Init ==
    /\ open = TRUE
    /\ stage = [p \in Photos |-> "waiting"]
    /\ upload = [p \in Photos |-> "open"]

Moves(p, from, to) == upload[p] = from /\ upload' = [upload EXCEPT ![p] = to]

\* A completion is let in for a photo that waits in an active event ...
Check(p) == open /\ stage[p] = "waiting" /\ Moves(p, "open", "checked") /\ UNCHANGED <<open, stage>>

\* ... and may come to nothing, ...
GiveUp(p) == Moves(p, "checked", "open") /\ UNCHANGED <<open, stage>>

\* ... or to an object that is the whole photo, whatever became of the photo meanwhile.
Assemble(p) == Moves(p, "checked", "assembled") /\ UNCHANGED <<open, stage>>

\* A photo is queued once, of an assembled object, and not after its tombstone.
Queue(p) ==
    /\ stage[p] = "waiting" /\ upload[p] = "assembled"
    /\ stage' = [stage EXCEPT ![p] = "queued"]
    /\ UNCHANGED <<open, upload>>

\* A photo's tombstone, or those of all photos of an event.
Delete(S) ==
    /\ stage' = [p \in Photos |-> IF p \in S THEN "gone" ELSE stage[p]]
    /\ UNCHANGED <<open, upload>>

Close == open' = FALSE /\ UNCHANGED <<stage, upload>>

Next ==
    \/ \E p \in Photos : Check(p) \/ GiveUp(p) \/ Assemble(p) \/ Queue(p)
    \/ \E S \in SUBSET Photos : Delete(S)
    \/ Close

Spec == Init /\ [][Next]_uvars

=============================================================================
