------------------------------- MODULE PhotoView -------------------------------
(***************************************************************************)
(* What those who search and download see of the photos of an event: the   *)
(* status they filter by and the points the vector index holds.            *)
(* PublicAccess.tla moves its photos by these actions; PhotoPipeline.tla   *)
(* implements them.                                                        *)
(***************************************************************************)

CONSTANT Photos

VARIABLES
    open,     \* the event is active
    status,   \* of each photo: "ready", "deleted", or "processing" for all that is neither
    vectors   \* photos with points in the index

vvars == <<open, status, vectors>>

Init ==
    /\ open = TRUE
    /\ status = [p \in Photos |-> "processing"]
    /\ vectors = {}

\* Points are upserted before the verdict, and may come back after a purge.
Index(p) ==
    /\ vectors' = vectors \cup {p}
    /\ UNCHANGED <<open, status>>

\* A photo of an active event is in the index before it is ready.
MarkReady(p) ==
    /\ status[p] = "processing" /\ (open => p \in vectors)
    /\ status' = [status EXCEPT ![p] = "ready"]
    /\ UNCHANGED <<open, vectors>>

\* Photos get their tombstones, one by one or with their event's purge.
Delete(S) ==
    /\ status' = [p \in DOMAIN status |-> IF p \in S THEN "deleted" ELSE status[p]]
    /\ UNCHANGED <<open, vectors>>

\* A purge reaches the index some time after the tombstone.
PurgeVectors(S) ==
    /\ \A p \in S : status[p] = "deleted" \/ ~open
    /\ vectors' = vectors \ S
    /\ UNCHANGED <<open, status>>

Close == open' = FALSE /\ UNCHANGED <<status, vectors>>

Next ==
    \/ \E p \in Photos : Index(p) \/ MarkReady(p)
    \/ \E S \in SUBSET Photos : Delete(S) \/ PurgeVectors(S)
    \/ Close

Spec == Init /\ [][Next]_vvars

=============================================================================
