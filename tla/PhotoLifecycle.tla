----------------------------- MODULE PhotoLifecycle -----------------------------
(***************************************************************************)
(* What the API and the worker together promise about the photos of an     *)
(* event, whatever is redelivered, overtaken, retried or lost on the way:  *)
(* when a status may change, which generation it is about, and what data   *)
(* those who read it (search, downloads, the owner's pages) may rely on.   *)
(* PhotoPipeline.tla is how the promise is kept.                           *)
(***************************************************************************)
EXTENDS Naturals

CONSTANT Photos

VARIABLES
    open,     \* the event is not archived
    status,   \* of each photo
    gen,      \* how often work was asked for
    handed,   \* the generations of each photo whose job was handed to the worker
    whole     \* photos with their original, derivatives, vectors and face rows

vars == <<open, status, gen, handed, whole>>

Init ==
    /\ open = TRUE
    /\ status = [p \in Photos |-> "uploading"]
    /\ gen = [p \in Photos |-> 0]
    /\ handed = [p \in Photos |-> {}]
    /\ whole = {}

Becomes(p, new) == status' = [status EXCEPT ![p] = new]

\* A new photo, or one that failed, is worth an attempt: the next generation.
Ask(p) ==
    /\ status[p] \in {"uploading", "failed"}
    /\ Becomes(p, "queued")
    /\ gen' = [gen EXCEPT ![p] = @ + 1]
    /\ UNCHANGED <<open, handed, whole>>

\* Jobs are handed out in any order and number, but only jobs that were asked for.
HandOut ==
    /\ handed' \in [Photos -> SUBSET Nat]
    /\ \A p \in Photos : handed[p] \subseteq handed'[p] /\ handed'[p] \subseteq 1..gen[p]
    /\ UNCHANGED <<open, status, gen, whole>>

\* Only the job of its present generation takes a photo over.
Begin(p) ==
    /\ status[p] = "queued" /\ gen[p] \in handed[p]
    /\ Becomes(p, "processing")
    /\ UNCHANGED <<open, gen, handed, whole>>

\* A photo that was handed out, and no other, becomes whole.
Build(p) ==
    /\ handed[p] # {}
    /\ whole' = whole \cup {p}
    /\ UNCHANGED <<open, status, gen, handed>>

\* Good news is given once, and of a whole photo, unless the event was closed meanwhile.
Pass(p) ==
    /\ status[p] = "processing" /\ (open => p \in whole)
    /\ Becomes(p, "ready")
    /\ UNCHANGED <<open, gen, handed, whole>>

\* Bad news is given of what was begun and not decided.
Reject(p) ==
    /\ status[p] = "processing"
    /\ Becomes(p, "failed")
    /\ UNCHANGED <<open, gen, handed, whole>>

Tombstone(p) == Becomes(p, "deleted") /\ UNCHANGED <<open, gen, handed, whole>>

Close == open' = FALSE /\ UNCHANGED <<status, gen, handed, whole>>

\* Only what has a tombstone loses data ...
Purge ==
    /\ whole' \subseteq whole
    /\ \A p \in whole \ whole' : status[p] = "deleted" \/ ~open
    /\ UNCHANGED <<open, status, gen, handed>>

\* ... and the photos of a closed event get theirs.
Clear ==
    /\ ~open
    /\ whole' \subseteq whole
    /\ status' = [p \in Photos |-> "deleted"]
    /\ UNCHANGED <<open, gen, handed>>

Next ==
    \/ \E p \in Photos : Ask(p) \/ Begin(p) \/ Build(p) \/ Pass(p) \/ Reject(p) \/ Tombstone(p)
    \/ HandOut \/ Close \/ Purge \/ Clear

Spec == Init /\ [][Next]_vars

=============================================================================
