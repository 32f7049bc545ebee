------------------------------- MODULE Handoff -------------------------------
(***************************************************************************)
(* What the transactional outbox promises to the code on either side of it *)
(* (apps/api/internal/domain/outbox/outbox.go): a message is committed     *)
(* together with the domain change that asked for it, is handed to the     *)
(* stream at most once, and is settled only once it has been handed over   *)
(* or has been withdrawn by a tombstone.  Outbox.tla implements it.        *)
(***************************************************************************)
EXTENDS Sequences, Functions

CONSTANT Messages

VARIABLES committed,  \* messages whose outbox row exists
          settled,    \* messages whose row is 'published': nobody takes them again
          claimed,    \* messages some publisher has taken and not yet finished
          delivered   \* the stream, in XADD order

hvars == <<committed, settled, claimed, delivered>>

Init == /\ committed = {}
        /\ settled = {}
        /\ claimed = {}
        /\ delivered = << >>

\* A transaction commits C and withdraws W (a tombstone withdraws the work it covers).
Commit(C, W) == /\ W \subseteq committed
                /\ committed' = committed \cup C
                /\ settled' = settled \cup W
                /\ UNCHANGED <<claimed, delivered>>

\* A publisher takes messages that are committed and not settled.
Take(S) == /\ S \subseteq committed \ settled
           /\ claimed' = claimed \cup S
           /\ UNCHANGED <<committed, settled, delivered>>

\* A taken message enters the stream, unless it is there already.
Deliver(m) == /\ m \in claimed \ Range(delivered)
              /\ delivered' = Append(delivered, m)
              /\ UNCHANGED <<committed, settled, claimed>>

\* Publishers let go of R; of the messages let go, only delivered ones settle.
Finish(D, R) == /\ D \subseteq Range(delivered)
                /\ settled' = settled \cup D
                /\ claimed' = claimed \ R
                /\ UNCHANGED <<committed, delivered>>

Next == \/ \E C, W \in SUBSET Messages : Commit(C, W)
        \/ \E S \in SUBSET Messages : Take(S)
        \/ \E m \in Messages : Deliver(m)
        \/ \E D, R \in SUBSET Messages : Finish(D, R)

Spec == Init /\ [][Next]_hvars

=============================================================================
