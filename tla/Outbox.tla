-------------------------------- MODULE Outbox --------------------------------
(***************************************************************************)
(* The transactional outbox and its publishers: rows of outbox_messages    *)
(* (store/postgres/outbox.go) and the polling loop of every API process    *)
(* (platform/outbox_publisher.go, started by cmd/api/main.go), against one *)
(* Redis stream with its dedup set.                                        *)
(*                                                                         *)
(* A message is its idempotency key: UNIQUE (organization_id,              *)
(* idempotency_key) with ON CONFLICT DO NOTHING keeps one row per key.     *)
(* Time is abstracted to two facts about a row: its retry delay has not    *)
(* elapsed (backingOff) and its claim is older than the lease (expired).   *)
(***************************************************************************)
EXTENDS Naturals, FiniteSets, Sequences, Functions

CONSTANTS
    Publishers,  \* API processes, each with one publisher goroutine
    Work,        \* keys of photo.processing.requested messages
    Purge,       \* keys of photo/event.deletion.requested messages
    Covers,      \* Covers[d]: the work messages the tombstone that writes d neutralizes
    BatchSize,   \* OutboxPublisherConfig.BatchSize
    None,        \* no message
    MaxFaults    \* bound on crashes, database errors and overstayed leases

Messages == Work \cup Purge

ASSUME MessagesAssumption == /\ Work \cap Purge = {}
                             /\ None \notin Messages
                             /\ Covers \in [Purge -> SUBSET Work]
ASSUME BoundsAssumption == MaxFaults \in Nat /\ BatchSize \in Nat \ {0}

VARIABLES
    rows,        \* outbox_messages.status per key, "absent" before the insert
    backingOff,  \* failed rows with available_at > now()
    expired,     \* publishing rows with updated_at < now() - leaseTTL
    pc,          \* where each publisher's loop is
    batch,       \* claimed messages the publisher has not marked yet
    item,        \* the message it is marking
    stream,      \* the Redis stream, in XADD order
    dedup,       \* the stream's dedup set
    faults       \* faults so far (bound only)

rowVars   == <<rows, backingOff, expired>>
redisVars == <<stream, dedup>>
procVars  == <<pc, batch, item>>
vars      == <<rowVars, procVars, redisVars, faults>>

RowStatus == {"absent", "pending", "publishing", "published", "failed"}
Phases    == {"tick", "claim", "publish", "sent", "unsent"}

TypeOK ==
    /\ rows \in [Messages -> RowStatus]
    /\ backingOff \subseteq Messages
    /\ expired \subseteq Messages
    /\ pc \in [Publishers -> Phases]
    /\ batch \in [Publishers -> SUBSET Messages]
    /\ item \in [Publishers -> Messages \cup {None}]
    /\ stream \in Seq(Messages)
    /\ dedup \subseteq Messages
    /\ faults \in Nat
    \* only failed rows wait for a retry, and a publisher marks a message it holds
    /\ \A m \in backingOff : rows[m] = "failed"
    /\ \A p \in Publishers : pc[p] \in {"sent", "unsent"} => item[p] \in batch[p]

Init ==
    /\ rows = [m \in Messages |-> "absent"]
    /\ backingOff = {}
    /\ expired = {}
    /\ pc = [p \in Publishers |-> "tick"]
    /\ batch = [p \in Publishers |-> {}]
    /\ item = [p \in Publishers |-> None]
    /\ stream = << >>
    /\ dedup = {}
    /\ faults = 0

Fault == faults < MaxFaults /\ faults' = faults + 1

-----------------------------------------------------------------------------
(* Domain transactions that write rows.                                     *)

\* FinalizeCompleted / Reprocess: the row is inserted with the photo's transition.
RequestWork(w) ==
    /\ rows[w] = "absent"
    /\ rows' = [rows EXCEPT ![w] = "pending"]
    /\ UNCHANGED <<backingOff, expired, procVars, redisVars, faults>>

\* Mutant: the condition on event_type is missing, so the purge request is reached too.
NeutralizedAnyType(d) == {m \in Covers[d] \cup {d} : rows[m] \in {"pending", "failed"}}

\* The rows the tombstone's UPDATE ... status IN ('pending', 'failed') reaches.
Neutralized(d) == {w \in Covers[d] : rows[w] \in {"pending", "failed"}}

\* Delete / Archive: neutralize the covered work, insert the purge ON CONFLICT DO NOTHING.
Tombstone(d) ==
    /\ rows' = [m \in Messages |->
                  IF m \in Neutralized(d) THEN "published"
                  ELSE IF m = d /\ rows[d] = "absent" THEN "pending"
                  ELSE rows[m]]
    /\ backingOff' = backingOff \ Neutralized(d)
    /\ UNCHANGED <<expired, procVars, redisVars, faults>>

-----------------------------------------------------------------------------
(* The publisher loop.                                                      *)

\* Mutant: stale claims are never returned.
StaleNever == {}

Stale == {m \in expired : rows[m] = "publishing"}

\* Each tick first returns stale claims to 'pending'; a database error is only logged.
RecoverStale(p) ==
    /\ pc[p] = "tick"
    /\ pc' = [pc EXCEPT ![p] = "claim"]
    /\ \/ /\ rows' = [m \in Messages |-> IF m \in Stale THEN "pending" ELSE rows[m]]
          /\ expired' = expired \ Stale
          /\ UNCHANGED faults
       \/ Fault /\ UNCHANGED <<rows, expired>>
    /\ UNCHANGED <<backingOff, batch, item, redisVars>>

\* Mutant: available_at <= now() is missing.
DueAtOnce == {m \in Messages : rows[m] \in {"pending", "failed"}}

Due == {m \in Messages \ backingOff : rows[m] \in {"pending", "failed"}}

\* LIMIT: as many due rows as fit the batch, in an order time decides.
Claimable(S) == /\ S \subseteq Due
                /\ Cardinality(S) = IF Cardinality(Due) < BatchSize
                                    THEN Cardinality(Due) ELSE BatchSize

\* UPDATE ... SET status = 'publishing' ... FOR UPDATE SKIP LOCKED RETURNING.
Claim(p) ==
    /\ pc[p] = "claim"
    /\ \E S \in SUBSET Due :
         /\ Claimable(S)
         /\ rows' = [m \in Messages |-> IF m \in S THEN "publishing" ELSE rows[m]]
         /\ \/ /\ batch' = [batch EXCEPT ![p] = S]
               /\ pc' = [pc EXCEPT ![p] = IF S = {} THEN "tick" ELSE "publish"]
               /\ UNCHANGED faults
            \* the statement committed but its result was lost: nobody holds the rows
            \/ Fault /\ pc' = [pc EXCEPT ![p] = "tick"] /\ UNCHANGED batch
    /\ UNCHANGED <<backingOff, expired, item, redisVars>>

\* Mutant: a plain XADD.
XaddAlways(m) ==
    /\ stream' = Append(stream, m)
    /\ dedup' = dedup \cup {m}

\* luaXADDDedup: XADD and SADD in one script, unless the key was seen before.
Xadd(m) ==
    /\ stream' = IF m \in dedup THEN stream ELSE Append(stream, m)
    /\ dedup' = dedup \cup {m}

XaddOk(p, m) ==
    /\ pc[p] = "publish" /\ m \in batch[p]
    /\ Xadd(m)
    /\ pc' = [pc EXCEPT ![p] = "sent"]
    /\ item' = [item EXCEPT ![p] = m]
    /\ UNCHANGED <<rowVars, batch, faults>>

\* Mutant: the error is swallowed and the row marked as published.
XaddErrorIgnored(p, m) ==
    /\ pc[p] = "publish" /\ m \in batch[p]
    /\ Xadd(m) \/ UNCHANGED redisVars
    /\ pc' = [pc EXCEPT ![p] = "sent"]
    /\ item' = [item EXCEPT ![p] = m]
    /\ UNCHANGED <<rowVars, batch, faults>>

\* Redis is unreachable, or the script ran and its reply was lost.
XaddError(p, m) ==
    /\ pc[p] = "publish" /\ m \in batch[p]
    /\ Xadd(m) \/ UNCHANGED redisVars
    /\ pc' = [pc EXCEPT ![p] = "unsent"]
    /\ item' = [item EXCEPT ![p] = m]
    /\ UNCHANGED <<rowVars, batch, faults>>

\* The loop goes on to the next message of the batch, or back to the ticker.
NextItem(p) ==
    /\ batch' = [batch EXCEPT ![p] = @ \ {item[p]}]
    /\ pc' = [pc EXCEPT ![p] = IF batch[p] \subseteq {item[p]} THEN "tick" ELSE "publish"]
    /\ item' = [item EXCEPT ![p] = None]

\* Mutant: WHERE id = $1 only.
StillPublishingAny(m) == TRUE

\* WHERE id = $1 AND status = 'publishing'.
StillPublishing(m) == rows[m] = "publishing"

MarkPublished(p) ==
    /\ pc[p] = "sent"
    /\ IF StillPublishing(item[p])
         THEN /\ rows' = [rows EXCEPT ![item[p]] = "published"]
              /\ expired' = expired \ {item[p]}
         ELSE UNCHANGED <<rows, expired>>
    /\ NextItem(p)
    /\ UNCHANGED <<backingOff, redisVars, faults>>

MarkFailed(p) ==
    /\ pc[p] = "unsent"
    /\ IF StillPublishing(item[p])
         THEN /\ rows' = [rows EXCEPT ![item[p]] = "failed"]
              /\ backingOff' = backingOff \cup {item[p]}
              /\ expired' = expired \ {item[p]}
         ELSE UNCHANGED rowVars
    /\ NextItem(p)
    /\ UNCHANGED <<redisVars, faults>>

\* The mark itself fails: it is logged, and the row waits for its lease to expire.
MarkLost(p) ==
    /\ pc[p] \in {"sent", "unsent"}
    /\ Fault
    /\ NextItem(p)
    /\ UNCHANGED <<rowVars, redisVars>>

\* The process dies with its batch and is restarted.
Crash(p) ==
    /\ Fault
    /\ pc' = [pc EXCEPT ![p] = "tick"]
    /\ batch' = [batch EXCEPT ![p] = {}]
    /\ item' = [item EXCEPT ![p] = None]
    /\ UNCHANGED <<rowVars, redisVars>>

-----------------------------------------------------------------------------
(* Time.                                                                    *)

BackoffElapses(m) ==
    /\ m \in backingOff
    /\ backingOff' = backingOff \ {m}
    /\ UNCHANGED <<rows, expired, procVars, redisVars, faults>>

Held(m) == \E p \in Publishers : m \in batch[p]

\* A claim outlives its lease: nobody holds the row, or its holder is slow.
LeaseExpires(m) ==
    /\ rows[m] = "publishing" /\ m \notin expired
    /\ IF Held(m) THEN Fault ELSE UNCHANGED faults
    /\ expired' = expired \cup {m}
    /\ UNCHANGED <<rows, backingOff, procVars, redisVars>>

Publish(p) == \E m \in Messages : XaddOk(p, m) \/ XaddError(p, m)

Next ==
    \/ \E w \in Work : RequestWork(w)
    \/ \E d \in Purge : Tombstone(d)
    \/ \E p \in Publishers :
         RecoverStale(p) \/ Claim(p) \/ Publish(p) \/ MarkPublished(p)
           \/ MarkFailed(p) \/ MarkLost(p) \/ Crash(p)
    \/ \E m \in Messages : BackoffElapses(m) \/ LeaseExpires(m)

Spec == Init /\ [][Next]_vars

(***************************************************************************)
(* The loop runs as long as its process does and crashed processes are     *)
(* restarted (WF); Redis is not unreachable forever (SF on a successful    *)
(* XADD); delays elapse and abandoned leases expire (WF).                  *)
(***************************************************************************)
Fairness ==
    /\ \A p \in Publishers :
         /\ WF_vars(RecoverStale(p))
         /\ WF_vars(Claim(p))
         /\ WF_vars(Publish(p))
         /\ WF_vars(MarkPublished(p))
         /\ WF_vars(MarkFailed(p))
         /\ \A m \in Messages : SF_vars(XaddOk(p, m))
    /\ \A m \in Messages :
         /\ WF_vars(BackoffElapses(m))
         /\ WF_vars(LeaseExpires(m))

FairSpec == Spec /\ Fairness

-----------------------------------------------------------------------------
(* Properties.                                                              *)

\* Each committed message enters the stream at most once, whatever publishers crash,
\* overstay their lease or lose a reply (luaXADDDedup; at-least-once claims).
NoDuplicateEnqueue == IsInjective(stream)

\* Some tombstone that covers m has been written.
Withdrawn(m) == \E d \in Purge : m \in Covers[d] /\ rows[d] # "absent"

\* No committed work is lost: a row counts as published only if its message is in the
\* stream, or is work a tombstone withdrew.  A purge request can only be in the stream.
PublishedMeansHandedOver ==
    \A m \in Messages : rows[m] = "published" => m \in dedup \/ Withdrawn(m)

\* A row that is published (handed over or neutralized) is never taken up again, not
\* even by a publisher whose claim expired under it (the status = 'publishing' guards).
PublishedIsFinal ==
    [][\A m \in Messages : rows[m] = "published" => rows'[m] = "published"]_vars

\* Every committed message is eventually settled, so that none is retried forever.
EventuallySettled ==
    \A m \in Messages : rows[m] # "absent" ~> rows[m] = "published"

Committed == {m \in Messages : rows[m] # "absent"}
Settled   == {m \in Messages : rows[m] = "published"}
Claimed   == {m \in Messages : Held(m)}

\* The outbox keeps the promise stated in Handoff.tla: claims take unsettled rows only, the
\* stream grows by claimed messages only, and rows settle delivered or withdrawn.
Abstract == INSTANCE Handoff WITH
    committed <- Committed, settled <- Settled, claimed <- Claimed, delivered <- stream

ImplementsHandoff == Abstract!Spec

=============================================================================
