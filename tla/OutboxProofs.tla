---------------------------- MODULE OutboxProofs ----------------------------
(***************************************************************************)
(* The outbox for any number of publishers, messages and faults: its type  *)
(* invariant, at-most-once enqueueing, no lost message, finality of        *)
(* published rows, and that it implements Handoff.                         *)
(***************************************************************************)
EXTENDS Outbox, TLAPS

-----------------------------------------------------------------------------
(* Sequences.                                                               *)

\* Appending an element that a duplicate-free sequence lacks adds exactly that element.
LEMMA AppendFresh ==
    ASSUME NEW S, NEW s \in Seq(S), NEW e \in S, IsInjective(s), e \notin Range(s)
    PROVE  /\ Append(s, e) \in Seq(S)
           /\ Range(Append(s, e)) = Range(s) \cup {e}
           /\ IsInjective(Append(s, e))
<1> DEFINE t == Append(s, e)
<1>1. /\ t \in Seq(S) /\ Len(s) \in Nat /\ Len(t) = Len(s) + 1
      /\ DOMAIN s = 1 .. Len(s) /\ DOMAIN t = 1 .. Len(s) + 1
      /\ t[Len(s) + 1] = e
      /\ \A i \in 1 .. Len(s) : t[i] = s[i]
  OBVIOUS
<1>2. Range(t) = Range(s) \cup {e}
  <2>1. Range(t) \subseteq Range(s) \cup {e}
    BY <1>1 DEF Range
  <2>2. e \in Range(t)
    <3>1. Len(s) + 1 \in DOMAIN t
      BY <1>1
    <3>2. QED
      BY <1>1, <3>1 DEF Range
  <2>3. Range(s) \subseteq Range(t)
    <3>1. ASSUME NEW i \in DOMAIN s PROVE i \in DOMAIN t /\ t[i] = s[i]
      BY <1>1
    <3>2. QED
      BY <3>1 DEF Range
  <2>4. QED
    BY <2>1, <2>2, <2>3
<1>3. IsInjective(t)
  <2> SUFFICES ASSUME NEW i \in DOMAIN t, NEW j \in DOMAIN t, t[i] = t[j]
               PROVE  i = j
    BY DEF IsInjective
  <2>1. \A k \in DOMAIN s : s[k] # e
    BY DEF Range
  <2>2. CASE i \in DOMAIN s /\ j \in DOMAIN s
    BY <1>1, <2>2 DEF IsInjective
  <2>3. CASE i \notin DOMAIN s \/ j \notin DOMAIN s
    BY <1>1, <2>1, <2>3
  <2>4. QED
    BY <2>2, <2>3
<1>4. QED
  BY <1>1, <1>2, <1>3

-----------------------------------------------------------------------------
(* The inductive invariant.                                                 *)

\* The stream holds exactly the keys of the dedup set, each once.
StreamIsDedup == Range(stream) = dedup /\ IsInjective(stream)

\* A publisher that goes on to mark a row as published has seen it enqueued.
SentIsEnqueued == \A p \in Publishers : pc[p] = "sent" => item[p] \in dedup

\* Publishers hold, and the stream contains, only messages whose row exists.
HeldIsCommitted == \A p \in Publishers : \A m \in batch[p] : rows[m] # "absent"
EnqueuedIsCommitted == \A m \in dedup : rows[m] # "absent"

\* Between ticks a publisher holds nothing.
IdleHoldsNothing == \A p \in Publishers : pc[p] \in {"tick", "claim"} => batch[p] = {}

IInv == /\ TypeOK
        /\ IdleHoldsNothing
        /\ StreamIsDedup
        /\ SentIsEnqueued
        /\ HeldIsCommitted
        /\ EnqueuedIsCommitted
        /\ PublishedMeansHandedOver

LEMMA InitIInv == Init => IInv
<1> SUFFICES ASSUME Init PROVE IInv
  OBVIOUS
<1>1. stream \in Seq(Messages) /\ DOMAIN stream = {}
  BY DEF Init
<1>2. QED
  BY <1>1 DEF Init, IInv, TypeOK, StreamIsDedup, SentIsEnqueued, HeldIsCommitted,
     EnqueuedIsCommitted, PublishedMeansHandedOver, IdleHoldsNothing, RowStatus, Phases, Range, IsInjective

\* Each step keeps the types.
LEMMA TypeStep == TypeOK /\ [Next]_vars => TypeOK'
<1> SUFFICES ASSUME TypeOK, [Next]_vars PROVE TypeOK'
  OBVIOUS
<1> USE DEF TypeOK, rowVars, redisVars, procVars, Fault, RowStatus, Phases
<1>1. ASSUME NEW w \in Work, RequestWork(w) PROVE TypeOK'
  BY <1>1 DEF RequestWork, Messages
<1>2. ASSUME NEW d \in Purge, Tombstone(d) PROVE TypeOK'
  BY <1>2 DEF Tombstone, Neutralized
<1>3. ASSUME NEW p \in Publishers, RecoverStale(p) PROVE TypeOK'
  BY <1>3 DEF RecoverStale, Stale
<1>4. ASSUME NEW p \in Publishers, Claim(p) PROVE TypeOK'
  BY <1>4 DEF Claim, Claimable, Due
<1>5. ASSUME NEW p \in Publishers, NEW m \in Messages, XaddOk(p, m) PROVE TypeOK'
  BY <1>5 DEF XaddOk, Xadd
<1>6. ASSUME NEW p \in Publishers, NEW m \in Messages, XaddError(p, m) PROVE TypeOK'
  <2>1. stream' \in Seq(Messages) /\ dedup' \subseteq Messages
    <3>1. CASE Xadd(m)
      BY <3>1 DEF Xadd
    <3>2. CASE UNCHANGED redisVars
      BY <3>2
    <3>3. QED
      BY <1>6, <3>1, <3>2 DEF XaddError
  <2>2. QED
    BY <1>6, <2>1 DEF XaddError
<1>7. ASSUME NEW p \in Publishers, MarkPublished(p) PROVE TypeOK'
  BY <1>7 DEF MarkPublished, NextItem, StillPublishing
<1>8. ASSUME NEW p \in Publishers, MarkFailed(p) PROVE TypeOK'
  BY <1>8 DEF MarkFailed, NextItem, StillPublishing
<1>9. ASSUME NEW p \in Publishers, MarkLost(p) PROVE TypeOK'
  BY <1>9 DEF MarkLost, NextItem
<1>10. ASSUME NEW p \in Publishers, Crash(p) PROVE TypeOK'
  BY <1>10 DEF Crash
<1>11. ASSUME NEW m \in Messages, BackoffElapses(m) PROVE TypeOK'
  BY <1>11 DEF BackoffElapses
<1>12. ASSUME NEW m \in Messages, LeaseExpires(m) PROVE TypeOK'
  BY <1>12 DEF LeaseExpires
<1>13. CASE UNCHANGED vars
  BY <1>13 DEF vars
<1>14. QED
  BY <1>1, <1>2, <1>3, <1>4, <1>5, <1>6, <1>7, <1>8, <1>9, <1>10, <1>11, <1>12, <1>13
     DEF Next, Publish

\* The outbox is type-correct.
THEOREM TypeCorrect == Spec => []TypeOK
<1>1. Init => TypeOK
  BY InitIInv DEF IInv
<1>2. QED
  BY <1>1, TypeStep, PTL DEF Spec

-----------------------------------------------------------------------------
(* Preservation of the invariant.                                           *)

\* The script keeps the stream and its dedup set in step.
LEMMA XaddKeepsStream ==
    ASSUME TypeOK, StreamIsDedup, NEW m \in Messages, Xadd(m)
    PROVE  StreamIsDedup'
<1>1. CASE m \in dedup
  BY <1>1 DEF Xadd, StreamIsDedup
<1>2. CASE m \notin dedup
  <2>1. stream' = Append(stream, m) /\ dedup' = dedup \cup {m}
    BY <1>2 DEF Xadd
  <2>2. /\ Range(Append(stream, m)) = Range(stream) \cup {m}
        /\ IsInjective(Append(stream, m))
    BY <1>2, AppendFresh DEF TypeOK, StreamIsDedup
  <2>3. QED
    BY <2>1, <2>2 DEF StreamIsDedup
<1>3. QED
  BY <1>1, <1>2

\* A row, once inserted, stays; so a withdrawal is never forgotten.
LEMMA CommittedStays ==
    ASSUME TypeOK, [Next]_vars, NEW m \in Messages, rows[m] # "absent"
    PROVE  rows'[m] # "absent"
<1> USE DEF TypeOK, rowVars, redisVars, procVars
<1>1. ASSUME NEW w \in Work, RequestWork(w) PROVE rows'[m] # "absent"
  BY <1>1 DEF RequestWork, Messages
<1>2. ASSUME NEW d \in Purge, Tombstone(d) PROVE rows'[m] # "absent"
  BY <1>2 DEF Tombstone
<1>3. ASSUME NEW p \in Publishers, RecoverStale(p) PROVE rows'[m] # "absent"
  BY <1>3 DEF RecoverStale
<1>4. ASSUME NEW p \in Publishers, Claim(p) PROVE rows'[m] # "absent"
  BY <1>4 DEF Claim
<1>5. ASSUME NEW p \in Publishers, NEW k \in Messages, XaddOk(p, k) \/ XaddError(p, k)
      PROVE rows'[m] # "absent"
  BY <1>5 DEF XaddOk, XaddError
<1>6. ASSUME NEW p \in Publishers, MarkPublished(p) PROVE rows'[m] # "absent"
  BY <1>6 DEF MarkPublished
<1>7. ASSUME NEW p \in Publishers, MarkFailed(p) PROVE rows'[m] # "absent"
  BY <1>7 DEF MarkFailed
<1>8. ASSUME NEW p \in Publishers, MarkLost(p) \/ Crash(p) PROVE rows'[m] # "absent"
  BY <1>8 DEF MarkLost, Crash
<1>9. ASSUME NEW k \in Messages, BackoffElapses(k) \/ LeaseExpires(k)
      PROVE rows'[m] # "absent"
  BY <1>9 DEF BackoffElapses, LeaseExpires
<1>10. CASE UNCHANGED vars
  BY <1>10 DEF vars
<1>11. QED
  BY <1>1, <1>2, <1>3, <1>4, <1>5, <1>6, <1>7, <1>8, <1>9, <1>10 DEF Next, Publish

LEMMA WithdrawnStays ==
    ASSUME TypeOK, [Next]_vars, NEW m \in Messages, Withdrawn(m)
    PROVE  Withdrawn(m)'
  BY CommittedStays DEF Withdrawn, Messages

\* A message once in the dedup set stays there, and only Xadd adds one.
LEMMA DedupStep ==
    ASSUME TypeOK, [Next]_vars
    PROVE  /\ dedup \subseteq dedup'
           /\ \/ UNCHANGED redisVars
              \/ \E p \in Publishers : \E m \in batch[p] : Xadd(m)
<1>1. ASSUME NEW p \in Publishers, NEW m \in Messages, XaddOk(p, m) \/ XaddError(p, m)
      PROVE  \/ UNCHANGED redisVars
             \/ \E q \in Publishers : \E k \in batch[q] : Xadd(k)
  BY <1>1 DEF XaddOk, XaddError
<1>2. \/ UNCHANGED redisVars
      \/ \E p \in Publishers : \E m \in batch[p] : Xadd(m)
  BY <1>1 DEF Next, Publish, vars, RequestWork, Tombstone, RecoverStale, Claim, MarkPublished,
     MarkFailed, MarkLost, Crash, BackoffElapses, LeaseExpires
<1>3. dedup \subseteq dedup'
  BY <1>2 DEF Xadd, redisVars
<1>4. QED
  BY <1>2, <1>3

\* The stream and the dedup set agree after every step.
LEMMA StreamStep == IInv /\ [Next]_vars => StreamIsDedup'
<1> SUFFICES ASSUME IInv, [Next]_vars PROVE StreamIsDedup'
  OBVIOUS
<1>1. CASE UNCHANGED redisVars
  BY <1>1 DEF IInv, StreamIsDedup, redisVars
<1>2. CASE \E p \in Publishers : \E m \in batch[p] : Xadd(m)
  <2>1. PICK p \in Publishers : \E m \in batch[p] : Xadd(m)
    BY <1>2
  <2>2. PICK m \in batch[p] : Xadd(m)
    BY <2>1
  <2>3. m \in Messages
    BY DEF IInv, TypeOK
  <2>4. QED
    BY <2>2, <2>3, XaddKeepsStream DEF IInv
<1>3. QED
  BY <1>1, <1>2, DedupStep DEF IInv

\* Only messages publishers hold enter the stream, and those have rows.
LEMMA EnqueuedStep == IInv /\ [Next]_vars => EnqueuedIsCommitted'
<1> SUFFICES ASSUME IInv, [Next]_vars PROVE EnqueuedIsCommitted'
  OBVIOUS
<1>1. \A m \in dedup' : m \in dedup \/ \E p \in Publishers : m \in batch[p]
  BY DedupStep DEF IInv, Xadd, redisVars
<1>2. \A m \in dedup' : m \in Messages /\ rows[m] # "absent"
  BY <1>1 DEF IInv, TypeOK, HeldIsCommitted, EnqueuedIsCommitted
<1>3. QED
  BY <1>2, CommittedStays DEF IInv, EnqueuedIsCommitted

\* A publisher takes up only rows that exist.
LEMMA HeldStep == IInv /\ [Next]_vars => HeldIsCommitted'
<1> SUFFICES ASSUME IInv, [Next]_vars, NEW p \in Publishers, NEW m \in batch'[p]
             PROVE  rows'[m] # "absent"
  BY DEF HeldIsCommitted
<1> USE DEF IInv, TypeOK, rowVars, redisVars, procVars
<1>1. m \in Messages
  BY TypeStep
<1>2. m \in batch[p] \/ rows[m] \in {"pending", "failed"}
  <2>1. ASSUME NEW q \in Publishers, Claim(q)
        PROVE  m \in batch[p] \/ rows[m] \in {"pending", "failed"}
    BY <2>1 DEF Claim, Due
  <2>2. ASSUME NEW q \in Publishers, MarkPublished(q) \/ MarkFailed(q) \/ MarkLost(q)
        PROVE  m \in batch[p]
    <3>1. batch' = [batch EXCEPT ![q] = @ \ {item[q]}]
      BY <2>2 DEF MarkPublished, MarkFailed, MarkLost, NextItem
    <3>2. QED
      BY <3>1
  <2>3. ASSUME NEW q \in Publishers, Crash(q) PROVE m \in batch[p]
    BY <2>3 DEF Crash
  <2>4. QED
    BY <2>1, <2>2, <2>3 DEF Next, Publish, vars, RequestWork, Tombstone, RecoverStale,
       XaddOk, XaddError, BackoffElapses, LeaseExpires
<1>3. rows[m] # "absent"
  BY <1>2 DEF HeldIsCommitted
<1>4. QED
  BY <1>1, <1>3, CommittedStays

\* The message a publisher has sent is in the dedup set until it is marked.
LEMMA SentStep == IInv /\ [Next]_vars => SentIsEnqueued'
<1> SUFFICES ASSUME IInv, [Next]_vars, NEW p \in Publishers, pc'[p] = "sent"
             PROVE  item'[p] \in dedup'
  BY DEF SentIsEnqueued
<1> USE DEF IInv, TypeOK, rowVars, redisVars, procVars
<1>1. item'[p] \in dedup \/ item'[p] \in dedup'
  <2>1. ASSUME NEW q \in Publishers, NEW m \in Messages, XaddOk(q, m)
        PROVE  item'[p] \in dedup \/ item'[p] \in dedup'
    BY <2>1 DEF XaddOk, Xadd, SentIsEnqueued
  <2>2. ASSUME NEW q \in Publishers, NEW m \in Messages, XaddError(q, m)
        PROVE  item'[p] \in dedup
    BY <2>2 DEF XaddError, SentIsEnqueued
  <2>3. ASSUME NEW q \in Publishers, MarkPublished(q) \/ MarkFailed(q) \/ MarkLost(q)
        PROVE  item'[p] \in dedup
    BY <2>3 DEF MarkPublished, MarkFailed, MarkLost, NextItem, SentIsEnqueued
  <2>4. ASSUME NEW q \in Publishers, RecoverStale(q) \/ Claim(q) \/ Crash(q)
        PROVE  item'[p] \in dedup
    BY <2>4 DEF RecoverStale, Claim, Crash, SentIsEnqueued
  <2>5. QED
    BY <2>1, <2>2, <2>3, <2>4 DEF Next, Publish, vars, RequestWork, Tombstone,
       BackoffElapses, LeaseExpires, SentIsEnqueued
<1>2. QED
  BY <1>1, DedupStep

\* A row becomes published only by a publisher that enqueued its message or a covering tombstone.
LEMMA HandedOverStep == IInv /\ [Next]_vars => PublishedMeansHandedOver'
<1> SUFFICES ASSUME IInv, [Next]_vars, NEW m \in Messages, rows'[m] = "published"
             PROVE  m \in dedup' \/ Withdrawn(m)'
  BY DEF PublishedMeansHandedOver
<1> USE DEF IInv, TypeOK, rowVars, redisVars, procVars
<1>1. CASE rows[m] = "published"
  BY <1>1, DedupStep, WithdrawnStays DEF PublishedMeansHandedOver
<1>2. CASE rows[m] # "published"
  <2>1. ASSUME NEW d \in Purge, Tombstone(d) PROVE Withdrawn(m)'
    <3>1. m \in Covers[d] /\ d \in Messages
      BY <1>2, <2>1 DEF Tombstone, Neutralized, Messages
    <3>2. d \notin Covers[d]
      BY MessagesAssumption
    <3>3. rows'[d] # "absent"
      BY <2>1, <3>1, <3>2 DEF Tombstone, Neutralized
    <3>4. QED
      BY <3>1, <3>3 DEF Withdrawn
  <2>2. ASSUME NEW p \in Publishers, MarkPublished(p) PROVE m \in dedup
    BY <1>2, <2>2 DEF MarkPublished, SentIsEnqueued
  <2>3. \/ \E d \in Purge : Tombstone(d)
        \/ \E p \in Publishers : MarkPublished(p)
    <3>1. ASSUME NEW w \in Work, RequestWork(w) PROVE FALSE
      BY <1>2, <3>1 DEF RequestWork
    <3>2. ASSUME NEW p \in Publishers, RecoverStale(p) PROVE FALSE
      BY <1>2, <3>2 DEF RecoverStale
    <3>3. ASSUME NEW p \in Publishers, Claim(p) PROVE FALSE
      BY <1>2, <3>3 DEF Claim
    <3>4. ASSUME NEW p \in Publishers, MarkFailed(p) PROVE FALSE
      BY <1>2, <3>4 DEF MarkFailed
    <3>5. QED
      BY <1>2, <3>1, <3>2, <3>3, <3>4 DEF Next, Publish, vars, XaddOk, XaddError, MarkLost,
         Crash, BackoffElapses, LeaseExpires
  <2>4. QED
    BY <2>1, <2>2, <2>3, DedupStep
<1>3. QED
  BY <1>1, <1>2

\* The loop returns to its ticker only with an empty batch.
LEMMA IdleStep == IInv /\ [Next]_vars => IdleHoldsNothing'
<1> SUFFICES ASSUME IInv, [Next]_vars, NEW p \in Publishers, pc'[p] \in {"tick", "claim"}
             PROVE  batch'[p] = {}
  BY DEF IdleHoldsNothing
<1> USE DEF IInv, TypeOK, IdleHoldsNothing, rowVars, procVars
<1>1. ASSUME NEW q \in Publishers, RecoverStale(q) PROVE batch'[p] = {}
  BY <1>1 DEF RecoverStale
<1>2. ASSUME NEW q \in Publishers, Claim(q) PROVE batch'[p] = {}
  BY <1>2 DEF Claim
<1>3. ASSUME NEW q \in Publishers, Publish(q) PROVE batch'[p] = {}
  BY <1>3 DEF Publish, XaddOk, XaddError
<1>4. ASSUME NEW q \in Publishers, MarkPublished(q) \/ MarkFailed(q) \/ MarkLost(q)
      PROVE  batch'[p] = {}
  <2>1. NextItem(q)
    BY <1>4 DEF MarkPublished, MarkFailed, MarkLost
  <2>2. QED
    BY <2>1 DEF NextItem
<1>5. ASSUME NEW q \in Publishers, Crash(q) PROVE batch'[p] = {}
  BY <1>5 DEF Crash
<1>6. QED
  BY <1>1, <1>2, <1>3, <1>4, <1>5 DEF Next, vars, RequestWork, Tombstone, BackoffElapses,
     LeaseExpires

LEMMA IInvStep == IInv /\ [Next]_vars => IInv'
  BY TypeStep, IdleStep, StreamStep, SentStep, HeldStep, EnqueuedStep, HandedOverStep DEF IInv

THEOREM Inductive == Spec => []IInv
  BY InitIInv, IInvStep, PTL DEF Spec

-----------------------------------------------------------------------------
(* The results.                                                             *)

\* No message is ever in the stream twice (luaXADDDedup), with any number of publishers.
THEOREM AtMostOnce == Spec => []NoDuplicateEnqueue
<1>1. IInv => NoDuplicateEnqueue
  BY DEF IInv, StreamIsDedup, NoDuplicateEnqueue
<1>2. QED
  BY <1>1, Inductive, PTL

\* No committed message is lost: published rows are enqueued, or withdrawn by a tombstone.
THEOREM NothingLost == Spec => []PublishedMeansHandedOver
<1>1. IInv => PublishedMeansHandedOver
  BY DEF IInv
<1>2. QED
  BY <1>1, Inductive, PTL

\* A step leaves published rows published: each UPDATE's WHERE excludes them.
LEMMA FinalStep ==
    ASSUME TypeOK, [Next]_vars, NEW m \in Messages, rows[m] = "published"
    PROVE  rows'[m] = "published"
<1> USE DEF TypeOK, rowVars, redisVars, procVars
<1>1. ASSUME NEW w \in Work, RequestWork(w) PROVE rows'[m] = "published"
  BY <1>1 DEF RequestWork, Messages
<1>2. ASSUME NEW d \in Purge, Tombstone(d) PROVE rows'[m] = "published"
  BY <1>2 DEF Tombstone
<1>3. ASSUME NEW p \in Publishers, RecoverStale(p) PROVE rows'[m] = "published"
  BY <1>3 DEF RecoverStale, Stale
<1>4. ASSUME NEW p \in Publishers, Claim(p) PROVE rows'[m] = "published"
  BY <1>4 DEF Claim, Due
<1>5. ASSUME NEW p \in Publishers, MarkPublished(p) PROVE rows'[m] = "published"
  BY <1>5 DEF MarkPublished, StillPublishing
<1>6. ASSUME NEW p \in Publishers, MarkFailed(p) PROVE rows'[m] = "published"
  BY <1>6 DEF MarkFailed, StillPublishing
<1>7. QED
  BY <1>1, <1>2, <1>3, <1>4, <1>5, <1>6 DEF Next, Publish, vars, XaddOk, XaddError,
     MarkLost, Crash, BackoffElapses, LeaseExpires

\* Publication is final, although publishers act on claims that may have expired.
THEOREM PublicationIsFinal == Spec => PublishedIsFinal
<1>1. TypeOK /\ [Next]_vars =>
        [\A m \in Messages : rows[m] = "published" => rows'[m] = "published"]_vars
  BY FinalStep
<1>2. QED
  BY <1>1, TypeCorrect, PTL DEF Spec, PublishedIsFinal

-----------------------------------------------------------------------------
(* Refinement.                                                              *)

LEMMA InitRefines == Init => Abstract!Init
<1> SUFFICES ASSUME Init PROVE Abstract!Init
  OBVIOUS
<1>1. Committed = {} /\ Settled = {} /\ Claimed = {}
  BY DEF Init, Committed, Settled, Claimed, Held
<1>2. QED
  BY <1>1 DEF Init, Abstract!Init

\* Inserting work commits it; a tombstone commits its purge and withdraws covered work.
LEMMA TransactionRefines ==
    ASSUME IInv, (\E w \in Work : RequestWork(w)) \/ (\E d \in Purge : Tombstone(d))
    PROVE  \E C, W \in SUBSET Messages : Abstract!Commit(C, W)
<1> USE DEF IInv, TypeOK, Messages, procVars, redisVars, Committed, Settled, Claimed, Held
<1>1. ASSUME NEW w \in Work, RequestWork(w)
      PROVE  \E C, W \in SUBSET Messages : Abstract!Commit(C, W)
  <2>1. /\ Committed' = Committed \cup {w} /\ Settled' = Settled \cup {}
        /\ UNCHANGED <<Claimed, stream>>
    BY <1>1 DEF RequestWork
  <2>2. Abstract!Commit({w}, {})
    BY <2>1 DEF Abstract!Commit
  <2>3. QED
    BY <2>2
<1>2. ASSUME NEW d \in Purge, Tombstone(d)
      PROVE  \E C, W \in SUBSET Messages : Abstract!Commit(C, W)
  <2>1. Neutralized(d) \in SUBSET Messages /\ Neutralized(d) \subseteq Committed
    BY MessagesAssumption DEF Neutralized
  <2>2. d \notin Neutralized(d)
    BY MessagesAssumption DEF Neutralized
  <2>3. Committed' = Committed \cup {d}
    BY <1>2, <2>1, <2>2 DEF Tombstone
  <2>4. Settled' = Settled \cup Neutralized(d)
    BY <1>2, <2>1, <2>2 DEF Tombstone
  <2>5. UNCHANGED <<Claimed, stream>>
    BY <1>2 DEF Tombstone
  <2>6. Abstract!Commit({d}, Neutralized(d))
    BY <2>1, <2>3, <2>4, <2>5 DEF Abstract!Commit
  <2>7. {d} \in SUBSET Messages
    OBVIOUS
  <2> HIDE DEF IInv, TypeOK, Messages, procVars, redisVars, Committed, Settled, Claimed, Held
  <2>8. QED
    BY <2>1, <2>6, <2>7
<1>3. QED
  BY <1>1, <1>2

\* Taking up due rows is Take; a claim whose result was lost takes nothing.
LEMMA ClaimRefines ==
    ASSUME IInv, NEW p \in Publishers, Claim(p)
    PROVE  \E S \in SUBSET Messages : Abstract!Take(S)
<1> USE DEF IInv, TypeOK, redisVars
<1>1. PICK S \in SUBSET Due :
        /\ rows' = [m \in Messages |-> IF m \in S THEN "publishing" ELSE rows[m]]
        /\ batch' = [batch EXCEPT ![p] = S] \/ batch' = batch
  BY DEF Claim
<1>2. batch[p] = {}
  BY DEF Claim, IdleHoldsNothing
<1>3. Due \subseteq Committed \ Settled
  BY DEF Due, Committed, Settled
<1>4. Committed' = Committed /\ Settled' = Settled
  BY <1>1 DEF Committed, Settled, Due
<1>5. stream' = stream
  BY DEF Claim
<1>6. CASE batch' = [batch EXCEPT ![p] = S]
  <2>1. Claimed' = Claimed \cup S
    BY <1>2, <1>6 DEF Claimed, Held, Due
  <2>2. Abstract!Take(S)
    BY <1>3, <1>4, <1>5, <2>1 DEF Abstract!Take
  <2>3. QED
    BY <2>2 DEF Due
<1>7. CASE batch' = batch
  <2>1. Claimed' = Claimed \cup {}
    BY <1>7 DEF Claimed, Held
  <2>2. Abstract!Take({})
    BY <1>4, <1>5, <2>1 DEF Abstract!Take
  <2>3. QED
    BY <2>2
<1>8. QED
  BY <1>1, <1>6, <1>7

\* An XADD that takes effect is Deliver; a duplicate or a failure changes nothing.
LEMMA PublishRefines ==
    ASSUME IInv, NEW p \in Publishers, Publish(p)
    PROVE  (\E m \in Messages : Abstract!Deliver(m)) \/ UNCHANGED Abstract!hvars
<1> USE DEF IInv, TypeOK, rowVars
<1>1. PICK m \in batch[p] : (Xadd(m) \/ UNCHANGED redisVars)
  BY DEF Publish, XaddOk, XaddError
<1>2. UNCHANGED <<Committed, Settled, Claimed>>
  BY DEF Publish, XaddOk, XaddError, Committed, Settled, Claimed, Held
<1>3. m \in Messages /\ m \in Claimed
  BY DEF Claimed, Held
<1>4. CASE m \notin dedup /\ Xadd(m)
  <2>1. m \notin Range(stream) /\ stream' = Append(stream, m)
    BY <1>4 DEF Xadd, StreamIsDedup
  <2>2. Abstract!Deliver(m)
    BY <1>2, <1>3, <2>1 DEF Abstract!Deliver, Abstract!Range, Range
  <2>3. QED
    BY <1>3, <2>2
<1>5. CASE m \in dedup \/ UNCHANGED redisVars
  <2>1. stream' = stream
    BY <1>1, <1>5 DEF Xadd, redisVars
  <2>2. QED
    BY <1>2, <2>1 DEF Abstract!hvars
<1>6. QED
  BY <1>1, <1>4, <1>5

\* Marking a row, losing the mark and crashing are Finish: only sent messages settle.
LEMMA MarkRefines ==
    ASSUME IInv, NEW p \in Publishers, MarkPublished(p) \/ MarkFailed(p) \/ MarkLost(p) \/ Crash(p)
    PROVE  \E D, R \in SUBSET Messages : Abstract!Finish(D, R)
<1> USE DEF IInv, TypeOK, rowVars, redisVars
<1> DEFINE R == Claimed \ Claimed'
<1>1. Committed' = Committed /\ stream' = stream
  <2>1. CASE MarkPublished(p)
    BY <2>1 DEF MarkPublished, StillPublishing, Committed
  <2>2. CASE MarkFailed(p)
    BY <2>2 DEF MarkFailed, StillPublishing, Committed
  <2>3. CASE MarkLost(p) \/ Crash(p)
    BY <2>3 DEF MarkLost, Crash, Committed
  <2>4. QED
    BY <2>1, <2>2, <2>3
<1>2. \A q \in Publishers : batch'[q] \subseteq batch[q]
  <2>1. CASE NextItem(p)
    BY <2>1 DEF NextItem
  <2>2. CASE Crash(p)
    BY <2>2 DEF Crash
  <2>3. QED
    BY <2>1, <2>2 DEF MarkPublished, MarkFailed, MarkLost
<1>3. Claimed' = Claimed \ R
  BY <1>2 DEF Claimed, Held
<1>4. PICK D \in SUBSET Messages : D \subseteq Range(stream) /\ Settled' = Settled \cup D
  <2>1. CASE MarkPublished(p) /\ StillPublishing(item[p])
    <3>1. item[p] \in Messages /\ item[p] \in Range(stream)
      BY <2>1 DEF MarkPublished, SentIsEnqueued, StreamIsDedup
    <3>2. Settled' = Settled \cup {item[p]}
      BY <2>1, <3>1 DEF MarkPublished, Settled
    <3>3. QED
      BY <3>1, <3>2
  <2>2. CASE ~(MarkPublished(p) /\ StillPublishing(item[p]))
    <3>1. Settled' = Settled \cup {}
      BY <2>2 DEF Settled, StillPublishing, MarkPublished, MarkFailed, MarkLost, Crash
    <3>2. QED
      BY <3>1
  <2>3. QED
    BY <2>1, <2>2
<1>5. Abstract!Finish(D, R)
  BY <1>1, <1>3, <1>4 DEF Abstract!Finish, Abstract!Range, Range
<1>6. R \in SUBSET Messages
  BY DEF Claimed
<1>7. QED
  BY <1>5, <1>6

\* Recovering stale claims and the passing of time change nothing Handoff can see.
LEMMA InvisibleSteps ==
    ASSUME IInv,
           \/ \E p \in Publishers : RecoverStale(p)
           \/ \E m \in Messages : BackoffElapses(m) \/ LeaseExpires(m)
           \/ UNCHANGED vars
    PROVE  UNCHANGED Abstract!hvars
<1> USE DEF IInv, TypeOK, procVars, redisVars, rowVars, Committed, Settled, Claimed, Held,
            Abstract!hvars
<1>1. ASSUME NEW p \in Publishers, RecoverStale(p) PROVE UNCHANGED Abstract!hvars
  <2>1. \A m \in Messages : rows'[m] = rows[m] \/ (rows[m] = "publishing" /\ rows'[m] = "pending")
    BY <1>1 DEF RecoverStale, Stale
  <2>2. Committed' = Committed /\ Settled' = Settled
    BY <2>1
  <2>3. batch' = batch /\ stream' = stream
    BY <1>1 DEF RecoverStale
  <2>4. QED
    BY <2>2, <2>3
<1>2. ASSUME NEW m \in Messages, BackoffElapses(m) \/ LeaseExpires(m)
      PROVE UNCHANGED Abstract!hvars
  BY <1>2 DEF BackoffElapses, LeaseExpires
<1>3. CASE UNCHANGED vars
  BY <1>3 DEF vars
<1>4. QED
  BY <1>1, <1>2, <1>3

\* The outbox implements Handoff, step by step.
THEOREM Refinement == Spec => ImplementsHandoff
<1>1. IInv /\ [Next]_vars => [Abstract!Next]_(Abstract!hvars)
  <2> SUFFICES ASSUME IInv, [Next]_vars PROVE Abstract!Next \/ UNCHANGED Abstract!hvars
    OBVIOUS
  <2>1. CASE (\E w \in Work : RequestWork(w)) \/ (\E d \in Purge : Tombstone(d))
    BY <2>1, TransactionRefines DEF Abstract!Next
  <2>2. ASSUME NEW p \in Publishers, Claim(p) PROVE Abstract!Next
    BY <2>2, ClaimRefines DEF Abstract!Next
  <2>3. ASSUME NEW p \in Publishers, Publish(p)
        PROVE  Abstract!Next \/ UNCHANGED Abstract!hvars
    BY <2>3, PublishRefines DEF Abstract!Next
  <2>4. ASSUME NEW p \in Publishers,
               MarkPublished(p) \/ MarkFailed(p) \/ MarkLost(p) \/ Crash(p)
        PROVE  Abstract!Next
    BY <2>4, MarkRefines DEF Abstract!Next
  <2>5. CASE \/ \E p \in Publishers : RecoverStale(p)
             \/ \E m \in Messages : BackoffElapses(m) \/ LeaseExpires(m)
             \/ UNCHANGED vars
    BY <2>5, InvisibleSteps
  <2>6. QED
    BY <2>1, <2>2, <2>3, <2>4, <2>5 DEF Next
<1>2. QED
  BY <1>1, InitRefines, Inductive, PTL DEF Spec, ImplementsHandoff, Abstract!Spec

=============================================================================
