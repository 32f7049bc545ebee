----------------------------- MODULE UploadProofs -----------------------------
(***************************************************************************)
(* Proofs about UploadSessions and the arithmetic it uses (UploadPlan).    *)
(***************************************************************************)
EXTENDS UploadSessions, TLAPS, FiniteSetTheorems

Whole == 1..PartCount(ByteSize)

\* A session's upload was opened; only a session's upload is assembled.
Rows ==
    \A u \in Uploads :
        /\ session[u] # "none" => multi[u] # "none"
        /\ multi[u] = "assembled" => session[u] # "none"

\* Nothing is queued yet; or one session was completed, and none is active any more.
Queue ==
    \/ /\ gen = 0 /\ photo # "queued"
       /\ \A u \in Uploads : session[u] # "completed"
    \/ /\ gen = 1 /\ photo \in {"queued", "deleted"}
       /\ \E u \in Uploads : {v \in Uploads : session[v] = "completed"} = {u}
       /\ \A u \in Uploads : session[u] # "active"

\* What a request under way knows of its upload.
Knows(q) ==
    /\ q.op = "initiate" /\ q.pc = "create" =>
        q.upload \in Uploads /\ session[q.upload] = "none" /\ multi[q.upload] # "none"
    /\ q.op = "initiate" /\ q.pc = "abandon" => q.upload \in Uploads
    /\ q.op = "initiate" /\ q.result = "ok" =>
        q.pc = "done" /\ q.upload \in Uploads /\ session[q.upload] # "none"
    /\ q.op \in {"complete", "abort"} => q.upload \in Uploads
    /\ q.op = "complete" /\ q.pc \in {"assemble", "stat", "finalize"} => session[q.upload] # "none"
    /\ q.op = "complete" /\ q.pc = "assemble" =>
        IsFiniteSet(q.parts) /\ Cardinality(q.parts) = PartCount(ByteSize)
    /\ q.op = "complete" /\ q.pc \in {"stat", "finalize"} => multi[q.upload] = "assembled"
    /\ q.op = "abort" /\ q.pc \in {"release", "mark"} => session[q.upload] # "none"
    /\ q.op = "abort" /\ q.pc = "mark" => multi[q.upload] = "aborted"

\* No two requests are about to insert a session for one upload.
Distinct ==
    \A r, s \in Requests :
        At(r, "initiate", "create") /\ At(s, "initiate", "create") /\ reqs[r].upload = reqs[s].upload
            => r = s

Parts ==
    \A u \in Uploads :
        /\ pieces[u] \subseteq Whole
        /\ multi[u] = "assembled" => pieces[u] = Whole

\* An initiate that will yet insert a session for its upload, or abandon it.
Holds(q, u) == q.op = "initiate" /\ q.pc \in {"create", "abandon"} /\ q.upload = u

\* Open, without a session, and held by nobody.
Stray == {u \in Uploads : /\ multi[u] = "open" /\ session[u] = "none"
                          /\ \A r \in Requests : ~Holds(reqs[r], u)}

Strays == IsFiniteSet(Stray) /\ Cardinality(Stray) <= faults

\* An upload that may still be assembled is the active session's, or that session expired under
\* the completion.
Current(q) ==
    q.op = "complete" /\ q.pc = "assemble" /\ multi[q.upload] = "open" =>
        (session[q.upload] = "active" /\ q.upload \notin lapsed) \/ q.upload \in overran

\* An active session's upload is the object from when it is assembled, unless one whose session
\* expired under its completion comes in its place.
OneObject ==
    /\ \A r \in Requests : Current(reqs[r])
    /\ \A u \in Uploads : session[u] = "active" /\ multi[u] = "assembled" =>
          object = u \/ object \in overran
    /\ QueuedObjectIsVerified

IInv ==
    /\ TypeOK
    /\ Rows
    /\ Queue
    /\ \A r \in Requests : Knows(reqs[r])
    /\ Distinct
    /\ Parts
    /\ Strays
    /\ OneObject

-----------------------------------------------------------------------------
(* The arithmetic.                                                          *)

LEMMA Division ==
    ASSUME NEW a \in Int, NEW b \in Nat \ {0}
    PROVE  /\ a \div b \in Int
           /\ b * (a \div b) <= a
           /\ a < b * (a \div b) + b
OBVIOUS

LEMMA Quotients ==
    ASSUME NEW b \in Nat \ {0}, NEW p \in Int, NEW q \in Int, b * p < b * q + b
    PROVE  p <= q
<1>1. b * (p - q) < b * 1
  OBVIOUS
<1>2. \A d \in Int : b * d < b * 1 => d < 1
  OBVIOUS
<1>3. p - q < 1
  BY <1>1, <1>2
<1> QED
  BY <1>3

LEMMA PolicyType == /\ PartSize \in Nat \ {0} /\ MaxParts \in Nat \ {0}
                    /\ MaxByteSize \in Nat \ {0}
BY SizesAssumption, PolicyAssumption DEF PolicyAccepted

\* PartCount is the number of pieces of PartSize a photo is cut into, the last one not empty
\* and not too long: at an exact multiple there is no empty part, one byte more has its own.
THEOREM PlanIsExact ==
    ASSUME NEW size \in Nat \ {0}
    PROVE  /\ PartCount(size) \in Nat \ {0}
           /\ PartSize * (PartCount(size) - 1) < size
           /\ size <= PartSize * PartCount(size)
<1> DEFINE a == size + PartSize - 1
           q == a \div PartSize
<1>1. PartSize \in Nat \ {0}
  BY PolicyType
<1>2. a \in Int
  BY <1>1
<1>3. q \in Int /\ PartSize * q <= a /\ a < PartSize * q + PartSize
  BY <1>1, <1>2, Division
<1>4. PartCount(size) = q
  BY DEF PartCount
<1> HIDE DEF q
<1>5. PartSize * (q - 1) = PartSize * q - PartSize
  BY <1>1, <1>3
<1>6. PartSize * (q - 1) < size /\ size <= PartSize * q
  BY <1>1, <1>3, <1>5
<1>7. PartSize * 1 < PartSize * q + PartSize
  BY <1>1, <1>3
<1>8. 1 <= q
  BY <1>1, <1>3, <1>7, Quotients
<1> QED
  BY <1>3, <1>4, <1>6, <1>8

\* Every part of a photo Initiate admits is one ValidatePart and NewCompletedParts admit too:
\* the policy NewUploadPolicy accepts never strands an upload it let begin.
THEOREM PlanFitsPolicy ==
    ASSUME NEW size \in Nat \ {0}, Admitted(size)
    PROVE  /\ PartCount(size) \in 1..MaxParts
           /\ \A n \in 1..PartCount(size) : Signable(n, size)
<1> DEFINE a == size + PartSize - 1
           q == a \div PartSize
           b == MaxByteSize + PartSize - 1
           m == b \div PartSize
<1>1. PartSize \in Nat \ {0} /\ MaxParts \in Nat \ {0} /\ MaxByteSize \in Nat \ {0}
  BY PolicyType
<1>2. a \in Int /\ b \in Int /\ a <= b
  BY <1>1 DEF Admitted
<1>3. q \in Int /\ PartSize * q <= a
  BY <1>1, <1>2, Division
<1>4. m \in Int /\ b < PartSize * m + PartSize
  BY <1>1, <1>2, Division
<1>5. m <= MaxParts
  BY PolicyAssumption DEF PolicyAccepted
<1>6. PartCount(size) = q
  BY DEF PartCount
<1> HIDE DEF q, m, a, b
<1>7. PartSize * q < PartSize * m + PartSize
  BY <1>1, <1>2, <1>3, <1>4
<1>8. q <= m
  BY <1>1, <1>3, <1>4, <1>7, Quotients
<1>9. q \in Nat \ {0}
  BY <1>6, PlanIsExact
<1>10. PartCount(size) \in 1..MaxParts
  BY <1>1, <1>4, <1>5, <1>6, <1>8, <1>9
<1> QED
  BY <1>1, <1>10 DEF Signable

LEMMA CountType == PartCount(ByteSize) \in Nat
BY PhotoAssumption, PlanIsExact

\* A manifest has as many different numbers as entries.
LEMMA ManifestNumbers ==
    ASSUME NEW parts \in Seq(Nat), ValidManifest(parts)
    PROVE  /\ IsFiniteSet(Range(parts))
           /\ Cardinality(Range(parts)) = Len(parts)
           /\ Range(parts) \in SUBSET (1..MaxParts)
<1> DEFINE D == 1..Len(parts)
<1>1. Len(parts) \in Nat /\ DOMAIN parts = D
  OBVIOUS
<1>2. IsFiniteSet(D) /\ Cardinality(D) = Len(parts)
  <2> DEFINE n == Len(parts)
  <2>1. n \in Nat BY <1>1
  <2> HIDE DEF n
  <2>2. IsFiniteSet(1..n) /\ Cardinality(1..n) = IF 1 > n THEN 0 ELSE n - 1 + 1
    BY <2>1, FS_Interval
  <2>3. Cardinality(1..n) = n BY <2>1, <2>2
  <2> QED BY <2>2, <2>3 DEF n
<1>3. parts \in [D -> Range(parts)]
  BY <1>1 DEF Range
<1>4. parts \in Surjection(D, Range(parts))
  BY <1>1, <1>3 DEF Surjection, Range
<1>5. \A i, j \in D : parts[i] \in Nat /\ parts[j] \in Nat /\ (i < j => parts[i] < parts[j])
  BY <1>1 DEF ValidManifest
<1>6. ASSUME NEW i \in D, NEW j \in D, parts[i] = parts[j] PROVE i = j
  <2>1. ~(i < j) /\ ~(j < i) BY <1>5, <1>6
  <2> QED BY <2>1
<1>7. parts \in Injection(D, Range(parts))
  BY <1>3, <1>6 DEF Injection, IsInjective
<1>8. IsFiniteSet(Range(parts)) /\ Cardinality(Range(parts)) = Cardinality(D)
  BY <1>2, <1>4, <1>7, FS_Surjection
<1> QED
  BY <1>1, <1>2, <1>8 DEF ValidManifest, Range

\* SignPart and Complete each check half of it: a manifest with the right number of entries,
\* all of them parts the service would sign for this photo, is exactly the photo's parts.
THEOREM SignedManifestIsWhole ==
    ASSUME NEW parts \in Seq(Nat), ValidManifest(parts), FullCount(parts, ByteSize),
           \A n \in Range(parts) : Signable(n, ByteSize)
    PROVE  Range(parts) = Whole
<1>1. IsFiniteSet(Whole) /\ Cardinality(Whole) = PartCount(ByteSize)
  BY CountType, FS_Interval DEF Whole
<1>2. Range(parts) \in SUBSET Whole
  BY DEF Signable, Whole
<1>3. Cardinality(Range(parts)) = PartCount(ByteSize)
  BY ManifestNumbers DEF FullCount
<1> QED
  BY <1>1, <1>2, <1>3, FS_Subset

-----------------------------------------------------------------------------
(* Requests.                                                                *)

Record == Request \cup {Idle}

LEMMA RecordFields ==
    /\ Idle.op = "none" /\ Idle.pc = "idle" /\ Idle.upload = None /\ Idle.parts = {}
    /\ Idle.result = "none"
    /\ \A q \in Record : q.op \in {"initiate", "complete", "abort"} => q \in Request
    /\ \A q \in Record : q.upload \in Uploads \cup {None}
BY DEF Record, Request, Idle

\* What Goto and Reply do to the requests.
LEMMA GotoEffect ==
    ASSUME TypeOK, NEW r \in Requests, reqs[r] \in Request, NEW pc, Goto(r, pc),
           pc \in {"open", "create", "abandon", "refind", "assemble", "stat", "finalize", "release",
                   "mark", "done"}
    PROVE  /\ reqs' \in [Requests -> Record]
           /\ reqs'[r].op = reqs[r].op /\ reqs'[r].pc = pc /\ reqs'[r].upload = reqs[r].upload
           /\ reqs'[r].parts = reqs[r].parts /\ reqs'[r].result = reqs[r].result
           /\ \A s \in Requests \ {r} : reqs'[s] = reqs[s]
<1> DEFINE q == [reqs[r] EXCEPT !.pc = pc]
<1>1. q \in Request BY DEF Request
<1>2. q.op = reqs[r].op /\ q.pc = pc /\ q.upload = reqs[r].upload
      /\ q.parts = reqs[r].parts /\ q.result = reqs[r].result
  BY DEF Request
<1>3. reqs' = [reqs EXCEPT ![r] = q] BY DEF Goto
<1>4. reqs \in [Requests -> Record] BY DEF TypeOK, Record
<1> HIDE DEF q
<1> QED BY <1>1, <1>2, <1>3, <1>4 DEF Record

\* A request that has its answer, but that of a successful initiate.
Over(q) == q.op = "none" /\ q.pc = "done"

LEMMA OverKnows == \A q : Over(q) => Knows(q) /\ Current(q) /\ \A u \in Uploads : ~Holds(q, u)
BY DEF Over, Knows, Current, Holds

LEMMA ReplyEffect ==
    ASSUME TypeOK, NEW r \in Requests, NEW result \in {"ok", "failed", "lookup"}, Reply(r, result)
    PROVE  /\ reqs' \in [Requests -> Record]
           /\ Over(reqs'[r])
           /\ \A s \in Requests \ {r} : reqs'[s] = reqs[s]
<1> DEFINE q == [Idle EXCEPT !.pc = "done", !.result = result]
<1>1. q \in Record /\ Over(q) BY DEF Record, Request, Idle, Over
<1>2. reqs' = [reqs EXCEPT ![r] = q] BY DEF Reply
<1>3. reqs \in [Requests -> Record] BY DEF TypeOK, Record
<1> HIDE DEF q
<1> QED BY <1>1, <1>2, <1>3

-----------------------------------------------------------------------------
(* Strays.                                                                  *)

LEMMA StraysKept ==
    ASSUME Strays, Stray' \subseteq Stray, faults \in Nat, faults' \in Nat, faults <= faults'
    PROVE  Strays'
<1>1. IsFiniteSet(Stray') /\ Cardinality(Stray') <= Cardinality(Stray)
  BY FS_Subset DEF Strays
<1>2. Cardinality(Stray) \in Nat /\ Cardinality(Stray') \in Nat BY <1>1, FS_CardinalityType DEF Strays
<1>3. \A a, b, c, d \in Nat : a <= b /\ b <= c /\ c <= d => a <= d OBVIOUS
<1> QED BY <1>1, <1>2, <1>3 DEF Strays

\* A fault adds one at most.
LEMMA StraysPlus ==
    ASSUME Strays, NEW x, Stray' \subseteq Stray \cup {x}, faults \in Nat, faults' = faults + 1
    PROVE  Strays'
<1> DEFINE T == Stray \cup {x}
<1>1. IsFiniteSet(T) /\ Cardinality(T) <= Cardinality(Stray) + 1
  <2>1. Cardinality(Stray) \in Nat BY FS_CardinalityType DEF Strays
  <2> QED BY <2>1, FS_AddElement DEF Strays
<1>2. IsFiniteSet(Stray') /\ Cardinality(Stray') <= Cardinality(T)
  BY <1>1, FS_Subset
<1>3. /\ Cardinality(Stray) \in Nat /\ Cardinality(Stray') \in Nat /\ Cardinality(T) \in Nat
  BY <1>1, <1>2, FS_CardinalityType DEF Strays
<1> HIDE DEF T
<1>4. \A a, b, c, d \in Nat : a <= b /\ b <= c + 1 /\ c <= d => a <= d + 1 OBVIOUS
<1>5. Cardinality(Stray) <= faults BY DEF Strays
<1> QED BY <1>1, <1>2, <1>3, <1>4, <1>5 DEF Strays

-----------------------------------------------------------------------------
(* Steps that change one request and nothing else.                          *)

LEMMA QuietStep ==
    ASSUME IInv, NEW r \in Requests, UNCHANGED <<photoVars, rowVars, storeVars>>,
           reqs' \in [Requests -> Record], \A s \in Requests \ {r} : reqs'[s] = reqs[s],
           faults' \in 0..MaxFaults, faults <= faults',
           Knows(reqs'[r]),
           ~(reqs'[r].op = "initiate" /\ reqs'[r].pc = "create"),
           Current(reqs'[r]),
           \A u \in Uploads : multi[u] = "open" /\ Holds(reqs[r], u) =>
               Holds(reqs'[r], u) \/ faults' = faults + 1
    PROVE  IInv'
<1> USE DEF photoVars, rowVars, expiry, storeVars
<1>1. TypeOK' BY DEF IInv, TypeOK, Record
<1>2. Rows' BY DEF IInv, Rows
<1>3. Queue' BY DEF IInv, Queue
<1>4. \A s \in Requests : Knows(reqs[s])'
  <2> TAKE s \in Requests
  <2>1. CASE s = r BY <2>1 DEF Knows
  <2>2. CASE s # r
    <3>1. Knows(reqs[s]) BY DEF IInv
    <3>2. reqs'[s] = reqs[s] BY <2>2
    <3> QED BY <3>1, <3>2 DEF Knows
  <2> QED BY <2>1, <2>2
<1>5. Distinct' BY DEF IInv, Distinct, At
<1>6. Parts' BY DEF IInv, Parts, Whole, PartCount
<1>7. Strays'
  <2>0. faults \in Nat /\ faults' \in Nat /\ Strays BY ModesAssumption DEF IInv, TypeOK
  <2>1. CASE faults' = faults + 1
    <3>1. Stray' \subseteq Stray \cup {reqs[r].upload} BY DEF Stray, Holds
    <3> QED BY <2>0, <2>1, <3>1, StraysPlus
  <2>2. CASE faults' # faults + 1
    <3>1. \A u \in Uploads : multi[u] = "open" =>
              \A s \in Requests : Holds(reqs[s], u) => Holds(reqs'[s], u)
      BY <2>2
    <3>2. Stray' \subseteq Stray BY <3>1 DEF Stray, Holds
    <3> QED BY <2>0, <3>2, StraysKept
  <2> QED BY <2>1, <2>2
<1>8. OneObject'
  <2>1. OneObject BY DEF IInv
  <2>2. \A s \in Requests : Current(reqs[s])'
    <3> TAKE s \in Requests
    <3>1. CASE s = r BY <3>1 DEF Current
    <3>2. CASE s # r
      <4>1. Current(reqs[s]) /\ reqs'[s] = reqs[s] BY <2>1, <3>2 DEF OneObject
      <4> QED BY <4>1 DEF Current
    <3> QED BY <3>1, <3>2
  <2> QED BY <2>1, <2>2 DEF OneObject, QueuedObjectIsVerified
<1> QED BY <1>1, <1>2, <1>3, <1>4, <1>5, <1>6, <1>7, <1>8 DEF IInv

\* A request answered with a session's upload.
LEMMA AnswerEffect ==
    ASSUME TypeOK, NEW r \in Requests, NEW u \in Uploads, Answer(r, u)
    PROVE  /\ reqs' \in [Requests -> Record]
           /\ reqs'[r].op = "initiate" /\ reqs'[r].pc = "done" /\ reqs'[r].upload = u
           /\ reqs'[r].result = "ok"
           /\ \A s \in Requests \ {r} : reqs'[s] = reqs[s]
BY DEF TypeOK, Answer, Record, Request

\* A request that has its place: At(r, ...) says what it is.
LEMMA AtRequest ==
    ASSUME TypeOK, NEW r \in Requests, reqs[r].op \in {"initiate", "complete", "abort"}
    PROVE  reqs[r] \in Request
BY RecordFields DEF TypeOK, Record

\* Replying changes no more than what the request knows.
LEMMA ReplyIInv ==
    ASSUME IInv, NEW r \in Requests, UNCHANGED <<photoVars, rowVars, storeVars>>,
           NEW result \in {"ok", "failed", "lookup"}, Reply(r, result),
           faults' \in 0..MaxFaults, faults <= faults',
           reqs[r].op = "initiate" => reqs[r].pc \notin {"create", "abandon"}
    PROVE  IInv'
<1>1. TypeOK BY DEF IInv
<1>2. /\ reqs' \in [Requests -> Record] /\ Over(reqs'[r])
      /\ \A s \in Requests \ {r} : reqs'[s] = reqs[s]
  BY <1>1, ReplyEffect
<1>3. Knows(reqs'[r]) /\ Current(reqs'[r]) BY <1>2, OverKnows
<1>4. \A u \in Uploads : ~Holds(reqs[r], u) BY DEF Holds
<1> QED BY <1>2, <1>3, <1>4, QuietStep DEF Over

LEMMA Moved ==
    ASSUME TypeOK, NEW r \in Requests, NEW q \in Record, reqs' = [reqs EXCEPT ![r] = q]
    PROVE  /\ reqs' \in [Requests -> Record] /\ reqs'[r] = q
           /\ \A s \in Requests \ {r} : reqs'[s] = reqs[s]
BY DEF TypeOK, Record

LEMMA AskIInv ==
    ASSUME IInv, NEW r \in Requests, NEW op \in {"initiate", "complete", "abort"},
           NEW u \in Uploads \cup {None}, Ask(r, op, u)
    PROVE  IInv'
<1> DEFINE q == [Idle EXCEPT !.op = op, !.pc = "find", !.upload = u]
<1>1. q \in Record BY DEF Record, Request, Idle
<1>2. q.op = op /\ q.pc = "find" /\ q.upload = u /\ q.result = "none" BY DEF Idle
<1>3. reqs' = [reqs EXCEPT ![r] = q] /\ UNCHANGED <<photoVars, rowVars, storeVars, faults>>
      /\ (op # "initiate" => u \in Uploads) /\ reqs[r] = Idle
  BY DEF Ask
<1> HIDE DEF q
<1>4. /\ reqs' \in [Requests -> Record] /\ reqs'[r] = q
      /\ \A s \in Requests \ {r} : reqs'[s] = reqs[s]
  BY <1>1, <1>3, Moved DEF IInv
<1>5. Knows(q) /\ Current(q) BY <1>2, <1>3 DEF Knows, Current
<1>6. \A v \in Uploads : ~Holds(reqs[r], v) BY <1>3, RecordFields DEF Holds
<1>7. faults' \in 0..MaxFaults /\ faults <= faults' BY <1>3, ModesAssumption DEF IInv, TypeOK
<1> QED BY <1>2, <1>3, <1>4, <1>5, <1>6, <1>7, QuietStep

LEMMA IdleKnows == Knows(Idle) /\ Current(Idle)
BY RecordFields DEF Knows, Current

LEMMA AnsweredIInv == ASSUME IInv, NEW r \in Requests, Answered(r) PROVE IInv'
<1>1. /\ reqs' = [reqs EXCEPT ![r] = Idle] /\ reqs[r].pc = "done"
      /\ UNCHANGED <<photoVars, rowVars, storeVars, faults>>
  BY DEF Answered
<1>2. /\ reqs' \in [Requests -> Record] /\ reqs'[r] = Idle
      /\ \A s \in Requests \ {r} : reqs'[s] = reqs[s]
  BY <1>1, Moved DEF IInv, Record
<1>3. \A v \in Uploads : ~Holds(reqs[r], v) BY <1>1 DEF Holds
<1>4. faults' \in 0..MaxFaults /\ faults <= faults' BY <1>1, ModesAssumption DEF IInv, TypeOK
<1> QED BY <1>1, <1>2, <1>3, <1>4, IdleKnows, RecordFields, QuietStep

LEMMA FaultType ==
    ASSUME TypeOK, Fault
    PROVE  faults' \in 0..MaxFaults /\ faults' = faults + 1 /\ faults <= faults'
BY ModesAssumption DEF TypeOK, Fault

LEMMA CrashIInv == ASSUME IInv, NEW r \in Requests, Crash(r) PROVE IInv'
<1>1. /\ reqs' = [reqs EXCEPT ![r] = Idle] /\ Fault
      /\ UNCHANGED <<photoVars, rowVars, storeVars>>
  BY DEF Crash
<1>2. /\ reqs' \in [Requests -> Record] /\ reqs'[r] = Idle
      /\ \A s \in Requests \ {r} : reqs'[s] = reqs[s]
  BY <1>1, Moved DEF IInv, Record
<1>3. faults' \in 0..MaxFaults /\ faults <= faults' /\ faults' = faults + 1
  BY <1>1, FaultType DEF IInv
<1> QED BY <1>1, <1>2, <1>3, IdleKnows, RecordFields, QuietStep

\* faults as it was is one of the values it may have.
LEMMA NoFault ==
    ASSUME IInv, UNCHANGED faults
    PROVE  faults' \in 0..MaxFaults /\ faults <= faults'
BY ModesAssumption DEF IInv, TypeOK

-----------------------------------------------------------------------------
(* Looking up.                                                              *)

LEMMA FoundIInv ==
    ASSUME IInv, NEW r \in Requests, reqs[r].op = "initiate", reqs[r].pc \in {"find", "refind"},
           UNCHANGED <<photoVars, rowVars, storeVars, faults>>,
           NEW u \in Uploads, session[u] = "active",
           Answer(r, u)
    PROVE  IInv'
<1>1. TypeOK BY DEF IInv
<1>2. /\ reqs' \in [Requests -> Record]
      /\ reqs'[r].op = "initiate" /\ reqs'[r].pc = "done" /\ reqs'[r].upload = u
      /\ reqs'[r].result = "ok"
      /\ \A s \in Requests \ {r} : reqs'[s] = reqs[s]
  BY <1>1, AnswerEffect
<1>3. Knows(reqs'[r]) /\ Current(reqs'[r]) BY <1>2 DEF Knows, Current
<1>4. \A v \in Uploads : ~Holds(reqs[r], v) BY DEF Holds
<1> QED BY <1>2, <1>3, <1>4, NoFault, QuietStep

LEMMA GotoIInv ==
    ASSUME IInv, NEW r \in Requests, UNCHANGED <<photoVars, rowVars, storeVars>>,
           reqs[r] \in Request,
           NEW pc \in {"open", "abandon", "refind", "stat", "finalize", "release"}, Goto(r, pc),
           faults' \in 0..MaxFaults, faults <= faults',
           reqs[r].op = "initiate" => pc # "abandon" /\ reqs[r].pc = "find",
           reqs[r].op = "complete" =>
              pc \in {"stat", "finalize"} /\ multi[reqs[r].upload] = "assembled"
                                         /\ session[reqs[r].upload] # "none",
           reqs[r].op = "abort" => pc = "release" /\ session[reqs[r].upload] # "none"
    PROVE  IInv'
<1>1. TypeOK /\ Knows(reqs[r]) BY DEF IInv
<1>2. /\ reqs' \in [Requests -> Record]
      /\ reqs'[r].op = reqs[r].op /\ reqs'[r].pc = pc /\ reqs'[r].upload = reqs[r].upload
      /\ reqs'[r].parts = reqs[r].parts /\ reqs'[r].result = reqs[r].result
      /\ \A s \in Requests \ {r} : reqs'[s] = reqs[s]
  BY <1>1, GotoEffect
<1>3. Knows(reqs'[r]) BY <1>1, <1>2 DEF Knows
<1>4. Current(reqs'[r]) BY <1>2 DEF Current
<1>5. \A u \in Uploads : ~Holds(reqs[r], u) BY DEF Holds, Request
<1> QED BY <1>2, <1>3, <1>4, <1>5, QuietStep

LEMMA FindOrOpenIInv == ASSUME IInv, NEW r \in Requests, FindOrOpen(r) PROVE IInv'
<1>1. /\ reqs[r].op = "initiate" /\ reqs[r].pc = "find"
      /\ UNCHANGED <<photoVars, rowVars, storeVars, faults>>
  BY DEF FindOrOpen, At
<1>2. CASE Reply(r, "failed") BY <1>1, <1>2, NoFault, ReplyIInv
<1>3. CASE \E u \in Found : Answer(r, u)
  BY <1>1, <1>3, FoundIInv DEF Found, Live
<1>4. CASE Reply(r, "lookup") BY <1>1, <1>4, NoFault, ReplyIInv
<1>5. CASE Goto(r, "open")
  <2>1. reqs[r] \in Request BY <1>1, AtRequest DEF IInv
  <2> QED BY <1>1, <1>5, <2>1, NoFault, GotoIInv
<1> QED BY <1>2, <1>3, <1>4, <1>5 DEF FindOrOpen

LEMMA RefindIInv == ASSUME IInv, NEW r \in Requests, Refind(r) PROVE IInv'
<1>1. /\ reqs[r].op = "initiate" /\ reqs[r].pc = "refind"
      /\ UNCHANGED <<photoVars, rowVars, storeVars, faults>>
  BY DEF Refind, At
<1>2. CASE \E u \in Uploads : session[u] = "active" /\ Answer(r, u)
  BY <1>1, <1>2, FoundIInv
<1>3. CASE Reply(r, "lookup") BY <1>1, <1>3, NoFault, ReplyIInv
<1>4. CASE Reply(r, "failed") BY <1>1, <1>4, NoFault, ReplyIInv
<1> QED BY <1>2, <1>3, <1>4 DEF Refind

LEMMA FindForCompletionIInv == ASSUME IInv, NEW r \in Requests, FindForCompletion(r) PROVE IInv'
<1> DEFINE u == reqs[r].upload
<1>1. /\ reqs[r].op = "complete" /\ reqs[r].pc = "find"
      /\ UNCHANGED <<photoVars, rowVars, storeVars, faults>>
  BY DEF FindForCompletion, At
<1>2. TypeOK /\ reqs[r] \in Request /\ u \in Uploads BY <1>1, AtRequest DEF IInv, Knows
<1>3. CASE \E result \in {"failed", "ok", "lookup"} : Reply(r, result)
  BY <1>1, <1>3, NoFault, ReplyIInv
<1>4. ASSUME NEW parts \in Manifests, ValidManifest(parts), Completable(u), FullCount(parts, ByteSize),
             reqs' = [reqs EXCEPT ![r].pc = "assemble", ![r].parts = Range(parts)]
      PROVE  IInv'
  <2>1. parts \in Seq(Nat) BY PhotoAssumption
  <2>2. /\ IsFiniteSet(Range(parts)) /\ Cardinality(Range(parts)) = PartCount(ByteSize)
        /\ Range(parts) \in SUBSET (1..MaxParts)
    BY <1>4, <2>1, ManifestNumbers DEF FullCount
  <2> DEFINE R == Range(parts)
             q == [reqs[r] EXCEPT !.pc = "assemble", !.parts = R]
  <2> HIDE DEF R
  <2>3. R \in SUBSET (1..MaxParts) BY <2>2 DEF R
  <2>4. q \in Record BY <1>2, <2>3 DEF Record, Request
  <2>5. q.op = "complete" /\ q.pc = "assemble" /\ q.upload = u /\ q.parts = R
    BY <1>1, <1>2 DEF Request
  <2>6. reqs' = [reqs EXCEPT ![r] = q] BY <1>4 DEF R
  <2> HIDE DEF q
  <2>7. /\ reqs' \in [Requests -> Record] /\ reqs'[r] = q
        /\ \A s \in Requests \ {r} : reqs'[s] = reqs[s]
    BY <1>2, <2>4, <2>6, Moved
  <2>8. session[u] = "active" /\ u \notin lapsed BY <1>4 DEF Completable, Live
  <2>9. Knows(q) BY <1>2, <2>2, <2>5, <2>8 DEF Knows, R
  <2>10. Current(q) BY <2>5, <2>8 DEF Current
  <2>11. \A v \in Uploads : ~Holds(reqs[r], v) BY <1>1 DEF Holds
  <2> QED BY <1>1, <2>5, <2>7, <2>9, <2>10, <2>11, NoFault, QuietStep
<1> QED BY <1>3, <1>4 DEF FindForCompletion

LEMMA VerifyIInv == ASSUME IInv, NEW r \in Requests, Verify(r) PROVE IInv'
<1>1. /\ reqs[r].op = "complete" /\ reqs[r].pc = "stat"
      /\ UNCHANGED <<photoVars, rowVars, storeVars, faults>>
  BY DEF Verify, At
<1>2. reqs[r] \in Request /\ Knows(reqs[r]) BY <1>1, AtRequest DEF IInv
<1>3. CASE Reply(r, "failed") BY <1>1, <1>3, NoFault, ReplyIInv
<1>4. CASE Goto(r, "finalize") BY <1>1, <1>2, <1>4, NoFault, GotoIInv DEF Knows
<1> QED BY <1>3, <1>4 DEF Verify

LEMMA FindToAbortIInv == ASSUME IInv, NEW r \in Requests, FindToAbort(r) PROVE IInv'
<1>1. /\ reqs[r].op = "abort" /\ reqs[r].pc = "find"
      /\ UNCHANGED <<photoVars, rowVars, storeVars, faults>>
  BY DEF FindToAbort, At
<1>2. reqs[r] \in Request BY <1>1, AtRequest DEF IInv
<1>3. CASE \E result \in {"failed", "ok", "lookup"} : Reply(r, result)
  BY <1>1, <1>3, NoFault, ReplyIInv
<1>4. CASE reqs[r].upload \in Found /\ Goto(r, "release")
  BY <1>1, <1>2, <1>4, NoFault, GotoIInv DEF Found, Live
<1> QED BY <1>3, <1>4 DEF FindToAbort

-----------------------------------------------------------------------------
(* Steps that change rows or uploads.                                       *)

\* What a request knows outlasts steps that take no session and no upload back.
LEMMA KnowsKept ==
    ASSUME NEW s \in Requests, Knows(reqs[s]), reqs'[s] = reqs[s],
           \A u \in Uploads : session[u] # "none" => session'[u] # "none",
           \A u \in Uploads : multi[u] # "none" => multi'[u] # "none",
           \A u \in Uploads : multi[u] \in {"assembled", "aborted"} => multi'[u] = multi[u],
           reqs[s].op = "initiate" /\ reqs[s].pc = "create" => session'[reqs[s].upload] = "none"
    PROVE  Knows(reqs[s])'
BY DEF Knows

LEMMA DistinctKept ==
    ASSUME Distinct, NEW r \in Requests, \A s \in Requests \ {r} : reqs'[s] = reqs[s],
           ~(reqs'[r].op = "initiate" /\ reqs'[r].pc = "create")
    PROVE  Distinct'
BY DEF Distinct, At

LEMMA FaultsType ==
    ASSUME TypeOK
    PROVE  faults \in Nat /\ (UNCHANGED faults => faults' \in Nat /\ faults <= faults')
                         /\ (Fault => faults' \in Nat /\ faults <= faults')
BY ModesAssumption DEF TypeOK, Fault

LEMMA OpenUploadIInv == ASSUME IInv, NEW r \in Requests, OpenUpload(r) PROVE IInv'
<1>1. /\ reqs[r].op = "initiate" /\ reqs[r].pc = "open"
      /\ UNCHANGED <<photoVars, rowVars, pieces, object>>
  BY DEF OpenUpload, At
<1>2. TypeOK /\ reqs[r] \in Request BY <1>1, AtRequest DEF IInv
<1>3. CASE Reply(r, "failed") /\ UNCHANGED multi /\ (Fault \/ UNCHANGED faults)
  <2>1. faults' \in 0..MaxFaults /\ faults <= faults' BY <1>2, <1>3, FaultType, NoFault
  <2> QED BY <1>1, <1>3, <2>1, ReplyIInv DEF storeVars
<1>4. ASSUME NEW u \in Uploads, multi[u] = "none", multi' = [multi EXCEPT ![u] = "open"],
             reqs' = [reqs EXCEPT ![r].pc = "create", ![r].upload = u], UNCHANGED faults
      PROVE  IInv'
  <2> USE DEF photoVars, rowVars, expiry
  <2> DEFINE q == [reqs[r] EXCEPT !.pc = "create", !.upload = u]
  <2>1. q \in Record BY <1>2 DEF Record, Request
  <2>2. q.op = "initiate" /\ q.pc = "create" /\ q.upload = u /\ q.result = reqs[r].result
    BY <1>1, <1>2 DEF Request
  <2>3. reqs' = [reqs EXCEPT ![r] = q] BY <1>4
  <2> HIDE DEF q
  <2>4. /\ reqs' \in [Requests -> Record] /\ reqs'[r] = q
        /\ \A s \in Requests \ {r} : reqs'[s] = reqs[s]
    BY <1>2, <2>1, <2>3, Moved
  <2>5. /\ session[u] = "none" /\ multi'[u] = "open"
        /\ \A v \in Uploads \ {u} : multi'[v] = multi[v]
    BY <1>2, <1>4 DEF IInv, Rows, TypeOK
  <2>6. TypeOK' BY <1>1, <1>2, <1>4, <2>4 DEF TypeOK, Record
  <2>7. Rows' BY <1>1, <2>5 DEF IInv, Rows
  <2>8. Queue' BY <1>1 DEF IInv, Queue
  <2>9. \A s \in Requests : Knows(reqs[s])'
    <3> TAKE s \in Requests
    <3>1. CASE s = r
      <4>1. reqs[r].result # "ok" BY <1>1 DEF IInv, Knows
      <4> QED BY <1>1, <2>2, <2>4, <2>5, <3>1, <4>1 DEF Knows
    <3>2. CASE s # r
      <4>1. Knows(reqs[s]) BY DEF IInv
      <4>2. reqs'[s] = reqs[s] BY <2>4, <3>2
      <4>3. reqs[s].op = "initiate" /\ reqs[s].pc = "create" => session'[reqs[s].upload] = "none"
        BY <1>1, <4>1 DEF Knows
      <4> QED BY <1>1, <1>4, <2>5, <4>1, <4>2, <4>3, KnowsKept
    <3> QED BY <3>1, <3>2
  <2>10. Distinct'
    <3>1. \A s \in Requests \ {r} : reqs[s].op = "initiate" /\ reqs[s].pc = "create" =>
              reqs[s].upload # u
      BY <1>4 DEF IInv, Knows
    <3> QED BY <2>2, <2>4, <3>1 DEF IInv, Distinct, At
  <2>11. Parts' BY <1>1, <2>5 DEF IInv, Parts, Whole, PartCount
  <2>12. Strays'
    <3>1. \A v \in Uploads : \A s \in Requests : Holds(reqs[s], v) => Holds(reqs'[s], v)
      BY <1>1, <2>4 DEF Holds
    <3>2. Holds(reqs'[r], u) BY <2>2, <2>4 DEF Holds
    <3>3. Stray' \subseteq Stray BY <1>1, <2>5, <3>1, <3>2 DEF Stray, Holds
    <3> QED BY <1>2, <1>4, <3>3, FaultsType, StraysKept DEF IInv
  <2>13. OneObject'
    <3>1. OneObject BY DEF IInv
    <3>2. \A s \in Requests : Current(reqs[s])'
      <4> TAKE s \in Requests
      <4>1. CASE s = r BY <2>2, <2>4, <4>1 DEF Current
      <4>2. CASE s # r
        <5>1. Current(reqs[s]) /\ Knows(reqs[s]) /\ reqs'[s] = reqs[s]
          BY <2>4, <3>1, <4>2 DEF OneObject, IInv
        <5> QED BY <1>1, <2>5, <5>1 DEF Current, Knows
      <4> QED BY <4>1, <4>2
    <3> QED BY <1>1, <2>5, <3>1, <3>2 DEF OneObject, QueuedObjectIsVerified
  <2> QED BY <2>6, <2>7, <2>8, <2>9, <2>10, <2>11, <2>12, <2>13 DEF IInv
<1> QED BY <1>3, <1>4 DEF OpenUpload

\* The part of CreateSession that writes: the request ends, or goes on to abandon its upload.
LEMMA InsertIInv ==
    ASSUME IInv, NEW r \in Requests, reqs[r].op = "initiate", reqs[r].pc = "create",
           Eligible, ~Conflict, session' = [Expired EXCEPT ![reqs[r].upload] = "active"],
           photo' = "uploading", UNCHANGED <<event, gen, expiry, storeVars>>,
           reqs' \in [Requests -> Record], \A s \in Requests \ {r} : reqs'[s] = reqs[s],
           reqs'[r].op = "initiate", reqs'[r].upload = reqs[r].upload,
           reqs'[r].pc \in {"done", "abandon"}, reqs'[r].result = "ok" => reqs'[r].pc = "done",
           faults' \in 0..MaxFaults, faults <= faults'
    PROVE  IInv'
<1> USE DEF expiry, storeVars
<1> DEFINE u == reqs[r].upload
<1>1. TypeOK /\ u \in Uploads /\ session[u] = "none" /\ multi[u] # "none" BY DEF IInv, Knows
<1>2. \A v \in Uploads : session[v] = "active" => v \in lapsed BY DEF Conflict, Live
<1>3. /\ session' \in [Uploads -> {"none", "active", "completed", "aborted", "expired"}]
      /\ session'[u] = "active"
      /\ \A v \in Uploads \ {u} :
            session'[v] = IF session[v] = "active" THEN "expired" ELSE session[v]
  BY <1>1, <1>2 DEF TypeOK, Expired
<1> HIDE DEF u
<1>4. TypeOK'
  <2>1. \A v, w \in Uploads : session'[v] = "active" /\ session'[w] = "active" => v = w
    BY <1>3
  <2> QED BY <1>1, <1>3, <2>1 DEF TypeOK, Record
<1>5. Rows' BY <1>1, <1>3 DEF IInv, Rows
<1>6. Queue'
  <2>1. gen = 0 /\ \A v \in Uploads : session[v] # "completed" BY DEF IInv, Queue, Eligible
  <2>2. \A v \in Uploads : session'[v] # "completed" BY <1>3, <2>1
  <2> QED BY <2>1, <2>2 DEF Queue
<1>7. \A s \in Requests : Knows(reqs[s])'
  <2> TAKE s \in Requests
  <2>1. CASE s = r BY <1>1, <1>3, <2>1 DEF Knows, u
  <2>2. CASE s # r
    <3>1. Knows(reqs[s]) /\ reqs'[s] = reqs[s] BY <2>2 DEF IInv
    <3>2. reqs[s].op = "initiate" /\ reqs[s].pc = "create" =>
              reqs[s].upload \in Uploads \ {u} /\ session[reqs[s].upload] = "none"
      BY <2>2, <3>1 DEF Knows, IInv, Distinct, At, u
    <3>3. reqs[s].op = "initiate" /\ reqs[s].pc = "create" => session'[reqs[s].upload] = "none"
      BY <1>3, <3>2
    <3>4. \A v \in Uploads : session[v] # "none" => session'[v] # "none" BY <1>3
    <3> QED BY <3>1, <3>3, <3>4, KnowsKept
  <2> QED BY <2>1, <2>2
<1>8. Distinct' BY DistinctKept DEF IInv
<1>9. Parts' BY DEF IInv, Parts, Whole, PartCount
<1>10. Strays'
  <2>1. \A v \in Uploads \ {u} : \A s \in Requests : Holds(reqs[s], v) => Holds(reqs'[s], v)
    BY DEF Holds, u
  <2>2. Stray' \subseteq Stray
    <3>1. \A v \in Uploads : session'[v] = "none" => v # u /\ session[v] = "none" BY <1>3
    <3> QED BY <2>1, <3>1 DEF Stray, Holds
  <2> QED BY <1>1, <2>2, ModesAssumption, StraysKept DEF IInv, TypeOK
<1>11. OneObject'
  <2>1. OneObject BY DEF IInv
  <2>2. \A s \in Requests : Current(reqs[s])'
    <3> TAKE s \in Requests
    <3>1. CASE s = r BY <3>1 DEF Current
    <3>2. CASE s # r
      <4>1. Current(reqs[s]) /\ reqs'[s] = reqs[s] /\ Knows(reqs[s]) BY <2>1, <3>2 DEF OneObject, IInv
      <4>2. reqs[s].op = "complete" /\ reqs[s].pc = "assemble" /\ multi[reqs[s].upload] = "open" =>
                reqs[s].upload \in overran
        BY <1>2, <4>1 DEF Current, Knows
      <4> QED BY <4>1, <4>2 DEF Current
    <3> QED BY <3>1, <3>2
  <2>3. \A v \in Uploads : session'[v] = "active" => v = u BY <1>3
  <2>4. multi[u] # "assembled" BY <1>1 DEF IInv, Rows
  <2> QED BY <2>2, <2>3, <2>4 DEF OneObject, QueuedObjectIsVerified
<1> QED BY <1>4, <1>5, <1>6, <1>7, <1>8, <1>9, <1>10, <1>11 DEF IInv

LEMMA ExpiryIInv ==
    ASSUME IInv, NEW r \in Requests, reqs[r].op = "initiate", reqs[r].pc = "create",
           session' = Expired, UNCHANGED <<photo, event, gen, expiry, storeVars, faults>>,
           Goto(r, "abandon")
    PROVE  IInv'
<1> USE DEF expiry, storeVars
<1> DEFINE u == reqs[r].upload
<1>1. TypeOK /\ u \in Uploads /\ session[u] = "none" /\ reqs[r] \in Request /\ Knows(reqs[r])
  BY AtRequest DEF IInv, Knows
<1>2. /\ session' \in [Uploads -> {"none", "active", "completed", "aborted", "expired"}]
      /\ \A v \in Uploads :
            session'[v] = IF session[v] = "active" /\ v \in lapsed THEN "expired" ELSE session[v]
  BY <1>1 DEF TypeOK, Expired
<1>3. /\ reqs' \in [Requests -> Record]
      /\ reqs'[r].op = "initiate" /\ reqs'[r].pc = "abandon" /\ reqs'[r].upload = u
      /\ reqs'[r].result = reqs[r].result
      /\ \A s \in Requests \ {r} : reqs'[s] = reqs[s]
  BY <1>1, GotoEffect
<1> HIDE DEF u
<1>4. TypeOK' BY <1>1, <1>2, <1>3 DEF TypeOK, Record
<1>5. Rows' BY <1>2 DEF IInv, Rows
<1>6. Queue'
  <2>1. {v \in Uploads : session'[v] = "completed"} = {v \in Uploads : session[v] = "completed"}
    BY <1>2
  <2> QED BY <1>2, <2>1 DEF IInv, Queue
<1>7. \A s \in Requests : Knows(reqs[s])'
  <2> TAKE s \in Requests
  <2>1. CASE s = r BY <1>1, <1>3, <2>1 DEF Knows
  <2>2. CASE s # r
    <3>1. Knows(reqs[s]) /\ reqs'[s] = reqs[s] BY <1>3, <2>2 DEF IInv
    <3>2. reqs[s].op = "initiate" /\ reqs[s].pc = "create" => session'[reqs[s].upload] = "none"
      BY <1>2, <3>1 DEF Knows
    <3> QED BY <1>2, <3>1, <3>2, KnowsKept
  <2> QED BY <2>1, <2>2
<1>8. Distinct' BY <1>3, DistinctKept DEF IInv
<1>9. Parts' BY DEF IInv, Parts, Whole, PartCount
<1>10. Strays'
  <2>1. \A v \in Uploads : \A s \in Requests : Holds(reqs[s], v) => Holds(reqs'[s], v)
    BY <1>3 DEF Holds, u
  <2>2. Stray' \subseteq Stray BY <1>2, <2>1 DEF Stray, Holds
  <2> QED BY <1>1, <2>2, FaultsType, StraysKept DEF IInv
<1>11. OneObject'
  <2>1. OneObject BY DEF IInv
  <2>2. \A s \in Requests : Current(reqs[s])'
    <3> TAKE s \in Requests
    <3>1. CASE s = r BY <1>3, <3>1 DEF Current
    <3>2. CASE s # r
      <4>1. Current(reqs[s]) /\ reqs'[s] = reqs[s] /\ Knows(reqs[s])
        BY <1>3, <2>1, <3>2 DEF OneObject, IInv
      <4> QED BY <1>2, <4>1 DEF Current, Knows
    <3> QED BY <3>1, <3>2
  <2> QED BY <1>2, <2>1, <2>2 DEF OneObject, QueuedObjectIsVerified
<1> QED BY <1>4, <1>5, <1>6, <1>7, <1>8, <1>9, <1>10, <1>11 DEF IInv

\* A conflict: the statement does nothing, and the request goes on to abandon its upload.
LEMMA ConflictIInv ==
    ASSUME IInv, NEW r \in Requests, reqs[r].op = "initiate", reqs[r].pc = "create",
           UNCHANGED <<photoVars, rowVars, storeVars, faults>>, Goto(r, "abandon")
    PROVE  IInv'
<1>1. TypeOK /\ reqs[r] \in Request /\ Knows(reqs[r]) BY AtRequest DEF IInv
<1>2. /\ reqs' \in [Requests -> Record]
      /\ reqs'[r].op = "initiate" /\ reqs'[r].pc = "abandon" /\ reqs'[r].upload = reqs[r].upload
      /\ reqs'[r].result = reqs[r].result
      /\ \A s \in Requests \ {r} : reqs'[s] = reqs[s]
  BY <1>1, GotoEffect
<1>3. Knows(reqs'[r]) /\ Current(reqs'[r]) BY <1>1, <1>2 DEF Knows, Current
<1>4. \A u \in Uploads : Holds(reqs[r], u) => Holds(reqs'[r], u) BY <1>2 DEF Holds
<1> QED BY <1>2, <1>3, <1>4, NoFault, QuietStep

LEMMA CreateSessionIInv == ASSUME IInv, NEW r \in Requests, CreateSession(r) PROVE IInv'
<1>1. /\ reqs[r].op = "initiate" /\ reqs[r].pc = "create"
      /\ UNCHANGED <<event, gen, expiry, storeVars>>
  BY DEF CreateSession, At
<1>2. TypeOK /\ reqs[r] \in Request /\ Knows(reqs[r]) BY <1>1, AtRequest DEF IInv
<1>3. CASE /\ Eligible /\ ~Conflict
           /\ session' = [Expired EXCEPT ![reqs[r].upload] = "active"] /\ photo' = "uploading"
           /\ Answer(r, reqs[r].upload) /\ UNCHANGED faults
  <2>1. /\ reqs' \in [Requests -> Record]
        /\ reqs'[r].op = "initiate" /\ reqs'[r].pc = "done" /\ reqs'[r].upload = reqs[r].upload
        /\ reqs'[r].result = "ok"
        /\ \A s \in Requests \ {r} : reqs'[s] = reqs[s]
    BY <1>1, <1>2, <1>3, AnswerEffect DEF Knows
  <2> QED BY <1>1, <1>3, <2>1, NoFault, InsertIInv
<1>4. CASE /\ Eligible /\ ~Conflict
           /\ session' = [Expired EXCEPT ![reqs[r].upload] = "active"] /\ photo' = "uploading"
           /\ Fault /\ Goto(r, "abandon")
  <2>1. /\ reqs' \in [Requests -> Record]
        /\ reqs'[r].op = reqs[r].op /\ reqs'[r].pc = "abandon" /\ reqs'[r].upload = reqs[r].upload
        /\ reqs'[r].result = reqs[r].result
        /\ \A s \in Requests \ {r} : reqs'[s] = reqs[s]
    BY <1>2, <1>4, GotoEffect
  <2>2. reqs[r].result # "ok" BY <1>1, <1>2 DEF Knows
  <2>3. faults' \in 0..MaxFaults /\ faults <= faults' BY <1>2, <1>4, FaultType
  <2> QED BY <1>1, <1>4, <2>1, <2>2, <2>3, InsertIInv
<1>5. CASE Goto(r, "abandon") /\ UNCHANGED <<session, photo, faults>>
  BY <1>1, <1>5, ConflictIInv DEF photoVars, rowVars
<1>6. CASE session' = Expired /\ Goto(r, "abandon") /\ UNCHANGED <<photo, faults>>
  BY <1>1, <1>6, ExpiryIInv
<1> QED BY <1>3, <1>4, <1>5, <1>6 DEF CreateSession

\* An open upload is dropped by the request that has it, whichever that is.
LEMMA DropIInv ==
    ASSUME IInv, NEW r \in Requests, NEW u \in Uploads, u = reqs[r].upload, multi[u] = "open", Drop(u),
           UNCHANGED <<photoVars, rowVars, object>>,
           reqs' \in [Requests -> Record], \A s \in Requests \ {r} : reqs'[s] = reqs[s],
           reqs[r].op \in {"initiate", "abort"},
           \/ Over(reqs'[r])
           \/ /\ reqs'[r].op = reqs[r].op /\ reqs'[r].upload = u /\ reqs'[r].pc \in {"refind", "mark"}
              /\ reqs[r].op = "initiate" => reqs'[r].result # "ok"
              /\ reqs'[r].pc = "mark" => session[u] # "none",
           faults' \in 0..MaxFaults, faults <= faults'
    PROVE  IInv'
<1> USE DEF photoVars, rowVars, expiry
<1>1. TypeOK BY DEF IInv
<1>2. /\ multi'[u] = "aborted" /\ pieces'[u] = {}
      /\ \A v \in Uploads \ {u} : multi'[v] = multi[v] /\ pieces'[v] = pieces[v]
      /\ multi' \in [Uploads -> {"none", "open", "assembled", "aborted"}]
      /\ pieces' \in [Uploads -> SUBSET (1..MaxParts)]
  BY <1>1 DEF Drop, TypeOK
<1>3. TypeOK' BY <1>1, <1>2 DEF TypeOK, Record
<1>4. Rows' BY <1>2 DEF IInv, Rows
<1>5. Queue' BY DEF IInv, Queue
<1>6. \A s \in Requests : Knows(reqs[s])'
  <2> TAKE s \in Requests
  <2>1. CASE s = r BY <1>2, <2>1 DEF Knows, Over
  <2>2. CASE s # r
    <3>1. Knows(reqs[s]) /\ reqs'[s] = reqs[s] BY <2>2 DEF IInv
    <3>2. reqs[s].op = "initiate" /\ reqs[s].pc = "create" => session'[reqs[s].upload] = "none"
      BY <3>1 DEF Knows
    <3> QED BY <1>2, <3>1, <3>2, KnowsKept
  <2> QED BY <2>1, <2>2
<1>7. Distinct' BY DistinctKept DEF IInv, Over
<1>8. Parts' BY <1>2 DEF IInv, Parts, Whole, PartCount
<1>9. Strays'
  <2>1. \A v \in Uploads \ {u} : \A s \in Requests : Holds(reqs[s], v) => Holds(reqs'[s], v)
    BY DEF Holds
  <2>2. Stray' \subseteq Stray BY <1>2, <2>1 DEF Stray, Holds
  <2> QED BY <1>1, <2>2, ModesAssumption, StraysKept DEF IInv, TypeOK
<1>10. OneObject'
  <2>1. OneObject BY DEF IInv
  <2>2. \A s \in Requests : Current(reqs[s])'
    <3> TAKE s \in Requests
    <3>1. CASE s = r BY <3>1 DEF Current, Over
    <3>2. CASE s # r
      <4>1. Current(reqs[s]) /\ reqs'[s] = reqs[s] /\ Knows(reqs[s]) BY <2>1, <3>2 DEF OneObject, IInv
      <4> QED BY <1>2, <4>1 DEF Current, Knows
    <3> QED BY <3>1, <3>2
  <2> QED BY <1>2, <2>1, <2>2 DEF OneObject, QueuedObjectIsVerified
<1> QED BY <1>3, <1>4, <1>5, <1>6, <1>7, <1>8, <1>9, <1>10 DEF IInv

LEMMA AbandonIInv == ASSUME IInv, NEW r \in Requests, Abandon(r) PROVE IInv'
<1> DEFINE u == reqs[r].upload
<1>1. /\ reqs[r].op = "initiate" /\ reqs[r].pc = "abandon" /\ Goto(r, "refind")
      /\ UNCHANGED <<photoVars, rowVars, object>>
  BY DEF Abandon, At
<1>2. TypeOK /\ reqs[r] \in Request /\ Knows(reqs[r]) /\ u \in Uploads
  BY <1>1, AtRequest DEF IInv, Knows
<1>3. /\ reqs' \in [Requests -> Record]
      /\ reqs'[r].op = reqs[r].op /\ reqs'[r].pc = "refind" /\ reqs'[r].upload = u
      /\ reqs'[r].result = reqs[r].result
      /\ \A s \in Requests \ {r} : reqs'[s] = reqs[s]
  BY <1>1, <1>2, GotoEffect
<1>4. reqs[r].result # "ok" BY <1>1, <1>2 DEF Knows
<1>5. CASE multi[u] = "open" /\ Drop(u) /\ UNCHANGED faults
  BY <1>1, <1>2, <1>3, <1>4, <1>5, NoFault, DropIInv
<1>6. Knows(reqs'[r]) /\ Current(reqs'[r]) BY <1>1, <1>3, <1>4 DEF Knows, Current
<1>7. CASE multi[u] # "open" /\ UNCHANGED <<multi, pieces, faults>>
  <2>1. \A v \in Uploads : multi[v] = "open" => ~Holds(reqs[r], v) BY <1>7 DEF Holds
  <2> QED BY <1>1, <1>3, <1>6, <1>7, <2>1, NoFault, QuietStep DEF storeVars
<1>8. CASE Fault /\ UNCHANGED <<multi, pieces>>
  <2>1. faults' \in 0..MaxFaults /\ faults <= faults' /\ faults' = faults + 1
    BY <1>2, <1>8, FaultType
  <2> QED BY <1>1, <1>3, <1>6, <1>8, <2>1, QuietStep DEF storeVars
<1> QED BY <1>5, <1>7, <1>8 DEF Abandon

LEMMA AbortUploadIInv == ASSUME IInv, NEW r \in Requests, AbortUpload(r) PROVE IInv'
<1> DEFINE u == reqs[r].upload
<1>1. /\ reqs[r].op = "abort" /\ reqs[r].pc = "release"
      /\ UNCHANGED <<photoVars, rowVars, object>>
  BY DEF AbortUpload, At
<1>2. TypeOK /\ reqs[r] \in Request /\ Knows(reqs[r]) /\ u \in Uploads /\ session[u] # "none"
  BY <1>1, AtRequest DEF IInv, Knows
<1>3. CASE Reply(r, "failed") /\ UNCHANGED <<multi, pieces, faults>>
  BY <1>1, <1>3, NoFault, ReplyIInv DEF storeVars
<1>4. CASE multi[u] = "open" /\ Drop(u) /\ Goto(r, "mark") /\ UNCHANGED faults
  <2>1. /\ reqs' \in [Requests -> Record]
        /\ reqs'[r].op = reqs[r].op /\ reqs'[r].pc = "mark" /\ reqs'[r].upload = u
        /\ \A s \in Requests \ {r} : reqs'[s] = reqs[s]
    BY <1>2, <1>4, GotoEffect
  <2> QED BY <1>1, <1>2, <1>4, <2>1, NoFault, DropIInv
<1>5. CASE multi[u] = "open" /\ Drop(u) /\ Fault /\ Reply(r, "failed")
  <2>1. /\ reqs' \in [Requests -> Record]
        /\ Over(reqs'[r])
        /\ \A s \in Requests \ {r} : reqs'[s] = reqs[s]
    BY <1>2, <1>5, ReplyEffect
  <2>2. faults' \in 0..MaxFaults /\ faults <= faults' BY <1>2, <1>5, FaultType
  <2> QED BY <1>1, <1>2, <1>5, <2>1, <2>2, DropIInv
<1> QED BY <1>3, <1>4, <1>5 DEF AbortUpload

LEMMA PutPartIInv == ASSUME IInv, NEW u \in Uploads, NEW n \in 1..MaxParts, PutPart(u, n) PROVE IInv'
<1> USE DEF photoVars, rowVars, expiry
<1>1. /\ pieces' = [pieces EXCEPT ![u] = @ \cup {n}] /\ multi[u] = "open" /\ Signable(n, ByteSize)
      /\ UNCHANGED <<photoVars, rowVars, multi, object, reqs, faults>>
  BY DEF PutPart
<1>2. TypeOK' BY <1>1 DEF IInv, TypeOK
<1>3. Rows' /\ Queue' /\ Distinct' BY <1>1 DEF IInv, Rows, Queue, Distinct, At
<1>4. \A s \in Requests : Knows(reqs[s])'
  <2> TAKE s \in Requests
  <2>1. Knows(reqs[s]) BY DEF IInv
  <2> QED BY <1>1, <2>1 DEF Knows
<1>5. Parts'
  <2>1. n \in Whole BY <1>1 DEF Signable, Whole
  <2>2. \A v \in Uploads : pieces'[v] \subseteq pieces[v] \cup Whole
    BY <1>1, <2>1 DEF IInv, TypeOK
  <2>3. \A v \in Uploads \ {u} : pieces'[v] = pieces[v] BY <1>1 DEF IInv, TypeOK
  <2>4. Whole' = Whole BY DEF Whole, PartCount
  <2> QED BY <1>1, <2>2, <2>3, <2>4 DEF IInv, Parts
<1>6. Strays'
  <2>1. Stray' = Stray BY <1>1 DEF Stray, Holds
  <2> QED BY <1>1, <2>1 DEF IInv, Strays
<1>7. OneObject'
  <2>1. OneObject BY DEF IInv
  <2>2. \A s \in Requests : Current(reqs[s])' BY <1>1, <2>1 DEF OneObject, Current
  <2> QED BY <1>1, <2>1, <2>2 DEF OneObject, QueuedObjectIsVerified
<1> QED BY <1>2, <1>3, <1>4, <1>5, <1>6, <1>7 DEF IInv

LEMMA JoinIInv ==
    ASSUME IInv, NEW r \in Requests, NEW u \in Uploads, u = reqs[r].upload, multi[u] = "open",
           reqs[r].op = "complete", reqs[r].pc = "assemble", reqs[r].parts \subseteq pieces[u],
           multi' = [multi EXCEPT ![u] = "assembled"], pieces' = [pieces EXCEPT ![u] = reqs[r].parts],
           object' = u, UNCHANGED <<photoVars, rowVars>>,
           reqs' \in [Requests -> Record], \A s \in Requests \ {r} : reqs'[s] = reqs[s],
           Over(reqs'[r]) \/ (reqs'[r].op = "complete" /\ reqs'[r].upload = u /\ reqs'[r].pc = "stat"),
           faults' \in 0..MaxFaults, faults <= faults'
    PROVE  IInv'
<1> USE DEF photoVars, rowVars, expiry
<1>1. TypeOK /\ Knows(reqs[r]) /\ session[u] # "none" BY DEF IInv, Knows
<1>2. /\ multi'[u] = "assembled" /\ pieces'[u] = reqs[r].parts
      /\ \A v \in Uploads \ {u} : multi'[v] = multi[v] /\ pieces'[v] = pieces[v]
      /\ multi' \in [Uploads -> {"none", "open", "assembled", "aborted"}]
      /\ pieces' \in [Uploads -> SUBSET (1..MaxParts)]
  BY <1>1 DEF TypeOK
<1>3. TypeOK' BY <1>1, <1>2 DEF TypeOK, Record
<1>4. Rows' BY <1>1, <1>2 DEF IInv, Rows
<1>5. Queue' BY DEF IInv, Queue
<1>6. \A s \in Requests : Knows(reqs[s])'
  <2> TAKE s \in Requests
  <2>1. CASE s = r BY <1>1, <1>2, <2>1 DEF Knows, Over
  <2>2. CASE s # r
    <3>1. Knows(reqs[s]) /\ reqs'[s] = reqs[s] BY <2>2 DEF IInv
    <3>2. reqs[s].op = "initiate" /\ reqs[s].pc = "create" => session'[reqs[s].upload] = "none"
      BY <3>1 DEF Knows
    <3> QED BY <1>2, <3>1, <3>2, KnowsKept
  <2> QED BY <2>1, <2>2
<1>7. Distinct' BY DistinctKept DEF IInv, Over
<1>8. reqs[r].parts = Whole
  <2>1. IsFiniteSet(Whole) /\ Cardinality(Whole) = PartCount(ByteSize)
    BY CountType, FS_Interval DEF Whole
  <2>2. reqs[r].parts \in SUBSET Whole BY DEF IInv, Parts
  <2>3. Cardinality(reqs[r].parts) = PartCount(ByteSize) BY <1>1 DEF Knows
  <2> QED BY <2>1, <2>2, <2>3, FS_Subset
<1>9. Parts'
  <2>1. Whole' = Whole BY DEF Whole, PartCount
  <2> QED BY <1>2, <1>8, <2>1 DEF IInv, Parts
<1>10. Strays'
  <2>1. \A v \in Uploads : \A s \in Requests : Holds(reqs[s], v) => Holds(reqs'[s], v) BY DEF Holds
  <2>2. Stray' \subseteq Stray BY <1>2, <2>1 DEF Stray, Holds
  <2> QED BY <1>1, <2>2, ModesAssumption, StraysKept DEF IInv, TypeOK
<1>11. OneObject'
  <2>1. OneObject BY DEF IInv
  <2>2. \A s \in Requests : Current(reqs[s])'
    <3> TAKE s \in Requests
    <3>1. CASE s = r BY <3>1 DEF Current, Over
    <3>2. CASE s # r
      <4>1. Current(reqs[s]) /\ reqs'[s] = reqs[s] /\ Knows(reqs[s]) BY <2>1, <3>2 DEF OneObject, IInv
      <4> QED BY <1>2, <4>1 DEF Current, Knows
    <3> QED BY <3>1, <3>2
  <2>3. CASE u \in overran
    BY <2>2, <2>3 DEF OneObject, QueuedObjectIsVerified
  <2>4. CASE session[u] = "active"
    <3>1. \A v \in Uploads : session[v] = "active" => v = u BY <1>1, <2>4 DEF TypeOK
    <3>2. photo # "queued" BY <2>4 DEF IInv, Queue
    <3> QED BY <2>2, <3>1, <3>2 DEF OneObject, QueuedObjectIsVerified
  <2> QED BY <2>1, <2>3, <2>4 DEF OneObject, Current
<1> QED BY <1>3, <1>4, <1>5, <1>6, <1>7, <1>9, <1>10, <1>11 DEF IInv

LEMMA AssembleIInv == ASSUME IInv, NEW r \in Requests, Assemble(r) PROVE IInv'
<1> DEFINE u == reqs[r].upload
<1>1. /\ reqs[r].op = "complete" /\ reqs[r].pc = "assemble" /\ UNCHANGED <<photoVars, rowVars>>
  BY DEF Assemble, At
<1>2. TypeOK /\ reqs[r] \in Request /\ Knows(reqs[r]) /\ u \in Uploads
  BY <1>1, AtRequest DEF IInv, Knows
<1> DEFINE Joined == /\ multi[u] = "open" /\ reqs[r].parts \subseteq pieces[u]
                     /\ multi' = [multi EXCEPT ![u] = "assembled"]
                     /\ pieces' = [pieces EXCEPT ![u] = reqs[r].parts]
                     /\ object' = u
<1>3. CASE Reply(r, "failed") /\ UNCHANGED <<storeVars, faults>>
  BY <1>1, <1>3, NoFault, ReplyIInv
<1>4. CASE Joined /\ Goto(r, "stat") /\ UNCHANGED faults
  <2>1. /\ reqs' \in [Requests -> Record]
        /\ reqs'[r].op = reqs[r].op /\ reqs'[r].pc = "stat" /\ reqs'[r].upload = u
        /\ \A s \in Requests \ {r} : reqs'[s] = reqs[s]
    BY <1>2, <1>4, GotoEffect
  <2> QED BY <1>1, <1>2, <1>4, <2>1, NoFault, JoinIInv
<1>5. CASE Joined /\ Fault /\ Reply(r, "failed")
  <2>1. /\ reqs' \in [Requests -> Record]
        /\ Over(reqs'[r])
        /\ \A s \in Requests \ {r} : reqs'[s] = reqs[s]
    BY <1>2, <1>5, ReplyEffect
  <2>2. faults' \in 0..MaxFaults /\ faults <= faults' BY <1>2, <1>5, FaultType
  <2> QED BY <1>1, <1>2, <1>5, <2>1, <2>2, JoinIInv
<1> QED BY <1>3, <1>4, <1>5 DEF Assemble

\* The part of Finalize that writes.
LEMMA CommitIInv ==
    ASSUME IInv, NEW r \in Requests, NEW u \in Uploads, u = reqs[r].upload,
           reqs[r].op = "complete", reqs[r].pc = "finalize",
           session[u] = "active", photo = "uploading",
           session' = [session EXCEPT ![u] = "completed"], photo' = "queued", gen' = gen + 1,
           UNCHANGED <<event, expiry, storeVars>>,
           reqs' \in [Requests -> Record], \A s \in Requests \ {r} : reqs'[s] = reqs[s],
           Over(reqs'[r]),
           faults' \in 0..MaxFaults, faults <= faults'
    PROVE  IInv'
<1> USE DEF expiry, storeVars
<1>1. TypeOK /\ multi[u] = "assembled" BY DEF IInv, Knows
<1>2. /\ session' \in [Uploads -> {"none", "active", "completed", "aborted", "expired"}]
      /\ session'[u] = "completed"
      /\ \A v \in Uploads \ {u} : session'[v] = session[v] /\ session[v] # "active"
  BY <1>1 DEF TypeOK
<1>3. gen = 0 /\ \A v \in Uploads : session[v] # "completed" BY DEF IInv, Queue
<1>4. TypeOK' BY <1>1, <1>2, <1>3 DEF TypeOK, Record
<1>5. Rows' BY <1>2 DEF IInv, Rows
<1>6. Queue'
  <2>1. {v \in Uploads : session'[v] = "completed"} = {u} BY <1>2, <1>3
  <2> QED BY <1>2, <1>3, <2>1 DEF Queue
<1>7. \A s \in Requests : Knows(reqs[s])'
  <2> TAKE s \in Requests
  <2>1. CASE s = r BY <2>1 DEF Knows, Over
  <2>2. CASE s # r
    <3>1. Knows(reqs[s]) /\ reqs'[s] = reqs[s] BY <2>2 DEF IInv
    <3>2. reqs[s].op = "initiate" /\ reqs[s].pc = "create" => session'[reqs[s].upload] = "none"
      BY <1>2, <3>1 DEF Knows
    <3> QED BY <1>2, <3>1, <3>2, KnowsKept
  <2> QED BY <2>1, <2>2
<1>8. Distinct' BY DistinctKept DEF IInv, Over
<1>9. Parts' BY DEF IInv, Parts, Whole, PartCount
<1>10. Strays'
  <2>1. \A v \in Uploads : \A s \in Requests : Holds(reqs[s], v) => Holds(reqs'[s], v) BY DEF Holds
  <2>2. Stray' \subseteq Stray BY <1>2, <2>1 DEF Stray, Holds
  <2> QED BY <1>1, <2>2, ModesAssumption, StraysKept DEF IInv, TypeOK
<1>11. OneObject'
  <2>1. OneObject BY DEF IInv
  <2>2. \A s \in Requests : Current(reqs[s])'
    <3> TAKE s \in Requests
    <3>1. CASE s = r BY <3>1 DEF Current, Over
    <3>2. CASE s # r
      <4>1. Current(reqs[s]) /\ reqs'[s] = reqs[s] /\ Knows(reqs[s]) BY <2>1, <3>2 DEF OneObject, IInv
      <4> QED BY <1>1, <1>2, <4>1 DEF Current, Knows
    <3> QED BY <3>1, <3>2
  <2>3. object' = u \/ object' \in overran' BY <1>1, <2>1 DEF OneObject
  <2>4. \A v \in Uploads : session'[v] = "completed" => v = u BY <1>2, <1>3
  <2>5. \A v \in Uploads : session'[v] # "active" BY <1>2
  <2> QED BY <2>2, <2>3, <2>4, <2>5 DEF OneObject, QueuedObjectIsVerified
<1> QED BY <1>4, <1>5, <1>6, <1>7, <1>8, <1>9, <1>10, <1>11 DEF IInv

LEMMA FinalizeIInv == ASSUME IInv, NEW r \in Requests, Finalize(r) PROVE IInv'
<1> DEFINE u == reqs[r].upload
<1>1. /\ reqs[r].op = "complete" /\ reqs[r].pc = "finalize" /\ UNCHANGED <<event, expiry, storeVars>>
  BY DEF Finalize, At
<1>2. TypeOK /\ reqs[r] \in Request /\ u \in Uploads BY <1>1, AtRequest DEF IInv, Knows
<1>3. CASE /\ session[u] = "active" /\ photo = "uploading"
           /\ session' = [session EXCEPT ![u] = "completed"] /\ photo' = "queued" /\ gen' = gen + 1
           /\ \/ Reply(r, "ok") /\ UNCHANGED faults
              \/ Fault /\ Reply(r, "failed")
  <2>1. /\ reqs' \in [Requests -> Record]
        /\ Over(reqs'[r])
        /\ \A s \in Requests \ {r} : reqs'[s] = reqs[s]
    BY <1>2, <1>3, ReplyEffect
  <2>2. faults' \in 0..MaxFaults /\ faults <= faults' BY <1>2, <1>3, FaultType, NoFault
  <2> QED BY <1>1, <1>2, <1>3, <2>1, <2>2, CommitIInv
<1>4. CASE Reply(r, "failed") /\ UNCHANGED <<session, photo, gen, faults>>
  BY <1>1, <1>4, NoFault, ReplyIInv DEF photoVars, rowVars
<1> QED BY <1>3, <1>4 DEF Finalize

\* A session that is no longer active, without its upload still to be assembled.
LEMMA EndedIInv ==
    ASSUME IInv, NEW r \in Requests, NEW u \in Uploads, u = reqs[r].upload,
           reqs[r].op = "abort", reqs[r].pc = "mark",
           session[u] = "active", session' = [session EXCEPT ![u] = "aborted"],
           UNCHANGED <<photoVars, expiry, storeVars, faults>>,
           reqs' \in [Requests -> Record], \A s \in Requests \ {r} : reqs'[s] = reqs[s],
           Over(reqs'[r])
    PROVE  IInv'
<1> USE DEF photoVars, expiry, storeVars
<1>1. TypeOK /\ multi[u] = "aborted" BY DEF IInv, Knows
<1>2. /\ session' \in [Uploads -> {"none", "active", "completed", "aborted", "expired"}]
      /\ session'[u] = "aborted"
      /\ \A v \in Uploads \ {u} : session'[v] = session[v]
  BY <1>1 DEF TypeOK
<1>3. TypeOK' BY <1>1, <1>2 DEF TypeOK, Record
<1>4. Rows' BY <1>1, <1>2 DEF IInv, Rows
<1>5. Queue'
  <2>1. {v \in Uploads : session'[v] = "completed"} = {v \in Uploads : session[v] = "completed"}
    BY <1>2
  <2> QED BY <1>2, <2>1 DEF IInv, Queue
<1>6. \A s \in Requests : Knows(reqs[s])'
  <2> TAKE s \in Requests
  <2>1. CASE s = r BY <2>1 DEF Knows, Over
  <2>2. CASE s # r
    <3>1. Knows(reqs[s]) /\ reqs'[s] = reqs[s] BY <2>2 DEF IInv
    <3>2. reqs[s].op = "initiate" /\ reqs[s].pc = "create" => session'[reqs[s].upload] = "none"
      BY <1>2, <3>1 DEF Knows
    <3> QED BY <1>2, <3>1, <3>2, KnowsKept
  <2> QED BY <2>1, <2>2
<1>7. Distinct' BY DistinctKept DEF IInv, Over
<1>8. Parts' BY DEF IInv, Parts, Whole, PartCount
<1>9. Strays'
  <2>1. \A v \in Uploads : \A s \in Requests : Holds(reqs[s], v) => Holds(reqs'[s], v) BY DEF Holds
  <2>2. Stray' \subseteq Stray BY <1>2, <2>1 DEF Stray, Holds
  <2> QED BY <1>1, <2>2, FaultsType, StraysKept DEF IInv
<1>10. OneObject'
  <2>1. OneObject BY DEF IInv
  <2>2. \A s \in Requests : Current(reqs[s])'
    <3> TAKE s \in Requests
    <3>1. CASE s = r BY <3>1 DEF Current, Over
    <3>2. CASE s # r
      <4>1. Current(reqs[s]) /\ reqs'[s] = reqs[s] /\ Knows(reqs[s]) BY <2>1, <3>2 DEF OneObject, IInv
      <4> QED BY <1>1, <1>2, <4>1 DEF Current, Knows
    <3> QED BY <3>1, <3>2
  <2> QED BY <1>2, <2>1, <2>2 DEF OneObject, QueuedObjectIsVerified
<1> QED BY <1>3, <1>4, <1>5, <1>6, <1>7, <1>8, <1>9, <1>10 DEF IInv

LEMMA MarkAbortedIInv == ASSUME IInv, NEW r \in Requests, MarkAborted(r) PROVE IInv'
<1> DEFINE u == reqs[r].upload
<1>1. /\ reqs[r].op = "abort" /\ reqs[r].pc = "mark"
      /\ UNCHANGED <<photoVars, expiry, storeVars, faults>>
  BY DEF MarkAborted, At
<1>2. TypeOK /\ reqs[r] \in Request /\ u \in Uploads BY <1>1, AtRequest DEF IInv, Knows
<1>3. CASE /\ session[u] = "active" /\ session' = [session EXCEPT ![u] = "aborted"]
           /\ Reply(r, "ok")
  <2>1. /\ reqs' \in [Requests -> Record]
        /\ Over(reqs'[r])
        /\ \A s \in Requests \ {r} : reqs'[s] = reqs[s]
    BY <1>2, <1>3, ReplyEffect
  <2> QED BY <1>1, <1>2, <1>3, <2>1, EndedIInv
<1>4. CASE Reply(r, "failed") /\ UNCHANGED session
  BY <1>1, <1>4, NoFault, ReplyIInv DEF rowVars
<1> QED BY <1>3, <1>4 DEF MarkAborted

-----------------------------------------------------------------------------
(* Steps of no request.                                                     *)

LEMMA LapseIInv == ASSUME IInv, NEW u \in Uploads, Lapse(u) PROVE IInv'
<1> USE DEF photoVars, expiry, storeVars
<1>1. /\ lapsed' = lapsed \cup {u} /\ overran' = IF LetIn(u) THEN overran \cup {u} ELSE overran
      /\ UNCHANGED <<photoVars, session, storeVars, reqs, faults>>
  BY DEF Lapse
<1>2. TypeOK' BY <1>1 DEF IInv, TypeOK
<1>3. Rows' /\ Queue' /\ Distinct' BY <1>1 DEF IInv, Rows, Queue, Distinct, At
<1>4. \A s \in Requests : Knows(reqs[s])'
  <2> TAKE s \in Requests
  <2>1. Knows(reqs[s]) BY DEF IInv
  <2> QED BY <1>1, <2>1 DEF Knows
<1>5. Parts' BY <1>1 DEF IInv, Parts, Whole, PartCount
<1>6. Strays'
  <2>1. Stray' = Stray BY <1>1 DEF Stray, Holds
  <2> QED BY <1>1, <2>1 DEF IInv, Strays
<1>7. OneObject'
  <2>1. OneObject BY DEF IInv
  <2>2. \A s \in Requests : Current(reqs[s])'
    <3> TAKE s \in Requests
    <3>1. Current(reqs[s]) BY <2>1 DEF OneObject
    <3>2. reqs[s].op = "complete" /\ reqs[s].pc = "assemble" /\ reqs[s].upload = u => u \in overran'
      BY <1>1 DEF LetIn, At
    <3> QED BY <1>1, <3>1, <3>2 DEF Current
  <2> QED BY <1>1, <2>1, <2>2 DEF OneObject, QueuedObjectIsVerified
<1> QED BY <1>2, <1>3, <1>4, <1>5, <1>6, <1>7 DEF IInv

\* Nothing but the photo and the event change, and the photo is not queued by it.
LEMMA TombstoneIInv ==
    ASSUME IInv, UNCHANGED <<gen, rowVars, storeVars, reqs, faults>>,
           event' \in {"active", "archived"}, photo' \in {photo, "deleted"}
    PROVE  IInv'
<1> USE DEF rowVars, expiry, storeVars
<1>1. TypeOK' BY DEF IInv, TypeOK
<1>2. Rows' /\ Distinct' BY DEF IInv, Rows, Distinct, At
<1>3. Queue'
  <2>1. CASE photo' = photo BY <2>1 DEF IInv, Queue
  <2>2. CASE photo' = "deleted" BY <2>2 DEF IInv, Queue
  <2> QED BY <2>1, <2>2
<1>4. \A s \in Requests : Knows(reqs[s])'
  <2> TAKE s \in Requests
  <2>1. Knows(reqs[s]) BY DEF IInv
  <2> QED BY <2>1 DEF Knows
<1>5. Parts' BY DEF IInv, Parts, Whole, PartCount
<1>6. Strays'
  <2>1. Stray' = Stray BY DEF Stray, Holds
  <2> QED BY <2>1 DEF IInv, Strays
<1>7. OneObject'
  <2>1. OneObject BY DEF IInv
  <2>2. \A s \in Requests : Current(reqs[s])' BY <2>1 DEF OneObject, Current
  <2> QED BY <2>1, <2>2 DEF OneObject, QueuedObjectIsVerified
<1> QED BY <1>1, <1>2, <1>3, <1>4, <1>5, <1>6, <1>7 DEF IInv

-----------------------------------------------------------------------------
(* The theorems.                                                            *)

LEMMA Initially == ASSUME Init PROVE IInv
<1>1. TypeOK BY ModesAssumption DEF Init, TypeOK
<1>2. Rows /\ Queue BY DEF Init, Rows, Queue
<1>3. \A r \in Requests : Knows(reqs[r]) BY IdleKnows DEF Init
<1>4. Distinct BY RecordFields DEF Init, Distinct, At
<1>5. Parts BY DEF Init, Parts
<1>6. Strays
  <2>1. Stray = {} BY DEF Init, Stray
  <2>2. faults = 0 BY DEF Init
  <2> QED BY <2>1, <2>2, FS_EmptySet DEF Strays
<1>7. OneObject BY IdleKnows DEF Init, OneObject, QueuedObjectIsVerified
<1> QED BY <1>1, <1>2, <1>3, <1>4, <1>5, <1>6, <1>7 DEF IInv

LEMMA Preserved == ASSUME IInv, [Next]_vars PROVE IInv'
<1>1. CASE UNCHANGED vars
  <2>1. UNCHANGED <<gen, rowVars, storeVars, reqs, faults>> /\ event' = event /\ photo' = photo
    BY <1>1 DEF vars, photoVars
  <2> QED BY <2>1, TombstoneIInv DEF IInv, TypeOK
<1>2. ASSUME NEW r \in Requests, Client(r) PROVE IInv'
  BY <1>2, AskIInv, AnsweredIInv, CrashIInv DEF Client
<1>3. ASSUME NEW r \in Requests, Initiate(r) PROVE IInv'
  BY <1>3, FindOrOpenIInv, OpenUploadIInv, CreateSessionIInv, AbandonIInv, RefindIInv DEF Initiate
<1>4. ASSUME NEW r \in Requests, Complete(r) PROVE IInv'
  BY <1>4, FindForCompletionIInv, AssembleIInv, VerifyIInv, FinalizeIInv DEF Complete
<1>5. ASSUME NEW r \in Requests, Abort(r) PROVE IInv'
  BY <1>5, FindToAbortIInv, AbortUploadIInv, MarkAbortedIInv DEF Abort
<1>6. ASSUME NEW u \in Uploads, Lapse(u) \/ \E n \in 1..MaxParts : PutPart(u, n) PROVE IInv'
  BY <1>6, LapseIInv, PutPartIInv
<1>7. CASE Delete
  BY <1>7, TombstoneIInv DEF Delete
<1>8. CASE Archive
  BY <1>8, TombstoneIInv DEF Archive
<1> QED BY <1>1, <1>2, <1>3, <1>4, <1>5, <1>6, <1>7, <1>8 DEF Next

\* The inductive invariant: what every request under way knows of its session and upload holds
\* through all interleavings, crashes and tombstones.
THEOREM Inductive == Spec => []IInv
BY Initially, Preserved, PTL DEF Spec

\* Every variable keeps its type, and a photo has one active session at most, although
\* requests race to open one (Create and its unique index).
THEOREM TypeCorrect == Spec => []TypeOK
<1>1. IInv => TypeOK BY DEF IInv
<1> QED BY <1>1, Inductive, PTL

\* Sessions completed and generations queued agree, though a tombstone or a lost reply may come
\* between two rows' writes (FinalizeCompleted).
THEOREM CompletedQueued == Spec => []CompletedIsQueued
<1>1. IInv => CompletedIsQueued
  <2> SUFFICES ASSUME IInv PROVE CompletedIsQueued OBVIOUS
  <2> DEFINE Done == {u \in Uploads : session[u] = "completed"}
  <2>1. CASE gen = 0 /\ \A u \in Uploads : session[u] # "completed"
    <3>1. Done = {} BY <2>1
    <3> QED BY <2>1, <3>1, FS_EmptySet DEF CompletedIsQueued
  <2>2. CASE gen = 1 /\ \E u \in Uploads : Done = {u}
    <3>1. PICK u \in Uploads : Done = {u} BY <2>2
    <3>2. Cardinality(Done) = 1 BY <3>1, FS_Singleton
    <3> QED BY <2>2, <3>2 DEF CompletedIsQueued
  <2> QED BY <2>1, <2>2 DEF IInv, Queue
<1> QED BY <1>1, Inductive, PTL

\* The object of a queued photo is the one its completed session assembled and verified, although
\* all sessions share the object key; or it is one that a completion put in its place whose own
\* session had expired between its lookup and its assembly, and nothing else.
THEOREM VerifiedObject == Spec => []QueuedObjectIsVerified
<1>1. IInv => QueuedObjectIsVerified BY DEF IInv, OneObject
<1> QED BY <1>1, Inductive, PTL

\* What was assembled is the whole photo, however completions list its parts.
THEOREM WholeAssembled == Spec => []AssembledIsWhole
<1>1. IInv => AssembledIsWhole BY DEF IInv, Parts, Whole, AssembledIsWhole
<1> QED BY <1>1, Inductive, PTL

\* Only a fault leaves a multipart upload that no session and no request knows of.
THEOREM NoLeak == Spec => []OnlyFaultsOrphan
<1>1. IInv => OnlyFaultsOrphan
  <2> SUFFICES ASSUME IInv PROVE OnlyFaultsOrphan OBVIOUS
  <2>1. Strays /\ faults \in Nat BY ModesAssumption DEF IInv, TypeOK
  <2>2. Orphans \subseteq Stray BY DEF Orphans, Stray, Holds
  <2>3. IsFiniteSet(Orphans) /\ Cardinality(Orphans) <= Cardinality(Stray)
    BY <2>1, <2>2, FS_Subset DEF Strays
  <2>4. Cardinality(Stray) \in Nat /\ Cardinality(Orphans) \in Nat
    BY <2>1, <2>3, FS_CardinalityType DEF Strays
  <2>5. \A a, b, c \in Nat : a <= b /\ b <= c => a <= c OBVIOUS
  <2>6. Cardinality(Stray) <= faults BY <2>1 DEF Strays
  <2> QED BY <2>1, <2>3, <2>4, <2>5, <2>6 DEF OnlyFaultsOrphan
<1> QED BY <1>1, Inductive, PTL

\* An initiate answers with an upload that has a session, its own or the winner's.
THEOREM AnswersFindable == Spec => []AnswerHasSession
<1>1. IInv => AnswerHasSession BY DEF IInv, Knows, AnswerHasSession
<1> QED BY <1>1, Inductive, PTL

-----------------------------------------------------------------------------
(* The photo's upload, as PhotoUpload.tla has it.                           *)

\* The stored object was assembled from some upload, and there is one from the first assembly.
Stored ==
    /\ object # None => multi[object] = "assembled"
    /\ \A u \in Uploads : multi[u] = "assembled" => object # None

\* What is done to the object store: an upload is assembled, and is the object; or not.
LEMMA StoreSteps ==
    ASSUME TypeOK, [Next]_vars
    PROVE  \/ UNCHANGED object /\ \A u \in Uploads : multi'[u] = "assembled" <=> multi[u] = "assembled"
           \/ \E r \in Requests :
                 /\ At(r, "complete", "assemble") /\ object' = reqs[r].upload
                 /\ multi' = [multi EXCEPT ![reqs[r].upload] = "assembled"]
<1> USE DEF TypeOK, photoVars, rowVars, expiry, storeVars
<1>1. CASE UNCHANGED vars
  BY <1>1 DEF vars
<1>2. ASSUME NEW r \in Requests, Client(r) PROVE UNCHANGED <<multi, object>>
  BY <1>2 DEF Client, Ask, Answered, Crash
<1>3. ASSUME NEW r \in Requests, OpenUpload(r)
      PROVE  UNCHANGED object /\ \A u \in Uploads : multi'[u] = "assembled" <=> multi[u] = "assembled"
  BY <1>3 DEF OpenUpload
<1>4. ASSUME NEW r \in Requests, Abandon(r) \/ AbortUpload(r)
      PROVE  UNCHANGED object /\ \A u \in Uploads : multi'[u] = "assembled" <=> multi[u] = "assembled"
  BY <1>4 DEF Abandon, AbortUpload, Drop
<1>5. ASSUME NEW r \in Requests, FindOrOpen(r) \/ CreateSession(r) \/ Refind(r)
      PROVE  UNCHANGED <<multi, object>>
  BY <1>5 DEF FindOrOpen, CreateSession, Refind
<1>6. ASSUME NEW r \in Requests, FindForCompletion(r) \/ Verify(r) \/ Finalize(r)
      PROVE  UNCHANGED <<multi, object>>
  BY <1>6 DEF FindForCompletion, Verify, Finalize
<1>7. ASSUME NEW r \in Requests, Assemble(r)
      PROVE  \/ UNCHANGED <<multi, object>>
             \/ /\ At(r, "complete", "assemble") /\ object' = reqs[r].upload
                /\ multi' = [multi EXCEPT ![reqs[r].upload] = "assembled"]
  BY <1>7 DEF Assemble
<1>8. ASSUME NEW r \in Requests, FindToAbort(r) \/ MarkAborted(r) PROVE UNCHANGED <<multi, object>>
  BY <1>8 DEF FindToAbort, MarkAborted
<1>9. ASSUME NEW u \in Uploads, Lapse(u) \/ \E n \in 1..MaxParts : PutPart(u, n)
      PROVE  UNCHANGED <<multi, object>>
  BY <1>9 DEF Lapse, PutPart
<1>10. CASE Delete \/ Archive
  BY <1>10 DEF Delete, Archive
<1> QED
  BY <1>1, <1>2, <1>3, <1>4, <1>5, <1>6, <1>7, <1>8, <1>9, <1>10 DEF Next, Initiate, Complete, Abort

LEMMA StoredKept ==
    ASSUME IInv, Stored, [Next]_vars
    PROVE  Stored'
<1>1. TypeOK BY DEF IInv
<1>2. CASE UNCHANGED object /\ \A u \in Uploads : multi'[u] = "assembled" <=> multi[u] = "assembled"
  BY <1>1, <1>2 DEF Stored, TypeOK
<1>3. ASSUME NEW r \in Requests, At(r, "complete", "assemble"), object' = reqs[r].upload,
             multi' = [multi EXCEPT ![reqs[r].upload] = "assembled"]
      PROVE  Stored'
  <2>1. reqs[r].upload \in Uploads BY <1>3 DEF IInv, Knows, At
  <2> QED BY <1>1, <1>3, <2>1, NoneAssumption DEF Stored, TypeOK
<1> QED BY <1>1, <1>2, <1>3, StoreSteps

\* An object is whole, so that having one is having come to the end.
LEMMA ProgressIs ==
    ASSUME IInv, Stored
    PROVE  Progress = IF object # None THEN "assembled" ELSE IF Checking THEN "checked" ELSE "open"
<1>1. object # None => pieces[object] = 1..PartCount(ByteSize)
  BY DEF IInv, TypeOK, Parts, Whole, Stored
<1> QED BY <1>1 DEF Progress

Of(value) == [p \in {ThePhoto} |-> value]

LEMMA Shifts ==
    ASSUME NEW from, NEW to
    PROVE  [Of(from) EXCEPT ![ThePhoto] = to] = Of(to)
BY DEF Of

\* Before and after a step.
LEMMA ProgressNow ==
    ASSUME IInv, IInv', Stored, Stored'
    PROVE  /\ Progress = IF object # None THEN "assembled" ELSE IF Checking THEN "checked" ELSE "open"
           /\ Progress' = IF object' # None THEN "assembled" ELSE IF Checking' THEN "checked" ELSE "open"
<1>1. (Progress = IF object # None THEN "assembled" ELSE IF Checking THEN "checked" ELSE "open")'
  BY ProgressIs, PTL
<1> QED BY <1>1, ProgressIs

\* A step that touches neither photo, event nor object, and lets no completion in.
LEMMA Unnoticed ==
    ASSUME IInv, IInv', Stored, Stored', event' = event, Stage' = Stage, object' = object,
           Checking' => Checking
    PROVE  [Upload!Next]_(Upload!uvars)
<1>1. /\ Progress = IF object # None THEN "assembled" ELSE IF Checking THEN "checked" ELSE "open"
      /\ Progress' = IF object' # None THEN "assembled" ELSE IF Checking' THEN "checked" ELSE "open"
  BY ProgressNow
<1>2. (event = "active")' = (event = "active") OBVIOUS
<1>3. CASE Progress' = Progress
  BY <1>2, <1>3 DEF Upload!uvars
<1>4. CASE Progress = "checked" /\ Progress' = "open"
  <2>1. Upload!GiveUp(ThePhoto)
    BY <1>2, <1>4, Shifts DEF Upload!GiveUp, Upload!Moves, Of
  <2> QED BY <2>1 DEF Upload!Next
<1> QED BY <1>1, <1>3, <1>4

\* One request moves, and not into an assembly.
MovesElsewhere(r) == reqs'[r].pc # "assemble" /\ \A s \in Requests \ {r} : reqs'[s] = reqs[s]

LEMMA Elsewhere ==
    ASSUME IInv, IInv', Stored, Stored', event' = event, Stage' = Stage, object' = object,
           NEW r \in Requests, MovesElsewhere(r)
    PROVE  [Upload!Next]_(Upload!uvars)
<1>1. Checking' => Checking BY DEF Checking, At, MovesElsewhere
<1> QED BY <1>1, Unnoticed

\* What replying and going on do to a request that has its place.
LEMMA Onwards ==
    ASSUME TypeOK, NEW r \in Requests, reqs[r].op \in {"initiate", "complete", "abort"},
           \/ \E result \in {"ok", "failed", "lookup"} : Reply(r, result)
           \/ \E u \in Uploads : Answer(r, u)
           \/ \E pc \in {"open", "create", "abandon", "refind", "stat", "finalize", "release", "mark"} :
                 Goto(r, pc)
    PROVE  MovesElsewhere(r)
<1>1. reqs[r] \in Request BY AtRequest
<1> QED BY <1>1, ReplyEffect, AnswerEffect, GotoEffect DEF MovesElsewhere, Over

LEMMA ClientSeen ==
    ASSUME IInv, IInv', Stored, Stored', NEW r \in Requests, Client(r)
    PROVE  [Upload!Next]_(Upload!uvars)
<1>1. UNCHANGED <<event, photo, object>>
  BY DEF Client, Ask, Answered, Crash, photoVars, storeVars
<1>2. Stage' = Stage BY <1>1 DEF Stage
<1> DEFINE Elsewhither == \E q : reqs' = [reqs EXCEPT ![r] = q] /\ q.pc # "assemble"
<1>3. Elsewhither
  <2>1. ASSUME NEW op, NEW u, Ask(r, op, u) PROVE Elsewhither
    <3>1. [Idle EXCEPT !.op = op, !.pc = "find", !.upload = u].pc = "find" BY DEF Idle
    <3> QED BY <2>1, <3>1 DEF Ask
  <2>2. CASE Answered(r) \/ Crash(r)
    BY <2>2, RecordFields DEF Answered, Crash
  <2> QED BY <2>1, <2>2 DEF Client
<1>4. MovesElsewhere(r)
  BY <1>3 DEF IInv, TypeOK, MovesElsewhere
<1> QED BY <1>1, <1>2, <1>4, Elsewhere

LEMMA InitiateSeen ==
    ASSUME IInv, IInv', Stored, Stored', NEW r \in Requests, Initiate(r)
    PROVE  [Upload!Next]_(Upload!uvars)
<1>1. TypeOK /\ reqs[r].op = "initiate" /\ reqs[r] \in Request
  <2>1. TypeOK /\ reqs[r].op = "initiate"
    BY DEF IInv, Initiate, FindOrOpen, OpenUpload, CreateSession, Abandon, Refind, At
  <2> QED BY <2>1, AtRequest
<1>2. event' = event /\ object' = object
  BY DEF Initiate, FindOrOpen, OpenUpload, CreateSession, Abandon, Refind, photoVars, storeVars
<1>3. Stage' = Stage
  BY DEF Initiate, FindOrOpen, OpenUpload, CreateSession, Abandon, Refind, photoVars, Eligible, Stage
<1>4. MovesElsewhere(r)
  <2>1. CASE FindOrOpen(r) \/ Refind(r)
    <3>1. Found \subseteq Uploads BY DEF Found
    <3> QED BY <1>1, <2>1, <3>1, Onwards DEF FindOrOpen, Refind
  <2>2. CASE CreateSession(r) \/ Abandon(r)
    <3>1. CreateSession(r) => reqs[r].upload \in Uploads BY DEF CreateSession, IInv, Knows, At
    <3> QED BY <1>1, <2>2, <3>1, Onwards DEF CreateSession, Abandon
  <2>3. CASE OpenUpload(r)
    <3>1. ASSUME NEW u \in Uploads, reqs' = [reqs EXCEPT ![r].pc = "create", ![r].upload = u]
          PROVE  MovesElsewhere(r)
      <4> DEFINE q == [reqs[r] EXCEPT !.pc = "create", !.upload = u]
      <4>1. q \in Record /\ q.pc = "create" BY <1>1 DEF Record, Request
      <4>2. reqs' = [reqs EXCEPT ![r] = q] BY <3>1
      <4> HIDE DEF q
      <4> QED BY <1>1, <4>1, <4>2, Moved DEF MovesElsewhere
    <3> QED BY <1>1, <2>3, <3>1, Onwards DEF OpenUpload
  <2> QED BY <2>1, <2>2, <2>3 DEF Initiate
<1> QED BY <1>2, <1>3, <1>4, Elsewhere

LEMMA AbortSeen ==
    ASSUME IInv, IInv', Stored, Stored', NEW r \in Requests, Abort(r)
    PROVE  [Upload!Next]_(Upload!uvars)
<1>1. TypeOK /\ reqs[r].op = "abort"
  BY DEF IInv, Abort, FindToAbort, AbortUpload, MarkAborted, At
<1>2. UNCHANGED <<event, photo, object>>
  BY DEF Abort, FindToAbort, AbortUpload, MarkAborted, photoVars, storeVars
<1>3. Stage' = Stage BY <1>2 DEF Stage
<1>4. MovesElsewhere(r)
  BY <1>1, Onwards DEF Abort, FindToAbort, AbortUpload, MarkAborted
<1> QED BY <1>2, <1>3, <1>4, Elsewhere

\* A completion is let in, unless one is already, or the object is there already.
LEMMA CompletionSeen ==
    ASSUME IInv, IInv', Stored, Stored', NEW r \in Requests, FindForCompletion(r)
    PROVE  [Upload!Next]_(Upload!uvars)
<1>1. /\ TypeOK /\ reqs[r].op = "complete" /\ reqs[r].pc = "find"
      /\ UNCHANGED <<event, photo, object>>
  BY DEF IInv, FindForCompletion, At, photoVars, storeVars
<1>2. Stage' = Stage BY <1>1 DEF Stage
<1>3. CASE \E result \in {"ok", "failed", "lookup"} : Reply(r, result)
  BY <1>1, <1>2, <1>3, Onwards, Elsewhere
<1>4. CASE Completable(reqs[r].upload)
  <2>1. event = "active" /\ Stage = "waiting"
    BY <1>4 DEF Completable, Eligible, Stage
  <2>2. CASE object # None \/ (Checking' <=> Checking)
    <3>1. Progress' = Progress BY <1>1, <2>2, ProgressNow
    <3> QED BY <1>1, <1>2, <3>1 DEF Upload!uvars
  <2>3. CASE object = None /\ Checking /\ ~Checking'
    BY <1>1, <1>2, <2>3, Unnoticed
  <2>4. CASE object = None /\ ~Checking /\ Checking'
    <3>1. Progress = "open" /\ Progress' = "checked" BY <1>1, <2>4, ProgressNow
    <3>2. Upload!Check(ThePhoto)
      BY <1>1, <1>2, <2>1, <3>1, Shifts DEF Upload!Check, Upload!Moves, Of
    <3> QED BY <3>2 DEF Upload!Next
  <2> QED BY <2>2, <2>3, <2>4
<1> QED BY <1>3, <1>4 DEF FindForCompletion

\* An assembly makes the object, makes it again, or fails.
LEMMA AssemblySeen ==
    ASSUME IInv, IInv', Stored, Stored', NEW r \in Requests, Assemble(r)
    PROVE  [Upload!Next]_(Upload!uvars)
<1>1. /\ TypeOK /\ At(r, "complete", "assemble") /\ reqs[r].op = "complete"
      /\ reqs[r].upload \in Uploads /\ UNCHANGED <<event, photo>>
  BY DEF Assemble, At, IInv, Knows, photoVars
<1>2. Stage' = Stage BY <1>1 DEF Stage
<1>3. CASE UNCHANGED storeVars
  <2>1. MovesElsewhere(r)
    BY <1>1, Onwards DEF Assemble
  <2> QED BY <1>1, <1>2, <1>3, <2>1, Elsewhere DEF storeVars
<1>4. CASE object' = reqs[r].upload
  <2>1. Progress' = "assembled" BY <1>1, <1>4, ProgressNow, NoneAssumption
  <2>2. CASE object # None
    <3>1. Progress = "assembled" BY <2>2, ProgressNow
    <3> QED BY <1>1, <1>2, <2>1, <3>1 DEF Upload!uvars
  <2>3. CASE object = None
    <3>1. Progress = "checked" BY <1>1, <2>3, ProgressNow DEF Checking
    <3>2. Upload!Assemble(ThePhoto)
      BY <1>1, <1>2, <2>1, <3>1, Shifts DEF Upload!Assemble, Upload!Moves, Of
    <3> QED BY <3>2 DEF Upload!Next
  <2> QED BY <2>2, <2>3
<1> QED BY <1>3, <1>4 DEF Assemble

\* The photo is queued of an object that is there.
LEMMA QueuedSeen ==
    ASSUME IInv, IInv', Stored, Stored', NEW r \in Requests, Verify(r) \/ Finalize(r)
    PROVE  [Upload!Next]_(Upload!uvars)
<1>1. /\ TypeOK /\ reqs[r].op = "complete" /\ reqs[r].pc \in {"stat", "finalize"}
      /\ UNCHANGED <<event, object>>
  BY DEF Verify, Finalize, At, IInv, photoVars, storeVars
<1>2. MovesElsewhere(r)
  BY <1>1, Onwards DEF Verify, Finalize
<1>3. CASE photo' = photo
  <2>1. Stage' = Stage BY <1>3 DEF Stage
  <2> QED BY <1>1, <1>2, <2>1, Elsewhere
<1>4. CASE photo = "uploading" /\ photo' = "queued"
  <2>1. object # None /\ object' # None
    <3>1. reqs[r].upload \in Uploads /\ multi[reqs[r].upload] = "assembled"
      BY <1>1 DEF IInv, Knows
    <3> QED BY <1>1, <3>1 DEF Stored
  <2>2. Progress = "assembled" /\ Progress' = "assembled" BY <2>1, ProgressNow
  <2>3. Stage = "waiting" /\ Stage' = "queued" BY <1>4 DEF Stage
  <2>4. Upload!Queue(ThePhoto)
    BY <1>1, <2>2, <2>3, Shifts DEF Upload!Queue, Of
  <2> QED BY <2>4 DEF Upload!Next
<1> QED BY <1>3, <1>4 DEF Verify, Finalize, photoVars

LEMMA Seen ==
    ASSUME IInv, IInv', Stored, Stored', [Next]_vars
    PROVE  [Upload!Next]_(Upload!uvars)
<1>1. ASSUME UNCHANGED <<event, photo, object, reqs>> PROVE [Upload!Next]_(Upload!uvars)
  BY <1>1, Unnoticed DEF Stage, Checking, At
<1>2. CASE UNCHANGED vars
  BY <1>1, <1>2 DEF vars, photoVars, storeVars
<1>3. ASSUME NEW r \in Requests, Client(r) \/ Initiate(r) \/ Complete(r) \/ Abort(r)
      PROVE  [Upload!Next]_(Upload!uvars)
  BY <1>3, ClientSeen, InitiateSeen, AbortSeen, CompletionSeen, AssemblySeen, QueuedSeen DEF Complete
<1>4. ASSUME NEW u \in Uploads, Lapse(u) \/ \E n \in 1..MaxParts : PutPart(u, n)
      PROVE  [Upload!Next]_(Upload!uvars)
  BY <1>1, <1>4 DEF Lapse, PutPart, photoVars, storeVars
<1>5. CASE Delete
  <2>1. Progress' = Progress BY <1>5, ProgressNow DEF Delete, storeVars, Checking, At
  <2>2. Stage' = "gone" BY <1>5 DEF Delete, Stage
  <2>3. Upload!Delete({ThePhoto}) BY <1>5, <2>1, <2>2 DEF Delete, Upload!Delete
  <2> QED BY <2>3 DEF Upload!Next
<1>6. CASE Archive
  <2>1. Progress' = Progress BY <1>6, ProgressNow DEF Archive, storeVars, Checking, At
  <2>2. Stage' = Stage BY <1>6 DEF Archive, Stage
  <2>3. Upload!Close BY <1>6, <2>1, <2>2 DEF Archive, Upload!Close
  <2> QED BY <2>3 DEF Upload!Next
<1> QED BY <1>2, <1>3, <1>4, <1>5, <1>6 DEF Next

\* Completing an upload comes to PhotoUpload's one upload per photo, however many requests,
\* sessions and multipart uploads race for the object key, give up, crash or
\* outlive their sessions.
THEOREM UploadsAreOne == Spec => ImplementsPhotoUpload
<1>1. Init => Upload!Init /\ Stored
  <2> SUFFICES ASSUME Init PROVE Upload!Init /\ Stored OBVIOUS
  <2>1. Stored BY DEF Init, Stored
  <2>2. ~Checking BY RecordFields DEF Init, Checking, At
  <2>3. Progress = "open" BY <2>1, <2>2, Initially, ProgressIs DEF Init
  <2>4. Stage = "waiting" /\ event = "active" BY DEF Init, Stage
  <2> QED BY <2>1, <2>3, <2>4 DEF Upload!Init
<1>2. IInv /\ Stored /\ [Next]_vars => Stored' BY StoredKept
<1>3. IInv /\ IInv' /\ Stored /\ Stored' /\ [Next]_vars => [Upload!Next]_(Upload!uvars) BY Seen
<1> QED BY <1>1, <1>2, <1>3, Inductive, PTL DEF Spec, ImplementsPhotoUpload, Upload!Spec

===============================================================================
