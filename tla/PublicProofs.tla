----------------------------- MODULE PublicProofs -----------------------------
(***************************************************************************)
(* Public access for any number of photos, requests, edits and versions of *)
(* the event: its type invariant, that links survive and archiving is      *)
(* final, and what answers may contain.                                    *)
(***************************************************************************)
EXTENDS PublicAccess, FiniteSetTheorems, TLAPS

-----------------------------------------------------------------------------
(* The inductive invariant.                                                 *)

Editing == {a \in Admins : edits[a] # None}

\* Edits under way leave room in the log, and for archiving the event after them.
RoomForEdits ==
    Len(log) + Cardinality(Editing) <= IF Archived THEN MaxVersions + 1 ELSE MaxVersions

\* The event has no token until it is first public, and then the one it drew.
TokensOnce == /\ \A i \in 1..Len(log) : log[i].token \in {0, 1}
              /\ \A i, j \in 1..Len(log) : i < j => log[i].token <= log[j].token

PublicHasToken == Event.visibility = "public" => Event.token > 0

ReadyWasReady == \A p \in Photos : status[p] = "ready" => p \in wasReady

\* A request has seen the event open, in one of the values the row had since it began.
SawOpen(q, rows) == \E i \in q.from..Len(rows) :
    /\ rows[i].visibility = "public" /\ rows[i].status = "active"
    /\ Ahead(rows[i].expiry, q.now)
    /\ q.kind = "download" => rows[i].downloads

\* What holds of a request q, with the row's values, the photos gone for good and those that
\* have been ready: whatever it may answer with was ready and not gone when it began.
Sound(q, rows, gone, ready) ==
    /\ q.from \in 1..Len(rows)
    /\ q.gone \subseteq gone
    /\ q.kind = "download" \/ q.pc = "answered" => q.found \subseteq ready \ q.gone
    /\ q.kind = "download" /\ q.pc = "answered" => q.found = q.asked
    /\ q.pc \in {"infer", "match", "filter", "check"} => SawOpen(q, rows)
    /\ q.pc = "answered" /\ q.found # {} => SawOpen(q, rows)

RequestsSound == \A r \in Requests : Sound(reqs[r], log, Gone, wasReady)

IInv == /\ TypeOK
        /\ RoomForEdits
        /\ TokensOnce
        /\ PublicHasToken
        /\ ReadyWasReady
        /\ RequestsSound

-----------------------------------------------------------------------------
(* The event's row and its history.                                         *)

\* There is a current row.
LEMMA CurrentRow ==
    ASSUME TypeOK
    PROVE  Event \in Row /\ log \in Seq(Row) /\ Len(log) \in Nat \ {0}
<1>1. log \in Seq(Row) /\ Len(log) \in 1..MaxVersions + 1
  BY DEF TypeOK
<1>2. Len(log) \in Nat \ {0}
  BY <1>1
<1>3. QED
  BY <1>1, <1>2 DEF Event

\* A new value of the row becomes the current one; the earlier ones stay where they are.
LEMMA Extends ==
    ASSUME TypeOK, NEW row \in Row, log' = Append(log, row)
    PROVE  /\ log' \in Seq(Row) /\ Len(log') = Len(log) + 1 /\ Event' = row
           /\ \A i \in 1..Len(log) : log'[i] = log[i]
<1>1. log \in Seq(Row) /\ Len(log) \in Nat \ {0}
  BY CurrentRow
<1>2. QED
  BY <1>1 DEF Event

\* What a step may do to the row: an active event gets a next value, with its token kept,
\* or drawn when there is none.
NextValue(row) ==
    /\ ~Archived
    /\ log' = Append(log, row)
    /\ row.token = Event.token \/ (Event.token = 0 /\ row.token = 1)
    /\ row.visibility = "public" => row.token > 0

LogStep == log' = log \/ \E row \in Row : NextValue(row)

\* An edit under way has a command, and a row that it read.
LEMMA EditUnderWay ==
    ASSUME TypeOK, NEW a \in Admins, edits[a] # None
    PROVE  /\ edits[a].command \in Commands /\ edits[a].read \in 1..Len(log)
           /\ log[edits[a].read] \in Row
<1>1. edits[a] \in Edit
  BY DEF TypeOK
<1>2. edits[a].command \in Commands /\ edits[a].read \in 1..MaxVersions + 1 /\ edits[a].read <= Len(log)
  BY <1>1 DEF TypeOK, Edit
<1>3. log \in Seq(Row) /\ Len(log) \in Nat
  BY CurrentRow
<1>4. edits[a].read \in 1..Len(log)
  BY <1>2, <1>3, BoundsAssumption
<1>5. QED
  BY <1>2, <1>3, <1>4

\* What is written back is what was read, except for the fields that were given.
LEMMA MergedTyped ==
    ASSUME TypeOK, NEW a \in Admins, edits[a] # None
    PROVE  Merged(a) \in Fields
<1> DEFINE c == edits[a].command
           found == log[edits[a].read]
<1>1. found \in Row /\ c \in Commands
  BY EditUnderWay
<1>2. /\ c.visibility \in {"private", "public", None}
      /\ c.expiry \in 1..MaxTime \cup {None}
      /\ c.downloads \in BOOLEAN \cup {None}
  BY <1>1, CommandsAssumption
<1>3. Merged(a) = [visibility |-> Given(c.visibility, found.visibility),
                   expiry |-> Given(c.expiry, found.expiry),
                   downloads |-> Given(c.downloads, found.downloads)]
  BY DEF Merged
<1> HIDE DEF c, found
<1>4. Given(c.visibility, found.visibility) \in {"private", "public"}
  BY <1>1, <1>2 DEF Given, Row
<1>5. Given(c.expiry, found.expiry) \in 1..MaxTime \cup {None}
  BY <1>1, <1>2 DEF Given, Row
<1>6. Given(c.downloads, found.downloads) \in BOOLEAN
  <2>1. found.downloads \in BOOLEAN
    BY <1>1 DEF Row
  <2>2. CASE c.downloads = None
    BY <2>1, <2>2 DEF Given
  <2>3. CASE c.downloads # None
    BY <1>2, <2>3, Zenon DEF Given
  <2>4. QED
    BY <2>2, <2>3
<1>7. QED
  BY <1>3, <1>4, <1>5, <1>6 DEF Fields

LEMMA LogSteps ==
    ASSUME TypeOK, PublicHasToken, [Next]_vars
    PROVE  LogStep
<1>1. Event \in Row
  BY CurrentRow
<1>2. ASSUME NEW a \in Admins, WriteSettings(a)
      PROVE  LogStep
  <2> DEFINE new == Merged(a)
             row == [visibility |-> new.visibility, expiry |-> new.expiry,
                     downloads |-> new.downloads,
                     token |-> TokenAfter(new.visibility), status |-> "active"]
  <2>1. new \in Fields
    BY <1>2, MergedTyped DEF WriteSettings
  <2> HIDE DEF new
  <2>2. TokenAfter(new.visibility) \in Nat
    BY <1>1 DEF TokenAfter, Row
  <2>3. row \in Row
    <3>1. /\ new.visibility \in {"private", "public"}
          /\ new.expiry \in 1..MaxTime \cup {None}
          /\ new.downloads \in BOOLEAN
      BY <2>1 DEF Fields
    <3>2. QED
      BY <2>2, <3>1 DEF Row
  <2>4. CASE Updatable /\ row # Event
    <3>1. log' = Append(log, row) /\ ~Archived
      BY <1>2, <2>4 DEF WriteSettings, Becomes, Updatable, new
    <3>2. row.token = Event.token \/ (Event.token = 0 /\ row.token = 1)
      BY DEF TokenAfter
    <3>3. row.visibility = "public" => row.token > 0
      BY <1>1 DEF TokenAfter, Row
    <3>4. QED
      BY <2>3, <3>1, <3>2, <3>3 DEF LogStep, NextValue
  <2>5. CASE ~(Updatable /\ row # Event)
    BY <1>2, <2>5 DEF WriteSettings, Becomes, LogStep, new
  <2>6. QED
    BY <2>4, <2>5
<1>3. CASE Archive
  <2> DEFINE row == [Event EXCEPT !.status = "archived"]
  <2>1. row \in Row /\ row.token = Event.token /\ row.visibility = Event.visibility
    BY <1>1 DEF Row
  <2>2. log' = log \/ log' = Append(log, row)
    BY <1>3 DEF Archive, Becomes
  <2>3. QED
    BY <1>3, <2>1, <2>2 DEF Archive, LogStep, NextValue, PublicHasToken
<1>4. CASE Tick \/ UNCHANGED vars
  BY <1>4 DEF Tick, vars, eventVars, LogStep
<1>5. ASSUME NEW a \in Admins, (\E c \in Commands : ReadSettings(a, c)) \/ DropSettings(a)
      PROVE  LogStep
  BY <1>5 DEF ReadSettings, DropSettings, LogStep
<1>6. ASSUME PhotosMove
      PROVE  LogStep
  BY <1>6 DEF PhotosMove, Index, MarkReady, Delete, PurgeVectors, eventVars, LogStep
<1>7. ASSUME NEW r \in Requests,
             \/ BeginSearch(r) \/ (\E ids \in SUBSET All : BeginDownload(r, ids))
             \/ ResolveScope(r) \/ Infer(r) \/ Match(r) \/ FilterVisible(r) \/ Grant(r)
      PROVE  LogStep
  BY <1>7 DEF BeginSearch, BeginDownload, Begin, ResolveScope, Infer, Match, FilterVisible, Grant,
              eventVars, LogStep
<1>8. QED
  BY <1>2, <1>3, <1>4, <1>5, <1>6, <1>7 DEF Next

\* No step changes an archived event.
LEMMA ArchivedStays == ASSUME TypeOK, PublicHasToken, [Next]_vars PROVE Archived => log' = log
BY LogSteps DEF LogStep, NextValue

-----------------------------------------------------------------------------
(* Types.                                                                   *)

LEMMA EditingIsFinite ==
    IsFiniteSet(Editing) /\ Cardinality(Editing) \in Nat
<1>1. Editing \in SUBSET Admins
  BY DEF Editing
<1>2. IsFiniteSet(Editing)
  BY <1>1, FS_Subset, AdminsAssumption
<1>3. QED
  BY <1>2, FS_CardinalityType

\* An edit that begins is counted, one that ends no longer is.
LEMMA RoomStep ==
    ASSUME TypeOK, RoomForEdits, PublicHasToken, [Next]_vars
    PROVE  RoomForEdits'
<1> USE BoundsAssumption
<1>0. /\ IsFiniteSet(Editing) /\ Cardinality(Editing) \in Nat
      /\ Len(log) \in Nat \ {0} /\ Event \in Row
  BY EditingIsFinite, CurrentRow
<1>1. ASSUME NEW a \in Admins, NEW c \in Commands, ReadSettings(a, c)
      PROVE  RoomForEdits'
  <2>1. log' = log /\ ~Archived /\ Archived' = Archived
    BY <1>1 DEF ReadSettings, Archived, Event
  <2>2. Editing' \in SUBSET (Editing \cup {a})
    BY <1>1 DEF ReadSettings, Editing, TypeOK
  <2>3. /\ IsFiniteSet(Editing \cup {a})
        /\ Cardinality(Editing \cup {a}) \in {Cardinality(Editing), Cardinality(Editing) + 1}
    BY <1>0, FS_AddElement
  <2>4. Cardinality(Editing') <= Cardinality(Editing \cup {a}) /\ Cardinality(Editing') \in Nat
    BY <2>2, <2>3, FS_Subset, FS_CardinalityType
  <2>5. Len(log) + Cardinality(Editing) < MaxVersions
    BY <1>1 DEF ReadSettings, Editing
  <2>6. Len(log) + Cardinality(Editing') <= MaxVersions
    BY <1>0, <2>3, <2>4, <2>5
  <2>7. QED
    BY <2>1, <2>6 DEF RoomForEdits
<1>2. ASSUME NEW a \in Admins, WriteSettings(a) \/ DropSettings(a)
      PROVE  RoomForEdits'
  <2>1. Editing' \in SUBSET (Editing \ {a}) /\ a \in Editing
    BY <1>2 DEF WriteSettings, DropSettings, Editing, TypeOK
  <2>2. /\ IsFiniteSet(Editing \ {a})
        /\ Cardinality(Editing \ {a}) = Cardinality(Editing) - 1
    BY <1>0, <2>1, FS_RemoveElement
  <2>3. Cardinality(Editing') <= Cardinality(Editing) - 1 /\ Cardinality(Editing') \in Nat
    BY <2>1, <2>2, FS_Subset, FS_CardinalityType
  <2>4. \/ log' = log /\ Archived' = Archived
        \/ Len(log') = Len(log) + 1 /\ ~Archived
    <3>1. log' = log => Archived' = Archived
      BY DEF Archived, Event
    <3>2. QED
      BY <3>1, LogSteps, Extends DEF LogStep, NextValue
  <2>5. QED
    BY <1>0, <2>3, <2>4 DEF RoomForEdits
<1>3. CASE Archive
  <2>1. Archived' /\ ~Archived /\ Editing' = Editing
    <3>1. CASE log' = log
      BY <1>0, <1>3, <3>1 DEF Archive, Becomes, Archived, Event, Row, Editing
    <3>2. CASE log' # log
      <4> DEFINE row == [Event EXCEPT !.status = "archived"]
      <4>1. row \in Row /\ row.status = "archived"
        BY <1>0 DEF Row
      <4>2. log' = Append(log, row)
        BY <1>3, <3>2 DEF Archive, Becomes
      <4>3. Event' = row
        BY <4>1, <4>2, Extends
      <4>4. QED
        BY <1>3, <4>1, <4>3 DEF Archive, Archived, Editing
    <3>3. QED
      BY <3>1, <3>2
  <2>2. log' = log \/ Len(log') = Len(log) + 1
    BY LogSteps, Extends DEF LogStep, NextValue
  <2>3. QED
    BY <1>0, <2>1, <2>2 DEF RoomForEdits
<1>4. CASE UNCHANGED <<log, edits>>
  BY <1>4 DEF RoomForEdits, Editing, Archived, Event
<1>5. Tick \/ UNCHANGED vars => UNCHANGED <<log, edits>>
  BY DEF Tick, vars, eventVars
<1>6. ASSUME PhotosMove
      PROVE  UNCHANGED <<log, edits>>
  BY <1>6 DEF PhotosMove, Index, MarkReady, Delete, PurgeVectors, eventVars
<1>7. ASSUME NEW r \in Requests,
             \/ BeginSearch(r) \/ (\E ids \in SUBSET All : BeginDownload(r, ids))
             \/ ResolveScope(r) \/ Infer(r) \/ Match(r) \/ FilterVisible(r) \/ Grant(r)
      PROVE  UNCHANGED <<log, edits>>
  BY <1>7 DEF BeginSearch, BeginDownload, Begin, ResolveScope, Infer, Match, FilterVisible, Grant,
              eventVars
<1>8. QED
  BY <1>1, <1>2, <1>3, <1>4, <1>5, <1>6, <1>7 DEF Next

LEMMA LogTyped ==
    ASSUME TypeOK, RoomForEdits, PublicHasToken, [Next]_vars
    PROVE  log' \in Seq(Row) /\ Len(log') \in 1..MaxVersions + 1 /\ Event' \in Row
<1> USE BoundsAssumption
<1>1. Event \in Row /\ Len(log) \in 1..MaxVersions + 1 /\ log \in Seq(Row)
  BY CurrentRow DEF TypeOK
<1>2. CASE log' = log
  BY <1>1, <1>2 DEF Event
<1>3. ASSUME NEW row \in Row, NextValue(row)
      PROVE  log' \in Seq(Row) /\ Len(log') \in 1..MaxVersions + 1 /\ Event' \in Row
  <2>1. Len(log) + Cardinality(Editing) <= MaxVersions
    BY <1>3 DEF NextValue, RoomForEdits
  <2>2. Len(log) <= MaxVersions
    BY <1>1, <2>1, EditingIsFinite
  <2>3. QED
    BY <1>1, <1>3, <2>2, Extends DEF NextValue
<1>4. QED
  BY <1>2, <1>3, LogSteps DEF LogStep

\* A request is typed, and a search has found photos of the event only.
RequestTyped(q) == q \in Request /\ (q.kind = "search" => q.found \subseteq Photos)

\* Each step of a request replaces it by one that is typed and sound.
Becoming(r, q) == /\ reqs' = [reqs EXCEPT ![r] = q]
                  /\ RequestTyped(q)
                  /\ Sound(q, log, Gone, wasReady)

LEMMA IdleIsSound ==
    ASSUME TypeOK
    PROVE  RequestTyped(Idle) /\ Sound(Idle, log, Gone, wasReady)
<1>1. Len(log) \in Nat \ {0}
  BY CurrentRow
<1>2. RequestTyped(Idle)
  BY BoundsAssumption DEF RequestTyped, Idle, Request
<1>3. QED
  BY <1>1, <1>2 DEF Idle, Sound

\* A visible photo has been ready and is not gone.
LEMMA VisibleIsFine ==
    ASSUME TypeOK, ReadyWasReady
    PROVE  Visible \subseteq wasReady \ Gone
BY DEF Visible, Gone, ReadyWasReady, All

\* Requests that begin.
LEMMA BeginSteps ==
    ASSUME TypeOK, NEW r \in Requests,
           BeginSearch(r) \/ \E ids \in SUBSET All : BeginDownload(r, ids)
    PROVE  \E q : Becoming(r, q)
<1>1. PICK kind \in {"search", "download"}, ids \in SUBSET All : Begin(r, kind, ids)
  BY DEF BeginSearch, BeginDownload
<1> DEFINE q == [kind |-> kind, pc |-> "scope", from |-> Len(log), now |-> clock,
                 gone |-> Gone, asked |-> ids, found |-> {}]
<1>2. reqs' = [reqs EXCEPT ![r] = q]
  BY <1>1 DEF Begin
<1>3. Len(log) \in 1..MaxVersions + 1 /\ clock \in 0..MaxTime /\ Gone \in SUBSET All
  BY DEF TypeOK, Gone
<1>4. RequestTyped(q)
  BY <1>3 DEF RequestTyped, Request
<1>5. Sound(q, log, Gone, wasReady)
  BY <1>3 DEF Sound
<1>6. QED
  BY <1>2, <1>4, <1>5 DEF Becoming

\* The scope lookup, and the steps of a search.
LEMMA SearchSteps ==
    ASSUME TypeOK, ReadyWasReady, NEW r \in Requests, Sound(reqs[r], log, Gone, wasReady),
           ResolveScope(r) \/ Infer(r) \/ Match(r) \/ FilterVisible(r)
    PROVE  \E q : Becoming(r, q)
<1> DEFINE q == reqs[r]
<1>1. RequestTyped(q) /\ reqs \in [Requests -> Request]
  BY DEF TypeOK, RequestTyped
<1>2. CASE Deny(r)
  BY <1>2, IdleIsSound DEF Deny, Becoming
<1>3. CASE ResolveScope(r) /\ ~Deny(r)
  <2>1. PICK pc \in {"infer", "check"} : /\ reqs' = [reqs EXCEPT ![r] = [q EXCEPT !.pc = pc]]
                                         /\ Eligible(Event, q.now)
                                         /\ q.kind = "download" => Event.downloads
    BY <1>3 DEF ResolveScope, Goto
  <2>2. RequestTyped([q EXCEPT !.pc = pc])
    BY <1>1 DEF RequestTyped, Request
  <2>3. SawOpen([q EXCEPT !.pc = pc], log)
    <3>1. Len(log) \in q.from..Len(log)
      BY CurrentRow DEF Sound
    <3>2. QED
      BY <1>1, <2>1, <3>1 DEF SawOpen, Eligible, Event, RequestTyped, Request
  <2>4. QED
    BY <1>1, <2>1, <2>2, <2>3 DEF Becoming, Sound, RequestTyped, Request
<1>4. CASE Infer(r) /\ ~Deny(r)
  <2>1. reqs' = [reqs EXCEPT ![r] = [q EXCEPT !.pc = "match"]] /\ q.kind = "search" /\ q.pc = "infer"
    BY <1>4 DEF Infer, Goto, At
  <2>2. RequestTyped([q EXCEPT !.pc = "match"])
    BY <1>1 DEF RequestTyped, Request
  <2>3. Sound([q EXCEPT !.pc = "match"], log, Gone, wasReady)
    BY <1>1, <2>1 DEF Sound, SawOpen, RequestTyped, Request
  <2>4. QED
    BY <2>1, <2>2, <2>3 DEF Becoming
<1>5. CASE Match(r) /\ ~Deny(r)
  <2>1. PICK found \in SUBSET Indexed :
          reqs' = [reqs EXCEPT ![r] = [q EXCEPT !.pc = IF found = {} THEN "answered" ELSE "filter",
                                               !.found = found]]
    BY <1>1, <1>5 DEF Match, Ranked, Answer
  <2> DEFINE n == [q EXCEPT !.pc = IF found = {} THEN "answered" ELSE "filter", !.found = found]
  <2>2. found \in SUBSET All /\ found \subseteq Photos
    BY DEF TypeOK, Indexed, All
  <2>3. q.kind = "search" /\ q.pc = "match"
    BY <1>5 DEF Match, At
  <2>4. RequestTyped(n)
    BY <1>1, <2>2 DEF RequestTyped, Request
  <2>5. SawOpen(n, log)
    BY <1>1, <2>3 DEF Sound, SawOpen, RequestTyped, Request
  <2>6. Sound(n, log, Gone, wasReady)
    BY <1>1, <2>3, <2>5 DEF Sound, RequestTyped, Request
  <2>7. QED
    BY <2>1, <2>4, <2>6 DEF Becoming
<1>6. CASE FilterVisible(r) /\ ~Deny(r)
  <2> DEFINE n == [q EXCEPT !.pc = "answered", !.found = q.found \cap Visible]
  <2>1. reqs' = [reqs EXCEPT ![r] = n] /\ q.kind = "search" /\ q.pc = "filter"
    BY <1>1, <1>6 DEF FilterVisible, Answer, At
  <2>2. RequestTyped(n)
    BY <1>1 DEF RequestTyped, Request
  <2>3. SawOpen(n, log)
    BY <1>1, <2>1 DEF Sound, SawOpen, RequestTyped, Request
  <2>4. q.found \cap Visible \subseteq wasReady \ q.gone
    BY VisibleIsFine DEF Sound
  <2>5. Sound(n, log, Gone, wasReady)
    BY <1>1, <2>1, <2>3, <2>4 DEF Sound, RequestTyped, Request
  <2>6. QED
    BY <2>1, <2>2, <2>5 DEF Becoming
<1>7. QED
  BY <1>2, <1>3, <1>4, <1>5, <1>6

\* The photos of a download, one after the other.
LEMMA GrantSteps ==
    ASSUME TypeOK, ReadyWasReady, NEW r \in Requests, Sound(reqs[r], log, Gone, wasReady), Grant(r)
    PROVE  \E q : Becoming(r, q)
<1> DEFINE q == reqs[r]
<1>1. RequestTyped(q) /\ reqs \in [Requests -> Request]
  BY DEF TypeOK, RequestTyped
<1>2. CASE Deny(r)
  BY <1>2, IdleIsSound DEF Deny, Becoming
<1>3. CASE ~Deny(r)
  <2>1. PICK p \in (q.asked \ q.found) \cap Visible :
          LET found == q.found \cup {p}
          IN  IF found = q.asked THEN Answer(r, found) ELSE reqs' = [reqs EXCEPT ![r].found = found]
    BY <1>3 DEF Grant
  <2> DEFINE n == [q EXCEPT !.pc = IF q.found \cup {p} = q.asked THEN "answered" ELSE "check",
                            !.found = q.found \cup {p}]
  <2>2. q.kind = "download" /\ q.pc = "check"
    BY <1>3 DEF Grant, At
  <2>3. reqs' = [reqs EXCEPT ![r] = n]
    <3>1. CASE q.found \cup {p} = q.asked
      BY <2>1, <3>1 DEF Answer
    <3>2. CASE q.found \cup {p} # q.asked
      <4>1. n = [q EXCEPT !.found = q.found \cup {p}]
        BY <1>1, <2>2, <3>2 DEF RequestTyped, Request
      <4>2. QED
        BY <2>1, <3>2, <4>1
    <3>3. QED
      BY <3>1, <3>2
  <2>4. RequestTyped(n)
    BY <1>1, <2>2 DEF RequestTyped, Request, Visible, All
  <2>5. SawOpen(n, log)
    BY <1>1, <2>2 DEF Sound, SawOpen, RequestTyped, Request
  <2>6. q.found \cup {p} \subseteq wasReady \ q.gone
    BY <2>2, VisibleIsFine DEF Sound
  <2>7. Sound(n, log, Gone, wasReady)
    BY <1>1, <2>2, <2>5, <2>6 DEF Sound, RequestTyped, Request
  <2>8. QED
    BY <2>3, <2>4, <2>7 DEF Becoming
<1>4. QED
  BY <1>2, <1>3

\* What a request saw and found stays valid as the event and its photos move on.
LEMMA StaysSound ==
    ASSUME NEW q, NEW rows, NEW gone, NEW ready, NEW rows2, NEW gone2, NEW ready2,
           Sound(q, rows, gone, ready),
           Len(rows) \in Nat, Len(rows2) \in Nat, Len(rows) <= Len(rows2),
           \A i \in 1..Len(rows) : rows2[i] = rows[i],
           gone \subseteq gone2, ready \subseteq ready2
    PROVE  Sound(q, rows2, gone2, ready2)
<1>1. q.from \in 1..Len(rows) /\ q.from \in 1..Len(rows2)
  BY DEF Sound
<1>2. SawOpen(q, rows) => SawOpen(q, rows2)
  <2>1. \A i \in q.from..Len(rows) : i \in q.from..Len(rows2) /\ rows2[i] = rows[i]
    BY <1>1
  <2>2. QED
    BY <2>1 DEF SawOpen
<1>3. QED
  BY <1>1, <1>2 DEF Sound

\* Gone is for good; the row's values are only added to.
LEMMA Progress ==
    ASSUME TypeOK, PublicHasToken, [Next]_vars
    PROVE  /\ Gone \subseteq Gone' /\ wasReady \subseteq wasReady'
           /\ Len(log') \in Nat /\ Len(log) \in Nat /\ Len(log) <= Len(log')
           /\ \A i \in 1..Len(log) : log'[i] = log[i]
<1>1. Archived => Archived'
  BY ArchivedStays DEF Archived, Event
<1>2. \A p \in All : status[p] = "deleted" => status'[p] = "deleted"
  <2>1. ASSUME PhotosMove
        PROVE  \A o \in All : status[o] = "deleted" => status'[o] = "deleted"
    BY <2>1 DEF PhotosMove, Index, MarkReady, Delete, PurgeVectors,
       View!Index, View!MarkReady, View!Delete, View!PurgeVectors, TypeOK
  <2>2. ASSUME NEW r \in Requests,
               \/ BeginSearch(r) \/ (\E ids \in SUBSET All : BeginDownload(r, ids))
               \/ ResolveScope(r) \/ Infer(r) \/ Match(r) \/ FilterVisible(r) \/ Grant(r)
        PROVE  status' = status
    BY <2>2 DEF BeginSearch, BeginDownload, Begin, ResolveScope, Infer, Match, FilterVisible, Grant,
                photoVars
  <2>3. QED
    BY <2>1, <2>2
    DEF Next, Tick, Archive, ReadSettings, WriteSettings, DropSettings, photoVars, vars
<1>3. wasReady \subseteq wasReady'
  <2>1. ASSUME PhotosMove
        PROVE  wasReady \subseteq wasReady'
    BY <2>1 DEF PhotosMove, Index, MarkReady, Delete, PurgeVectors,
       View!Index, View!MarkReady, View!Delete, View!PurgeVectors
  <2>2. ASSUME NEW r \in Requests,
               \/ BeginSearch(r) \/ (\E ids \in SUBSET All : BeginDownload(r, ids))
               \/ ResolveScope(r) \/ Infer(r) \/ Match(r) \/ FilterVisible(r) \/ Grant(r)
        PROVE  wasReady' = wasReady
    BY <2>2 DEF BeginSearch, BeginDownload, Begin, ResolveScope, Infer, Match, FilterVisible, Grant,
                photoVars
  <2>3. QED
    BY <2>1, <2>2
    DEF Next, Tick, Archive, ReadSettings, WriteSettings, DropSettings, photoVars, vars
<1>4. Gone \subseteq Gone'
  BY <1>1, <1>2 DEF Gone
<1>5. /\ Len(log') \in Nat /\ Len(log) \in Nat /\ Len(log) <= Len(log')
      /\ \A i \in 1..Len(log) : log'[i] = log[i]
  <2>1. log \in Seq(Row) /\ Len(log) \in Nat
    BY CurrentRow
  <2>2. ASSUME NEW row \in Row, NextValue(row)
        PROVE  Len(log') = Len(log) + 1 /\ \A i \in 1..Len(log) : log'[i] = log[i]
    BY <2>2, Extends DEF NextValue
  <2>3. QED
    BY <2>1, <2>2, LogSteps DEF LogStep
<1>6. QED
  BY <1>3, <1>4, <1>5

\* Requests stay typed and sound.
LEMMA RequestsStep ==
    ASSUME TypeOK, PublicHasToken, ReadyWasReady, RequestsSound, [Next]_vars
    PROVE  /\ RequestsSound'
           /\ reqs' \in [Requests -> Request]
           /\ \A r \in Requests : reqs'[r].kind = "search" => reqs'[r].found \subseteq Photos
<1>1. reqs \in [Requests -> Request] /\ \A r \in Requests : RequestTyped(reqs[r])
  BY DEF TypeOK, RequestTyped
<1>2. ASSUME NEW q, Sound(q, log, Gone, wasReady)
      PROVE  Sound(q, log', Gone', wasReady')
  BY <1>2, Progress, StaysSound
<1>3. CASE reqs' = reqs
  BY <1>1, <1>2, <1>3 DEF RequestsSound, RequestTyped
<1>4. ASSUME NEW r \in Requests, NEW q, Becoming(r, q)
      PROVE  /\ RequestsSound'
             /\ reqs' \in [Requests -> Request]
             /\ \A o \in Requests : reqs'[o].kind = "search" => reqs'[o].found \subseteq Photos
  <2>1. /\ reqs' \in [Requests -> Request]
        /\ reqs'[r] = q
        /\ \A o \in Requests \ {r} : reqs'[o] = reqs[o]
    BY <1>1, <1>4 DEF Becoming, RequestTyped
  <2>2. \A o \in Requests : RequestTyped(reqs'[o]) /\ Sound(reqs'[o], log, Gone, wasReady)
    BY <1>1, <1>4, <2>1 DEF Becoming, RequestsSound
  <2>3. \A o \in Requests : Sound(reqs'[o], log', Gone', wasReady')
    BY <1>2, <2>2
  <2>4. QED
    BY <2>1, <2>2, <2>3 DEF RequestsSound, RequestTyped
<1>5. ASSUME NEW r \in Requests,
             \/ BeginSearch(r) \/ (\E ids \in SUBSET All : BeginDownload(r, ids))
             \/ ResolveScope(r) \/ Infer(r) \/ Match(r) \/ FilterVisible(r) \/ Grant(r)
      PROVE  \E q : Becoming(r, q)
  BY <1>5, BeginSteps, SearchSteps, GrantSteps DEF RequestsSound
<1>6. ASSUME PhotosMove
      PROVE  reqs' = reqs
  BY <1>6 DEF PhotosMove, Index, MarkReady, Delete, PurgeVectors
<1>7. QED
  BY <1>3, <1>4, <1>5, <1>6
  DEF Next, Tick, Archive, ReadSettings, WriteSettings, DropSettings, vars

-----------------------------------------------------------------------------
(* The invariant is inductive.                                              *)

LEMMA PhotosStep ==
    ASSUME TypeOK, ReadyWasReady, [Next]_vars
    PROVE  /\ status' \in [All -> {"processing", "ready", "deleted"}]
           /\ vectors' \subseteq All
           /\ wasReady' \subseteq Photos
           /\ ReadyWasReady'
<1>1. CASE UNCHANGED photoVars
  BY <1>1 DEF photoVars, TypeOK, ReadyWasReady
<1>2. ASSUME PhotosMove
      PROVE  /\ status' \in [All -> {"processing", "ready", "deleted"}]
             /\ vectors' \subseteq All
             /\ wasReady' \subseteq Photos
             /\ ReadyWasReady'
  <2>1. Photos \subseteq All
    BY DEF All
  <2>2. QED
    BY <1>2, <2>1 DEF PhotosMove, Index, MarkReady, Delete, PurgeVectors,
       View!Index, View!MarkReady, View!Delete, View!PurgeVectors, TypeOK, ReadyWasReady, All
<1>3. ASSUME NEW r \in Requests,
             \/ BeginSearch(r) \/ (\E ids \in SUBSET All : BeginDownload(r, ids))
             \/ ResolveScope(r) \/ Infer(r) \/ Match(r) \/ FilterVisible(r) \/ Grant(r)
      PROVE  UNCHANGED photoVars
  BY <1>3 DEF BeginSearch, BeginDownload, Begin, ResolveScope, Infer, Match, FilterVisible, Grant
<1>4. QED
  BY <1>1, <1>2, <1>3
  DEF Next, Tick, Archive, ReadSettings, WriteSettings, DropSettings, vars

LEMMA EditsTyped ==
    ASSUME TypeOK, RoomForEdits, PublicHasToken, [Next]_vars
    PROVE  /\ clock' \in 0..MaxTime /\ edits' \in [Admins -> Edit \cup {None}]
           /\ \A a \in Admins : edits'[a] # None => edits'[a].read <= Len(log')
<1> DEFINE Kept == /\ clock' \in 0..MaxTime /\ edits' \in [Admins -> Edit \cup {None}]
                   /\ \A a \in Admins : edits'[a] # None => edits'[a].read <= Len(log')
<1> USE BoundsAssumption
<1>0. /\ Len(log) \in Nat \ {0} /\ Len(log) \in 1..MaxVersions + 1 /\ Len(log') \in Nat
      /\ Len(log) <= Len(log')
  <2>1. Len(log) \in Nat \ {0} /\ Len(log) \in 1..MaxVersions + 1 /\ Len(log') \in 1..MaxVersions + 1
    BY CurrentRow, LogTyped DEF TypeOK
  <2>2. log' = log \/ Len(log') = Len(log) + 1
    BY LogSteps, Extends DEF LogStep, NextValue
  <2>3. QED
    BY <2>1, <2>2
<1>1. ASSUME NEW a \in Admins, NEW c \in Commands, ReadSettings(a, c) PROVE Kept
  <2> DEFINE e == [command |-> c, read |-> Len(log)]
  <2>1. edits' = [edits EXCEPT ![a] = e] /\ log' = log /\ clock' = clock
    BY <1>1 DEF ReadSettings
  <2>2. e \in Edit /\ e.read = Len(log)
    BY <1>0 DEF Edit
  <2> HIDE DEF e
  <2>3. QED
    BY <1>0, <2>1, <2>2 DEF TypeOK
<1>2. ASSUME NEW a \in Admins, WriteSettings(a) \/ DropSettings(a) PROVE Kept
  <2>1. edits' = [edits EXCEPT ![a] = None] /\ clock' = clock
    BY <1>2 DEF WriteSettings, DropSettings
  <2>2. edits' \in [Admins -> Edit \cup {None}]
    BY <2>1 DEF TypeOK
  <2>3. ASSUME NEW b \in Admins, edits'[b] # None PROVE edits'[b].read <= Len(log')
    <3>1. edits'[b] = edits[b]
      BY <2>1, <2>3 DEF TypeOK
    <3>2. edits[b].read \in 1..Len(log)
      BY <2>3, <3>1, EditUnderWay
    <3>3. QED
      BY <1>0, <3>1, <3>2
  <2>4. QED
    BY <2>1, <2>2, <2>3 DEF TypeOK
<1>3. ASSUME edits' = edits, clock' \in 0..MaxTime PROVE Kept
  <2>1. \A b \in Admins : edits[b] # None => edits[b].read \in 1..Len(log)
    BY EditUnderWay
  <2>2. \A x \in 1..Len(log) : x <= Len(log')
    BY <1>0
  <2>3. QED
    BY <1>3, <2>1, <2>2 DEF TypeOK
<1>4. CASE Tick
  BY <1>3, <1>4 DEF Tick, TypeOK
<1>5. CASE UNCHANGED <<clock, edits>>
  BY <1>3, <1>5 DEF TypeOK
<1>6. ASSUME PhotosMove
      PROVE  UNCHANGED <<clock, edits>>
  BY <1>6 DEF PhotosMove, Index, MarkReady, Delete, PurgeVectors, eventVars
<1>7. ASSUME NEW r \in Requests,
             \/ BeginSearch(r) \/ (\E ids \in SUBSET All : BeginDownload(r, ids))
             \/ ResolveScope(r) \/ Infer(r) \/ Match(r) \/ FilterVisible(r) \/ Grant(r)
      PROVE  UNCHANGED <<clock, edits>>
  BY <1>7 DEF BeginSearch, BeginDownload, Begin, ResolveScope, Infer, Match, FilterVisible, Grant,
              eventVars
<1>8. QED
  BY <1>1, <1>2, <1>4, <1>5, <1>6, <1>7 DEF Next, Archive, vars, eventVars

LEMMA TokensStep ==
    ASSUME TypeOK, RoomForEdits, PublicHasToken, TokensOnce, [Next]_vars
    PROVE  TokensOnce' /\ PublicHasToken'
<1>1. /\ log \in Seq(Row) /\ Len(log) \in Nat \ {0} /\ Event = log[Len(log)]
      /\ \A i \in 1..Len(log) : log[i] \in Row
  BY CurrentRow DEF Event
<1>2. CASE log' = log
  BY <1>2 DEF TokensOnce, PublicHasToken, Event
<1>3. ASSUME NEW row \in Row, NextValue(row)
      PROVE  TokensOnce' /\ PublicHasToken'
  <2>1. /\ Len(log') = Len(log) + 1 /\ Event' = row /\ log'[Len(log) + 1] = row
        /\ \A i \in 1..Len(log) : log'[i] = log[i]
    BY <1>1, <1>3, Extends DEF NextValue
  <2>2. PublicHasToken'
    BY <1>3, <2>1 DEF NextValue, PublicHasToken
  <2>3. row.token \in {0, 1} /\ Event.token <= row.token
    BY <1>1, <1>3 DEF NextValue, TokensOnce
  <2>4. \A i \in 1..Len(log) : log[i].token <= row.token
    BY <1>1, <2>3 DEF TokensOnce
  <2>5. \A i \in 1..Len(log') : log'[i].token \in {0, 1}
    BY <1>1, <2>1, <2>3 DEF TokensOnce
  <2>6. ASSUME NEW i \in 1..Len(log'), NEW j \in 1..Len(log'), i < j
        PROVE  log'[i].token <= log'[j].token
    <3>1. i \in 1..Len(log)
      BY <1>1, <2>1, <2>6
    <3>2. CASE j = Len(log) + 1
      BY <2>1, <2>4, <3>1, <3>2
    <3>3. CASE j \in 1..Len(log)
      BY <2>1, <2>6, <3>1, <3>3 DEF TokensOnce
    <3>4. QED
      BY <1>1, <2>1, <3>2, <3>3
  <2>7. QED
    BY <2>2, <2>5, <2>6 DEF TokensOnce
<1>4. QED
  BY <1>2, <1>3, LogSteps DEF LogStep

LEMMA InitIInv == Init => IInv
<1> SUFFICES ASSUME Init PROVE IInv
  OBVIOUS
<1> USE BoundsAssumption
<1>1. PICK f \in Fields : log = << [visibility |-> f.visibility, expiry |-> f.expiry,
                                    downloads |-> f.downloads,
                                    token |-> IF f.visibility = "public" THEN 1 ELSE 0,
                                    status |-> "active"] >>
  BY DEF Init
<1> DEFINE row == [visibility |-> f.visibility, expiry |-> f.expiry, downloads |-> f.downloads,
                   token |-> IF f.visibility = "public" THEN 1 ELSE 0, status |-> "active"]
<1>2. row \in Row
  <2>1. /\ f.visibility \in {"private", "public"} /\ f.expiry \in 1..MaxTime \cup {None}
        /\ f.downloads \in BOOLEAN
    BY DEF Fields
  <2>2. QED
    BY <2>1 DEF Row
<1>3. log \in Seq(Row) /\ Len(log) = 1 /\ log[1] = row /\ Event = row
  BY <1>1, <1>2 DEF Event
<1>4. \A r \in Requests : reqs[r] = Idle
  BY DEF Init
<1>5. TypeOK
  <2>1. Idle \in Request
    BY DEF Idle, Request
  <2>2. reqs \in [Requests -> Request] /\ \A r \in Requests : reqs[r].found = {}
    BY <1>4, <2>1 DEF Init, Idle
  <2>3. QED
    BY <1>3, <2>2 DEF Init, TypeOK, All
<1>6. RoomForEdits
  <2>1. Editing = {}
    BY DEF Init, Editing
  <2>2. ~Archived
    BY <1>3 DEF Archived
  <2>3. QED
    BY <1>3, <2>1, <2>2, FS_EmptySet DEF RoomForEdits
<1>7. TokensOnce /\ PublicHasToken
  BY <1>3 DEF TokensOnce, PublicHasToken
<1>8. ReadyWasReady
  BY PhotosAssumption DEF Init, ReadyWasReady, All
<1>9. RequestsSound
  BY <1>4, <1>5, IdleIsSound DEF RequestsSound
<1>10. QED
  BY <1>5, <1>6, <1>7, <1>8, <1>9 DEF IInv

LEMMA StepIInv == IInv /\ [Next]_vars => IInv'
<1> SUFFICES ASSUME IInv, [Next]_vars PROVE IInv'
  OBVIOUS
<1>1. TypeOK'
  BY LogTyped, EditsTyped, PhotosStep, RequestsStep DEF IInv, TypeOK
<1>2. QED
  BY <1>1, RoomStep, TokensStep, PhotosStep, RequestsStep DEF IInv

\* The strengthened invariant is inductive: requests are sound, tokens are drawn once, and
\* ready photos are on record.
THEOREM Inductive == Spec => []IInv
<1>1. QED
  BY InitIInv, StepIInv, PTL DEF Spec

\* Every reachable state of public access is well typed; a search never holds a photo of
\* another event.
THEOREM TypeCorrect == Spec => []TypeOK
<1>1. IInv => TypeOK
  BY DEF IInv
<1>2. QED
  BY <1>1, Inductive, PTL

\* Search results and links name photos that were ready and not gone when the request began.
THEOREM AnswersVisible == Spec => []AnswersAreVisible
<1>1. IInv => AnswersAreVisible
  BY DEF IInv, RequestsSound, Sound, AnswersAreVisible
<1>2. QED
  BY <1>1, Inductive, PTL

\* An answer with photos rests on one value of the event's row that was open to it.
THEOREM AnswersFromAnOpenEvent == Spec => []AnswersComeFromAnOpenEvent
<1>1. IInv => AnswersComeFromAnOpenEvent
  BY DEF IInv, RequestsSound, Sound, SawOpen, AnswersComeFromAnOpenEvent
<1>2. QED
  BY <1>1, Inductive, PTL

\* A download answers with a link for every photo it was asked for, or with none.
THEOREM DownloadsFailClosed == Spec => []AllOrNothing
<1>1. IInv => AllOrNothing
  BY DEF IInv, RequestsSound, Sound, AllOrNothing
<1>2. QED
  BY <1>1, Inductive, PTL

\* A link once given out is never replaced, and a public event always has one.
THEOREM LinksSurvive == Spec => []LinkSurvives
<1>1. IInv => LinkSurvives
  <2> SUFFICES ASSUME IInv PROVE LinkSurvives
    OBVIOUS
  <2>1. Len(log) \in Nat
    BY CurrentRow DEF IInv
  <2>2. QED
    BY <2>1 DEF IInv, PublicHasToken, TokensOnce, LinkSurvives
<1>2. QED
  BY <1>1, Inductive, PTL

\* No edit changes or reopens an archived event, however old the copy it was made from.
THEOREM ArchivingIsFinal == Spec => ArchiveIsFinal
<1>1. IInv /\ [Next]_vars => [Archived => log' = log]_vars
  BY ArchivedStays DEF IInv
<1>2. QED
  BY <1>1, Inductive, PTL DEF Spec, ArchiveIsFinal

\* A field that an edit leaves out changes only back to a value from the time since its read.
THEOREM EditsRestore == Spec => EditsOnlyRestore
<1> DEFINE Restores(a) == edits[a] # None /\ edits'[a] = None =>
         \A f \in {"visibility", "expiry", "downloads"} :
            \/ edits[a].command[f] # None /\ Event'[f] = edits[a].command[f]
            \/ \E i \in edits[a].read..Len(log) : Event'[f] = log[i][f]
<1>1. ASSUME IInv, [Next]_vars, NEW a \in Admins PROVE Restores(a)
  <2> SUFFICES ASSUME edits[a] # None, edits'[a] = None, NEW f \in {"visibility", "expiry", "downloads"}
               PROVE  \/ edits[a].command[f] # None /\ Event'[f] = edits[a].command[f]
                      \/ \E i \in edits[a].read..Len(log) : Event'[f] = log[i][f]
    OBVIOUS
  <2>1. edits[a].read \in 1..Len(log) /\ Len(log) \in Nat \ {0} /\ Event = log[Len(log)]
    BY <1>1, EditUnderWay, CurrentRow DEF IInv, Event
  <2>2. edits[a].read \in edits[a].read..Len(log) /\ Len(log) \in edits[a].read..Len(log)
    BY <2>1
  <2>3. CASE Event' = Event
    BY <2>1, <2>2, <2>3
  <2>4. CASE Event' # Event
    <3>1. WriteSettings(a) /\ Updatable
      <4>1. ASSUME NEW b \in Admins, NEW c \in Commands, ReadSettings(b, c) PROVE log' = log
        BY <4>1 DEF ReadSettings
      <4>2. ASSUME NEW b \in Admins, DropSettings(b) PROVE log' = log
        BY <4>2 DEF DropSettings
      <4>3. Archive => edits' = edits
        BY DEF Archive
      <4>4. ASSUME NEW b \in Admins, WriteSettings(b) PROVE b = a
        BY <1>1, <4>4 DEF WriteSettings, IInv, TypeOK
      <4>5. Tick \/ UNCHANGED vars => log' = log
        BY DEF Tick, vars, eventVars
      <4>6. ASSUME PhotosMove
            PROVE  log' = log
        BY <4>6 DEF PhotosMove, Index, MarkReady, Delete, PurgeVectors, eventVars
      <4>7. ASSUME NEW r \in Requests,
                   \/ BeginSearch(r) \/ (\E ids \in SUBSET All : BeginDownload(r, ids))
                   \/ ResolveScope(r) \/ Infer(r) \/ Match(r) \/ FilterVisible(r) \/ Grant(r)
            PROVE  log' = log
        BY <4>7 DEF BeginSearch, BeginDownload, Begin, ResolveScope, Infer, Match, FilterVisible, Grant,
                    eventVars
      <4>8. log' # log
        BY <2>4 DEF Event
      <4>9. WriteSettings(a)
        BY <1>1, <4>1, <4>2, <4>3, <4>4, <4>5, <4>6, <4>7, <4>8 DEF Next
      <4>10. QED
        BY <4>8, <4>9 DEF WriteSettings
    <3> DEFINE new == Merged(a)
               row == [visibility |-> new.visibility, expiry |-> new.expiry,
                       downloads |-> new.downloads,
                       token |-> TokenAfter(new.visibility), status |-> "active"]
    <3>2. row \in Row
      <4>1. new \in Fields /\ Event \in Row
        BY <1>1, <3>1, MergedTyped, CurrentRow DEF WriteSettings, IInv
      <4> HIDE DEF new
      <4>2. TokenAfter(new.visibility) \in Nat
        BY <4>1 DEF TokenAfter, Row
      <4>3. QED
        BY <4>1, <4>2 DEF Fields, Row
    <3>3. Event' = row
      <4>1. log' = log \/ log' = Append(log, row)
        BY <3>1 DEF WriteSettings, Becomes
      <4> HIDE DEF row
      <4>2. QED
        BY <1>1, <2>4, <3>2, <4>1, Extends DEF IInv, Event
    <3>4. Event'[f] = new[f]
      BY <3>3 DEF Merged
    <3>5. new[f] = Given(edits[a].command[f], log[edits[a].read][f])
      BY DEF Merged
    <3>6. QED
      BY <2>2, <3>4, <3>5 DEF Given
  <2>5. QED
    BY <2>3, <2>4
<1>2. IInv /\ [Next]_vars => [\A a \in Admins : Restores(a)]_vars
  BY <1>1
<1>3. QED
  BY <1>2, Inductive, PTL DEF Spec, EditsOnlyRestore

=============================================================================
