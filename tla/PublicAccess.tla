------------------------------ MODULE PublicAccess ------------------------------
(***************************************************************************)
(* What visitors of a public event get to see: the selfie search           *)
(* (apps/api/internal/domain/search/service.go) and the download links     *)
(* (domain/download/service.go), each a sequence of calls, while the       *)
(* event's settings are edited or archived (store/postgres/event.go), its  *)
(* photos become ready or are deleted, and the vector index lags behind.   *)
(*                                                                         *)
(* The event row is kept with its history: log is the sequence of values   *)
(* it has had, the last one current.  Time is a small clock, so that an    *)
(* expiry passes while a request or an edit is under way.                  *)
(***************************************************************************)
EXTENDS Naturals, Sequences, FiniteSets

CONSTANTS
    Photos,      \* photos of the event
    Foreign,     \* ready, indexed photos of another event
    Requests,    \* searches and downloads served at once
    Admins,      \* users of the dashboard who edit settings, one edit each at a time
    Memberships, \* their memberships in the event's organization
    Commands,    \* the edits they make
    None,        \* no expiry; a field an edit leaves out
    MaxTime,     \* bound on the clock
    MaxVersions, \* bound on the changes of the event row
    MaxResults,  \* most matches a search asks the index for
    MaxBulk      \* most photos in one download request

INSTANCE Authorization WITH Users <- Admins, NoMember <- None

Fields == [visibility : {"private", "public"}, expiry : 1..MaxTime \cup {None},
           downloads : BOOLEAN]

ASSUME AdminsAssumption == IsFiniteSet(Admins) /\ Memberships \in [Admins -> Membership \cup {None}]
ASSUME PhotosAssumption == Photos \cap Foreign = {} /\ None \notin 0..MaxTime
ASSUME BoundsAssumption ==
    MaxTime \in Nat /\ MaxVersions \in Nat \ {0} /\ MaxResults \in Nat \ {0} /\ MaxBulk \in Nat \ {0}
\* An update command: nil pointers are fields left out.
ASSUME CommandsAssumption ==
    Commands \subseteq [visibility : {"private", "public", None}, expiry : 1..MaxTime \cup {None},
                        downloads : BOOLEAN \cup {None}]

VARIABLES
    log,       \* the values of the event row so far
    clock,     \* time.Now()
    edits,     \* each edit's command and the row it read, as a place in the log; None if no edit
    status,    \* photos.status
    vectors,   \* photos with points in the index
    wasReady,  \* history: photos of the event that have been ready
    reqs       \* what each request is doing

eventVars == <<log, clock, edits>>
photoVars == <<status, vectors, wasReady>>
vars      == <<eventVars, photoVars, reqs>>

All      == Photos \cup Foreign
Event    == log[Len(log)]
Archived == Event.status = "archived"

Row == [visibility : {"private", "public"}, expiry : 1..MaxTime \cup {None}, downloads : BOOLEAN,
        token : Nat, status : {"active", "archived"}]

Edit == [command : Commands, read : 1..MaxVersions + 1]

Request == [kind : {"search", "download"},
            pc : {"idle", "scope", "infer", "match", "filter", "check", "answered"},
            from : 1..MaxVersions + 1, now : 0..MaxTime, gone : SUBSET All,
            asked : SUBSET All, found : SUBSET All]

Idle == [kind |-> "search", pc |-> "idle", from |-> 1, now |-> 0,
         gone |-> {}, asked |-> {}, found |-> {}]

TypeOK ==
    /\ log \in Seq(Row) /\ Len(log) \in 1..MaxVersions + 1
    /\ clock \in 0..MaxTime
    /\ edits \in [Admins -> Edit \cup {None}]
    /\ status \in [All -> {"processing", "ready", "deleted"}]
    /\ vectors \subseteq All
    /\ wasReady \subseteq Photos
    /\ reqs \in [Requests -> Request]
    \* an edit has read a value the row has had
    /\ \A a \in Admins : edits[a] # None => edits[a].read <= Len(log)
    \* a search never holds a photo of another event, not even before the filter
    /\ \A r \in Requests : reqs[r].kind = "search" => reqs[r].found \subseteq Photos

\* Create: a public event gets its token with its row.
Init ==
    /\ \E f \in Fields :
         log = << [visibility |-> f.visibility, expiry |-> f.expiry, downloads |-> f.downloads,
                   token |-> IF f.visibility = "public" THEN 1 ELSE 0, status |-> "active"] >>
    /\ clock = 0
    /\ edits = [a \in Admins |-> None]
    /\ status = [p \in All |-> IF p \in Foreign THEN "ready" ELSE "processing"]
    /\ vectors = Foreign
    /\ wasReady = {}
    /\ reqs = [r \in Requests |-> Idle]

Tick ==
    /\ clock < MaxTime
    /\ clock' = clock + 1
    /\ UNCHANGED <<log, edits, photoVars, reqs>>

-----------------------------------------------------------------------------
(* The event row: update and archive.                                       *)

Becomes(row) == log' = IF row = Event THEN log ELSE Append(log, row)

Ahead(expiry, now) == expiry # None => expiry > now

\* Events.authorize: who may not write events gets the answer that there is no such event.
Authorized(a) == Authorize(a, "event:write")

\* Find.  An expiry in the past was refused before.
ReadSettings(a, c) ==
    /\ Authorized(a)
    /\ edits[a] = None /\ ~Archived
    /\ Ahead(c.expiry, clock)
    /\ Len(log) + Cardinality({b \in Admins : edits[b] # None}) < MaxVersions
    /\ edits' = [edits EXCEPT ![a] = [command |-> c, read |-> Len(log)]]
    /\ UNCHANGED <<log, clock, photoVars, reqs>>

Given(new, old) == IF new = None THEN old ELSE new

\* Mutant: fields left out decode to zero values.
MergedWithZeros(a) ==
    LET c == edits[a].command
    IN  [visibility |-> Given(c.visibility, "private"), expiry |-> c.expiry,
         downloads |-> Given(c.downloads, FALSE)]

\* The command's fields over what was found.
Merged(a) ==
    LET c == edits[a].command
        found == log[edits[a].read]
    IN  [visibility |-> Given(c.visibility, found.visibility),
         expiry |-> Given(c.expiry, found.expiry),
         downloads |-> Given(c.downloads, found.downloads)]

\* Mutant: a public update draws a new token without coalesce.
TokenAfterFresh(visibility) == IF visibility = "public" THEN Event.token + 1 ELSE Event.token

\* The token is drawn when the event first becomes public, and kept from then on.
TokenAfter(visibility) ==
    IF visibility = "public" /\ Event.token = 0 THEN 1 ELSE Event.token

\* Mutant: the UPDATE does not ask for status = 'active'.
UpdatableAny == TRUE

\* The UPDATE's WHERE.
Updatable == ~Archived

\* All fields are written back; the row must still be active.
WriteSettings(a) ==
    /\ edits[a] # None
    /\ IF Updatable
       THEN LET new == Merged(a)
            IN  Becomes([visibility |-> new.visibility, expiry |-> new.expiry,
                         downloads |-> new.downloads,
                         token |-> TokenAfter(new.visibility), status |-> "active"])
       ELSE UNCHANGED log
    /\ edits' = [edits EXCEPT ![a] = None]
    /\ UNCHANGED <<clock, photoVars, reqs>>

\* An edit is abandoned on a database error.
DropSettings(a) ==
    /\ edits[a] # None
    /\ edits' = [edits EXCEPT ![a] = None]
    /\ UNCHANGED <<log, clock, photoVars, reqs>>

Archive ==
    /\ \E a \in Admins : Authorized(a)
    /\ ~Archived
    /\ Becomes([Event EXCEPT !.status = "archived"])
    /\ UNCHANGED <<clock, edits, photoVars, reqs>>

-----------------------------------------------------------------------------
(* Photos, as PhotoPipeline.tla is shown to move them.                      *)

View == INSTANCE PhotoView WITH open <- ~Archived

Index(p) ==
    /\ UNCHANGED <<eventVars, wasReady, reqs>>
    /\ p \notin vectors
    /\ View!Index(p)

MarkReady(p) ==
    /\ UNCHANGED <<eventVars, reqs>>
    /\ View!MarkReady(p)
    /\ wasReady' = wasReady \cup {p}

Delete(S) ==
    /\ UNCHANGED <<eventVars, wasReady, reqs>>
    /\ \E p \in S : status[p] # "deleted"
    /\ View!Delete(S)

PurgeVectors(S) ==
    /\ UNCHANGED <<eventVars, wasReady, reqs>>
    /\ S # {} /\ S \subseteq vectors
    /\ View!PurgeVectors(S)

PhotosMove ==
    \/ \E p \in Photos : Index(p) \/ MarkReady(p)
    \/ \E S \in SUBSET Photos : Delete(S) \/ PurgeVectors(S)

-----------------------------------------------------------------------------
(* Requests.                                                                *)

At(r, kind, pc) == reqs[r].kind = kind /\ reqs[r].pc = pc
Goto(r, pc) == reqs' = [reqs EXCEPT ![r].pc = pc]

\* Every error and refusal ends the request without a result.
Deny(r) == reqs' = [reqs EXCEPT ![r] = Idle]
Answer(r, found) == reqs' = [reqs EXCEPT ![r].pc = "answered", ![r].found = found]

\* Photos that are out of reach for good.
Gone == IF Archived THEN All ELSE {p \in All : status[p] = "deleted"}

\* A request starts by reading the clock for its scope lookup.
Begin(r, kind, asked) ==
    /\ reqs[r].pc \in {"idle", "answered"}
    /\ reqs' = [reqs EXCEPT ![r] =
                  [kind |-> kind, pc |-> "scope", from |-> Len(log), now |-> clock,
                   gone |-> Gone, asked |-> asked, found |-> {}]]
    /\ UNCHANGED <<eventVars, photoVars>>

BeginSearch(r) == Begin(r, "search", {})

\* NormalizePhotoIDs leaves distinct ids, at least one and at most maxBulk.
BeginDownload(r, ids) == Cardinality(ids) \in 1..MaxBulk /\ Begin(r, "download", ids)

\* Mutant: the lookup by token forgets visibility = 'public'.
EligibleAnyVisibility(row, now) ==
    row.token > 0 /\ row.status = "active" /\ Ahead(row.expiry, now)

\* The public scope queries: known token, public, active, not expired.
Eligible(row, now) ==
    /\ row.token > 0 /\ row.visibility = "public" /\ row.status = "active"
    /\ Ahead(row.expiry, now)

\* The scope lookup; a download needs the policy that comes with it.
ResolveScope(r) ==
    /\ reqs[r].pc = "scope"
    /\ \/ /\ Eligible(Event, reqs[r].now)
          /\ \/ reqs[r].kind = "search" /\ Goto(r, "infer")
             \/ reqs[r].kind = "download" /\ Event.downloads /\ Goto(r, "check")
       \/ Deny(r)
    /\ UNCHANGED <<eventVars, photoVars>>

\* Exactly one face is wanted of the selfie.
Infer(r) ==
    /\ At(r, "search", "infer")
    /\ Goto(r, "match") \/ Deny(r)
    /\ UNCHANGED <<eventVars, photoVars>>

\* Mutant: the index is asked without its organization and event conditions.
IndexedAnywhere == vectors

\* The index is asked for points of this organization and event.
Indexed == vectors \ Foreign

\* What ranking may leave of the index's answer: its photos, each once, above the threshold.
Ranked(points) == {found \in SUBSET points : Cardinality(found) <= MaxResults}

\* The index answers with its nearest points, which are ranked; no match is an answer.
Match(r) ==
    /\ At(r, "search", "match")
    /\ \/ \E found \in Ranked(Indexed) :
            IF found = {}
            THEN Answer(r, {})
            ELSE reqs' = [reqs EXCEPT ![r].pc = "filter", ![r].found = found]
       \/ Deny(r)
    /\ UNCHANGED <<eventVars, photoVars>>

\* Mutant: the query forgets p.status = 'ready'.
VisibleAnyStatus == {p \in Photos : ~Archived}

\* Present in this event, ready, and the event active.
Visible == {p \in Photos : status[p] = "ready" /\ ~Archived}

FilterVisible(r) ==
    /\ At(r, "search", "filter")
    /\ Answer(r, reqs[r].found \cap Visible) \/ Deny(r)
    /\ UNCHANGED <<eventVars, photoVars>>

\* Mutant: a photo that cannot be had is left out instead of refusing the request.
GrantSkipping(r) ==
    /\ At(r, "download", "check")
    /\ \E p \in reqs[r].asked \ reqs[r].found :
         Answer(r, IF p \in Visible THEN reqs[r].found \cup {p} ELSE reqs[r].found)
    /\ UNCHANGED <<eventVars, photoVars>>

\* The photos are checked and signed one after the other; the last one ends the request.
Grant(r) ==
    /\ At(r, "download", "check")
    /\ \/ \E p \in (reqs[r].asked \ reqs[r].found) \cap Visible :
            LET found == reqs[r].found \cup {p}
            IN  IF found = reqs[r].asked
                THEN Answer(r, found)
                ELSE reqs' = [reqs EXCEPT ![r].found = found]
       \/ Deny(r)
    /\ UNCHANGED <<eventVars, photoVars>>

Next ==
    \/ Tick \/ Archive
    \/ \E a \in Admins :
         \/ \E c \in Commands : ReadSettings(a, c)
         \/ WriteSettings(a) \/ DropSettings(a)
    \/ PhotosMove
    \/ \E r \in Requests :
         \/ BeginSearch(r) \/ (\E ids \in SUBSET All : BeginDownload(r, ids))
         \/ ResolveScope(r) \/ Infer(r) \/ Match(r) \/ FilterVisible(r) \/ Grant(r)

Spec == Init /\ [][Next]_vars

-----------------------------------------------------------------------------
(* Properties.                                                              *)

\* A search result or a link names only photos of the event that were ready and were not
\* tombstoned, nor their event archived, when the request began, though the index still
\* has their points (docs/architecture.md: "the vector store is never the enforcement point").
AnswersAreVisible ==
    \A r \in Requests : reqs[r].pc = "answered" => reqs[r].found \subseteq wasReady \ reqs[r].gone

\* Whatever edits run beside it, a request that gets photos has seen the event open: public,
\* active, unexpired, and for links with downloads enabled, all in one value of the row
\* that was current at some moment of the request.
AnswersComeFromAnOpenEvent ==
    \A r \in Requests :
        reqs[r].pc = "answered" /\ reqs[r].found # {} =>
            \E i \in reqs[r].from..Len(log) :
                /\ log[i].visibility = "public" /\ log[i].status = "active"
                /\ Ahead(log[i].expiry, reqs[r].now)
                /\ reqs[r].kind = "download" => log[i].downloads

\* No link is returned unless every requested photo gets one (Issue fails closed).
AllOrNothing ==
    \A r \in Requests :
        reqs[r].kind = "download" /\ reqs[r].pc = "answered" => reqs[r].found = reqs[r].asked

\* A link or QR code once given out never changes, through unpublishing, republishing and
\* edits made from stale copies; and a public event always has one.
LinkSurvives ==
    /\ Event.visibility = "public" => Event.token > 0
    /\ \A i, j \in 1..Len(log) : i < j /\ log[i].token > 0 => log[i].token = log[j].token

\* No edit, not one that read the event before, changes an archived event or reopens it.
ArchiveIsFinal == [][Archived => log' = log]_vars

\* The row after an edit, or left as it was, has in each field what the edit says or a value
\* from the time since the edit read it: a field it leaves out changes only back, and only if
\* somebody changed it meanwhile.  That much a lost update can undo (event.go:83-120).
EditsOnlyRestore ==
    [][\A a \in Admins : edits[a] # None /\ edits'[a] = None =>
         \A f \in {"visibility", "expiry", "downloads"} :
            \/ edits[a].command[f] # None /\ Event'[f] = edits[a].command[f]
            \/ \E i \in edits[a].read..Len(log) : Event'[f] = log[i][f]]_vars

=============================================================================
