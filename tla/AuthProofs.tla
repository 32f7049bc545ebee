------------------------------ MODULE AuthProofs ------------------------------
(***************************************************************************)
(* Refresh sessions for any number of tabs, tokens and faults: the type    *)
(* invariant, one active session per family, what a logout ends, and the   *)
(* rules about how sessions are replaced.                                  *)
(***************************************************************************)
EXTENDS AuthSessions, FiniteSetTheorems, TLAPS

-----------------------------------------------------------------------------
(* The inductive invariant.                                                 *)

\* Tokens are drawn in order, and each one drawn has a session.
DrawnHaveSessions == \A t \in Tokens : session[t] = "none" <=> t > drawn

\* A family is named by one of its tokens, the first.
FamiliesNamed == \A t \in Tokens : session[t] # "none" => family[t] \in 1..t

\* A refresh presents a token.
RefreshHasToken == \A b \in Tabs : tabs[b].op = "refresh" => tabs[b].sent \in Tokens

Rotating == {b \in Tabs : tabs[b].pc = "rotate"}

\* Each rotation under way will find a token to draw.
RoomForRotations == drawn + Cardinality(Rotating) <= MaxTokens

\* A rotation under way is of an active session, and keeps it so by its lock.
RotatingActive == \A b \in Rotating : tabs[b].op = "refresh" /\ session[tabs[b].sent] = "active"

\* Tokens the browser presents or keeps were handed out.
Known(t) == t # NoToken => session[t] # "none"
AllKnown == Known(cookie) /\ \A b \in Tabs : Known(tabs[b].sent)

\* A token on its way to the browser is good, and nobody else has it.
NewIsHeld ==
    \A b \in Tabs : LET new == tabs[b].new IN
        new # NoToken => /\ session[new] = "active" /\ cookie # new
                         /\ \A c \in Tabs : tabs[c].sent # new /\ (c # b => tabs[c].new # new)

\* The cookie's token is good, or a reply will say otherwise, or would have.
CookieAccounted ==
    cookie # NoToken =>
        session[cookie] = "active" \/ cookie \in lost \/ \E b \in Tabs : UsesUp(b, cookie)

\* A refresh is refused for a token that is no longer good.
RefusalsDue == \A b \in Tabs : At(b, "refresh", "rejected") => ~Usable(tabs[b].sent)

SessionInv == DrawnHaveSessions /\ FamiliesNamed /\ OneActivePerFamily /\ RevocationEndsFamily
TabInv     == RefreshHasToken /\ RoomForRotations /\ RotatingActive

BrowserInv == AllKnown /\ NewIsHeld /\ CookieAccounted /\ RefusalsDue

IInv == TypeOK /\ SessionInv /\ TabInv /\ BrowserInv

-----------------------------------------------------------------------------
(* What a step does to the rows of auth_sessions.                           *)

\* A login: a family of its own.
Founded ==
    /\ account'
    /\ drawn' = drawn + 1 /\ drawn + 1 \in Tokens
    /\ session' = [session EXCEPT ![drawn + 1] = "active"]
    /\ family' = [family EXCEPT ![drawn + 1] = drawn + 1]

\* A rotation of t.
Succeeded(t) ==
    /\ drawn' = drawn + 1 /\ drawn + 1 \in Tokens
    /\ session[t] = "active"
    /\ session' = [session EXCEPT ![drawn + 1] = "active", ![t] = "rotated"]
    /\ family' = [family EXCEPT ![drawn + 1] = family[t]]

\* A logout with t.
Revoked(t) ==
    /\ session[t] = "active"
    /\ session' = [session EXCEPT ![t] = "revoked"]
    /\ UNCHANGED <<drawn, family>>

RowStep ==
    /\ account => account'
    /\ \/ UNCHANGED <<drawn, session, family>>
       \/ Founded
       \/ \E t \in Tokens : Succeeded(t) \/ Revoked(t)

\* There is room for the token a rotation draws.
LEMMA RotationHasRoom ==
    ASSUME TypeOK, RoomForRotations, NEW b \in Tabs, tabs[b].pc = "rotate"
    PROVE  drawn + 1 \in Tokens
<1>1. IsFiniteSet(Rotating) /\ b \in Rotating
  BY TabsAssumption, FS_Subset DEF Rotating
<1>2. Cardinality(Rotating) \in Nat /\ Cardinality(Rotating) # 0
  BY <1>1, FS_CardinalityType, FS_EmptySet
<1>3. drawn \in Nat /\ MaxTokens \in Nat
  BY BoundsAssumption DEF TypeOK
<1>4. QED
  BY <1>2, <1>3 DEF RoomForRotations, Tokens

\* Room is room for a token.
LEMMA RoomIsRoom ==
    ASSUME TypeOK, Room
    PROVE  drawn + 1 \in Tokens /\ drawn + 1 + Cardinality(Rotating) <= MaxTokens
<1>1. IsFiniteSet(Rotating)
  BY TabsAssumption, FS_Subset DEF Rotating
<1>2. Cardinality(Rotating) \in Nat
  BY <1>1, FS_CardinalityType
<1>3. drawn \in Nat /\ MaxTokens \in Nat
  BY BoundsAssumption DEF TypeOK
<1>4. drawn + Cardinality(Rotating) < MaxTokens
  BY DEF Room, Rotating
<1>5. QED
  BY <1>2, <1>3, <1>4 DEF Tokens

LEMMA RowSteps ==
    ASSUME TypeOK, TabInv, [Next]_vars
    PROVE  RowStep
<1>1. ASSUME NEW b \in Tabs, Register(b) \/ Login(b)
      PROVE  RowStep
  <2>0. account => account'
    BY <1>1 DEF Register, Login
  <2>1. CASE UNCHANGED <<session, family, drawn>>
    BY <2>0, <2>1 DEF RowStep
  <2>2. CASE account' /\ Insert(b, NewToken, "accepted")
    <3>1. drawn + 1 \in Tokens
      BY <2>2, RoomIsRoom DEF Insert
    <3>2. Founded
      BY <2>2, <3>1 DEF Insert, Founded, NewToken
    <3>3. QED
      BY <2>0, <3>2 DEF RowStep
  <2>3. QED
    BY <1>1, <2>1, <2>2 DEF Register, Login
<1>2. ASSUME NEW b \in Tabs, Rotate(b)
      PROVE  RowStep
  <2>1. tabs[b].sent \in Tokens /\ tabs[b].pc = "rotate"
    BY <1>2 DEF TabInv, RefreshHasToken, Rotate, At
  <2>2. CASE UNCHANGED <<session, family, drawn>>
    BY <1>2, <2>2 DEF RowStep, Rotate
  <2>3. CASE /\ session[tabs[b].sent] = "active"
             /\ drawn' = NewToken
             /\ session' = Retired(b, [session EXCEPT ![NewToken] = "active"])
             /\ family' = [family EXCEPT ![NewToken] = family[tabs[b].sent]]
    <3>1. drawn + 1 \in Tokens
      BY <2>1, RotationHasRoom DEF TabInv
    <3>2. Succeeded(tabs[b].sent)
      BY <2>3, <3>1 DEF Succeeded, NewToken, Retired
    <3>3. QED
      BY <1>2, <2>1, <3>2 DEF RowStep, Rotate
  <2>4. QED
    BY <1>2, <2>2, <2>3 DEF Rotate
<1>3. ASSUME NEW b \in Tabs, Logout(b)
      PROVE  RowStep
  <2>1. UNCHANGED <<account, drawn, family>>
    BY <1>3 DEF Logout
  <2>2. CASE session' = session
    BY <2>1, <2>2 DEF RowStep
  <2>3. CASE session' # session
    <3>1. /\ tabs[b].sent # NoToken /\ session[tabs[b].sent] = "active"
          /\ session' = [session EXCEPT ![tabs[b].sent] = "revoked"]
      BY <1>3, <2>3 DEF Logout, Revocable
    <3>2. tabs[b].sent \in Tokens
      BY <3>1 DEF TypeOK, Request, Idle, Some
    <3>3. Revoked(tabs[b].sent)
      BY <2>1, <3>1 DEF Revoked
    <3>4. QED
      BY <2>1, <3>2, <3>3 DEF RowStep
  <2>4. QED
    BY <2>2, <2>3
<1>4. ASSUME NEW b \in Tabs,
             \/ \E op \in {"register", "login", "refresh", "logout"} : Send(b, op)
             \/ BeginRotation(b) \/ LookupUser(b) \/ Receive(b) \/ LoseReply(b)
      PROVE  RowStep
  BY <1>4 DEF Send, BeginRotation, LookupUser, Receive, LoseReply, RowStep, rowVars
<1>5. ASSUME UNCHANGED vars \/ \E t \in Tokens : Lapse(t)
      PROVE  RowStep
  BY <1>5 DEF vars, rowVars, Lapse, RowStep
<1>6. QED
  BY <1>1, <1>2, <1>3, <1>4, <1>5 DEF Next

-----------------------------------------------------------------------------
(* What follows for the sessions.                                           *)

\* The row of the next token: none yet, and not the one a step replaces.
LEMMA NextIsNew ==
    ASSUME TypeOK, SessionInv, drawn + 1 \in Tokens
    PROVE  /\ session[drawn + 1] = "none"
           /\ \A t \in Tokens : session[t] # "none" => family[t] # drawn + 1
BY DEF TypeOK, SessionInv, DrawnHaveSessions, FamiliesNamed, Tokens

LEMMA SessionsKept ==
    ASSUME TypeOK, SessionInv, RowStep
    PROVE  SessionInv'
<1> USE DEF TypeOK
<1>1. CASE UNCHANGED <<drawn, session, family>>
  BY <1>1 DEF SessionInv, DrawnHaveSessions, FamiliesNamed, OneActivePerFamily,
              RevocationEndsFamily, Relatives
<1>2. CASE Founded
  <2>1. session[drawn + 1] = "none" /\ \A t \in Tokens : session[t] # "none" => family[t] # drawn + 1
    BY <1>2, NextIsNew DEF Founded
  <2>2. DrawnHaveSessions' /\ FamiliesNamed'
    BY <1>2, BoundsAssumption DEF Founded, SessionInv, DrawnHaveSessions, FamiliesNamed, Tokens
  <2>3. OneActivePerFamily'
    BY <1>2, <2>1 DEF Founded, SessionInv, OneActivePerFamily
  <2>4. RevocationEndsFamily'
    BY <1>2, <2>1 DEF Founded, SessionInv, RevocationEndsFamily, Relatives
  <2>5. QED
    BY <2>2, <2>3, <2>4 DEF SessionInv
<1>3. ASSUME NEW t \in Tokens, Succeeded(t)
      PROVE  SessionInv'
  <2>1. session[drawn + 1] = "none" /\ t # drawn + 1
    BY <1>3, NextIsNew DEF Succeeded
  <2>2. DrawnHaveSessions'
    BY <1>3, <2>1, BoundsAssumption DEF Succeeded, SessionInv, DrawnHaveSessions, Tokens
  <2>3. FamiliesNamed'
    <3>1. family[t] \in 1..t /\ t <= drawn
      BY <1>3 DEF Succeeded, SessionInv, FamiliesNamed, DrawnHaveSessions, Tokens
    <3>2. family[t] \in 1..drawn + 1
      BY <3>1 DEF Tokens
    <3>3. QED
      BY <1>3, <2>1, <3>2 DEF Succeeded, SessionInv, FamiliesNamed
  <2>4. OneActivePerFamily'
    BY <1>3, <2>1 DEF Succeeded, SessionInv, OneActivePerFamily
  <2>5. RevocationEndsFamily'
    BY <1>3, <2>1 DEF Succeeded, SessionInv, RevocationEndsFamily, Relatives
  <2>6. QED
    BY <2>2, <2>3, <2>4, <2>5 DEF SessionInv
<1>4. ASSUME NEW t \in Tokens, Revoked(t)
      PROVE  SessionInv'
  <2>1. DrawnHaveSessions' /\ FamiliesNamed'
    BY <1>4 DEF Revoked, SessionInv, DrawnHaveSessions, FamiliesNamed
  <2>2. OneActivePerFamily'
    BY <1>4 DEF Revoked, SessionInv, OneActivePerFamily
  <2>3. RevocationEndsFamily'
    BY <1>4 DEF Revoked, SessionInv, RevocationEndsFamily, OneActivePerFamily, Relatives
  <2>4. QED
    BY <2>1, <2>2, <2>3 DEF SessionInv
<1>5. QED
  BY <1>1, <1>2, <1>3, <1>4 DEF RowStep

\* A session added to another's family replaces its active one.
LEMMA Replaces ==
    ASSUME TypeOK, SessionInv, RowStep, NEW t \in Tokens,
           session[t] = "none", session'[t] # "none", family'[t] # t
    PROVE  \E u \in Tokens : /\ family[u] = family'[t]
                             /\ session[u] = "active" /\ session'[u] = "rotated"
<1>1. CASE UNCHANGED <<drawn, session, family>> \/ Founded \/ \E u \in Tokens : Revoked(u)
  BY <1>1 DEF TypeOK, Founded, Revoked
<1>2. ASSUME NEW u \in Tokens, Succeeded(u)
      PROVE  /\ family[u] = family'[t]
             /\ session[u] = "active" /\ session'[u] = "rotated"
  BY <1>2 DEF TypeOK, Succeeded
<1>3. QED
  BY <1>1, <1>2 DEF RowStep

-----------------------------------------------------------------------------
(* Types.                                                                   *)

\* The rows keep their types, and refer to one another.
LEMMA RowsTyped ==
    ASSUME TypeOK, SessionInv, RowStep
    PROVE  /\ session' \in [Tokens -> {"none", "active", "rotated", "revoked"}]
           /\ family' \in [Tokens -> Some]
           /\ drawn' \in 0..MaxTokens
           /\ \A t \in Tokens : session'[t] # "none" => account' /\ session'[family'[t]] # "none"
<1> USE DEF TypeOK
<1>0. \A t \in Tokens : session[t] # "none" => family[t] \in Tokens
  BY BoundsAssumption DEF SessionInv, FamiliesNamed, Tokens
<1>1. CASE UNCHANGED <<drawn, session, family>>
  BY <1>1 DEF RowStep
<1>2. CASE Founded
  <2>1. session' \in [Tokens -> {"none", "active", "rotated", "revoked"}]
    BY <1>2 DEF Founded
  <2>2. family' \in [Tokens -> Some]
    BY <1>2 DEF Founded, Some
  <2>3. drawn' \in 0..MaxTokens
    BY <1>2, BoundsAssumption DEF Founded, Tokens
  <2>4. \A t \in Tokens : session'[t] # "none" => account' /\ session'[family'[t]] # "none"
    BY <1>0, <1>2 DEF Founded
  <2>5. QED
    BY <2>1, <2>2, <2>3, <2>4
<1>3. ASSUME NEW u \in Tokens, Succeeded(u)
      PROVE  /\ session' \in [Tokens -> {"none", "active", "rotated", "revoked"}]
             /\ family' \in [Tokens -> Some]
             /\ drawn' \in 0..MaxTokens
             /\ \A t \in Tokens : session'[t] # "none" => account' /\ session'[family'[t]] # "none"
  <2>1. session' \in [Tokens -> {"none", "active", "rotated", "revoked"}]
    BY <1>3 DEF Succeeded
  <2>2. family' \in [Tokens -> Some]
    BY <1>3 DEF Succeeded
  <2>3. drawn' \in 0..MaxTokens
    BY <1>3, BoundsAssumption DEF Succeeded, Tokens
  <2>4. \A t \in Tokens : session'[t] # "none" => account' /\ session'[family'[t]] # "none"
    BY <1>0, <1>3 DEF Succeeded, RowStep
  <2>5. QED
    BY <2>1, <2>2, <2>3, <2>4
<1>4. ASSUME NEW u \in Tokens, Revoked(u)
      PROVE  /\ session' \in [Tokens -> {"none", "active", "rotated", "revoked"}]
             /\ family' \in [Tokens -> Some]
             /\ drawn' \in 0..MaxTokens
             /\ \A t \in Tokens : session'[t] # "none" => account' /\ session'[family'[t]] # "none"
  BY <1>0, <1>4 DEF Revoked, RowStep
<1>5. QED
  BY <1>1, <1>2, <1>3, <1>4 DEF RowStep

\* The rest of the state: the account, the clock of each session, locks and the browser.
ControlOK ==
    /\ account \in BOOLEAN /\ lost \subseteq Tokens
    /\ lapsed \subseteq Tokens
    /\ lock \in [Tokens -> Tabs \cup {NoToken}]
    /\ cookie \in Some
    /\ tabs \in [Tabs -> Request \cup {Idle}]
    /\ faults \in 0..MaxFaults
    /\ \A b \in Tabs : tabs[b].pc = "rotate" => lock[tabs[b].sent] = b

\* A request is at some point of its way, with what it was sent with.
LEMMA TabTyped ==
    ASSUME TypeOK, NEW b \in Tabs
    PROVE  /\ tabs[b].sent \in Some /\ tabs[b].new \in Some
           /\ tabs[b] # Idle => tabs[b] \in Request
           /\ tabs[b].pc # "idle" => tabs[b] \in Request
           /\ tabs[b] = Idle => tabs[b].pc = "idle"
BY DEF TypeOK, Request, Idle, Some

\* A request moves on.
LEMMA Moves ==
    ASSUME TypeOK, NEW b \in Tabs, tabs[b] \in Request,
           NEW pc \in {"serve", "rotate", "lookup", "accepted", "rejected", "failed"}, NEW new \in Some
    PROVE  /\ [tabs EXCEPT ![b].pc = pc] \in [Tabs -> Request \cup {Idle}]
           /\ [tabs EXCEPT ![b].pc = pc, ![b].new = new] \in [Tabs -> Request \cup {Idle}]
<1>1. [tabs[b] EXCEPT !.pc = pc] \in Request
  BY DEF Request
<1>2. [tabs[b] EXCEPT !.pc = pc, !.new = new] \in Request
  BY DEF Request
<1>3. QED
  BY <1>1, <1>2 DEF TypeOK

\* The other tabs stay where they are, and a request keeps what it is and was sent with.
LEMMA MovedTo ==
    ASSUME TypeOK, NEW b \in Tabs, tabs[b] \in Request, NEW pc, tabs' = [tabs EXCEPT ![b].pc = pc]
    PROVE  /\ tabs'[b] = [op |-> tabs[b].op, pc |-> pc, sent |-> tabs[b].sent, new |-> tabs[b].new]
           /\ tabs'[b].pc = pc
           /\ \A c \in Tabs \ {b} : tabs'[c] = tabs[c]
BY DEF TypeOK, Request

LEMMA MovedWith ==
    ASSUME TypeOK, NEW b \in Tabs, tabs[b] \in Request, NEW pc, NEW new,
           tabs' = [tabs EXCEPT ![b].pc = pc, ![b].new = new]
    PROVE  /\ tabs'[b] = [op |-> tabs[b].op, pc |-> pc, sent |-> tabs[b].sent, new |-> new]
           /\ tabs'[b].pc = pc
           /\ \A c \in Tabs \ {b} : tabs'[c] = tabs[c]
BY DEF TypeOK, Request

LEMMA FaultCounted ==
    ASSUME TypeOK, Fault \/ UNCHANGED faults
    PROVE  faults' \in 0..MaxFaults
BY BoundsAssumption DEF TypeOK, Fault

LEMMA ControlTyped ==
    ASSUME TypeOK, TabInv, [Next]_vars
    PROVE  ControlOK'
<1> USE DEF TypeOK
<1>1. ASSUME NEW b \in Tabs, NEW op \in {"register", "login", "refresh", "logout"}, Send(b, op)
      PROVE  ControlOK'
  <2> DEFINE q == [op |-> op, pc |-> "serve", sent |-> cookie, new |-> NoToken]
  <2>1. q \in Request
    BY DEF Request, Some
  <2>2. tabs' = [tabs EXCEPT ![b] = q] /\ UNCHANGED <<lock, cookie, account, lapsed, lost, faults>>
    BY <1>1 DEF Send, rowVars
  <2>4. \A c \in Tabs : tabs'[c].pc = "rotate" => lock'[tabs'[c].sent] = c
    BY <2>2
  <2>5. QED
    BY <2>1, <2>2, <2>4 DEF ControlOK
<1>2. ASSUME NEW b \in Tabs, Register(b) \/ Login(b)
      PROVE  ControlOK'
  <2>1. tabs[b] \in Request /\ UNCHANGED <<lapsed, lock, cookie, lost>> /\ account' \in BOOLEAN
    BY <1>2, TabTyped DEF Register, Login, At
  <2>2. faults' \in 0..MaxFaults
    BY <1>2, FaultCounted DEF Register, Login, Fail
  <2>3. CASE Insert(b, NewToken, "accepted")
    <3>1. NewToken \in Some
      BY <2>3, RoomIsRoom DEF Insert, NewToken, Some
    <3>2. tabs' \in [Tabs -> Request \cup {Idle}]
      BY <2>1, <2>3, <3>1, Moves DEF Insert
    <3>3. \A c \in Tabs : tabs'[c].pc = "rotate" => lock'[tabs'[c].sent] = c
      BY <2>1, <2>3 DEF Insert
    <3>4. QED
      BY <2>1, <2>2, <3>2, <3>3 DEF ControlOK
  <2>4. ASSUME NEW pc \in {"rejected", "failed"}, Goto(b, pc)
        PROVE  ControlOK'
    <3>1. tabs' \in [Tabs -> Request \cup {Idle}]
      BY <2>1, <2>4, Moves DEF Goto, Some
    <3>2. \A c \in Tabs : tabs'[c].pc = "rotate" => lock'[tabs'[c].sent] = c
      BY <2>1, <2>4, MovedTo DEF Goto
    <3>3. QED
      BY <2>1, <2>2, <3>1, <3>2 DEF ControlOK
  <2>5. QED
    BY <1>2, <2>3, <2>4 DEF Register, Login, Reject, Fail
<1>3. ASSUME NEW b \in Tabs, BeginRotation(b)
      PROVE  ControlOK'
  <2>1. /\ tabs[b] \in Request /\ tabs[b].sent \in Tokens /\ lock[tabs[b].sent] = NoToken
        /\ UNCHANGED <<account, lapsed, cookie, lost>>
    BY <1>3, TabTyped DEF BeginRotation, At, LockFree, TabInv, RefreshHasToken
  <2>2. faults' \in 0..MaxFaults
    BY <1>3, FaultCounted DEF BeginRotation, Fail
  <2>3. CASE lock' = [lock EXCEPT ![tabs[b].sent] = b] /\ Goto(b, "rotate")
    <3>1. tabs' \in [Tabs -> Request \cup {Idle}]
      BY <2>1, <2>3, Moves DEF Goto, Some
    <3>2. lock' \in [Tokens -> Tabs \cup {NoToken}]
      BY <2>3
    <3>3. ASSUME NEW c \in Tabs, tabs'[c].pc = "rotate"
          PROVE  lock'[tabs'[c].sent] = c
      <4>1. CASE c = b
        BY <2>1, <2>3, <4>1 DEF Goto
      <4>2. CASE c # b
        <5>1. tabs'[c] = tabs[c] /\ tabs[c].pc = "rotate"
          BY <2>3, <3>3, <4>2 DEF Goto
        <5>2. tabs[c].sent \in Tokens /\ lock[tabs[c].sent] = c
          BY <5>1 DEF TabInv, RotatingActive, RefreshHasToken, Rotating
        <5>3. tabs[c].sent # tabs[b].sent
          BY <2>1, <5>2, TabsAssumption
        <5>4. QED
          BY <2>3, <5>1, <5>2, <5>3
      <4>3. QED
        BY <4>1, <4>2
    <3>4. QED
      BY <2>1, <2>2, <3>1, <3>2, <3>3 DEF ControlOK
  <2>4. ASSUME NEW pc \in {"rejected", "failed"}, Goto(b, pc), UNCHANGED lock
        PROVE  ControlOK'
    <3>1. tabs' \in [Tabs -> Request \cup {Idle}]
      BY <2>1, <2>4, Moves DEF Goto, Some
    <3>2. \A c \in Tabs : tabs'[c].pc = "rotate" => lock'[tabs'[c].sent] = c
      BY <2>1, <2>4, MovedTo DEF Goto
    <3>3. QED
      BY <2>1, <2>2, <2>4, <3>1, <3>2 DEF ControlOK
  <2>5. QED
    BY <1>3, <2>3, <2>4 DEF BeginRotation, Reject, Fail
<1>4. ASSUME NEW b \in Tabs, Rotate(b)
      PROVE  ControlOK'
  <2>1. /\ tabs[b] \in Request /\ tabs[b].pc = "rotate" /\ tabs[b].sent \in Tokens
        /\ lock' = [lock EXCEPT ![tabs[b].sent] = NoToken]
        /\ UNCHANGED <<account, lapsed, cookie, lost>>
    BY <1>4, TabTyped DEF Rotate, At, TabInv, RefreshHasToken
  <2>2. faults' \in 0..MaxFaults
    BY <1>4, FaultCounted DEF Rotate, Fail
  <2>3. \/ Goto(b, "rejected") \/ Goto(b, "failed")
        \/ tabs' = [tabs EXCEPT ![b].pc = "lookup", ![b].new = NewToken]
    BY <1>4 DEF Rotate, Reject, Fail
  <2>4. NewToken \in Some
    BY <2>1, RotationHasRoom DEF TabInv, NewToken, Some
  <2>5. /\ tabs' \in [Tabs -> Request \cup {Idle}] /\ tabs'[b].pc # "rotate"
        /\ \A c \in Tabs \ {b} : tabs'[c] = tabs[c]
    <3>1. ASSUME NEW pc \in {"rejected", "failed"}, Goto(b, pc)
          PROVE  /\ tabs' \in [Tabs -> Request \cup {Idle}] /\ tabs'[b].pc # "rotate"
                 /\ \A c \in Tabs \ {b} : tabs'[c] = tabs[c]
      <4>1. tabs' = [tabs EXCEPT ![b].pc = pc]
        BY <3>1 DEF Goto
      <4>2. tabs' \in [Tabs -> Request \cup {Idle}]
        BY <2>1, <4>1, Moves, TabTyped
      <4>3. QED
        BY <2>1, <4>1, <4>2, MovedTo
    <3>2. CASE tabs' = [tabs EXCEPT ![b].pc = "lookup", ![b].new = NewToken]
      <4>1. tabs' \in [Tabs -> Request \cup {Idle}]
        BY <2>1, <2>4, <3>2, Moves
      <4>2. QED
        BY <2>1, <3>2, <4>1 DEF Request
    <3>3. QED
      BY <2>3, <3>1, <3>2
  <2>6. ASSUME NEW c \in Tabs, tabs'[c].pc = "rotate"
        PROVE  lock'[tabs'[c].sent] = c
    <3>1. c # b /\ tabs'[c] = tabs[c]
      BY <2>5, <2>6
    <3>2. lock[tabs[c].sent] = c /\ tabs[c].sent \in Tokens
      BY <2>6, <3>1 DEF TabInv, RotatingActive, RefreshHasToken, Rotating
    <3>3. tabs[c].sent # tabs[b].sent
      BY <2>1, <3>1, <3>2
    <3>4. QED
      BY <2>1, <3>1, <3>2, <3>3
  <2>7. QED
    BY <2>1, <2>2, <2>5, <2>6 DEF ControlOK
<1>5. ASSUME NEW b \in Tabs, LookupUser(b) \/ Logout(b)
      PROVE  ControlOK'
  <2>1. tabs[b] \in Request /\ UNCHANGED <<account, lapsed, lock, cookie, lost>>
    BY <1>5, TabTyped DEF LookupUser, Logout, At, rowVars
  <2>2. faults' \in 0..MaxFaults
    BY <1>5, FaultCounted DEF LookupUser, Logout, Fail
  <2>3. Goto(b, "accepted") \/ Goto(b, "failed")
    BY <1>5 DEF LookupUser, Logout, Fail
  <2>4. /\ tabs' \in [Tabs -> Request \cup {Idle}] /\ tabs'[b].pc # "rotate"
        /\ \A c \in Tabs \ {b} : tabs'[c] = tabs[c]
    <3>1. CASE Goto(b, "accepted")
      <4>1. tabs' = [tabs EXCEPT ![b].pc = "accepted"]
        BY <3>1 DEF Goto
      <4>2. tabs' \in [Tabs -> Request \cup {Idle}]
        BY <2>1, <4>1, Moves, TabTyped
      <4>3. QED
        BY <2>1, <4>1, <4>2, MovedTo
    <3>2. CASE Goto(b, "failed")
      <4>1. tabs' = [tabs EXCEPT ![b].pc = "failed"]
        BY <3>2 DEF Goto
      <4>2. tabs' \in [Tabs -> Request \cup {Idle}]
        BY <2>1, <4>1, Moves, TabTyped
      <4>3. QED
        BY <2>1, <4>1, <4>2, MovedTo
    <3>3. QED
      BY <2>3, <3>1, <3>2
  <2>5. \A c \in Tabs : tabs'[c].pc = "rotate" => lock'[tabs'[c].sent] = c
    BY <2>1, <2>4
  <2>6. QED
    BY <2>1, <2>2, <2>4, <2>5 DEF ControlOK
<1>6. ASSUME NEW b \in Tabs, Receive(b) \/ LoseReply(b)
      PROVE  ControlOK'
  <2>1. /\ tabs' = [tabs EXCEPT ![b] = Idle] /\ lost' \subseteq Tokens
        /\ UNCHANGED <<account, lapsed, lock>>
    BY <1>6 DEF Receive, LoseReply, rowVars
  <2>2. faults' \in 0..MaxFaults
    BY <1>6, FaultCounted DEF Receive, LoseReply
  <2>3. cookie' \in Some
    BY <1>6, TabTyped DEF Receive, LoseReply, CookieAfter, Some
  <2>4. \A c \in Tabs : tabs'[c].pc = "rotate" => lock'[tabs'[c].sent] = c
    BY <2>1 DEF Idle
  <2>5. QED
    BY <2>1, <2>2, <2>3, <2>4 DEF ControlOK
<1>7. ASSUME UNCHANGED vars \/ \E t \in Tokens : Lapse(t)
      PROVE  ControlOK'
  BY <1>7 DEF vars, rowVars, browserVars, Lapse, ControlOK
<1>8. QED
  BY <1>1, <1>2, <1>3, <1>4, <1>5, <1>6, <1>7 DEF Next

LEMMA TypeKept ==
    ASSUME TypeOK, SessionInv, TabInv, [Next]_vars
    PROVE  TypeOK'
<1>1. RowStep /\ ControlOK'
  BY RowSteps, ControlTyped
<1>2. QED
  BY <1>1, RowsTyped DEF ControlOK, TypeOK

-----------------------------------------------------------------------------
(* Rotations under way.                                                     *)

\* How a step changes the tabs: one of them sends a request, moves it on or ends it.
TabStep(b) ==
    /\ \A c \in Tabs \ {b} : tabs'[c] = tabs[c]
    /\ \/ tabs'[b] = Idle
       \/ tabs[b] = Idle /\ tabs'[b].sent = cookie /\ (tabs'[b].op = "refresh" => cookie # NoToken)
       \/ tabs'[b].sent = tabs[b].sent /\ tabs'[b].op = tabs[b].op

LEMMA MovesOn ==
    ASSUME TypeOK, NEW b \in Tabs, tabs[b] \in Request, NEW pc,
           \/ Goto(b, pc)
           \/ tabs' = [tabs EXCEPT ![b].pc = pc, ![b].new = NewToken]
    PROVE  TabStep(b) /\ tabs'[b].pc = pc
<1>1. CASE Goto(b, pc)
  BY <1>1 DEF Goto, TypeOK, Request, TabStep
<1>2. CASE tabs' = [tabs EXCEPT ![b].pc = pc, ![b].new = NewToken]
  BY <1>2 DEF TypeOK, Request, TabStep
<1>3. QED
  BY <1>1, <1>2

\* Where each request goes next.
LEMMA TabSteps ==
    ASSUME TypeOK, NEW b \in Tabs
    PROVE  /\ \A op \in {"register", "login", "refresh", "logout"} :
                 Send(b, op) => TabStep(b) /\ tabs[b].pc = "idle" /\ tabs'[b].pc = "serve"
           /\ Register(b) \/ Login(b) =>
                 TabStep(b) /\ tabs[b].pc = "serve" /\ tabs'[b].pc \in {"accepted", "rejected", "failed"}
           /\ BeginRotation(b) =>
                 TabStep(b) /\ tabs[b].pc = "serve" /\ tabs'[b].pc \in {"rotate", "rejected", "failed"}
           /\ Rotate(b) =>
                 TabStep(b) /\ tabs[b].pc = "rotate" /\ tabs'[b].pc \in {"lookup", "rejected", "failed"}
           /\ LookupUser(b) \/ Logout(b) =>
                 TabStep(b) /\ tabs[b].pc \in {"lookup", "serve"}
                            /\ tabs'[b].pc \in {"accepted", "rejected", "failed"}
           /\ Receive(b) \/ LoseReply(b) =>
                 TabStep(b) /\ tabs[b].pc \in {"accepted", "rejected", "failed"} /\ tabs'[b].pc = "idle"
<1>1. ASSUME NEW op \in {"register", "login", "refresh", "logout"}, Send(b, op)
      PROVE  TabStep(b) /\ tabs[b].pc = "idle" /\ tabs'[b].pc = "serve"
  BY <1>1 DEF Send, TypeOK, TabStep, Idle
<1>2. ASSUME Register(b) \/ Login(b)
      PROVE  TabStep(b) /\ tabs[b].pc = "serve" /\ tabs'[b].pc \in {"accepted", "rejected", "failed"}
  <2>1. tabs[b].pc = "serve" /\ tabs[b] \in Request
    BY <1>2, TabTyped DEF Register, Login, At
  <2>2. \/ Goto(b, "rejected") \/ Goto(b, "failed")
        \/ tabs' = [tabs EXCEPT ![b].pc = "accepted", ![b].new = NewToken]
    BY <1>2 DEF Register, Login, Insert, Reject, Fail
  <2>3. QED
    BY <2>1, <2>2, MovesOn
<1>3. ASSUME BeginRotation(b)
      PROVE  TabStep(b) /\ tabs[b].pc = "serve" /\ tabs'[b].pc \in {"rotate", "rejected", "failed"}
  <2>1. tabs[b].pc = "serve" /\ tabs[b] \in Request
    BY <1>3, TabTyped DEF BeginRotation, At
  <2>2. Goto(b, "rejected") \/ Goto(b, "failed") \/ Goto(b, "rotate")
    BY <1>3 DEF BeginRotation, Reject, Fail
  <2>3. QED
    BY <2>1, <2>2, MovesOn
<1>4. ASSUME Rotate(b)
      PROVE  TabStep(b) /\ tabs[b].pc = "rotate" /\ tabs'[b].pc \in {"lookup", "rejected", "failed"}
  <2>1. tabs[b].pc = "rotate" /\ tabs[b] \in Request
    BY <1>4, TabTyped DEF Rotate, At
  <2>2. \/ Goto(b, "rejected") \/ Goto(b, "failed")
        \/ tabs' = [tabs EXCEPT ![b].pc = "lookup", ![b].new = NewToken]
    BY <1>4 DEF Rotate, Reject, Fail
  <2>3. QED
    BY <2>1, <2>2, MovesOn
<1>5. ASSUME LookupUser(b) \/ Logout(b)
      PROVE  TabStep(b) /\ tabs[b].pc \in {"lookup", "serve"}
                        /\ tabs'[b].pc \in {"accepted", "rejected", "failed"}
  <2>1. tabs[b].pc \in {"lookup", "serve"} /\ tabs[b] \in Request
    BY <1>5, TabTyped DEF LookupUser, Logout, At
  <2>2. Goto(b, "failed") \/ Goto(b, "accepted")
    BY <1>5 DEF LookupUser, Logout, Fail
  <2>3. QED
    BY <2>1, <2>2, MovesOn
<1>6. ASSUME Receive(b) \/ LoseReply(b)
      PROVE  TabStep(b) /\ tabs[b].pc \in {"accepted", "rejected", "failed"} /\ tabs'[b].pc = "idle"
  BY <1>6 DEF Receive, LoseReply, TypeOK, TabStep, Idle
<1>7. QED
  BY <1>1, <1>2, <1>3, <1>4, <1>5, <1>6

\* Rotations are not disturbed by a step that starts and ends none of them, takes a token
\* only when there is room, and leaves the sessions they hold alone.
LEMMA RotationsKept ==
    ASSUME TypeOK, TabInv, NEW b \in Tabs, TabStep(b),
           tabs[b].pc # "rotate", tabs'[b].pc # "rotate",
           drawn' = drawn \/ (Room /\ drawn' = drawn + 1),
           \A c \in Rotating : session'[tabs[c].sent] = "active"
    PROVE  RoomForRotations' /\ RotatingActive'
<1>1. Rotating' = Rotating
  BY DEF Rotating, TabStep
<1>2. \A c \in Rotating : tabs'[c] = tabs[c]
  BY DEF Rotating, TabStep
<1>3. RotatingActive'
  BY <1>1, <1>2 DEF TabInv, RotatingActive
<1>4. RoomForRotations'
  BY <1>1, RoomIsRoom DEF TabInv, RoomForRotations
<1>5. QED
  BY <1>3, <1>4

\* Two rotations are never of one session.
LEMMA LocksApart ==
    ASSUME TypeOK, NEW b \in Rotating, NEW c \in Rotating, b # c
    PROVE  tabs[b].sent # tabs[c].sent
BY DEF TypeOK, Rotating

\* A session that is free is not one being rotated.
LEMMA FreeOfRotations ==
    ASSUME TypeOK, TabInv, NEW t, LockFree(t), NEW c \in Rotating
    PROVE  tabs[c].sent # t
BY TabsAssumption DEF TypeOK, Rotating, LockFree

LEMMA TabsKept ==
    ASSUME TypeOK, SessionInv, TabInv, [Next]_vars
    PROVE  TabInv'
<1>1. RefreshHasToken'
  <2>1. UNCHANGED tabs \/ \E b \in Tabs : TabStep(b)
    BY TabSteps DEF Next, vars, browserVars, Lapse
  <2>2. cookie \in Some
    BY DEF TypeOK
  <2>3. QED
    BY <2>1, <2>2 DEF TabStep, TabInv, RefreshHasToken, Some, Idle
<1> DEFINE Kept == RoomForRotations' /\ RotatingActive'
<1>2. ASSUME NEW b \in Tabs,
             \/ \E op \in {"register", "login", "refresh", "logout"} : Send(b, op)
             \/ LookupUser(b) \/ Receive(b) \/ LoseReply(b)
      PROVE  Kept
  <2>1. TabStep(b) /\ tabs[b].pc # "rotate" /\ tabs'[b].pc # "rotate"
    BY <1>2, TabSteps
  <2>2. UNCHANGED <<drawn, session>>
    BY <1>2 DEF Send, LookupUser, Receive, LoseReply, rowVars
  <2>3. QED
    BY <2>1, <2>2, RotationsKept DEF TabInv, RotatingActive
<1>3. ASSUME NEW b \in Tabs, Register(b) \/ Login(b)
      PROVE  Kept
  <2>1. TabStep(b) /\ tabs[b].pc # "rotate" /\ tabs'[b].pc # "rotate"
    BY <1>3, TabSteps
  <2>2. \/ UNCHANGED <<drawn, session>>
        \/ Room /\ drawn' = drawn + 1 /\ session' = [session EXCEPT ![drawn + 1] = "active"]
    BY <1>3 DEF Register, Login, Insert, NewToken
  <2>3. \A c \in Rotating : session'[tabs[c].sent] = "active"
    <3>1. \A c \in Rotating : session[tabs[c].sent] = "active" /\ tabs[c].sent \in Tokens
      BY DEF TabInv, RotatingActive, RefreshHasToken, Rotating
    <3>2. QED
      BY <2>2, <3>1 DEF TypeOK
  <2>4. QED
    BY <2>1, <2>2, <2>3, RotationsKept
<1>4. ASSUME NEW b \in Tabs, Logout(b)
      PROVE  Kept
  <2>1. TabStep(b) /\ tabs[b].pc # "rotate" /\ tabs'[b].pc # "rotate"
    BY <1>4, TabSteps
  <2>2. /\ drawn' = drawn
        /\ \/ session' = session
           \/ LockFree(tabs[b].sent) /\ session' = [session EXCEPT ![tabs[b].sent] = "revoked"]
    BY <1>4 DEF Logout
  <2>3. \A c \in Rotating : session'[tabs[c].sent] = "active"
    <3>1. \A c \in Rotating : session[tabs[c].sent] = "active" /\ tabs[c].sent \in Tokens
      BY DEF TabInv, RotatingActive, RefreshHasToken, Rotating
    <3>2. QED
      BY <2>2, <3>1, FreeOfRotations DEF TypeOK
  <2>4. QED
    BY <2>1, <2>2, <2>3, RotationsKept
<1>5. ASSUME NEW b \in Tabs, BeginRotation(b)
      PROVE  Kept
  <2>1. TabStep(b) /\ tabs[b].pc = "serve" /\ tabs'[b].pc \in {"rotate", "rejected", "failed"}
    BY <1>5, TabSteps
  <2>2. UNCHANGED <<drawn, session>>
    BY <1>5 DEF BeginRotation
  <2>3. CASE tabs'[b].pc # "rotate"
    BY <2>1, <2>2, <2>3, RotationsKept DEF TabInv, RotatingActive
  <2>4. CASE tabs'[b].pc = "rotate"
    <3>1. Room /\ session[tabs[b].sent] = "active" /\ tabs[b].op = "refresh"
      <4>1. tabs[b] \in Request
        BY <2>1, TabTyped
      <4>2. ~Goto(b, "rejected") /\ ~Goto(b, "failed")
        <5>1. \A pc \in {"rejected", "failed"} : Goto(b, pc) => tabs'[b].pc = pc
          BY <4>1, MovesOn
        <5>2. QED
          BY <2>4, <5>1
      <4>3. QED
        BY <1>5, <4>2 DEF BeginRotation, Usable, At, Reject, Fail
    <3>2. Rotating' = Rotating \cup {b} /\ b \notin Rotating
      BY <2>1, <2>4 DEF TabStep, Rotating
    <3>3. IsFiniteSet(Rotating)
      BY TabsAssumption, FS_Subset DEF Rotating
    <3>4. Cardinality(Rotating') = Cardinality(Rotating) + 1 /\ Cardinality(Rotating) \in Nat
      BY <3>2, <3>3, FS_AddElement, FS_CardinalityType
    <3>5. drawn \in Nat /\ MaxTokens \in Nat /\ drawn + 1 + Cardinality(Rotating) <= MaxTokens
      BY <3>1, RoomIsRoom, BoundsAssumption DEF TypeOK
    <3>6. RoomForRotations'
      BY <2>2, <3>4, <3>5 DEF RoomForRotations
    <3>7. RotatingActive'
      <4>1. tabs'[b].op = tabs[b].op /\ tabs'[b].sent = tabs[b].sent
        BY <2>1, <2>4 DEF TabStep, Idle
      <4>2. \A c \in Rotating : tabs'[c] = tabs[c]
        BY <2>1, <3>2 DEF TabStep, Rotating
      <4>3. QED
        BY <2>2, <3>1, <3>2, <4>1, <4>2 DEF TabInv, RotatingActive
    <3>8. QED
      BY <3>6, <3>7
  <2>5. QED
    BY <2>1, <2>3, <2>4
<1>6. ASSUME NEW b \in Tabs, Rotate(b)
      PROVE  Kept
  <2>1. TabStep(b) /\ tabs[b].pc = "rotate" /\ tabs'[b].pc \in {"lookup", "rejected", "failed"}
    BY <1>6, TabSteps
  <2>2. Rotating' = Rotating \ {b} /\ b \in Rotating
    BY <2>1 DEF TabStep, Rotating
  <2>3. IsFiniteSet(Rotating)
    BY TabsAssumption, FS_Subset DEF Rotating
  <2>4. Cardinality(Rotating') = Cardinality(Rotating) - 1 /\ Cardinality(Rotating) \in Nat
    BY <2>2, <2>3, FS_RemoveElement, FS_CardinalityType
  <2>5. drawn' \in {drawn, drawn + 1} /\ drawn \in Nat /\ MaxTokens \in Nat
    BY <1>6, BoundsAssumption DEF Rotate, NewToken, TypeOK
  <2>6. RoomForRotations'
    BY <2>4, <2>5 DEF TabInv, RoomForRotations
  <2>7. \A c \in Rotating \ {b} : session'[tabs[c].sent] = "active" /\ tabs'[c] = tabs[c]
    <3>1. \A c \in Rotating : session[tabs[c].sent] = "active" /\ tabs[c].sent \in Tokens
      BY DEF TabInv, RotatingActive, RefreshHasToken, Rotating
    <3>2. \A c \in Rotating \ {b} : tabs[c].sent # tabs[b].sent
      BY <2>2, LocksApart
    <3>3. \/ session' = session
          \/ session' = [session EXCEPT ![drawn + 1] = "active", ![tabs[b].sent] = "rotated"]
      BY <1>6 DEF Rotate, Retired, NewToken
    <3>4. \A c \in Rotating \ {b} : session'[tabs[c].sent] = "active"
      BY <3>1, <3>2, <3>3 DEF TypeOK
    <3>5. QED
      BY <2>1, <3>4 DEF TabStep, Rotating
  <2>8. RotatingActive'
    BY <2>2, <2>7 DEF TabInv, RotatingActive
  <2>9. QED
    BY <2>6, <2>8
<1>7. ASSUME UNCHANGED vars \/ \E t \in Tokens : Lapse(t)
      PROVE  Kept
  BY <1>7 DEF vars, rowVars, browserVars, Lapse, TabInv, RoomForRotations, RotatingActive, Rotating
<1>8. QED
  BY <1>1, <1>2, <1>3, <1>4, <1>5, <1>6, <1>7 DEF Next, TabInv

-----------------------------------------------------------------------------
(* The browser.                                                             *)

\* A session that is there stays, and is never good again once it is not.
LEMMA UsedUp ==
    ASSUME TypeOK, SessionInv, RowStep, NEW t \in Tokens, session[t] # "none"
    PROVE  session'[t] # "none" /\ (session[t] # "active" => session'[t] = session[t])
<1>1. drawn + 1 \in Tokens => t # drawn + 1
  BY NextIsNew
<1>2. QED
  BY <1>1 DEF TypeOK, RowStep, Founded, Succeeded, Revoked

\* The token to be drawn next is nowhere.
LEMMA NextUnknown ==
    ASSUME TypeOK, SessionInv, BrowserInv, drawn + 1 \in Tokens
    PROVE  /\ session[drawn + 1] = "none" /\ drawn + 1 # NoToken /\ cookie # drawn + 1
           /\ \A b \in Tabs : tabs[b].sent # drawn + 1 /\ tabs[b].new # drawn + 1
<1>1. session[drawn + 1] = "none" /\ drawn + 1 # NoToken
  BY NextIsNew DEF Tokens, NoToken
<1>2. QED
  BY <1>1 DEF BrowserInv, AllKnown, Known, NewIsHeld

\* What is known of a refresh that was refused.
LEMMA Refused ==
    ASSUME TypeOK, TabInv, BrowserInv, NEW b \in Tabs, At(b, "refresh", "rejected")
    PROVE  tabs[b].sent \in Tokens /\ session[tabs[b].sent] # "none" /\ ~Usable(tabs[b].sent)
BY DEF TabInv, RefreshHasToken, BrowserInv, AllKnown, Known, RefusalsDue, At, Tokens, NoToken

\* A request goes on, and no session changes.
LEMMA GoneOn ==
    ASSUME TypeOK, BrowserInv, NEW b \in Tabs, tabs[b] \in Request, tabs[b].pc # "accepted",
           NEW pc, Goto(b, pc), UNCHANGED <<session, lapsed, cookie, lost>>,
           pc = "rejected" /\ tabs[b].op = "refresh" => ~Usable(tabs[b].sent)
    PROVE  BrowserInv'
<1>1. /\ tabs'[b] = [op |-> tabs[b].op, pc |-> pc, sent |-> tabs[b].sent, new |-> tabs[b].new]
      /\ \A c \in Tabs \ {b} : tabs'[c] = tabs[c]
  BY MovedTo DEF Goto
<1>2. \A c \in Tabs : /\ tabs'[c].op = tabs[c].op /\ tabs'[c].sent = tabs[c].sent
                      /\ tabs'[c].new = tabs[c].new
  BY <1>1
<1>3. AllKnown' /\ NewIsHeld'
  BY <1>2 DEF BrowserInv, AllKnown, Known, NewIsHeld
<1>4. CookieAccounted'
  <2>1. \A c \in Tabs : UsesUp(c, cookie) => UsesUp(c, cookie)'
    BY <1>1 DEF UsesUp
  <2>2. QED
    BY <2>1 DEF BrowserInv, CookieAccounted
<1>5. RefusalsDue'
  BY <1>1 DEF BrowserInv, RefusalsDue, At, Usable
<1>6. QED
  BY <1>3, <1>4, <1>5 DEF BrowserInv

\* The next token's row is added, and no other changes, but the one b presents to a refresh.
NewRow(b) ==
    /\ drawn + 1 \in Tokens /\ session'[drawn + 1] = "active"
    /\ \A t \in Tokens : t # drawn + 1 =>
          session'[t] = session[t] \/ (t = tabs[b].sent /\ tabs[b].op = "refresh")

\* The request of b goes on with the new token, and no other does.
Given(b, pc) ==
    /\ tabs'[b] = [op |-> tabs[b].op, pc |-> pc, sent |-> tabs[b].sent, new |-> drawn + 1]
    /\ \A c \in Tabs \ {b} : tabs'[c] = tabs[c]

\* A request is given a new token, in place of the one it presented or for a new family.
LEMMA GivenNew ==
    ASSUME TypeOK, SessionInv, TabInv, BrowserInv, RowStep,
           NEW b \in Tabs, tabs[b] \in Request, tabs[b].op # "logout", NewRow(b),
           NEW pc \in {"lookup", "accepted"}, Given(b, pc), UNCHANGED <<lapsed, cookie, lost>>
    PROVE  BrowserInv'
<1> DEFINE n == drawn + 1
<1>1. /\ n = drawn + 1 /\ n \in Tokens /\ session'[n] = "active"
      /\ \A t \in Tokens : t # n =>
            session'[t] = session[t] \/ (t = tabs[b].sent /\ tabs[b].op = "refresh")
  BY DEF NewRow
<1>2. /\ session[n] = "none" /\ n # NoToken /\ cookie # n
      /\ \A c \in Tabs : tabs[c].sent # n /\ tabs[c].new # n
  BY <1>1, NextUnknown
<1>3. /\ tabs'[b] = [op |-> tabs[b].op, pc |-> pc, sent |-> tabs[b].sent, new |-> n]
      /\ \A c \in Tabs \ {b} : tabs'[c] = tabs[c]
  BY DEF Given
<1> HIDE DEF n
<1>4. \A c \in Tabs : tabs'[c].op = tabs[c].op /\ tabs'[c].sent = tabs[c].sent
  BY <1>3
<1>5. /\ cookie \in Some
      /\ \A c \in Tabs : tabs[c].sent \in Some /\ tabs[c].new \in Some
  BY TabTyped DEF TypeOK
<1>6. AllKnown'
  <2>1. \A t \in Some : Known(t) => Known(t)'
    BY UsedUp DEF Known, Some
  <2>2. QED
    BY <1>4, <1>5, <2>1 DEF BrowserInv, AllKnown, Known
<1>7. NewIsHeld'
  <2> SUFFICES ASSUME NEW c \in Tabs, tabs'[c].new # NoToken
               PROVE  /\ session'[tabs'[c].new] = "active" /\ cookie # tabs'[c].new
                      /\ \A d \in Tabs : tabs'[d].sent # tabs'[c].new /\ (d # c => tabs'[d].new # tabs'[c].new)
    BY DEF NewIsHeld
  <2>1. CASE c = b
    BY <1>1, <1>2, <1>3, <1>4, <2>1
  <2>2. CASE c # b
    <3>1. /\ tabs'[c] = tabs[c] /\ tabs[c].new \in Tokens /\ tabs[c].new # n
          /\ session[tabs[c].new] = "active" /\ cookie # tabs[c].new
          /\ \A d \in Tabs : tabs[d].sent # tabs[c].new /\ (d # c => tabs[d].new # tabs[c].new)
      BY <1>2, <1>3, <1>5, <2>2 DEF BrowserInv, NewIsHeld, Some
    <3>2. session'[tabs[c].new] = "active"
      BY <1>1, <3>1
    <3>3. QED
      BY <1>2, <1>3, <1>4, <3>1, <3>2
  <2>3. QED
    BY <2>1, <2>2
<1>8. CookieAccounted'
  <2>1. \A c \in Tabs : UsesUp(c, cookie) => UsesUp(c, cookie)'
    BY <1>2, <1>3, <1>5 DEF UsesUp
  <2>2. CASE cookie = tabs[b].sent /\ tabs[b].op = "refresh"
    BY <1>2, <1>3, <2>2 DEF UsesUp, CookieAccounted
  <2>3. CASE ~(cookie = tabs[b].sent /\ tabs[b].op = "refresh")
    BY <1>1, <1>2, <1>5, <2>1, <2>3 DEF BrowserInv, CookieAccounted, Some
  <2>4. QED
    BY <2>2, <2>3
<1>9. RefusalsDue'
  <2> SUFFICES ASSUME NEW c \in Tabs, At(c, "refresh", "rejected")'
               PROVE  ~Usable(tabs[c].sent)'
    BY <1>4 DEF RefusalsDue, Usable
  <2>1. c # b /\ tabs'[c] = tabs[c]
    BY <1>3 DEF At
  <2>2. tabs[c].sent \in Tokens /\ session[tabs[c].sent] # "none" /\ ~Usable(tabs[c].sent)
    BY <2>1, Refused DEF At
  <2>3. QED
    BY <2>1, <2>2, UsedUp DEF Usable
<1>10. QED
  BY <1>6, <1>7, <1>8, <1>9 DEF BrowserInv

\* A request logs a token out.
LEMMA LoggedOut ==
    ASSUME TypeOK, SessionInv, TabInv, BrowserInv, NEW b \in Tabs, Logout(b)
    PROVE  BrowserInv'
<1> DEFINE t == tabs[b].sent
<1>1. /\ tabs[b] \in Request /\ tabs[b].op = "logout" /\ tabs[b].pc = "serve"
      /\ Goto(b, "accepted") /\ UNCHANGED <<lapsed, cookie, lost>>
  BY TabTyped DEF Logout, At
<1>2. CASE session' = session
  BY <1>1, <1>2, GoneOn
<1>3. CASE session' # session
  <2>1. /\ t \in Tokens /\ session[t] = "active" /\ session' = [session EXCEPT ![t] = "revoked"]
    BY <1>1, <1>3, TabTyped DEF Logout, Revocable, Some
  <2>2. /\ session'[t] = "revoked" /\ \A u \in Tokens \ {t} : session'[u] = session[u]
    BY <2>1 DEF TypeOK
  <2>3. /\ tabs'[b] = [op |-> tabs[b].op, pc |-> "accepted", sent |-> tabs[b].sent, new |-> tabs[b].new]
        /\ \A c \in Tabs \ {b} : tabs'[c] = tabs[c]
    <3>1. tabs' = [tabs EXCEPT ![b].pc = "accepted"]
      BY <1>1 DEF Goto
    <3>2. QED
      BY <1>1, <3>1, MovedTo
  <2>4. \A c \in Tabs : /\ tabs'[c].op = tabs[c].op /\ tabs'[c].sent = tabs[c].sent
                        /\ tabs'[c].new = tabs[c].new
    BY <1>1, <2>3
  <2>5. cookie \in Some /\ \A c \in Tabs : tabs[c].sent \in Some /\ tabs[c].new \in Some
    BY TabTyped DEF TypeOK
  <2>6. AllKnown'
    <3>1. \A u \in Some : Known(u) => Known(u)'
      BY <2>2 DEF Known, Some
    <3>2. QED
      BY <1>1, <2>4, <2>5, <3>1 DEF BrowserInv, AllKnown, Known
  <2>7. NewIsHeld'
    <3> SUFFICES ASSUME NEW c \in Tabs, tabs[c].new # NoToken
                 PROVE  session'[tabs[c].new] = "active"
      BY <1>1, <2>4 DEF BrowserInv, NewIsHeld
    <3>1. tabs[c].new \in Tokens /\ session[tabs[c].new] = "active" /\ t # tabs[c].new
      BY <2>5 DEF BrowserInv, NewIsHeld, Some
    <3>2. QED
      BY <2>2, <3>1
  <2>8. CookieAccounted'
    <3>1. \A c \in Tabs : UsesUp(c, cookie) => UsesUp(c, cookie)'
      BY <1>1, <2>3 DEF UsesUp
    <3>2. CASE cookie = t
      BY <1>1, <2>3, <3>2 DEF UsesUp, CookieAccounted
    <3>3. CASE cookie # t
      BY <1>1, <2>2, <2>5, <3>1, <3>3 DEF BrowserInv, CookieAccounted, Some
    <3>4. QED
      BY <3>2, <3>3
  <2>9. RefusalsDue'
    <3> SUFFICES ASSUME NEW c \in Tabs, At(c, "refresh", "rejected")'
                 PROVE  ~Usable(tabs[c].sent)'
      BY <2>4 DEF RefusalsDue, Usable
    <3>1. At(c, "refresh", "rejected")
      BY <2>3 DEF At
    <3>2. tabs[c].sent \in Tokens /\ ~Usable(tabs[c].sent)
      BY <3>1, Refused
    <3>3. QED
      BY <1>1, <2>2, <2>4, <3>2 DEF Usable
  <2>10. QED
    BY <2>6, <2>7, <2>8, <2>9 DEF BrowserInv
<1>4. QED
  BY <1>2, <1>3

\* A request ends; the cookie becomes the token it brought, is cleared or stays.
LEMMA Ended ==
    ASSUME TypeOK, TabInv, BrowserInv, NEW b \in Tabs, Receive(b) \/ LoseReply(b)
    PROVE  BrowserInv'
<1>1. /\ tabs' = [tabs EXCEPT ![b] = Idle] /\ UNCHANGED <<session, lapsed>>
  BY DEF Receive, LoseReply, rowVars
<1>2. /\ tabs'[b] = Idle /\ \A c \in Tabs \ {b} : tabs'[c] = tabs[c]
      /\ Idle.op = "none" /\ Idle.sent = NoToken /\ Idle.new = NoToken
  BY <1>1 DEF TypeOK, Idle
<1>3. cookie' \in {cookie, NoToken, tabs[b].new} /\ (cookie' = cookie \/ lost' = lost)
  BY DEF Receive, LoseReply, CookieAfter
<1>4. AllKnown'
  BY <1>1, <1>2, <1>3 DEF BrowserInv, AllKnown, Known, NewIsHeld
<1>5. NewIsHeld'
  <2> SUFFICES ASSUME NEW c \in Tabs, tabs'[c].new # NoToken
               PROVE  /\ session[tabs'[c].new] = "active" /\ cookie' # tabs'[c].new
                      /\ \A d \in Tabs : tabs'[d].sent # tabs'[c].new /\ (d # c => tabs'[d].new # tabs'[c].new)
    BY <1>1 DEF NewIsHeld
  <2>1. c # b /\ tabs'[c] = tabs[c]
    BY <1>2
  <2>2. /\ session[tabs[c].new] = "active" /\ cookie # tabs[c].new
        /\ \A d \in Tabs : tabs[d].sent # tabs[c].new /\ (d # c => tabs[d].new # tabs[c].new)
    BY <2>1 DEF BrowserInv, NewIsHeld
  <2>3. QED
    BY <1>2, <1>3, <2>1, <2>2
<1>6. CookieAccounted'
  <2>1. CASE LoseReply(b)
    <3>1. /\ cookie' = cookie /\ lost' = lost \cup {t \in Tokens : UsesUp(b, t)}
          /\ (cookie # NoToken => cookie \in Tokens)
      BY <2>1 DEF LoseReply, TypeOK, Some
    <3>2. \A c \in Tabs \ {b} : UsesUp(c, cookie) => UsesUp(c, cookie)'
      BY <1>2, <3>1 DEF UsesUp
    <3>3. QED
      BY <1>1, <3>1, <3>2 DEF BrowserInv, CookieAccounted
  <2>2. CASE Receive(b) /\ cookie' = cookie /\ tabs[b].op \notin {"refresh", "logout"}
    <3>1. \A c \in Tabs : UsesUp(c, cookie) => UsesUp(c, cookie)'
      BY <1>2, <2>2 DEF UsesUp
    <3>2. lost' = lost
      BY <2>2 DEF Receive
    <3>3. QED
      BY <1>1, <2>2, <3>1, <3>2 DEF BrowserInv, CookieAccounted
  <2>3. CASE cookie' = NoToken \/ cookie' = tabs[b].new
    BY <1>1, <2>3 DEF BrowserInv, NewIsHeld, CookieAccounted
  <2>4. QED
    BY <2>1, <2>2, <2>3 DEF Receive, CookieAfter
<1>7. RefusalsDue'
  BY <1>1, <1>2 DEF BrowserInv, RefusalsDue, At, Usable
<1>8. QED
  BY <1>4, <1>5, <1>6, <1>7 DEF BrowserInv

LEMMA BrowserStep ==
    ASSUME TypeOK, SessionInv, TabInv, BrowserInv, [Next]_vars
    PROVE  BrowserInv'
<1>0. RowStep
  BY RowSteps
<1>1. ASSUME NEW b \in Tabs, NEW op \in {"register", "login", "refresh", "logout"}, Send(b, op)
      PROVE  BrowserInv'
  <2>1. /\ tabs[b] = Idle
        /\ tabs'[b] = [op |-> op, pc |-> "serve", sent |-> cookie, new |-> NoToken]
        /\ \A c \in Tabs \ {b} : tabs'[c] = tabs[c]
        /\ UNCHANGED <<session, lapsed, cookie, lost>>
    BY <1>1 DEF Send, TypeOK, rowVars
  <2>2. AllKnown' /\ NewIsHeld' /\ RefusalsDue'
    BY <2>1 DEF BrowserInv, AllKnown, Known, NewIsHeld, RefusalsDue, At, Usable
  <2>3. \A c \in Tabs : UsesUp(c, cookie) => UsesUp(c, cookie)'
    BY <2>1 DEF UsesUp, Idle
  <2>4. CookieAccounted'
    BY <2>1, <2>3 DEF BrowserInv, CookieAccounted
  <2>5. QED
    BY <2>2, <2>4 DEF BrowserInv
<1>2. ASSUME NEW b \in Tabs, Register(b) \/ Login(b)
      PROVE  BrowserInv'
  <2>1. /\ tabs[b] \in Request /\ tabs[b].pc = "serve" /\ tabs[b].op \in {"register", "login"}
        /\ UNCHANGED <<lapsed, cookie, lost>>
    BY <1>2, TabTyped DEF Register, Login, At
  <2>2. CASE Insert(b, NewToken, "accepted")
    <3>1. drawn + 1 \in Tokens
      BY <2>2, RoomIsRoom DEF Insert
    <3>2. /\ session'[drawn + 1] = "active"
          /\ \A t \in Tokens : t # drawn + 1 => session'[t] = session[t]
      BY <2>2, <3>1 DEF Insert, NewToken, TypeOK
    <3>3. NewRow(b)
      BY <3>1, <3>2 DEF NewRow
    <3>4. Given(b, "accepted")
      BY <2>1, <2>2, MovedWith DEF Insert, NewToken, Given
    <3>5. QED
      BY <1>0, <2>1, <3>3, <3>4, GivenNew
  <2>3. ASSUME NEW pc \in {"rejected", "failed"}, Goto(b, pc), UNCHANGED session
        PROVE  BrowserInv'
    BY <2>1, <2>3, GoneOn
  <2>4. QED
    BY <1>2, <2>2, <2>3 DEF Register, Login, Reject, Fail
<1>3. ASSUME NEW b \in Tabs, BeginRotation(b)
      PROVE  BrowserInv'
  <2>1. /\ tabs[b] \in Request /\ tabs[b].pc = "serve"
        /\ UNCHANGED <<session, lapsed, cookie, lost>>
    BY <1>3, TabTyped DEF BeginRotation, At
  <2>2. \/ Goto(b, "rotate") \/ Goto(b, "failed")
        \/ Goto(b, "rejected") /\ ~Usable(tabs[b].sent)
    BY <1>3 DEF BeginRotation, Reject, Fail
  <2>3. QED
    BY <2>1, <2>2, GoneOn
<1>4. ASSUME NEW b \in Tabs, Rotate(b)
      PROVE  BrowserInv'
  <2>1. /\ tabs[b] \in Request /\ tabs[b].pc = "rotate" /\ tabs[b].op = "refresh"
        /\ tabs[b].sent \in Tokens /\ UNCHANGED <<lapsed, cookie, lost>>
    BY <1>4, TabTyped DEF Rotate, At, TabInv, RefreshHasToken
  <2>2. CASE /\ session' = Retired(b, [session EXCEPT ![NewToken] = "active"])
             /\ tabs' = [tabs EXCEPT ![b].pc = "lookup", ![b].new = NewToken]
    <3>1. drawn + 1 \in Tokens
      BY <2>1, RotationHasRoom DEF TabInv
    <3>2. tabs[b].sent # drawn + 1
      BY <3>1, NextUnknown
    <3>3. /\ session'[drawn + 1] = "active"
          /\ \A t \in Tokens : t # drawn + 1 => session'[t] = session[t] \/ t = tabs[b].sent
      BY <2>1, <2>2, <3>1, <3>2 DEF Retired, NewToken, TypeOK
    <3>4. NewRow(b)
      BY <2>1, <3>1, <3>3 DEF NewRow
    <3>5. Given(b, "lookup")
      BY <2>1, <2>2, MovedWith DEF NewToken, Given
    <3>6. QED
      BY <1>0, <2>1, <3>4, <3>5, GivenNew
  <2>3. CASE UNCHANGED session /\ (Goto(b, "failed") \/ (Goto(b, "rejected") /\ ~Usable(tabs[b].sent)))
    BY <2>1, <2>3, GoneOn
  <2>4. QED
    BY <1>4, <2>2, <2>3 DEF Rotate, Reject, Fail, Usable
<1>5. ASSUME NEW b \in Tabs, LookupUser(b)
      PROVE  BrowserInv'
  <2>1. /\ tabs[b] \in Request /\ tabs[b].pc = "lookup"
        /\ UNCHANGED <<session, lapsed, cookie, lost>>
        /\ Goto(b, "accepted") \/ Goto(b, "failed")
    BY <1>5, TabTyped DEF LookupUser, At, Fail, rowVars
  <2>2. QED
    BY <2>1, GoneOn
<1>6. ASSUME NEW b \in Tabs, Logout(b) \/ Receive(b) \/ LoseReply(b)
      PROVE  BrowserInv'
  BY <1>6, LoggedOut, Ended
<1>7. ASSUME NEW t \in Tokens, Lapse(t)
      PROVE  BrowserInv'
  BY <1>7 DEF Lapse, browserVars, BrowserInv, AllKnown, Known, NewIsHeld, CookieAccounted, UsesUp,
              RefusalsDue, At, Usable
<1>8. ASSUME UNCHANGED vars
      PROVE  BrowserInv'
  BY <1>8 DEF vars, rowVars, browserVars, BrowserInv, AllKnown, Known, NewIsHeld, CookieAccounted,
              UsesUp, RefusalsDue, At, Usable
<1>9. QED
  BY <1>1, <1>2, <1>3, <1>4, <1>5, <1>6, <1>7, <1>8 DEF Next
-----------------------------------------------------------------------------
(* The theorems.                                                            *)

LEMMA Initially ==
    ASSUME Init
    PROVE  IInv
<1>1. TypeOK
  <2>1. drawn \in 0..MaxTokens /\ faults \in 0..MaxFaults
    BY BoundsAssumption DEF Init
  <2>2. \A b \in Tabs : tabs[b].pc # "rotate"
    BY DEF Init, Idle
  <2>3. \A t \in Tokens : session[t] = "none"
    BY DEF Init
  <2>4. QED
    BY <2>1, <2>2, <2>3 DEF Init, TypeOK, Some
<1>2. SessionInv
  BY BoundsAssumption DEF Init, SessionInv, DrawnHaveSessions, FamiliesNamed, OneActivePerFamily,
                          RevocationEndsFamily, Tokens
<1>3. Rotating = {} /\ RefreshHasToken
  BY DEF Init, Rotating, RefreshHasToken, Idle
<1>4. TabInv
  BY <1>3, FS_EmptySet, BoundsAssumption DEF Init, TabInv, RoomForRotations, RotatingActive
<1>5. BrowserInv
  BY DEF Init, BrowserInv, AllKnown, Known, NewIsHeld, CookieAccounted, RefusalsDue, At, Idle
<1>6. QED
  BY <1>1, <1>2, <1>4, <1>5 DEF IInv

\* The invariant: how rows, families, locks and the browser's requests fit together, however
\* many tabs there are and however their requests overlap.
THEOREM Inductive == Spec => []IInv
<1>1. IInv /\ [Next]_vars => IInv'
  BY TypeKept, RowSteps, SessionsKept, TabsKept, BrowserStep DEF IInv
<1>2. QED
  BY Initially, <1>1, PTL DEF Spec

\* The type invariant: sessions refer to their family and account, and a rotation holds the
\* lock of the session it replaces (RotateSession's FOR UPDATE).
THEOREM TypeCorrect == Spec => []TypeOK
<1>1. IInv => TypeOK
  BY DEF IInv
<1>2. QED
  BY <1>1, Inductive, PTL

\* A token presented by many tabs at once is exchanged for one successor.
THEOREM OneActive == Spec => []OneActivePerFamily
<1>1. IInv => OneActivePerFamily
  BY DEF IInv, SessionInv
<1>2. QED
  BY <1>1, Inductive, PTL

\* No session of a family is active after a logout has revoked one of it.
THEOREM LogoutEndsFamily == Spec => []RevocationEndsFamily
<1>1. IInv => RevocationEndsFamily
  BY DEF IInv, SessionInv
<1>2. QED
  BY <1>1, Inductive, PTL

\* However the tabs' requests overlap, the browser's cookie is an active session unless the
\* request that used it up has not been answered or its reply was lost, and no refusal is of
\* the good token in it.
THEOREM StaysLoggedIn == Spec => []CookieIsCurrent
<1>1. IInv => CookieIsCurrent
  BY DEF IInv, BrowserInv, CookieAccounted, RefusalsDue, CookieIsCurrent, At
<1>2. QED
  BY <1>1, Inductive, PTL

\* Replayed tokens get no successor: a session is added to a family only in place of its
\* active one.
THEOREM ReplayRefused == Spec => SuccessorsReplace
<1>1. IInv /\ [Next]_vars =>
        [\A t \in Tokens :
           session[t] = "none" /\ session'[t] # "none" /\ family'[t] # t =>
             \E u \in Tokens : /\ family[u] = family'[t]
                               /\ session[u] = "active" /\ session'[u] = "rotated"]_vars
  BY RowSteps, Replaces DEF IInv
<1>2. QED
  BY <1>1, Inductive, PTL DEF Spec, SuccessorsReplace

\* Only the logout of a tab's own request serves it.
LEMMA LogoutServed ==
    ASSUME TypeOK, [Next]_vars, NEW b \in Tabs, At(b, "logout", "serve"), tabs'[b].pc = "accepted"
    PROVE  Logout(b)
<1>1. ASSUME tabs' = tabs PROVE FALSE
  BY <1>1 DEF At
<1>2. UNCHANGED vars \/ (\E t \in Tokens : Lapse(t)) => tabs' = tabs
  BY DEF vars, browserVars, Lapse
<1>3. ASSUME NEW c \in Tabs,
             \/ \E op \in {"register", "login", "refresh", "logout"} : Send(c, op)
             \/ Register(c) \/ Login(c) \/ BeginRotation(c) \/ Rotate(c) \/ LookupUser(c)
             \/ Logout(c) \/ Receive(c) \/ LoseReply(c)
      PROVE  c = b
  <2>1. TabStep(c)
    BY <1>3, TabSteps
  <2>2. QED
    BY <2>1 DEF TabStep, At
<1>4. ASSUME NEW op \in {"register", "login", "refresh", "logout"}, Send(b, op) PROVE FALSE
  BY <1>4, TabSteps DEF At
<1>5. ~Register(b) /\ ~Login(b) /\ ~BeginRotation(b) /\ ~Rotate(b) /\ ~LookupUser(b)
  BY DEF Register, Login, BeginRotation, Rotate, LookupUser, At
<1>6. ~Receive(b) /\ ~LoseReply(b)
  BY DEF Receive, LoseReply, At
<1>7. QED
  BY <1>1, <1>2, <1>3, <1>4, <1>5, <1>6 DEF Next

\* A logout that is served ends the login, unless the token it presents was exchanged and the
\* browser had not been told when it sent the logout.
THEOREM LogoutEnds == Spec => LogoutEndsLogin
<1> DEFINE Ends(b) == LET sent == tabs[b].sent IN
         /\ At(b, "logout", "serve") /\ tabs'[b].pc = "accepted" /\ sent # NoToken
         /\ faults' = faults
         => \/ \A t \in Relatives(sent) : session'[t] # "active"
            \/ /\ session[sent] = "rotated"
               /\ sent # cookie \/ sent \in lost \/ \E c \in Tabs : UsesUp(c, sent)
<1>1. ASSUME IInv, [Next]_vars, NEW b \in Tabs PROVE Ends(b)
  <2> DEFINE sent == tabs[b].sent
  <2> SUFFICES ASSUME At(b, "logout", "serve"), tabs'[b].pc = "accepted", sent # NoToken,
                      faults' = faults
               PROVE  \/ \A t \in Relatives(sent) : session'[t] # "active"
                      \/ /\ session[sent] = "rotated"
                         /\ sent # cookie \/ sent \in lost \/ \E c \in Tabs : UsesUp(c, sent)
    OBVIOUS
  <2>0. Logout(b)
    BY <1>1, LogoutServed DEF IInv
  <2>1. sent \in Tokens /\ session[sent] \in {"active", "rotated", "revoked"}
    BY <1>1, TabTyped DEF IInv, TypeOK, BrowserInv, AllKnown, Known, Some
  <2>2. session' = IF session[sent] = "active" THEN [session EXCEPT ![sent] = "revoked"] ELSE session
    <3>1. ~Fault
      BY <1>1, BoundsAssumption DEF Fault, IInv, TypeOK
    <3>2. QED
      BY <2>0, <3>1 DEF Logout, Revocable
  <2>3. CASE session[sent] = "active"
    <3> SUFFICES ASSUME NEW t \in Relatives(sent) PROVE session'[t] # "active"
      OBVIOUS
    <3>1. CASE t = sent
      BY <1>1, <2>1, <2>2, <2>3, <3>1 DEF IInv, TypeOK
    <3>2. CASE t # sent
      BY <1>1, <2>1, <2>2, <2>3, <3>2 DEF IInv, TypeOK, SessionInv, OneActivePerFamily, Relatives
    <3>3. QED
      BY <3>1, <3>2
  <2>4. CASE session[sent] = "revoked"
    BY <1>1, <2>1, <2>2, <2>4 DEF IInv, SessionInv, RevocationEndsFamily
  <2>5. CASE session[sent] = "rotated"
    BY <1>1, <2>5 DEF IInv, BrowserInv, CookieAccounted
  <2>6. QED
    BY <2>1, <2>3, <2>4, <2>5
<1>2. IInv /\ [Next]_vars => [\A b \in Tabs : Ends(b)]_vars
  BY <1>1
<1>3. QED
  BY <1>2, Inductive, PTL DEF Spec, LogoutEndsLogin

-----------------------------------------------------------------------------
(* The rows keep the promise of TokenFamilies.tla.                          *)

LEMMA GoodPairs ==
    /\ \A f, t : <<f, t>> \in Good <=> t \in Tokens /\ session[t] = "active" /\ family[t] = f
    /\ \A x \in Good : x = <<x[1], x[2]>>
BY DEF Good

\* What a family accepts, seen from a token of it that is active.
LEMMA GoodToken ==
    ASSUME OneActivePerFamily, NEW t \in Tokens, session[t] = "active"
    PROVE  Families!Of(family[t]) = {<<family[t], t>>} /\ <<family[t], t>> \in Good
<1>1. <<family[t], t>> \in Good
  BY GoodPairs
<1>2. ASSUME NEW x \in Good, x[1] = family[t] PROVE x = <<family[t], t>>
  <2>1. x = <<family[t], x[2]>> /\ x[2] \in Tokens /\ session[x[2]] = "active" /\ family[x[2]] = family[t]
    BY <1>2, GoodPairs
  <2>2. x[2] = t
    BY <2>1 DEF OneActivePerFamily
  <2>3. QED
    BY <2>1, <2>2
<1>3. QED
  BY <1>1, <1>2 DEF Families!Of

LEMMA FamiliesStep ==
    ASSUME TypeOK, SessionInv, RowStep
    PROVE  [Families!Next]_(Families!tvars)
<1> DEFINE n == drawn + 1
<1>0. /\ session \in [Tokens -> {"none", "active", "rotated", "revoked"}] /\ family \in [Tokens -> Some]
      /\ OneActivePerFamily
  BY DEF TypeOK, SessionInv
<1>1. n \in Tokens => session[n] = "none"
  BY DEF SessionInv, DrawnHaveSessions, TypeOK, Tokens
<1> HIDE DEF n
<1>2. CASE UNCHANGED <<drawn, session, family>>
  BY <1>2 DEF Families!tvars, Good, Seen
<1>3. CASE Founded
  <2>1. /\ n \in Tokens /\ session' = [session EXCEPT ![n] = "active"]
        /\ family' = [family EXCEPT ![n] = n]
    BY <1>3 DEF Founded, n
  <2>2. Good' = Good \cup {<<n, n>>}
    <3>1. \A t \in Tokens : t # n => session'[t] = session[t] /\ family'[t] = family[t]
      BY <1>0, <2>1
    <3>2. session'[n] = "active" /\ family'[n] = n /\ session[n] # "active"
      BY <1>0, <1>1, <2>1
    <3>3. QED
      BY <2>1, <3>1, <3>2 DEF Good
  <2>3. Seen' = Seen \cup {n} /\ n \notin Seen
    BY <1>0, <1>1, <2>1 DEF Seen
  <2>4. QED
    BY <2>1, <2>2, <2>3 DEF Families!Next, Families!Start
<1>4. ASSUME NEW t \in Tokens, Succeeded(t) PROVE Families!Next
  <2>1. /\ n \in Tokens /\ n # t /\ session[t] = "active"
        /\ session' = [session EXCEPT ![n] = "active", ![t] = "rotated"]
        /\ family' = [family EXCEPT ![n] = family[t]]
    BY <1>1, <1>4 DEF Succeeded, n
  <2>2. Families!Of(family[t]) = {<<family[t], t>>} /\ <<family[t], t>> \in Good
    BY <1>0, <2>1, GoodToken
  <2>3. Good' = (Good \ {<<family[t], t>>}) \cup {<<family[t], n>>}
    <3>1. \A u \in Tokens : u # n /\ u # t => session'[u] = session[u] /\ family'[u] = family[u]
      BY <1>0, <2>1
    <3>2. /\ session'[n] = "active" /\ family'[n] = family[t] /\ session[n] # "active"
          /\ session'[t] = "rotated"
      BY <1>0, <1>1, <2>1
    <3>3. ASSUME NEW x \in Good' PROVE x \in (Good \ {<<family[t], t>>}) \cup {<<family[t], n>>}
      <4>1. PICK u \in Tokens : session'[u] = "active" /\ x = <<family'[u], u>>
        BY DEF Good
      <4>2. QED
        BY <2>1, <3>1, <3>2, <4>1 DEF Good
    <3>4. ASSUME NEW x \in (Good \ {<<family[t], t>>}) \cup {<<family[t], n>>} PROVE x \in Good'
      <4>1. CASE x = <<family[t], n>>
        BY <2>1, <3>2, <4>1 DEF Good
      <4>2. CASE x \in Good /\ x # <<family[t], t>>
        <5>1. PICK u \in Tokens : session[u] = "active" /\ x = <<family[u], u>>
          BY <4>2 DEF Good
        <5>2. u # n /\ u # t
          BY <3>2, <4>2, <5>1
        <5>3. QED
          BY <3>1, <5>1, <5>2 DEF Good
      <4>3. QED
        BY <4>1, <4>2
    <3>5. QED
      BY <3>3, <3>4
  <2>4. Seen' = Seen \cup {n} /\ n \notin Seen
    BY <1>0, <1>1, <2>1 DEF Seen
  <2>5. Families!Exchange(family[t], n)
    BY <2>2, <2>3 DEF Families!Exchange
  <2>6. QED
    BY <2>1, <2>2, <2>4, <2>5 DEF Families!Next
<1>5. ASSUME NEW t \in Tokens, Revoked(t) PROVE Families!Next
  <2>1. session[t] = "active" /\ session' = [session EXCEPT ![t] = "revoked"] /\ family' = family
    BY <1>5 DEF Revoked
  <2>2. Families!Of(family[t]) = {<<family[t], t>>} /\ <<family[t], t>> \in Good
    BY <1>0, <2>1, GoodToken
  <2>3. Good' = Good \ {<<family[t], t>>}
    <3>1. \A u \in Tokens : u # t => session'[u] = session[u]
      BY <1>0, <2>1
    <3>2. session'[t] = "revoked"
      BY <1>0, <2>1
    <3>3. QED
      BY <2>1, <3>1, <3>2 DEF Good
  <2>4. Seen' = Seen
    BY <1>0, <2>1 DEF Seen
  <2>5. Families!End(family[t])
    BY <2>2, <2>3 DEF Families!End
  <2>6. QED
    BY <2>2, <2>4, <2>5 DEF Families!Next
<1>6. QED
  BY <1>2, <1>3, <1>4, <1>5 DEF RowStep

\* For any number of tabs, tokens and faults, a login is a chain with one good token at most:
\* what the browser's requests, their races and losses do to the rows is to start a chain, to
\* exchange its good token for a new one, or to end it (auth.go, store/postgres/auth.go).
THEOREM KeepsFamilies == Spec => ImplementsTokenFamilies
<1>1. Init => Families!Init
  BY DEF Init, Families!Init, Good, Seen
<1>2. IInv /\ [Next]_vars => [Families!Next]_(Families!tvars)
  BY RowSteps, FamiliesStep DEF IInv
<1>3. QED
  BY <1>1, <1>2, Inductive, PTL DEF Spec, ImplementsTokenFamilies, Families!Spec

=============================================================================
