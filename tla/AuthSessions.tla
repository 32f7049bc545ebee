------------------------------ MODULE AuthSessions ------------------------------
(***************************************************************************)
(* Refresh sessions of one account: login, refresh rotation and logout     *)
(* (apps/api/internal/domain/auth/auth.go, http/handlers/auth.go) over the *)
(* auth_sessions rows (store/postgres/auth.go), as a browser with several  *)
(* tabs uses them.  The tabs share one refresh cookie; each of them sends  *)
(* its own requests, and replies, which set or clear the cookie, arrive in *)
(* any order or not at all.                                                *)
(*                                                                         *)
(* A token stands for its session row: only the hash is stored, and it is  *)
(* unique.  Tokens are drawn in the order 1, 2, 3, ...                     *)
(***************************************************************************)
EXTENDS Naturals, FiniteSets

CONSTANTS
    Tabs,       \* requests the browser has under way at once
    MaxTokens,  \* bound on the refresh tokens drawn
    MaxFaults   \* bound on database errors and lost replies

ASSUME BoundsAssumption == MaxTokens \in Nat \ {0} /\ MaxFaults \in Nat

Tokens == 1..MaxTokens
NoToken == 0   \* no cookie, no row
Some == Tokens \cup {NoToken}

ASSUME TabsAssumption == IsFiniteSet(Tabs) /\ NoToken \notin Tabs

VARIABLES
    account,  \* the users row exists
    session,  \* auth_sessions.status per token, "none" before the insert
    family,   \* auth_sessions.family_id, named by the family's first token
    lapsed,   \* tokens whose session is past expires_at
    lock,     \* the tab whose transaction holds the row's FOR UPDATE lock
    drawn,    \* tokens drawn so far
    cookie,   \* the browser's refresh cookie
    tabs,     \* what each tab's request is doing
    lost,     \* history: tokens used up by a request whose reply never arrived
    faults    \* faults so far (bound only)

rowVars     == <<account, session, family, lapsed, lock>>
browserVars == <<cookie, tabs, lost>>
vars        == <<rowVars, drawn, browserVars, faults>>

Idle == [op |-> "none", pc |-> "idle", sent |-> NoToken, new |-> NoToken]

Request == [op : {"register", "login", "refresh", "logout"},
            pc : {"serve", "rotate", "lookup", "accepted", "rejected", "failed"},
            sent : Some, new : Some]

TypeOK ==
    /\ account \in BOOLEAN
    /\ session \in [Tokens -> {"none", "active", "rotated", "revoked"}]
    /\ family \in [Tokens -> Some]
    /\ lapsed \subseteq Tokens
    /\ lock \in [Tokens -> Tabs \cup {NoToken}]
    /\ drawn \in 0..MaxTokens
    /\ cookie \in Some
    /\ tabs \in [Tabs -> Request \cup {Idle}]
    /\ lost \subseteq Tokens
    /\ faults \in 0..MaxFaults
    \* every session belongs to a family and to an account
    /\ \A t \in Tokens : session[t] # "none" => account /\ session[family[t]] # "none"
    \* the transaction that rotates a row holds its lock
    /\ \A b \in Tabs : tabs[b].pc = "rotate" => lock[tabs[b].sent] = b

Init ==
    /\ account = FALSE
    /\ session = [t \in Tokens |-> "none"]
    /\ family = [t \in Tokens |-> NoToken]
    /\ lapsed = {}
    /\ lock = [t \in Tokens |-> NoToken]
    /\ drawn = 0
    /\ cookie = NoToken
    /\ tabs = [b \in Tabs |-> Idle]
    /\ lost = {}
    /\ faults = 0

Fault == faults < MaxFaults /\ faults' = faults + 1

At(b, op, pc) == tabs[b].op = op /\ tabs[b].pc = pc
Goto(b, pc) == tabs' = [tabs EXCEPT ![b].pc = pc]

\* The answer is the same for a request that is refused and for one that fails.
Reject(b) == Goto(b, "rejected")
Fail(b)   == Fault /\ Goto(b, "failed")

Usable(t) == session[t] = "active" /\ t \notin lapsed

-----------------------------------------------------------------------------
(* The browser.                                                             *)

\* A tab sends a request; the cookie goes with it.  Refresh without a cookie is refused
\* at once.
Send(b, op) ==
    /\ tabs[b] = Idle
    /\ op = "refresh" => cookie # NoToken
    /\ tabs' = [tabs EXCEPT ![b] = [op |-> op, pc |-> "serve", sent |-> cookie, new |-> NoToken]]
    /\ UNCHANGED <<rowVars, drawn, cookie, lost, faults>>

\* Mutant: a refresh leaves the presented token in the cookie.
CookieAfterOld(b) ==
    IF tabs[b].pc = "accepted" /\ tabs[b].op \in {"register", "login"} THEN tabs[b].new
    ELSE IF tabs[b].op = "logout" THEN NoToken
    ELSE cookie

\* respond sets the cookie; Logout, and a Refresh that failed, clear it.
CookieAfter(b) ==
    IF tabs[b].pc = "accepted" /\ tabs[b].op # "logout" THEN tabs[b].new
    ELSE IF tabs[b].op \in {"refresh", "logout"} THEN NoToken
    ELSE cookie

\* The request has used up the token it presented: it is exchanged, or logged out.
UsesUp(b, t) ==
    /\ tabs[b].sent = t
    /\ \/ tabs[b].op = "refresh" /\ tabs[b].new # NoToken
       \/ tabs[b].op = "logout" /\ tabs[b].pc = "accepted"

\* The reply arrives.
Receive(b) ==
    /\ tabs[b].pc \in {"accepted", "rejected", "failed"}
    /\ cookie' = CookieAfter(b)
    /\ tabs' = [tabs EXCEPT ![b] = Idle]
    /\ UNCHANGED <<rowVars, drawn, lost, faults>>

\* The reply is lost, or the tab is closed.
LoseReply(b) ==
    /\ tabs[b].pc \in {"accepted", "rejected", "failed"}
    /\ Fault
    /\ tabs' = [tabs EXCEPT ![b] = Idle]
    /\ lost' = lost \cup {t \in Tokens : UsesUp(b, t)}
    /\ UNCHANGED <<rowVars, drawn, cookie>>

-----------------------------------------------------------------------------
(* The API.                                                                 *)

NewToken == drawn + 1

\* newRefresh fails once MaxTokens are drawn or about to be.
Room == drawn + Cardinality({b \in Tabs : tabs[b].pc = "rotate"}) < MaxTokens

\* Insert the new token's row, in family f, and answer with the token.
Insert(b, f, pc) ==
    /\ Room
    /\ drawn' = NewToken
    /\ session' = [session EXCEPT ![NewToken] = "active"]
    /\ family' = [family EXCEPT ![NewToken] = f]
    /\ tabs' = [tabs EXCEPT ![b].pc = pc, ![b].new = NewToken]

\* The users row and the first session, in one transaction; the email is taken once.
Register(b) ==
    /\ At(b, "register", "serve")
    /\ \/ ~account /\ account' = TRUE /\ Insert(b, NewToken, "accepted") /\ UNCHANGED faults
       \/ account /\ Reject(b) /\ UNCHANGED <<account, session, family, drawn, faults>>
       \/ Fail(b) /\ UNCHANGED <<account, session, family, drawn>>
    /\ UNCHANGED <<lapsed, lock, cookie, lost>>

\* Credentials may be wrong; each login starts a family of its own.
Login(b) ==
    /\ At(b, "login", "serve")
    /\ \/ account /\ Insert(b, NewToken, "accepted")
       \/ Reject(b) /\ UNCHANGED <<session, family, drawn>>
    /\ UNCHANGED <<account, lapsed, lock, cookie, lost, faults>>

\* Mutant: the read takes no lock.
LockFreeAlways(t) == TRUE

\* SELECT ... FOR UPDATE, and every UPDATE, waits for the row's lock.
LockFree(t) == lock[t] = NoToken

\* RotateSession reads the presented row for update and checks it.
BeginRotation(b) ==
    /\ At(b, "refresh", "serve")
    /\ LockFree(tabs[b].sent)
    /\ \/ /\ Room /\ Usable(tabs[b].sent)
          /\ lock' = [lock EXCEPT ![tabs[b].sent] = b]
          /\ Goto(b, "rotate")
          /\ UNCHANGED faults
       \/ ~Usable(tabs[b].sent) /\ Reject(b) /\ UNCHANGED <<lock, faults>>
       \/ ~Room /\ Goto(b, "failed") /\ UNCHANGED <<lock, faults>>
       \/ Fail(b) /\ UNCHANGED lock
    /\ UNCHANGED <<account, session, family, lapsed, drawn, cookie, lost>>

\* Mutant: the presented session is left active.
RetiredKept(b, new) == new

\* The UPDATE of the presented row: rotated, and replaced by the new one.
Retired(b, new) == [new EXCEPT ![tabs[b].sent] = "rotated"]

\* The successor, of the same family, and the retired row commit together or not at all: the
\* transaction is rolled back if the UPDATE finds the row no longer active.
Rotate(b) ==
    /\ At(b, "refresh", "rotate")
    /\ \/ /\ session[tabs[b].sent] = "active"
          /\ drawn' = NewToken
          /\ session' = Retired(b, [session EXCEPT ![NewToken] = "active"])
          /\ family' = [family EXCEPT ![NewToken] = family[tabs[b].sent]]
          /\ tabs' = [tabs EXCEPT ![b].pc = "lookup", ![b].new = NewToken]
          /\ UNCHANGED faults
       \/ session[tabs[b].sent] # "active" /\ Reject(b) /\ UNCHANGED <<session, family, drawn, faults>>
       \/ Fail(b) /\ UNCHANGED <<session, family, drawn>>
    /\ lock' = [lock EXCEPT ![tabs[b].sent] = NoToken]
    /\ UNCHANGED <<account, lapsed, cookie, lost>>

\* Refresh reads the user after the rotation has committed: an error here loses the successor.
LookupUser(b) ==
    /\ At(b, "refresh", "lookup")
    /\ \/ Goto(b, "accepted") /\ UNCHANGED faults
       \/ Fail(b)
    /\ UNCHANGED <<rowVars, drawn, cookie, lost>>

\* Mutant: the UPDATE does not ask for status = 'active'.
RevocableAny(t) == session[t] # "none"

\* RevokeSession's WHERE.
Revocable(t) == session[t] = "active"

\* RevokeSession on the presented token; Logout answers 204 whatever becomes of it.
Logout(b) ==
    /\ At(b, "logout", "serve")
    /\ \/ /\ tabs[b].sent # NoToken /\ LockFree(tabs[b].sent)
          /\ session' = IF Revocable(tabs[b].sent)
                        THEN [session EXCEPT ![tabs[b].sent] = "revoked"] ELSE session
          /\ UNCHANGED faults
       \/ tabs[b].sent = NoToken /\ UNCHANGED <<session, faults>>
       \/ Fault /\ UNCHANGED session
    /\ Goto(b, "accepted")
    /\ UNCHANGED <<account, family, lapsed, lock, drawn, cookie, lost>>

Lapse(t) ==
    /\ session[t] = "active" /\ t \notin lapsed
    /\ lapsed' = lapsed \cup {t}
    /\ UNCHANGED <<account, session, family, lock, drawn, browserVars, faults>>

Next ==
    \/ \E b \in Tabs :
         \/ \E op \in {"register", "login", "refresh", "logout"} : Send(b, op)
         \/ Register(b) \/ Login(b) \/ BeginRotation(b) \/ Rotate(b) \/ LookupUser(b)
         \/ Logout(b) \/ Receive(b) \/ LoseReply(b)
    \/ \E t \in Tokens : Lapse(t)

Spec == Init /\ [][Next]_vars

-----------------------------------------------------------------------------
(* Properties.                                                              *)

Relatives(t) == {u \in Tokens : session[u] # "none" /\ family[u] = family[t]}

\* However many tabs present it at once, a token is exchanged for one successor: a family
\* never has two active sessions.
OneActivePerFamily ==
    \A t, u \in Tokens :
        session[t] = "active" /\ session[u] = "active" /\ family[t] = family[u] => t = u

\* Once a logout has revoked a session, no session of its family is active again, whatever
\* refreshes were under way (the token a logout finds active is the last of its family).
RevocationEndsFamily ==
    \A t \in Tokens :
        session[t] = "revoked" => \A u \in Relatives(t) : session[u] # "active"

\* A session that was rotated or revoked is no way to a new one: a step that adds a session to
\* a family takes its active session out of it (replay rejection).
SuccessorsReplace ==
    [][\A t \in Tokens :
        session[t] = "none" /\ session'[t] # "none" /\ family'[t] # t =>
            \E u \in Tokens : /\ family[u] = family'[t]
                              /\ session[u] = "active" /\ session'[u] = "rotated"]_vars

Good == {<<family[t], t>> : t \in {u \in Tokens : session[u] = "active"}}
Seen == {t \in Tokens : session[t] # "none"}
Families == INSTANCE TokenFamilies WITH good <- Good, seen <- Seen

\* The rows keep the promise of TokenFamilies.tla: every login is a chain with at most one good
\* token, a token that was exchanged or revoked is never good again, and no successor joins a
\* family that has ended, whichever tabs race (store/postgres/auth.go).
ImplementsTokenFamilies == Families!Spec

\* A logout that the database serves ends the login, unless the token it presents has been
\* exchanged and the browser does not know it yet: by a refresh whose reply is still under way
\* or was lost, or came after the logout was sent (auth.go:78 then finds nothing to revoke).
LogoutEndsLogin ==
    [][\A b \in Tabs : LET sent == tabs[b].sent IN
         /\ At(b, "logout", "serve") /\ tabs'[b].pc = "accepted" /\ sent # NoToken
         /\ faults' = faults
         => \/ \A t \in Relatives(sent) : session'[t] # "active"
            \/ /\ session[sent] = "rotated"
               /\ sent # cookie \/ sent \in lost \/ \E c \in Tabs : UsesUp(c, sent)]_vars

\* The browser's cookie is an active session, however the tabs' requests overlap and their
\* replies are reordered, but for the time a reply is under way of the request that used it up,
\* or when that reply was lost.  And a refusal, which clears the cookie whenever it arrives, is
\* never of the good token in the cookie: it logs the browser out of a login that goes on only
\* if another reply has replaced the cookie since (handlers/auth.go:100).
CookieIsCurrent ==
    /\ cookie # NoToken =>
         session[cookie] = "active" \/ cookie \in lost \/ \E b \in Tabs : UsesUp(b, cookie)
    /\ \A b \in Tabs :
         At(b, "refresh", "rejected") /\ tabs[b].sent = cookie => ~Usable(cookie)

=============================================================================
