------------------------------ MODULE RateLimiter ------------------------------
(***************************************************************************)
(* The fixed-window rate limiter (apps/api/internal/ratelimit) as the      *)
(* registration, login and refresh routes, the selfie search and the       *)
(* download handler use it.  Requests run at once; each reads the clock,   *)
(* then waits for the mutex, so the decisions are not made in the order of *)
(* the readings and a window may be opened or swept with an old reading.   *)
(*                                                                         *)
(* A key stands for a client address, or a public token with one.  A       *)
(* limiter that is switched off (limit or window not positive) admits      *)
(* everything and has no state; it is left out.                            *)
(***************************************************************************)
EXTENDS Integers, Sequences

CONSTANTS
    Requests,  \* requests served at once
    Keys,      \* the callers' buckets
    Limit,     \* requests per window
    Window,    \* length of a window
    MaxLag,    \* longest wait between the reading of the clock and the decision
    MaxTime,   \* bound on the clock
    None       \* no window

ASSUME LimitAssumption == Limit \in Nat \ {0} /\ Window \in Nat \ {0}
ASSUME LagAssumption == MaxLag \in Nat /\ MaxLag < Window
ASSUME TimeAssumption == MaxTime \in Nat /\ MaxTime > Window
ASSUME NoneAssumption == None \notin [count : Nat, resetAt : Int]

VARIABLES
    clock,      \* time.Now()
    reqs,       \* what each request is doing
    windows,    \* Limiter.windows per key, None if the map has no entry
    lastSwept,  \* Limiter.lastSwept
    log         \* history: the admissions of each key, when, and whether one opened a window

vars == <<clock, reqs, windows, lastSwept, log>>

Times == Window..MaxTime
Idle == [pc |-> "idle", key |-> None, now |-> 0]
Request == [pc : {"waiting", "served", "refused"}, key : Keys, now : Times]
Entry == [count : 1..Limit, resetAt : Int]

TypeOK ==
    /\ clock \in Times
    /\ reqs \in [Requests -> Request \cup {Idle}]
    /\ windows \in [Keys -> Entry \cup {None}]
    /\ lastSwept \in 0..MaxTime
    /\ log \in [Keys -> Seq([at : Times, opens : BOOLEAN])]

\* lastSwept is the zero time, a window or more in the past.
Init ==
    /\ clock = Window
    /\ reqs = [r \in Requests |-> Idle]
    /\ windows = [k \in Keys |-> None]
    /\ lastSwept = 0
    /\ log = [k \in Keys |-> << >>]

\* Time passes, but no request waits for the mutex for longer than MaxLag.
Tick ==
    /\ clock < MaxTime
    /\ \A r \in Requests : reqs[r].pc = "waiting" => clock - reqs[r].now < MaxLag
    /\ clock' = clock + 1
    /\ UNCHANGED <<reqs, windows, lastSwept, log>>

\* A request derives its key and reads the clock; an answered one makes room for the next.
Arrive(r, k) ==
    /\ reqs[r].pc # "waiting"
    /\ reqs' = [reqs EXCEPT ![r] = [pc |-> "waiting", key |-> k, now |-> clock]]
    /\ UNCHANGED <<clock, windows, lastSwept, log>>

\* Mutant: a window still counts at the moment it ends.
OverLate(w, now) == now > w.resetAt

\* !now.Before(resetAt)
Over(w, now) == now >= w.resetAt

\* At most one sweep per window.
Sweeps(now) == now - lastSwept >= Window

\* Mutant: nothing is ever removed.
SweptNothing(now) == windows

\* The map as sweep leaves it.
Swept(now) ==
    IF Sweeps(now)
    THEN [k \in Keys |-> IF windows[k] # None /\ Over(windows[k], now) THEN None ELSE windows[k]]
    ELSE windows

\* Mutant: one request more than the limit.
RoomForOneMore(w) == w.count <= Limit

\* current.count < l.limit
Room(w) == w.count < Limit

Decide(r, pc) == reqs' = [reqs EXCEPT ![r].pc = pc]
Admitted(k, opens) == log' = [log EXCEPT ![k] = Append(@, [at |-> clock, opens |-> opens])]

\* Under the mutex: sweep, then open a window, count in it, or refuse.
Allow(r) ==
    LET k == reqs[r].key
        now == reqs[r].now
        w == Swept(now)[k]
        Fresh == w # None => Over(w, now)
    IN
    /\ reqs[r].pc = "waiting"
    /\ lastSwept' = IF Sweeps(now) THEN now ELSE lastSwept
    /\ \/ /\ Fresh
          /\ windows' = [Swept(now) EXCEPT ![k] = [count |-> 1, resetAt |-> now + Window]]
          /\ Decide(r, "served") /\ Admitted(k, TRUE)
       \/ /\ ~Fresh /\ Room(w)
          /\ windows' = [Swept(now) EXCEPT ![k] = [w EXCEPT !.count = @ + 1]]
          /\ Decide(r, "served") /\ Admitted(k, FALSE)
       \/ /\ ~Fresh /\ ~Room(w)
          /\ windows' = Swept(now)
          /\ Decide(r, "refused") /\ UNCHANGED log
    /\ UNCHANGED clock

Next == Tick \/ \E r \in Requests : (\E k \in Keys : Arrive(r, k)) \/ Allow(r)

Spec == Init /\ [][Next]_vars

-----------------------------------------------------------------------------
(* Properties.                                                              *)

\* Whatever the order in which waiting requests get the mutex, a key is admitted at most
\* twice its limit in any Window - MaxLag of real time: the two windows an interval that
\* long can touch.
BurstBounded ==
    \A k \in Keys : \A i, j \in 1..Len(log[k]) :
        j = i + 2 * Limit => log[k][j].at - log[k][i].at >= Window - MaxLag

\* Nobody is refused without having used the budget: the key has had Limit admissions less
\* than a window before the refused request read the clock, or since.
RefusalIsEarned ==
    \A r \in Requests : reqs[r].pc = "refused" =>
        LET past == log[reqs[r].key]
        IN  Len(past) >= Limit /\ past[Len(past) - Limit + 1].at > reqs[r].now - Window

\* No window outlives its end by another window in a limiter that is used: the map holds the
\* keys of about two windows ("prunes expired windows lazily to bound memory", ratelimit.go:20).
MapIsPruned ==
    [][\A r \in Requests : reqs[r].pc = "waiting" /\ reqs'[r].pc # "waiting" =>
        \A k \in Keys : windows'[k] # None => windows'[k].resetAt > reqs[r].now - Window]_vars

=============================================================================
