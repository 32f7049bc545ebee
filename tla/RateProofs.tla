------------------------------ MODULE RateProofs ------------------------------
(***************************************************************************)
(* Proofs about RateLimiter, for every number of requests and keys, every  *)
(* limit and window, and every lag below the window.                       *)
(***************************************************************************)
EXTENDS RateLimiter, TLAPS

\* A waiting request's reading is at most MaxLag old.
LagInv == \A r \in Requests : reqs[r].pc = "waiting" =>
              reqs[r].now <= clock /\ clock <= reqs[r].now + MaxLag

SweepInv ==
    /\ lastSwept <= clock
    /\ \A k \in Keys : windows[k] # None => windows[k].resetAt > lastSwept

\* The admissions of a key are in the order of time.
Ordered(e) ==
    /\ \A i, j \in 1..Len(e) : i <= j => e[i].at <= e[j].at
    /\ \A i \in 1..Len(e) : e[i].at <= clock

\* Windows are opened at least Window - MaxLag apart ...
Apart(e) ==
    \A i, j \in 1..Len(e) : i < j /\ e[i].opens /\ e[j].opens =>
        e[j].at - e[i].at >= Window - MaxLag

\* ... and every admission is among the first Limit of its window.
Covered(e) == \A i \in 1..Len(e) : \E a \in 1..i : e[a].opens /\ i < a + Limit

\* The last w.count admissions of a key are those of its window w.
Current(e, w) ==
    /\ w.count <= Len(e)
    /\ LET a == Len(e) - w.count + 1
       IN  /\ e[a].opens
           /\ w.resetAt - Window <= e[a].at
           /\ e[a].at <= w.resetAt - Window + MaxLag
           /\ \A b \in a + 1..Len(e) : ~e[b].opens

\* Without a window, the next one may be opened at any time.
Expired(e) == \A b \in 1..Len(e) : e[b].opens => e[b].at + Window - MaxLag <= clock

KeyInv(e, w) ==
    /\ Ordered(e) /\ Apart(e) /\ Covered(e)
    /\ w # None => Current(e, w)
    /\ w = None => Expired(e)

LogInv == \A k \in Keys : KeyInv(log[k], windows[k])

IInv == TypeOK /\ LagInv /\ SweepInv /\ LogInv /\ RefusalIsEarned

-----------------------------------------------------------------------------
(* What a decision does.                                                    *)

\* Sweeping keeps the entries that are not over.
LEMMA SweptEntries ==
    ASSUME TypeOK, NEW now \in Times
    PROVE  /\ Swept(now) \in [Keys -> Entry \cup {None}]
           /\ \A k \in Keys : \/ Swept(now)[k] = windows[k]
                              \/ /\ Sweeps(now) /\ Swept(now)[k] = None
                                 /\ windows[k] # None /\ windows[k].resetAt <= now
           /\ Sweeps(now) => \A k \in Keys : Swept(now)[k] # None => Swept(now)[k].resetAt > now
<1> USE LimitAssumption, LagAssumption, TimeAssumption DEF TypeOK, Times, Entry
<1>1. CASE Sweeps(now)
  <2>1. \A k \in Keys : Swept(now)[k] = IF windows[k] # None /\ Over(windows[k], now)
                                        THEN None ELSE windows[k]
    BY <1>1 DEF Swept
  <2> QED BY <2>1, <1>1 DEF Swept, Over
<1>2. CASE ~Sweeps(now) BY <1>2 DEF Swept
<1> QED BY <1>1, <1>2

\* The three outcomes of a decision.
LEMMA Outcomes ==
    ASSUME NEW r \in Requests, Allow(r)
    PROVE  LET k == reqs[r].key
               now == reqs[r].now
               w == Swept(now)[k]
           IN  /\ reqs[r].pc = "waiting" /\ clock' = clock
               /\ lastSwept' = IF Sweeps(now) THEN now ELSE lastSwept
               /\ \/ /\ w = None \/ w.resetAt <= now
                     /\ windows' = [Swept(now) EXCEPT ![k] = [count |-> 1, resetAt |-> now + Window]]
                     /\ reqs' = [reqs EXCEPT ![r].pc = "served"]
                     /\ log' = [log EXCEPT ![k] = Append(log[k], [at |-> clock, opens |-> TRUE])]
                  \/ /\ w # None /\ ~(now >= w.resetAt) /\ w.count < Limit
                     /\ windows' = [Swept(now) EXCEPT ![k] = [w EXCEPT !.count = w.count + 1]]
                     /\ reqs' = [reqs EXCEPT ![r].pc = "served"]
                     /\ log' = [log EXCEPT ![k] = Append(log[k], [at |-> clock, opens |-> FALSE])]
                  \/ /\ w # None /\ ~(now >= w.resetAt) /\ ~(w.count < Limit)
                     /\ windows' = Swept(now)
                     /\ reqs' = [reqs EXCEPT ![r].pc = "refused"]
                     /\ log' = log
BY DEF Allow, Over, Room, Decide, Admitted

-----------------------------------------------------------------------------
(* The admissions of one key.                                               *)

Admission == [at : Times, opens : BOOLEAN]

\* What is appended is the last; the rest stays.
LEMMA Appended ==
    ASSUME NEW e \in Seq(Admission), NEW x \in Admission
    PROVE  LET f == Append(e, x)
           IN  /\ f \in Seq(Admission) /\ Len(f) = Len(e) + 1 /\ Len(e) \in Nat
               /\ f[Len(f)] = x
               /\ \A i \in 1..Len(e) : f[i] = e[i] /\ e[i] \in Admission
OBVIOUS

\* When an admission was is a number.
LEMMA AtIsInt ==
    ASSUME NEW e \in Seq(Admission), NEW i \in 1..Len(e)
    PROVE  e[i].at \in Int
<1>1. e[i] \in Admission OBVIOUS
<1>2. e[i].at \in Times BY <1>1 DEF Admission
<1> QED BY <1>2, LimitAssumption, TimeAssumption DEF Times

\* What came no later than an admission that is a window old is a window old.
LEMMA Later ==
    ASSUME NEW x \in Int, NEW y \in Int, NEW z \in Int, NEW c \in Int,
           x <= y, y <= z - Window + MaxLag, z <= c
    PROVE  x + Window - MaxLag <= c
BY LimitAssumption, LagAssumption

\* All openings before the end of the current window are old enough for another.
LEMMA Expires ==
    ASSUME NEW e \in Seq(Admission), NEW w \in Entry \cup {None}, clock \in Times, KeyInv(e, w),
           w # None => w.resetAt <= clock
    PROVE  Expired(e)
<1> USE LimitAssumption, LagAssumption, TimeAssumption DEF Times, Entry
<1>1. CASE w = None BY <1>1 DEF KeyInv
<1>2. CASE w # None
  <2> DEFINE a == Len(e) - w.count + 1
  <2>1. w.count \in 1..Limit /\ w.resetAt \in Int /\ Len(e) \in Nat BY <1>2
  <2>2. a \in 1..Len(e) /\ e[a].at <= w.resetAt - Window + MaxLag
        /\ \A b \in a + 1..Len(e) : ~e[b].opens
    BY <2>1, <1>2 DEF KeyInv, Current
  <2>3. ASSUME NEW b \in 1..Len(e), e[b].opens PROVE e[b].at + Window - MaxLag <= clock
    <3>1. b <= a
      <4>1. b \notin a + 1..Len(e) BY <2>2, <2>3
      <4>2. a \in Int /\ b \in Int /\ b <= Len(e) BY <2>1, <2>3
      <4> HIDE DEF a
      <4> QED BY <4>1, <4>2, <2>1
    <3>2. e[b].at <= e[a].at BY <3>1, <2>2 DEF KeyInv, Ordered
    <3>3. e[b].at \in Int /\ e[a].at \in Int BY <2>2, AtIsInt
    <3>4. e[a].at <= w.resetAt - Window + MaxLag /\ w.resetAt \in Int /\ w.resetAt <= clock
      BY <2>1, <2>2, <1>2
    <3>5. clock \in Int OBVIOUS
    <3> HIDE LimitAssumption, LagAssumption, TimeAssumption DEF a, Times, Entry
    <3> QED BY <3>2, <3>3, <3>4, <3>5, Later
  <2> QED BY <2>3 DEF Expired
<1> QED BY <1>1, <1>2

\* Another admission, now, keeps the order.
LEMMA OrderedAppend ==
    ASSUME NEW e \in Seq(Admission), clock \in Times, Ordered(e), NEW o \in BOOLEAN
    PROVE  Ordered(Append(e, [at |-> clock, opens |-> o]))
<1> DEFINE x == [at |-> clock, opens |-> o]  f == Append(e, x)
<1>1. x \in Admission BY DEF Admission
<1>2. /\ Len(f) = Len(e) + 1 /\ Len(e) \in Nat /\ f[Len(f)] = x
      /\ \A i \in 1..Len(e) : f[i] = e[i] /\ e[i] \in Admission
  BY <1>1, Appended
<1> HIDE DEF f
<1>3. ASSUME NEW i \in 1..Len(f) PROVE f[i].at <= clock /\ f[i].at \in Times
  <2>1. CASE i = Len(f)
    <3>1. f[i].at = clock BY <2>1, <1>2
    <3> QED BY <3>1, TimeAssumption, LimitAssumption DEF Times
  <2>2. CASE i \in 1..Len(e) BY <2>2, <1>2 DEF Ordered, Admission
  <2> QED BY <2>1, <2>2, <1>2
<1>4. ASSUME NEW i \in 1..Len(f), NEW j \in 1..Len(f), i <= j PROVE f[i].at <= f[j].at
  <2>1. CASE j = Len(f) BY <2>1, <1>2, <1>3
  <2>2. CASE j \in 1..Len(e)
    <3>1. i \in 1..Len(e) BY <2>2, <1>2, <1>4
    <3> QED BY <3>1, <2>2, <1>2, <1>4 DEF Ordered
  <2> QED BY <2>1, <2>2, <1>2
<1>5. Ordered(f) BY <1>3, <1>4 DEF Ordered
<1> QED BY <1>5 DEF f

\* A window that is opened when the last one has expired.
LEMMA OpenWindow ==
    ASSUME NEW e \in Seq(Admission), NEW w \in Entry \cup {None}, KeyInv(e, w), Expired(e),
           clock \in Times, NEW now \in Times, now <= clock, clock <= now + MaxLag
    PROVE  KeyInv(Append(e, [at |-> clock, opens |-> TRUE]), [count |-> 1, resetAt |-> now + Window])
<1> USE LimitAssumption, LagAssumption, TimeAssumption DEF Times
<1> DEFINE x == [at |-> clock, opens |-> TRUE]  f == Append(e, x)
           v == [count |-> 1, resetAt |-> now + Window]
<1>1. x \in Admission BY DEF Admission
<1>2. /\ Len(f) = Len(e) + 1 /\ Len(e) \in Nat /\ f[Len(f)] = x
      /\ \A i \in 1..Len(e) : f[i] = e[i] /\ e[i] \in Admission
  BY <1>1, Appended
<1>3. Ordered(f) BY OrderedAppend DEF KeyInv
<1> HIDE DEF f
<1>4. Apart(f)
  <2> SUFFICES ASSUME NEW i \in 1..Len(f), NEW j \in 1..Len(f), i < j, f[i].opens, f[j].opens
               PROVE  f[j].at - f[i].at >= Window - MaxLag
    BY DEF Apart
  <2>1. i \in 1..Len(e) /\ f[i] = e[i] /\ e[i] \in Admission BY <1>2
  <2>2. CASE j = Len(f) BY <2>1, <2>2, <1>2 DEF Expired, Admission
  <2>3. CASE j \in 1..Len(e) BY <2>1, <2>3, <1>2 DEF KeyInv, Apart
  <2> QED BY <2>2, <2>3, <1>2
<1>5. Covered(f)
  <2> SUFFICES ASSUME NEW i \in 1..Len(f) PROVE \E a \in 1..i : f[a].opens /\ i < a + Limit
    BY DEF Covered
  <2>1. CASE i = Len(f)
    <3>1. f[i].opens BY <2>1, <1>2
    <3>2. i \in 1..i /\ i < i + Limit BY <1>2
    <3> QED BY <3>1, <3>2
  <2>2. CASE i \in 1..Len(e)
    <3>1. PICK a \in 1..i : e[a].opens /\ i < a + Limit BY <2>2 DEF KeyInv, Covered
    <3> QED BY <3>1, <2>2, <1>2
  <2>3. i = Len(f) \/ i \in 1..Len(e) BY <1>2
  <2> QED BY <2>1, <2>2, <2>3
<1>6. Current(f, v)
  <2>1. Len(f) - v.count + 1 = Len(f) BY <1>2
  <2> QED BY <2>1, <1>2 DEF Current
<1>7. v # None BY NoneAssumption
<1> QED BY <1>3, <1>4, <1>5, <1>6, <1>7 DEF KeyInv, f

\* Another admission in a window that has room.
LEMMA CountInWindow ==
    ASSUME NEW e \in Seq(Admission), NEW w \in Entry, w # None, KeyInv(e, w), w.count < Limit,
           clock \in Times
    PROVE  KeyInv(Append(e, [at |-> clock, opens |-> FALSE]), [w EXCEPT !.count = w.count + 1])
<1> USE LimitAssumption, LagAssumption, TimeAssumption DEF Times, Entry
<1> DEFINE x == [at |-> clock, opens |-> FALSE]  f == Append(e, x)
           v == [w EXCEPT !.count = w.count + 1]
           a == Len(e) - w.count + 1
<1>1. x \in Admission BY DEF Admission
<1>2. /\ Len(f) = Len(e) + 1 /\ Len(e) \in Nat /\ f[Len(f)] = x
      /\ \A i \in 1..Len(e) : f[i] = e[i] /\ e[i] \in Admission
  BY <1>1, Appended
<1>3. Ordered(f) BY OrderedAppend DEF KeyInv
<1>4. /\ v.count = w.count + 1 /\ v.resetAt = w.resetAt /\ v \in [count : Nat, resetAt : Int]
      /\ w.count \in 1..Limit /\ w.resetAt \in Int
  OBVIOUS
<1>5. a \in 1..Len(e) /\ e[a].opens /\ w.resetAt - Window <= e[a].at
      /\ e[a].at <= w.resetAt - Window + MaxLag /\ \A b \in a + 1..Len(e) : ~e[b].opens
  <2>1. Current(e, w) BY DEF KeyInv
  <2>2. w.count <= Len(e) BY <2>1 DEF Current
  <2>3. w.count \in Nat /\ w.count >= 1 BY <1>4
  <2>4. a \in 1..Len(e)
    <3> HIDE LimitAssumption, LagAssumption, TimeAssumption DEF f, v, Times, Entry
    <3> QED BY <1>2, <2>2, <2>3
  <2> QED BY <2>1, <2>4 DEF Current
<1> HIDE DEF f, v
<1>6. Apart(f)
  <2> SUFFICES ASSUME NEW i \in 1..Len(f), NEW j \in 1..Len(f), i < j, f[i].opens, f[j].opens
               PROVE  f[j].at - f[i].at >= Window - MaxLag
    BY DEF Apart
  <2>1. j # Len(f) BY <1>2
  <2>2. i \in 1..Len(e) /\ j \in 1..Len(e) /\ f[i] = e[i] /\ f[j] = e[j] BY <2>1, <1>2
  <2> QED BY <2>2 DEF KeyInv, Apart
<1>7. Covered(f)
  <2> SUFFICES ASSUME NEW i \in 1..Len(f) PROVE \E b \in 1..i : f[b].opens /\ i < b + Limit
    BY DEF Covered
  <2>1. CASE i = Len(f)
    <3>1. f[a].opens BY <1>2, <1>5
    <3>2. w.count \in Nat /\ w.count < Limit /\ Limit \in Nat BY <1>4
    <3>3. a \in 1..i /\ i < a + Limit
      <4> HIDE LimitAssumption, LagAssumption, TimeAssumption DEF Times, Entry
      <4> QED BY <2>1, <1>2, <1>5, <3>2
    <3> QED BY <3>1, <3>3
  <2>2. CASE i \in 1..Len(e)
    <3>1. PICK b \in 1..i : e[b].opens /\ i < b + Limit BY <2>2 DEF KeyInv, Covered
    <3>2. b \in 1..Len(e) BY <2>2, <1>2
    <3>3. f[b].opens BY <3>1, <3>2, <1>2
    <3> QED BY <3>1, <3>3
  <2>3. i = Len(f) \/ i \in 1..Len(e) BY <1>2
  <2> QED BY <2>1, <2>2, <2>3
<1>8. Current(f, v)
  <2>1. Len(f) - v.count + 1 = a BY <1>2, <1>4
  <2>2. ASSUME NEW b \in a + 1..Len(f) PROVE ~f[b].opens
    <3>1. CASE b = Len(f) BY <3>1, <1>2
    <3>2. CASE b # Len(f)
      <4>0. a \in Nat /\ a >= 1 /\ Len(e) \in Nat /\ Len(f) = Len(e) + 1 BY <1>2, <1>5
      <4> HIDE DEF a
      <4>1. b \in 1..Len(e) /\ b \in a + 1..Len(e) BY <3>2, <4>0
      <4> QED BY <4>1, <1>2, <1>5
    <3> QED BY <3>1, <3>2
  <2>3. v.count <= Len(f) BY <1>2, <1>4, <1>5
  <2> QED BY <2>1, <2>2, <2>3, <1>2, <1>4, <1>5 DEF Current
<1>9. v # None BY <1>4, NoneAssumption
<1> QED BY <1>3, <1>6, <1>7, <1>8, <1>9 DEF KeyInv, f, v

\* An earned refusal stays earned.
LEMMA EarnedAppend ==
    ASSUME NEW e \in Seq(Admission), clock \in Times, Ordered(e), NEW o \in BOOLEAN, NEW t \in Int,
           Len(e) >= Limit, e[Len(e) - Limit + 1].at > t
    PROVE  LET f == Append(e, [at |-> clock, opens |-> o])
           IN  Len(f) >= Limit /\ f[Len(f) - Limit + 1].at > t
<1> USE LimitAssumption
<1> DEFINE x == [at |-> clock, opens |-> o]  f == Append(e, x)  i == Len(e) - Limit + 1
<1>1. x \in Admission BY DEF Admission
<1>2. /\ Len(f) = Len(e) + 1 /\ Len(e) \in Nat /\ f \in Seq(Admission)
      /\ \A j \in 1..Len(e) : f[j] = e[j]
  BY <1>1, Appended
<1>3. Ordered(f) BY OrderedAppend
<1> HIDE DEF f
<1>4. i \in 1..Len(e) /\ i + 1 \in 1..Len(f) /\ i \in 1..Len(f) /\ Len(f) - Limit + 1 = i + 1
  BY <1>2
<1> HIDE DEF i
<1>5. f[i].at <= f[i + 1].at BY <1>3, <1>4 DEF Ordered
<1>6. f[i].at = e[i].at /\ e[i].at > t BY <1>2, <1>4 DEF i
<1>7. f[i].at \in Int /\ f[i + 1].at \in Int BY <1>2, <1>4, AtIsInt
<1>8. f[i + 1].at > t BY <1>5, <1>6, <1>7
<1> QED BY <1>2, <1>4, <1>8 DEF f

-----------------------------------------------------------------------------
(* The invariant.                                                           *)

LEMMA InitIInv == Init => IInv
<1> USE LimitAssumption, LagAssumption, TimeAssumption
<1> SUFFICES ASSUME Init PROVE IInv OBVIOUS
<1>1. TypeOK BY DEF Init, TypeOK, Times
<1>2. LagInv /\ RefusalIsEarned BY DEF Init, LagInv, RefusalIsEarned, Idle
<1>3. SweepInv BY DEF Init, SweepInv
<1>4. ASSUME NEW k \in Keys PROVE KeyInv(log[k], windows[k])
  <2>1. log[k] = << >> /\ windows[k] = None BY DEF Init
  <2> QED BY <2>1 DEF KeyInv, Ordered, Apart, Covered, Expired
<1> QED BY <1>1, <1>2, <1>3, <1>4 DEF IInv, LogInv

\* As time passes, what is expired stays expired and what is past stays past.
LEMMA TickIInv == IInv /\ Tick => IInv'
<1> USE LimitAssumption, LagAssumption, TimeAssumption DEF IInv
<1> SUFFICES ASSUME IInv, Tick PROVE IInv' OBVIOUS
<1>0. /\ clock \in Nat /\ clock' = clock + 1 /\ clock' \in Times
      /\ UNCHANGED <<reqs, windows, lastSwept, log>>
  BY DEF TypeOK, Tick, Times
<1>1. TypeOK' BY <1>0 DEF TypeOK
<1>2. LagInv'
  <2> SUFFICES ASSUME NEW r \in Requests, reqs[r].pc = "waiting"
               PROVE  reqs[r].now <= clock + 1 /\ clock + 1 <= reqs[r].now + MaxLag
    BY <1>0 DEF LagInv
  <2>1. reqs[r] \in Request BY DEF TypeOK, Idle
  <2>2. reqs[r].now \in Int BY <2>1 DEF Request, Times
  <2>3. clock - reqs[r].now < MaxLag /\ reqs[r].now <= clock BY DEF Tick, LagInv
  <2> QED BY <1>0, <2>2, <2>3
<1>3. SweepInv' BY <1>0 DEF SweepInv, TypeOK
<1>4. RefusalIsEarned' BY <1>0 DEF RefusalIsEarned
<1>5. ASSUME NEW k \in Keys PROVE KeyInv(log[k], windows[k])'
  <2> DEFINE e == log[k]
  <2>1. e \in Seq(Admission) /\ KeyInv(e, windows[k]) BY DEF TypeOK, LogInv, Admission
  <2> HIDE DEF e
  <2>2. \A i \in 1..Len(e) : e[i].at \in Int BY <2>1, AtIsInt
  <2>3. Ordered(e)' BY <1>0, <2>1, <2>2 DEF KeyInv, Ordered, e
  <2>4. windows[k] = None => Expired(e)' BY <1>0, <2>1, <2>2 DEF KeyInv, Expired, e
  <2>5. Apart(e)' /\ Covered(e)' /\ (windows[k] # None => Current(e, windows[k])')
    BY <1>0, <2>1 DEF KeyInv, Apart, Covered, Current, e
  <2> QED BY <1>0, <2>3, <2>4, <2>5 DEF KeyInv, e
<1> QED BY <1>1, <1>2, <1>3, <1>4, <1>5 DEF LogInv

LEMMA ArriveIInv == ASSUME IInv, NEW r \in Requests, NEW k \in Keys, Arrive(r, k) PROVE IInv'
<1> USE LimitAssumption, LagAssumption, TimeAssumption DEF IInv
<1>0. /\ UNCHANGED <<clock, windows, lastSwept, log>>
      /\ reqs' = [reqs EXCEPT ![r] = [pc |-> "waiting", key |-> k, now |-> clock]]
  BY DEF Arrive
<1>1. TypeOK' BY <1>0 DEF TypeOK, Request
<1>2. clock \in Int BY DEF TypeOK, Times
<1>3. LagInv' BY <1>0, <1>2 DEF LagInv, TypeOK
<1>4. SweepInv' BY <1>0 DEF SweepInv
<1>5. RefusalIsEarned' BY <1>0 DEF RefusalIsEarned, TypeOK
<1>6. LogInv' BY <1>0 DEF LogInv, KeyInv, Ordered, Apart, Covered, Current, Expired
<1> QED BY <1>1, <1>3, <1>4, <1>5, <1>6

LEMMA AllowIInv == ASSUME IInv, NEW r \in Requests, Allow(r) PROVE IInv'
<1> USE LimitAssumption, LagAssumption, TimeAssumption DEF IInv
<1> DEFINE k == reqs[r].key  now == reqs[r].now  w == Swept(now)[k]
           opened  == Append(log[k], [at |-> clock, opens |-> TRUE])
           counted == Append(log[k], [at |-> clock, opens |-> FALSE])
           fresh   == [count |-> 1, resetAt |-> now + Window]
           bumped  == [w EXCEPT !.count = w.count + 1]
           Opening  == /\ w = None \/ w.resetAt <= now
                       /\ windows' = [Swept(now) EXCEPT ![k] = fresh]
                       /\ reqs' = [reqs EXCEPT ![r].pc = "served"]
                       /\ log' = [log EXCEPT ![k] = opened]
           Counting == /\ w # None /\ ~(now >= w.resetAt) /\ w.count < Limit
                       /\ windows' = [Swept(now) EXCEPT ![k] = bumped]
                       /\ reqs' = [reqs EXCEPT ![r].pc = "served"]
                       /\ log' = [log EXCEPT ![k] = counted]
           Refusing == /\ w # None /\ ~(now >= w.resetAt) /\ ~(w.count < Limit)
                       /\ windows' = Swept(now)
                       /\ reqs' = [reqs EXCEPT ![r].pc = "refused"]
                       /\ log' = log
<1>1. /\ reqs[r].pc = "waiting" /\ clock' = clock
      /\ lastSwept' = IF Sweeps(now) THEN now ELSE lastSwept
      /\ Opening \/ Counting \/ Refusing
  BY Outcomes
<1> HIDE DEF Opening, Counting, Refusing
<1>2. /\ reqs[r] \in Request /\ k \in Keys /\ now \in Times /\ now <= clock /\ clock <= now + MaxLag
      /\ clock \in Times /\ now \in Nat /\ clock \in Nat
  <2>1. reqs[r] \in Request BY <1>1 DEF TypeOK, Idle
  <2>2. k \in Keys /\ now \in Times BY <2>1 DEF Request
  <2>3. now <= clock /\ clock <= now + MaxLag BY <1>1 DEF LagInv
  <2>4. clock \in Times BY DEF TypeOK
  <2> QED BY <2>1, <2>2, <2>3, <2>4 DEF Times
<1>3. /\ Swept(now) \in [Keys -> Entry \cup {None}]
      /\ \A j \in Keys : \/ Swept(now)[j] = windows[j]
                         \/ /\ Sweeps(now) /\ Swept(now)[j] = None
                            /\ windows[j] # None /\ windows[j].resetAt <= now
      /\ Sweeps(now) => \A j \in Keys : Swept(now)[j] # None => Swept(now)[j].resetAt > now
  BY <1>2, SweptEntries
\* After the sweep, every key is as the invariant wants it.
<1>4. ASSUME NEW j \in Keys PROVE log[j] \in Seq(Admission) /\ KeyInv(log[j], Swept(now)[j])
  <2>1. log[j] \in Seq(Admission) /\ KeyInv(log[j], windows[j]) /\ windows[j] \in Entry \cup {None}
    BY DEF TypeOK, LogInv, Admission
  <2>2. CASE Swept(now)[j] = windows[j] BY <2>1, <2>2
  <2>3. CASE Swept(now)[j] = None /\ windows[j] # None /\ windows[j].resetAt <= now
    <3>1. windows[j].resetAt \in Int BY <2>1, <2>3 DEF Entry
    <3>2. windows[j].resetAt <= clock BY <3>1, <2>3, <1>2
    <3>3. Expired(log[j]) BY <3>2, <2>1, <1>2, Expires
    <3> QED BY <3>3, <2>1, <2>3 DEF KeyInv
  <2> QED BY <2>2, <2>3, <1>3
<1>5. w \in Entry \cup {None} BY <1>2, <1>3
<1>6. lastSwept' \in 0..MaxTime /\ lastSwept' <= clock
  BY <1>1, <1>2 DEF TypeOK, SweepInv, Times
<1>7. \A j \in Keys : Swept(now)[j] # None => Swept(now)[j].resetAt > lastSwept'
  BY <1>1, <1>3 DEF SweepInv
<1>8. Admission = [at : Times, opens : BOOLEAN] BY DEF Admission
<1>9. /\ reqs' \in [Requests -> Request \cup {Idle}]
      /\ LagInv' 
  <2>1. \E p \in {"served", "refused"} : reqs' = [reqs EXCEPT ![r].pc = p]
    BY <1>1 DEF Opening, Counting, Refusing
  <2>2. PICK p \in {"served", "refused"} : reqs' = [reqs EXCEPT ![r].pc = p] BY <2>1
  <2>3. [reqs[r] EXCEPT !.pc = p] \in Request BY <1>2 DEF Request
  <2>4. reqs \in [Requests -> Request \cup {Idle}] BY DEF TypeOK
  <2>5. reqs' \in [Requests -> Request \cup {Idle}] BY <2>2, <2>3, <2>4
  <2>6. \A s \in Requests : reqs'[s].pc = "waiting" => reqs'[s] = reqs[s]
    <3>1. reqs'[r].pc = p BY <2>2, <2>4, <1>2 DEF Request
    <3> QED BY <3>1, <2>2, <2>4
  <2>7. LagInv' BY <2>6, <1>1 DEF LagInv
  <2> QED BY <2>5, <2>7
<1> HIDE DEF w, opened, counted, fresh, bumped, k, now
\* A refusal that was earned stays so, whether its key has another admission or not.
<1>10. ASSUME NEW o \in BOOLEAN,
              log'[k] = Append(log[k], [at |-> clock, opens |-> o]),
              \A j \in Keys \ {k} : log'[j] = log[j],
              \A s \in Requests : reqs'[s].pc = "refused" => s # r /\ reqs'[s] = reqs[s]
       PROVE  RefusalIsEarned'
  <2> SUFFICES ASSUME NEW s \in Requests, reqs'[s].pc = "refused"
               PROVE  LET past == log'[reqs'[s].key]
                      IN  Len(past) >= Limit /\ past[Len(past) - Limit + 1].at > reqs'[s].now - Window
    BY DEF RefusalIsEarned
  <2>1. reqs'[s] = reqs[s] /\ reqs[s].pc = "refused" BY <1>10
  <2>2. reqs[s] \in Request BY <2>1 DEF TypeOK, Idle
  <2>3. reqs[s].key \in Keys /\ reqs[s].now - Window \in Int BY <2>2 DEF Request, Times
  <2>4. /\ Len(log[reqs[s].key]) >= Limit
        /\ log[reqs[s].key][Len(log[reqs[s].key]) - Limit + 1].at > reqs[s].now - Window
    BY <2>1 DEF RefusalIsEarned
  <2>5. CASE reqs[s].key # k BY <2>1, <2>3, <2>4, <2>5, <1>10
  <2>6. CASE reqs[s].key = k
    <3>1. log[k] \in Seq(Admission) /\ Ordered(log[k]) BY <1>2, <1>4 DEF KeyInv
    <3>2. Len(log[k]) >= Limit /\ log[k][Len(log[k]) - Limit + 1].at > reqs[s].now - Window
      BY <2>4, <2>6
    <3>3. Len(log'[k]) >= Limit /\ log'[k][Len(log'[k]) - Limit + 1].at > reqs[s].now - Window
      <4> DEFINE e == log[k]  t == reqs[s].now - Window
      <4>1. e \in Seq(Admission) /\ Ordered(e) /\ t \in Int /\ clock \in Times
            /\ Len(e) >= Limit /\ e[Len(e) - Limit + 1].at > t
        BY <3>1, <3>2, <2>3, <1>2
      <4>2. log'[k] = Append(e, [at |-> clock, opens |-> o]) BY <1>10
      <4> HIDE DEF e, t
      <4>3. Len(log'[k]) >= Limit /\ log'[k][Len(log'[k]) - Limit + 1].at > t
        BY <4>1, <4>2, EarnedAppend
      <4> QED BY <4>3 DEF t
    <3> QED BY <3>3, <2>1, <2>6
  <2> QED BY <2>5, <2>6
<1>11. CASE Opening
  <2> USE DEF Opening
  <2>1. Expired(log[k])
    <3>1. w # None => w.resetAt <= clock
      BY <1>11, <1>2, <1>5 DEF Entry
    <3> QED BY <3>1, <1>2, <1>4, <1>5, Expires DEF w
  <2>2. KeyInv(opened, fresh)
    BY <2>1, <1>2, <1>4, <1>5, OpenWindow DEF w, opened, fresh
  <2>3. opened \in Seq(Admission)
    <3>1. [at |-> clock, opens |-> TRUE] \in Admission BY <1>2 DEF Admission
    <3> QED BY <3>1, <1>2, <1>4, Appended DEF opened
  <2>4. fresh \in Entry /\ fresh.resetAt = now + Window BY <1>2 DEF fresh, Entry
  <2>5. log' \in [Keys -> Seq(Admission)] BY <1>11, <2>3 DEF TypeOK, Admission
  <2>6. windows' \in [Keys -> Entry \cup {None}] BY <1>11, <1>3, <2>4
  <2>7. /\ log'[k] = opened /\ windows'[k] = fresh
        /\ \A j \in Keys \ {k} : log'[j] = log[j] /\ windows'[j] = Swept(now)[j]
    BY <1>11, <1>3, <1>2 DEF TypeOK
  <2>8. LogInv'
    <3>1. \A j \in Keys : KeyInv(log'[j], windows'[j]) BY <2>2, <2>7, <1>4
    <3> QED BY <3>1, <1>1 DEF LogInv, KeyInv, Ordered, Apart, Covered, Current, Expired
  <2>9. SweepInv'
    <3>1. fresh.resetAt > lastSwept' BY <2>4, <1>2, <1>6
    <3> QED BY <3>1, <2>7, <1>6, <1>7, <1>1 DEF SweepInv
  <2>10. TypeOK' BY <2>5, <2>6, <1>1, <1>2, <1>6, <1>8, <1>9 DEF TypeOK
  <2>11. RefusalIsEarned'
    <3>1. \A s \in Requests : reqs'[s].pc = "refused" => s # r /\ reqs'[s] = reqs[s]
      BY <1>11, <1>2 DEF TypeOK
    <3> QED BY <3>1, <2>7, <1>10 DEF opened
  <2> QED BY <2>8, <2>9, <2>10, <2>11, <1>9
<1>12. CASE Counting
  <2> USE DEF Counting
  <2>1. w \in Entry /\ w # None /\ w.count < Limit BY <1>5, <1>12
  <2>2. KeyInv(counted, bumped)
    BY <2>1, <1>2, <1>4, CountInWindow DEF w, counted, bumped
  <2>3. counted \in Seq(Admission)
    <3>1. [at |-> clock, opens |-> FALSE] \in Admission BY <1>2 DEF Admission
    <3> QED BY <3>1, <1>2, <1>4, Appended DEF counted
  <2>4. bumped \in Entry /\ bumped.resetAt = w.resetAt BY <2>1 DEF bumped, Entry
  <2>5. log' \in [Keys -> Seq(Admission)] BY <1>12, <2>3 DEF TypeOK, Admission
  <2>6. windows' \in [Keys -> Entry \cup {None}] BY <1>12, <1>3, <2>4
  <2>7. /\ log'[k] = counted /\ windows'[k] = bumped
        /\ \A j \in Keys \ {k} : log'[j] = log[j] /\ windows'[j] = Swept(now)[j]
    BY <1>12, <1>3, <1>2 DEF TypeOK
  <2>8. LogInv'
    <3>1. \A j \in Keys : KeyInv(log'[j], windows'[j]) BY <2>2, <2>7, <1>4
    <3> QED BY <3>1, <1>1 DEF LogInv, KeyInv, Ordered, Apart, Covered, Current, Expired
  <2>9. SweepInv'
    <3>1. bumped.resetAt > lastSwept' BY <2>1, <2>4, <1>2, <1>7 DEF w
    <3> QED BY <3>1, <2>7, <1>6, <1>7, <1>1 DEF SweepInv
  <2>10. TypeOK' BY <2>5, <2>6, <1>1, <1>2, <1>6, <1>8, <1>9 DEF TypeOK
  <2>11. RefusalIsEarned'
    <3>1. \A s \in Requests : reqs'[s].pc = "refused" => s # r /\ reqs'[s] = reqs[s]
      BY <1>12, <1>2 DEF TypeOK
    <3> QED BY <3>1, <2>7, <1>10 DEF counted
  <2> QED BY <2>8, <2>9, <2>10, <2>11, <1>9
<1>13. CASE Refusing
  <2> USE DEF Refusing
  <2>1. /\ w \in Entry /\ w.count = Limit /\ w.resetAt \in Int /\ w.resetAt > now
    BY <1>2, <1>5, <1>13 DEF Entry
  <2>2. LogInv'
    <3>1. \A j \in Keys : KeyInv(log'[j], windows'[j]) BY <1>13, <1>4
    <3> HIDE DEF Refusing
    <3> QED BY <3>1, <1>1 DEF LogInv, KeyInv, Ordered, Apart, Covered, Current, Expired
  <2>3. SweepInv' BY <1>13, <1>1, <1>6, <1>7 DEF SweepInv
  <2>4. TypeOK' BY <1>13, <1>1, <1>3, <1>6, <1>9 DEF TypeOK
  <2>5. RefusalIsEarned'
    <3> SUFFICES ASSUME NEW s \in Requests, reqs'[s].pc = "refused"
                 PROVE  LET past == log[reqs'[s].key]
                        IN  /\ Len(past) >= Limit
                            /\ past[Len(past) - Limit + 1].at > reqs'[s].now - Window
      BY <1>13 DEF RefusalIsEarned
    <3>1. CASE s # r BY <3>1, <1>13 DEF RefusalIsEarned, TypeOK
    <3>2. CASE s = r
      <4>1. reqs'[s].key = k /\ reqs'[s].now = now
        BY <3>2, <1>13, <1>2 DEF TypeOK, Request, k, now
      <4>2. Current(log[k], w) BY <1>2, <1>4, <1>13 DEF KeyInv, w
      <4>3. /\ Len(log[k]) \in Nat /\ Limit <= Len(log[k])
            /\ w.resetAt - Window <= log[k][Len(log[k]) - Limit + 1].at
        BY <4>2, <2>1, <1>2, <1>4 DEF Current
      <4>4. log[k][Len(log[k]) - Limit + 1].at \in Int
        <5>1. Len(log[k]) - Limit + 1 \in 1..Len(log[k]) BY <4>3
        <5> QED BY <5>1, <1>2, <1>4, AtIsInt
      <4>5. log[k][Len(log[k]) - Limit + 1].at > now - Window BY <4>3, <4>4, <2>1, <1>2
      <4> QED BY <4>1, <4>3, <4>5
    <3> QED BY <3>1, <3>2
  <2> HIDE DEF Refusing
  <2> QED BY <2>2, <2>3, <2>4, <2>5, <1>9
<1> QED BY <1>1, <1>11, <1>12, <1>13

LEMMA NextIInv == IInv /\ [Next]_vars => IInv'
<1> SUFFICES ASSUME IInv, [Next]_vars PROVE IInv' OBVIOUS
<1>1. CASE Tick BY <1>1, TickIInv
<1>2. ASSUME NEW r \in Requests, NEW k \in Keys, Arrive(r, k) PROVE IInv' BY <1>2, ArriveIInv
<1>3. ASSUME NEW r \in Requests, Allow(r) PROVE IInv' BY <1>3, AllowIInv
<1>4. CASE UNCHANGED vars
  <2>1. UNCHANGED <<clock, reqs, windows, lastSwept, log>> BY <1>4 DEF vars
  <2>2. TypeOK' /\ LagInv' /\ SweepInv' BY <2>1 DEF IInv, TypeOK, LagInv, SweepInv
  <2>3. LogInv' BY <2>1 DEF IInv, LogInv, KeyInv, Ordered, Apart, Covered, Current, Expired
  <2>4. RefusalIsEarned' BY <2>1 DEF IInv, RefusalIsEarned
  <2> QED BY <2>2, <2>3, <2>4 DEF IInv
<1> QED BY <1>1, <1>2, <1>3, <1>4 DEF Next

\* The invariant is inductive.
THEOREM Inductive == Spec => []IInv
<1> QED BY InitIInv, NextIInv, PTL DEF Spec

\* The limiter's state has its type: in particular no window counts more than Limit requests.
THEOREM TypeCorrect == Spec => []TypeOK
<1>1. IInv => TypeOK BY DEF IInv
<1> QED BY <1>1, Inductive, PTL

\* Two admissions 2 * Limit apart belong to windows of which the second and third were opened
\* between them.
LEMMA TwoWindows == ASSUME IInv PROVE BurstBounded
<1> USE LimitAssumption, LagAssumption
<1> SUFFICES ASSUME NEW k \in Keys, NEW i \in 1..Len(log[k]), NEW j \in 1..Len(log[k]), j = i + 2 * Limit
             PROVE  log[k][j].at - log[k][i].at >= Window - MaxLag
  BY DEF BurstBounded
<1> DEFINE e == log[k]
<1>1. e \in Seq(Admission) /\ Ordered(e) /\ Apart(e) /\ Covered(e)
  BY DEF IInv, TypeOK, LogInv, KeyInv, Admission
<1>2. Len(e) \in Nat /\ i \in Int BY <1>1
<1> HIDE DEF e
<1>3. i \in 1..Len(e) /\ j \in 1..Len(e) BY DEF e
<1>4. i + Limit \in 1..Len(e) BY <1>2, <1>3
<1>5. PICK b \in 1..i + Limit : e[b].opens /\ i + Limit < b + Limit BY <1>4 DEF Covered, e, IInv, LogInv, KeyInv
<1>6. PICK c \in 1..j : e[c].opens /\ j < c + Limit BY <1>1, <1>3 DEF Covered
<1>7. i < b /\ b < c /\ c <= j /\ b \in 1..Len(e) /\ c \in 1..Len(e) BY <1>2, <1>3, <1>5, <1>6
<1>8. e[c].at - e[b].at >= Window - MaxLag BY <1>1, <1>5, <1>6, <1>7 DEF Apart
<1>9. e[i].at <= e[b].at /\ e[c].at <= e[j].at BY <1>1, <1>3, <1>7 DEF Ordered
<1>10. e[i].at \in Int /\ e[b].at \in Int /\ e[c].at \in Int /\ e[j].at \in Int
  BY <1>1, <1>3, <1>7, AtIsInt
<1>11. \A p, q, s, t, d \in Int : p <= q /\ s <= t /\ s - q >= d => t - p >= d OBVIOUS
<1>12. Window - MaxLag \in Int OBVIOUS
<1>13. e[j].at - e[i].at >= Window - MaxLag BY <1>8, <1>9, <1>10, <1>11, <1>12
<1> QED BY <1>13 DEF e

\* However the mutex orders the requests, a burst is at most twice the limit (Allow).
THEOREM Bursts == Spec => []BurstBounded
<1> QED BY Inductive, TwoWindows, PTL

\* Whoever is refused has used the budget (Allow).
THEOREM Refusals == Spec => []RefusalIsEarned
<1>1. IInv => RefusalIsEarned BY DEF IInv
<1> QED BY <1>1, Inductive, PTL

\* A decision leaves only windows that end after lastSwept, less than a window ago.
LEMMA DecisionPrunes ==
    ASSUME IInv, IInv', NEW r \in Requests, Allow(r), NEW k \in Keys, windows'[k] # None
    PROVE  windows'[k].resetAt > reqs[r].now - Window
<1> USE LimitAssumption, LagAssumption, TimeAssumption DEF IInv
<1>1. windows'[k].resetAt > lastSwept' BY DEF SweepInv
<1>2. windows'[k].resetAt \in Int /\ lastSwept' \in Int /\ lastSwept \in Int
  BY DEF TypeOK, Entry
<1>3. reqs[r].pc = "waiting" /\ lastSwept' = IF Sweeps(reqs[r].now) THEN reqs[r].now ELSE lastSwept
  BY Outcomes
<1>4. reqs[r].now \in Int
  <2>1. reqs[r] \in Request BY <1>3 DEF TypeOK, Idle
  <2> QED BY <2>1 DEF Request, Times
<1> QED BY <1>1, <1>2, <1>3, <1>4 DEF Sweeps

\* The map never holds a window that ended a window ago (sweep).
THEOREM MapPruned == Spec => MapIsPruned
<1> DEFINE Prunes == \A r \in Requests : reqs[r].pc = "waiting" /\ reqs'[r].pc # "waiting" =>
                      \A k \in Keys : windows'[k] # None => windows'[k].resetAt > reqs[r].now - Window
<1>1. IInv /\ IInv' /\ [Next]_vars => [Prunes]_vars
  <2> SUFFICES ASSUME IInv, IInv', Next, NEW r \in Requests,
                      reqs[r].pc = "waiting", reqs'[r].pc # "waiting", NEW k \in Keys, windows'[k] # None
               PROVE  windows'[k].resetAt > reqs[r].now - Window
    OBVIOUS
  <2>0. reqs \in [Requests -> Request \cup {Idle}] BY DEF IInv, TypeOK
  <2>1. ASSUME Tick PROVE FALSE BY <2>1 DEF Tick
  <2>2. ASSUME NEW s \in Requests, NEW j \in Keys, Arrive(s, j) PROVE FALSE
    BY <2>0, <2>2 DEF Arrive
  <2>3. ASSUME NEW s \in Requests, Allow(s) PROVE s = r
    BY <2>0, <2>3, Outcomes
  <2>4. Allow(r) BY <2>1, <2>2, <2>3 DEF Next
  <2> QED BY <2>4, DecisionPrunes
<1> QED BY <1>1, Inductive, PTL DEF Spec, MapIsPruned

=============================================================================
