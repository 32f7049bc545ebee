----------------------------- MODULE FaceAIProofs -----------------------------
(***************************************************************************)
(* Proofs about FaceAIRuntime, for any number of callers and any settings. *)
(***************************************************************************)
EXTENDS FaceAIRuntime, TLAPS

Inside == {"enter", "prepare", "settle", "status", "body"}
Fixed  == {"disabled", "not_configured", "unsupported_provider"}

\* A cold process: nothing is made, nothing entered.
Cold ==
    cached = None =>
        \A c \in Callers : /\ runtime[c] = New(settings) /\ prepared[c] = 0
                           /\ calls[c].pc \notin Inside

\* What the fields of a runtime say of one another.
Coherent(rt, n) ==
    /\ n = IF rt.initialized THEN 1 ELSE 0
    /\ rt.pipeline => rt.initialized
    /\ rt.state = "ready" => rt.pipeline
    /\ rt.state \in Fixed => ~rt.initialized

\* Where a call is and which runtime it has.
Placed(c) ==
    /\ calls[c].pc \in Inside => calls[c].of \in Callers
    /\ calls[c].pc = "build" => /\ runtime[c] = New(settings) /\ prepared[c] = 0 /\ cached # c
                                /\ \A d \in Callers : calls[d].pc \in Inside => calls[d].of # c
    /\ calls[c].pc = "prepare" => runtime[calls[c].of].initialized /\ runtime[calls[c].of].state # "ready"
                                  /\ ~runtime[calls[c].of].pipeline
    /\ calls[c].pc = "settle" => runtime[calls[c].of].pipeline
    /\ calls[c].pc = "status" => calls[c].kind = "probe"
    /\ calls[c].pc = "body" => calls[c].kind # "probe"

\* Nobody prepares a runtime another is preparing.
Alone == \A c, d \in Callers :
    calls[c].pc \in {"prepare", "settle"} /\ calls[d].pc \in {"prepare", "settle"}
        /\ calls[c].of = calls[d].of => c = d

\* What a promise rests on: the cached runtime, or a stray.
Promise == cached # None /\ ModelsReady /\ (runtime[cached].state = "ready" \/ Strays # {})

\* The promise, and what it means for the calls it was made to.
Kept ==
    /\ promised => Promise
    /\ \A c \in Callers : calls[c].late =>
         /\ promised /\ calls[c].pc # "build"
         /\ calls[c].pc \in Inside => calls[c].of = cached
         /\ Strays = {} => calls[c].pc \notin {"prepare", "settle"} /\ (calls[c].pc = "body" => calls[c].pipe)

IInv ==
    /\ TypeOK /\ Cold /\ Alone /\ Kept /\ ReadinessIsKept
    /\ \A c \in Callers : Coherent(runtime[c], prepared[c]) /\ Placed(c)

-----------------------------------------------------------------------------

LEMMA NewCoherent ==
    ASSUME NEW s \in Deployments
    PROVE  /\ New(s) \in [state : States, initialized : BOOLEAN, pipeline : BOOLEAN]
           /\ ~New(s).initialized /\ ~New(s).pipeline /\ New(s).state \notin {"ready", "load_failed"}
           /\ Coherent(New(s), 0)
BY DEF New, InitialState, States, Coherent

\* The state a process starts in.
Fresh ==
    /\ settings \in Deployments
    /\ cached = None
    /\ runtime = [c \in Callers |-> New(settings)]
    /\ loop = None
    /\ calls = [c \in Callers |-> Idle]
    /\ promised = FALSE
    /\ prepared = [c \in Callers |-> 0]

LEMMA FreshIInv == Fresh => IInv
<1> SUFFICES ASSUME Fresh PROVE IInv OBVIOUS
<1> USE NoneAssumption DEF Fresh
<1>1. \A c \in Callers : runtime[c] = New(settings) /\ calls[c] = Idle /\ prepared[c] = 0 OBVIOUS
<1>2. Idle.pc = "idle" /\ Idle.kind = "none" /\ ~Idle.late BY DEF Idle
<1>3. TypeOK BY <1>1, <1>2, NewCoherent DEF TypeOK, Idle
<1>4. Cold /\ Alone /\ Kept /\ ReadinessIsKept
  BY <1>1, <1>2 DEF Cold, Alone, Kept, ReadinessIsKept, Inside
<1>5. \A c \in Callers : Coherent(runtime[c], prepared[c]) /\ Placed(c)
  BY <1>1, <1>2, NewCoherent DEF Placed, Inside
<1> QED BY <1>3, <1>4, <1>5 DEF IInv

LEMMA RestartIInv == Restart => IInv'
<1> SUFFICES ASSUME Restart PROVE IInv' OBVIOUS
<1>1. PICK s \in Deployments : Start(s) BY DEF Restart
<1>2. Fresh' BY <1>1 DEF Start, Fresh
<1>3. Fresh' => IInv' BY FreshIInv, PTL
<1> QED BY <1>2, <1>3

\* A stray stays one.
LEMMA StraysStay ==
    ASSUME IInv, cached # None => cached' = cached,
           \A d \in Callers : prepared[d] > 0 => prepared'[d] > 0
    PROVE  Strays \subseteq Strays'
BY DEF IInv, Cold, Coherent, Strays

\* A step of one caller that leaves the runtimes alone: what remains to be shown.
LEMMA QuietStep ==
    ASSUME IInv, NEW c \in Callers, UNCHANGED <<procVars, prepared>>, TypeOK',
           promised => promised',
           promised' => Promise,
           \A d \in Callers \ {c} : calls'[d] = calls[d],
           calls'[c].pc \in Inside => calls'[c].of \in Callers /\ cached # None,
           calls'[c].pc = "build" => cached = None,
           calls'[c].pc \notin {"prepare", "settle"},
           calls'[c].pc = "status" => calls'[c].kind = "probe",
           calls'[c].pc = "body" => calls'[c].kind # "probe",
           calls'[c].pc \in Inside => \/ calls'[c].of = cached
                                      \/ calls[c].pc \in Inside /\ calls'[c].of = calls[c].of,
           calls'[c].late => promised',
           calls'[c].late /\ calls'[c].pc \in Inside => calls'[c].of = cached,
           calls'[c].late /\ calls'[c].pc = "body" /\ Strays = {} => calls'[c].pipe,
           calls'[c].late /\ Strays = {} => calls'[c].answer \notin {"not_ready", "unready"}
    PROVE  IInv'
<1> USE DEF procVars
<1>0. Strays' = Strays /\ (promised' => Promise') BY DEF Strays, Promise, ModelsReady
<1>1. Cold' BY DEF IInv, Cold
<1>2. Alone' BY DEF IInv, Alone
<1>3. ReadinessIsKept'
  <2>1. ASSUME NEW d \in Callers, calls'[d].late
        PROVE  calls'[d].pc # "build" /\ (calls'[d].answer \in {"not_ready", "unready"} => Strays # {})
    <3>1. CASE d = c BY <2>1, <3>1 DEF Promise
    <3>2. CASE d # c BY <2>1, <3>2 DEF IInv, ReadinessIsKept
    <3> QED BY <3>1, <3>2
  <2> QED BY <1>0, <2>1 DEF ReadinessIsKept
<1>4. Kept'
  <2>1. ASSUME NEW d \in Callers, calls'[d].late
        PROVE  /\ promised' /\ calls'[d].pc # "build"
               /\ calls'[d].pc \in Inside => calls'[d].of = cached'
               /\ Strays = {} => calls'[d].pc \notin {"prepare", "settle"}
                                /\ (calls'[d].pc = "body" => calls'[d].pipe)
    <3>1. CASE d = c BY <2>1, <3>1 DEF Promise
    <3>2. CASE d # c BY <2>1, <3>2 DEF IInv, Kept
    <3> QED BY <3>1, <3>2
  <2> QED BY <1>0, <2>1 DEF Kept
<1>5. ASSUME NEW d \in Callers PROVE Coherent(runtime[d], prepared[d])' BY DEF IInv, Coherent
<1>6. ASSUME NEW d \in Callers PROVE Placed(d)'
  <2>1. CASE d = c
    <3>1. calls'[c].pc = "build" => /\ runtime[c] = New(settings) /\ prepared[c] = 0 /\ cached # c
                                    /\ \A e \in Callers : calls'[e].pc \in Inside => calls'[e].of # c
      BY NoneAssumption DEF IInv, Cold, Inside
    <3> QED BY <2>1, <3>1 DEF Placed, New, InitialState
  <2>2. CASE d # c
    <3>1. calls'[d] = calls[d] /\ Placed(d) BY <2>2 DEF IInv
    <3>2. ASSUME calls[d].pc = "build", calls'[c].pc \in Inside PROVE calls'[c].of # d
      BY <3>1, <3>2, <2>2 DEF Placed
    <3> QED BY <2>2, <3>1, <3>2 DEF Placed, New, InitialState
  <2> QED BY <2>1, <2>2
<1> QED BY <1>1, <1>2, <1>3, <1>4, <1>5, <1>6 DEF IInv

LEMMA BeginIInv == ASSUME IInv, NEW c \in Callers, BeginProbe(c) \/ BeginExtract(c) PROVE IInv'
<1> USE DEF procVars
<1>1. PICK kind \in {"probe", "extract"} :
        /\ calls' = [calls EXCEPT ![c] = Arrived(kind)]
        /\ loop = None /\ loop' = IF kind = "probe" THEN c ELSE None
        /\ UNCHANGED <<procVars, promised, prepared>>
  BY DEF BeginProbe, BeginExtract
<1>2. /\ Arrived(kind) \in Call /\ Arrived(kind).pc = "lookup" /\ Arrived(kind).kind = kind
      /\ Arrived(kind).late = promised /\ Arrived(kind).answer = "none"
  BY DEF Arrived, Idle, Call, IInv, TypeOK
<1>3. /\ calls'[c] = Arrived(kind) /\ \A d \in Callers \ {c} : calls'[d] = calls[d]
  BY <1>1 DEF IInv, TypeOK
<1>4. TypeOK'
  <2>1. calls' \in [Callers -> Call \cup {Idle}] BY <1>1, <1>2 DEF IInv, TypeOK
  <2>2. loop' \in Callers \cup {None} BY <1>1
  <2>3. \A d \in Callers : calls'[d].kind = "probe" <=> loop' = d
    BY <1>1, <1>2, <1>3, NoneAssumption DEF IInv, TypeOK
  <2> QED BY <1>1, <2>1, <2>2, <2>3 DEF IInv, TypeOK
<1> QED
  <2>1. promised => Promise BY DEF IInv, Kept
  <2> QED BY <1>1, <1>2, <1>3, <1>4, <2>1, QuietStep DEF Inside

LEMMA LookUpIInv == ASSUME IInv, NEW c \in Callers, LookUp(c) PROVE IInv'
<1> USE DEF procVars
<1>0. calls[c].pc = "lookup" /\ calls[c] \in Call BY DEF LookUp, At, IInv, TypeOK, Idle
<1>1. /\ UNCHANGED <<procVars, loop, promised, prepared>>
      /\ \A d \in Callers \ {c} : calls'[d] = calls[d]
      /\ calls'[c].kind = calls[c].kind /\ calls'[c].late = calls[c].late
      /\ calls'[c].answer = calls[c].answer
      /\ \/ cached = None /\ calls'[c].pc = "build"
         \/ cached # None /\ calls'[c].pc = "enter" /\ calls'[c].of = cached
      /\ calls' \in [Callers -> Call \cup {Idle}]
  <2>1. CASE cached = None
    <3>1. [calls[c] EXCEPT !.pc = "build"] \in Call BY <1>0 DEF Call
    <3> QED BY <1>0, <2>1, <3>1 DEF LookUp, Goto, IInv, TypeOK, Call
  <2>2. CASE cached # None
    <3>1. [calls[c] EXCEPT !.pc = "enter", !.of = cached] \in Call BY <1>0, <2>2 DEF Call, IInv, TypeOK
    <3>2. calls' = [calls EXCEPT ![c] = [calls[c] EXCEPT !.pc = "enter", !.of = cached]]
      BY <2>2 DEF LookUp, IInv, TypeOK
    <3> QED BY <1>0, <2>2, <3>1, <3>2 DEF LookUp, IInv, TypeOK, Call
  <2> QED BY <2>1, <2>2
<1>2. TypeOK' BY <1>1 DEF IInv, TypeOK
<1>3. cached # None => cached \in Callers BY DEF IInv, TypeOK
<1>4. /\ promised => Promise
      /\ calls[c].late => promised
      /\ calls[c].late /\ Strays = {} => calls[c].answer \notin {"not_ready", "unready"}
  BY DEF IInv, Kept, ReadinessIsKept
<1> QED BY <1>1, <1>2, <1>3, <1>4, QuietStep DEF Inside

\* An answer leaves the call done.
LEMMA AnswerEffect ==
    ASSUME IInv, NEW c \in Callers, calls[c].pc \in Inside,
           NEW a \in {"ready", "unready", "not_ready", "image"}, Answer(c, a)
    PROVE  /\ calls' \in [Callers -> Call \cup {Idle}]
           /\ calls'[c].pc = "done" /\ calls'[c].kind = "none" /\ calls'[c].answer = a
           /\ calls'[c].late = calls[c].late
           /\ \A d \in Callers \ {c} : calls'[d] = calls[d]
<1> DEFINE new == [Idle EXCEPT !.pc = "done", !.late = calls[c].late, !.answer = a]
<1>1. calls[c] \in Call BY DEF IInv, TypeOK, Idle, Inside
<1>2. /\ new \in Call /\ new.pc = "done" /\ new.kind = "none" /\ new.answer = a
      /\ new.late = calls[c].late
  BY <1>1 DEF Idle, Call
<1>3. calls' = [calls EXCEPT ![c] = new] BY DEF Answer
<1> HIDE DEF new
<1> QED BY <1>2, <1>3 DEF IInv, TypeOK

LEMMA StatusIInv == ASSUME IInv, NEW c \in Callers, Status(c) PROVE IInv'
<1> USE DEF procVars
<1> DEFINE state == runtime[calls[c].of].state
<1>0. calls[c].pc = "status" BY DEF Status, At
<1>1. PICK a \in {"ready", "unready"} :
        /\ Answer(c, a) /\ (ModelsReady /\ state \in {"disabled", "ready"} => a = "ready")
  BY DEF Status, PipelineReady
<1>2. /\ calls' \in [Callers -> Call \cup {Idle}]
      /\ calls'[c].pc = "done" /\ calls'[c].kind = "none" /\ calls'[c].answer = a
      /\ calls'[c].late = calls[c].late
      /\ \A d \in Callers \ {c} : calls'[d] = calls[d]
  BY <1>0, <1>1, AnswerEffect DEF Inside
<1>3. /\ UNCHANGED <<procVars, prepared>> /\ loop' = None
      /\ promised' = (promised \/ (ModelsReady /\ state = "ready"))
  BY DEF Status
<1>4. calls[c].kind = "probe" /\ calls[c].of \in Callers
  BY <1>0 DEF IInv, Placed, Inside
<1>5. TypeOK'
  <2>1. loop = c BY <1>4 DEF IInv, TypeOK
  <2>2. \A d \in Callers : calls'[d].kind = "probe" <=> loop' = d
    BY <2>1, <1>2, <1>3, NoneAssumption DEF IInv, TypeOK
  <2>3. promised' \in BOOLEAN BY <1>3 DEF IInv, TypeOK
  <2> QED BY <2>2, <2>3, <1>2, <1>3 DEF IInv, TypeOK
<1>6. promised => Promise BY DEF IInv, Kept
<1>7. calls[c].late => promised /\ calls[c].of = cached BY <1>0 DEF IInv, Kept, Inside
<1>8. calls[c].late /\ Strays = {} => a = "ready" BY <1>1, <1>6, <1>7 DEF Promise
<1>9. promised' => Promise
  <2> SUFFICES ASSUME ModelsReady, state = "ready" PROVE Promise BY <1>3, <1>6
  <2>1. cached # None BY <1>0 DEF IInv, Cold, Inside
  <2>2. prepared[calls[c].of] = 1 BY <1>4 DEF IInv, Coherent
  <2>3. calls[c].of # cached => calls[c].of \in Strays BY <1>4, <2>2 DEF Strays
  <2> QED BY <2>1, <2>3 DEF Promise
<1> QED BY <1>2, <1>3, <1>5, <1>7, <1>8, <1>9, QuietStep DEF Inside

LEMMA BodyIInv == ASSUME IInv, NEW c \in Callers, Body(c) PROVE IInv'
<1> USE DEF procVars
<1>0. calls[c].pc = "body" /\ loop = None BY DEF Body, At
<1>1. PICK a \in {"image", "not_ready"} : Answer(c, a) /\ (calls[c].pipe => a = "image") BY DEF Body
<1>2. /\ calls' \in [Callers -> Call \cup {Idle}]
      /\ calls'[c].pc = "done" /\ calls'[c].kind = "none" /\ calls'[c].answer = a
      /\ calls'[c].late = calls[c].late
      /\ \A d \in Callers \ {c} : calls'[d] = calls[d]
  BY <1>0, <1>1, AnswerEffect DEF Inside
<1>3. UNCHANGED <<procVars, loop, promised, prepared>> BY DEF Body
<1>4. TypeOK'
  <2>1. \A d \in Callers : calls'[d].kind = "probe" <=> loop' = d
    BY <1>0, <1>2, <1>3, NoneAssumption DEF IInv, TypeOK
  <2> QED BY <2>1, <1>2, <1>3 DEF IInv, TypeOK
<1>5. promised => Promise BY DEF IInv, Kept
<1>6. calls[c].late => promised /\ (Strays = {} => a = "image") BY <1>0, <1>1 DEF IInv, Kept
<1> QED BY <1>2, <1>3, <1>4, <1>5, <1>6, QuietStep DEF Inside

\* The caller that makes a runtime finds its place empty.
LEMMA BuildIInv == ASSUME IInv, NEW c \in Callers, Build(c) PROVE IInv'
<1> USE DEF procVars
<1>0. calls[c].pc = "build" /\ calls[c] \in Call BY DEF Build, At, IInv, TypeOK, Idle
<1>1. runtime[c] = New(settings) /\ prepared[c] = 0 BY <1>0 DEF IInv, Placed
<1>2. /\ runtime' = runtime /\ UNCHANGED <<settings, loop, promised, prepared>>
      /\ cached' = IF cached = None THEN c ELSE cached
  BY <1>1 DEF Build, IInv, TypeOK
<1>3. /\ calls' \in [Callers -> Call \cup {Idle}]
      /\ calls'[c].pc = "enter" /\ calls'[c].of = c /\ calls'[c].kind = calls[c].kind
      /\ calls'[c].late = calls[c].late
      /\ \A d \in Callers \ {c} : calls'[d] = calls[d]
  <2>1. [calls[c] EXCEPT !.pc = "enter", !.of = c] \in Call BY <1>0 DEF Call
  <2>2. calls' = [calls EXCEPT ![c] = [calls[c] EXCEPT !.pc = "enter", !.of = c]]
    BY DEF Build, IInv, TypeOK
  <2> QED BY <1>0, <2>1, <2>2 DEF IInv, TypeOK, Call
<1>4. ~calls[c].late BY <1>0 DEF IInv, Kept
<1>5. TypeOK' BY <1>2, <1>3 DEF IInv, TypeOK
<1>6. Cold' BY <1>2, NoneAssumption DEF Cold
<1>7. Alone' BY <1>3 DEF IInv, Alone
<1>8. ReadinessIsKept'
  <2>1. Strays \subseteq Strays' BY <1>2, StraysStay
  <2> QED BY <1>3, <1>4, <2>1 DEF IInv, ReadinessIsKept
<1>9. Kept'
  <2>1. promised => cached' = cached /\ Promise BY <1>2 DEF IInv, Kept, Promise
  <2>2. promised => Strays' = Strays BY <1>2, <2>1 DEF Strays
  <2> QED BY <1>2, <1>3, <1>4, <2>1, <2>2 DEF IInv, Kept, Promise, ModelsReady
<1>10. ASSUME NEW d \in Callers PROVE Coherent(runtime[d], prepared[d])'
  BY <1>2 DEF IInv, Coherent
<1>11. ASSUME NEW d \in Callers PROVE Placed(d)'
  <2>1. CASE d = c BY <2>1, <1>3 DEF Placed, Inside
  <2>2. CASE d # c
    <3>1. Placed(d) BY DEF IInv
    <3>2. calls[d].pc = "build" => cached' # d BY <3>1, <2>2, <1>2 DEF Placed
    <3>3. calls[d].pc = "build" => \A e \in Callers : calls'[e].pc \in Inside => calls'[e].of # d
      BY <3>1, <2>2, <1>3 DEF Placed
    <3> QED BY <3>1, <3>2, <3>3, <2>2, <1>2, <1>3 DEF Placed, New, InitialState
  <2> QED BY <2>1, <2>2
<1> QED BY <1>5, <1>6, <1>7, <1>8, <1>9, <1>10, <1>11 DEF IInv

\* How pipeline() returns.
LEMMA ReturnEffect ==
    ASSUME IInv, NEW c \in Callers, calls[c].pc \in {"enter", "prepare", "settle"},
           NEW pipe \in BOOLEAN, Returned(c, pipe)
    PROVE  /\ calls' \in [Callers -> Call \cup {Idle}]
           /\ calls'[c].of = calls[c].of /\ calls'[c].late = calls[c].late
           /\ calls'[c].kind = calls[c].kind /\ calls'[c].answer = calls[c].answer
           /\ calls'[c].pipe = pipe
           /\ \/ calls'[c].pc = "status" /\ calls[c].kind = "probe"
              \/ calls'[c].pc = "body" /\ calls[c].kind # "probe"
           /\ \A d \in Callers \ {c} : calls'[d] = calls[d]
<1> DEFINE pc == IF calls[c].kind = "probe" THEN "status" ELSE "body"
           new == [calls[c] EXCEPT !.pc = pc, !.pipe = pipe]
<1>1. calls[c] \in Call BY DEF IInv, TypeOK, Idle
<1>2. /\ new \in Call /\ new.pc = pc /\ new.pipe = pipe /\ new.of = calls[c].of
      /\ new.kind = calls[c].kind /\ new.answer = calls[c].answer /\ new.late = calls[c].late
  BY <1>1 DEF Call
<1>3. calls' = [calls EXCEPT ![c] = new] BY DEF Returned, IInv, TypeOK
<1> HIDE DEF new
<1> QED BY <1>2, <1>3 DEF IInv, TypeOK

\* A step of the caller that is inside runtime o, and changes nothing but that runtime.
LEMMA InnerStep ==
    ASSUME IInv, NEW c \in Callers, calls[c].pc \in {"enter", "prepare", "settle"},
           UNCHANGED <<settings, cached, loop, promised>>,
           NEW o \in Callers, o = calls[c].of,
           \A d \in Callers \ {o} : runtime'[d] = runtime[d] /\ prepared'[d] = prepared[d],
           TypeOK', Coherent(runtime'[o], prepared'[o]),
           runtime[o].initialized => runtime'[o].initialized,
           runtime[o].state = "ready" => runtime'[o].state = "ready",
           \A d \in Callers \ {c} : calls'[d] = calls[d],
           calls'[c].of = o, calls'[c].late = calls[c].late, calls'[c].answer = calls[c].answer,
           calls'[c].pc \in {"prepare", "settle", "status", "body"},
           calls'[c].pc \in {"prepare", "settle"} =>
               \A d \in Callers \ {c} : calls[d].pc \in {"prepare", "settle"} => calls[d].of # o,
           \A d \in Callers \ {c} : calls[d].pc \in {"prepare", "settle"} => calls[d].of # o,
           calls'[c].pc = "prepare" => /\ runtime'[o].initialized /\ runtime'[o].state # "ready"
                                       /\ ~runtime'[o].pipeline,
           calls'[c].pc = "settle" => runtime'[o].pipeline,
           calls'[c].pc = "status" => calls'[c].kind = "probe",
           calls'[c].pc = "body" => calls'[c].kind # "probe",
           calls[c].late => \/ Strays # {}
                            \/ calls'[c].pc \in {"status", "body"} /\ (calls'[c].pc = "body" => calls'[c].pipe)
    PROVE  IInv'
<1>0. Strays \subseteq Strays'
  <2>1. prepared[o] > 0 => prepared'[o] > 0 BY DEF IInv, Coherent
  <2> QED BY <2>1, StraysStay
<1>1. cached # None BY DEF IInv, Cold, Inside
<1>2. Cold' BY <1>1 DEF Cold
<1>3. Alone' BY DEF IInv, Alone
<1>4. ReadinessIsKept' BY <1>0 DEF IInv, ReadinessIsKept
<1>5. Kept'
  <2>1. promised => Promise'
    <3>1. cached \in Callers BY <1>1 DEF IInv, TypeOK
    <3> QED BY <1>0, <3>1 DEF IInv, Kept, Promise, ModelsReady
  <2>2. calls[c].late => promised /\ o = cached BY DEF IInv, Kept, Inside
  <2> QED BY <1>0, <1>1, <2>1, <2>2 DEF IInv, Kept, Inside
<1>6. ASSUME NEW d \in Callers PROVE Coherent(runtime[d], prepared[d])'
  <2>1. CASE d = o BY <2>1 DEF Coherent
  <2>2. CASE d # o BY <2>2 DEF IInv, Coherent
  <2> QED BY <2>1, <2>2
<1>7. ASSUME NEW d \in Callers PROVE Placed(d)'
  <2>1. CASE d = c BY <2>1 DEF Placed
  <2>2. CASE d # c
    <3>1. Placed(d) /\ calls'[d] = calls[d] BY <2>2 DEF IInv
    <3>2. ASSUME calls[d].pc = "build"
          PROVE  /\ d # o /\ runtime'[d] = runtime[d] /\ prepared'[d] = prepared[d]
                 /\ \A e \in Callers : calls'[e].pc \in Inside => calls'[e].of # d
      BY <3>1, <3>2 DEF Placed, Inside
    <3>3. calls[d].pc \in {"prepare", "settle"} => calls[d].of # o /\ calls[d].of \in Callers
      BY <3>1, <2>2 DEF Placed, Inside
    <3>4. calls[d].pc = "prepare" => /\ runtime'[calls[d].of].initialized
                                     /\ runtime'[calls[d].of].state # "ready"
                                     /\ ~runtime'[calls[d].of].pipeline
      BY <3>1, <3>3 DEF Placed
    <3>5. calls[d].pc = "settle" => runtime'[calls[d].of].pipeline BY <3>1, <3>3 DEF Placed
    <3> QED BY <3>1, <3>2, <3>4, <3>5 DEF Placed, New, InitialState
  <2> QED BY <2>1, <2>2
<1> QED BY <1>2, <1>3, <1>4, <1>5, <1>6, <1>7 DEF IInv

LEMMA EnterIInv == ASSUME IInv, NEW c \in Callers, Enter(c) PROVE IInv'
<1> DEFINE o == calls[c].of  rt == runtime[o]
<1>0. /\ calls[c].pc = "enter" /\ calls[c] \in Call /\ o \in Callers
      /\ rt \in [state : States, initialized : BOOLEAN, pipeline : BOOLEAN]
      /\ Coherent(rt, prepared[o])
  BY DEF Enter, At, IInv, TypeOK, Idle, Placed, Inside
<1>1. UNCHANGED <<settings, cached, loop, promised>> BY DEF Enter
<1>2. calls[c].late /\ Strays = {} => rt.state = "ready" /\ rt.pipeline /\ rt.initialized
  <2>1. calls[c].late => promised /\ o = cached BY <1>0 DEF IInv, Kept, Inside
  <2> QED BY <2>1, <1>0 DEF IInv, Kept, Promise, Coherent
<1>3. CASE rt.state \in Fixed \/ rt.initialized
  <2>1. PICK pipe \in BOOLEAN : /\ Returned(c, pipe) /\ UNCHANGED <<runtime, prepared>>
                                /\ rt.state \notin Fixed => pipe = rt.pipeline
    BY <1>0, <1>3 DEF Enter, Fixed
  <2>2. /\ calls' \in [Callers -> Call \cup {Idle}]
        /\ calls'[c].of = o /\ calls'[c].late = calls[c].late
        /\ calls'[c].kind = calls[c].kind /\ calls'[c].answer = calls[c].answer
        /\ calls'[c].pipe = pipe
        /\ \/ calls'[c].pc = "status" /\ calls[c].kind = "probe"
           \/ calls'[c].pc = "body" /\ calls[c].kind # "probe"
        /\ \A d \in Callers \ {c} : calls'[d] = calls[d]
    BY <1>0, <2>1, ReturnEffect
  <2>3. TypeOK' BY <1>1, <2>1, <2>2 DEF IInv, TypeOK
  <2>4. calls[c].late /\ Strays = {} => pipe BY <1>2, <2>1 DEF Fixed
  <2>5. UNCHANGED <<procVars, prepared>> BY <1>1, <2>1 DEF procVars
  <2>6. cached # None BY <1>0 DEF IInv, Cold, Inside
  <2>7. promised => Promise BY DEF IInv, Kept
  <2>8. calls[c].late => /\ promised /\ o = cached
                         /\ Strays = {} => calls[c].answer \notin {"not_ready", "unready"}
    BY <1>0 DEF IInv, Kept, ReadinessIsKept, Inside
  <2> QED BY <1>0, <1>1, <2>2, <2>3, <2>4, <2>5, <2>6, <2>7, <2>8, QuietStep DEF Inside
<1>4. CASE rt.state \notin Fixed /\ ~rt.initialized
  <2>1. /\ runtime' = [runtime EXCEPT ![o] = [rt EXCEPT !.initialized = TRUE]]
        /\ prepared' = [prepared EXCEPT ![o] = prepared[o] + 1]
        /\ calls' = [calls EXCEPT ![c].pc = "prepare"]
    BY <1>4 DEF Enter, Fixed, Noted, Goto
  <2>2. /\ ~rt.pipeline /\ rt.state # "ready" /\ prepared[o] = 0 BY <1>0, <1>4 DEF Coherent
  <2>3. /\ runtime'[o].initialized /\ runtime'[o].state = rt.state /\ ~runtime'[o].pipeline
        /\ runtime'[o] \in [state : States, initialized : BOOLEAN, pipeline : BOOLEAN]
        /\ prepared'[o] = 1
        /\ \A d \in Callers \ {o} : runtime'[d] = runtime[d] /\ prepared'[d] = prepared[d]
        /\ runtime' \in [Callers -> [state : States, initialized : BOOLEAN, pipeline : BOOLEAN]]
        /\ prepared' \in [Callers -> Nat]
    <3> DEFINE new == [rt EXCEPT !.initialized = TRUE]
    <3>1. /\ new \in [state : States, initialized : BOOLEAN, pipeline : BOOLEAN]
          /\ new.initialized /\ new.state = rt.state /\ new.pipeline = rt.pipeline
      BY <1>0
    <3> HIDE DEF new
    <3>2. runtime' = [runtime EXCEPT ![o] = new] BY <2>1 DEF new
    <3>3. prepared'[o] = 1 /\ prepared' \in [Callers -> Nat]
          /\ \A d \in Callers \ {o} : prepared'[d] = prepared[d]
      BY <1>0, <2>1, <2>2 DEF IInv, TypeOK
    <3>4. runtime'[o] = new /\ \A d \in Callers \ {o} : runtime'[d] = runtime[d]
      BY <1>0, <3>2 DEF IInv, TypeOK
    <3>5. runtime' \in [Callers -> [state : States, initialized : BOOLEAN, pipeline : BOOLEAN]]
      BY <1>0, <3>1, <3>2 DEF IInv, TypeOK
    <3> QED BY <2>2, <3>1, <3>3, <3>4, <3>5
  <2>4. /\ calls' \in [Callers -> Call \cup {Idle}] /\ calls'[c].pc = "prepare"
        /\ calls'[c].of = o /\ calls'[c].late = calls[c].late /\ calls'[c].answer = calls[c].answer
        /\ calls'[c].kind = calls[c].kind
        /\ \A d \in Callers \ {c} : calls'[d] = calls[d]
    <3>1. [calls[c] EXCEPT !.pc = "prepare"] \in Call BY <1>0 DEF Call
    <3> QED BY <1>0, <2>1, <3>1 DEF IInv, TypeOK, Call
  <2>5. TypeOK' BY <1>1, <2>3, <2>4 DEF IInv, TypeOK
  <2>6. Coherent(runtime'[o], prepared'[o]) BY <1>4, <2>2, <2>3 DEF Coherent
  <2>7. \A d \in Callers : calls[d].pc \in {"prepare", "settle"} => calls[d].of # o
    <3> SUFFICES ASSUME NEW d \in Callers, calls[d].pc \in {"prepare", "settle"}, calls[d].of = o
                 PROVE  FALSE
      OBVIOUS
    <3>1. runtime[o].initialized BY <1>0 DEF IInv, Placed, Coherent
    <3> QED BY <3>1, <1>4
  <2>8. calls[c].late => Strays # {} BY <1>2, <1>4
  <2> QED BY <1>0, <1>1, <2>2, <2>3, <2>4, <2>5, <2>6, <2>7, <2>8, InnerStep
<1> QED BY <1>0, <1>3, <1>4

\* What preparing and settling have in common.
LEMMA PreparerInside ==
    ASSUME IInv, NEW c \in Callers, calls[c].pc \in {"prepare", "settle"}
    PROVE  /\ calls[c] \in Call /\ calls[c].of \in Callers /\ (calls[c].late => Strays # {})
           /\ runtime[calls[c].of] \in [state : States, initialized : BOOLEAN, pipeline : BOOLEAN]
           /\ Coherent(runtime[calls[c].of], prepared[calls[c].of])
           /\ runtime[calls[c].of].initialized
           /\ \A d \in Callers \ {c} : calls[d].pc \in {"prepare", "settle"} => calls[d].of # calls[c].of
<1>1. calls[c] \in Call BY DEF IInv, TypeOK, Idle
<1>2. calls[c].of \in Callers BY DEF IInv, Placed, Inside
<1>3. runtime[calls[c].of] \in [state : States, initialized : BOOLEAN, pipeline : BOOLEAN]
      /\ Coherent(runtime[calls[c].of], prepared[calls[c].of])
  BY <1>2 DEF IInv, TypeOK
<1>4. calls[c].late => Strays # {} BY DEF IInv, Kept
<1>5. runtime[calls[c].of].initialized BY <1>2, <1>3 DEF IInv, Placed, Coherent
<1>6. \A d \in Callers \ {c} : calls[d].pc \in {"prepare", "settle"} => calls[d].of # calls[c].of
  BY DEF IInv, Alone
<1> QED BY <1>1, <1>2, <1>3, <1>4, <1>5, <1>6

\* The runtime a caller is inside becomes new, and the caller returns.
LEMMA InnerReturn ==
    ASSUME IInv, NEW c \in Callers, calls[c].pc \in {"prepare", "settle"},
           UNCHANGED <<settings, cached, loop, promised, prepared>>,
           NEW new \in [state : States, initialized : BOOLEAN, pipeline : BOOLEAN],
           runtime' = [runtime EXCEPT ![calls[c].of] = new],
           new.initialized, new.state = "ready" => new.pipeline, new.state \notin Fixed,
           runtime[calls[c].of].state = "ready" => new.state = "ready",
           NEW pipe \in BOOLEAN, Returned(c, pipe)
    PROVE  IInv'
<1> DEFINE o == calls[c].of
<1>1. /\ calls[c] \in Call /\ o \in Callers /\ (calls[c].late => Strays # {}) /\ runtime[o].initialized
      /\ Coherent(runtime[o], prepared[o])
      /\ \A d \in Callers \ {c} : calls[d].pc \in {"prepare", "settle"} => calls[d].of # o
  BY PreparerInside
<1>2. /\ calls' \in [Callers -> Call \cup {Idle}]
      /\ calls'[c].of = o /\ calls'[c].late = calls[c].late
      /\ calls'[c].kind = calls[c].kind /\ calls'[c].answer = calls[c].answer
      /\ \/ calls'[c].pc = "status" /\ calls[c].kind = "probe"
         \/ calls'[c].pc = "body" /\ calls[c].kind # "probe"
      /\ \A d \in Callers \ {c} : calls'[d] = calls[d]
  BY ReturnEffect
<1>3. /\ runtime'[o] = new /\ prepared'[o] = 1 /\ prepared[o] = 1
      /\ \A d \in Callers \ {o} : runtime'[d] = runtime[d] /\ prepared'[d] = prepared[d]
      /\ runtime' \in [Callers -> [state : States, initialized : BOOLEAN, pipeline : BOOLEAN]]
  BY <1>1 DEF IInv, TypeOK, Coherent
<1>4. TypeOK' BY <1>2, <1>3 DEF IInv, TypeOK
<1>5. Coherent(runtime'[o], prepared'[o]) BY <1>3 DEF Coherent
<1> HIDE DEF o
<1> QED BY <1>1, <1>2, <1>3, <1>4, <1>5, InnerStep DEF o

LEMMA PrepareIInv == ASSUME IInv, NEW c \in Callers, Prepare(c) PROVE IInv'
<1> DEFINE o == calls[c].of  rt == runtime[o]
<1>0. calls[c].pc = "prepare" BY DEF Prepare, At
<1>1. /\ calls[c] \in Call /\ o \in Callers /\ (calls[c].late => Strays # {}) /\ rt.initialized
      /\ rt \in [state : States, initialized : BOOLEAN, pipeline : BOOLEAN]
      /\ Coherent(rt, prepared[o])
      /\ \A d \in Callers \ {c} : calls[d].pc \in {"prepare", "settle"} => calls[d].of # o
  BY <1>0, PreparerInside
<1>2. rt.state # "ready" /\ rt.state \notin Fixed BY <1>0, <1>1 DEF IInv, Placed, Coherent
<1>3. UNCHANGED <<settings, cached, loop, promised, prepared>> BY DEF Prepare
<1>4. CASE runtime' = [runtime EXCEPT ![o] = Failed(rt)] /\ Returned(c, FALSE)
  <2>1. /\ Failed(rt) \in [state : States, initialized : BOOLEAN, pipeline : BOOLEAN]
        /\ Failed(rt).initialized /\ Failed(rt).state = "load_failed"
    BY <1>1 DEF Failed, States
  <2> QED BY <1>0, <1>2, <1>3, <1>4, <2>1, InnerReturn DEF Fixed
<1>5. CASE runtime' = [runtime EXCEPT ![o] = Prepared(rt)] /\ Goto(c, "settle")
  <2> DEFINE new == Prepared(rt)
  <2>1. /\ new \in [state : States, initialized : BOOLEAN, pipeline : BOOLEAN]
        /\ new.initialized /\ new.pipeline /\ new.state = rt.state
    BY <1>1 DEF Prepared
  <2> HIDE DEF new
  <2>2. /\ runtime'[o] = new /\ prepared'[o] = prepared[o] /\ prepared[o] = 1
        /\ \A d \in Callers \ {o} : runtime'[d] = runtime[d] /\ prepared'[d] = prepared[d]
        /\ runtime' \in [Callers -> [state : States, initialized : BOOLEAN, pipeline : BOOLEAN]]
    BY <1>1, <1>3, <1>5, <2>1 DEF IInv, TypeOK, Coherent, new
  <2>3. /\ calls' \in [Callers -> Call \cup {Idle}] /\ calls'[c].pc = "settle"
        /\ calls'[c].of = o /\ calls'[c].late = calls[c].late /\ calls'[c].answer = calls[c].answer
        /\ calls'[c].kind = calls[c].kind
        /\ \A d \in Callers \ {c} : calls'[d] = calls[d]
    <3>1. [calls[c] EXCEPT !.pc = "settle"] \in Call BY <1>1 DEF Call
    <3> QED BY <1>1, <1>5, <3>1 DEF Goto, IInv, TypeOK, Call
  <2>4. TypeOK' BY <1>3, <2>2, <2>3 DEF IInv, TypeOK
  <2>5. Coherent(runtime'[o], prepared'[o]) BY <1>2, <2>1, <2>2 DEF Coherent
  <2> QED BY <1>0, <1>1, <1>2, <1>3, <2>1, <2>2, <2>3, <2>4, <2>5, InnerStep
<1> QED BY <1>4, <1>5 DEF Prepare

LEMMA SettleIInv == ASSUME IInv, NEW c \in Callers, Settle(c) PROVE IInv'
<1> DEFINE o == calls[c].of  rt == runtime[o]  new == [rt EXCEPT !.state = "ready"]
<1>0. calls[c].pc = "settle" BY DEF Settle, At
<1>1. /\ o \in Callers /\ rt.initialized
      /\ rt \in [state : States, initialized : BOOLEAN, pipeline : BOOLEAN]
  BY <1>0, PreparerInside
<1>2. rt.pipeline BY <1>0 DEF IInv, Placed
<1>3. /\ new \in [state : States, initialized : BOOLEAN, pipeline : BOOLEAN]
      /\ new.initialized /\ new.pipeline /\ new.state = "ready"
  BY <1>1, <1>2 DEF States
<1>4. /\ UNCHANGED <<settings, cached, loop, promised, prepared>>
      /\ runtime' = [runtime EXCEPT ![o] = new] /\ Returned(c, rt.pipeline)
  BY <1>1 DEF Settle
<1> HIDE DEF new
<1> QED BY <1>0, <1>1, <1>3, <1>4, InnerReturn DEF Fixed

LEMMA NextIInv == IInv /\ [Next]_vars => IInv'
<1> SUFFICES ASSUME IInv, [Next]_vars PROVE IInv' OBVIOUS
<1>1. CASE Restart BY <1>1, RestartIInv
<1>2. ASSUME NEW c \in Callers, BeginProbe(c) \/ BeginExtract(c) PROVE IInv' BY <1>2, BeginIInv
<1>3. ASSUME NEW c \in Callers, Step(c) PROVE IInv'
  BY <1>3, LookUpIInv, BuildIInv, EnterIInv, PrepareIInv, SettleIInv, StatusIInv, BodyIInv DEF Step
<1>4. CASE UNCHANGED vars
  BY <1>4 DEF vars, procVars, IInv, TypeOK, Cold, Alone, Kept, Promise, Strays, ModelsReady,
              ReadinessIsKept, Coherent,
              Placed, New, InitialState
<1> QED BY <1>1, <1>2, <1>3, <1>4 DEF Next

\* The invariant is inductive.
THEOREM Inductive == Spec => []IInv
<1>1. Init => IInv BY FreshIInv DEF Init, Fresh
<1> QED BY <1>1, NextIInv, PTL DEF Spec

\* The state has its type; the event loop is held by the probe under way and nobody else.
THEOREM TypeCorrect == Spec => []TypeOK
<1>1. IInv => TypeOK BY DEF IInv
<1> QED BY <1>1, Inductive, PTL

\* However many calls find the process cold, no runtime is prepared twice (pipeline).
THEOREM OnePreparation == Spec => []PreparedOnce
<1>1. IInv => PreparedOnce
  <2> SUFFICES ASSUME IInv, NEW c \in Callers
               PROVE  prepared[c] <= 1 /\ (cached = None => prepared[c] = 0)
    BY DEF PreparedOnce
  <2>1. prepared[c] \in {0, 1} BY DEF IInv, Coherent
  <2> QED BY <2>1 DEF IInv, Cold
<1> QED BY <1>1, Inductive, PTL

\* Whichever probe says that the pipeline is ready: no later call makes a runtime of its own, and
\* one is told otherwise only when callers raced for a cold cache and a stray runtime is in use
\* (pipeline, status, get_pipeline, lru_cache).
THEOREM ReadinessKept == Spec => []ReadinessIsKept
<1>1. IInv => ReadinessIsKept BY DEF IInv
<1> QED BY <1>1, Inductive, PTL

=============================================================================
