----------------------------- MODULE FaceAIRuntime -----------------------------
(***************************************************************************)
(* The Face AI process: the pipeline runtime that the first call prepares  *)
(* (services/face-ai/src/face_ai/runtime.py), as readiness probes          *)
(* (main.py) and extraction calls (routes/inference.py) use it at once.    *)
(*                                                                         *)
(* A probe runs on the event loop from its first step to its answer; the   *)
(* dependencies of an extraction run in a thread, its body on the loop.    *)
(* The runtime is made by a cached function: of callers that find the      *)
(* cache empty, the first to finish fills it and each of the others goes   *)
(* on with the runtime it made itself.  A runtime is named by its maker.   *)
(***************************************************************************)
EXTENDS Naturals

CONSTANTS
    Callers,      \* probes and extractions served at once
    Deployments,  \* the settings the process may be started with
    None          \* nothing cached, nobody on the event loop

ASSUME NoneAssumption == None \notin Callers
ASSUME DeploymentsAssumption ==
    Deployments \subseteq [enabled : BOOLEAN, root : BOOLEAN, cpu : BOOLEAN,
                           provider : BOOLEAN, required : BOOLEAN,
                           detector : {"not_configured", "configured", "missing"},
                           embedder : {"not_configured", "configured", "missing"}]

VARIABLES
    settings,  \* the settings of the running process
    cached,    \* the runtime in the cache
    runtime,   \* InsightFacePipelineRuntime, per maker
    loop,      \* the probe on the event loop
    calls,     \* what each caller's call is doing
    promised,  \* history: a probe has answered that the pipeline is ready
    prepared   \* history: preparations begun, per runtime

procVars == <<settings, cached, runtime>>
vars     == <<procVars, loop, calls, promised, prepared>>

States == {"disabled", "not_configured", "unsupported_provider", "configured", "ready", "load_failed"}

Idle == [kind |-> "none", pc |-> "idle", of |-> None, pipe |-> FALSE, late |-> FALSE, answer |-> "none"]

Call == [kind : {"none", "probe", "extract"},
         pc : {"lookup", "build", "enter", "prepare", "settle", "status", "body", "done"},
         of : Callers \cup {None}, pipe : BOOLEAN, late : BOOLEAN,
         answer : {"none", "ready", "unready", "not_ready", "image"}]

TypeOK ==
    /\ settings \in Deployments
    /\ cached \in Callers \cup {None}
    /\ runtime \in [Callers -> [state : States, initialized : BOOLEAN, pipeline : BOOLEAN]]
    /\ loop \in Callers \cup {None}
    /\ calls \in [Callers -> Call \cup {Idle}]
    /\ promised \in BOOLEAN
    /\ prepared \in [Callers -> Nat]
    \* the event loop is held by the probe under way, and by nobody else
    /\ \A c \in Callers : calls[c].kind = "probe" <=> loop = c

\* _initial_state
InitialState(s) ==
    IF ~s.enabled THEN "disabled"
    ELSE IF ~s.root THEN "not_configured"
    ELSE IF ~s.cpu THEN "unsupported_provider" ELSE "configured"

\* A runtime that is made and not yet entered.
New(s) == [state |-> InitialState(s), initialized |-> FALSE, pipeline |-> FALSE]

Start(s) ==
    /\ settings' = s
    /\ cached' = None
    /\ runtime' = [c \in Callers |-> New(s)]
    /\ loop' = None
    /\ calls' = [c \in Callers |-> Idle]
    /\ promised' = FALSE
    /\ prepared' = [c \in Callers |-> 0]

Init ==
    /\ settings \in Deployments
    /\ cached = None
    /\ runtime = [c \in Callers |-> New(settings)]
    /\ loop = None
    /\ calls = [c \in Callers |-> Idle]
    /\ promised = FALSE
    /\ prepared = [c \in Callers |-> 0]

\* The process is started again, or deployed with other settings: the only way out of load_failed.
Restart == \E s \in Deployments : Start(s)

At(c, pc) == calls[c].pc = pc
Goto(c, pc) == calls' = [calls EXCEPT ![c].pc = pc]
Answer(c, answer) ==
    calls' = [calls EXCEPT ![c] = [Idle EXCEPT !.pc = "done", !.late = calls[c].late,
                                               !.answer = answer]]

\* A call arrives; late says whether it was promised a pipeline.
Arrived(kind) == [Idle EXCEPT !.kind = kind, !.pc = "lookup", !.late = promised]

\* A probe takes the event loop and keeps it.
BeginProbe(c) ==
    /\ calls[c].pc \in {"idle", "done"} /\ loop = None
    /\ calls' = [calls EXCEPT ![c] = Arrived("probe")]
    /\ loop' = c
    /\ UNCHANGED <<procVars, promised, prepared>>

\* verify_internal_token comes before the pipeline is asked for: a call it refuses touches
\* nothing, and is left out.
BeginExtract(c) ==
    /\ calls[c].pc \in {"idle", "done"} /\ loop = None
    /\ calls' = [calls EXCEPT ![c] = Arrived("extract")]
    /\ UNCHANGED <<procVars, loop, promised, prepared>>

-----------------------------------------------------------------------------
(* The runtime.                                                             *)

\* The cache is consulted ...
LookUp(c) ==
    /\ At(c, "lookup")
    /\ IF cached = None
         THEN Goto(c, "build")
         ELSE calls' = [calls EXCEPT ![c].pc = "enter", ![c].of = cached]
    /\ UNCHANGED <<procVars, loop, promised, prepared>>

\* ... and a caller that missed makes a runtime, which is cached unless another came first.
Build(c) ==
    /\ At(c, "build")
    /\ runtime' = [runtime EXCEPT ![c] = New(settings)]
    /\ cached' = IF cached = None THEN c ELSE cached
    /\ calls' = [calls EXCEPT ![c].pc = "enter", ![c].of = c]
    /\ UNCHANGED <<settings, loop, promised, prepared>>

\* pipeline() returns: to status for a probe, with the pipeline to the body of an extraction.
Returned(c, pipe) ==
    calls' = [calls EXCEPT ![c].pc = IF calls[c].kind = "probe" THEN "status" ELSE "body",
                           ![c].pipe = pipe]

\* Mutant: the preparation is noted only when it has ended.
NotedAtTheEnd(rt) == rt

\* _initialized is set before the preparation begins.
Noted(rt) == [rt EXCEPT !.initialized = TRUE]

\* The state and _initialized are looked at, and _initialized set, without a switch of threads.
Enter(c) == LET rt == runtime[calls[c].of] IN
    /\ At(c, "enter")
    /\ \/ /\ rt.state \in {"disabled", "not_configured", "unsupported_provider"}
          /\ Returned(c, FALSE)
          /\ UNCHANGED <<runtime, prepared>>
       \/ /\ rt.state \notin {"disabled", "not_configured", "unsupported_provider"} /\ rt.initialized
          /\ Returned(c, rt.pipeline)
          /\ UNCHANGED <<runtime, prepared>>
       \/ /\ rt.state \notin {"disabled", "not_configured", "unsupported_provider"} /\ ~rt.initialized
          /\ runtime' = [runtime EXCEPT ![calls[c].of] = Noted(rt)]
          /\ prepared' = [prepared EXCEPT ![calls[c].of] = @ + 1]
          /\ Goto(c, "prepare")
    /\ UNCHANGED <<settings, cached, loop, promised>>

\* Mutant: a failed preparation leaves the state as it was.
FailedSilently(rt) == rt

\* Any exception of the preparation: load_failed, for as long as the process runs.
Failed(rt) == [rt EXCEPT !.state = "load_failed"]

\* Mutant: the adapters are used and not kept.
PreparedUnkept(rt) == [rt EXCEPT !.initialized = TRUE]

\* The adapters are prepared: the pipeline is there ...
Prepared(rt) == [rt EXCEPT !.initialized = TRUE, !.pipeline = TRUE]

Prepare(c) == LET rt == runtime[calls[c].of] IN
    /\ At(c, "prepare")
    /\ \/ /\ runtime' = [runtime EXCEPT ![calls[c].of] = Prepared(rt)]
          /\ Goto(c, "settle")
       \/ /\ runtime' = [runtime EXCEPT ![calls[c].of] = Failed(rt)]
          /\ Returned(c, FALSE)
    /\ UNCHANGED <<settings, cached, loop, promised, prepared>>

\* ... before the state says so.
Settle(c) == LET rt == runtime[calls[c].of] IN
    /\ At(c, "settle")
    /\ runtime' = [runtime EXCEPT ![calls[c].of].state = "ready"]
    /\ Returned(c, rt.pipeline)
    /\ UNCHANGED <<settings, cached, loop, promised, prepared>>

-----------------------------------------------------------------------------
(* Probes.                                                                  *)

\* ModelRuntime.status: nothing loads the optional models in this process, so that one that is
\* configured, or required, keeps the process unready.
ModelsReady ==
    LET states == {settings.detector, settings.embedder}
    IN  settings.provider /\ ~settings.required /\ states \subseteq {"not_configured"}

PipelineReady(state) == state \in {"disabled", "ready"}

\* runtime_status joins the two; the probe answers and leaves the loop.
Status(c) == LET state == runtime[calls[c].of].state IN
    /\ At(c, "status")
    /\ Answer(c, IF ModelsReady /\ PipelineReady(state) THEN "ready" ELSE "unready")
    /\ loop' = None
    /\ promised' = (promised \/ (ModelsReady /\ state = "ready"))
    /\ UNCHANGED <<procVars, prepared>>

-----------------------------------------------------------------------------
(* Extractions.                                                             *)

\* The body runs when the loop is free: no pipeline is 503; with one the answer depends on the
\* image alone (faces; empty, too large, invalid; failed inference).
Body(c) ==
    /\ At(c, "body") /\ loop = None
    /\ Answer(c, IF calls[c].pipe THEN "image" ELSE "not_ready")
    /\ UNCHANGED <<procVars, loop, promised, prepared>>

Step(c) ==
    \/ LookUp(c) \/ Build(c) \/ Enter(c) \/ Prepare(c) \/ Settle(c)
    \/ Status(c) \/ Body(c)

Next ==
    \/ Restart
    \/ \E c \in Callers : BeginProbe(c) \/ BeginExtract(c) \/ Step(c)

Spec == Init /\ [][Next]_vars

\* Threads and the event loop go on with what they do; a preparation ends.
FairSpec == Spec /\ \A c \in Callers : WF_vars(Step(c))

-----------------------------------------------------------------------------
(* Properties.                                                              *)

\* However many calls find a process cold, a runtime is prepared at most once, and only one
\* that its first caller had to make (test_insightface_pipeline_prepares_once calls it in turn).
PreparedOnce == \A c \in Callers : prepared[c] <= 1 /\ (cached = None => prepared[c] = 0)

\* Runtimes in use beside the cached one: the cache holds no lock while it makes one.
Strays == {c \in Callers : c # cached /\ prepared[c] > 0}

\* Once a probe has said that the pipeline is ready, no call that comes later makes a runtime of
\* its own, or is told that the pipeline is not ready: the state is set last, and nothing takes
\* a pipeline away.  Only callers that raced for a cold cache can break the promise: it may then
\* have been a stray's, while the cached runtime is not prepared, or never will be
\* (runtime.py:288).
ReadinessIsKept ==
    \A c \in Callers : calls[c].late =>
        calls[c].pc # "build" /\ (calls[c].answer \in {"not_ready", "unready"} => Strays # {})

\* A runtime somebody entered comes to rest in ready or load_failed, or the process is restarted:
\* probes do not report an unfinished preparation for good.
PreparationSettles ==
    \A c \in Callers :
        prepared[c] > 0 ~> prepared[c] = 0 \/ runtime[c].state \in {"ready", "load_failed"}

=============================================================================
