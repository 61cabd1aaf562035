--------------------------- MODULE RenderPipelines ---------------------------
(***************************************************************************)
(* Compilation of one render pipeline state (native/renderer/              *)
(* render-pipeline.cpp) by draw threads and the bounded worker pool        *)
(* (indium/pipeline-workers.hpp): the cache probe, the fast link from      *)
(* shared shader libraries, the optimized compile that replaces it, the    *)
(* queue that rejects optional work when full, and the three teardowns     *)
(* (pipeline state, shader module, device) racing with queued builds.      *)
(*                                                                         *)
(* A call of the code is a plan of stages; what a stage does under one     *)
(* lock is one step.  Vulkan handles are abstracted to whether they exist. *)
(***************************************************************************)
EXTENDS Integers, Sequences, FiniteSets

CONSTANTS
    DrawThreads, Workers,
    Variants,       \* pipeline variants drawn: topology classes and "clamped"
    Prepared,       \* the variant preparePipeline compiles (triangle)
    Clamped,        \* variants that need depth clamp: never probed or linked
    MaxJobs,        \* the 64 queued jobs above which submit rejects
    MaxCalls,       \* bound: pipelineFor calls
    MaxOthers,      \* bound: jobs of other pipeline states
    None

ASSUME RenderPipelinesAssumption ==
    /\ Prepared \in Variants \ Clamped /\ Clamped \subseteq Variants
    /\ MaxJobs \in Nat \ {0} /\ {MaxCalls, MaxOthers} \subseteq Nat
    /\ IsFiniteSet(DrawThreads) /\ IsFiniteSet(Workers) /\ DrawThreads \cap Workers = {}
    /\ None \notin {"prepare", "optimize", "other", "library"}

VARIABLES
    jobs, background,   \* queued jobs of the pool and speculative builds
    thr,                \* thread -> [plan, v, held, job, failed]
    prep,               \* _preparation: "invalid", "queued", "done" or "failed"
    compiled,           \* _pipelines/_clampedPipelines: variants with an optimized pipeline
    linked, ready,      \* _linkedPipelines; _ready: variant -> null, linked, optimized
    optimizing, deferred, compiles, \* _optimizing, _deferredOptimization, _backgroundCompiles
    created, destroyed, \* Vulkan pipelines created and destroyed, per variant
    life,               \* the pipeline state: "alive", "waitPrep", "waitCompiles", "dead"
    lib,                \* shader library: [entry, once, built, owner]
    module,             \* shader module: "alive", "releasing" or "destroyed"
    running, closed,    \* GraphicsLibraries: _running and _closed
    calls, others

vars == <<jobs, background, thr, prep, compiled, linked, ready, optimizing, deferred,
          compiles, created, destroyed, life, lib, module, running, closed, calls, others>>
psoVars == <<compiled, linked, ready, created, destroyed>>
optVars == <<optimizing, deferred, compiles>>
libVars == <<lib, module, running, closed>>
bounds == <<calls, others>>

Threads == DrawThreads \cup Workers
Call(job, v, plan) == [plan |-> plan, v |-> v, held |-> FALSE, job |-> job, failed |-> FALSE]
Free == Call(None, None, <<>>)

\* submit: rejected, never blocking, when the queue is full.
Accepts(q) == Len(q) < MaxJobs

\* The constructor queues the preparation unless the pool rejects it, and the
\* shader's library build was queued when its module was created.
Init ==
    /\ \E room \in BOOLEAN : /\ prep = IF room THEN "queued" ELSE "invalid"
                             /\ jobs = IF room THEN <<[kind |-> "prepare", v |-> Prepared]>> ELSE <<>>
    /\ background = <<"library">> /\ thr = [t \in Threads |-> Free]
    /\ compiled = {} /\ linked = {} /\ ready = [v \in Variants |-> "null"]
    /\ optimizing = {} /\ deferred = {} /\ compiles = {}
    /\ created = [v \in Variants |-> 0] /\ destroyed = [v \in Variants |-> 0]
    /\ life = "alive" /\ module = "alive" /\ running = 0 /\ closed = FALSE
    /\ lib = [entry |-> TRUE, once |-> "fresh", built |-> FALSE, owner |-> None]
    /\ calls = 0 /\ others = 0

Stage(t, s) == thr[t].plan # <<>> /\ Head(thr[t].plan) = s
Is(t, S) == \E s \in S : Stage(t, s)
SetPlan(t, p) == thr' = [thr EXCEPT ![t].plan = p]

\* A stage that throws ends the call; a packaged_task keeps the error.
Throw(t) == thr' = [thr EXCEPT ![t].plan = <<>>, ![t].failed = TRUE]

-----------------------------------------------------------------------------
(* pipelineFor and the worker loop *)

\* A ready pipeline is returned without a lock, retrying a rejected
\* optimization; otherwise probe, link, wait for the preparation, compile.
pipelineFor(t, v) ==
    /\ t \in DrawThreads /\ thr[t].plan = <<>> /\ life = "alive" /\ calls < MaxCalls
    /\ calls' = calls + 1
    /\ thr' = [thr EXCEPT ![t] = Call(None, v,
                 CASE ready[v] # "null" /\ v \in deferred -> <<"optimize">>
                   [] ready[v] # "null" /\ v \notin deferred -> <<>>
                   [] ready[v] = "null" /\ v \in Clamped -> <<"compile">>
                   [] OTHER -> <<"probe", "link", "await", "compile">>)]
    /\ UNCHANGED <<jobs, background, prep, psoVars, optVars, life, libVars, others>>

\* Jobs first; speculative builds only while no pipeline state waits.
TakeJob(w) ==
    /\ w \in Workers /\ thr[w].job = None
    /\ \/ /\ jobs # <<>> /\ jobs' = Tail(jobs) /\ UNCHANGED background
          /\ thr' = [thr EXCEPT ![w] = Call(Head(jobs).kind, Head(jobs).v,
                CASE Head(jobs).kind = "prepare" -> <<"probe", "link", "compile">>
                  [] Head(jobs).kind = "optimize" -> <<"compile">>
                  [] OTHER -> <<>>)]
       \/ /\ jobs = <<>> /\ background # <<>> /\ background' = Tail(background) /\ UNCHANGED jobs
          /\ thr' = [thr EXCEPT ![w] = Call("library", None, <<"enter", "build", "leave">>)]
    /\ UNCHANGED <<prep, psoVars, optVars, life, libVars, bounds>>

\* The task's future becomes ready.
FinishJob(w) ==
    /\ thr[w].job # None /\ thr[w].plan = <<>>
    /\ prep' = IF thr[w].job = "prepare" THEN (IF thr[w].failed THEN "failed" ELSE "done") ELSE prep
    /\ compiles' = IF thr[w].job = "optimize" THEN compiles \ {thr[w].v} ELSE compiles
    /\ thr' = [thr EXCEPT ![w] = Free]
    /\ UNCHANGED <<jobs, background, psoVars, optimizing, deferred, life, libVars, bounds>>

OtherSubmits ==
    /\ others < MaxOthers /\ Accepts(jobs) /\ others' = others + 1
    /\ jobs' = Append(jobs, [kind |-> "other", v |-> None])
    /\ UNCHANGED <<background, thr, prep, psoVars, optVars, life, libVars, calls>>

-----------------------------------------------------------------------------
(* compilePipeline, as a probe of the pipeline cache or in full *)

\* Where a call goes on once it has a pipeline: a preparation whose probe
\* succeeded is finished, as is any draw.
AfterCompile(t) == IF Stage(t, "probe") \/ t \in DrawThreads THEN <<>> ELSE Tail(thr[t].plan)

compilePipeline(t) ==
    LET v == thr[t].v
    IN /\ Is(t, {"probe", "compile"}) /\ ~thr[t].held
       /\ \/ v \in compiled /\ SetPlan(t, AfterCompile(t)) /\ UNCHANGED created
          \/ /\ v \notin compiled /\ created' = [created EXCEPT ![v] = @ + 1]
             /\ thr' = [thr EXCEPT ![t].held = TRUE]
          \/ Stage(t, "probe") /\ v \notin compiled /\ SetPlan(t, Tail(thr[t].plan)) /\ UNCHANGED created
          \/ Stage(t, "compile") /\ v \notin compiled /\ Throw(t) /\ UNCHANGED created
       /\ UNCHANGED <<jobs, background, prep, compiled, linked, ready, destroyed, optVars, life, libVars, bounds>>

\* Under the lock: whoever published the variant first wins.
FirstToPublish(v) == v \notin compiled
publishPipeline(t) ==
    LET v == thr[t].v
    IN /\ thr[t].held
       /\ thr' = [thr EXCEPT ![t].held = FALSE, ![t].plan = AfterCompile(t)]
       /\ compiled' = compiled \cup {v}
       /\ ready' = IF FirstToPublish(v) THEN [ready EXCEPT ![v] = "optimized"] ELSE ready
       /\ destroyed' = IF FirstToPublish(v) THEN destroyed ELSE [destroyed EXCEPT ![v] = @ + 1]
       /\ UNCHANGED <<jobs, background, prep, linked, created, optVars, life, libVars, bounds>>

-----------------------------------------------------------------------------
(* Shader libraries: one build per module, by whoever comes first *)

\* GraphicsLibraries::get under call_once; a waiter blocks until once is done.
MayBuild(t) == Stage(t, "link") \/ (Stage(t, "build") /\ (lib.entry \/ module = "releasing"))

buildLibrary(t) ==
    /\ MayBuild(t) /\ lib.once = "fresh"
    /\ lib' = [lib EXCEPT !.once = "running", !.owner = t]
    /\ UNCHANGED <<jobs, background, thr, prep, psoVars, optVars, life, module, running, closed, bounds>>

libraryBuilt(t, ok) ==
    /\ lib.owner = t /\ lib.once = "running"
    /\ lib' = [lib EXCEPT !.once = "done", !.built = ok, !.owner = None]
    /\ UNCHANGED <<jobs, background, thr, prep, psoVars, optVars, life, module, running, closed, bounds>>

\* prepare's background job: nothing starts once the libraries are closed.
MayEnter == ~closed
Mut_ForgetRunning == running
Left == running - 1
backgroundStep(t) ==
    \/ /\ Stage(t, "enter") /\ UNCHANGED lib
       /\ IF MayEnter THEN running' = running + 1 /\ SetPlan(t, Tail(thr[t].plan))
                      ELSE running' = running /\ SetPlan(t, <<>>)
       /\ UNCHANGED <<jobs, background, prep, psoVars, optVars, life, module, closed, bounds>>
    \/ /\ Stage(t, "build") /\ (lib.once = "done" \/ ~MayBuild(t))
       /\ SetPlan(t, Tail(thr[t].plan))
       /\ UNCHANGED <<jobs, background, prep, psoVars, optVars, life, libVars, bounds>>
    \/ /\ Stage(t, "leave") /\ running' = Left /\ SetPlan(t, <<>>)
       /\ UNCHANGED <<jobs, background, prep, psoVars, optVars, life, lib, module, closed, bounds>>

\* linkPipeline's locked part; the compare-exchange publishes only into null.
Mut_Overwrite(v) == "linked"
LinkedReady(v) == IF ready[v] = "null" THEN "linked" ELSE ready[v]

linkPipeline(t) ==
    LET v == thr[t].v
        linkedPlan == IF t \in DrawThreads THEN <<"optimize">> ELSE Tail(thr[t].plan)
    IN /\ Stage(t, "link") /\ lib.once = "done"
       /\ \/ /\ lib.built /\ v \notin linked /\ SetPlan(t, linkedPlan)
             /\ linked' = linked \cup {v} /\ ready' = [ready EXCEPT ![v] = LinkedReady(v)]
          \/ lib.built /\ v \in linked /\ SetPlan(t, linkedPlan) /\ UNCHANGED <<linked, ready>>
          \/ v \notin linked /\ SetPlan(t, Tail(thr[t].plan)) /\ UNCHANGED <<linked, ready>>
       /\ UNCHANGED <<jobs, background, prep, compiled, created, destroyed, optVars, life, libVars, bounds>>

\* optimizeLater: mark, submit, and record the job or the rejection.
optimizeLater(t) ==
    LET v == thr[t].v
        skip == v \in optimizing \/ (v = Prepared /\ prep # "invalid")
    IN /\ Stage(t, "optimize")
       /\ optimizing' = IF skip THEN optimizing ELSE optimizing \cup {v}
       /\ SetPlan(t, IF skip THEN <<>> ELSE <<"submit">>)
       /\ UNCHANGED <<jobs, background, prep, psoVars, deferred, compiles, life, libVars, bounds>>

AfterRejection(v) == optimizing \ {v}
submitOptimize(t) ==
    LET v == thr[t].v
    IN /\ Stage(t, "submit") /\ SetPlan(t, <<>>)
       /\ IF Accepts(jobs)
            THEN /\ jobs' = Append(jobs, [kind |-> "optimize", v |-> v])
                 /\ compiles' = compiles \cup {v} /\ deferred' = deferred \ {v} /\ UNCHANGED optimizing
            ELSE /\ optimizing' = AfterRejection(v) /\ deferred' = deferred \cup {v} /\ UNCHANGED <<jobs, compiles>>
       /\ UNCHANGED <<background, prep, psoVars, life, libVars, bounds>>

\* A draw that found nothing waits for the preparation of its variant.
NothingToAwait(t) == thr[t].v # Prepared \/ prep = "invalid"
awaitPreparation(t) ==
    /\ Stage(t, "await")
    /\ \/ NothingToAwait(t) /\ SetPlan(t, Tail(thr[t].plan))
       \/ thr[t].v = Prepared /\ prep = "failed" /\ Throw(t)
       \/ /\ thr[t].v = Prepared /\ prep = "done"
          /\ SetPlan(t, IF ready[thr[t].v] # "null" THEN <<>> ELSE Tail(thr[t].plan))
    /\ UNCHANGED <<jobs, background, prep, psoVars, optVars, life, libVars, bounds>>

-----------------------------------------------------------------------------
(* Teardown *)

\* The destructor waits for the preparation, then for the background
\* compiles, before it destroys the pipelines.
Mut_NoWaitCompiles == TRUE
CompilesDone == compiles = {}
DestroyPSO ==
    /\ \/ /\ life = "alive" /\ \A t \in DrawThreads : thr[t].plan = <<>>
          /\ life' = "waitPrep" /\ UNCHANGED destroyed
       \/ life = "waitPrep" /\ prep # "queued" /\ life' = "waitCompiles" /\ UNCHANGED destroyed
       \/ /\ life = "waitCompiles" /\ CompilesDone /\ life' = "dead"
          /\ destroyed' = [v \in Variants |-> destroyed[v] + (IF v \in compiled THEN 1 ELSE 0)]
    /\ UNCHANGED <<jobs, background, thr, prep, compiled, linked, ready, created, optVars, libVars, bounds>>

\* The library object goes once no pipeline state holds its functions; a
\* queued build is cancelled, a running one is waited for.
BuildOver == lib.once = "done"
ReleaseModule ==
    /\ \/ life = "dead" /\ module = "alive" /\ module' = "releasing" /\ lib' = [lib EXCEPT !.entry = FALSE]
       \/ module = "releasing" /\ lib.once = "fresh" /\ lib' = [lib EXCEPT !.once = "done"] /\ UNCHANGED module
       \/ module = "releasing" /\ BuildOver /\ module' = "destroyed" /\ UNCHANGED lib
    /\ UNCHANGED <<jobs, background, thr, prep, psoVars, optVars, life, running, closed, bounds>>

\* close returns once no background build is running.
CloseLibraries ==
    /\ module = "destroyed" /\ ~closed /\ closed' = TRUE
    /\ UNCHANGED <<jobs, background, thr, prep, psoVars, optVars, life, lib, module, running, bounds>>

Step(t) ==
    \/ compilePipeline(t) \/ publishPipeline(t) \/ buildLibrary(t) \/ backgroundStep(t)
    \/ linkPipeline(t) \/ optimizeLater(t) \/ submitOptimize(t) \/ awaitPreparation(t)
    \/ \E ok \in BOOLEAN : libraryBuilt(t, ok)

Next ==
    \/ \E t \in Threads : Step(t)
    \/ \E t \in DrawThreads, v \in Variants : pipelineFor(t, v)
    \/ \E w \in Workers : TakeJob(w) \/ FinishJob(w)
    \/ OtherSubmits \/ DestroyPSO \/ ReleaseModule \/ CloseLibraries

\* Threads run: a pool worker that has something to do does it.
Fairness == /\ \A t \in Threads : WF_vars(Step(t))
            /\ \A w \in Workers : WF_vars(TakeJob(w) \/ FinishJob(w))
            /\ WF_vars(DestroyPSO) /\ WF_vars(ReleaseModule) /\ WF_vars(CloseLibraries)

Spec == Init /\ [][Next]_vars /\ Fairness

-----------------------------------------------------------------------------
(* Properties *)

\* Types.
TypeOK ==
    /\ Len(jobs) <= MaxJobs /\ prep \in {"invalid", "queued", "done", "failed"}
    /\ compiled \subseteq Variants /\ linked \subseteq Variants \ Clamped
    /\ ready \in [Variants -> {"null", "linked", "optimized"}]
    /\ deferred \subseteq Variants /\ compiles \subseteq Variants /\ running \in 0 .. Cardinality(Workers)

\* A job or a thread still works on this pipeline state.
Refers == \/ \E i \in DOMAIN jobs : jobs[i].kind \in {"prepare", "optimize"}
          \/ \E t \in Threads : thr[t].job \in {"prepare", "optimize"} \/ thr[t].held

\* The raw `this` of queued and running tasks never outlives the pipeline
\* state: the destructor's waits cover every job that was accepted.
TasksDoNotOutlivePSO == life = "dead" => ~Refers

\* Every Vulkan pipeline of a variant is destroyed exactly once: the loser of
\* a compile race right away, the published one by the destructor.
NoPipelineLeak ==
    \A v \in Variants : LET held == Cardinality({t \in Threads : thr[t].held /\ thr[t].v = v})
                            kept == IF v \in compiled /\ life # "dead" THEN 1 ELSE 0
                        IN created[v] = destroyed[v] + held + kept

\* A shader module is never destroyed under a running build of its library.
ModuleOutlivesBuild == module = "destroyed" => lib.once # "running"

\* Once the device has closed the libraries and the running builds have left,
\* no queued build starts any more.
ClosedStaysIdle == closed => running' <= running

\* A published pipeline is only ever replaced by a better one: null, linked,
\* optimized.
ReadyOnlyImproves ==
    \A v \in Variants : ready[v] = ready'[v] \/ ready[v] = "null" \/ ready'[v] = "optimized"

\* No step goes back: see the two parts.
OnlyForward == [][ClosedStaysIdle /\ ReadyOnlyImproves]_vars

\* A rejected optimization is not forgotten: a variant marked for retry is not
\* also marked as being optimized, unless a thread is submitting it right now.
RejectedIsRetried ==
    \A v \in deferred \cap optimizing : \E t \in Threads : thr[t].v = v /\ Stage(t, "submit")

\* Jobs, pipelines and modules live as long as they are used: see the parts.
PipelinesSound ==
    /\ TypeOK /\ TasksDoNotOutlivePSO /\ NoPipelineLeak
    /\ ModuleOutlivesBuild /\ RejectedIsRetried

\* Every call of a draw thread returns, full queue or not, and the teardown of
\* pipeline state, module and libraries completes once begun.
CallsEnd ==
    /\ \A t \in DrawThreads : []<>(thr[t].plan = <<>>)
    /\ life # "alive" ~> closed /\ running = 0
=============================================================================
