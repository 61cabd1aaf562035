------------------------ MODULE RenderPipelinesProofs ------------------------
(***************************************************************************)
(* Proofs about RenderPipelines: what the two runs of that module check on *)
(* two draw threads and one worker holds for every finite set of threads,  *)
(* every set of variants and every queue bound.                            *)
(***************************************************************************)
EXTENDS RenderPipelines, FiniteSetTheorems, TLAPS

(* The plans a call goes through, named: the provers then need only the    *)
(* heads and tails of PlanFacts, never the sequences.                      *)
Draw4 == <<"probe", "link", "await", "compile">>
Draw3 == <<"link", "await", "compile">>
Draw2 == <<"await", "compile">>
Prep3 == <<"probe", "link", "compile">>
Prep2 == <<"link", "compile">>
Compile == <<"compile">>
Optimize == <<"optimize">>
Submit == <<"submit">>
Lib3 == <<"enter", "build", "leave">>
Lib2 == <<"build", "leave">>
Lib1 == <<"leave">>

DrawPlans == {<<>>, Optimize, Submit, Compile, Draw4, Draw3, Draw2}
PreparePlans == {<<>>, Compile, Prep3, Prep2}
OptimizePlans == {<<>>, Compile}
LibraryPlans == {<<>>, Lib3, Lib2, Lib1}
Plans == DrawPlans \cup PreparePlans \cup LibraryPlans
Kinds == {"prepare", "optimize", "other"}

-----------------------------------------------------------------------------
(* The inductive invariant *)

ThreadRecord == [plan : Plans, v : Variants \cup {None}, held : BOOLEAN,
                 job : Kinds \cup {"library", None}, failed : BOOLEAN]
Typed ==
    /\ jobs \in Seq([kind : Kinds, v : Variants \cup {None}])
    /\ thr \in [Threads -> ThreadRecord]
    /\ optimizing \subseteq Variants /\ running \in Int
    /\ created \in [Variants -> Int] /\ destroyed \in [Variants -> Int]

\* What a thread can be doing: draw threads have no job, a worker's plan is a
\* rest of its job's, and only a call inside compilePipeline holds a pipeline.
ThreadOK(t) ==
    /\ t \in DrawThreads => thr[t].job = None /\ thr[t].plan \in DrawPlans
    /\ t \in Workers =>
          /\ thr[t].job \in {None, "other"} => thr[t].plan = <<>>
          /\ thr[t].job = "prepare" => thr[t].plan \in PreparePlans
          /\ thr[t].job = "optimize" => thr[t].plan \in OptimizePlans
          /\ thr[t].job = "library" => thr[t].plan \in LibraryPlans
    /\ thr[t].plan # <<>> /\ thr[t].job # "library" => thr[t].v \in Variants
    /\ thr[t].plan \in {Draw4, Draw3, Prep3, Prep2} => thr[t].v \notin Clamped
    /\ thr[t].held => Is(t, {"probe", "compile"})
ThreadsOK == \A t \in Threads : ThreadOK(t)

\* At most one preparation is queued or running, and then _preparation is
\* not ready.
PreparationOK ==
    /\ \A i \in DOMAIN jobs : jobs[i].kind = "prepare" =>
          /\ prep = "queued" /\ jobs[i].v = Prepared
          /\ \A j \in DOMAIN jobs : jobs[j].kind = "prepare" => i = j
          /\ \A w \in Threads : thr[w].job # "prepare"
    /\ \A w \in Threads : thr[w].job = "prepare" =>
          prep = "queued" /\ \A u \in Threads : thr[u].job = "prepare" => u = w

\* At most one optimized compile of a variant is being submitted, queued or
\* running, and _backgroundCompiles covers the accepted ones.
Submitting(t, v) == Stage(t, "submit") /\ thr[t].v = v
OptimizationOK ==
    /\ \A t \in Threads : Stage(t, "submit") =>
          /\ thr[t].v \in optimizing \ compiles
          /\ \A u \in Threads : Submitting(u, thr[t].v) => u = t
    /\ \A i \in DOMAIN jobs : jobs[i].kind = "optimize" =>
          /\ jobs[i].v \in optimizing \cap compiles
          /\ \A j \in DOMAIN jobs : jobs[j].kind = "optimize" /\ jobs[j].v = jobs[i].v => i = j
          /\ \A w \in Threads : thr[w].job = "optimize" => thr[w].v # jobs[i].v
    /\ \A w \in Threads : thr[w].job = "optimize" =>
          /\ thr[w].v \in optimizing \cap compiles
          /\ \A u \in Threads : thr[u].job = "optimize" /\ thr[u].v = thr[w].v => u = w
    /\ compiles \subseteq optimizing

\* The destructor's waits, in their order.
TeardownOK ==
    /\ life \in {"alive", "waitPrep", "waitCompiles", "dead"}
    /\ life # "alive" => \A t \in DrawThreads : thr[t].plan = <<>>
    /\ life \in {"waitCompiles", "dead"} => prep # "queued"
    /\ life = "dead" => compiles = {}

\* _running counts the workers between entering and leaving a build.
Building == {t \in Threads : Is(t, {"build", "leave"})}
RunningOK == running = Cardinality(Building)

\* A destroyed module's build is over for good.
ModuleOK == module = "destroyed" => lib.once = "done"

Holders(v) == {t \in Threads : thr[t].held /\ thr[t].v = v}

IInv == /\ Typed /\ ThreadsOK /\ TypeOK /\ PreparationOK /\ OptimizationOK /\ TeardownOK
        /\ RunningOK /\ ModuleOK /\ NoPipelineLeak /\ RejectedIsRetried

-----------------------------------------------------------------------------
(* The plans *)

\* Heads and tails of the plans of pipelineFor and of the pool's jobs.
LEMMA PlanFacts ==
    /\ Head(Draw4) = "probe" /\ Tail(Draw4) = Draw3 /\ Draw4 # <<>>
    /\ Head(Draw3) = "link" /\ Tail(Draw3) = Draw2 /\ Draw3 # <<>>
    /\ Head(Draw2) = "await" /\ Tail(Draw2) = Compile /\ Draw2 # <<>>
    /\ Head(Prep3) = "probe" /\ Tail(Prep3) = Prep2 /\ Prep3 # <<>>
    /\ Head(Prep2) = "link" /\ Tail(Prep2) = Compile /\ Prep2 # <<>>
    /\ Head(Compile) = "compile" /\ Tail(Compile) = <<>> /\ Compile # <<>>
    /\ Head(Optimize) = "optimize" /\ Tail(Optimize) = <<>> /\ Optimize # <<>>
    /\ Head(Submit) = "submit" /\ Tail(Submit) = <<>> /\ Submit # <<>>
    /\ Head(Lib3) = "enter" /\ Tail(Lib3) = Lib2 /\ Lib3 # <<>>
    /\ Head(Lib2) = "build" /\ Tail(Lib2) = Lib1 /\ Lib2 # <<>>
    /\ Head(Lib1) = "leave" /\ Tail(Lib1) = <<>> /\ Lib1 # <<>>
BY DEF Draw4, Draw3, Draw2, Prep3, Prep2, Compile, Optimize, Submit, Lib3, Lib2, Lib1

\* What is left of a plan is a plan.
LEMMA TailIsPlan == ASSUME NEW p \in Plans, p # <<>> PROVE Tail(p) \in Plans
BY PlanFacts DEF Plans, DrawPlans, PreparePlans, LibraryPlans

\* A step of a call keeps its job and its variant and touches no other thread.
Touches(t) ==
    /\ thr' \in [Threads -> ThreadRecord]
    /\ thr'[t].job = thr[t].job /\ thr'[t].v = thr[t].v
    /\ \A u \in Threads \ {t} : thr'[u] = thr[u]

\* The four ways in which the code moves a call on: the next stage, an
\* exception, a pipeline just created, a pipeline just published.
LEMMA Moves ==
    ASSUME thr \in [Threads -> ThreadRecord], NEW t \in Threads, NEW p \in Plans
    PROVE  /\ SetPlan(t, p) => Touches(t) /\ thr'[t].plan = p /\ thr'[t].held = thr[t].held
           /\ Throw(t) => Touches(t) /\ thr'[t].plan = <<>> /\ thr'[t].held = thr[t].held
           /\ thr' = [thr EXCEPT ![t].held = TRUE] =>
                 Touches(t) /\ thr'[t].plan = thr[t].plan /\ thr'[t].held
           /\ thr' = [thr EXCEPT ![t].held = FALSE, ![t].plan = p] =>
                 Touches(t) /\ thr'[t].plan = p /\ ~thr'[t].held
<1> USE DEF ThreadRecord, Touches
<1>1. <<>> \in Plans
  BY DEF Plans, DrawPlans
<1>2. SetPlan(t, p) => Touches(t) /\ thr'[t].plan = p /\ thr'[t].held = thr[t].held
  BY DEF SetPlan
<1>3. Throw(t) => Touches(t) /\ thr'[t].plan = <<>> /\ thr'[t].held = thr[t].held
  BY <1>1, ZenonT(60) DEF Throw
<1>4. thr' = [thr EXCEPT ![t].held = TRUE] =>
          Touches(t) /\ thr'[t].plan = thr[t].plan /\ thr'[t].held
  BY ZenonT(60)
<1>5. thr' = [thr EXCEPT ![t].held = FALSE, ![t].plan = p] =>
          Touches(t) /\ thr'[t].plan = p /\ ~thr'[t].held
  BY ZenonT(60)
<1> QED BY <1>2, <1>3, <1>4, <1>5

\* Whoever leaves compilePipeline with a pipeline is done with its call.
LEMMA CompileEndsCall ==
    ASSUME Typed, NEW t \in Threads, Is(t, {"probe", "compile"}) PROVE AfterCompile(t) = <<>>
<1>1. thr[t].plan \in Plans
  BY DEF Typed, ThreadRecord
<1> QED BY <1>1, PlanFacts DEF Is, Stage, AfterCompile, Plans, DrawPlans, PreparePlans, LibraryPlans

\* Only draw threads hand work to the pool; only the pool builds in advance.
LEMMA OptimizesOnDraw ==
    ASSUME Typed, ThreadsOK, NEW t \in Threads
    PROVE  /\ Is(t, {"optimize", "submit", "await"}) => t \in DrawThreads
           /\ Is(t, {"enter", "build", "leave"}) => t \in Workers /\ thr[t].job = "library"
<1>1. thr[t].job \in {"prepare", "optimize", "other", "library", None} /\ t \in DrawThreads \cup Workers
  BY DEF Typed, ThreadRecord, Kinds, Threads
<1>2. ThreadOK(t)
  BY DEF ThreadsOK
<1> QED BY <1>1, <1>2, PlanFacts, SMTT(30)
        DEF ThreadOK, Is, Stage, DrawPlans, PreparePlans, OptimizePlans, LibraryPlans

\* Every step of a call leaves its thread with a rest of a plan of its job.
LEMMA StepThread ==
    ASSUME Typed, ThreadsOK, NEW t \in Threads, Step(t) PROVE Touches(t) /\ ThreadOK(t)'
<1> DEFINE p == thr[t].plan
<1>1. thr \in [Threads -> ThreadRecord] /\ p \in Plans /\ <<>> \in Plans
      /\ Optimize \in Plans /\ Submit \in Plans /\ (p # <<>> => Tail(p) \in Plans)
  BY TailIsPlan DEF Typed, ThreadRecord, Plans, DrawPlans
<1>2. ThreadOK(t) /\ (t \in DrawThreads => t \notin Workers) /\ t \in DrawThreads \cup Workers
  BY RenderPipelinesAssumption DEF ThreadsOK, Threads
<1>3. SUFFICES \/ Touches(t) /\ thr'[t].held = thr[t].held /\ thr'[t].plan = <<>>
                   /\ ~thr[t].held
               \/ /\ Touches(t) /\ thr'[t].held = thr[t].held /\ ~thr[t].held
                  /\ thr'[t].plan = Tail(p) /\ Is(t, {"probe", "link", "await", "enter", "build"})
               \/ /\ Touches(t) /\ thr'[t].held = thr[t].held /\ ~thr[t].held
                  /\ t \in DrawThreads /\ thr'[t].plan \in {Optimize, Submit} /\ p # <<>>
               \/ /\ Touches(t) /\ thr'[t].plan = p /\ (thr'[t].held => Is(t, {"probe", "compile"}))
               \/ Touches(t) /\ thr'[t].plan = <<>> /\ ~thr'[t].held
  <2>1. ASSUME Touches(t), thr'[t].plan = <<>>, ~thr'[t].held PROVE ThreadOK(t)'
    BY <1>2, <2>1, PlanFacts DEF ThreadOK, Touches, DrawPlans, PreparePlans, OptimizePlans, LibraryPlans
  <2>2. ASSUME Touches(t), ~thr'[t].held, thr'[t].plan = Tail(p), ~thr[t].held,
               Is(t, {"probe", "link", "await", "enter", "build"})
        PROVE  ThreadOK(t)'
    <3>1. p # <<>>
      BY <2>2 DEF Is, Stage
    <3>2. CASE t \in DrawThreads
      BY <1>2, <2>2, <3>1, <3>2, PlanFacts, ZenonT(60) DEF ThreadOK, Touches, DrawPlans, Is, Stage
    <3>3. CASE t \in Workers
      <4>1. thr[t].job \in {"prepare", "optimize", "library"}
        BY <1>1, <1>2, <3>1, <3>3 DEF ThreadRecord, Kinds, ThreadOK
      <4> QED BY <1>2, <2>2, <3>1, <3>3, <4>1, PlanFacts, RenderPipelinesAssumption, ZenonT(60)
              DEF ThreadOK, Touches, PreparePlans, OptimizePlans, LibraryPlans, Is, Stage
    <3> QED BY <3>2, <3>3, <1>2
  <2>3. ASSUME Touches(t), ~thr'[t].held, t \in DrawThreads, thr'[t].plan \in {Optimize, Submit}, p # <<>>
        PROVE  ThreadOK(t)'
    BY <1>2, <2>3, PlanFacts, RenderPipelinesAssumption DEF ThreadOK, Touches, DrawPlans
  <2>4. ASSUME Touches(t), thr'[t].plan = p, thr'[t].held => Is(t, {"probe", "compile"}) PROVE ThreadOK(t)'
    BY <1>2, <2>4 DEF ThreadOK, Touches, Is, Stage
  <2> QED BY <1>1, <2>1, <2>2, <2>3, <2>4 DEF ThreadRecord
<1>4. CASE compilePipeline(t)
  <2>1. AfterCompile(t) = <<>> /\ p # <<>> /\ ~thr[t].held
    BY <1>4, CompileEndsCall DEF compilePipeline, Is, Stage
  <2> QED BY <1>1, <1>4, <2>1, Moves DEF compilePipeline, Is
<1>5. CASE publishPipeline(t)
  <2>1. AfterCompile(t) = <<>>
    BY <1>5, <1>2, CompileEndsCall DEF publishPipeline, ThreadOK
  <2> QED BY <1>1, <1>5, <2>1, Moves DEF publishPipeline
<1>6. CASE buildLibrary(t) \/ \E ok \in BOOLEAN : libraryBuilt(t, ok)
  BY <1>1, <1>2, <1>6 DEF buildLibrary, libraryBuilt, Touches, ThreadOK
<1>7. CASE backgroundStep(t)
  BY <1>1, <1>2, <1>7, Moves DEF backgroundStep, Is, Stage, ThreadOK
<1>8. CASE linkPipeline(t)
  BY <1>1, <1>2, <1>8, Moves DEF linkPipeline, Is, Stage, ThreadOK, Optimize
<1>9. CASE optimizeLater(t)
  <2>1. t \in DrawThreads /\ p # <<>> /\ ~thr[t].held
    BY <1>2, <1>9, OptimizesOnDraw DEF optimizeLater, Is, Stage, ThreadOK
  <2> QED BY <1>1, <1>9, <2>1, Moves DEF optimizeLater, Submit
<1>10. CASE submitOptimize(t)
  BY <1>1, <1>2, <1>10, Moves DEF submitOptimize, Is, Stage, ThreadOK
<1>11. CASE awaitPreparation(t)
  BY <1>1, <1>2, <1>11, Moves DEF awaitPreparation, Is, Stage, ThreadOK
<1> QED BY <1>4, <1>5, <1>6, <1>7, <1>8, <1>9, <1>10, <1>11 DEF Step

\* A thread that begins or ends a call: it holds nothing, the others stay.
Begins(t) ==
    /\ thr' \in [Threads -> ThreadRecord] /\ ~thr'[t].held
    /\ \A u \in Threads \ {t} : thr'[u] = thr[u]

\* The head of a queue is its first element.
LEMMA HeadFacts ==
    ASSUME NEW S, NEW q \in Seq(S), q # <<>>
    PROVE  Head(q) = q[1] /\ 1 \in DOMAIN q /\ Head(q) \in S
OBVIOUS

\* pipelineFor starts with nothing held and one of four plans.
LEMMA CallBegins ==
    ASSUME Typed, ThreadsOK, NEW t \in DrawThreads, NEW v \in Variants, pipelineFor(t, v)
    PROVE  /\ Begins(t) /\ ThreadOK(t)' /\ thr'[t].job = None /\ thr'[t].v = v
           /\ thr'[t].plan \in {Optimize, <<>>, Compile, Draw4}
<1> DEFINE p == CASE ready[v] # "null" /\ v \in deferred -> <<"optimize">>
                  [] ready[v] # "null" /\ v \notin deferred -> <<>>
                  [] ready[v] = "null" /\ v \in Clamped -> <<"compile">>
                  [] OTHER -> <<"probe", "link", "await", "compile">>
<1>1. p \in {Optimize, <<>>, Compile, Draw4} /\ (p = Draw4 => v \notin Clamped)
  BY PlanFacts DEF Optimize, Compile, Draw4
<1>2. t \in Threads /\ t \notin Workers
  BY RenderPipelinesAssumption DEF Threads
<1> HIDE DEF p
<1>3. thr' = [thr EXCEPT ![t] = [plan |-> p, v |-> v, held |-> FALSE, job |-> None, failed |-> FALSE]]
  BY DEF pipelineFor, Call, p
<1>4. p \in Plans
  BY <1>1 DEF Plans, DrawPlans
<1>5. Begins(t) /\ thr'[t].job = None /\ thr'[t].v = v /\ thr'[t].plan = p
  BY <1>2, <1>3, <1>4 DEF Typed, Begins, ThreadRecord
<1>6. ThreadOK(t)'
  BY <1>1, <1>2, <1>5, PlanFacts DEF Begins, ThreadOK, DrawPlans
<1> QED BY <1>1, <1>5, <1>6

\* What a worker starts with: the first queued job, with a variant of this
\* pipeline state if it is one of its jobs, or a library build.
LEMMA JobBegins ==
    ASSUME IInv, NEW w \in Workers, TakeJob(w)
    PROVE  /\ Begins(w) /\ ThreadOK(w)' /\ thr'[w].plan \in {<<>>, Prep3, Compile, Lib3}
           /\ \/ /\ jobs # <<>> /\ jobs' = Tail(jobs)
                 /\ thr'[w].job = Head(jobs).kind /\ thr'[w].v = Head(jobs).v
              \/ jobs' = jobs /\ thr'[w].job = "library"
<1>1. w \in Threads /\ w \notin DrawThreads
  BY RenderPipelinesAssumption DEF Threads
<1>2. CASE jobs # <<>> /\ jobs' = Tail(jobs) /\ UNCHANGED background
  <2> DEFINE j == Head(jobs)
             p == CASE j.kind = "prepare" -> <<"probe", "link", "compile">>
                    [] j.kind = "optimize" -> <<"compile">>
                    [] OTHER -> <<>>
  <2>1. j = jobs[1] /\ 1 \in DOMAIN jobs /\ j \in [kind : Kinds, v : Variants \cup {None}]
    BY <1>2, HeadFacts DEF IInv, Typed
  <2>2. /\ j.kind \in Kinds /\ j.v \in Variants \cup {None}
        /\ j.kind = "prepare" => j.v = Prepared
        /\ j.kind = "optimize" => j.v \in Variants
    BY <2>1 DEF IInv, PreparationOK, OptimizationOK, Typed
  <2>3. /\ p \in {<<>>, Prep3, Compile}
        /\ j.kind = "prepare" => p = Prep3
        /\ j.kind = "optimize" => p = Compile
        /\ j.kind = "other" => p = <<>>
    BY <2>2 DEF Prep3, Compile, Kinds
  <2> HIDE DEF p
  <2>4. thr' = [thr EXCEPT ![w] = [plan |-> p, v |-> j.v, held |-> FALSE, job |-> j.kind, failed |-> FALSE]]
    BY <1>2 DEF TakeJob, Call, p
  <2>5. p \in Plans
    BY <2>3 DEF Plans, DrawPlans, PreparePlans
  <2> HIDE DEF j
  <2>6. Begins(w) /\ thr'[w].job = j.kind /\ thr'[w].v = j.v /\ thr'[w].plan = p
    BY <1>1, <2>2, <2>4, <2>5 DEF IInv, Typed, Begins, ThreadRecord
  <2>7. ThreadOK(w)'
    BY <1>1, <2>2, <2>3, <2>6, PlanFacts, RenderPipelinesAssumption
    DEF Begins, ThreadOK, Kinds, PreparePlans, OptimizePlans
  <2> QED BY <1>2, <2>3, <2>6, <2>7 DEF j
<1>3. CASE /\ jobs' = jobs
           /\ thr' = [thr EXCEPT ![w] = Call("library", None, <<"enter", "build", "leave">>)]
  <2>1. thr' = [thr EXCEPT ![w] = [plan |-> Lib3, v |-> None, held |-> FALSE, job |-> "library", failed |-> FALSE]]
    BY <1>3 DEF Call, Lib3
  <2>2. Lib3 \in Plans
    BY DEF Plans, LibraryPlans
  <2>3. Begins(w) /\ thr'[w].job = "library" /\ thr'[w].v = None /\ thr'[w].plan = Lib3
    BY <1>1, <2>1, <2>2 DEF IInv, Typed, Begins, ThreadRecord
  <2>4. ThreadOK(w)'
    BY <1>1, <2>3, PlanFacts, RenderPipelinesAssumption DEF Begins, ThreadOK, LibraryPlans
  <2> QED BY <1>3, <2>3, <2>4
<1> QED BY <1>2, <1>3 DEF TakeJob

\* A worker whose job is over is free again.
LEMMA JobEnds ==
    ASSUME Typed, ThreadsOK, NEW w \in Workers, FinishJob(w)
    PROVE  Begins(w) /\ ThreadOK(w)' /\ thr'[w].job = None /\ thr'[w].plan = <<>>
<1>1. w \in Threads /\ w \notin DrawThreads
  BY RenderPipelinesAssumption DEF Threads
<1>2. thr' = [thr EXCEPT ![w] = [plan |-> <<>>, v |-> None, held |-> FALSE, job |-> None, failed |-> FALSE]]
  BY DEF FinishJob, Free, Call
<1>3. <<>> \in Plans
  BY DEF Plans, DrawPlans
<1>4. Begins(w) /\ thr'[w].job = None /\ thr'[w].plan = <<>>
  BY <1>1, <1>2, <1>3 DEF Typed, Begins, ThreadRecord
<1> QED BY <1>1, <1>4, PlanFacts, RenderPipelinesAssumption DEF Begins, ThreadOK

-----------------------------------------------------------------------------
(* Each part is preserved *)

\* A next-state step is a step of a thread inside a call, the begin or the
\* end of one, or a step that leaves the threads alone.
LEMMA NextCases ==
    ASSUME Next
    PROVE  \/ \E t \in Threads : Step(t)
           \/ \E t \in DrawThreads, v \in Variants : pipelineFor(t, v)
           \/ \E w \in Workers : TakeJob(w)
           \/ \E w \in Workers : FinishJob(w)
           \/ (OtherSubmits \/ DestroyPSO \/ ReleaseModule \/ CloseLibraries) /\ thr' = thr
BY DEF Next, OtherSubmits, DestroyPSO, ReleaseModule, CloseLibraries

\* The threads' records and plans stay well formed.
LEMMA ThreadsStep ==
    ASSUME IInv, Next PROVE thr' \in [Threads -> ThreadRecord] /\ ThreadsOK'
<1> USE DEF Typed
<1>1. Typed /\ ThreadsOK
  BY DEF IInv
<1>2. ASSUME NEW t \in Threads, thr' \in [Threads -> ThreadRecord], ThreadOK(t)',
             \A u \in Threads \ {t} : thr'[u] = thr[u]
      PROVE  thr' \in [Threads -> ThreadRecord] /\ ThreadsOK'
  BY <1>1, <1>2, ZenonT(60) DEF ThreadsOK, ThreadOK, Is, Stage
<1>3. ASSUME NEW t \in Threads, Step(t) PROVE thr' \in [Threads -> ThreadRecord] /\ ThreadsOK'
  BY <1>1, <1>2, <1>3, StepThread DEF Touches
<1>4. ASSUME NEW t \in DrawThreads, NEW v \in Variants, pipelineFor(t, v)
      PROVE  thr' \in [Threads -> ThreadRecord] /\ ThreadsOK'
  BY <1>1, <1>2, <1>4, CallBegins DEF Begins, Threads
<1>5. ASSUME NEW w \in Workers, TakeJob(w) PROVE thr' \in [Threads -> ThreadRecord] /\ ThreadsOK'
  BY <1>2, <1>5, JobBegins DEF Begins, Threads
<1>6. ASSUME NEW w \in Workers, FinishJob(w) PROVE thr' \in [Threads -> ThreadRecord] /\ ThreadsOK'
  BY <1>1, <1>2, <1>6, JobEnds DEF Begins, Threads
<1>7. ASSUME thr' = thr PROVE thr' \in [Threads -> ThreadRecord] /\ ThreadsOK'
  BY <1>1, <1>7 DEF ThreadsOK, ThreadOK, Is, Stage
<1> QED BY <1>3, <1>4, <1>5, <1>6, <1>7, NextCases

\* The queue holds job records and never more of them than the pool accepts.
Jobs == [kind : Kinds, v : Variants \cup {None}]
LEMMA JobsStep == ASSUME IInv, Next PROVE jobs' \in Seq(Jobs) /\ Len(jobs') <= MaxJobs
<1>1. jobs \in Seq(Jobs) /\ Len(jobs) <= MaxJobs /\ MaxJobs \in Nat
  BY RenderPipelinesAssumption DEF IInv, Typed, TypeOK, Jobs
<1>2. \A j \in Jobs : Accepts(jobs) => Append(jobs, j) \in Seq(Jobs) /\ Len(Append(jobs, j)) <= MaxJobs
  <2> HIDE DEF Jobs
  <2> QED BY <1>1 DEF Accepts
<1>3. jobs # <<>> => Tail(jobs) \in Seq(Jobs) /\ Len(Tail(jobs)) <= MaxJobs
  <2> HIDE DEF Jobs
  <2> QED BY <1>1
<1>4. ASSUME NEW t \in Threads, submitOptimize(t) PROVE jobs' \in Seq(Jobs) /\ Len(jobs') <= MaxJobs
  <2>1. [kind |-> "optimize", v |-> thr[t].v] \in Jobs
    BY DEF IInv, Typed, ThreadRecord, Jobs, Kinds
  <2> QED BY <1>1, <1>2, <1>4, <2>1 DEF submitOptimize
<1>5. CASE OtherSubmits
  <2>1. [kind |-> "other", v |-> None] \in Jobs
    BY DEF Jobs, Kinds
  <2> QED BY <1>2, <1>5, <2>1 DEF OtherSubmits
<1>6. ASSUME NEW w \in Workers, TakeJob(w) PROVE jobs' \in Seq(Jobs) /\ Len(jobs') <= MaxJobs
  BY <1>1, <1>3, <1>6 DEF TakeJob
<1>7. ASSUME jobs' = jobs PROVE jobs' \in Seq(Jobs) /\ Len(jobs') <= MaxJobs
  BY <1>1, <1>7
<1> QED BY <1>4, <1>5, <1>6, <1>7
        DEF Next, Step, compilePipeline, publishPipeline, buildLibrary, backgroundStep, linkPipeline, optimizeLater,
            awaitPreparation, libraryBuilt, pipelineFor, FinishJob, DestroyPSO, ReleaseModule, CloseLibraries

\* A call works on a variant of this pipeline state, and links only those that
\* need no depth clamp.
LEMMA CallVariant ==
    ASSUME IInv, NEW t \in Threads
    PROVE  /\ Is(t, {"probe", "link", "await", "compile", "optimize", "submit"}) => thr[t].v \in Variants
           /\ thr[t].held => thr[t].v \in Variants
           /\ Stage(t, "link") => thr[t].v \in Variants \ Clamped
<1>1. ThreadOK(t) /\ thr[t].plan \in Plans
  BY DEF IInv, ThreadsOK, Typed, ThreadRecord
<1>2. Is(t, {"probe", "link", "await", "compile", "optimize", "submit"}) => thr[t].job # "library"
  <2>1. thr[t].job = "library" => t \in Workers
    BY <1>1, RenderPipelinesAssumption DEF ThreadOK, Threads
  <2> QED BY <1>1, <2>1, PlanFacts DEF ThreadOK, Is, Stage, LibraryPlans
<1>3. Stage(t, "link") => thr[t].plan \in {Draw3, Prep2}
  BY <1>1, PlanFacts DEF Plans, DrawPlans, PreparePlans, LibraryPlans, Stage
<1> QED BY <1>1, <1>2, <1>3 DEF ThreadOK, Is, Stage

\* The variant sets and the futures of one pipeline state.
StateTyped ==
    /\ prep \in {"invalid", "queued", "done", "failed"}
    /\ compiled \subseteq Variants /\ linked \subseteq Variants \ Clamped
    /\ ready \in [Variants -> {"null", "linked", "optimized"}]
    /\ deferred \subseteq Variants /\ compiles \subseteq Variants /\ optimizing \subseteq Variants
    /\ created \in [Variants -> Int] /\ destroyed \in [Variants -> Int]

\* The sets of a pipeline state stay sets of its variants.
LEMMA StateStep == ASSUME IInv, Next PROVE StateTyped'
<1>1. StateTyped
  BY DEF IInv, Typed, TypeOK, StateTyped
<1> USE DEF StateTyped, psoVars, optVars
<1>2. ASSUME NEW t \in Threads, compilePipeline(t) PROVE StateTyped'
  <2>1. thr[t].v \in Variants
    BY <1>2, CallVariant DEF compilePipeline, Is
  <2> QED BY <1>1, <1>2, <2>1 DEF compilePipeline
<1>3. ASSUME NEW t \in Threads, publishPipeline(t) PROVE StateTyped'
  <2>1. thr[t].v \in Variants
    BY <1>3, CallVariant DEF publishPipeline
  <2> QED BY <1>1, <1>3, <2>1 DEF publishPipeline
<1>4. ASSUME NEW t \in Threads, linkPipeline(t) PROVE StateTyped'
  <2>1. thr[t].v \in Variants \ Clamped
    BY <1>4, CallVariant DEF linkPipeline
  <2> QED BY <1>1, <1>4, <2>1 DEF linkPipeline, LinkedReady
<1>5. ASSUME NEW t \in Threads, optimizeLater(t) \/ submitOptimize(t) PROVE StateTyped'
  <2>1. thr[t].v \in Variants
    BY <1>5, CallVariant DEF optimizeLater, submitOptimize, Is
  <2> QED BY <1>1, <1>5, <2>1 DEF optimizeLater, submitOptimize, AfterRejection
<1>6. ASSUME NEW w \in Workers, FinishJob(w) PROVE StateTyped'
  BY <1>1, <1>6 DEF FinishJob
<1>7. CASE DestroyPSO
  BY <1>1, <1>7 DEF DestroyPSO
<1>8. ASSUME UNCHANGED <<prep, psoVars, optVars>> PROVE StateTyped'
  BY <1>1, <1>8
<1> HIDE DEF StateTyped, psoVars, optVars
<1> QED BY <1>2, <1>3, <1>4, <1>5, <1>6, <1>7, <1>8
        DEF Next, Step, buildLibrary, backgroundStep, awaitPreparation, libraryBuilt, pipelineFor, TakeJob,
            OtherSubmits, ReleaseModule, CloseLibraries

\* The destructor's waits stay in order: no call of a draw thread after it
\* began, no preparation after the first wait, no compile after the second.
LEMMA TeardownStep == ASSUME IInv, Next PROVE TeardownOK'
<1>1. TeardownOK /\ Typed /\ ThreadsOK
  BY DEF IInv
<1>2. ASSUME NEW t \in Threads, Step(t) PROVE TeardownOK'
  <2>1. Touches(t)
    BY <1>1, <1>2, StepThread
  <2>2. life' = life /\ prep' = prep
    BY <1>2 DEF Step, compilePipeline, publishPipeline, buildLibrary, backgroundStep, linkPipeline, optimizeLater,
                submitOptimize, awaitPreparation, libraryBuilt
  <2>3. life # "alive" => \A u \in DrawThreads : thr'[u].plan = <<>>
    <3>1. SUFFICES ASSUME life # "alive" PROVE \A u \in DrawThreads : thr'[u].plan = <<>>
      OBVIOUS
    <3>2. CASE t \notin DrawThreads
      BY <1>1, <2>1, <3>1, <3>2 DEF Touches, TeardownOK, Threads
    <3>3. CASE t \in DrawThreads
      <4>1. thr[t].plan = <<>> /\ ~thr[t].held
        BY <1>1, <3>1, <3>3 DEF TeardownOK, ThreadsOK, ThreadOK, Is, Stage
      <4>2. thr' = thr
        BY <1>2, <4>1 DEF Step, compilePipeline, publishPipeline, buildLibrary, backgroundStep, linkPipeline,
                          optimizeLater, submitOptimize, awaitPreparation, libraryBuilt, Is, Stage
      <4> QED BY <1>1, <3>1, <4>2 DEF TeardownOK
    <3> QED BY <3>2, <3>3
  <2>4. life = "dead" => compiles' = {}
    <3>1. CASE submitOptimize(t)
      BY <1>1, <3>1, OptimizesOnDraw DEF submitOptimize, Is, Stage, TeardownOK
    <3>2. CASE compiles' = compiles
      BY <1>1, <3>2 DEF TeardownOK
    <3> QED BY <1>2, <3>1, <3>2 DEF optVars, Step, compilePipeline, publishPipeline, buildLibrary, backgroundStep,
               linkPipeline, optimizeLater, awaitPreparation, libraryBuilt
  <2> QED BY <1>1, <2>2, <2>3, <2>4 DEF TeardownOK
<1>3. ASSUME NEW t \in DrawThreads, NEW v \in Variants, pipelineFor(t, v) PROVE TeardownOK'
  BY <1>3, <1>1 DEF pipelineFor, TeardownOK, optVars
<1>4. ASSUME NEW w \in Workers, TakeJob(w) PROVE TeardownOK'
  <2>1. Begins(w) /\ w \notin DrawThreads
    BY <1>4, JobBegins, RenderPipelinesAssumption
  <2> QED BY <1>1, <1>4, <2>1 DEF TakeJob, TeardownOK, optVars, Begins, Threads
<1>5. ASSUME NEW w \in Workers, FinishJob(w) PROVE TeardownOK'
  <2>1. Begins(w) /\ w \notin DrawThreads
    BY <1>1, <1>5, JobEnds, RenderPipelinesAssumption
  <2> QED BY <1>1, <1>5, <2>1 DEF FinishJob, TeardownOK, Begins, Threads
<1>6. CASE DestroyPSO
  BY <1>1, <1>6 DEF DestroyPSO, TeardownOK, CompilesDone, optVars
<1>7. CASE OtherSubmits \/ ReleaseModule \/ CloseLibraries
  BY <1>1, <1>7 DEF OtherSubmits, ReleaseModule, CloseLibraries, TeardownOK, optVars
<1> QED BY <1>2, <1>3, <1>4, <1>5, <1>6, <1>7, NextCases

\* The rest of a queue, and a queue with one more job.
LEMMA QueueFacts ==
    ASSUME NEW S, NEW q \in Seq(S), NEW e \in S
    PROVE  /\ q # <<>> => \A i \in DOMAIN Tail(q) :
                 i + 1 \in DOMAIN q /\ Tail(q)[i] = q[i + 1] /\ i \in Nat /\ i # 0
           /\ \A i \in DOMAIN Append(q, e) :
                 \/ i \in DOMAIN q /\ Append(q, e)[i] = q[i]
                 \/ i = Len(q) + 1 /\ Append(q, e)[i] = e
           /\ Len(q) + 1 \notin DOMAIN q
<1>1. q # <<>> => \A i \in DOMAIN Tail(q) :
          i + 1 \in DOMAIN q /\ Tail(q)[i] = q[i + 1] /\ i \in Nat /\ i # 0
  OBVIOUS
<1>2. \A i \in DOMAIN Append(q, e) :
          \/ i \in DOMAIN q /\ Append(q, e)[i] = q[i]
          \/ i = Len(q) + 1 /\ Append(q, e)[i] = e
  <2>1. DOMAIN q = 1 .. Len(q) /\ Len(q) \in Nat /\ DOMAIN Append(q, e) = 1 .. Len(q) + 1
    OBVIOUS
  <2>2. TAKE i \in DOMAIN Append(q, e)
  <2>3. i \in Nat /\ (i \in 1 .. Len(q) \/ i = Len(q) + 1)
    BY <2>1
  <2>4. CASE i \in 1 .. Len(q)
    BY <2>1, <2>4
  <2>5. CASE i = Len(q) + 1
    BY <2>1, <2>5
  <2> QED BY <2>3, <2>4, <2>5
<1>3. Len(q) + 1 \notin DOMAIN q
  OBVIOUS
<1> QED BY <1>1, <1>2, <1>3

\* One preparation, and _preparation is not ready before it ends.
LEMMA PreparationStep == ASSUME IInv, Next PROVE PreparationOK'
<1>1. PreparationOK /\ Typed /\ ThreadsOK /\ jobs \in Seq(Jobs)
  BY DEF IInv, Typed, Jobs
<1>2. ASSUME NEW j \in Jobs, j.kind # "prepare", jobs' = Append(jobs, j), prep' = prep,
             \A u \in Threads : thr'[u].job = thr[u].job
      PROVE  PreparationOK'
  <2>1. \A i \in DOMAIN jobs' : jobs'[i].kind = "prepare" => i \in DOMAIN jobs /\ jobs'[i] = jobs[i]
    BY <1>1, <1>2, QueueFacts
  <2> QED BY <1>1, <1>2, <2>1 DEF PreparationOK
<1>3. ASSUME jobs' = jobs, prep' = prep, \A u \in Threads : thr'[u].job = thr[u].job PROVE PreparationOK'
  BY <1>1, <1>3 DEF PreparationOK
<1>4. ASSUME NEW t \in Threads, Step(t) PROVE PreparationOK'
  <2>1. \A u \in Threads : thr'[u].job = thr[u].job
    BY <1>1, <1>4, StepThread DEF Touches
  <2>2. CASE submitOptimize(t)
    <3>1. [kind |-> "optimize", v |-> thr[t].v] \in Jobs
      BY DEF IInv, Typed, ThreadRecord, Jobs, Kinds
    <3> QED BY <1>2, <1>3, <2>1, <2>2, <3>1 DEF submitOptimize
  <2> QED BY <1>3, <1>4, <2>1, <2>2 DEF Step, compilePipeline, publishPipeline, buildLibrary, backgroundStep,
             linkPipeline, optimizeLater, awaitPreparation, libraryBuilt
<1>5. ASSUME NEW t \in DrawThreads, NEW v \in Variants, pipelineFor(t, v) PROVE PreparationOK'
  <2>1. \A u \in Threads : thr'[u].job = thr[u].job
    BY <1>1, <1>5, CallBegins DEF Begins, Threads, ThreadsOK, ThreadOK
  <2> QED BY <1>3, <1>5, <2>1 DEF pipelineFor
<1>6. ASSUME NEW w \in Workers, TakeJob(w) PROVE PreparationOK'
  <2>1. /\ w \in Threads /\ thr[w].job # "prepare" /\ prep' = prep
        /\ \A u \in Threads \ {w} : thr'[u].job = thr[u].job
    BY <1>6, JobBegins, RenderPipelinesAssumption DEF Begins, Threads, TakeJob
  <2>2. CASE jobs' = jobs /\ thr'[w].job = "library"
    BY <1>1, <2>1, <2>2 DEF PreparationOK
  <2>3. CASE jobs # <<>> /\ jobs' = Tail(jobs) /\ thr'[w].job = Head(jobs).kind
    <3>1. Head(jobs) = jobs[1] /\ 1 \in DOMAIN jobs /\ Head(jobs) \in Jobs
      BY <1>1, <2>3, HeadFacts
    <3>2. \A i \in DOMAIN jobs' : i + 1 \in DOMAIN jobs /\ jobs'[i] = jobs[i + 1] /\ i + 1 # 1 /\ i \in Nat
      BY <1>1, <2>3, <3>1, QueueFacts
    <3>3. ASSUME NEW i \in DOMAIN jobs', jobs'[i].kind = "prepare"
          PROVE  /\ prep' = "queued" /\ jobs'[i].v = Prepared
                 /\ \A j \in DOMAIN jobs' : jobs'[j].kind = "prepare" => i = j
                 /\ \A u \in Threads : thr'[u].job # "prepare"
      <4>1. i + 1 \in DOMAIN jobs /\ jobs[i + 1].kind = "prepare" /\ i + 1 # 1 /\ i \in Nat
        BY <3>2, <3>3
      <4>2. ASSUME NEW j \in DOMAIN jobs', jobs'[j].kind = "prepare" PROVE i = j
        <5>1. i + 1 = j + 1 /\ j \in Nat
          BY <1>1, <3>2, <4>1, <4>2 DEF PreparationOK
        <5> QED BY <4>1, <5>1
      <4> QED BY <1>1, <2>1, <2>3, <3>1, <3>2, <4>1, <4>2 DEF PreparationOK
    <3>4. ASSUME NEW u \in Threads, thr'[u].job = "prepare"
          PROVE  prep' = "queued" /\ \A x \in Threads : thr'[x].job = "prepare" => x = u
      BY <1>1, <2>1, <2>3, <3>1, <3>4 DEF PreparationOK
    <3> QED BY <3>3, <3>4 DEF PreparationOK
  <2> QED BY <1>6, <2>2, <2>3, JobBegins
<1>7. ASSUME NEW w \in Workers, FinishJob(w) PROVE PreparationOK'
  <2>1. /\ w \in Threads /\ thr'[w].job = None /\ jobs' = jobs /\ None # "prepare"
        /\ \A u \in Threads \ {w} : thr'[u].job = thr[u].job
    BY <1>1, <1>7, JobEnds, RenderPipelinesAssumption DEF Begins, Threads, FinishJob
  <2>2. thr[w].job # "prepare" => prep' = prep
    BY <1>7 DEF FinishJob
  <2> QED BY <1>1, <2>1, <2>2 DEF PreparationOK
<1>8. CASE OtherSubmits
  <2>1. [kind |-> "other", v |-> None] \in Jobs
    BY DEF Jobs, Kinds
  <2> QED BY <1>2, <1>8, <2>1 DEF OtherSubmits
<1>9. CASE (DestroyPSO \/ ReleaseModule \/ CloseLibraries) /\ thr' = thr
  BY <1>3, <1>9 DEF DestroyPSO, ReleaseModule, CloseLibraries
<1> QED BY <1>4, <1>5, <1>6, <1>7, <1>8, <1>9, NextCases

\* A destroyed module's library build is over.
LEMMA ModuleStep == ASSUME IInv, Next PROVE ModuleOK'
<1>1. ModuleOK
  BY DEF IInv
<1>2. CASE ReleaseModule
  BY <1>1, <1>2 DEF ReleaseModule, ModuleOK, BuildOver
<1>3. ASSUME NEW t \in Threads, buildLibrary(t) \/ \E ok \in BOOLEAN : libraryBuilt(t, ok) PROVE ModuleOK'
  BY <1>1, <1>3 DEF buildLibrary, libraryBuilt, ModuleOK
<1>4. ASSUME UNCHANGED <<lib, module>> PROVE ModuleOK'
  BY <1>1, <1>4 DEF ModuleOK
<1> QED BY <1>2, <1>3, <1>4
        DEF Next, Step, libVars, compilePipeline, publishPipeline, backgroundStep, linkPipeline, optimizeLater,
            submitOptimize, awaitPreparation, pipelineFor, TakeJob, FinishJob, OtherSubmits, DestroyPSO, CloseLibraries

\* Only optimizeLater brings a call to the submission of an optimized compile.
LEMMA SubmitArrival ==
    ASSUME Typed, ThreadsOK, NEW t \in Threads, Step(t), ~optimizeLater(t)
    PROVE  /\ Stage(t, "submit")' => Stage(t, "submit") /\ ~submitOptimize(t)
           /\ ~submitOptimize(t) => UNCHANGED <<jobs, optimizing, compiles>>
<1> DEFINE p == thr[t].plan
<1>1. thr \in [Threads -> ThreadRecord] /\ p \in Plans /\ <<>> \in Plans
      /\ Optimize \in Plans /\ (p # <<>> => Tail(p) \in Plans)
  BY TailIsPlan DEF Typed, ThreadRecord, Plans, DrawPlans
<1>2. (p # <<>> => Tail(p) # Submit) /\ Optimize # Submit /\ <<>> # Submit
  BY <1>1, PlanFacts DEF Plans, DrawPlans, PreparePlans, LibraryPlans
<1>3. thr'[t].plan \in {<<>>, Tail(p), Optimize, p} /\ (thr'[t].plan = Tail(p) => (p # <<>> \/ Tail(p) = p))
      /\ (submitOptimize(t) => thr'[t].plan = <<>>)
  <2>1. CASE compilePipeline(t)
    <3>1. AfterCompile(t) = <<>> /\ p # <<>> /\ ~Stage(t, "submit")
      BY <2>1, CompileEndsCall DEF compilePipeline, Is, Stage
    <3> QED BY <1>1, <2>1, <3>1, Moves DEF compilePipeline, submitOptimize
  <2>2. CASE publishPipeline(t)
    <3>1. AfterCompile(t) = <<>> /\ p # <<>> /\ ~Stage(t, "submit")
      BY <2>2, CompileEndsCall DEF publishPipeline, ThreadsOK, ThreadOK, Is, Stage
    <3> QED BY <1>1, <2>2, <3>1, Moves DEF publishPipeline, submitOptimize
  <2>3. CASE (buildLibrary(t) \/ \E ok \in BOOLEAN : libraryBuilt(t, ok)) /\ ~submitOptimize(t)
    BY <2>3 DEF buildLibrary, libraryBuilt
  <2>4. CASE backgroundStep(t)
    BY <1>1, <2>4, Moves DEF backgroundStep, submitOptimize, Stage
  <2>5. CASE linkPipeline(t)
    BY <1>1, <2>5, Moves DEF linkPipeline, submitOptimize, Stage, Optimize
  <2>6. CASE submitOptimize(t)
    BY <1>1, <2>6, Moves DEF submitOptimize
  <2>7. CASE awaitPreparation(t)
    BY <1>1, <2>7, Moves DEF awaitPreparation, submitOptimize, Stage
  <2> QED BY <2>1, <2>2, <2>3, <2>4, <2>5, <2>6, <2>7 DEF Step
<1>4. thr'[t].plan = Submit => p = Submit
  BY <1>2, <1>3
<1>5. thr'[t].plan \in Plans
  BY <1>1, <1>3, StepThread DEF Touches, ThreadRecord
<1>6. \A q \in Plans : q # <<>> /\ Head(q) = "submit" => q = Submit
  BY PlanFacts DEF Plans, DrawPlans, PreparePlans, LibraryPlans
<1>7. Stage(t, "submit")' => Stage(t, "submit") /\ ~submitOptimize(t)
  BY <1>2, <1>3, <1>4, <1>5, <1>6 DEF Stage
<1>8. ~submitOptimize(t) => UNCHANGED <<jobs, optimizing, compiles>>
  BY DEF Step, optVars, compilePipeline, publishPipeline, buildLibrary, backgroundStep, linkPipeline,
         awaitPreparation, libraryBuilt
<1> QED BY <1>7, <1>8

\* One optimized compile of a variant at a time, covered by _backgroundCompiles
\* from its acceptance to its end.
LEMMA OptimizationStep == ASSUME IInv, Next PROVE OptimizationOK'
<1>1. OptimizationOK /\ Typed /\ ThreadsOK /\ jobs \in Seq(Jobs)
  BY DEF IInv, Typed, Jobs
<1>2. ASSUME UNCHANGED <<jobs, optimizing, compiles>>,
             \A u \in Threads : Stage(u, "submit")' => Stage(u, "submit") /\ thr'[u].v = thr[u].v,
             \A u \in Threads : thr'[u].job = "optimize" => thr[u].job = "optimize" /\ thr'[u].v = thr[u].v
      PROVE  OptimizationOK'
  BY <1>1, <1>2 DEF OptimizationOK, Submitting
<1>3. ASSUME NEW t \in Threads, optimizeLater(t) PROVE OptimizationOK'
  <2>1. Touches(t)
    BY <1>1, <1>3, StepThread DEF Step
  <2>2. \/ thr'[t].plan = <<>> /\ UNCHANGED optimizing
        \/ thr[t].v \notin optimizing /\ optimizing' = optimizing \cup {thr[t].v}
    <3>1. <<>> \in Plans /\ <<"submit">> \in Plans /\ thr \in [Threads -> ThreadRecord]
      BY <1>1 DEF Plans, DrawPlans, Submit, Typed
    <3> QED BY <1>3, <3>1, Moves DEF optimizeLater
  <2>3. UNCHANGED <<jobs, compiles>>
    BY <1>3 DEF optimizeLater
  <2>4. \A u \in Threads : thr'[u].job = thr[u].job /\ thr'[u].v = thr[u].v
    BY <2>1 DEF Touches
  <2>5. \A u \in Threads \ {t} : Stage(u, "submit")' => Stage(u, "submit")
    BY <2>1 DEF Touches, Stage
  <2>6. CASE thr'[t].plan = <<>> /\ UNCHANGED optimizing
    <3>1. ~Stage(t, "submit")'
      BY <2>6 DEF Stage
    <3> QED BY <1>2, <2>3, <2>4, <2>5, <2>6, <3>1
  <2>7. CASE thr[t].v \notin optimizing /\ optimizing' = optimizing \cup {thr[t].v}
    BY <1>1, <2>3, <2>4, <2>5, <2>7 DEF OptimizationOK, Submitting
  <2> QED BY <2>2, <2>6, <2>7
<1>4. ASSUME NEW t \in Threads, submitOptimize(t) PROVE OptimizationOK'
  <2>1. Touches(t) /\ ~Stage(t, "submit")' /\ Stage(t, "submit")
    BY <1>1, <1>4, StepThread, SubmitArrival, PlanFacts DEF Step, optimizeLater, submitOptimize, Stage
  <2>2. \A u \in Threads : thr'[u].job = thr[u].job /\ thr'[u].v = thr[u].v
    BY <2>1 DEF Touches
  <2>3. \A u \in Threads : Stage(u, "submit")' => Stage(u, "submit") /\ u # t
    BY <2>1 DEF Touches, Stage
  <2>4. /\ thr[t].v \in optimizing \ compiles
        /\ \A u \in Threads : Stage(u, "submit")' => thr[u].v # thr[t].v
    BY <1>1, <2>1, <2>3 DEF OptimizationOK, Submitting
  <2>5. CASE Accepts(jobs)
    <3> DEFINE e == [kind |-> "optimize", v |-> thr[t].v]
    <3>1. e \in Jobs /\ e.kind = "optimize" /\ e.v = thr[t].v
      BY DEF IInv, Typed, ThreadRecord, Jobs, Kinds
    <3>2. jobs' = Append(jobs, e) /\ compiles' = compiles \cup {thr[t].v} /\ optimizing' = optimizing
      BY <1>4, <2>5 DEF submitOptimize
    <3> HIDE DEF e
    <3>3. \A i \in DOMAIN jobs' : \/ i \in DOMAIN jobs /\ jobs'[i] = jobs[i]
                                  \/ i = Len(jobs) + 1 /\ jobs'[i] = e
      BY <1>1, <3>1, <3>2, QueueFacts
    <3>4. ASSUME NEW u \in Threads, Stage(u, "submit")'
          PROVE  thr'[u].v \in optimizing' \ compiles' /\ \A x \in Threads : Submitting(x, thr[u].v)' => x = u
      BY <1>1, <2>2, <2>3, <2>4, <3>2, <3>4 DEF OptimizationOK, Submitting
    <3>5. ASSUME NEW i \in DOMAIN jobs', jobs'[i].kind = "optimize"
          PROVE  /\ jobs'[i].v \in optimizing' \cap compiles'
                 /\ \A j \in DOMAIN jobs' : jobs'[j].kind = "optimize" /\ jobs'[j].v = jobs'[i].v => i = j
                 /\ \A w \in Threads : thr'[w].job = "optimize" => thr'[w].v # jobs'[i].v
      BY <1>1, <2>2, <2>4, <3>1, <3>2, <3>3, <3>5 DEF OptimizationOK
    <3>6. ASSUME NEW w \in Threads, thr'[w].job = "optimize"
          PROVE  /\ thr'[w].v \in optimizing' \cap compiles'
                 /\ \A u \in Threads : thr'[u].job = "optimize" /\ thr'[u].v = thr'[w].v => u = w
      BY <1>1, <2>2, <3>2, <3>6 DEF OptimizationOK
    <3>7. compiles' \subseteq optimizing'
      BY <1>1, <2>4, <3>2 DEF OptimizationOK
    <3> QED BY <2>2, <3>4, <3>5, <3>6, <3>7 DEF OptimizationOK, Submitting
  <2>6. CASE ~Accepts(jobs)
    <3>1. jobs' = jobs /\ compiles' = compiles /\ optimizing' = optimizing \ {thr[t].v}
      BY <1>4, <2>6 DEF submitOptimize, AfterRejection
    <3> QED BY <1>1, <2>2, <2>3, <2>4, <3>1 DEF OptimizationOK, Submitting
  <2> QED BY <2>5, <2>6
<1>5. ASSUME NEW t \in Threads, Step(t), ~optimizeLater(t), ~submitOptimize(t) PROVE OptimizationOK'
  <2>1. Touches(t)
    BY <1>1, <1>5, StepThread
  <2>2. \A u \in Threads : thr'[u].job = thr[u].job /\ thr'[u].v = thr[u].v
    BY <2>1 DEF Touches
  <2>3. \A u \in Threads : Stage(u, "submit")' => Stage(u, "submit")
    BY <1>1, <1>5, <2>1, SubmitArrival DEF Touches, Stage
  <2> QED BY <1>1, <1>2, <1>5, <2>2, <2>3, SubmitArrival
<1>6. ASSUME NEW t \in DrawThreads, NEW v \in Variants, pipelineFor(t, v) PROVE OptimizationOK'
  <2>1. t \in Threads /\ Begins(t) /\ thr'[t].job = None /\ ~Stage(t, "submit")' /\ None # "optimize"
    BY <1>1, <1>6, CallBegins, PlanFacts, RenderPipelinesAssumption DEF Threads, Stage
  <2> QED BY <1>2, <1>6, <2>1 DEF pipelineFor, optVars, Begins, Stage
<1>7. ASSUME NEW w \in Workers, TakeJob(w) PROVE OptimizationOK'
  <2>1. /\ w \in Threads /\ Begins(w) /\ ~Stage(w, "submit")' /\ thr[w].job # "optimize"
        /\ UNCHANGED <<optimizing, compiles>>
    BY <1>7, JobBegins, PlanFacts, RenderPipelinesAssumption DEF Threads, Stage, TakeJob, optVars
  <2>2. \A u \in Threads \ {w} : thr'[u] = thr[u]
    BY <2>1 DEF Begins
  <2>3. \A u \in Threads : Stage(u, "submit")' => Stage(u, "submit") /\ u # w /\ thr'[u].v = thr[u].v
    BY <2>1, <2>2 DEF Stage
  <2>4. CASE jobs' = jobs /\ thr'[w].job = "library"
    BY <1>2, <2>1, <2>2, <2>3, <2>4
  <2>5. CASE jobs # <<>> /\ jobs' = Tail(jobs) /\ thr'[w].job = Head(jobs).kind /\ thr'[w].v = Head(jobs).v
    <3>1. Head(jobs) = jobs[1] /\ 1 \in DOMAIN jobs /\ Head(jobs) \in Jobs
      BY <1>1, <2>5, HeadFacts
    <3>2. \A i \in DOMAIN jobs' : i + 1 \in DOMAIN jobs /\ jobs'[i] = jobs[i + 1] /\ i + 1 # 1 /\ i \in Nat
      BY <1>1, <2>5, <3>1, QueueFacts
    <3>3. ASSUME NEW u \in Threads, Stage(u, "submit")'
          PROVE  thr'[u].v \in optimizing' \ compiles' /\ \A x \in Threads : Submitting(x, thr[u].v)' => x = u
      BY <1>1, <2>1, <2>3, <3>3 DEF OptimizationOK, Submitting
    <3>4. ASSUME NEW i \in DOMAIN jobs', jobs'[i].kind = "optimize"
          PROVE  /\ jobs'[i].v \in optimizing' \cap compiles'
                 /\ \A j \in DOMAIN jobs' : jobs'[j].kind = "optimize" /\ jobs'[j].v = jobs'[i].v => i = j
                 /\ \A x \in Threads : thr'[x].job = "optimize" => thr'[x].v # jobs'[i].v
      <4>1. i + 1 \in DOMAIN jobs /\ jobs'[i] = jobs[i + 1] /\ i + 1 # 1 /\ i \in Nat
        BY <3>2
      <4>2. ASSUME NEW j \in DOMAIN jobs', jobs'[j].kind = "optimize", jobs'[j].v = jobs'[i].v PROVE i = j
        <5>1. i + 1 = j + 1 /\ j \in Nat
          BY <1>1, <3>2, <3>4, <4>1, <4>2 DEF OptimizationOK
        <5> QED BY <4>1, <5>1
      <4> QED BY <1>1, <2>1, <2>2, <2>5, <3>1, <3>4, <4>1, <4>2 DEF OptimizationOK
    <3>5. ASSUME NEW u \in Threads, thr'[u].job = "optimize"
          PROVE  /\ thr'[u].v \in optimizing' \cap compiles'
                 /\ \A x \in Threads : thr'[x].job = "optimize" /\ thr'[x].v = thr'[u].v => x = u
      BY <1>1, <2>1, <2>2, <2>5, <3>1, <3>5 DEF OptimizationOK
    <3>6. compiles' \subseteq optimizing'
      BY <1>1, <2>1 DEF OptimizationOK
    <3> QED BY <2>3, <3>3, <3>4, <3>5, <3>6 DEF OptimizationOK, Submitting
  <2> QED BY <1>7, <2>4, <2>5, JobBegins
<1>8. ASSUME NEW w \in Workers, FinishJob(w) PROVE OptimizationOK'
  <2>1. /\ w \in Threads /\ Begins(w) /\ ~Stage(w, "submit")' /\ thr'[w].job # "optimize"
        /\ UNCHANGED <<jobs, optimizing>>
        /\ compiles' = IF thr[w].job = "optimize" THEN compiles \ {thr[w].v} ELSE compiles
    BY <1>1, <1>8, JobEnds, RenderPipelinesAssumption DEF Threads, Stage, FinishJob
  <2>2. \A u \in Threads \ {w} : thr'[u] = thr[u]
    BY <2>1 DEF Begins
  <2>3. \A u \in Threads : Stage(u, "submit")' => Stage(u, "submit") /\ thr'[u].v = thr[u].v
    BY <2>1, <2>2 DEF Stage
  <2> QED BY <1>1, <2>1, <2>2, <2>3 DEF OptimizationOK, Submitting
<1>9. CASE OtherSubmits /\ thr' = thr
  <2> DEFINE e == [kind |-> "other", v |-> None]
  <2>1. e \in Jobs /\ e.kind # "optimize" /\ jobs' = Append(jobs, e) /\ UNCHANGED <<optimizing, compiles>>
    BY <1>9 DEF Jobs, Kinds, OtherSubmits, optVars
  <2> HIDE DEF e
  <2>2. \A i \in DOMAIN jobs' : jobs'[i].kind = "optimize" => i \in DOMAIN jobs /\ jobs'[i] = jobs[i]
    BY <1>1, <2>1, QueueFacts
  <2> QED BY <1>1, <1>9, <2>1, <2>2 DEF OptimizationOK, Submitting, Stage
<1>10. CASE (DestroyPSO \/ ReleaseModule \/ CloseLibraries) /\ thr' = thr
  BY <1>2, <1>10 DEF DestroyPSO, ReleaseModule, CloseLibraries, optVars, Stage
<1> QED BY <1>3, <1>4, <1>5, <1>6, <1>7, <1>8, <1>9, <1>10, NextCases

\* A call that is about to submit does nothing else before.
LEMMA SubmitsNext ==
    ASSUME Typed, ThreadsOK, NEW t \in Threads, Step(t), ~submitOptimize(t), Stage(t, "submit")
    PROVE  thr' = thr
<1>1. ~thr[t].held
  BY DEF ThreadsOK, ThreadOK, Is, Stage
<1> QED BY <1>1 DEF Step, compilePipeline, publishPipeline, buildLibrary, backgroundStep, linkPipeline, optimizeLater,
           awaitPreparation, libraryBuilt, Is, Stage

\* A rejected optimization stays marked for a retry.
LEMMA RejectedStep == ASSUME IInv, Next PROVE RejectedIsRetried'
<1>1. RejectedIsRetried /\ Typed /\ ThreadsOK
  BY DEF IInv
<1>2. ASSUME UNCHANGED <<optimizing, deferred>>,
             \A u \in Threads : Stage(u, "submit") => Stage(u, "submit")' /\ thr'[u].v = thr[u].v
      PROVE  RejectedIsRetried'
  BY <1>1, <1>2 DEF RejectedIsRetried
<1>3. ASSUME NEW t \in Threads, optimizeLater(t) PROVE RejectedIsRetried'
  <2>1. Touches(t) /\ deferred' = deferred
    BY <1>1, <1>3, StepThread DEF Step, optimizeLater
  <2>2. \A u \in Threads : Stage(u, "submit") => Stage(u, "submit")' /\ thr'[u].v = thr[u].v
    BY <1>3, <2>1 DEF Touches, Stage, optimizeLater
  <2>3. \/ optimizing' = optimizing
        \/ optimizing' = optimizing \cup {thr[t].v} /\ Stage(t, "submit")' /\ thr'[t].v = thr[t].v
    <3>1. Submit \in Plans /\ thr \in [Threads -> ThreadRecord]
      BY <1>1 DEF Plans, DrawPlans, Typed
    <3>2. SetPlan(t, Submit) => Stage(t, "submit")' /\ thr'[t].v = thr[t].v
      BY <3>1, Moves, PlanFacts DEF Touches, Stage
    <3> QED BY <1>3, <3>2 DEF optimizeLater, Submit
  <2> QED BY <1>1, <2>1, <2>2, <2>3 DEF RejectedIsRetried
<1>4. ASSUME NEW t \in Threads, submitOptimize(t) PROVE RejectedIsRetried'
  <2>1. Touches(t)
    BY <1>1, <1>4, StepThread DEF Step
  <2>2. \A u \in Threads \ {t} : Stage(u, "submit") => Stage(u, "submit")' /\ thr'[u].v = thr[u].v
    BY <2>1 DEF Touches, Stage
  <2>3. \/ deferred' = deferred \ {thr[t].v} /\ optimizing' = optimizing
        \/ deferred' = deferred \cup {thr[t].v} /\ optimizing' = optimizing \ {thr[t].v}
    BY <1>4 DEF submitOptimize, AfterRejection
  <2> QED BY <1>1, <2>2, <2>3 DEF RejectedIsRetried
<1>5. ASSUME NEW t \in Threads, Step(t), ~optimizeLater(t), ~submitOptimize(t) PROVE RejectedIsRetried'
  <2>1. Touches(t) /\ (Stage(t, "submit") => thr' = thr)
    BY <1>1, <1>5, StepThread, SubmitsNext
  <2>2. UNCHANGED <<optimizing, deferred>>
    BY <1>5 DEF optVars, Step, compilePipeline, publishPipeline, buildLibrary, backgroundStep, linkPipeline,
                awaitPreparation, libraryBuilt
  <2> QED BY <1>2, <2>1, <2>2 DEF Touches, Stage
<1>6. ASSUME NEW t \in DrawThreads, NEW v \in Variants, pipelineFor(t, v) PROVE RejectedIsRetried'
  <2>1. Begins(t) /\ ~Stage(t, "submit")
    BY <1>1, <1>6, CallBegins DEF pipelineFor, Stage
  <2> QED BY <1>2, <1>6, <2>1 DEF pipelineFor, optVars, Begins, Stage
<1>7. ASSUME NEW w \in Workers, TakeJob(w) PROVE RejectedIsRetried'
  <2>1. Begins(w) /\ ~Stage(w, "submit")
    BY <1>1, <1>7, JobBegins DEF TakeJob, Stage, ThreadsOK, ThreadOK, Threads
  <2> QED BY <1>2, <1>7, <2>1 DEF TakeJob, optVars, Begins, Stage
<1>8. ASSUME NEW w \in Workers, FinishJob(w) PROVE RejectedIsRetried'
  <2>1. Begins(w) /\ ~Stage(w, "submit")
    BY <1>1, <1>8, JobEnds DEF FinishJob, Stage
  <2> QED BY <1>2, <1>8, <2>1 DEF FinishJob, Begins, Stage
<1>9. CASE (OtherSubmits \/ DestroyPSO \/ ReleaseModule \/ CloseLibraries) /\ thr' = thr
  BY <1>2, <1>9 DEF OtherSubmits, DestroyPSO, ReleaseModule, CloseLibraries, optVars, Stage
<1> QED BY <1>3, <1>4, <1>5, <1>6, <1>7, <1>8, <1>9, NextCases

\* Threads and their subsets are finite.
LEMMA ThreadsFinite ==
    IsFiniteSet(Threads) /\ \A S \in SUBSET Threads : IsFiniteSet(S) /\ Cardinality(S) \in Nat
<1>1. IsFiniteSet(Threads)
  BY RenderPipelinesAssumption, FS_Union DEF Threads
<1> QED BY <1>1, FS_Subset, FS_CardinalityType

\* One element more or less.
LEMMA CountFacts ==
    ASSUME NEW S \in SUBSET Threads, NEW t \in Threads
    PROVE  /\ t \notin S => Cardinality(S \cup {t}) = Cardinality(S) + 1
           /\ t \in S => Cardinality(S \ {t}) = Cardinality(S) - 1
BY ThreadsFinite, FS_AddElement, FS_RemoveElement

\* Only the steps of prepare's background job change whether a thread is inside a build.
LEMMA BuildsNext ==
    ASSUME IInv, Next, NEW t \in Threads, Step(t), ~backgroundStep(t)
    PROVE  Is(t, {"build", "leave"})' <=> Is(t, {"build", "leave"})
<1>1. Typed /\ ThreadsOK /\ ThreadOK(t) /\ Touches(t) /\ ThreadOK(t)'
  BY StepThread DEF IInv, ThreadsOK
<1>2. CASE thr[t].job = "library"
  <2>1. t \in Workers
    BY <1>1, <1>2, RenderPipelinesAssumption DEF ThreadOK, Threads
  <2>2. ~Is(t, {"probe", "link", "await", "compile", "optimize", "submit"}) /\ ~thr[t].held
    BY <1>1, <1>2, <2>1, PlanFacts DEF ThreadOK, LibraryPlans, Is, Stage
  <2>3. thr' = thr
    BY <2>2 DEF Step, compilePipeline, publishPipeline, buildLibrary, linkPipeline, optimizeLater, submitOptimize,
                awaitPreparation, libraryBuilt, Is
  <2> QED BY <2>3 DEF Is, Stage
<1>3. CASE thr[t].job # "library"
  <2>1. ~Is(t, {"build", "leave"})
    BY <1>1, <1>3, OptimizesOnDraw DEF Is
  <2>2. thr'[t].job \in {"prepare", "optimize", "other", None} /\ t \in DrawThreads \cup Workers
    BY <1>1, <1>3 DEF Touches, ThreadRecord, Kinds, Threads
  <2>3. ~Is(t, {"build", "leave"})'
    BY <1>1, <2>2, PlanFacts
    DEF Touches, ThreadOK, Is, Stage, DrawPlans, PreparePlans, OptimizePlans, LibraryPlans
  <2> QED BY <2>1, <2>3
<1> QED BY <1>2, <1>3

\* _running counts the builds under way.
LEMMA RunningStep == ASSUME IInv, Next PROVE RunningOK' /\ running' \in Int
<1>1. RunningOK /\ Typed /\ ThreadsOK /\ Building \subseteq Threads /\ Cardinality(Building) \in Nat
  BY ThreadsFinite DEF IInv, Building
<1>2. ASSUME UNCHANGED running,
             \A u \in Threads : Is(u, {"build", "leave"})' <=> Is(u, {"build", "leave"})
      PROVE  RunningOK' /\ running' \in Int
  <2>1. Building' = Building
    BY <1>2 DEF Building
  <2> QED BY <1>1, <1>2, <2>1 DEF RunningOK
<1>3. ASSUME NEW t \in Threads, backgroundStep(t) PROVE RunningOK' /\ running' \in Int
  <2> DEFINE p == thr[t].plan
  <2>1. t \in Workers /\ p \in LibraryPlans /\ p # <<>>
    BY <1>1, <1>3, OptimizesOnDraw DEF backgroundStep, Is, Stage, ThreadsOK, ThreadOK
  <2>2. thr \in [Threads -> ThreadRecord] /\ <<>> \in Plans /\ Tail(p) \in Plans
    BY <1>1, <2>1, TailIsPlan DEF Typed, Plans, DrawPlans
  <2>3. Touches(t)
    BY <1>1, <1>3, StepThread DEF Step
  <2>4. \A u \in Threads \ {t} : Is(u, {"build", "leave"})' <=> Is(u, {"build", "leave"})
    BY <2>3 DEF Touches, Is, Stage
  <2>5. CASE Stage(t, "enter") /\ MayEnter
    <3>1. p = Lib3 /\ SetPlan(t, Tail(p)) /\ running' = running + 1
      BY <1>3, <2>1, <2>5, PlanFacts DEF backgroundStep, Stage, LibraryPlans
    <3>2. ~Is(t, {"build", "leave"}) /\ Is(t, {"build", "leave"})'
      BY <2>2, <3>1, Moves, PlanFacts DEF Is, Stage
    <3>3. Building' = Building \cup {t} /\ t \notin Building
      BY <2>4, <3>2 DEF Building
    <3> QED BY <1>1, <3>1, <3>3, CountFacts DEF RunningOK
  <2>6. CASE Stage(t, "enter") /\ ~MayEnter
    <3>1. p = Lib3 /\ SetPlan(t, <<>>) /\ running' = running
      BY <1>3, <2>1, <2>6, PlanFacts DEF backgroundStep, Stage, LibraryPlans
    <3>2. ~Is(t, {"build", "leave"}) /\ ~Is(t, {"build", "leave"})'
      BY <2>2, <3>1, Moves, PlanFacts DEF Is, Stage
    <3> QED BY <1>2, <2>4, <3>1, <3>2
  <2>7. CASE Stage(t, "build")
    <3>1. p = Lib2 /\ SetPlan(t, Tail(p)) /\ running' = running
      BY <1>3, <2>1, <2>7, PlanFacts DEF backgroundStep, Stage, LibraryPlans, libVars
    <3>2. Is(t, {"build", "leave"}) /\ Is(t, {"build", "leave"})'
      <4>1. thr'[t].plan = Lib1
        BY <2>2, <3>1, Moves, PlanFacts
      <4> QED BY <2>7, <4>1, PlanFacts DEF Is, Stage
    <3> QED BY <1>2, <2>4, <3>1, <3>2
  <2>8. CASE Stage(t, "leave")
    <3>1. SetPlan(t, <<>>) /\ running' = running - 1
      BY <1>3, <2>8 DEF backgroundStep, Stage, Left
    <3>2. Is(t, {"build", "leave"}) /\ ~Is(t, {"build", "leave"})'
      BY <2>2, <2>8, <3>1, Moves, PlanFacts DEF Is, Stage
    <3>3. Building' = Building \ {t} /\ t \in Building
      BY <2>4, <3>2 DEF Building
    <3> QED BY <1>1, <3>1, <3>3, CountFacts DEF RunningOK
  <2> QED BY <1>3, <2>5, <2>6, <2>7, <2>8 DEF backgroundStep
<1>4. ASSUME NEW t \in Threads, Step(t), ~backgroundStep(t) PROVE RunningOK' /\ running' \in Int
  <2>1. \A u \in Threads : Is(u, {"build", "leave"})' <=> Is(u, {"build", "leave"})
    <3>1. Touches(t)
      BY <1>1, <1>4, StepThread
    <3>2. \A u \in Threads \ {t} : Is(u, {"build", "leave"})' <=> Is(u, {"build", "leave"})
      BY <3>1 DEF Touches, Is, Stage
    <3> QED BY <1>4, <3>2, BuildsNext
  <2>2. running' = running
    BY <1>4 DEF libVars, Step, compilePipeline, publishPipeline, buildLibrary, linkPipeline, optimizeLater,
                submitOptimize, awaitPreparation, libraryBuilt
  <2> QED BY <1>2, <2>1, <2>2
<1>5. ASSUME NEW t \in DrawThreads, NEW v \in Variants, pipelineFor(t, v) PROVE RunningOK' /\ running' \in Int
  <2>1. Begins(t) /\ ~Is(t, {"build", "leave"}) /\ ~Is(t, {"build", "leave"})'
    BY <1>1, <1>5, CallBegins, PlanFacts DEF pipelineFor, Is, Stage
  <2>2. \A u \in Threads : Is(u, {"build", "leave"})' <=> Is(u, {"build", "leave"})
    BY <2>1 DEF Begins, Is, Stage
  <2> QED BY <1>2, <1>5, <2>2 DEF pipelineFor, libVars
<1>6. ASSUME NEW w \in Workers, TakeJob(w) PROVE RunningOK' /\ running' \in Int
  <2>1. Begins(w) /\ ~Is(w, {"build", "leave"}) /\ ~Is(w, {"build", "leave"})'
    BY <1>1, <1>6, JobBegins, PlanFacts DEF TakeJob, Is, Stage, ThreadsOK, ThreadOK, Threads
  <2>2. \A u \in Threads : Is(u, {"build", "leave"})' <=> Is(u, {"build", "leave"})
    BY <2>1 DEF Begins, Is, Stage
  <2> QED BY <1>2, <1>6, <2>2 DEF TakeJob, libVars
<1>7. ASSUME NEW w \in Workers, FinishJob(w) PROVE RunningOK' /\ running' \in Int
  <2>1. Begins(w) /\ ~Is(w, {"build", "leave"}) /\ ~Is(w, {"build", "leave"})'
    BY <1>1, <1>7, JobEnds DEF FinishJob, Is, Stage
  <2>2. \A u \in Threads : Is(u, {"build", "leave"})' <=> Is(u, {"build", "leave"})
    BY <2>1 DEF Begins, Is, Stage
  <2> QED BY <1>2, <1>7, <2>2 DEF FinishJob, libVars
<1>8. CASE (OtherSubmits \/ DestroyPSO \/ ReleaseModule \/ CloseLibraries) /\ thr' = thr
  BY <1>2, <1>8 DEF OtherSubmits, DestroyPSO, ReleaseModule, CloseLibraries, libVars, Is, Stage
<1> QED BY <1>3, <1>4, <1>5, <1>6, <1>7, <1>8, NextCases

\* The raw pointers of queued and running tasks die before the pipeline state.
LEMMA DeadIsUnused == IInv => TasksDoNotOutlivePSO
<1> SUFFICES ASSUME IInv, life = "dead" PROVE ~Refers
  BY DEF TasksDoNotOutlivePSO
<1>1. prep # "queued" /\ compiles = {} /\ \A t \in DrawThreads : thr[t].plan = <<>>
  BY DEF IInv, TeardownOK
<1>2. \A i \in DOMAIN jobs : jobs[i].kind \notin {"prepare", "optimize"}
  BY <1>1 DEF IInv, PreparationOK, OptimizationOK
<1>3. \A t \in Threads : thr[t].job \notin {"prepare", "optimize"}
  BY <1>1 DEF IInv, PreparationOK, OptimizationOK
<1>4. ASSUME NEW t \in Threads PROVE ~thr[t].held
  <2>1. ThreadOK(t) /\ thr[t].job \in {None, "other", "library"}
    BY <1>3 DEF IInv, ThreadsOK, Typed, ThreadRecord, Kinds
  <2>2. CASE t \in DrawThreads
    BY <1>1, <2>1, <2>2 DEF ThreadOK, Is, Stage
  <2>3. CASE t \in Workers
    BY <2>1, <2>3, PlanFacts DEF ThreadOK, Is, Stage, LibraryPlans
  <2> QED BY <2>2, <2>3 DEF Threads
<1> QED BY <1>2, <1>3, <1>4 DEF Refers

\* Outside compilePipeline and publishPipeline nothing is picked up or put down.
LEMMA HoldsNext ==
    ASSUME Typed, ThreadsOK, NEW t \in Threads, Step(t), ~publishPipeline(t),
           ~(compilePipeline(t) /\ thr' = [thr EXCEPT ![t].held = TRUE])
    PROVE  thr'[t].held = thr[t].held /\ UNCHANGED <<created, destroyed, compiled>>
<1> DEFINE p == thr[t].plan
<1>1. thr \in [Threads -> ThreadRecord] /\ p \in Plans /\ <<>> \in Plans
      /\ Optimize \in Plans /\ Submit \in Plans /\ (p # <<>> => Tail(p) \in Plans)
  BY TailIsPlan DEF Typed, ThreadRecord, Plans, DrawPlans
<1>2. UNCHANGED <<created, destroyed, compiled>>
  BY DEF Step, psoVars, compilePipeline, buildLibrary, backgroundStep, linkPipeline, optimizeLater, submitOptimize,
         awaitPreparation, libraryBuilt
<1>3. CASE compilePipeline(t)
  <2>1. AfterCompile(t) = <<>> /\ p # <<>>
    BY <1>3, CompileEndsCall DEF compilePipeline, Is, Stage
  <2> QED BY <1>1, <1>2, <1>3, <2>1, Moves DEF compilePipeline
<1>4. CASE buildLibrary(t) \/ \E ok \in BOOLEAN : libraryBuilt(t, ok)
  BY <1>2, <1>4 DEF buildLibrary, libraryBuilt
<1>5. CASE backgroundStep(t)
  BY <1>1, <1>2, <1>5, Moves DEF backgroundStep, Stage
<1>6. CASE linkPipeline(t)
  BY <1>1, <1>2, <1>6, Moves DEF linkPipeline, Stage, Optimize
<1>7. CASE optimizeLater(t)
  BY <1>1, <1>2, <1>7, Moves DEF optimizeLater, Submit
<1>8. CASE submitOptimize(t)
  BY <1>1, <1>2, <1>8, Moves DEF submitOptimize
<1>9. CASE awaitPreparation(t)
  BY <1>1, <1>2, <1>9, Moves DEF awaitPreparation, Stage
<1> QED BY <1>3, <1>4, <1>5, <1>6, <1>7, <1>8, <1>9 DEF Step

\* One variant's account: every pipeline created is destroyed, in somebody's
\* hands or the published one of a living pipeline state.
Kept(v) == IF v \in compiled /\ life # "dead" THEN 1 ELSE 0
Account(v) == created[v] = destroyed[v] + Cardinality(Holders(v)) + Kept(v)

\* No pipeline is lost or destroyed twice.
LEMMA LeakStep == ASSUME IInv, Next PROVE NoPipelineLeak'
<1>1. Typed /\ ThreadsOK /\ \A v \in Variants : Account(v)
  BY DEF IInv, NoPipelineLeak, Account, Kept, Holders
<1>2. SUFFICES ASSUME NEW v \in Variants PROVE Account(v)'
  BY DEF NoPipelineLeak, Account, Kept, Holders
<1>3. /\ Holders(v) \in SUBSET Threads /\ Cardinality(Holders(v)) \in Nat
      /\ created[v] \in Int /\ destroyed[v] \in Int /\ Kept(v) \in Int
  BY <1>1, ThreadsFinite DEF Holders, Typed, Kept
<1>4. ASSUME UNCHANGED <<created, destroyed, compiled>>, life' = "dead" <=> life = "dead",
             \A u \in Threads : thr'[u].held = thr[u].held /\ (thr[u].held => thr'[u].v = thr[u].v)
      PROVE  Account(v)'
  <2>1. Holders(v)' = Holders(v)
    BY <1>4 DEF Holders
  <2> QED BY <1>1, <1>4, <2>1 DEF Account, Kept
<1>5. ASSUME NEW t \in Threads, Step(t) PROVE Account(v)'
  <2>1. Touches(t) /\ life' = life
    BY <1>1, <1>5, StepThread
    DEF Step, compilePipeline, publishPipeline, buildLibrary, backgroundStep, linkPipeline, optimizeLater,
        submitOptimize, awaitPreparation, libraryBuilt
  <2>2. CASE compilePipeline(t) /\ thr' = [thr EXCEPT ![t].held = TRUE]
    <3>1. /\ thr'[t].held /\ ~thr[t].held /\ thr[t].v \notin compiled /\ UNCHANGED <<destroyed, compiled>>
          /\ created' = [created EXCEPT ![thr[t].v] = @ + 1]
      <4>1. <<>> \in Plans /\ thr'[t].held /\ ~thr[t].held
        BY <1>1, <2>2, Moves DEF Typed, Plans, DrawPlans, compilePipeline
      <4>2. AfterCompile(t) = <<>>
        BY <1>1, <2>2, CompileEndsCall DEF compilePipeline
      <4>3. ~SetPlan(t, <<>>) /\ ~Throw(t) /\ (Stage(t, "probe") => ~SetPlan(t, Tail(thr[t].plan)))
        <5>1. Stage(t, "probe") => Tail(thr[t].plan) \in Plans
          BY <1>1, TailIsPlan DEF Typed, ThreadRecord, Stage
        <5> QED BY <1>1, <4>1, <5>1, Moves DEF Typed
      <4> QED BY <2>2, <4>1, <4>2, <4>3 DEF compilePipeline
    <3>2. CASE thr[t].v = v
      <4>1. Holders(v)' = Holders(v) \cup {t} /\ t \notin Holders(v)
        BY <2>1, <3>1, <3>2 DEF Holders, Touches
      <4>2. created'[v] = created[v] + 1
        BY <1>1, <1>2, <3>1, <3>2 DEF Typed
      <4> QED BY <1>1, <1>3, <2>1, <3>1, <4>1, <4>2, CountFacts DEF Account, Kept
    <3>3. CASE thr[t].v # v
      <4>1. Holders(v)' = Holders(v)
        BY <2>1, <3>1, <3>3 DEF Holders, Touches
      <4>2. created'[v] = created[v]
        BY <1>1, <1>2, <3>1, <3>3 DEF Typed
      <4> QED BY <1>1, <2>1, <3>1, <4>1, <4>2 DEF Account, Kept
    <3> QED BY <3>2, <3>3
  <2>3. CASE publishPipeline(t)
    <3>1. ~thr'[t].held /\ thr[t].held /\ UNCHANGED created /\ life # "dead"
      <4>1. AfterCompile(t) = <<>> /\ <<>> \in Plans
        BY <1>1, <2>3, CompileEndsCall DEF publishPipeline, ThreadsOK, ThreadOK, Plans, DrawPlans
      <4>2. ~thr'[t].held
        BY <1>1, <2>3, <4>1, Moves DEF Typed, publishPipeline
      <4>3. life # "dead"
        BY <2>3, DeadIsUnused DEF TasksDoNotOutlivePSO, Refers, publishPipeline
      <4> QED BY <2>3, <4>2, <4>3 DEF publishPipeline
    <3>2. CASE thr[t].v = v
      <4>1. Holders(v)' = Holders(v) \ {t} /\ t \in Holders(v)
        BY <2>1, <3>1, <3>2 DEF Holders, Touches
      <4>2. Cardinality(Holders(v)') = Cardinality(Holders(v)) - 1
        BY <1>3, <4>1, CountFacts
      <4>3. destroyed'[v] = destroyed[v] + (IF v \in compiled THEN 1 ELSE 0) /\ v \in compiled'
        BY <1>1, <1>2, <1>3, <2>3, <3>2 DEF publishPipeline, FirstToPublish, Typed
      <4> QED BY <1>1, <1>3, <2>1, <3>1, <4>2, <4>3 DEF Account, Kept
    <3>3. CASE thr[t].v # v
      <4>1. Holders(v)' = Holders(v)
        BY <2>1, <3>1, <3>3 DEF Holders, Touches
      <4>2. destroyed'[v] = destroyed[v] /\ (v \in compiled' <=> v \in compiled)
        BY <1>1, <1>2, <2>3, <3>3 DEF publishPipeline, Typed
      <4> QED BY <1>1, <2>1, <3>1, <4>1, <4>2 DEF Account, Kept
    <3> QED BY <3>2, <3>3
  <2>4. CASE ~publishPipeline(t) /\ ~(compilePipeline(t) /\ thr' = [thr EXCEPT ![t].held = TRUE])
    <3>1. thr'[t].held = thr[t].held /\ UNCHANGED <<created, destroyed, compiled>>
      BY <1>1, <1>5, <2>4, HoldsNext
    <3> QED BY <1>4, <2>1, <3>1 DEF Touches
  <2> QED BY <2>2, <2>3, <2>4
<1>6. ASSUME NEW t \in DrawThreads, NEW x \in Variants, pipelineFor(t, x) PROVE Account(v)'
  <2>1. t \in Threads /\ ~thr[t].held
    BY <1>1, <1>6 DEF pipelineFor, ThreadsOK, ThreadOK, Is, Stage, Threads
  <2>2. thr'[t].held \in BOOLEAN /\ thr[t].held \in BOOLEAN /\ Begins(t)
    BY <1>1, <1>6, <2>1, CallBegins DEF Begins, Typed, ThreadRecord
  <2>3. \A u \in Threads : thr'[u].held = thr[u].held /\ (thr[u].held => thr'[u].v = thr[u].v)
    BY <2>1, <2>2 DEF Begins
  <2> QED BY <1>4, <1>6, <2>3 DEF pipelineFor, psoVars
<1>7. ASSUME NEW w \in Workers, TakeJob(w) \/ FinishJob(w) PROVE Account(v)'
  <2>1. w \in Threads /\ ~thr[w].held
    BY <1>1, <1>7 DEF TakeJob, FinishJob, ThreadsOK, ThreadOK, Is, Stage, Threads
  <2>2. thr'[w].held \in BOOLEAN /\ thr[w].held \in BOOLEAN /\ Begins(w)
    BY <1>1, <1>7, <2>1, JobBegins, JobEnds DEF Begins, Typed, ThreadRecord
  <2>3. \A u \in Threads : thr'[u].held = thr[u].held /\ (thr[u].held => thr'[u].v = thr[u].v)
    BY <2>1, <2>2 DEF Begins
  <2> QED BY <1>4, <1>7, <2>3 DEF TakeJob, FinishJob, psoVars
<1>8. CASE DestroyPSO
  <2>1. Holders(v)' = Holders(v)
    BY <1>8 DEF DestroyPSO, Holders
  <2> QED BY <1>1, <1>3, <1>8, <2>1 DEF DestroyPSO, Account, Kept
<1>9. CASE (OtherSubmits \/ ReleaseModule \/ CloseLibraries) /\ thr' = thr
  BY <1>4, <1>9 DEF OtherSubmits, ReleaseModule, CloseLibraries, psoVars
<1> QED BY <1>5, <1>6, <1>7, <1>8, <1>9, NextCases

-----------------------------------------------------------------------------
(* The theorems *)

\* A new pipeline state satisfies the invariant.
LEMMA InitInv == Init => IInv
<1> SUFFICES ASSUME Init PROVE IInv
  OBVIOUS
<1>1. /\ <<>> \in Plans /\ thr = [t \in Threads |-> Free]
      /\ Free = [plan |-> <<>>, v |-> None, held |-> FALSE, job |-> None, failed |-> FALSE]
  BY DEF Init, Plans, DrawPlans, Free, Call
<1>2. \A t \in Threads : thr[t].plan = <<>> /\ ~thr[t].held /\ thr[t].job = None
  BY <1>1
<1>3. thr \in [Threads -> ThreadRecord]
  BY <1>1 DEF ThreadRecord
<1> DEFINE e == [kind |-> "prepare", v |-> Prepared]
<1>4. e \in Jobs /\ e.kind = "prepare" /\ e.v = Prepared
  BY RenderPipelinesAssumption DEF Jobs, Kinds
<1>5. \/ prep = "queued" /\ jobs = <<e>>
      \/ prep = "invalid" /\ jobs = <<>>
  BY DEF Init
<1> HIDE DEF e
<1>6. jobs \in Seq(Jobs) /\ Len(jobs) <= MaxJobs /\ \A i \in DOMAIN jobs : i = 1 /\ jobs[i] = e /\ prep = "queued"
  <2>1. MaxJobs \in Nat /\ MaxJobs >= 1
    BY RenderPipelinesAssumption
  <2>2. CASE jobs = <<>>
    BY <2>1, <2>2
  <2>3. CASE prep = "queued" /\ jobs = <<e>>
    <3>1. <<e>> \in Seq(Jobs) /\ Len(<<e>>) = 1 /\ <<e>>[1] = e /\ DOMAIN <<e>> = {1}
      BY <1>4
    <3> QED BY <2>1, <2>3, <3>1
  <2> QED BY <1>5, <2>2, <2>3
<1>7. Building = {} /\ \A v \in Variants : Holders(v) = {}
  BY <1>2 DEF Building, Holders, Is, Stage
<1>8. Cardinality(Building) = 0 /\ \A v \in Variants : Cardinality(Holders(v)) = 0
  BY <1>7, FS_EmptySet
<1>9. Cardinality(Workers) \in Nat
  BY RenderPipelinesAssumption, FS_CardinalityType
<1>10. Typed /\ TypeOK
  BY <1>3, <1>5, <1>6, <1>9 DEF Init, Typed, TypeOK, Jobs
<1>11. ThreadsOK
  BY <1>2, PlanFacts, RenderPipelinesAssumption
  DEF ThreadsOK, ThreadOK, DrawPlans, PreparePlans, OptimizePlans, LibraryPlans
<1>12. PreparationOK /\ OptimizationOK
  BY <1>2, <1>4, <1>6, RenderPipelinesAssumption DEF PreparationOK, OptimizationOK, Stage, Init
<1>13. TeardownOK /\ RunningOK /\ ModuleOK /\ RejectedIsRetried
  BY <1>2, <1>8 DEF Init, TeardownOK, RunningOK, ModuleOK, RejectedIsRetried
<1>14. NoPipelineLeak
  BY <1>8 DEF Init, NoPipelineLeak, Holders
<1> QED BY <1>10, <1>11, <1>12, <1>13, <1>14 DEF IInv

\* Every step preserves the invariant.
LEMMA NextInv == IInv /\ [Next]_vars => IInv'
<1> SUFFICES ASSUME IInv, [Next]_vars PROVE IInv'
  OBVIOUS
<1>1. CASE UNCHANGED vars
  BY <1>1, SMTT(30) DEF vars, IInv, Typed, TypeOK, ThreadsOK, ThreadOK, PreparationOK, OptimizationOK, Submitting, TeardownOK,
              RunningOK, Building, ModuleOK, NoPipelineLeak, RejectedIsRetried, Is, Stage
<1>2. CASE Next
  <2>1. StateTyped' /\ RunningOK' /\ running' \in Int
    BY <1>2, StateStep, RunningStep
  <2>2. thr' \in [Threads -> ThreadRecord] /\ ThreadsOK' /\ jobs' \in Seq(Jobs) /\ Len(jobs') <= MaxJobs
    BY <1>2, ThreadsStep, JobsStep
  <2>3. Typed'
    BY <2>1, <2>2 DEF StateTyped, Typed, Jobs
  <2>4. Building' \subseteq Workers
    <3>1. SUFFICES ASSUME NEW t \in Threads, Is(t, {"build", "leave"})' PROVE t \in Workers
      BY DEF Building
    <3>2. ThreadOK(t)' /\ t \in DrawThreads \cup Workers
      BY <2>2 DEF ThreadsOK, Threads
    <3> QED BY <3>1, <3>2, PlanFacts DEF ThreadOK, Is, Stage, DrawPlans
  <2>5. running' \in 0 .. Cardinality(Workers)
    BY <2>1, <2>4, RenderPipelinesAssumption, FS_Subset, FS_CardinalityType DEF RunningOK
  <2>6. TypeOK'
    BY <2>1, <2>2, <2>5 DEF StateTyped, TypeOK
  <2> QED BY <1>2, <2>1, <2>2, <2>3, <2>6, PreparationStep, OptimizationStep, TeardownStep, ModuleStep, LeakStep,
             RejectedStep DEF IInv
<1> QED BY <1>1, <1>2

\* The invariant holds in every reachable state of the worker pool and the
\* pipeline state it compiles for.
THEOREM Invariance == Spec => []IInv
<1>1. Init => IInv
  BY InitInv
<1>2. IInv /\ [Next]_vars => IInv'
  BY NextInv
<1> QED BY <1>1, <1>2, PTL DEF Spec

\* Whatever the number of draw threads and workers, the variants drawn and the
\* bound of the queue: no task outlives its pipeline state, every Vulkan
\* pipeline is destroyed exactly once, no module goes under its running build
\* and no rejected optimization is forgotten.
THEOREM PipelinesStaySound == Spec => []PipelinesSound
<1>1. IInv => PipelinesSound
  <2> SUFFICES ASSUME IInv PROVE PipelinesSound
    OBVIOUS
  <2>1. TasksDoNotOutlivePSO
    BY DeadIsUnused
  <2>2. ModuleOutlivesBuild
    BY DEF IInv, ModuleOK, ModuleOutlivesBuild
  <2> QED BY <2>1, <2>2 DEF PipelinesSound, IInv
<1> QED BY <1>1, Invariance, PTL

\* A closed device starts no library build, and a published pipeline is only
\* replaced by a better one.
THEOREM PipelinesOnlyForward == Spec => OnlyForward
<1> DEFINE Forward == ClosedStaysIdle /\ ReadyOnlyImproves
<1>1. ASSUME IInv, [Next]_vars PROVE [Forward]_vars
  <2>1. running \in Int /\ ready \in [Variants -> {"null", "linked", "optimized"}]
    BY <1>1 DEF IInv, Typed, TypeOK
  <2>2. CASE Next
    <3>1. ClosedStaysIdle
      <4>1. \/ running' = running
            \/ \E t \in Threads : backgroundStep(t)
        BY <2>2 DEF Next, Step, libVars, compilePipeline, publishPipeline, buildLibrary, linkPipeline, optimizeLater,
                    submitOptimize, awaitPreparation, libraryBuilt, pipelineFor, TakeJob, FinishJob, OtherSubmits,
                    DestroyPSO, ReleaseModule, CloseLibraries
      <4>2. ASSUME NEW t \in Threads, backgroundStep(t), closed PROVE running' <= running
        <5>1. running' = running \/ running' = running - 1
          BY <4>2 DEF backgroundStep, MayEnter, Left, libVars
        <5> QED BY <2>1, <5>1
      <4> QED BY <2>1, <4>1, <4>2 DEF ClosedStaysIdle
    <3>2. ReadyOnlyImproves
      <4>1. \/ ready' = ready
            \/ \E t \in Threads : publishPipeline(t) \/ linkPipeline(t)
        BY <2>2 DEF Next, Step, psoVars, compilePipeline, buildLibrary, backgroundStep, optimizeLater,
                    submitOptimize, awaitPreparation, libraryBuilt, pipelineFor, TakeJob, FinishJob, OtherSubmits,
                    DestroyPSO, ReleaseModule, CloseLibraries
      <4>2. ASSUME NEW t \in Threads, publishPipeline(t) PROVE ReadyOnlyImproves
        BY <2>1, <4>2 DEF publishPipeline, ReadyOnlyImproves
      <4>3. ASSUME NEW t \in Threads, linkPipeline(t) PROVE ReadyOnlyImproves
        BY <2>1, <4>3 DEF linkPipeline, LinkedReady, ReadyOnlyImproves
      <4> QED BY <4>1, <4>2, <4>3 DEF ReadyOnlyImproves
    <3> QED BY <3>1, <3>2
  <2> QED BY <1>1, <2>2
<1> QED BY <1>1, Invariance, PTL DEF Spec, OnlyForward
=============================================================================
