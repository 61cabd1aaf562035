-------------------------- MODULE ComputePipelines --------------------------
(***************************************************************************)
(* createPipeline of native/renderer/compute-pipeline.cpp: threads that    *)
(* need the same specialization of a compute pipeline share one compile    *)
(* through a promise, different ones compile side by side, and a failed    *)
(* compile is reported to its waiters and may be tried again.              *)
(***************************************************************************)
EXTENDS Integers

CONSTANTS
    Threads, Sizes,   \* requesting threads; threadgroup sizes asked for
    MaxTries,         \* bound: compiles begun per size
    None

VARIABLES
    pipelines,   \* _pipelines: sizes with a pipeline
    preparing,   \* _preparing: size -> the try whose future is pending, or 0
    future,      \* size -> try -> "none", "pending", "value" or "error"
    thr,         \* thread -> [pc, size, try]
    alive        \* size -> Vulkan pipelines in existence

vars == <<pipelines, preparing, future, thr, alive>>
Tries == 1 .. MaxTries
Idle == [pc |-> "idle", size |-> None, try |-> 0, got |-> None]

Init == /\ pipelines = {} /\ preparing = [s \in Sizes |-> 0]
        /\ future = [s \in Sizes |-> [n \in Tries |-> "none"]]
        /\ thr = [t \in Threads |-> Idle] /\ alive = [s \in Sizes |-> 0]

\* Under the lock: cached, someone else's future, or a promise of one's own.
BeingPrepared(s) == preparing[s] # 0

createPipeline(t, s) ==
    LET call == [Idle EXCEPT !.size = s]
    IN /\ thr[t].pc = "idle"
       /\ \/ s \in pipelines /\ thr' = [thr EXCEPT ![t].got = s] /\ UNCHANGED <<preparing, future>>
          \/ /\ s \notin pipelines /\ BeingPrepared(s)
             /\ thr' = [thr EXCEPT ![t] = [call EXCEPT !.pc = "wait", !.try = preparing[s]]]
             /\ UNCHANGED <<preparing, future>>
          \/ /\ s \notin pipelines /\ ~BeingPrepared(s)
             /\ \E n \in Tries :
                  /\ future[s][n] = "none" /\ \A m \in Tries : m < n => future[s][m] # "none"
                  /\ preparing' = [preparing EXCEPT ![s] = n] /\ future' = [future EXCEPT ![s][n] = "pending"]
                  /\ thr' = [thr EXCEPT ![t] = [call EXCEPT !.pc = "compile", !.try = n]]
       /\ UNCHANGED <<pipelines, alive>>

\* Outside the lock: Vulkan compiles, or fails.
compile(t, ok) ==
    /\ thr[t].pc = "compile" /\ thr' = [thr EXCEPT ![t].pc = IF ok THEN "publish" ELSE "fail"]
    /\ alive' = IF ok THEN [alive EXCEPT ![thr[t].size] = @ + 1] ELSE alive
    /\ UNCHANGED <<pipelines, preparing, future>>

\* The pipeline is cached and the pending entry goes in one locked step; the
\* promise is fulfilled after it, or broken before the entry goes.
Cached(s) == pipelines \cup {s}
publish(t) ==
    /\ thr[t].pc = "publish" /\ thr' = [thr EXCEPT ![t].pc = "fulfil"]
    /\ pipelines' = Cached(thr[t].size) /\ preparing' = [preparing EXCEPT ![thr[t].size] = 0]
    /\ UNCHANGED <<future, alive>>

fulfil(t) ==
    /\ thr[t].pc = "fulfil" /\ thr' = [thr EXCEPT ![t] = [Idle EXCEPT !.got = thr[t].size]]
    /\ future' = [future EXCEPT ![thr[t].size][thr[t].try] = "value"]
    /\ UNCHANGED <<pipelines, preparing, alive>>

\* set_exception, then the entry is erased so that a later call tries again.
Erased(s) == [preparing EXCEPT ![s] = 0]
Mut_NoException == "pending"
Broken == "error"
fail(t) ==
    /\ \/ /\ thr[t].pc = "fail" /\ thr' = [thr EXCEPT ![t].pc = "erase"]
          /\ future' = [future EXCEPT ![thr[t].size][thr[t].try] = Broken] /\ UNCHANGED preparing
       \/ /\ thr[t].pc = "erase" /\ thr' = [thr EXCEPT ![t] = Idle]
          /\ preparing' = Erased(thr[t].size) /\ UNCHANGED future
    /\ UNCHANGED <<pipelines, alive>>

\* pending.get(): the shared result, or the shared exception.
await(t) ==
    /\ thr[t].pc = "wait" /\ future[thr[t].size][thr[t].try] \in {"value", "error"}
    /\ thr' = [thr EXCEPT ![t] = IF future[thr[t].size][thr[t].try] = "value"
                                   THEN [Idle EXCEPT !.got = thr[t].size] ELSE Idle]
    /\ UNCHANGED <<pipelines, preparing, future, alive>>

Work(t) == (\E ok \in BOOLEAN : compile(t, ok)) \/ publish(t) \/ fulfil(t) \/ fail(t) \/ await(t)
Next == \E t \in Threads : Work(t) \/ \E s \in Sizes : createPipeline(t, s)
Spec == Init /\ [][Next]_vars

-----------------------------------------------------------------------------
\* A size is compiled by one thread at a time and cached at most once, so no
\* Vulkan pipeline is lost: whoever compiles owns the entry others wait on.
Compiles(t) == thr[t].pc \in {"compile", "publish", "fail", "erase"}
OneCompilePerSize ==
    /\ \A s \in Sizes : alive[s] <= 1
    /\ \A t, u \in Threads : Compiles(t) /\ Compiles(u) /\ thr[t].size = thr[u].size => t = u

\* Nobody waits on an abandoned promise: a pending future has a thread that
\* will settle it, also when the compile failed.
PendingHasOwner ==
    \A s \in Sizes, n \in Tries : future[s][n] = "pending" =>
      \E t \in Threads : /\ thr[t].size = s /\ thr[t].try = n
                         /\ thr[t].pc \in {"compile", "publish", "fulfil", "fail"}

\* A call that returned a pipeline returned one the cache owns.
GotCached == \A t \in Threads : thr[t].got # None => thr[t].got \in pipelines

Safety == OneCompilePerSize /\ PendingHasOwner /\ GotCached
=============================================================================
