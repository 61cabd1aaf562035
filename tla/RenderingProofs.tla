-------------------------- MODULE RenderingProofs --------------------------
(***************************************************************************)
(* Proofs about the specification of the run `rendering`.  For compute     *)
(* pipelines, the pipeline cache and presentation semaphores the inductive *)
(* invariants are here; for uploads and the swapchain the lemmas of        *)
(* UploadQueueProofs and SwapchainProofs are carried over.  The constants  *)
(* of these parts may have any values.                                     *)
(***************************************************************************)
EXTENDS MCRendering, Sequences, TLAPS

-----------------------------------------------------------------------------
(* Parts *)

\* The part of a behaviour is chosen once, and its steps are that part's.
LEMMA RenderingStep ==
  ASSUME [Next]_vv
  PROVE  /\ part' = part
         /\ part = "compute" => [Compute!Next]_(Compute!vars)
         /\ part = "cache" => [Cache!Next]_(Cache!vars)
         /\ part = "semaphores" => [Semaphores!Next]_(Semaphores!vars)
         /\ part = "swapchain" => [Chain!Next]_(Chain!vars)
         /\ part = "uploads" => [Uploads!Next]_(Uploads!vars)
<1>1. CASE Next
  <2>1. part' = part
    BY <1>1 DEF Next, EncoderStep, RebindStep, SwitchStep, PairStep, StateStep, InlineStep, LayoutStep, QueuesStep,
             MemoryStep, FlushStep, ComputeStep, CacheStep, SemaphoresStep, SwapchainStep, UploadsStep
  <2>2. part = "compute" => ComputeStep
    BY <1>1 DEF Next, EncoderStep, RebindStep, SwitchStep, PairStep, StateStep, InlineStep, LayoutStep, QueuesStep,
             MemoryStep, FlushStep, ComputeStep, CacheStep, SemaphoresStep, SwapchainStep, UploadsStep
  <2>3. part = "cache" => CacheStep
    BY <1>1 DEF Next, EncoderStep, RebindStep, SwitchStep, PairStep, StateStep, InlineStep, LayoutStep, QueuesStep,
             MemoryStep, FlushStep, ComputeStep, CacheStep, SemaphoresStep, SwapchainStep, UploadsStep
  <2>4. part = "uploads" => UploadsStep
    BY <1>1 DEF Next, EncoderStep, RebindStep, SwitchStep, PairStep, StateStep, InlineStep, LayoutStep, QueuesStep,
             MemoryStep, FlushStep, ComputeStep, CacheStep, SemaphoresStep, SwapchainStep, UploadsStep
  <2>5. part = "semaphores" => SemaphoresStep
    BY <1>1 DEF Next, EncoderStep, RebindStep, SwitchStep, PairStep, StateStep, InlineStep, LayoutStep, QueuesStep,
             MemoryStep, FlushStep, ComputeStep, CacheStep, SemaphoresStep, SwapchainStep, UploadsStep
  <2>6. part = "swapchain" => SwapchainStep
    BY <1>1 DEF Next, EncoderStep, RebindStep, SwitchStep, PairStep, StateStep, InlineStep, LayoutStep, QueuesStep,
             MemoryStep, FlushStep, ComputeStep, CacheStep, SemaphoresStep, SwapchainStep, UploadsStep
  <2> QED BY <2>1, <2>2, <2>3, <2>4, <2>5, <2>6 DEF ComputeStep, CacheStep, SemaphoresStep, SwapchainStep, UploadsStep
<1>2. CASE UNCHANGED vv
  <2>1. UNCHANGED <<part, v1, v2, v3, v4, v5, v6, v7, v8, v9, v10, v11>>
    BY <1>2 DEF vv
  <2> QED BY <2>1 DEF Compute!vars, Cache!vars, Semaphores!vars, Chain!vars, Uploads!vars
<1> QED BY <1>1, <1>2

LEMMA RenderingInit ==
  ASSUME Init
  PROVE  /\ part = "compute" => Compute!Init
         /\ part = "cache" => Cache!Init
         /\ part = "semaphores" => Semaphores!Init
         /\ part = "swapchain" => Chain!Init
         /\ part = "uploads" => Uploads!Init
BY DEF Init

-----------------------------------------------------------------------------
(* Uploads *)

\* UploadsSound, which the run `rendering` checks, for rings, blocks and
\* alignments of any size (uploads.cpp).
THEOREM UploadsAlwaysSound ==
  ASSUME Ring \in Nat \ {0}, Align \in Nat \ {0}, MaxOps \in Nat \ {0}, Block \in Nat, StagingSizes \subseteq Nat,
         None \notin Uploads!Slots,
         None \notin [image : StagedImages, size : StagingSizes \cup {0}, slot : Uploads!Slots]
  PROVE  Spec => []UploadsSound
<1> DEFINE Inv == part = "uploads" => Uploads!IInv
<1>1. Uploads!Sized
  BY DEF Uploads!Sized, Uploads!Call
<1>2. Init => Inv
  <2> SUFFICES ASSUME Init, part = "uploads" PROVE Uploads!IInv
    OBVIOUS
  <2> QED BY <1>1, RenderingInit, Uploads!InitHolds
<1>3. Inv /\ [Next]_vv => Inv'
  <2> SUFFICES ASSUME Inv, [Next]_vv, part' = "uploads" PROVE Uploads!IInv'
    OBVIOUS
  <2>1. Uploads!IInv /\ [Uploads!Next]_(Uploads!vars)
    BY RenderingStep
  <2> QED BY <1>1, <2>1, Uploads!NextKeeps
<1>4. Inv => UploadsSound
  BY <1>1, Uploads!SafetyFollows DEF UploadsSound
<1> QED BY <1>2, <1>3, <1>4, PTL DEF Spec

-----------------------------------------------------------------------------
(* Compute pipelines *)

\* The variables, by their names in ComputePipelines.
pipelines == v1
preparing == v2
future == v3
thr == v4
alive == v5

Calls == [pc : {"idle", "wait", "compile", "publish", "fulfil", "fail", "erase"},
          size : GroupSizes \cup {None}, try : Nat, got : GroupSizes \cup {None}]
Settled == {"none", "pending", "value", "error"}
Busy == {"compile", "publish", "fail", "erase"}

ComputeTyped ==
  /\ pipelines \subseteq GroupSizes /\ preparing \in [GroupSizes -> {0} \cup Compute!Tries] /\ alive \in [GroupSizes -> Nat]
  /\ future \in [GroupSizes -> [Compute!Tries -> Settled]] /\ thr \in [Compilers -> Calls]
  /\ \A u \in Compilers : thr[u].pc # "idle" => thr[u].size \in GroupSizes /\ thr[u].try \in Compute!Tries

\* Whoever compiles a size has its entry, alone, and the size is not cached yet.
EntryOwned ==
  /\ \A u \in Compilers : thr[u].pc \in Busy => thr[u].size \notin pipelines /\ preparing[thr[u].size] = thr[u].try
  /\ \A u, w \in Compilers : thr[u].pc \in Busy /\ thr[w].pc \in Busy /\ thr[u].size = thr[w].size => u = w

\* A Vulkan pipeline is cached or about to be.
AliveOwned ==
  \A s \in GroupSizes :
    /\ alive[s] <= 1
    /\ alive[s] = 1 => s \in pipelines \/ \E u \in Compilers : thr[u].pc = "publish" /\ thr[u].size = s

\* A promise that is fulfilled, or about to be, stands for a cached pipeline.
ValuesCached ==
  /\ \A s \in GroupSizes, n \in Compute!Tries : future[s][n] = "value" => s \in pipelines
  /\ \A u \in Compilers : thr[u].pc = "fulfil" => thr[u].size \in pipelines

PendingOwned ==
  \A s \in GroupSizes, n \in Compute!Tries : future[s][n] = "pending" =>
    \E u \in Compilers : thr[u].size = s /\ thr[u].try = n /\ thr[u].pc \in {"compile", "publish", "fulfil", "fail"}
GotOwned == \A u \in Compilers : thr[u].got # None => thr[u].got \in pipelines

ComputeInv == ComputeTyped /\ EntryOwned /\ AliveOwned /\ ValuesCached /\ PendingOwned /\ GotOwned

\* A thread goes on to r.
CallTo(t, r) ==
  /\ thr' = [thr EXCEPT ![t] = r] /\ r \in Calls
  /\ r.pc # "idle" => r.size \in GroupSizes /\ r.try \in Compute!Tries

LEMMA CallMoves ==
  ASSUME ComputeInv, NEW t \in Compilers, NEW r, CallTo(t, r)
  PROVE  /\ thr'[t] = r /\ \A u \in Compilers : u # t => thr'[u] = thr[u]
         /\ thr' \in [Compilers -> Calls]
         /\ \A u \in Compilers : thr'[u].pc # "idle" => thr'[u].size \in GroupSizes /\ thr'[u].try \in Compute!Tries
<1> USE DEF thr
<1>1. thr \in [Compilers -> Calls]
  BY DEF ComputeInv, ComputeTyped
<1>2. thr'[t] = r /\ (\A u \in Compilers : u # t => thr'[u] = thr[u]) /\ thr' \in [Compilers -> Calls]
  BY <1>1 DEF CallTo
<1>3. \A u \in Compilers : thr[u].pc # "idle" => thr[u].size \in GroupSizes /\ thr[u].try \in Compute!Tries
  BY DEF ComputeInv, ComputeTyped
<1> QED BY <1>2, <1>3 DEF CallTo

\* One promise changes.
FutureSet(s, n, v) ==
  /\ future' \in [GroupSizes -> [Compute!Tries -> Settled]] /\ future'[s][n] = v
  /\ \A x \in GroupSizes, k \in Compute!Tries : x # s \/ k # n => future'[x][k] = future[x][k]
LEMMA FutureMoves ==
  ASSUME ComputeInv, NEW s \in GroupSizes, NEW n \in Compute!Tries, NEW v \in Settled,
         future' = [future EXCEPT ![s][n] = v]
  PROVE  FutureSet(s, n, v)
<1> USE DEF future
<1>1. PICK g \in [Compute!Tries -> Settled] : g = [future[s] EXCEPT ![n] = v]
  BY DEF ComputeInv, ComputeTyped
<1>2. future' = [future EXCEPT ![s] = g]
  BY <1>1
<1>3. g[n] = v /\ \A k \in Compute!Tries : k # n => g[k] = future[s][k]
  BY <1>1 DEF ComputeInv, ComputeTyped
<1>4. /\ future' \in [GroupSizes -> [Compute!Tries -> Settled]] /\ future'[s] = g
      /\ \A x \in GroupSizes : x # s => future'[x] = future[x]
  BY <1>2 DEF ComputeInv, ComputeTyped
<1> QED BY <1>3, <1>4 DEF FutureSet

\* A thread that compiled nothing and goes on compiling nothing, with no promise
\* to fulfil: it is answered, or begins to wait.
LEMMA CallOnly ==
  ASSUME ComputeInv, NEW t \in Compilers, NEW r, CallTo(t, r), UNCHANGED <<pipelines, preparing, future, alive>>,
         thr[t].pc \in {"idle", "wait"}, r.pc \in {"idle", "wait"}, r.got # None => r.got \in pipelines
  PROVE  ComputeInv'
<1> USE DEF pipelines, preparing, future, thr, alive
<1>1. /\ thr'[t] = r /\ \A u \in Compilers : u # t => thr'[u] = thr[u]
      /\ thr' \in [Compilers -> Calls]
      /\ \A u \in Compilers : thr'[u].pc # "idle" => thr'[u].size \in GroupSizes /\ thr'[u].try \in Compute!Tries
  BY CallMoves
<1>2. ComputeTyped'
  BY <1>1 DEF ComputeInv, ComputeTyped, Calls
<1>3. EntryOwned'
  BY <1>1 DEF ComputeInv, EntryOwned, Busy
<1>4. AliveOwned'
  BY <1>1 DEF ComputeInv, AliveOwned
<1>5. ValuesCached'
  BY <1>1 DEF ComputeInv, ValuesCached
<1>6. PendingOwned'
  BY <1>1 DEF ComputeInv, PendingOwned
<1>7. GotOwned'
  BY <1>1 DEF ComputeInv, GotOwned
<1> QED BY <1>2, <1>3, <1>4, <1>5, <1>6, <1>7 DEF ComputeInv

\* createPipeline begins a compile: the size has no entry, so nobody else compiles it.
LEMMA BeginKeeps ==
  ASSUME MaxTries \in Nat, ComputeInv, NEW t \in Compilers, NEW s \in GroupSizes, NEW n \in Compute!Tries,
         thr[t].pc = "idle", s \notin pipelines, preparing[s] = 0, future[s][n] = "none",
         preparing' = [preparing EXCEPT ![s] = n], future' = [future EXCEPT ![s][n] = "pending"],
         thr' = [thr EXCEPT ![t] = [[Compute!Idle EXCEPT !.size = s] EXCEPT !.pc = "compile", !.try = n]],
         UNCHANGED <<pipelines, alive>>
  PROVE  ComputeInv'
<1> USE DEF pipelines, preparing, future, thr, alive
<1>1. PICK r : r = [[Compute!Idle EXCEPT !.size = s] EXCEPT !.pc = "compile", !.try = n]
  OBVIOUS
<1>2. r = [pc |-> "compile", size |-> s, try |-> n, got |-> None]
  BY <1>1 DEF Compute!Idle
<1>3. r \in Calls /\ r.pc = "compile" /\ r.size = s /\ r.try = n /\ r.got = None /\ n \in Nat /\ n # 0
  BY <1>2 DEF Calls, Compute!Tries
<1>4. CallTo(t, r)
  BY <1>1, <1>3 DEF CallTo
<1>5. /\ thr'[t] = r /\ \A u \in Compilers : u # t => thr'[u] = thr[u]
      /\ thr' \in [Compilers -> Calls]
      /\ \A u \in Compilers : thr'[u].pc # "idle" => thr'[u].size \in GroupSizes /\ thr'[u].try \in Compute!Tries
  BY <1>4, CallMoves
<1>8. FutureSet(s, n, "pending")
  BY FutureMoves DEF Settled
<1>9. /\ preparing' \in [GroupSizes -> {0} \cup Compute!Tries] /\ preparing'[s] = n
      /\ \A x \in GroupSizes : x # s => preparing'[x] = preparing[x]
  BY DEF ComputeInv, ComputeTyped
<1>10. ASSUME NEW u \in Compilers, thr[u].pc \in Busy PROVE thr[u].size # s
  BY <1>10 DEF ComputeInv, EntryOwned, ComputeTyped, Compute!Tries, Busy
<1>11. ComputeTyped'
  BY <1>5, <1>8, <1>9 DEF FutureSet, ComputeInv, ComputeTyped, Calls
<1>12. EntryOwned'
  BY <1>3, <1>5, <1>9, <1>10 DEF ComputeInv, EntryOwned, Busy, ComputeTyped
<1>13. AliveOwned'
  BY <1>3, <1>5 DEF ComputeInv, AliveOwned
<1>14. ValuesCached'
  BY <1>3, <1>5, <1>8 DEF FutureSet, ComputeInv, ValuesCached
<1>15. PendingOwned'
  BY <1>3, <1>5, <1>8 DEF FutureSet, ComputeInv, PendingOwned
<1>16. GotOwned'
  BY <1>3, <1>5 DEF ComputeInv, GotOwned
<1> QED BY <1>11, <1>12, <1>13, <1>14, <1>15, <1>16 DEF ComputeInv

\* createPipeline finds the pipeline, a compile under way, or begins one.
LEMMA CreateKeeps ==
  ASSUME MaxTries \in Nat, ComputeInv, NEW t \in Compilers, NEW s \in GroupSizes, Compute!createPipeline(t, s)
  PROVE  ComputeInv'
<1> USE DEF pipelines, preparing, future, thr, alive
<1>1. thr[t] \in Calls /\ thr[t].pc = "idle" /\ UNCHANGED <<pipelines, alive>> /\ preparing \in [GroupSizes -> {0} \cup Compute!Tries]
  BY DEF Compute!createPipeline, ComputeInv, ComputeTyped
<1>2. CASE s \in pipelines /\ thr' = [thr EXCEPT ![t].got = s] /\ UNCHANGED <<preparing, future>>
  <2>1. PICK r : r = [thr[t] EXCEPT !.got = s]
    OBVIOUS
  <2>2. r \in Calls /\ r.pc = "idle" /\ r.got = s
    BY <1>1, <2>1 DEF Calls
  <2>3. CallTo(t, r)
    BY <1>2, <2>1, <2>2 DEF CallTo
  <2> QED BY <1>1, <1>2, <2>2, <2>3, CallOnly
<1>3. CASE /\ s \notin pipelines /\ preparing[s] # 0
           /\ thr' = [thr EXCEPT ![t] = [[Compute!Idle EXCEPT !.size = s] EXCEPT !.pc = "wait", !.try = preparing[s]]]
           /\ UNCHANGED <<preparing, future>>
  <2>1. PICK r : r = [[Compute!Idle EXCEPT !.size = s] EXCEPT !.pc = "wait", !.try = preparing[s]]
    OBVIOUS
  <2>2. r = [pc |-> "wait", size |-> s, try |-> preparing[s], got |-> None]
    BY <2>1 DEF Compute!Idle
  <2>3. r \in Calls /\ r.pc = "wait" /\ r.got = None /\ r.size = s /\ r.try \in Compute!Tries
    <3>1. preparing[s] \in Compute!Tries /\ preparing[s] \in Nat
      BY <1>1, <1>3 DEF Compute!Tries
    <3> QED BY <2>2, <3>1 DEF Calls
  <2>4. CallTo(t, r)
    BY <1>3, <2>1, <2>3 DEF CallTo
  <2> QED BY <1>1, <1>3, <2>3, <2>4, CallOnly
<1> QED BY <1>1, <1>2, <1>3, BeginKeeps DEF Compute!createPipeline, Compute!BeingPrepared

\* The compile succeeds or fails.
LEMMA CompileKeeps ==
  ASSUME ComputeInv, NEW t \in Compilers, NEW ok \in BOOLEAN, Compute!compile(t, ok) PROVE ComputeInv'
<1> USE DEF pipelines, preparing, future, thr, alive
<1>0. /\ thr[t].pc = "compile" /\ thr[t] \in Calls /\ UNCHANGED <<pipelines, preparing, future>>
      /\ thr' = [thr EXCEPT ![t].pc = IF ok THEN "publish" ELSE "fail"]
      /\ alive' = IF ok THEN [alive EXCEPT ![thr[t].size] = @ + 1] ELSE alive
      /\ thr[t].size \in GroupSizes /\ thr[t].try \in Compute!Tries
  BY DEF Compute!compile, ComputeInv, ComputeTyped
<1>1. PICK r, p : r = [thr[t] EXCEPT !.pc = p] /\ p = IF ok THEN "publish" ELSE "fail"
  OBVIOUS
<1>2. r \in Calls /\ r.pc = p /\ r.size = thr[t].size /\ r.try = thr[t].try /\ r.got = thr[t].got /\ p \in Busy
  BY <1>0, <1>1 DEF Calls, Busy
<1>3. CallTo(t, r)
  BY <1>0, <1>1, <1>2 DEF CallTo
<1>4. /\ thr'[t] = r /\ \A u \in Compilers : u # t => thr'[u] = thr[u]
      /\ thr' \in [Compilers -> Calls]
      /\ \A u \in Compilers : thr'[u].pc # "idle" => thr'[u].size \in GroupSizes /\ thr'[u].try \in Compute!Tries
  BY <1>3, CallMoves
<1>5. PICK s \in GroupSizes : s = thr[t].size
  BY <1>0
<1>6. s \notin pipelines /\ preparing[s] = thr[t].try /\ \A u \in Compilers : thr[u].pc \in Busy /\ thr[u].size = s => u = t
  BY <1>0, <1>5 DEF ComputeInv, EntryOwned, Busy
<1>7. alive[s] = 0
  <2>1. alive[s] \in Nat /\ alive[s] <= 1
    BY DEF ComputeInv, AliveOwned, ComputeTyped
  <2>2. alive[s] # 1
    BY <1>0, <1>5, <1>6 DEF ComputeInv, AliveOwned, Busy
  <2> QED BY <2>1, <2>2
<1>8. /\ alive' \in [GroupSizes -> Nat] /\ \A x \in GroupSizes : x # s => alive'[x] = alive[x]
      /\ alive'[s] = (IF ok THEN 1 ELSE 0)
  BY <1>0, <1>5, <1>7 DEF ComputeInv, ComputeTyped
<1>9. ComputeTyped'
  BY <1>0, <1>4, <1>8 DEF ComputeInv, ComputeTyped, Calls
<1>10. EntryOwned'
  BY <1>0, <1>2, <1>4 DEF ComputeInv, EntryOwned, Busy
<1>11. AliveOwned'
  <2>1. ASSUME NEW x \in GroupSizes, x # s PROVE /\ alive'[x] <= 1
                                                 /\ alive'[x] = 1 => x \in pipelines' \/ \E u \in Compilers : thr'[u].pc = "publish" /\ thr'[u].size = x
    BY <1>0, <1>2, <1>4, <1>5, <1>8, <2>1 DEF ComputeInv, AliveOwned
  <2>2. /\ alive'[s] <= 1
        /\ alive'[s] = 1 => s \in pipelines' \/ \E u \in Compilers : thr'[u].pc = "publish" /\ thr'[u].size = s
    <3>1. CASE ok
      <4>1. thr'[t].pc = "publish" /\ thr'[t].size = s /\ alive'[s] = 1
        BY <1>1, <1>2, <1>4, <1>5, <1>8, <3>1
      <4> QED BY <4>1
    <3>2. CASE ~ok
      BY <1>8, <3>2
    <3> QED BY <3>1, <3>2
  <2> QED BY <2>1, <2>2 DEF AliveOwned
<1>12. ValuesCached'
  BY <1>0, <1>2, <1>4 DEF ComputeInv, ValuesCached, Busy
<1>13. PendingOwned'
  BY <1>0, <1>1, <1>2, <1>4 DEF ComputeInv, PendingOwned, Busy
<1>14. GotOwned'
  BY <1>0, <1>2, <1>4 DEF ComputeInv, GotOwned
<1> QED BY <1>9, <1>10, <1>11, <1>12, <1>13, <1>14 DEF ComputeInv

\* The pipeline is cached and its entry goes.
LEMMA PublishKeeps == ASSUME ComputeInv, NEW t \in Compilers, Compute!publish(t) PROVE ComputeInv'
<1> USE DEF pipelines, preparing, future, thr, alive
<1>0. /\ thr[t].pc = "publish" /\ thr[t] \in Calls /\ UNCHANGED <<future, alive>>
      /\ thr' = [thr EXCEPT ![t].pc = "fulfil"]
      /\ pipelines' = pipelines \cup {thr[t].size} /\ preparing' = [preparing EXCEPT ![thr[t].size] = 0]
      /\ thr[t].size \in GroupSizes /\ thr[t].try \in Compute!Tries
  BY DEF Compute!publish, Compute!Cached, ComputeInv, ComputeTyped
<1>1. PICK r : r = [thr[t] EXCEPT !.pc = "fulfil"]
  OBVIOUS
<1>2. r \in Calls /\ r.pc = "fulfil" /\ r.size = thr[t].size /\ r.try = thr[t].try /\ r.got = thr[t].got
  BY <1>0, <1>1 DEF Calls
<1>3. CallTo(t, r)
  BY <1>0, <1>1, <1>2 DEF CallTo
<1>4. /\ thr'[t] = r /\ \A u \in Compilers : u # t => thr'[u] = thr[u]
      /\ thr' \in [Compilers -> Calls]
      /\ \A u \in Compilers : thr'[u].pc # "idle" => thr'[u].size \in GroupSizes /\ thr'[u].try \in Compute!Tries
  BY <1>3, CallMoves
<1>5. PICK s \in GroupSizes : s = thr[t].size
  BY <1>0
<1>6. \A u \in Compilers : thr[u].pc \in Busy /\ thr[u].size = s => u = t
  BY <1>0, <1>5 DEF ComputeInv, EntryOwned, Busy
<1>7. /\ preparing' \in [GroupSizes -> {0} \cup Compute!Tries]
      /\ \A x \in GroupSizes : x # s => preparing'[x] = preparing[x]
  BY <1>0, <1>5 DEF ComputeInv, ComputeTyped
<1>8. ComputeTyped'
  BY <1>0, <1>4, <1>7 DEF ComputeInv, ComputeTyped, Calls
<1>9. EntryOwned'
  <2>1. ASSUME NEW u \in Compilers, thr'[u].pc \in Busy PROVE u # t /\ thr'[u] = thr[u] /\ thr[u].size # s /\ thr[u].size \in GroupSizes
    BY <1>2, <1>4, <1>6, <2>1 DEF ComputeInv, ComputeTyped, Busy
  <2>2. ASSUME NEW u \in Compilers, thr'[u].pc \in Busy PROVE thr'[u].size \notin pipelines' /\ preparing'[thr'[u].size] = thr'[u].try
    BY <1>0, <1>5, <1>7, <2>1, <2>2 DEF ComputeInv, EntryOwned
  <2>3. ASSUME NEW u \in Compilers, NEW w \in Compilers, thr'[u].pc \in Busy, thr'[w].pc \in Busy, thr'[u].size = thr'[w].size PROVE u = w
    BY <2>1, <2>3 DEF ComputeInv, EntryOwned
  <2> QED BY <2>2, <2>3 DEF EntryOwned
<1>10. AliveOwned'
  <2>1. ASSUME NEW x \in GroupSizes PROVE /\ alive'[x] <= 1
                                          /\ alive'[x] = 1 => x \in pipelines' \/ \E u \in Compilers : thr'[u].pc = "publish" /\ thr'[u].size = x
    BY <1>0, <1>2, <1>4, <1>5 DEF ComputeInv, AliveOwned
  <2> QED BY <2>1 DEF AliveOwned
<1>11. ValuesCached'
  BY <1>0, <1>2, <1>4 DEF ComputeInv, ValuesCached
<1>12. PendingOwned'
  BY <1>0, <1>2, <1>4 DEF ComputeInv, PendingOwned
<1>13. GotOwned'
  BY <1>0, <1>2, <1>4 DEF ComputeInv, GotOwned
<1> QED BY <1>8, <1>9, <1>10, <1>11, <1>12, <1>13 DEF ComputeInv

\* A promise is settled: with the pipeline, or with an error while its entry is
\* still there.
LEMMA SettleKeeps ==
  ASSUME ComputeInv, NEW t \in Compilers, NEW r, CallTo(t, r), NEW v \in {"value", "error"},
         UNCHANGED <<pipelines, preparing, alive>>,
         future' = [future EXCEPT ![thr[t].size][thr[t].try] = v],
         \/ thr[t].pc = "fulfil" /\ v = "value" /\ r.pc = "idle" /\ r.got = thr[t].size
         \/ thr[t].pc = "fail" /\ v = "error" /\ r.pc = "erase" /\ r.got = thr[t].got /\ r.size = thr[t].size /\ r.try = thr[t].try
  PROVE  ComputeInv'
<1> USE DEF pipelines, preparing, future, thr, alive
<1>1. /\ thr'[t] = r /\ \A u \in Compilers : u # t => thr'[u] = thr[u]
      /\ thr' \in [Compilers -> Calls]
      /\ \A u \in Compilers : thr'[u].pc # "idle" => thr'[u].size \in GroupSizes /\ thr'[u].try \in Compute!Tries
  BY CallMoves
<1>2. thr[t].size \in GroupSizes /\ thr[t].try \in Compute!Tries
  BY DEF ComputeInv, ComputeTyped
<1>3. PICK s \in GroupSizes, n \in Compute!Tries : s = thr[t].size /\ n = thr[t].try
  BY <1>2
<1>5. FutureSet(s, n, v)
  BY <1>3, FutureMoves DEF Settled
<1>6. ComputeTyped'
  BY <1>1, <1>5 DEF FutureSet, ComputeInv, ComputeTyped, Calls
<1>7. EntryOwned'
  BY <1>1 DEF ComputeInv, EntryOwned, Busy
<1>8. AliveOwned'
  BY <1>1 DEF ComputeInv, AliveOwned
<1>9. ValuesCached'
  BY <1>1, <1>3, <1>5 DEF FutureSet, ComputeInv, ValuesCached
<1>10. PendingOwned'
  <2>1. ASSUME NEW x \in GroupSizes, NEW k \in Compute!Tries, future'[x][k] = "pending"
        PROVE  \E u \in Compilers : /\ thr'[u].size = x /\ thr'[u].try = k
                                    /\ thr'[u].pc \in {"compile", "publish", "fulfil", "fail"}
    <3>1. (x # s \/ k # n) /\ future[x][k] = "pending"
      BY <1>5, <2>1 DEF FutureSet
    <3>2. PICK u \in Compilers : thr[u].size = x /\ thr[u].try = k /\ thr[u].pc \in {"compile", "publish", "fulfil", "fail"}
      BY <3>1 DEF ComputeInv, PendingOwned
    <3>3. u # t
      BY <1>3, <3>1, <3>2
    <3> QED BY <1>1, <3>2, <3>3
  <2> QED BY <2>1 DEF PendingOwned
<1>11. GotOwned'
  BY <1>1 DEF ComputeInv, GotOwned, ValuesCached
<1> QED BY <1>6, <1>7, <1>8, <1>9, <1>10, <1>11 DEF ComputeInv

\* The entry of a failed compile is erased.
LEMMA EraseKeeps ==
  ASSUME ComputeInv, NEW t \in Compilers, thr[t].pc = "erase", thr' = [thr EXCEPT ![t] = Compute!Idle],
         preparing' = [preparing EXCEPT ![thr[t].size] = 0], UNCHANGED <<pipelines, future, alive>>
  PROVE  ComputeInv'
<1> USE DEF pipelines, preparing, future, thr, alive
<1>1. PICK r : r = [pc |-> "idle", size |-> None, try |-> 0, got |-> None]
  OBVIOUS
<1>2. r \in Calls /\ r.pc = "idle" /\ r.got = None /\ r = Compute!Idle
  BY <1>1 DEF Calls, Compute!Idle
<1>3. CallTo(t, r)
  BY <1>2 DEF CallTo
<1>4. /\ thr'[t] = r /\ \A u \in Compilers : u # t => thr'[u] = thr[u]
      /\ thr' \in [Compilers -> Calls]
      /\ \A u \in Compilers : thr'[u].pc # "idle" => thr'[u].size \in GroupSizes /\ thr'[u].try \in Compute!Tries
  BY <1>3, CallMoves
<1>5. PICK s \in GroupSizes : s = thr[t].size
  BY DEF ComputeInv, ComputeTyped
<1>6. \A u \in Compilers : thr[u].pc \in Busy /\ thr[u].size = s => u = t
  BY <1>5 DEF ComputeInv, EntryOwned, Busy
<1>7. /\ preparing' \in [GroupSizes -> {0} \cup Compute!Tries]
      /\ \A x \in GroupSizes : x # s => preparing'[x] = preparing[x]
  BY <1>5 DEF ComputeInv, ComputeTyped
<1>8. ComputeTyped'
  BY <1>4, <1>7 DEF ComputeInv, ComputeTyped, Calls
<1>9. EntryOwned'
  <2>1. ASSUME NEW u \in Compilers, thr'[u].pc \in Busy PROVE u # t /\ thr'[u] = thr[u] /\ thr[u].size # s /\ thr[u].size \in GroupSizes
    BY <1>2, <1>4, <1>6, <2>1 DEF ComputeInv, ComputeTyped, Busy
  <2>2. ASSUME NEW u \in Compilers, thr'[u].pc \in Busy PROVE thr'[u].size \notin pipelines' /\ preparing'[thr'[u].size] = thr'[u].try
    BY <1>7, <2>1, <2>2 DEF ComputeInv, EntryOwned
  <2>3. ASSUME NEW u \in Compilers, NEW w \in Compilers, thr'[u].pc \in Busy, thr'[w].pc \in Busy, thr'[u].size = thr'[w].size PROVE u = w
    BY <2>1, <2>3 DEF ComputeInv, EntryOwned
  <2> QED BY <2>2, <2>3 DEF EntryOwned
<1>10. AliveOwned'
  BY <1>2, <1>4 DEF ComputeInv, AliveOwned
<1>11. ValuesCached'
  BY <1>2, <1>4 DEF ComputeInv, ValuesCached
<1>12. PendingOwned'
  BY <1>2, <1>4 DEF ComputeInv, PendingOwned
<1>13. GotOwned'
  BY <1>2, <1>4 DEF ComputeInv, GotOwned
<1> QED BY <1>8, <1>9, <1>10, <1>11, <1>12, <1>13 DEF ComputeInv

\* A waiting thread gets the shared result, or the shared exception.
LEMMA AwaitKeeps == ASSUME ComputeInv, NEW t \in Compilers, Compute!await(t) PROVE ComputeInv'
<1> USE DEF pipelines, preparing, future, thr, alive
<1>1. /\ thr[t].pc = "wait" /\ thr[t].size \in GroupSizes /\ thr[t].try \in Compute!Tries
      /\ UNCHANGED <<pipelines, preparing, future, alive>>
  BY DEF Compute!await, ComputeInv, ComputeTyped
<1>2. PICK s \in GroupSizes, n \in Compute!Tries : s = thr[t].size /\ n = thr[t].try
  BY <1>1
<1>3. PICK v : v = IF future[s][n] = "value" THEN s ELSE None
  OBVIOUS
<1>4. PICK r : r = [pc |-> "idle", size |-> None, try |-> 0, got |-> v]
  OBVIOUS
<1>5. r \in Calls /\ r.pc = "idle" /\ r.got = v
  BY <1>3, <1>4 DEF Calls
<1>6. [Compute!Idle EXCEPT !.got = s] = [pc |-> "idle", size |-> None, try |-> 0, got |-> s]
  BY DEF Compute!Idle
<1>7. r = IF future[s][n] = "value" THEN [Compute!Idle EXCEPT !.got = s] ELSE Compute!Idle
  BY <1>3, <1>4, <1>6 DEF Compute!Idle
<1>8. thr' = [thr EXCEPT ![t] = r]
  BY <1>2, <1>7 DEF Compute!await
<1>9. CallTo(t, r)
  BY <1>5, <1>8 DEF CallTo
<1>10. r.got # None => r.got \in pipelines
  BY <1>3, <1>5 DEF ComputeInv, ValuesCached
<1> QED BY <1>1, <1>5, <1>9, <1>10, CallOnly

LEMMA ComputeKeeps == ASSUME MaxTries \in Nat, ComputeInv, [Compute!Next]_(Compute!vars) PROVE ComputeInv'
<1> USE DEF pipelines, preparing, future, thr, alive
<1>1. ASSUME NEW t \in Compilers, NEW s \in GroupSizes, Compute!createPipeline(t, s) PROVE ComputeInv'
  BY <1>1, CreateKeeps
<1>2. ASSUME NEW t \in Compilers, NEW ok \in BOOLEAN, Compute!compile(t, ok) PROVE ComputeInv'
  BY <1>2, CompileKeeps
<1>3. ASSUME NEW t \in Compilers, Compute!publish(t) PROVE ComputeInv'
  BY <1>3, PublishKeeps
<1>4. ASSUME NEW t \in Compilers, Compute!fulfil(t) PROVE ComputeInv'
  <2>1. /\ thr[t].pc = "fulfil" /\ thr[t].size \in GroupSizes
        /\ thr' = [thr EXCEPT ![t] = [Compute!Idle EXCEPT !.got = thr[t].size]]
        /\ future' = [future EXCEPT ![thr[t].size][thr[t].try] = "value"]
        /\ UNCHANGED <<pipelines, preparing, alive>>
    BY <1>4 DEF Compute!fulfil, ComputeInv, ComputeTyped
  <2>2. PICK r : r = [pc |-> "idle", size |-> None, try |-> 0, got |-> thr[t].size]
    OBVIOUS
  <2>3. r \in Calls /\ r.pc = "idle" /\ r.got = thr[t].size
    BY <2>1, <2>2 DEF Calls
  <2>4. [Compute!Idle EXCEPT !.got = thr[t].size] = r
    BY <2>2 DEF Compute!Idle
  <2>5. CallTo(t, r)
    BY <2>1, <2>3, <2>4 DEF CallTo
  <2> QED BY <2>1, <2>3, <2>5, SettleKeeps
<1>5. ASSUME NEW t \in Compilers, Compute!fail(t) PROVE ComputeInv'
  <2>1. CASE /\ thr[t].pc = "fail" /\ thr' = [thr EXCEPT ![t].pc = "erase"]
             /\ future' = [future EXCEPT ![thr[t].size][thr[t].try] = "error"] /\ UNCHANGED <<pipelines, preparing, alive>>
    <3>1. thr[t] \in Calls /\ thr[t].size \in GroupSizes /\ thr[t].try \in Compute!Tries
      BY <2>1 DEF ComputeInv, ComputeTyped
    <3>2. PICK r : r = [thr[t] EXCEPT !.pc = "erase"]
      OBVIOUS
    <3>3. r \in Calls /\ r.pc = "erase" /\ r.got = thr[t].got /\ r.size = thr[t].size /\ r.try = thr[t].try
      BY <3>1, <3>2 DEF Calls
    <3>4. CallTo(t, r)
      BY <2>1, <3>1, <3>2, <3>3 DEF CallTo
    <3> QED BY <2>1, <3>3, <3>4, SettleKeeps
  <2>2. CASE /\ thr[t].pc = "erase" /\ thr' = [thr EXCEPT ![t] = Compute!Idle]
             /\ preparing' = [preparing EXCEPT ![thr[t].size] = 0] /\ UNCHANGED <<pipelines, future, alive>>
    BY <2>2, EraseKeeps
  <2> QED BY <1>5, <2>1, <2>2 DEF Compute!fail, Compute!Broken, Compute!Erased
<1>6. ASSUME NEW t \in Compilers, Compute!await(t) PROVE ComputeInv'
  BY <1>6, AwaitKeeps
<1>7. CASE UNCHANGED Compute!vars
  <2>1. UNCHANGED <<pipelines, preparing, future, thr, alive>>
    BY <1>7 DEF Compute!vars
  <2> QED BY <2>1 DEF ComputeInv, ComputeTyped, EntryOwned, AliveOwned, ValuesCached, PendingOwned, GotOwned
<1> QED BY <1>1, <1>2, <1>3, <1>4, <1>5, <1>6, <1>7 DEF Compute!Next, Compute!Work

LEMMA ComputeBegins == ASSUME MaxTries \in Nat, Compute!Init PROVE ComputeInv
<1> USE DEF pipelines, preparing, future, thr, alive
<1>1. Compute!Idle \in Calls /\ Compute!Idle.pc = "idle" /\ Compute!Idle.got = None
  BY DEF Compute!Idle, Calls
<1>2. /\ pipelines = {} /\ preparing = [s \in GroupSizes |-> 0] /\ thr = [t \in Compilers |-> Compute!Idle]
      /\ future = [s \in GroupSizes |-> [n \in Compute!Tries |-> "none"]] /\ alive = [s \in GroupSizes |-> 0]
  BY DEF Compute!Init
<1>3. ComputeTyped
  BY <1>1, <1>2 DEF ComputeTyped, Settled
<1>4. EntryOwned /\ AliveOwned /\ ValuesCached /\ PendingOwned /\ GotOwned
  BY <1>1, <1>2 DEF EntryOwned, AliveOwned, ValuesCached, PendingOwned, GotOwned, Busy
<1> QED BY <1>3, <1>4 DEF ComputeInv

LEMMA ComputeSafe == ASSUME ComputeInv PROVE Compute!Safety
<1> USE DEF pipelines, preparing, future, thr, alive
<1>1. Compute!OneCompilePerSize
  BY DEF Compute!OneCompilePerSize, Compute!Compiles, ComputeInv, EntryOwned, AliveOwned, Busy
<1>2. Compute!PendingHasOwner
  BY DEF Compute!PendingHasOwner, ComputeInv, PendingOwned
<1>3. Compute!GotCached
  BY DEF Compute!GotCached, ComputeInv, GotOwned
<1> QED BY <1>1, <1>2, <1>3 DEF Compute!Safety

\* ComputeShared, which the run `rendering` checks, for any threads and sizes
\* (compute-pipeline.cpp).
THEOREM ComputeAlwaysShared == ASSUME MaxTries \in Nat PROVE Spec => []ComputeShared
<1> DEFINE Inv == part = "compute" => ComputeInv
<1>1. Init => Inv
  BY RenderingInit, ComputeBegins
<1>2. Inv /\ [Next]_vv => Inv'
  BY RenderingStep, ComputeKeeps
<1>3. Inv => ComputeShared
  BY ComputeSafe DEF ComputeShared
<1> QED BY <1>1, <1>2, <1>3, PTL DEF Spec

-----------------------------------------------------------------------------
(* The pipeline cache *)

\* The variables that the theorem is about, by their names in PipelineCache.
up == v1
drv == v2
mem == v3
holder == v5
pc == v6
image == v7
file == v8
tmp == v9
kept == v10

Files == [drv : Drivers, ents : SUBSET Pipelines, whole : BOOLEAN]
Accepted == file # None /\ file.drv = drv
Holding == {"sized", "fetched", "open", "rename", "remove"}
Doing == {"idle", "save", "done"} \cup Holding

CacheTyped ==
  /\ up \in {"up", "down", "closing"} /\ drv \in Drivers /\ mem \in SUBSET Pipelines /\ kept \in {None} \cup SUBSET Pipelines
  /\ pc \in [Savers -> Doing] /\ image \in [Savers -> SUBSET Pipelines]
  /\ file \in {None} \cup Files /\ tmp \in {None} \cup Files

\* One thread saves at a time; a device that closes has one thread left.
HolderOwned ==
  /\ \A t \in Savers : pc[t] \in Holding <=> holder = t
  /\ up = "down" => \A t \in Savers : pc[t] = "idle"
  /\ up = "up" => \A t \in Savers : pc[t] # "done"
  /\ up = "closing" => \A t, u \in Savers : pc[t] # "idle" /\ pc[u] # "idle" => t = u

\* The file is whole; what it has is in memory, and in the data, itself from
\* memory, about to replace it.
FileCovered ==
  /\ file # None => file.whole
  /\ up # "down" /\ Accepted => file.ents \subseteq mem
  /\ \A t \in Savers :
       /\ pc[t] \in {"sized", "fetched", "open", "rename"} => image[t] \subseteq mem
       /\ pc[t] \in {"fetched", "open", "rename"} /\ Accepted => file.ents \subseteq image[t]
       /\ pc[t] = "rename" => tmp = [drv |-> drv, ents |-> image[t], whole |-> TRUE]

\* A device that closes without a failure saves all it has, and the file has it
\* from then on.
KeptSaved ==
  /\ up = "up" => kept = None
  /\ up = "closing" /\ kept # None => kept = mem
  /\ \A t \in Savers : up = "closing" /\ kept # None =>
       /\ pc[t] \in {"sized", "fetched", "open", "rename"} => image[t] = mem
       /\ pc[t] # "remove" /\ (pc[t] = "done" => Accepted /\ file.ents = kept)
  /\ up = "down" /\ kept # None => Accepted /\ file.ents = kept

CacheInv == CacheTyped /\ HolderOwned /\ FileCovered /\ KeptSaved
CacheConstants == None \notin Savers /\ None \notin Files

LEMMA CacheBegins == ASSUME CacheConstants, Cache!Init PROVE CacheInv
<1> USE DEF up, drv, mem, holder, pc, image, file, tmp, kept
<1>1. CacheTyped
  BY DEF Cache!Init, CacheTyped, Doing
<1>2. HolderOwned
  BY DEF Cache!Init, HolderOwned, Holding, CacheConstants
<1>3. FileCovered
  BY DEF Cache!Init, FileCovered, Accepted
<1>4. KeptSaved
  BY DEF Cache!Init, KeptSaved
<1> QED BY <1>1, <1>2, <1>3, <1>4 DEF CacheInv

\* A thread goes on to x.
LEMMA SaverMoves ==
  ASSUME CacheInv, NEW t \in Savers, NEW x \in Doing, pc' = [pc EXCEPT ![t] = x]
  PROVE  pc' \in [Savers -> Doing] /\ pc'[t] = x /\ \A u \in Savers : u # t => pc'[u] = pc[u]
BY DEF CacheInv, CacheTyped, pc

LEMMA LoadKeeps == ASSUME CacheConstants, CacheInv, Cache!loadPipelineCache PROVE CacheInv'
<1> USE DEF up, drv, mem, holder, pc, image, file, tmp, kept
<1>1. CacheTyped'
  BY DEF CacheInv, CacheConstants, CacheTyped, Files, Accepted, Cache!loadPipelineCache, Cache!Accepts
<1>2. HolderOwned'
  BY DEF CacheInv, CacheConstants, HolderOwned, Holding, CacheConstants, CacheTyped, Cache!loadPipelineCache, Cache!Accepts
<1>3. FileCovered'
  BY DEF CacheInv, CacheConstants, CacheTyped, HolderOwned, Holding, FileCovered, Accepted, Files, Cache!loadPipelineCache, Cache!Accepts
<1>4. KeptSaved'
  BY DEF CacheInv, CacheConstants, CacheTyped, HolderOwned, Holding, FileCovered, KeptSaved, Accepted, Files, Cache!loadPipelineCache, Cache!Accepts
<1> QED BY <1>1, <1>2, <1>3, <1>4 DEF CacheInv

LEMMA CompiledKeeps == ASSUME CacheConstants, CacheInv, NEW t \in Savers, NEW p \in Pipelines, Cache!compilePipeline(t, p) PROVE CacheInv'
<1> USE DEF up, drv, mem, holder, pc, image, file, tmp, kept
<1>1. CacheTyped'
  BY DEF CacheInv, CacheConstants, CacheTyped, Files, Doing, Holding, Accepted, Cache!compilePipeline
<1>2. HolderOwned'
  BY DEF CacheInv, CacheConstants, HolderOwned, Holding, CacheConstants, CacheTyped, Cache!compilePipeline
<1>3. FileCovered'
  BY DEF CacheInv, CacheConstants, CacheTyped, HolderOwned, Holding, FileCovered, Accepted, Files, Cache!compilePipeline
<1>4. KeptSaved'
  BY DEF CacheInv, CacheConstants, CacheTyped, HolderOwned, Holding, FileCovered, KeptSaved, Accepted, Files, Cache!compilePipeline
<1> QED BY <1>1, <1>2, <1>3, <1>4 DEF CacheInv

LEMMA EnterKeeps == ASSUME CacheConstants, CacheInv, NEW t \in Savers, Cache!enterSave(t) PROVE CacheInv'
<1> USE DEF up, drv, mem, holder, pc, image, file, tmp, kept
<1>1. CacheTyped'
  <2>1. \E x \in Doing : pc' = [pc EXCEPT ![t] = x]
    BY DEF Cache!enterSave, Cache!TryLock, Cache!Force, Cache!Returned, Doing, Holding
  <2>2. pc' \in [Savers -> Doing]
    BY <2>1, SaverMoves
  <2> QED BY <2>2 DEF CacheInv, CacheTyped, Cache!enterSave
<1>2. HolderOwned'
  BY DEF CacheInv, CacheConstants, HolderOwned, Holding, CacheConstants, CacheTyped, Cache!enterSave, Cache!TryLock, Cache!Force, Cache!Returned
<1>3. FileCovered'
  BY DEF CacheInv, CacheConstants, CacheTyped, HolderOwned, Holding, FileCovered, Accepted, Files, Cache!enterSave, Cache!TryLock, Cache!Force, Cache!Returned
<1>4. KeptSaved'
  BY DEF CacheInv, CacheConstants, CacheTyped, HolderOwned, Holding, FileCovered, KeptSaved, Accepted, Files, Cache!enterSave, Cache!TryLock, Cache!Force, Cache!Returned
<1> QED BY <1>1, <1>2, <1>3, <1>4 DEF CacheInv

LEMMA FetchKeeps == ASSUME CacheConstants, CacheInv, NEW t \in Savers, Cache!fetch(t) PROVE CacheInv'
<1> USE DEF up, drv, mem, holder, pc, image, file, tmp, kept
<1>1. CacheTyped'
  <2>1. \E x \in Doing : pc' = [pc EXCEPT ![t] = x]
    BY DEF Cache!fetch, Cache!Leave, Cache!Returned, Doing, Holding
  <2>2. pc' \in [Savers -> Doing]
    BY <2>1, SaverMoves
  <2> QED BY <2>2 DEF CacheInv, CacheTyped, Cache!fetch
<1>2. HolderOwned'
  BY DEF CacheInv, CacheConstants, HolderOwned, Holding, CacheConstants, CacheTyped, Cache!fetch, Cache!Leave, Cache!Returned
<1>3. FileCovered'
  BY DEF CacheInv, CacheConstants, CacheTyped, HolderOwned, Holding, FileCovered, Accepted, Files, Cache!fetch, Cache!Leave, Cache!Returned
<1>4. KeptSaved'
  BY DEF CacheInv, CacheConstants, CacheTyped, HolderOwned, Holding, FileCovered, KeptSaved, Accepted, Files, Cache!fetch, Cache!Leave, Cache!Returned
<1> QED BY <1>1, <1>2, <1>3, <1>4 DEF CacheInv

LEMMA OpenKeeps == ASSUME CacheConstants, CacheInv, NEW t \in Savers, Cache!openTemporary(t) PROVE CacheInv'
<1> USE DEF up, drv, mem, holder, pc, image, file, tmp, kept
<1>1. CacheTyped'
  <2>1. \E x \in Doing : pc' = [pc EXCEPT ![t] = x]
    BY DEF Cache!openTemporary, Cache!Leave, Cache!Returned, Doing, Holding
  <2>2. pc' \in [Savers -> Doing]
    BY <2>1, SaverMoves
  <2>3. image[t] \in SUBSET Pipelines /\ drv \in Drivers
    BY DEF CacheInv, CacheTyped
  <2>4. [drv |-> drv, ents |-> image[t], whole |-> FALSE] \in Files
    BY <2>3 DEF Files
  <2>5. tmp' \in {None} \cup Files
    BY <2>4 DEF CacheInv, CacheTyped, Cache!openTemporary
  <2> QED BY <2>2, <2>5 DEF CacheInv, CacheTyped, Cache!openTemporary, Cache!Leave
<1>2. HolderOwned'
  BY DEF CacheInv, CacheConstants, HolderOwned, Holding, CacheConstants, CacheTyped, Cache!openTemporary, Cache!Leave, Cache!Returned
<1>3. FileCovered'
  BY DEF CacheInv, CacheConstants, CacheTyped, HolderOwned, Holding, FileCovered, Accepted, Files, Cache!openTemporary, Cache!Leave, Cache!Returned
<1>4. KeptSaved'
  BY DEF CacheInv, CacheConstants, CacheTyped, HolderOwned, Holding, FileCovered, KeptSaved, Accepted, Files, Cache!openTemporary, Cache!Leave, Cache!Returned
<1> QED BY <1>1, <1>2, <1>3, <1>4 DEF CacheInv

LEMMA WriteKeeps == ASSUME CacheConstants, CacheInv, NEW t \in Savers, Cache!writeTemporary(t) PROVE CacheInv'
<1> USE DEF up, drv, mem, holder, pc, image, file, tmp, kept
<1>1. CacheTyped'
  <2>1. \E x \in Doing : pc' = [pc EXCEPT ![t] = x]
    BY DEF Cache!writeTemporary, Cache!Written, Doing, Holding
  <2>2. pc' \in [Savers -> Doing]
    BY <2>1, SaverMoves
  <2> QED BY <2>2 DEF CacheInv, CacheTyped, Cache!writeTemporary, Files
<1>2. HolderOwned'
  BY DEF CacheInv, CacheConstants, HolderOwned, Holding, CacheConstants, CacheTyped, Cache!writeTemporary, Cache!Written
<1>3. FileCovered'
  <2>1. UNCHANGED <<up, drv, mem, image, file>>
    BY DEF Cache!writeTemporary
  <2>2. pc[t] = "open" /\ \A u \in Savers : u # t => pc'[u] \notin Holding
    BY DEF CacheInv, HolderOwned, CacheTyped, Holding, Cache!writeTemporary
  <2>3. pc'[t] \in {"rename", "remove"} /\ (pc'[t] = "rename" => tmp' = [drv |-> drv, ents |-> image[t], whole |-> TRUE])
    BY DEF CacheInv, CacheTyped, Cache!writeTemporary, Cache!Written
  <2> QED BY <2>1, <2>2, <2>3 DEF CacheInv, FileCovered, Accepted, Holding
<1>4. KeptSaved'
  BY DEF CacheInv, CacheConstants, CacheTyped, HolderOwned, Holding, FileCovered, KeptSaved, Accepted, Files, Cache!writeTemporary, Cache!Written
<1> QED BY <1>1, <1>2, <1>3, <1>4 DEF CacheInv

LEMMA ReplaceKeeps == ASSUME CacheConstants, CacheInv, NEW t \in Savers, Cache!replace(t) PROVE CacheInv'
<1> USE DEF up, drv, mem, holder, pc, image, file, tmp, kept
<1>1. CacheTyped'
  <2>1. \E x \in Doing : pc' = [pc EXCEPT ![t] = x]
    BY DEF Cache!replace, Cache!Leave, Cache!Returned, Doing, Holding
  <2>2. pc' \in [Savers -> Doing]
    BY <2>1, SaverMoves
  <2> QED BY <2>2 DEF CacheInv, CacheTyped, Cache!replace
<1>2. HolderOwned'
  BY DEF CacheInv, CacheConstants, HolderOwned, Holding, CacheConstants, CacheTyped, Cache!replace, Cache!Leave, Cache!Returned
<1>3. UNCHANGED <<up, drv, mem, image, kept>>
  BY DEF Cache!replace
<1>4. \A u \in Savers : pc'[u] \notin Holding
  <2>1. holder' = None
    BY DEF Cache!replace, Cache!Leave
  <2> QED BY <1>2, <2>1 DEF HolderOwned, CacheConstants
<1>5. pc[t] = "rename" => file' = [drv |-> drv, ents |-> image[t], whole |-> TRUE] /\ image[t] \subseteq mem
  BY DEF CacheInv, FileCovered, Cache!replace
<1>6. pc[t] # "rename" => file' = file /\ pc[t] = "remove"
  BY DEF Cache!replace
<1>7. FileCovered'
  <2>1. CASE pc[t] = "rename"
    BY <1>3, <1>4, <1>5, <2>1 DEF FileCovered, Accepted, Holding
  <2>2. CASE pc[t] # "rename"
    BY <1>3, <1>4, <1>6, <2>2 DEF CacheInv, FileCovered, Accepted, Holding
  <2> QED BY <2>1, <2>2
<1>8. \A u \in Savers : pc'[u] # "remove" /\ (pc'[u] = "done" /\ u # t => pc[u] = "done")
  BY <1>4 DEF Holding, Cache!replace, Cache!Leave, CacheInv, CacheTyped
<1>9. up # "down"
  BY DEF Cache!replace, CacheInv, HolderOwned
<1>10. KeptSaved'
  <2>1. CASE pc[t] = "rename"
    <3>1. up = "closing" /\ kept # None => kept = mem /\ image[t] = mem
      BY <2>1 DEF CacheInv, KeptSaved
    <3>2. [drv |-> drv, ents |-> image[t], whole |-> TRUE] \in Files
      BY DEF CacheInv, CacheTyped, Files
    <3>3. Accepted' /\ file'.ents = image[t]
      <4>1. file' = [drv |-> drv, ents |-> image[t], whole |-> TRUE] /\ file' # None
        BY <1>5, <2>1, <3>2 DEF CacheConstants
      <4>2. file'.drv = drv /\ file'.ents = image[t]
        BY <4>1
      <4> QED BY <1>3, <4>1, <4>2 DEF Accepted
    <3> QED BY <1>3, <1>4, <1>8, <1>9, <3>1, <3>3 DEF CacheInv, KeptSaved, Holding
  <2>2. CASE pc[t] # "rename"
    <3>1. ~(up = "closing" /\ kept # None)
      BY <1>6, <2>2 DEF CacheInv, KeptSaved
    <3> QED BY <1>3, <1>9, <3>1 DEF CacheInv, KeptSaved
  <2> QED BY <2>1, <2>2
<1> QED BY <1>1, <1>2, <1>7, <1>10 DEF CacheInv

LEMMA CloseKeeps == ASSUME CacheConstants, CacheInv, NEW t \in Savers, Cache!close(t) PROVE CacheInv'
<1> USE DEF up, drv, mem, holder, pc, image, file, tmp, kept
<1>1. CacheTyped'
  BY DEF CacheInv, CacheConstants, CacheTyped, Files, Doing, Holding, Accepted, Cache!close
<1>2. HolderOwned'
  BY DEF CacheInv, CacheConstants, HolderOwned, Holding, CacheConstants, CacheTyped, Cache!close
<1>3. FileCovered'
  BY DEF CacheInv, CacheConstants, CacheTyped, HolderOwned, Holding, FileCovered, Accepted, Files, Cache!close
<1>4. KeptSaved'
  BY DEF CacheInv, CacheConstants, CacheTyped, HolderOwned, Holding, FileCovered, KeptSaved, Accepted, Files, Cache!close
<1> QED BY <1>1, <1>2, <1>3, <1>4 DEF CacheInv

LEMMA ExitKeeps == ASSUME CacheConstants, CacheInv, Cache!exit PROVE CacheInv'
<1> USE DEF up, drv, mem, holder, pc, image, file, tmp, kept
<1>1. CacheTyped'
  BY DEF CacheInv, CacheConstants, CacheTyped, Files, Doing, Holding, Accepted, Cache!exit
<1>2. HolderOwned'
  BY DEF CacheInv, CacheConstants, HolderOwned, Holding, CacheConstants, CacheTyped, Cache!exit
<1>3. FileCovered'
  BY DEF CacheInv, CacheConstants, CacheTyped, HolderOwned, Holding, FileCovered, Accepted, Files, Cache!exit
<1>4. KeptSaved'
  BY DEF CacheInv, CacheConstants, CacheTyped, HolderOwned, Holding, FileCovered, KeptSaved, Accepted, Files, Cache!exit
<1> QED BY <1>1, <1>2, <1>3, <1>4 DEF CacheInv

LEMMA TickKeeps == ASSUME CacheConstants, CacheInv, Cache!tick PROVE CacheInv'
<1> USE DEF up, drv, mem, holder, pc, image, file, tmp, kept
<1>1. CacheTyped'
  BY DEF CacheInv, CacheConstants, CacheTyped, Files, Accepted, Cache!tick
<1>2. HolderOwned'
  BY DEF CacheInv, CacheConstants, HolderOwned, Holding, CacheConstants, CacheTyped, Cache!tick
<1>3. FileCovered'
  BY DEF CacheInv, CacheConstants, CacheTyped, HolderOwned, Holding, FileCovered, Accepted, Files, Cache!tick
<1>4. KeptSaved'
  BY DEF CacheInv, CacheConstants, CacheTyped, HolderOwned, Holding, FileCovered, KeptSaved, Accepted, Files, Cache!tick
<1> QED BY <1>1, <1>2, <1>3, <1>4 DEF CacheInv

LEMMA CacheStays == ASSUME CacheInv, UNCHANGED Cache!vars PROVE CacheInv'
BY DEF CacheInv, CacheTyped, HolderOwned, FileCovered, KeptSaved, Accepted, Cache!vars,
       up, drv, mem, holder, pc, image, file, tmp, kept

LEMMA CacheKeeps == ASSUME CacheConstants, CacheInv, [Cache!Next]_(Cache!vars) PROVE CacheInv'
BY CacheStays, LoadKeeps, CompiledKeeps, EnterKeeps, FetchKeeps, OpenKeeps, WriteKeeps, ReplaceKeeps, CloseKeeps,
   ExitKeeps, TickKeeps DEF Cache!Next

\* Only replace changes the file, and not to one with less.
LEMMA CacheSafe ==
  ASSUME CacheConstants, CacheInv, CacheInv', [Cache!Next]_(Cache!vars)
  PROVE  Cache!SafeStep
<1> USE DEF up, drv, mem, holder, pc, image, file, tmp, kept
<1>1. Cache!FileWhole
  BY DEF Cache!FileWhole, CacheInv, FileCovered
<1>2. Cache!WarmStart
  BY DEF Cache!WarmStart, Cache!loadPipelineCache, Cache!Accepts, CacheInv, KeptSaved, Accepted
<1>3. Cache!SavedNeverLost
  <2>1. ASSUME NEW t \in Savers, Cache!replace(t), pc[t] = "rename", file # None, file'.drv = file.drv
        PROVE  file.ents \subseteq file'.ents
    <3>1. file' = [drv |-> drv, ents |-> image[t], whole |-> TRUE]
      BY <2>1 DEF Cache!replace, CacheInv, FileCovered
    <3> QED BY <2>1, <3>1 DEF CacheInv, FileCovered, Accepted
  <2>2. file' = file \/ \E t \in Savers : Cache!replace(t) /\ pc[t] = "rename"
    BY DEF Cache!Next, Cache!vars, Cache!loadPipelineCache, Cache!exit, Cache!tick, Cache!enterSave, Cache!fetch,
           Cache!openTemporary, Cache!writeTemporary, Cache!replace, Cache!close, Cache!compilePipeline
  <2> QED BY <2>1, <2>2 DEF Cache!SavedNeverLost
<1> QED BY <1>1, <1>2, <1>3 DEF Cache!SafeStep

\* CacheKept, which the run `rendering` checks, for any threads, drivers and
\* pipelines, and sessions without end (savePipelineCache, device.cpp).
THEOREM CacheAlwaysKept ==
  ASSUME None \notin Savers, None \notin [drv : Drivers, ents : SUBSET Pipelines, whole : BOOLEAN]
  PROVE  Spec => CacheKept
<1> DEFINE Inv == part = "cache" => CacheInv
<1>1. CacheConstants
  BY DEF CacheConstants, Files
<1>2. Init => Inv
  BY <1>1, RenderingInit, CacheBegins
<1>3. Inv /\ [Next]_vv => Inv'
  BY <1>1, RenderingStep, CacheKeeps
<1>4. Inv /\ Inv' /\ [Next]_vv => [part = "cache" => Cache!SafeStep]_vv
  BY <1>1, RenderingStep, CacheSafe
<1> QED BY <1>2, <1>3, <1>4, PTL DEF Spec, CacheKept

-----------------------------------------------------------------------------
(* Presentation semaphores *)

\* The variables, by their names in PresentationSemaphores; at and presents are
\* its pc and queue.
at == v1
semaphore == v2
commands == v3
gpu == v4
payload == v5
waits == v6
got == v7
presents == v8
imports == v9

Elems(s) == {s[i] : i \in DOMAIN s}
Distinct(s) == \A i, j \in DOMAIN s : s[i] = s[j] => i = j

LEMMA AppendElems ==
  ASSUME NEW S, NEW s \in Seq(S), NEW x \in S
  PROVE  /\ Append(s, x) \in Seq(S) /\ Elems(Append(s, x)) = Elems(s) \cup {x}
         /\ Distinct(s) /\ x \notin Elems(s) => Distinct(Append(s, x))
<1>1. /\ Append(s, x) \in Seq(S) /\ DOMAIN s = 1 .. Len(s) /\ DOMAIN Append(s, x) = 1 .. Len(s) + 1
      /\ Append(s, x)[Len(s) + 1] = x /\ \A i \in 1 .. Len(s) : Append(s, x)[i] = s[i]
  OBVIOUS
<1>2. DOMAIN Append(s, x) = DOMAIN s \cup {Len(s) + 1} /\ Len(s) + 1 \notin DOMAIN s
  BY <1>1
<1>3. Elems(Append(s, x)) = Elems(s) \cup {x}
  BY <1>1, <1>2 DEF Elems
<1>4. Distinct(s) /\ x \notin Elems(s) => Distinct(Append(s, x))
  BY <1>1, <1>2 DEF Elems, Distinct
<1> QED BY <1>1, <1>3, <1>4

LEMMA TailElems ==
  ASSUME NEW S, NEW s \in Seq(S), s # <<>>, Distinct(s)
  PROVE  /\ Tail(s) \in Seq(S) /\ Distinct(Tail(s)) /\ Head(s) \in Elems(s) /\ Head(s) \in S
         /\ Elems(Tail(s)) = Elems(s) \ {Head(s)}
<1>1. /\ Tail(s) \in Seq(S) /\ Len(s) \in Nat \ {0} /\ DOMAIN s = 1 .. Len(s) /\ DOMAIN Tail(s) = 1 .. Len(s) - 1
      /\ Head(s) = s[1] /\ s[1] \in S /\ \A i \in 1 .. Len(s) - 1 : Tail(s)[i] = s[i + 1]
  OBVIOUS
<1>2. \A i \in 1 .. Len(s) - 1 : i + 1 \in 1 .. Len(s) /\ i + 1 # 1
  BY <1>1
<1>3. \A j \in 1 .. Len(s) : j # 1 => j - 1 \in 1 .. Len(s) - 1 /\ Tail(s)[j - 1] = s[j]
  BY <1>1
<1>4. Distinct(Tail(s))
  BY <1>1, <1>2 DEF Distinct
<1>5. Elems(Tail(s)) \subseteq Elems(s) \ {Head(s)}
  BY <1>1, <1>2 DEF Distinct, Elems
<1>6. Elems(s) \ {Head(s)} \subseteq Elems(Tail(s))
  <2> SUFFICES ASSUME NEW j \in 1 .. Len(s), j # 1 PROVE s[j] \in Elems(Tail(s))
    BY <1>1 DEF Elems
  <2>1. j - 1 \in DOMAIN Tail(s) /\ Tail(s)[j - 1] = s[j]
    BY <1>1, <1>3
  <2> QED BY <2>1 DEF Elems
<1>7. Head(s) \in Elems(s)
  BY <1>1 DEF Elems
<1> QED BY <1>1, <1>4, <1>5, <1>6, <1>7

\* What is left of a sequence without its first k elements has none of them.
LEMMA RestElems ==
  ASSUME NEW S, NEW s \in Seq(S), Distinct(s), NEW k \in 0 .. Len(s)
  PROVE  /\ SubSeq(s, k + 1, Len(s)) \in Seq(S) /\ Distinct(SubSeq(s, k + 1, Len(s)))
         /\ Elems(SubSeq(s, k + 1, Len(s))) \subseteq Elems(s)
         /\ \A i \in 1 .. k : s[i] \notin Elems(SubSeq(s, k + 1, Len(s)))
<1> DEFINE r == SubSeq(s, k + 1, Len(s))
<1>1. /\ r \in Seq(S) /\ Len(s) \in Nat /\ DOMAIN s = 1 .. Len(s) /\ DOMAIN r = 1 .. Len(s) - k
      /\ \A i \in 1 .. Len(s) - k : r[i] = s[i + k]
  OBVIOUS
<1>2. \A i \in 1 .. Len(s) - k : i + k \in 1 .. Len(s) /\ i + k > k
  BY <1>1
<1>3. Distinct(r)
  <2> SUFFICES ASSUME NEW i \in 1 .. Len(s) - k, NEW j \in 1 .. Len(s) - k, r[i] = r[j] PROVE i = j
    BY <1>1 DEF Distinct
  <2>1. i + k = j + k
    BY <1>1, <1>2 DEF Distinct
  <2> QED BY <1>1, <2>1
<1>4. Elems(r) \subseteq Elems(s)
  BY <1>1, <1>2 DEF Elems
<1>5. ASSUME NEW i \in 1 .. k PROVE s[i] \notin Elems(r)
  <2> SUFFICES ASSUME NEW j \in 1 .. Len(s) - k, s[i] = r[j] PROVE FALSE
    BY <1>1 DEF Elems
  <2>1. i \in 1 .. Len(s) /\ i <= k /\ j + k \in 1 .. Len(s) /\ j + k > k
    BY <1>1, <1>2
  <2>2. i = j + k
    BY <1>1, <2>1 DEF Distinct
  <2> QED BY <2>1, <2>2
<1> HIDE DEF r
<1> QED BY <1>1, <1>3, <1>4, <1>5 DEF r

\* The first k elements.
LEMMA FrontElems ==
  ASSUME NEW S, NEW s \in Seq(S), NEW k \in 0 .. Len(s)
  PROVE  Elems(SubSeq(s, 1, k)) = {s[i] : i \in 1 .. k}
<1>1. DOMAIN SubSeq(s, 1, k) = 1 .. k /\ \A i \in 1 .. k : SubSeq(s, 1, k)[i] = s[i]
  OBVIOUS
<1> QED BY <1>1 DEF Elems


Entries == [sem : Frames, fence : Frames \cup {None}, consumed : BOOLEAN]
Shown == {"last", "released", "reset"}

FramesTyped ==
  /\ at \in [Frames -> {"new", "committed", "queued"} \cup Shown] /\ semaphore \in [Frames -> Frames \cup {None}]
  /\ commands \subseteq Frames /\ payload \in [Frames -> Frames \cup {None}] /\ got \in [Frames -> Frames \cup {None}]
  /\ gpu \in Seq(Frames) /\ waits \in Seq(Frames) /\ presents \in Seq(Frames) /\ imports \in Seq(Entries)

\* A frame has a semaphore from its commit on, and a signal is its frame's.
FramesNamed ==
  /\ \A f \in Frames : at[f] # "new" => semaphore[f] \in Frames /\ at[semaphore[f]] # "new"
  /\ \A f \in Frames : at[f] = "new" => semaphore[f] = None /\ f \notin commands
  /\ \A s \in Frames : payload[s] # None => at[payload[s]] # "new" /\ semaphore[payload[s]] = s

\* Every frame is signalled once, shown once and waited for once.
StreamsOnce ==
  /\ Distinct(gpu) /\ Distinct(waits) /\ Distinct(presents)
  /\ \A f \in Elems(gpu) : f \in commands /\ payload[semaphore[f]] # f
  /\ \A f \in Elems(waits) : at[f] \in Shown
  /\ \A f \in Elems(presents) : at[f] = "queued"

\* A frame whose semaphore is not signalled, waited for and done with; and one
\* that a command, a drawable or GL still holds.
Using(f) ==
  \/ at[f] \in {"committed", "queued"} \/ f \in Elems(gpu) \/ f \in Elems(waits)
  \/ semaphore[f] \in Frames /\ payload[semaphore[f]] = f
Active(f) ==
  /\ at[f] # "new"
  /\ f \in commands \/ at[f] # "reset" \/ f \in Elems(waits) \/ payload[semaphore[f]] = f

OneActive == \A f, g \in Frames : Active(f) /\ Active(g) /\ semaphore[f] = semaphore[g] => f = g

\* A consumed import's semaphore is in no use; a fence is of the one frame that
\* is active with it, and once GL has passed it, that frame uses it no more.
EntrySound(e) ==
  /\ at[e.sem] # "new"
  /\ e.consumed => e.fence = None /\ \A f \in Frames : semaphore[f] = e.sem => ~Using(f)
  /\ e.fence # None =>
       /\ semaphore[e.fence] = e.sem /\ at[e.fence] \in Shown
       /\ e.fence \in Elems(waits) \/ ~Using(e.fence)
       /\ \A f \in Frames : semaphore[f] = e.sem /\ Active(f) => f = e.fence
ImportsSound ==
  /\ \A i, j \in DOMAIN imports : imports[i].sem = imports[j].sem => i = j
  /\ \A i \in DOMAIN imports : EntrySound(imports[i])

WaitsOwn == \A f \in Frames : got[f] \in {None, f}

FramesInv == FramesTyped /\ FramesNamed /\ StreamsOnce /\ OneActive /\ ImportsSound /\ WaitsOwn

LEMMA FramesBegin == ASSUME None \notin Frames, Semaphores!Init PROVE FramesInv
<1> USE DEF at, semaphore, commands, gpu, payload, waits, got, presents, imports
<1>1. FramesTyped
  BY DEF Semaphores!Init, FramesTyped
<1>2. FramesNamed /\ WaitsOwn
  BY DEF Semaphores!Init, FramesNamed, WaitsOwn
<1>3. Elems(gpu) = {} /\ Elems(waits) = {} /\ Elems(presents) = {}
  BY DEF Semaphores!Init, Elems
<1>4. StreamsOnce
  BY <1>3 DEF Semaphores!Init, StreamsOnce, Distinct
<1>5. OneActive
  BY DEF Semaphores!Init, OneActive, Active
<1>6. ImportsSound
  BY DEF Semaphores!Init, ImportsSound
<1> QED BY <1>1, <1>2, <1>4, <1>5, <1>6 DEF FramesInv

LEMMA UsingActive == ASSUME None \notin Frames, FramesInv, NEW f \in Frames, Using(f) PROVE Active(f)
BY DEF FramesInv, FramesTyped, FramesNamed, StreamsOnce, Using, Active, Shown

\* A step without a commit: nobody comes to use or hold a semaphore, and who no
\* longer waits in GL is done with it.
Ages ==
  /\ semaphore' = semaphore
  /\ \A f \in Frames : at[f] # "new" => at'[f] # "new"
  /\ \A f \in Frames : at[f] \in Shown => at'[f] \in Shown
  /\ \A f \in Frames : Using(f)' => Using(f)
  /\ \A f \in Frames : Active(f)' => Active(f)
  /\ \A f \in Elems(waits) : f \in Elems(waits') \/ ~Using(f)'

LEMMA AgingKeeps ==
  ASSUME Ages
  PROVE  /\ OneActive => OneActive'
         /\ \A e \in Entries : EntrySound(e) => EntrySound(e)'
<1>1. OneActive => OneActive'
  BY DEF Ages, OneActive
<1>2. ASSUME NEW e \in Entries, EntrySound(e) PROVE EntrySound(e)'
  BY <1>2 DEF Ages, EntrySound, Entries
<1> QED BY <1>1, <1>2

LEMMA ImportsStay ==
  ASSUME FramesInv, Ages, UNCHANGED imports PROVE OneActive' /\ ImportsSound'
<1>1. OneActive'
  BY AgingKeeps DEF FramesInv
<1>2. ASSUME NEW i \in DOMAIN imports' PROVE EntrySound(imports[i])'
  <2>1. i \in DOMAIN imports
    BY <1>2
  <2>2. PICK e \in Entries : e = imports[i]
    BY <2>1 DEF FramesInv, FramesTyped
  <2>3. EntrySound(e)
    BY <2>1, <2>2 DEF FramesInv, ImportsSound
  <2>4. EntrySound(e)'
    BY <2>3, AgingKeeps
  <2> QED BY <2>2, <2>4
<1> QED BY <1>1, <1>2 DEF FramesInv, ImportsSound

LEMMA ExecuteKeeps == ASSUME None \notin Frames, FramesInv, Semaphores!execute PROVE FramesInv'
<1> USE DEF at, semaphore, commands, gpu, payload, waits, got, presents, imports
<1>1. /\ UNCHANGED <<at, semaphore, commands, waits, got, presents, imports>>
      /\ gpu # <<>> /\ gpu' = Tail(gpu) /\ payload' = [payload EXCEPT ![semaphore[Head(gpu)]] = Head(gpu)]
  BY DEF Semaphores!execute, Semaphores!gl
<1>2. PICK f : f = Head(gpu)
  OBVIOUS
<1>3. /\ gpu' \in Seq(Frames) /\ Distinct(gpu') /\ f \in Elems(gpu) /\ f \in Frames /\ Elems(gpu') = Elems(gpu) \ {f}
  BY <1>1, <1>2, TailElems DEF FramesInv, FramesTyped, StreamsOnce
<1>4. f \in commands /\ at[f] # "new" /\ semaphore[f] \in Frames /\ payload[semaphore[f]] # f
  BY <1>3 DEF FramesInv, StreamsOnce, FramesNamed
<1>5. /\ payload' \in [Frames -> Frames \cup {None}] /\ payload'[semaphore[f]] = f
      /\ \A s \in Frames : s # semaphore[f] => payload'[s] = payload[s]
  BY <1>1, <1>2, <1>3, <1>4 DEF FramesInv, FramesTyped
<1>6. FramesTyped'
  BY <1>1, <1>3, <1>5 DEF FramesInv, FramesTyped
<1>7. FramesNamed' /\ WaitsOwn'
  BY <1>1, <1>3, <1>4, <1>5 DEF FramesInv, FramesNamed, WaitsOwn
<1>8. StreamsOnce'
  <2>1. ASSUME NEW h \in Elems(gpu') PROVE payload'[semaphore[h]] # h
    <3>1. h \in Elems(gpu) /\ h # f
      BY <1>3
    <3>2. h \in Frames
      BY <3>1 DEF FramesInv, FramesTyped, Elems
    <3>3. semaphore[h] \in Frames /\ payload[semaphore[h]] # h
      BY <3>1, <3>2 DEF FramesInv, StreamsOnce, FramesNamed
    <3> QED BY <1>5, <3>1, <3>3
  <2> QED BY <1>1, <1>3, <2>1 DEF FramesInv, StreamsOnce
<1>9. \A h \in Frames : payload'[semaphore[h]] = h /\ semaphore[h] \in Frames => h = f \/ payload[semaphore[h]] = h
  BY <1>5
<1>10. Ages
  <2>1. ASSUME NEW h \in Frames, Using(h)' PROVE Using(h)
    BY <1>1, <1>3, <1>9, <2>1 DEF Using
  <2>2. ASSUME NEW h \in Frames, Active(h)' PROVE Active(h)
    BY <1>1, <1>4, <1>9, <2>2 DEF Active, FramesInv, FramesNamed
  <2> QED BY <1>1, <2>1, <2>2 DEF Ages
<1>11. OneActive' /\ ImportsSound'
  BY <1>1, <1>10, ImportsStay
<1> QED BY <1>6, <1>7, <1>8, <1>11 DEF FramesInv

LEMMA CompletedKeeps ==
  ASSUME None \notin Frames, FramesInv, NEW f \in Frames, Semaphores!completed(f) PROVE FramesInv'
<1> USE DEF at, semaphore, commands, gpu, payload, waits, got, presents, imports
<1>1. /\ UNCHANGED <<at, semaphore, gpu, payload, waits, got, presents, imports>>
      /\ f \notin Elems(gpu) /\ commands' = commands \ {f}
  BY DEF Semaphores!completed, Semaphores!gl, Semaphores!ToSet, Elems
<1>2. FramesTyped' /\ FramesNamed' /\ StreamsOnce' /\ WaitsOwn'
  BY <1>1 DEF FramesInv, FramesTyped, FramesNamed, StreamsOnce, WaitsOwn
<1>3. Ages
  BY <1>1 DEF Ages, Using, Active
<1>4. OneActive' /\ ImportsSound'
  BY <1>1, <1>3, ImportsStay
<1> QED BY <1>2, <1>4 DEF FramesInv

LEMMA QueueKeeps ==
  ASSUME None \notin Frames, FramesInv, NEW f \in Frames, Semaphores!queuePresent(f) PROVE FramesInv'
<1> USE DEF at, semaphore, commands, gpu, payload, waits, got, presents, imports
<1>1. UNCHANGED <<semaphore, commands, gpu, payload, waits, got, imports>> /\ at[f] = "committed"
  BY DEF Semaphores!queuePresent, Semaphores!gl, Semaphores!vulkan
<1>2. \/ at' = [at EXCEPT ![f] = "queued"] /\ presents' = Append(presents, f)
      \/ at' = [at EXCEPT ![f] = "released"] /\ presents' = presents
  BY DEF Semaphores!queuePresent
<1>3. /\ at' \in [Frames -> {"new", "committed", "queued"} \cup Shown] /\ at'[f] \in {"queued", "released"}
      /\ \A h \in Frames : h # f => at'[h] = at[h]
  BY <1>2 DEF FramesInv, FramesTyped, Shown
<1>4. /\ presents' \in Seq(Frames) /\ Distinct(presents')
      /\ \A h \in Elems(presents') : h \in Elems(presents) \/ (h = f /\ at'[f] = "queued")
  <2>1. presents \in Seq(Frames) /\ Distinct(presents) /\ f \notin Elems(presents)
    BY <1>1 DEF FramesInv, FramesTyped, StreamsOnce
  <2>2. CASE presents' = presents
    BY <2>1, <2>2 DEF Elems, Distinct
  <2>3. CASE at' = [at EXCEPT ![f] = "queued"] /\ presents' = Append(presents, f)
    <3>1. at'[f] = "queued"
      BY <2>3 DEF FramesInv, FramesTyped
    <3> QED BY <2>1, <2>3, <3>1, AppendElems
  <2> QED BY <1>2, <2>2, <2>3
<1>5. f \notin Elems(presents) /\ f \notin Elems(waits) /\ Elems(presents) \subseteq Frames
  <2>1. f \notin Elems(presents) /\ f \notin Elems(waits)
    BY <1>1 DEF FramesInv, StreamsOnce, Shown
  <2>2. Elems(presents) \subseteq Frames
    BY DEF FramesInv, FramesTyped, Elems
  <2> QED BY <2>1, <2>2
<1>6. FramesTyped'
  BY <1>1, <1>3, <1>4 DEF FramesInv, FramesTyped
<1>7. FramesNamed' /\ WaitsOwn'
  BY <1>1, <1>3 DEF FramesInv, FramesTyped, FramesNamed, WaitsOwn
<1>8. StreamsOnce'
  <2>1. Elems(waits) \subseteq Frames
    BY DEF FramesInv, FramesTyped, Elems
  <2> QED BY <1>1, <1>3, <1>4, <1>5, <2>1 DEF FramesInv, StreamsOnce
<1>9. Ages
  BY <1>1, <1>3, <1>5 DEF Ages, Using, Active, Shown
<1>10. OneActive' /\ ImportsSound'
  BY <1>1, <1>9, ImportsStay
<1> QED BY <1>6, <1>7, <1>8, <1>10 DEF FramesInv

LEMMA ResetKeeps ==
  ASSUME None \notin Frames, FramesInv, NEW f \in Frames, Semaphores!reset(f) PROVE FramesInv'
<1> USE DEF at, semaphore, commands, gpu, payload, waits, got, presents, imports
<1>1. /\ UNCHANGED <<semaphore, commands, gpu, payload, waits, got, presents, imports>> /\ at[f] = "released"
      /\ at' = [at EXCEPT ![f] = "reset"]
  BY DEF Semaphores!reset, Semaphores!gl, Semaphores!vulkan
<1>2. /\ at' \in [Frames -> {"new", "committed", "queued"} \cup Shown] /\ at'[f] = "reset"
      /\ \A h \in Frames : h # f => at'[h] = at[h]
  BY <1>1 DEF FramesInv, FramesTyped, Shown
<1>3. FramesTyped'
  BY <1>1, <1>2 DEF FramesInv, FramesTyped
<1>4. FramesNamed' /\ WaitsOwn'
  BY <1>1, <1>2 DEF FramesInv, FramesTyped, FramesNamed, WaitsOwn
<1>5. StreamsOnce'
  <2>1. Elems(waits) \subseteq Frames /\ Elems(presents) \subseteq Frames
    BY DEF FramesInv, FramesTyped, Elems
  <2> QED BY <1>1, <1>2, <2>1 DEF FramesInv, StreamsOnce, Shown
<1>6. Ages
  BY <1>1, <1>2 DEF Ages, Using, Active, Shown
<1>7. OneActive' /\ ImportsSound'
  BY <1>1, <1>6, ImportsStay
<1> QED BY <1>3, <1>4, <1>5, <1>7 DEF FramesInv

\* The wait takes the signal of the frame that waits: no other is active with
\* its semaphore.
LEMMA GLKeeps == ASSUME None \notin Frames, FramesInv, Semaphores!glExecute PROVE FramesInv'
<1> USE DEF at, semaphore, commands, gpu, payload, waits, got, presents, imports
<1>1. PICK f : f = Head(waits)
  OBVIOUS
<1>2. PICK s : s = semaphore[f]
  OBVIOUS
<1>3. /\ UNCHANGED <<at, semaphore, commands, gpu, presents, imports>>
      /\ waits # <<>> /\ payload[s] # None /\ got' = [got EXCEPT ![f] = payload[s]]
      /\ payload' = [payload EXCEPT ![s] = None] /\ waits' = Tail(waits)
  BY <1>1, <1>2 DEF Semaphores!glExecute
<1>4. /\ waits' \in Seq(Frames) /\ Distinct(waits') /\ f \in Elems(waits) /\ f \in Frames /\ Elems(waits') = Elems(waits) \ {f}
  BY <1>1, <1>3, TailElems DEF FramesInv, FramesTyped, StreamsOnce
<1>5. at[f] \in Shown /\ s \in Frames /\ payload[s] \in Frames
  BY <1>2, <1>3, <1>4 DEF FramesInv, FramesTyped, StreamsOnce, FramesNamed, Shown
<1>6. payload[s] = f
  <2>1. PICK g \in Frames : g = payload[s]
    BY <1>5
  <2>2. at[g] # "new" /\ semaphore[g] = s
    BY <1>3, <1>5, <2>1 DEF FramesInv, FramesNamed
  <2>3. Active(g)
    BY <2>1, <2>2 DEF Active
  <2>4. Active(f)
    BY <1>4, <1>5 DEF Active, Shown
  <2> QED BY <1>2, <1>4, <2>1, <2>2, <2>3, <2>4 DEF FramesInv, OneActive
<1>7. f \notin Elems(gpu)
  BY <1>2, <1>6 DEF FramesInv, StreamsOnce
<1>8. /\ payload' \in [Frames -> Frames \cup {None}] /\ payload'[s] = None
      /\ \A r \in Frames : r # s => payload'[r] = payload[r]
      /\ got' \in [Frames -> Frames \cup {None}] /\ got'[f] = f /\ \A h \in Frames : h # f => got'[h] = got[h]
  BY <1>3, <1>4, <1>5, <1>6 DEF FramesInv, FramesTyped
<1>9. FramesTyped'
  BY <1>3, <1>4, <1>8 DEF FramesInv, FramesTyped
<1>10. FramesNamed' /\ WaitsOwn'
  BY <1>3, <1>8 DEF FramesInv, FramesNamed, WaitsOwn
<1>11. StreamsOnce'
  <2>1. ASSUME NEW h \in Elems(gpu) PROVE payload'[semaphore[h]] # h
    <3>1. h \in Frames /\ semaphore[h] \in Frames
      BY DEF FramesInv, FramesTyped, StreamsOnce, FramesNamed, Elems
    <3> QED BY <1>8, <3>1 DEF FramesInv, StreamsOnce
  <2> QED BY <1>3, <1>4, <2>1 DEF FramesInv, StreamsOnce
<1>12. \A h \in Frames : payload'[semaphore[h]] = h /\ semaphore[h] \in Frames => payload[semaphore[h]] = h
  BY <1>8
<1>13. Ages
  <2>1. ASSUME NEW h \in Frames, Using(h)' PROVE Using(h)
    BY <1>3, <1>4, <1>12, <2>1 DEF Using
  <2>2. ASSUME NEW h \in Frames, Active(h)' PROVE Active(h)
    BY <1>3, <1>4, <1>12, <2>2 DEF Active, FramesInv, FramesNamed
  <2>3. ~Using(f)'
    BY <1>2, <1>3, <1>4, <1>5, <1>7, <1>8 DEF Using, Shown
  <2> QED BY <1>3, <1>4, <2>1, <2>2, <2>3 DEF Ages
<1>14. OneActive' /\ ImportsSound'
  BY <1>3, <1>13, ImportsStay
<1> QED BY <1>9, <1>10, <1>11, <1>14 DEF FramesInv

\* What a commit takes: nobody is active with semaphore s, and its import, if it
\* has one, is not consumed from now on.
Takes(f, s) ==
  /\ at[f] = "new" /\ s \in Frames /\ (s = f \/ at[s] # "new") /\ payload[s] # f
  /\ \A g \in Frames : semaphore[g] = s => ~Active(g)
  /\ imports' \in Seq(Entries) /\ DOMAIN imports' = DOMAIN imports
  /\ \A j \in DOMAIN imports :
       /\ imports'[j].sem = imports[j].sem /\ imports'[j].fence = imports[j].fence
       /\ imports'[j].consumed => imports[j].consumed /\ imports[j].sem # s
       /\ imports[j].fence # None => imports[j].sem # s

LEMMA CommitTakes ==
  ASSUME None \notin Frames, FramesInv, NEW f \in Frames, NEW i \in 0 .. Len(imports), Semaphores!commit(f, i)
  PROVE  \E s \in Frames : Takes(f, s) /\ semaphore' = [semaphore EXCEPT ![f] = s]
<1> USE DEF at, semaphore, commands, gpu, payload, waits, got, presents, imports
<1>1. at[f] = "new" /\ Semaphores!acquire(i) /\ imports' = (IF i = 0 THEN imports ELSE Semaphores!TakeEntry(i))
  BY DEF Semaphores!commit
<1>2. semaphore' = [semaphore EXCEPT ![f] = IF i = 0 THEN f ELSE imports[i].sem]
  BY DEF Semaphores!commit
<1>3. \A s \in Frames : payload[s] # f
  BY <1>1 DEF FramesInv, FramesNamed
<1>4. /\ imports \in Seq(Entries) /\ DOMAIN imports = 1 .. Len(imports)
      /\ \A j \in DOMAIN imports : imports[j] \in Entries
  BY DEF FramesInv, FramesTyped
<1>5. CASE i = 0
  <2>1. \A g \in Frames : semaphore[g] = f => ~Active(g)
    BY <1>1 DEF FramesInv, FramesNamed, Active
  <2>2. \A j \in DOMAIN imports : imports[j].sem # f
    BY <1>1 DEF FramesInv, ImportsSound, EntrySound
  <2>3. Takes(f, f)
    BY <1>1, <1>3, <1>4, <1>5, <2>1, <2>2 DEF Takes
  <2> QED BY <1>2, <1>5, <2>3
<1>6. CASE i # 0
  <2>1. i \in DOMAIN imports
    BY <1>4, <1>6
  <2>2. PICK e \in Entries : e = imports[i]
    BY <1>4, <2>1
  <2>3. e.sem \in Frames /\ e.fence \in Frames \cup {None} /\ e.consumed \in BOOLEAN
    BY <2>2 DEF Entries
  <2>4. e.consumed /\ ~Semaphores!Shared(e.sem)
    BY <1>1, <1>6, <2>2 DEF Semaphores!acquire, Semaphores!Reusable
  <2>5. EntrySound(e) /\ \A j \in DOMAIN imports : imports[j].sem = e.sem => j = i
    BY <2>1, <2>2 DEF FramesInv, ImportsSound
  <2>6. e.fence = None /\ at[e.sem] # "new" /\ \A g \in Frames : semaphore[g] = e.sem => ~Using(g)
    BY <2>4, <2>5 DEF EntrySound
  <2>7. ASSUME NEW g \in Frames, semaphore[g] = e.sem PROVE ~Active(g)
    BY <2>3, <2>4, <2>6, <2>7 DEF Semaphores!Shared, Active, Using
  <2>8. imports' = [imports EXCEPT ![i].consumed = FALSE]
    BY <1>1, <1>6 DEF Semaphores!TakeEntry
  <2>9. [e EXCEPT !.consumed = FALSE] \in Entries
    BY <2>2 DEF Entries
  <2>10. /\ imports' \in Seq(Entries) /\ DOMAIN imports' = DOMAIN imports /\ imports'[i] = [e EXCEPT !.consumed = FALSE]
         /\ \A j \in DOMAIN imports : j # i => imports'[j] = imports[j]
    BY <1>4, <2>1, <2>2, <2>8, <2>9
  <2>11. imports'[i].sem = e.sem /\ imports'[i].fence = e.fence /\ imports'[i].consumed = FALSE
    BY <2>2, <2>10 DEF Entries
  <2>12. Takes(f, e.sem)
    BY <1>1, <1>3, <2>2, <2>3, <2>5, <2>6, <2>7, <2>10, <2>11 DEF Takes
  <2> QED BY <1>2, <1>6, <2>2, <2>3, <2>12
<1> QED BY <1>5, <1>6

LEMMA CommitKeeps ==
  ASSUME None \notin Frames, FramesInv, NEW f \in Frames, NEW i \in 0 .. Len(imports), Semaphores!commit(f, i)
  PROVE  FramesInv'
<1> USE DEF at, semaphore, commands, gpu, payload, waits, got, presents, imports
<1>1. /\ UNCHANGED <<payload, waits, got, presents>> /\ at[f] = "new" /\ at' = [at EXCEPT ![f] = "committed"]
      /\ commands' = commands \cup {f} /\ gpu' = Append(gpu, f)
  BY DEF Semaphores!commit, Semaphores!gl
<1>2. PICK s \in Frames : Takes(f, s) /\ semaphore' = [semaphore EXCEPT ![f] = s]
  BY CommitTakes
<1>3. /\ at' \in [Frames -> {"new", "committed", "queued"} \cup Shown] /\ at'[f] = "committed"
      /\ \A h \in Frames : h # f => at'[h] = at[h]
  BY <1>1 DEF FramesInv, FramesTyped
<1>4. /\ semaphore' \in [Frames -> Frames \cup {None}] /\ semaphore'[f] = s
      /\ \A h \in Frames : h # f => semaphore'[h] = semaphore[h]
  BY <1>2 DEF FramesInv, FramesTyped
<1>5. f \notin commands /\ f \notin Elems(gpu) /\ f \notin Elems(waits) /\ f \notin Elems(presents)
  BY <1>1 DEF FramesInv, FramesNamed, StreamsOnce, Shown
<1>6. gpu' \in Seq(Frames) /\ Distinct(gpu') /\ Elems(gpu') = Elems(gpu) \cup {f}
  BY <1>1, <1>5, AppendElems DEF FramesInv, FramesTyped, StreamsOnce
<1>7. Elems(gpu) \subseteq Frames /\ Elems(waits) \subseteq Frames /\ Elems(presents) \subseteq Frames
  BY DEF FramesInv, FramesTyped, Elems
<1>8. FramesTyped'
  BY <1>1, <1>2, <1>3, <1>4, <1>6 DEF FramesInv, FramesTyped, Takes
<1>9. FramesNamed' /\ WaitsOwn'
  <2>1. ASSUME NEW h \in Frames, at'[h] # "new" PROVE semaphore'[h] \in Frames /\ at'[semaphore'[h]] # "new"
    BY <1>2, <1>3, <1>4, <2>1 DEF Takes, FramesInv, FramesNamed
  <2>2. ASSUME NEW h \in Frames, at'[h] = "new" PROVE semaphore'[h] = None /\ h \notin commands'
    BY <1>1, <1>3, <1>4, <2>2 DEF FramesInv, FramesNamed
  <2>3. ASSUME NEW r \in Frames, payload[r] # None PROVE at'[payload[r]] # "new" /\ semaphore'[payload[r]] = r
    <3>1. payload[r] \in Frames /\ payload[r] # f
      BY <1>1, <2>3 DEF FramesInv, FramesTyped, FramesNamed
    <3> QED BY <1>3, <1>4, <2>3, <3>1 DEF FramesInv, FramesNamed
  <2> QED BY <1>1, <2>1, <2>2, <2>3 DEF FramesInv, FramesNamed, WaitsOwn
<1>10. StreamsOnce'
  <2>1. ASSUME NEW h \in Elems(gpu') PROVE h \in commands' /\ payload'[semaphore'[h]] # h
    BY <1>1, <1>2, <1>4, <1>6, <1>7, <2>1 DEF Takes, FramesInv, StreamsOnce
  <2>2. \A h \in Elems(waits') : at'[h] \in Shown
    BY <1>1, <1>3, <1>5, <1>7 DEF FramesInv, StreamsOnce
  <2>3. \A h \in Elems(presents') : at'[h] = "queued"
    BY <1>1, <1>3, <1>5, <1>7 DEF FramesInv, StreamsOnce
  <2>4. Distinct(waits') /\ Distinct(presents')
    BY <1>1 DEF FramesInv, StreamsOnce
  <2> QED BY <1>6, <2>1, <2>2, <2>3, <2>4 DEF StreamsOnce
<1>11. ASSUME NEW h \in Frames, h # f PROVE (Using(h)' <=> Using(h)) /\ (Active(h)' <=> Active(h))
  BY <1>1, <1>3, <1>4, <1>6, <1>11 DEF Using, Active
<1>12. OneActive'
  <2>1. ASSUME NEW g \in Frames, g # f, Active(g)', semaphore'[g] = s PROVE FALSE
    BY <1>2, <1>4, <1>11, <2>1 DEF Takes
  <2> QED BY <1>4, <1>11, <2>1 DEF FramesInv, OneActive
<1>13. ImportsSound'
  <2>1. ASSUME NEW j \in DOMAIN imports' PROVE EntrySound(imports[j])'
    <3>1. j \in DOMAIN imports
      BY <1>2, <2>1 DEF Takes
    <3>2. PICK e \in Entries : e = imports[j]
      BY <3>1 DEF FramesInv, FramesTyped
    <3>3. PICK d : d = imports'[j]
      OBVIOUS
    <3>4. /\ d.sem = e.sem /\ d.fence = e.fence /\ (d.consumed => e.consumed /\ e.sem # s) /\ (e.fence # None => e.sem # s)
      BY <1>2, <3>1, <3>2, <3>3 DEF Takes
    <3>5. EntrySound(e) /\ e.sem \in Frames /\ e.fence \in Frames \cup {None}
      BY <3>1, <3>2 DEF FramesInv, ImportsSound, Entries
    <3>6. at'[d.sem] # "new"
      BY <1>3, <3>4, <3>5 DEF EntrySound
    <3>7. ASSUME d.consumed PROVE d.fence = None /\ \A h \in Frames : semaphore'[h] = d.sem => ~Using(h)'
      BY <1>4, <1>11, <3>4, <3>5, <3>7 DEF EntrySound
    <3>8. ASSUME d.fence # None
          PROVE  /\ semaphore'[d.fence] = d.sem /\ at'[d.fence] \in Shown
                 /\ d.fence \in Elems(waits') \/ ~Using(d.fence)'
                 /\ \A h \in Frames : semaphore'[h] = d.sem /\ Active(h)' => h = d.fence
      <4>1. e.fence \in Frames /\ e.fence # f /\ e.sem # s
        BY <1>1, <3>4, <3>5, <3>8 DEF EntrySound, Shown
      <4> QED BY <1>1, <1>3, <1>4, <1>11, <3>4, <3>5, <3>8, <4>1 DEF EntrySound
    <3> QED BY <3>3, <3>6, <3>7, <3>8 DEF EntrySound
  <2>2. \A j, l \in DOMAIN imports' : imports'[j].sem = imports'[l].sem => j = l
    BY <1>2 DEF Takes, FramesInv, ImportsSound
  <2> QED BY <2>1, <2>2 DEF ImportsSound
<1> QED BY <1>8, <1>9, <1>10, <1>12, <1>13 DEF FramesInv

\* The imports after the fences that GL has passed: those are consumed, for the
\* one frame that was active with them uses its semaphore no more.
LEMMA PolledSound ==
  ASSUME None \notin Frames, FramesInv, NEW p, p = Semaphores!pollFences(imports)
  PROVE  /\ p \in Seq(Entries) /\ \A j, l \in DOMAIN p : p[j].sem = p[l].sem => j = l
         /\ \A j \in DOMAIN p : EntrySound(p[j])
<1> USE DEF at, semaphore, commands, gpu, payload, waits, got, presents, imports
<1>1. /\ imports \in Seq(Entries) /\ DOMAIN imports = 1 .. Len(imports) /\ Len(imports) \in Nat
      /\ \A j \in DOMAIN imports : imports[j] \in Entries
  BY DEF FramesInv, FramesTyped
<1>2. DOMAIN p = DOMAIN imports
  BY DEF Semaphores!pollFences
<1>3. ASSUME NEW j \in DOMAIN imports PROVE p[j] \in Entries /\ p[j].sem = imports[j].sem /\ EntrySound(p[j])
  <2>1. PICK e \in Entries : e = imports[j]
    BY <1>1
  <2>2. e.sem \in Frames /\ e.fence \in Frames \cup {None} /\ EntrySound(e)
    BY <2>1 DEF Entries, FramesInv, ImportsSound
  <2>3. p[j] = IF e.fence = None \/ e.fence \in Elems(waits) THEN e ELSE [e EXCEPT !.fence = None, !.consumed = TRUE]
    BY <2>1 DEF Semaphores!pollFences, Semaphores!ToSet, Elems
  <2>4. CASE e.fence = None \/ e.fence \in Elems(waits)
    BY <2>1, <2>2, <2>3, <2>4
  <2>5. CASE e.fence # None /\ e.fence \notin Elems(waits)
    <3>1. PICK d : d = p[j]
      OBVIOUS
    <3>2. d = [e EXCEPT !.fence = None, !.consumed = TRUE]
      BY <2>3, <2>5, <3>1
    <3>3. d \in Entries /\ d.sem = e.sem /\ d.fence = None /\ d.consumed = TRUE
      BY <3>2 DEF Entries
    <3>4. ASSUME NEW f \in Frames, semaphore[f] = e.sem PROVE ~Using(f)
      BY <2>2, <2>5, <3>4, UsingActive DEF EntrySound
    <3>5. EntrySound(d)
      BY <2>2, <3>3, <3>4 DEF EntrySound
    <3> QED BY <2>1, <3>1, <3>3, <3>5
  <2> QED BY <2>4, <2>5
<1>4. p \in Seq(Entries)
  <2>1. p = [j \in 1 .. Len(imports) |-> p[j]]
    BY <1>1 DEF Semaphores!pollFences
  <2> QED BY <1>1, <1>3, <2>1
<1> QED BY <1>2, <1>3, <1>4 DEF FramesInv, ImportsSound

\* The next frame's fence is put on its semaphore's import, which is not
\* consumed, or on a new one.
LEMMA FenceSound ==
  ASSUME None \notin Frames, FramesInv, Ages, NEW b \in Seq(Entries), NEW x \in Frames, imports' = Semaphores!WithFence(b, x),
         at[x] = "queued", at'[x] = "last", x \in Elems(waits'),
         \A j, l \in DOMAIN b : b[j].sem = b[l].sem => j = l,
         \A j \in DOMAIN b : EntrySound(b[j])
  PROVE  imports' \in Seq(Entries) /\ ImportsSound'
<1> USE DEF at, semaphore, commands, gpu, payload, waits, got, presents, imports
<1>1. PICK s : s = semaphore[x]
  OBVIOUS
<1>2. s \in Frames /\ Using(x) /\ Active(x) /\ semaphore' = semaphore
  BY <1>1 DEF FramesInv, FramesNamed, Using, Active, Ages
<1>3. \A j \in DOMAIN b : b[j] \in Entries /\ EntrySound(b[j])'
  BY AgingKeeps
<1>4. \A f \in Frames : semaphore'[f] = s /\ Active(f)' => f = x
  BY <1>1, <1>2 DEF Ages, FramesInv, OneActive
<1>5. ASSUME NEW d, d.sem = s, d.fence = x, ~d.consumed PROVE EntrySound(d)'
  <2>1. at'[s] # "new"
    BY <1>1, <1>2 DEF Ages, FramesInv, FramesNamed
  <2>2. semaphore'[x] = s /\ at'[x] \in Shown
    BY <1>1, <1>2 DEF Shown
  <2> QED BY <1>4, <1>5, <2>1, <2>2 DEF EntrySound
<1>6. CASE \E j \in DOMAIN b : b[j].sem = s
  <2>1. PICK c : c = [j \in DOMAIN b |-> IF b[j].sem = s THEN [b[j] EXCEPT !.fence = x] ELSE b[j]]
    OBVIOUS
  <2>2. imports' = c
    BY <1>1, <1>6, <2>1 DEF Semaphores!WithFence
  <2>3. ASSUME NEW j \in DOMAIN b PROVE c[j] \in Entries /\ c[j].sem = b[j].sem /\ EntrySound(c[j])'
    <3>1. PICK e \in Entries : e = b[j]
      BY <1>3
    <3>2. CASE e.sem = s
      <4>1. ~e.consumed
        BY <1>1, <1>2, <3>1, <3>2 DEF EntrySound
      <4>2. c[j] = [e EXCEPT !.fence = x]
        BY <2>1, <3>1, <3>2
      <4>3. c[j] \in Entries /\ c[j].sem = s /\ c[j].fence = x /\ ~c[j].consumed
        BY <3>2, <4>1, <4>2 DEF Entries
      <4> QED BY <1>5, <3>1, <3>2, <4>3
    <3>3. CASE e.sem # s
      <4>1. c[j] = e
        BY <2>1, <3>1, <3>3
      <4> QED BY <1>3, <3>1, <4>1
    <3> QED BY <3>2, <3>3
  <2>4. DOMAIN c = DOMAIN b
    BY <2>1
  <2>5. c \in Seq(Entries)
    <3>1. DOMAIN b = 1 .. Len(b) /\ Len(b) \in Nat
      OBVIOUS
    <3>2. c = [j \in 1 .. Len(b) |-> c[j]]
      BY <2>1, <3>1
    <3> QED BY <2>3, <3>1, <3>2
  <2>6. ImportsSound'
    <3>1. \A j \in DOMAIN imports' : EntrySound(imports[j])'
      BY <2>2, <2>3, <2>4
    <3>2. \A j, l \in DOMAIN imports' : imports'[j].sem = imports'[l].sem => j = l
      BY <2>2, <2>3, <2>4
    <3> QED BY <3>1, <3>2 DEF ImportsSound
  <2> QED BY <2>2, <2>5, <2>6
<1>7. CASE ~\E j \in DOMAIN b : b[j].sem = s
  <2>1. PICK d : d = [sem |-> s, fence |-> x, consumed |-> FALSE]
    OBVIOUS
  <2>2. d \in Entries /\ d.sem = s /\ EntrySound(d)'
    BY <1>2, <1>5, <2>1 DEF Entries
  <2>3. imports' = b \/ imports' = Append(b, d)
    BY <1>1, <1>7, <2>1 DEF Semaphores!WithFence, Semaphores!remember
  <2>4. CASE imports' = b
    <3>1. \A j \in DOMAIN imports' : EntrySound(imports[j])'
      BY <1>3, <2>4
    <3>2. \A j, l \in DOMAIN imports' : imports'[j].sem = imports'[l].sem => j = l
      BY <2>4
    <3> QED BY <2>4, <3>1, <3>2 DEF ImportsSound
  <2>5. CASE imports' = Append(b, d)
    <3>1. /\ imports' \in Seq(Entries) /\ DOMAIN imports' = DOMAIN b \cup {Len(b) + 1}
          /\ imports'[Len(b) + 1] = d /\ \A j \in DOMAIN b : imports'[j] = b[j]
      BY <2>2, <2>5
    <3>2. \A j \in DOMAIN imports' : EntrySound(imports[j])'
      BY <1>3, <2>2, <3>1
    <3>3. \A j, l \in DOMAIN imports' : imports'[j].sem = imports'[l].sem => j = l
      BY <1>7, <2>2, <3>1
    <3> QED BY <3>1, <3>2, <3>3 DEF ImportsSound
  <2> QED BY <2>3, <2>4, <2>5
<1> QED BY <1>1, <1>6, <1>7

\* What prepareRender does to the frames: those in drop are released, those in
\* show (one or none), all queued before, are shown next.
Renders(drop, show) ==
  /\ UNCHANGED <<semaphore, commands, gpu, payload, got>>
  /\ \A f \in drop \cup show : f \in Frames /\ at[f] = "queued"
  /\ at' = [f \in Frames |-> IF f \in show THEN "last" ELSE IF f \in drop \/ at[f] = "last" THEN "released" ELSE at[f]]
  /\ presents' \in Seq(Frames) /\ Distinct(presents') /\ Elems(presents') \subseteq Elems(presents) \ (drop \cup show)
  /\ waits' \in Seq(Frames) /\ Distinct(waits') /\ Elems(waits') = Elems(waits) \cup show

LEMMA RenderRenders ==
  ASSUME None \notin Frames, FramesInv, NEW k \in 0 .. Len(presents), NEW fresh \in BOOLEAN, Semaphores!prepareRender(k, fresh)
  PROVE  \/ k = Len(presents) /\ imports' = imports /\ \E drop : Renders(drop, {})
         \/ /\ k < Len(presents) /\ \E drop : Renders(drop, {presents[k + 1]})
            /\ imports' = Semaphores!WithFence(IF fresh THEN <<>> ELSE Semaphores!pollFences(imports), presents[k + 1])
<1> USE DEF at, semaphore, commands, gpu, payload, waits, got, presents, imports
<1>1. /\ presents \in Seq(Frames) /\ waits \in Seq(Frames) /\ Len(presents) \in Nat /\ DOMAIN presents = 1 .. Len(presents)
      /\ Distinct(presents) /\ Distinct(waits) /\ \A j \in 1 .. Len(presents) : presents[j] \in Frames /\ at[presents[j]] = "queued"
  BY DEF FramesInv, FramesTyped, StreamsOnce, Elems
<1>2. UNCHANGED <<semaphore, commands, gpu, payload, got>>
  BY DEF Semaphores!prepareRender, Semaphores!vulkan
<1>3. PICK drop : drop = {presents[j] : j \in 1 .. k}
  OBVIOUS
<1>4. Semaphores!ToSet(SubSeq(presents, 1, k)) = drop
  BY <1>1, <1>3, FrontElems DEF Semaphores!ToSet, Elems
<1>5. \A f \in drop : f \in Frames /\ at[f] = "queued"
  BY <1>1, <1>3
<1>6. PICK show : show = IF k < Len(presents) THEN <<presents[k + 1]>> ELSE <<>>
  OBVIOUS
<1>7. /\ at' = [f \in Frames |-> CASE f \in Semaphores!ToSet(show) -> "last"
                                   [] f \in Semaphores!ToSet(SubSeq(presents, 1, k)) \/ at[f] = "last" -> "released"
                                   [] OTHER -> at[f]]
      /\ presents' = SubSeq(presents, k + 1 + Len(show), Len(presents)) /\ waits' = waits \o show
      /\ imports' = IF k = Len(presents) THEN imports
                    ELSE Semaphores!WithFence(IF fresh THEN <<>> ELSE Semaphores!pollFences(imports), presents[k + 1])
  BY <1>6 DEF Semaphores!prepareRender
<1>8. CASE k = Len(presents)
  <2>1. show = <<>> /\ Len(show) = 0 /\ waits \o show = waits
    BY <1>1, <1>6, <1>8
  <2>2. Semaphores!ToSet(show) = {}
    BY <2>1 DEF Semaphores!ToSet
  <2>3. presents' = SubSeq(presents, k + 1, Len(presents)) /\ waits' = waits
    <3>1. k \in Nat /\ k + 1 + Len(show) = k + 1
      BY <1>1, <2>1
    <3>2. presents' = SubSeq(presents, k + 1 + Len(show), Len(presents)) /\ waits' = waits \o show
      BY <1>7
    <3> QED BY <2>1, <3>1, <3>2
  <2>4. /\ presents' \in Seq(Frames) /\ Distinct(presents') /\ Elems(presents') \subseteq Elems(presents)
        /\ \A j \in 1 .. k : presents[j] \notin Elems(presents')
    BY <1>1, <2>3, RestElems
  <2>5. Elems(presents') \subseteq Elems(presents) \ drop
    BY <1>3, <2>4
  <2>6. at' = [f \in Frames |-> IF f \in {} THEN "last" ELSE IF f \in drop \/ at[f] = "last" THEN "released" ELSE at[f]]
    BY <1>4, <1>7, <2>2
  <2>7. waits' \in Seq(Frames) /\ Distinct(waits') /\ Elems(waits') = Elems(waits)
    BY <1>1, <2>3
  <2>8. Renders(drop, {})
    BY <1>2, <1>5, <2>4, <2>5, <2>6, <2>7 DEF Renders
  <2> QED BY <1>7, <1>8, <2>8
<1>9. CASE k < Len(presents)
  <2>1. PICK x : x = presents[k + 1]
    OBVIOUS
  <2>2. k + 1 \in 1 .. Len(presents) /\ x \in Frames /\ at[x] = "queued"
    BY <1>1, <1>9, <2>1
  <2>3. show = <<x>>
    BY <1>9, <1>6, <2>1
  <2>4. Semaphores!ToSet(show) = {x}
    BY <2>3 DEF Semaphores!ToSet
  <2>5. PICK m \in 0 .. Len(presents) : m = k + 1
    BY <1>1, <2>2
  <2>6. presents' = SubSeq(presents, m + 1, Len(presents)) /\ waits' = Append(waits, x)
    BY <1>1, <1>7, <2>2, <2>3, <2>5
  <2>7. /\ presents' \in Seq(Frames) /\ Distinct(presents') /\ Elems(presents') \subseteq Elems(presents)
        /\ \A j \in 1 .. m : presents[j] \notin Elems(presents')
    BY <1>1, <2>6, RestElems
  <2>8. Elems(presents') \subseteq Elems(presents) \ (drop \cup {x})
    <3>1. \A j \in 1 .. k : j \in 1 .. m
      BY <1>1, <2>5
    <3>2. k + 1 \in 1 .. m
      BY <1>1, <2>5
    <3> QED BY <1>3, <2>1, <2>7, <3>1, <3>2
  <2>9. x \notin drop
    <3>1. \A j \in 1 .. k : j \in 1 .. Len(presents) /\ j # k + 1
      BY <1>1
    <3> QED BY <1>1, <1>3, <2>1, <2>2, <3>1 DEF Distinct
  <2>10. at' = [f \in Frames |-> IF f \in {x} THEN "last" ELSE IF f \in drop \/ at[f] = "last" THEN "released" ELSE at[f]]
    <3>1. ASSUME NEW f \in Frames
          PROVE  at'[f] = IF f \in {x} THEN "last" ELSE IF f \in drop \/ at[f] = "last" THEN "released" ELSE at[f]
      <4>1. at'[f] = CASE f \in Semaphores!ToSet(show) -> "last"
                       [] f \in drop \/ at[f] = "last" -> "released"
                       [] OTHER -> at[f]
        BY <1>4, <1>7
      <4> QED BY <2>2, <2>4, <2>9, <4>1
    <3>2. at' = [f \in Frames |-> at'[f]]
      BY <1>7
    <3> QED BY <3>1, <3>2
  <2>11. x \notin Elems(waits)
    BY <2>2 DEF FramesInv, StreamsOnce, Shown
  <2>12. waits' \in Seq(Frames) /\ Distinct(waits') /\ Elems(waits') = Elems(waits) \cup {x}
    BY <1>1, <2>2, <2>6, <2>11, AppendElems
  <2>13. Renders(drop, {x})
    BY <1>2, <1>5, <2>2, <2>7, <2>8, <2>10, <2>12 DEF Renders
  <2>14. k # Len(presents)
    <3>1. PICK n \in Nat : n = Len(presents)
      BY <1>1
    <3> QED BY <1>9, <3>1
  <2> QED BY <1>7, <1>9, <2>1, <2>13, <2>14
<1>10. k = Len(presents) \/ k < Len(presents)
  <2>1. PICK n \in Nat : n = Len(presents)
    BY <1>1
  <2> QED BY <2>1
<1> QED BY <1>8, <1>9, <1>10

LEMMA RenderKeeps ==
  ASSUME None \notin Frames, FramesInv, NEW k \in 0 .. Len(presents), NEW fresh \in BOOLEAN, Semaphores!prepareRender(k, fresh)
  PROVE  FramesInv'
<1> USE DEF at, semaphore, commands, gpu, payload, waits, got, presents, imports
<1>1. ASSUME NEW drop, NEW show, Renders(drop, show)
      PROVE  /\ Ages /\ FramesNamed' /\ StreamsOnce' /\ WaitsOwn' /\ (imports' \in Seq(Entries) => FramesTyped')
             /\ \A f \in show : f \in Frames /\ at[f] = "queued" /\ at'[f] = "last" /\ f \in Elems(waits')
  <2>1. UNCHANGED <<semaphore, commands, gpu, payload, got>> /\ \A f \in drop \cup show : f \in Frames /\ at[f] = "queued"
    BY <1>1 DEF Renders
  <2>2. \A f \in Frames : at'[f] = IF f \in show THEN "last" ELSE IF f \in drop \/ at[f] = "last" THEN "released" ELSE at[f]
    BY <1>1 DEF Renders
  <2>3. /\ presents' \in Seq(Frames) /\ Distinct(presents') /\ Elems(presents') \subseteq Elems(presents) \ (drop \cup show)
        /\ waits' \in Seq(Frames) /\ Distinct(waits') /\ Elems(waits') = Elems(waits) \cup show
    BY <1>1 DEF Renders
  <2>4. at' \in [Frames -> {"new", "committed", "queued"} \cup Shown]
    BY <1>1 DEF Renders, FramesInv, FramesTyped, Shown
  <2>5. \A f \in Frames : (at'[f] = "new" <=> at[f] = "new") /\ (at[f] \in Shown => at'[f] \in Shown)
    BY <2>1, <2>2 DEF Shown
  <2>6. \A f \in Frames : at'[f] \in {"committed", "queued"} => at[f] \in {"committed", "queued"}
    BY <2>2
  <2>7. \A f \in Frames : at[f] = "reset" => at'[f] = "reset"
    BY <2>1, <2>2
  <2>8. Ages
    <3>1. ASSUME NEW f \in Frames, Using(f)' PROVE Using(f)
      BY <2>1, <2>3, <2>6, <3>1 DEF Using
    <3>2. ASSUME NEW f \in Frames, Active(f)' PROVE Active(f)
      BY <2>1, <2>3, <2>5, <2>7, <3>2 DEF Active
    <3> QED BY <2>1, <2>3, <2>5, <3>1, <3>2 DEF Ages
  <2>9. FramesNamed' /\ WaitsOwn'
    BY <2>1, <2>5 DEF FramesInv, FramesTyped, FramesNamed, WaitsOwn
  <2>10. Elems(waits) \subseteq Frames /\ Elems(presents) \subseteq Frames
    BY DEF FramesInv, FramesTyped, Elems
  <2>11. StreamsOnce'
    <3>1. \A f \in Elems(waits') : at'[f] \in Shown
      BY <2>1, <2>2, <2>3, <2>5, <2>10 DEF FramesInv, StreamsOnce, Shown
    <3>2. \A f \in Elems(presents') : at'[f] = "queued"
      BY <2>2, <2>3, <2>10 DEF FramesInv, StreamsOnce
    <3> QED BY <2>1, <2>3, <3>1, <3>2 DEF FramesInv, StreamsOnce
  <2>12. imports' \in Seq(Entries) => FramesTyped'
    BY <2>1, <2>3, <2>4 DEF FramesInv, FramesTyped
  <2> QED BY <2>1, <2>2, <2>3, <2>8, <2>9, <2>11, <2>12
<1>2. CASE imports' = imports /\ \E drop : Renders(drop, {})
  <2>1. Ages /\ FramesNamed' /\ StreamsOnce' /\ WaitsOwn' /\ (imports' \in Seq(Entries) => FramesTyped')
    BY <1>1, <1>2
  <2>2. OneActive' /\ ImportsSound'
    BY <1>2, <2>1, ImportsStay
  <2> QED BY <1>2, <2>1, <2>2 DEF FramesInv, FramesTyped
<1>3. CASE /\ \E drop : Renders(drop, {presents[k + 1]})
           /\ imports' = Semaphores!WithFence(IF fresh THEN <<>> ELSE Semaphores!pollFences(imports), presents[k + 1])
  <2>1. PICK x : x = presents[k + 1]
    OBVIOUS
  <2>2. PICK drop : Renders(drop, {x})
    BY <1>3, <2>1
  <2>3. /\ Ages /\ FramesNamed' /\ StreamsOnce' /\ WaitsOwn' /\ (imports' \in Seq(Entries) => FramesTyped')
        /\ x \in Frames /\ at[x] = "queued" /\ at'[x] = "last" /\ x \in Elems(waits')
    BY <1>1, <2>2
  <2>4. PICK b : b = IF fresh THEN <<>> ELSE Semaphores!pollFences(imports)
    OBVIOUS
  <2>5. /\ b \in Seq(Entries) /\ \A j, l \in DOMAIN b : b[j].sem = b[l].sem => j = l
        /\ \A j \in DOMAIN b : EntrySound(b[j])
    <3>1. CASE fresh
      BY <2>4, <3>1
    <3>2. CASE ~fresh
      BY <2>4, <3>2, PolledSound
    <3> QED BY <3>1, <3>2
  <2>6. imports' = Semaphores!WithFence(b, x)
    BY <1>3, <2>1, <2>4
  <2>7. imports' \in Seq(Entries) /\ ImportsSound'
    BY <2>3, <2>5, <2>6, FenceSound
  <2>8. OneActive'
    BY <2>3, AgingKeeps DEF FramesInv
  <2> QED BY <2>3, <2>7, <2>8 DEF FramesInv
<1> QED BY <1>2, <1>3, RenderRenders

LEMMA FramesStay == ASSUME FramesInv, UNCHANGED Semaphores!vars PROVE FramesInv'
<1> USE DEF at, semaphore, commands, gpu, payload, waits, got, presents, imports
<1>1. UNCHANGED <<at, semaphore, commands, gpu, payload, waits, got, presents, imports>>
  BY DEF Semaphores!vars
<1>2. FramesTyped' /\ FramesNamed' /\ StreamsOnce' /\ WaitsOwn'
  BY <1>1 DEF FramesInv, FramesTyped, FramesNamed, StreamsOnce, WaitsOwn
<1>3. Ages
  BY <1>1 DEF Ages, Using, Active
<1> QED BY <1>1, <1>2, <1>3, ImportsStay DEF FramesInv

LEMMA FramesKeep == ASSUME None \notin Frames, FramesInv, [Semaphores!Next]_(Semaphores!vars) PROVE FramesInv'
<1> USE DEF at, semaphore, commands, gpu, payload, waits, got, presents, imports
<1> QED BY FramesStay, CommitKeeps, CompletedKeeps, QueueKeeps, ResetKeeps, ExecuteKeeps, GLKeeps, RenderKeeps
        DEF Semaphores!Next

LEMMA FramesSafe == ASSUME None \notin Frames, FramesInv PROVE Semaphores!Safety
<1> USE DEF at, semaphore, commands, gpu, payload, waits, got, presents, imports
<1>1. Semaphores!ToSet(gpu) = Elems(gpu) /\ Semaphores!ToSet(waits) = Elems(waits) /\ Semaphores!ToSet(presents) = Elems(presents)
  BY DEF Semaphores!ToSet, Elems
<1>2. Elems(gpu) \subseteq Frames /\ Elems(waits) \subseteq Frames /\ Elems(presents) \subseteq Frames
  BY DEF FramesInv, FramesTyped, Elems
<1>3. \A f \in Elems(gpu) \cup Elems(waits) : f \in Frames /\ Active(f) /\ semaphore[f] \in Frames
  BY <1>2 DEF FramesInv, FramesNamed, StreamsOnce, Active, Shown
<1>4. ASSUME NEW f \in Elems(gpu) \cup Elems(waits) PROVE payload[semaphore[f]] \in {None, f}
  <2>1. PICK g : g = payload[semaphore[f]]
    OBVIOUS
  <2>2. CASE g # None
    <3>1. g \in Frames /\ at[g] # "new" /\ semaphore[g] = semaphore[f]
      BY <1>3, <2>1, <2>2 DEF FramesInv, FramesTyped, FramesNamed
    <3>2. Active(g)
      BY <2>1, <3>1 DEF Active
    <3> QED BY <1>3, <2>1, <3>1, <3>2 DEF FramesInv, OneActive
  <2> QED BY <2>1, <2>2
<1>5. Semaphores!OneSignalAhead
  <2>1. ASSUME NEW f \in Elems(gpu)
        PROVE  payload[semaphore[f]] = None /\ \A g \in Elems(gpu) \cup Elems(waits) : semaphore[g] = semaphore[f] => g = f
    BY <1>3, <1>4 DEF FramesInv, StreamsOnce, OneActive
  <2> QED BY <1>1, <1>4, <2>1 DEF Semaphores!OneSignalAhead
<1>6. Semaphores!WaitsForOwnFrame
  BY DEF Semaphores!WaitsForOwnFrame, FramesInv, WaitsOwn
<1>7. Semaphores!ImportFenceFree
  <2>1. ASSUME NEW f \in Elems(presents), NEW i \in DOMAIN imports, imports[i].sem = semaphore[f] PROVE imports[i].fence = None
    <3>1. f \in Frames /\ at[f] = "queued" /\ EntrySound(imports[i])
      BY <1>2 DEF FramesInv, StreamsOnce, ImportsSound
    <3>2. Active(f)
      BY <3>1 DEF Active
    <3> QED BY <2>1, <3>1, <3>2 DEF EntrySound, Shown
  <2> QED BY <1>1, <2>1 DEF Semaphores!ImportFenceFree
<1> QED BY <1>5, <1>6, <1>7 DEF Semaphores!Safety

\* PresentsReuseSafely, which the run `rendering` checks, for any frames, slots
\* and images, imports and GL contexts without end (presentation-semaphore.hpp,
\* swapchain.cpp).
THEOREM PresentsAlwaysReuseSafely ==
  ASSUME None \notin Frames, FrameSlots \in Nat \ {0}, Images \in Nat
  PROVE  Spec => []PresentsReuseSafely
<1> DEFINE Inv == (part = "semaphores" => FramesInv) /\ (part = "swapchain" => Chain!IInv)
<1>1. Chain!Sized
  BY DEF Chain!Sized
<1>2. Init => Inv
  BY <1>1, RenderingInit, FramesBegin, Chain!InitHolds
<1>3. Inv /\ [Next]_vv => Inv'
  <2> SUFFICES ASSUME Inv, [Next]_vv PROVE Inv'
    OBVIOUS
  <2>1. part' = part
    BY RenderingStep
  <2>2. CASE part = "semaphores"
    BY <2>1, <2>2, RenderingStep, FramesKeep
  <2>3. CASE part = "swapchain"
    <3>1. Chain!IInv /\ [Chain!Next]_(Chain!vars)
      BY <2>3, RenderingStep
    <3>2. Chain!IInv'
      BY <1>1, <3>1, Chain!NextKeeps, Chain!StutterKeeps
    <3> QED BY <2>1, <2>3, <3>2
  <2> QED BY <2>1, <2>2, <2>3
<1>4. Inv => PresentsReuseSafely
  BY FramesSafe, Chain!SafetyFollows DEF PresentsReuseSafely
<1> QED BY <1>2, <1>3, <1>4, PTL DEF Spec
=============================================================================
