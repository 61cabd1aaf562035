------------------------------ MODULE Swapchain ------------------------------
(***************************************************************************)
(* SwapchainPresenter (native/renderer/swapchain.cpp): frame slots that    *)
(* are reused, a timeline that says which copies are done, recreation when *)
(* the window changes, and destruction after a failure.                    *)
(*                                                                         *)
(* present runs under _mutex.  Meanwhile the queue executes copies and     *)
(* presents in order, and the presentation engine signals acquired images  *)
(* and gives shown ones back.  A binary semaphore is "free" (unsignalled,  *)
(* nothing pending), "pending" or "signalled".                             *)
(***************************************************************************)
EXTENDS Naturals, Sequences

CONSTANTS
    Slots,          \* number of frame slots (4)
    Images,         \* number of images of a swapchain
    Extents,        \* sizes a window asks for, one number for both sides
    MinExtent, MaxExtent, \* the sizes the surface supports
    MaxPresents,    \* bound: calls of present
    MaxChains       \* bound: swapchains created

VARIABLES
    pc,         \* [at, extent, slot, image, value]: the thread inside present or the destructor
    chain,      \* [number, extent, stale]: _swapchain (0: none), _extent, _stale
    slots,      \* _frames: [done, acquired]
    next,       \* _next % Slots
    submitted,  \* _submitted
    queue,      \* work of _queue: [op, slot, image, chain, value], oldest first
    reached,    \* value of _copies
    images,     \* per image "ready", "acquired", "presented", "shown"
    rendered,   \* _rendered: per image the semaphore its present waits for
    calls,      \* [presents, chains]: bounds
    outcome     \* history: results of present, and releases registered with the event loop

vars == <<pc, chain, slots, next, submitted, queue, reached, images, rendered, calls, outcome>>

SlotSet == 0 .. Slots - 1
ImageSet == 1 .. Images
Idle == [at |-> "idle", extent |-> 0, slot |-> 0, image |-> 0, value |-> 0]

Init ==
    /\ pc = Idle /\ chain = [number |-> 0, extent |-> 0, stale |-> FALSE]
    /\ slots = [s \in SlotSet |-> [done |-> 0, acquired |-> "free"]]
    /\ next = 0 /\ submitted = 0 /\ queue = <<>> /\ reached = 0
    /\ images = [i \in ImageSet |-> "ready"] /\ rendered = [i \in ImageSet |-> "free"]
    /\ calls = [presents |-> 0, chains |-> 0]
    /\ outcome = [ok |-> 0, registered |-> 0]

\* The end of present: Dropped leaves the presenter, after Failed and Lost its
\* owner deletes it (drawable-reset.mm), which begins with waitIdle.
Return(result) ==
    /\ pc' = IF result \in {"Presented", "Dropped"} THEN Idle
             ELSE [Idle EXCEPT !.at = "destroy", !.value = submitted']
    /\ outcome' = [outcome EXCEPT !.ok = IF result \in {"Presented", "Lost"} THEN @ + 1 ELSE @]

-----------------------------------------------------------------------------
(* present *)

TakeSlot ==
    /\ pc' = [Idle EXCEPT !.at = "slot", !.slot = next, !.value = slots[next].done]
    /\ next' = (next + 1) % Slots

present(e) ==
    /\ pc.at = "idle" /\ calls.presents < MaxPresents
    /\ calls' = [calls EXCEPT !.presents = @ + 1]
    /\ IF chain.number = 0 \/ chain.stale \/ chain.extent # e
       THEN UNCHANGED next /\ pc' = [Idle EXCEPT !.at = "recreate", !.extent = e]
       ELSE TakeSlot
    /\ UNCHANGED <<chain, slots, submitted, queue, reached, images, rendered, outcome>>

\* The surface no longer offers what a swapchain needs.
recreateRefused ==
    /\ pc.at = "recreate"
    /\ UNCHANGED <<chain, slots, next, submitted, queue, reached, images, rendered, calls>>
    /\ Return("Failed")
recreateWaits ==
    /\ pc.at = "recreate"
    /\ pc' = [pc EXCEPT !.at = "drain", !.value = submitted]
    /\ UNCHANGED <<chain, slots, next, submitted, queue, reached, images, rendered, calls, outcome>>

\* waitIdle: the copies of the timeline, then the whole queue.
Drained == reached >= pc.value /\ queue = <<>>

\* std::clamp to what the surface supports.
Clamp(e) == IF e < MinExtent THEN MinExtent ELSE IF e > MaxExtent THEN MaxExtent ELSE e
recreate ==
    /\ pc.at = "drain" /\ Drained /\ calls.chains < MaxChains
    /\ chain' = [number |-> calls.chains + 1, extent |-> Clamp(pc.extent), stale |-> FALSE]
    /\ calls' = [calls EXCEPT !.chains = @ + 1]
    /\ images' = [i \in ImageSet |-> "ready"] /\ rendered' = [i \in ImageSet |-> "free"]
    /\ TakeSlot
    /\ UNCHANGED <<slots, submitted, queue, reached, outcome>>
recreateFails ==
    /\ pc.at = "drain" /\ Drained
    /\ chain' = [chain EXCEPT !.number = 0]
    /\ UNCHANGED <<slots, next, submitted, queue, reached, images, rendered, calls>>
    /\ Return("Failed")

\* Mutant: the slot's earlier copy is not waited for.
SlotTaken == TRUE

\* waitForCopies(frame.done)
SlotFree == reached >= pc.value
waitForCopies ==
    /\ pc.at = "slot" /\ SlotFree /\ pc' = [pc EXCEPT !.at = "acquire"]
    /\ UNCHANGED <<chain, slots, next, submitted, queue, reached, images, rendered, calls, outcome>>

acquire(i, suboptimal) ==
    /\ pc.at = "acquire" /\ images[i] = "ready"
    /\ images' = [images EXCEPT ![i] = "acquired"]
    /\ slots' = [slots EXCEPT ![pc.slot].acquired = "pending"]
    /\ chain' = [chain EXCEPT !.stale = @ \/ suboptimal]
    /\ pc' = [pc EXCEPT !.at = "submit", !.image = i]
    /\ UNCHANGED <<next, submitted, queue, reached, rendered, calls, outcome>>
\* Out of date, no image in time, or an error.
acquireFails(result, outOfDate) ==
    /\ pc.at = "acquire" /\ chain' = [chain EXCEPT !.stale = @ \/ outOfDate]
    /\ UNCHANGED <<slots, next, submitted, queue, reached, images, rendered, calls>>
    /\ Return(result)

Work(op, value) == [op |-> op, slot |-> pc.slot, image |-> pc.image, chain |-> chain.number, value |-> value]

submit ==
    /\ pc.at = "submit"
    /\ submitted' = submitted + 1 /\ queue' = Append(queue, Work("copy", submitted + 1))
    /\ slots' = [slots EXCEPT ![pc.slot].done = submitted + 1]
    /\ rendered' = [rendered EXCEPT ![pc.image] = "pending"]
    /\ pc' = [pc EXCEPT !.at = "present"]
    /\ outcome' = [outcome EXCEPT !.registered = @ + 1]
    /\ UNCHANGED <<chain, next, reached, images, calls>>
\* ++_submitted while the signals are listed, --_submitted when the submission fails.
submitFails ==
    /\ pc.at = "submit" /\ submitted' = (submitted + 1) - 1 /\ Return("Failed")
    /\ UNCHANGED <<chain, slots, next, queue, reached, images, rendered, calls>>

\* A rejected present is still queued and waits for its semaphore.
queuePresent(result, stale) ==
    /\ pc.at = "present"
    /\ queue' = Append(queue, Work("present", 0))
    /\ images' = [images EXCEPT ![pc.image] = "presented"]
    /\ chain' = [chain EXCEPT !.stale = @ \/ stale]
    /\ UNCHANGED <<slots, next, submitted, reached, rendered, calls>>
    /\ Return(result)

\* ~SwapchainPresenter
destroy ==
    /\ pc.at = "destroy" /\ Drained
    /\ pc' = [Idle EXCEPT !.at = "gone"] /\ chain' = [chain EXCEPT !.number = 0]
    /\ UNCHANGED <<slots, next, submitted, queue, reached, images, rendered, calls, outcome>>

-----------------------------------------------------------------------------
(* The queue and the presentation engine (external) *)

execute ==
    /\ queue # <<>> /\ queue' = Tail(queue)
    /\ LET w == Head(queue) IN
       IF w.op = "copy"
       THEN /\ slots[w.slot].acquired = "signalled"
            /\ slots' = [slots EXCEPT ![w.slot].acquired = "free"]
            /\ rendered' = [rendered EXCEPT ![w.image] = "signalled"]
            /\ reached' = w.value /\ UNCHANGED images
       ELSE /\ rendered[w.image] = "signalled"
            /\ rendered' = [rendered EXCEPT ![w.image] = "free"]
            /\ images' = [images EXCEPT ![w.image] = "shown"] /\ UNCHANGED <<slots, reached>>
    /\ UNCHANGED <<pc, chain, next, submitted, calls, outcome>>

engineSignals(s) ==
    /\ slots[s].acquired = "pending" /\ pc.at # "gone"
    /\ slots' = [slots EXCEPT ![s].acquired = "signalled"]
    /\ UNCHANGED <<pc, chain, next, submitted, queue, reached, images, rendered, calls, outcome>>
engineReleases(i) ==
    /\ images[i] = "shown" /\ images' = [images EXCEPT ![i] = "ready"]
    /\ UNCHANGED <<pc, chain, slots, next, submitted, queue, reached, rendered, calls, outcome>>

Present ==
    \/ recreateRefused \/ recreateWaits \/ recreate \/ recreateFails \/ waitForCopies
    \/ \E i \in ImageSet, b \in BOOLEAN : acquire(i, b)
    \/ acquireFails("Dropped", TRUE) \/ acquireFails("Dropped", FALSE) \/ acquireFails("Failed", FALSE)
    \/ submit \/ submitFails
    \/ queuePresent("Presented", FALSE) \/ queuePresent("Presented", TRUE) \/ queuePresent("Lost", FALSE)
    \/ destroy
Engine == (\E s \in SlotSet : engineSignals(s)) \/ (\E i \in ImageSet : engineReleases(i))

Next == (\E e \in Extents : present(e)) \/ Present \/ execute \/ Engine

Spec == Init /\ [][Next]_vars

-----------------------------------------------------------------------------
\* Values and states stay in their ranges.
TypeOK ==
    /\ pc.slot \in SlotSet /\ pc.image \in 0..Images /\ next \in SlotSet
    /\ reached \in 0..submitted /\ \A s \in SlotSet : slots[s].done \in 0..submitted

\* A slot is used again only when nothing uses its command buffer and its
\* acquire semaphore is free, whatever its earlier rounds ended with.
SlotFreeForReuse ==
    pc.at = "acquire" => /\ slots[pc.slot].acquired = "free"
                         /\ \A k \in DOMAIN queue : ~(queue[k].op = "copy" /\ queue[k].slot = pc.slot)

\* A copy signals a semaphore that its image's earlier present has consumed.
RenderedFreeForReuse == pc.at = "submit" => rendered[pc.image] = "free"

\* Images and semaphores of a swapchain outlive the copies and presents that
\* use them, over recreation and destruction.
UsesLiveSwapchain == \A k \in DOMAIN queue : queue[k].chain = chain.number

\* Nobody waits for a value that no submission signals.
WaitsForSubmitted ==
    pc.value <= reached \/ \E k \in DOMAIN queue : queue[k].op = "copy" /\ queue[k].value >= pc.value

\* "On Presented or Lost, `released` runs ...; otherwise it never runs": a
\* release is registered exactly for those results.
ReleasedAsPromised == pc.at # "present" => outcome.ok = outcome.registered

Safety == /\ TypeOK /\ SlotFreeForReuse /\ RenderedFreeForReuse /\ UsesLiveSwapchain
          /\ WaitsForSubmitted /\ ReleasedAsPromised
=============================================================================
