-------------------------- MODULE SwapchainProofs --------------------------
(***************************************************************************)
(* Proofs about Swapchain, for any number of frame slots and images and    *)
(* whatever the driver answers: a slot, its acquire semaphore, an image's  *)
(* rendered semaphore and a swapchain are used again only when the queue   *)
(* and the presentation engine are done with them.                         *)
(***************************************************************************)
EXTENDS Swapchain, SequenceTheorems, TLAPS

-----------------------------------------------------------------------------
(* The inductive invariant *)

Ats == {"idle", "recreate", "drain", "slot", "acquire", "submit", "present", "destroy", "gone"}
Sides == Extents \cup {0, MinExtent, MaxExtent}
Semaphore == {"free", "pending", "signalled"}
WorkItem == [op : {"copy", "present"}, slot : SlotSet, image : ImageSet, chain : Nat, value : Nat]

ThreadTyped == pc \in [at : Ats, extent : Sides, slot : SlotSet, image : 0..Images, value : Nat]
ChainTyped == chain \in [number : Nat, extent : Sides, stale : BOOLEAN]
SlotsTyped == slots \in [SlotSet -> [done : Nat, acquired : Semaphore]] /\ next \in SlotSet
QueueTyped == queue \in Seq(WorkItem) /\ submitted \in Nat /\ reached \in Nat /\ reached <= submitted
ImagesTyped == /\ images \in [ImageSet -> {"ready", "acquired", "presented", "shown"}]
               /\ rendered \in [ImageSet -> Semaphore]
CountsTyped == calls \in [presents : Nat, chains : Nat] /\ outcome \in [ok : Nat, registered : Nat]
Typed == ThreadTyped /\ ChainTyped /\ SlotsTyped /\ QueueTyped /\ ImagesTyped /\ CountsTyped

Copies(k) == queue[k].op = "copy"

\* A slot's fence value is the one of its queued copy, if it has one.
DoneOK ==
  /\ \A s \in SlotSet : slots[s].done <= submitted
  /\ \A k \in 1..Len(queue) : Copies(k) => slots[queue[k].slot].done = queue[k].value

\* The queue signals the timeline in order, up to the last submission.
ValuesOK ==
  /\ \A k \in 1..Len(queue) : Copies(k) => reached < queue[k].value /\ queue[k].value <= submitted
  /\ \A j, k \in 1..Len(queue) : Copies(j) /\ Copies(k) /\ j < k => queue[j].value < queue[k].value
  /\ reached = submitted \/ \E k \in 1..Len(queue) : Copies(k) /\ queue[k].value = submitted

\* A queued copy is followed by the present of its image, and an image has at
\* most one present that is queued.
Follows(k) ==
  \/ pc.at = "present" /\ pc.image = queue[k].image
  \/ \E j \in 1..Len(queue) : k < j /\ ~Copies(j) /\ queue[j].image = queue[k].image
PresentsOK ==
  /\ \A k \in 1..Len(queue) : Copies(k) => Follows(k)
  /\ \A k \in 1..Len(queue) : ~Copies(k) => images[queue[k].image] = "presented"
  /\ \A j, k \in 1..Len(queue) : ~Copies(j) /\ ~Copies(k) /\ queue[j].image = queue[k].image => j = k

\* A semaphore that is not free has somebody who will wait for it, or the
\* presenter goes.
Acquiring(s) == pc.at = "submit" /\ pc.slot = s
CopyOf(s) == \E k \in 1..Len(queue) : Copies(k) /\ queue[k].slot = s
PresentOf(i) == \E k \in 1..Len(queue) : ~Copies(k) /\ queue[k].image = i
SlotsOK == \A s \in SlotSet : slots[s].acquired # "free" =>
             Acquiring(s) \/ CopyOf(s) \/ pc.at \in {"destroy", "gone"}
RenderedOK == \A i \in ImageSet : rendered[i] # "free" =>
                (pc.at = "present" /\ pc.image = i) \/ PresentOf(i)

\* What the thread inside present has found out still holds.
ThreadOK ==
  /\ pc.value <= submitted
  /\ pc.at = "slot" => pc.value = slots[pc.slot].done
  /\ pc.at \in {"acquire", "submit"} => ~CopyOf(pc.slot)
  /\ pc.at \in {"submit", "present"} => pc.image \in ImageSet /\ images[pc.image] = "acquired"
  /\ outcome.registered = outcome.ok + (IF pc.at = "present" THEN 1 ELSE 0)

IInv == /\ Typed /\ DoneOK /\ ValuesOK /\ PresentsOK /\ SlotsOK /\ RenderedOK
        /\ ThreadOK /\ UsesLiveSwapchain

\* There is a frame slot.
Sized == Slots \in Nat \ {0} /\ Images \in Nat

-----------------------------------------------------------------------------
(* Lemmas *)

LEMMA AppendFacts ==
  ASSUME NEW S, NEW q \in Seq(S), NEW x \in S
  PROVE  /\ Append(q, x) \in Seq(S) /\ Len(q) \in Nat /\ Len(Append(q, x)) = Len(q) + 1
         /\ \A k \in 1..Len(q) : Append(q, x)[k] = q[k]
         /\ Append(q, x)[Len(q) + 1] = x
BY AppendProperties

LEMMA TailFacts ==
  ASSUME NEW S, NEW q \in Seq(S), q # <<>>
  PROVE  /\ Head(q) \in S /\ Head(q) = q[1] /\ Tail(q) \in Seq(S)
         /\ Len(q) \in Nat \ {0} /\ Len(Tail(q)) = Len(q) - 1
         /\ \A k \in 1..Len(q) - 1 : Tail(q)[k] = q[k + 1]
BY HeadTailProperties

\* The next slot of the ring is one.
LEMMA NextSlot == ASSUME Sized, NEW n \in SlotSet PROVE (n + 1) % Slots \in SlotSet
BY DEF Sized, SlotSet

\* The queue's part of the invariant survives a step that leaves the queue, the
\* timeline and the slots' fence values alone.
LEMMA QueueKept ==
  ASSUME IInv, UNCHANGED <<queue, submitted, reached>>, chain'.number = chain.number,
         \A s \in SlotSet : slots'[s].done = slots[s].done,
         \A i \in ImageSet : images[i] = "presented" => images'[i] = "presented",
         pc.at = "present" => pc' = pc
  PROVE  DoneOK' /\ ValuesOK' /\ PresentsOK' /\ UsesLiveSwapchain'
<1>1. \A k \in 1..Len(queue) : queue[k] \in WorkItem
  BY DEF IInv, Typed, QueueTyped
<1>2. \A k \in 1..Len(queue) : queue[k].slot \in SlotSet /\ queue[k].image \in ImageSet
  BY <1>1 DEF WorkItem
<1>3. DoneOK'
  BY <1>2 DEF IInv, DoneOK, Copies
<1>4. ValuesOK'
  BY DEF IInv, ValuesOK, Copies
<1>5. PresentsOK'
  BY <1>2 DEF IInv, PresentsOK, Follows, Copies
<1>6. UsesLiveSwapchain'
  BY DEF IInv, UsesLiveSwapchain
<1> QED BY <1>3, <1>4, <1>5, <1>6

\* With an empty queue it holds whatever else changes.
LEMMA QueueEmpty ==
  ASSUME IInv, queue = <<>>, UNCHANGED <<queue, submitted, reached>>,
         \A s \in SlotSet : slots'[s].done = slots[s].done
  PROVE  /\ DoneOK' /\ ValuesOK' /\ PresentsOK' /\ UsesLiveSwapchain'
         /\ \A s \in SlotSet : ~CopyOf(s)' /\ ~CopyOf(s)
         /\ \A i \in ImageSet : ~PresentOf(i)' /\ ~PresentOf(i)
<1>1. Len(queue) = 0 /\ DOMAIN queue = {} /\ 1..Len(queue) = {}
  OBVIOUS
<1>2. DoneOK' /\ ValuesOK'
  BY <1>1 DEF IInv, DoneOK, ValuesOK
<1>3. PresentsOK' /\ UsesLiveSwapchain'
  BY <1>1 DEF PresentsOK, UsesLiveSwapchain
<1> QED BY <1>1, <1>2, <1>3 DEF CopyOf, PresentOf

\* A thread that is neither in submission nor before a present leaves the
\* semaphores to the queue.
LEMMA SemaphoresKept ==
  ASSUME IInv, UNCHANGED <<queue, slots, rendered>>, pc.at \notin {"submit", "present", "destroy", "gone"}
  PROVE  SlotsOK' /\ RenderedOK'
<1>1. SlotsOK'
  BY DEF IInv, SlotsOK, Acquiring, CopyOf, Copies
<1>2. RenderedOK'
  BY DEF IInv, RenderedOK, PresentOf, Copies
<1> QED BY <1>1, <1>2

\* What present leaves behind when it returns.
LEMMA ReturnFacts ==
  ASSUME Sized, IInv, NEW result, Return(result), submitted' = submitted
  PROVE  /\ ThreadTyped' /\ pc'.at \in {"idle", "destroy"} /\ pc'.value <= submitted
         /\ outcome' \in [ok : Nat, registered : Nat] /\ outcome'.registered = outcome.registered
         /\ outcome'.ok = outcome.ok + (IF result \in {"Presented", "Lost"} THEN 1 ELSE 0)
<1>1. submitted \in Nat /\ outcome \in [ok : Nat, registered : Nat]
  BY DEF IInv, Typed, QueueTyped, CountsTyped
<1>2. 0 \in SlotSet /\ 0 \in 0..Images /\ 0 \in Sides
  BY DEF Sized, SlotSet, Sides
<1>3. /\ pc' \in [at : Ats, extent : Sides, slot : SlotSet, image : 0..Images, value : Nat]
      /\ pc'.at \in {"idle", "destroy"} /\ pc'.value <= submitted
  <2>1. CASE result \in {"Presented", "Dropped"}
    <3>1. pc' = Idle
      BY <2>1 DEF Return
    <3> QED BY <1>1, <1>2, <3>1 DEF Idle, Ats
  <2>2. CASE result \notin {"Presented", "Dropped"}
    <3>1. pc' = [Idle EXCEPT !.at = "destroy", !.value = submitted]
      BY <2>2 DEF Return
    <3>2. pc' = [at |-> "destroy", extent |-> 0, slot |-> 0, image |-> 0, value |-> submitted]
      BY <3>1 DEF Idle
    <3> QED BY <1>1, <1>2, <3>2 DEF Ats
  <2> QED BY <2>1, <2>2
<1>4. /\ outcome' \in [ok : Nat, registered : Nat] /\ outcome'.registered = outcome.registered
      /\ outcome'.ok = outcome.ok + (IF result \in {"Presented", "Lost"} THEN 1 ELSE 0)
  BY <1>1 DEF Return
<1> QED BY <1>3, <1>4 DEF ThreadTyped

\* ... and when it takes a slot.
LEMMA SlotFacts ==
  ASSUME Sized, IInv, TakeSlot
  PROVE  /\ ThreadTyped' /\ next' \in SlotSet /\ pc'.at = "slot" /\ pc'.slot \in SlotSet
         /\ pc'.value = slots[pc'.slot].done /\ pc'.value <= submitted
<1>1. next \in SlotSet /\ slots[next].done \in Nat /\ slots[next].done <= submitted
  BY DEF IInv, Typed, SlotsTyped, DoneOK
<1>2. 0 \in 0..Images /\ 0 \in Sides
  BY DEF Sized, Sides
<1>3. next' \in SlotSet
  BY <1>1, NextSlot DEF TakeSlot
<1>4. /\ pc' \in [at : Ats, extent : Sides, slot : SlotSet, image : 0..Images, value : Nat]
      /\ pc'.at = "slot" /\ pc'.slot = next /\ pc'.value = slots[next].done
  BY <1>1, <1>2 DEF TakeSlot, Idle, Ats
<1> QED BY <1>1, <1>3, <1>4 DEF ThreadTyped

\* Steps of a thread that touch neither the queue nor a semaphore.
LEMMA QuietStep ==
  ASSUME IInv, UNCHANGED <<queue, submitted, reached, slots, images, rendered>>,
         chain'.number = chain.number, pc.at \notin {"submit", "present", "destroy", "gone"},
         ThreadTyped', ChainTyped', CountsTyped', next' \in SlotSet, ThreadOK'
  PROVE  IInv'
<1>1. SlotsTyped' /\ QueueTyped' /\ ImagesTyped'
  BY DEF IInv, Typed, SlotsTyped, QueueTyped, ImagesTyped
<1>2. DoneOK' /\ ValuesOK' /\ PresentsOK' /\ UsesLiveSwapchain'
  BY QueueKept
<1>3. SlotsOK' /\ RenderedOK'
  BY SemaphoresKept
<1> QED BY <1>1, <1>2, <1>3 DEF IInv, Typed

\* The result of a present that has not submitted anything.
LEMMA NothingSubmitted ==
  ASSUME Sized, IInv, NEW result \in {"Dropped", "Failed"}, Return(result), submitted' = submitted,
         pc.at # "present"
  PROVE  ThreadTyped' /\ ThreadOK' /\ outcome' \in [ok : Nat, registered : Nat]
<1>1. /\ ThreadTyped' /\ pc'.at \in {"idle", "destroy"} /\ pc'.value <= submitted
      /\ outcome' \in [ok : Nat, registered : Nat] /\ outcome'.registered = outcome.registered
      /\ outcome'.ok = outcome.ok + 0
  BY ReturnFacts
<1>2. outcome.registered = outcome.ok + 0 /\ outcome.ok \in Nat
  BY DEF IInv, ThreadOK, Typed, CountsTyped
<1> QED BY <1>1, <1>2 DEF ThreadOK

-----------------------------------------------------------------------------
(* The steps of present *)

\* A call begins; the window asks for an extent.
LEMMA PresentBegins ==
  ASSUME Sized, IInv, NEW e \in Extents, present(e) PROVE IInv'
<1>1. /\ pc.at = "idle" /\ calls' = [calls EXCEPT !.presents = @ + 1]
      /\ UNCHANGED <<chain, slots, submitted, queue, reached, images, rendered, outcome>>
  BY DEF present
<1>2. ChainTyped' /\ CountsTyped'
  BY <1>1 DEF IInv, Typed, ChainTyped, CountsTyped
<1>3. outcome.registered = outcome.ok + 0 /\ submitted \in Nat
  BY <1>1 DEF IInv, ThreadOK, Typed, QueueTyped
<1>4. CASE TakeSlot
  <2>1. /\ ThreadTyped' /\ next' \in SlotSet /\ pc'.at = "slot" /\ pc'.value = slots[pc'.slot].done
        /\ pc'.value <= submitted
    BY <1>4, SlotFacts
  <2>2. ThreadOK'
    BY <1>1, <1>3, <2>1 DEF ThreadOK
  <2> QED BY <1>1, <1>2, <2>1, <2>2, QuietStep
<1>5. CASE next' = next /\ pc' = [Idle EXCEPT !.at = "recreate", !.extent = e]
  <2>1. 0 \in SlotSet /\ 0 \in 0..Images /\ e \in Sides
    BY DEF Sized, SlotSet, Sides
  <2>2. /\ pc' \in [at : Ats, extent : Sides, slot : SlotSet, image : 0..Images, value : Nat]
        /\ pc'.at = "recreate" /\ pc'.value = 0
    BY <1>5, <2>1 DEF Idle, Ats
  <2>3. ThreadOK'
    BY <1>1, <1>3, <2>2 DEF ThreadOK
  <2>4. next' \in SlotSet
    BY <1>5 DEF IInv, Typed, SlotsTyped
  <2> QED BY <1>1, <1>2, <2>2, <2>3, <2>4, QuietStep DEF ThreadTyped
<1> QED BY <1>4, <1>5 DEF present

\* No swapchain for this surface; the wait for the queue before another one.
LEMMA RecreateBegins ==
  ASSUME Sized, IInv, recreateRefused \/ recreateWaits PROVE IInv'
<1>1. /\ pc.at = "recreate"
      /\ UNCHANGED <<chain, slots, next, submitted, queue, reached, images, rendered, calls>>
  BY DEF recreateRefused, recreateWaits
<1>2. ChainTyped' /\ next' \in SlotSet /\ calls' \in [presents : Nat, chains : Nat]
  BY <1>1 DEF IInv, Typed, ChainTyped, SlotsTyped, CountsTyped
<1>3. CASE recreateRefused
  <2>1. ThreadTyped' /\ ThreadOK' /\ outcome' \in [ok : Nat, registered : Nat]
    BY <1>1, <1>3, NothingSubmitted DEF recreateRefused
  <2> QED BY <1>1, <1>2, <2>1, QuietStep DEF CountsTyped
<1>4. CASE recreateWaits
  <2>1. pc \in [at : Ats, extent : Sides, slot : SlotSet, image : 0..Images, value : Nat] /\ submitted \in Nat
    BY DEF IInv, Typed, ThreadTyped, QueueTyped
  <2>2. /\ pc' \in [at : Ats, extent : Sides, slot : SlotSet, image : 0..Images, value : Nat]
        /\ pc'.at = "drain" /\ pc'.value = submitted
    BY <1>4, <2>1 DEF recreateWaits, Ats
  <2>3. ThreadOK' /\ CountsTyped'
    BY <1>1, <1>4, <2>1, <2>2 DEF IInv, ThreadOK, recreateWaits, Typed, CountsTyped
  <2> QED BY <1>1, <1>2, <2>2, <2>3, QuietStep DEF ThreadTyped
<1> QED BY <1>3, <1>4

\* The wait for the slot's earlier copy: none is queued any more.
LEMMA SlotWaited ==
  ASSUME Sized, IInv, waitForCopies PROVE IInv'
<1>1. /\ pc.at = "slot" /\ reached >= pc.value /\ pc' = [pc EXCEPT !.at = "acquire"]
      /\ UNCHANGED <<chain, slots, next, submitted, queue, reached, images, rendered, calls, outcome>>
  BY DEF waitForCopies, SlotFree
<1>2. /\ pc \in [at : Ats, extent : Sides, slot : SlotSet, image : 0..Images, value : Nat]
      /\ pc.value = slots[pc.slot].done /\ submitted \in Nat /\ reached \in Nat
  BY <1>1 DEF IInv, Typed, ThreadTyped, ThreadOK, QueueTyped
<1>3. /\ pc' \in [at : Ats, extent : Sides, slot : SlotSet, image : 0..Images, value : Nat]
      /\ pc'.at = "acquire" /\ pc'.slot = pc.slot /\ pc'.value = pc.value
  BY <1>1, <1>2 DEF Ats
<1>4. ASSUME NEW k \in 1..Len(queue), Copies(k), queue[k].slot = pc.slot PROVE FALSE
  <2>1. slots[pc.slot].done = queue[k].value /\ reached < queue[k].value
    BY <1>4 DEF IInv, DoneOK, ValuesOK
  <2>2. queue[k] \in WorkItem
    BY <1>4 DEF IInv, Typed, QueueTyped
  <2>3. queue[k].value \in Nat
    BY <2>2 DEF WorkItem
  <2> QED BY <1>1, <1>2, <2>1, <2>3
<1>5. ~CopyOf(pc.slot)'
  BY <1>1, <1>3, <1>4 DEF CopyOf, Copies
<1>6. ThreadOK'
  BY <1>1, <1>2, <1>3, <1>5 DEF IInv, ThreadOK
<1>7. ChainTyped' /\ CountsTyped' /\ next' \in SlotSet
  BY <1>1 DEF IInv, Typed, ChainTyped, CountsTyped, SlotsTyped
<1> QED BY <1>1, <1>3, <1>6, <1>7, QuietStep DEF ThreadTyped

\* With nothing queued a new swapchain takes over, or none.
LEMMA RecreateEnds ==
  ASSUME Sized, IInv, recreate \/ recreateFails PROVE IInv'
<1>1. /\ pc.at = "drain" /\ queue = <<>>
      /\ UNCHANGED <<slots, submitted, queue, reached>>
  BY DEF recreate, recreateFails, Drained
<1>2. /\ chain \in [number : Nat, extent : Sides, stale : BOOLEAN] /\ calls \in [presents : Nat, chains : Nat]
      /\ pc.extent \in Sides /\ next \in SlotSet /\ outcome \in [ok : Nat, registered : Nat] /\ submitted \in Nat
  BY DEF IInv, Typed, ChainTyped, CountsTyped, ThreadTyped, SlotsTyped, QueueTyped
<1>3. /\ DoneOK' /\ ValuesOK' /\ PresentsOK' /\ UsesLiveSwapchain'
      /\ \A s \in SlotSet : ~CopyOf(s)' /\ ~CopyOf(s)
      /\ \A i \in ImageSet : ~PresentOf(i)' /\ ~PresentOf(i)
  BY <1>1, QueueEmpty
<1>4. QueueTyped' /\ slots' \in [SlotSet -> [done : Nat, acquired : Semaphore]]
  BY <1>1 DEF IInv, Typed, QueueTyped, SlotsTyped
<1>5. \A s \in SlotSet : slots[s].acquired = "free"
  BY <1>1, <1>3 DEF IInv, SlotsOK, Acquiring
<1>6. SlotsOK'
  BY <1>1, <1>5 DEF SlotsOK
<1>7. outcome.registered = outcome.ok + 0
  BY <1>1 DEF IInv, ThreadOK
<1>8. CASE recreate
  <2>1. /\ chain' = [number |-> calls.chains + 1, extent |-> Clamp(pc.extent), stale |-> FALSE]
        /\ calls' = [calls EXCEPT !.chains = @ + 1]
        /\ images' = [i \in ImageSet |-> "ready"] /\ rendered' = [i \in ImageSet |-> "free"]
        /\ TakeSlot /\ outcome' = outcome
    BY <1>8 DEF recreate
  <2>2. Clamp(pc.extent) \in Sides
    BY <1>2 DEF Clamp, Sides
  <2>3. ChainTyped' /\ CountsTyped'
    BY <1>2, <2>1, <2>2 DEF ChainTyped, CountsTyped
  <2>4. ImagesTyped' /\ RenderedOK'
    BY <2>1 DEF ImagesTyped, RenderedOK, Semaphore
  <2>5. /\ ThreadTyped' /\ next' \in SlotSet /\ pc'.at = "slot" /\ pc'.value = slots[pc'.slot].done
        /\ pc'.value <= submitted
    BY <2>1, SlotFacts
  <2>6. ThreadOK'
    BY <1>1, <1>7, <2>1, <2>5 DEF ThreadOK
  <2> QED BY <1>3, <1>4, <1>6, <2>3, <2>4, <2>5, <2>6 DEF IInv, Typed, SlotsTyped
<1>9. CASE recreateFails
  <2>1. /\ chain' = [chain EXCEPT !.number = 0] /\ Return("Failed")
        /\ UNCHANGED <<next, images, rendered, calls>>
    BY <1>9 DEF recreateFails
  <2>2. ThreadTyped' /\ ThreadOK' /\ outcome' \in [ok : Nat, registered : Nat]
    BY <1>1, <2>1, NothingSubmitted
  <2>3. ChainTyped' /\ CountsTyped' /\ ImagesTyped' /\ next' \in SlotSet
    BY <1>2, <2>1, <2>2 DEF IInv, Typed, ChainTyped, CountsTyped, ImagesTyped
  <2>4. RenderedOK'
    BY <1>1, <1>3, <2>1 DEF IInv, RenderedOK
  <2> QED BY <1>3, <1>4, <1>6, <2>2, <2>3, <2>4 DEF IInv, Typed, SlotsTyped
<1> QED BY <1>8, <1>9

\* The destructor, after the last of the queue.
LEMMA DestroyKeeps ==
  ASSUME Sized, IInv, destroy PROVE IInv'
<1>1. /\ pc.at = "destroy" /\ queue = <<>> /\ pc' = [Idle EXCEPT !.at = "gone"]
      /\ chain' = [chain EXCEPT !.number = 0]
      /\ UNCHANGED <<slots, next, submitted, queue, reached, images, rendered, calls, outcome>>
  BY DEF destroy, Drained
<1>2. /\ DoneOK' /\ ValuesOK' /\ PresentsOK' /\ UsesLiveSwapchain'
      /\ \A i \in ImageSet : ~PresentOf(i)' /\ ~PresentOf(i)
  BY <1>1, QueueEmpty
<1>3. pc' = [at |-> "gone", extent |-> 0, slot |-> 0, image |-> 0, value |-> 0]
  BY <1>1 DEF Idle
<1>4. ThreadTyped'
  BY <1>3 DEF ThreadTyped, Ats, Sides, SlotSet, Sized
<1>5. SlotsTyped' /\ QueueTyped' /\ ImagesTyped' /\ CountsTyped'
  BY <1>1 DEF IInv, Typed, SlotsTyped, QueueTyped, ImagesTyped, CountsTyped
<1>6. ChainTyped'
  BY <1>1 DEF IInv, Typed, ChainTyped
<1>7. SlotsOK'
  BY <1>3 DEF SlotsOK
<1>8. RenderedOK'
  BY <1>1, <1>2 DEF IInv, RenderedOK
<1>9. ThreadOK'
  BY <1>1, <1>3 DEF IInv, ThreadOK, Typed, QueueTyped
<1> QED BY <1>2, <1>4, <1>5, <1>6, <1>7, <1>8, <1>9 DEF IInv, Typed

\* An image is acquired into the slot's semaphore, which is free.
LEMMA AcquireKeeps ==
  ASSUME Sized, IInv, NEW i \in ImageSet, NEW b \in BOOLEAN, acquire(i, b) PROVE IInv'
<1>1. /\ pc.at = "acquire" /\ images[i] = "ready" /\ images' = [images EXCEPT ![i] = "acquired"]
      /\ slots' = [slots EXCEPT ![pc.slot].acquired = "pending"]
      /\ chain' = [chain EXCEPT !.stale = @ \/ b]
      /\ pc' = [pc EXCEPT !.at = "submit", !.image = i]
      /\ UNCHANGED <<next, submitted, queue, reached, rendered, calls, outcome>>
  BY DEF acquire
<1>2. /\ pc \in [at : Ats, extent : Sides, slot : SlotSet, image : 0..Images, value : Nat]
      /\ slots \in [SlotSet -> [done : Nat, acquired : Semaphore]]
      /\ images \in [ImageSet -> {"ready", "acquired", "presented", "shown"}]
      /\ chain \in [number : Nat, extent : Sides, stale : BOOLEAN]
  BY DEF IInv, Typed, ThreadTyped, SlotsTyped, ImagesTyped, ChainTyped
<1>3. /\ pc' \in [at : Ats, extent : Sides, slot : SlotSet, image : 0..Images, value : Nat]
      /\ pc'.at = "submit" /\ pc'.image = i /\ pc'.slot = pc.slot /\ pc'.value = pc.value
  <2>1. i \in 0..Images
    BY DEF ImageSet, Sized
  <2> QED BY <1>1, <1>2, <2>1 DEF Ats
<1>4. /\ slots' \in [SlotSet -> [done : Nat, acquired : Semaphore]]
      /\ \A s \in SlotSet : slots'[s].done = slots[s].done
      /\ \A s \in SlotSet : s # pc.slot => slots'[s] = slots[s]
  BY <1>1, <1>2 DEF Semaphore
<1>5. /\ chain' \in [number : Nat, extent : Sides, stale : BOOLEAN] /\ chain'.number = chain.number
  <2>1. (chain.stale \/ b) \in BOOLEAN
    OBVIOUS
  <2> QED BY <1>1, <1>2, <2>1
<1>6. /\ images' \in [ImageSet -> {"ready", "acquired", "presented", "shown"}] /\ images'[i] = "acquired"
      /\ \A j \in ImageSet : images[j] = "presented" => images'[j] = "presented"
  BY <1>1, <1>2
<1>7. DoneOK' /\ ValuesOK' /\ PresentsOK' /\ UsesLiveSwapchain'
  BY <1>1, <1>4, <1>5, <1>6, QueueKept
<1>8. SlotsOK'
  BY <1>1, <1>3, <1>4 DEF IInv, SlotsOK, Acquiring, CopyOf, Copies
<1>9. RenderedOK'
  BY <1>1 DEF IInv, RenderedOK, PresentOf, Copies
<1>10. ~CopyOf(pc.slot)'
  BY <1>1, <1>3 DEF IInv, ThreadOK, CopyOf, Copies
<1>11. ThreadOK'
  BY <1>1, <1>3, <1>6, <1>10 DEF IInv, ThreadOK
<1>12. QueueTyped' /\ CountsTyped' /\ next' \in SlotSet /\ ImagesTyped'
  BY <1>1, <1>6 DEF IInv, Typed, QueueTyped, CountsTyped, SlotsTyped, ImagesTyped
<1> QED BY <1>3, <1>4, <1>5, <1>7, <1>8, <1>9, <1>11, <1>12 DEF IInv, Typed, ThreadTyped, ChainTyped, SlotsTyped

\* No image: nothing was begun.
LEMMA AcquireFailsKeeps ==
  ASSUME Sized, IInv, NEW result \in {"Dropped", "Failed"}, NEW b \in BOOLEAN, acquireFails(result, b) PROVE IInv'
<1>1. /\ pc.at = "acquire" /\ chain' = [chain EXCEPT !.stale = @ \/ b] /\ Return(result)
      /\ UNCHANGED <<slots, next, submitted, queue, reached, images, rendered, calls>>
  BY DEF acquireFails
<1>2. chain \in [number : Nat, extent : Sides, stale : BOOLEAN] /\ (chain.stale \/ b) \in BOOLEAN
  BY DEF IInv, Typed, ChainTyped
<1>3. ChainTyped' /\ chain'.number = chain.number
  <2>1. PICK stale \in BOOLEAN : stale = (chain.stale \/ b)
    BY <1>2
  <2>2. chain' = [chain EXCEPT !.stale = stale]
    BY <1>1, <2>1
  <2> QED BY <1>2, <2>2 DEF ChainTyped
<1>4. ThreadTyped' /\ ThreadOK' /\ outcome' \in [ok : Nat, registered : Nat]
  BY <1>1, NothingSubmitted
<1>5. CountsTyped' /\ next' \in SlotSet
  BY <1>1, <1>4 DEF IInv, Typed, CountsTyped, SlotsTyped
<1> QED BY <1>1, <1>3, <1>4, <1>5, QuietStep

\* The queue after one more piece of work.
LEMMA WorkAppended ==
  ASSUME IInv, NEW w \in WorkItem, queue' = Append(queue, w)
  PROVE  /\ queue' \in Seq(WorkItem) /\ Len(queue) \in Nat /\ Len(queue') = Len(queue) + 1
         /\ \A k \in 1..Len(queue) : queue'[k] = queue[k] /\ k \in 1..Len(queue') /\ queue[k] \in WorkItem
         /\ queue'[Len(queue) + 1] = w /\ Len(queue) + 1 \in 1..Len(queue')
         /\ \A k \in 1..Len(queue') : k \in 1..Len(queue) \/ k = Len(queue) + 1
<1>1. queue \in Seq(WorkItem)
  BY DEF IInv, Typed, QueueTyped
<1>2. /\ queue' \in Seq(WorkItem) /\ Len(queue) \in Nat /\ Len(queue') = Len(queue) + 1
      /\ (\A k \in 1..Len(queue) : queue'[k] = queue[k]) /\ queue'[Len(queue) + 1] = w
  BY <1>1, AppendFacts
<1>3. \A k \in 1..Len(queue) : queue[k] \in WorkItem
  BY <1>1
<1> QED BY <1>2, <1>3

\* Presents, copies and images of the queue stay with their positions.
LEMMA PositionsKept ==
  ASSUME IInv, NEW w \in WorkItem, queue' = Append(queue, w)
  PROVE  /\ \A k \in 1..Len(queue) : Copies(k)' <=> Copies(k)
         /\ \A s \in SlotSet : CopyOf(s) => CopyOf(s)'
         /\ \A i \in ImageSet : PresentOf(i) => PresentOf(i)'
<1>1. \A k \in 1..Len(queue) : Copies(k)' <=> Copies(k)
  BY WorkAppended DEF Copies
<1>2. ASSUME NEW s \in SlotSet, CopyOf(s) PROVE CopyOf(s)'
  <2>1. PICK k \in 1..Len(queue) : Copies(k) /\ queue[k].slot = s
    BY <1>2 DEF CopyOf
  <2>2. k \in 1..Len(queue') /\ Copies(k)' /\ queue'[k].slot = s
    BY <1>1, <2>1, WorkAppended
  <2> QED BY <2>2 DEF CopyOf
<1>3. ASSUME NEW i \in ImageSet, PresentOf(i) PROVE PresentOf(i)'
  <2>1. PICK k \in 1..Len(queue) : ~Copies(k) /\ queue[k].image = i
    BY <1>3 DEF PresentOf
  <2>2. k \in 1..Len(queue') /\ ~Copies(k)' /\ queue'[k].image = i
    BY <1>1, <2>1, WorkAppended
  <2> QED BY <2>2 DEF PresentOf
<1> QED BY <1>1, <1>2, <1>3

\* The copy is submitted: the slot's fence value and the image's semaphore.
LEMMA SubmitKeeps ==
  ASSUME Sized, IInv, submit PROVE IInv'
<1>1. /\ pc.at = "submit" /\ submitted' = submitted + 1 /\ queue' = Append(queue, Work("copy", submitted + 1))
      /\ slots' = [slots EXCEPT ![pc.slot].done = submitted + 1]
      /\ rendered' = [rendered EXCEPT ![pc.image] = "pending"]
      /\ pc' = [pc EXCEPT !.at = "present"] /\ outcome' = [outcome EXCEPT !.registered = @ + 1]
      /\ UNCHANGED <<chain, next, reached, images, calls>>
  BY DEF submit
<1>2. /\ pc \in [at : Ats, extent : Sides, slot : SlotSet, image : 0..Images, value : Nat]
      /\ slots \in [SlotSet -> [done : Nat, acquired : Semaphore]] /\ rendered \in [ImageSet -> Semaphore]
      /\ chain.number \in Nat /\ submitted \in Nat /\ reached \in Nat /\ reached <= submitted
      /\ outcome \in [ok : Nat, registered : Nat]
  BY DEF IInv, Typed, ThreadTyped, SlotsTyped, ImagesTyped, ChainTyped, QueueTyped, CountsTyped
<1>3. /\ ~CopyOf(pc.slot) /\ pc.image \in ImageSet /\ images[pc.image] = "acquired" /\ pc.value <= submitted
      /\ outcome.registered = outcome.ok
  BY <1>1, <1>2 DEF IInv, ThreadOK
<1>4. PICK w \in WorkItem : /\ w = Work("copy", submitted + 1) /\ w.op = "copy" /\ w.slot = pc.slot
                            /\ w.image = pc.image /\ w.chain = chain.number /\ w.value = submitted + 1
  <2>1. Work("copy", submitted + 1) \in WorkItem
    BY <1>2, <1>3 DEF Work, WorkItem
  <2> QED BY <2>1 DEF Work
<1>5. queue' = Append(queue, w)
  BY <1>1, <1>4
<1>6. PICK n \in Nat : /\ n = Len(queue) /\ Len(queue') = n + 1 /\ queue' \in Seq(WorkItem)
                       /\ \A k \in 1..n : queue'[k] = queue[k] /\ k \in 1..Len(queue') /\ queue[k] \in WorkItem
                       /\ queue'[n + 1] = w /\ n + 1 \in 1..Len(queue')
                       /\ \A k \in 1..Len(queue') : k \in 1..n \/ k = n + 1
  BY <1>5, WorkAppended
<1>7. /\ \A k \in 1..n : Copies(k)' <=> Copies(k)
      /\ \A s \in SlotSet : CopyOf(s) => CopyOf(s)'
      /\ \A i \in ImageSet : PresentOf(i) => PresentOf(i)'
  BY <1>5, <1>6, PositionsKept
<1>8. Copies(n + 1)' /\ CopyOf(pc.slot)'
  <2>1. Copies(n + 1)'
    BY <1>4, <1>6 DEF Copies
  <2>2. pc'.slot = pc.slot
    BY <1>1, <1>2
  <2> QED BY <1>4, <1>6, <2>1, <2>2 DEF CopyOf
<1>9. /\ pc' \in [at : Ats, extent : Sides, slot : SlotSet, image : 0..Images, value : Nat]
      /\ pc'.at = "present" /\ pc'.image = pc.image /\ pc'.slot = pc.slot /\ pc'.value = pc.value
  BY <1>1, <1>2 DEF Ats
<1>10. /\ slots' \in [SlotSet -> [done : Nat, acquired : Semaphore]]
       /\ slots'[pc.slot].done = submitted + 1 /\ \A s \in SlotSet : slots'[s].acquired = slots[s].acquired
       /\ \A s \in SlotSet : s # pc.slot => slots'[s] = slots[s]
  BY <1>1, <1>2, SMTT(30)
<1>11. ASSUME NEW k \in 1..n, Copies(k)
       PROVE  /\ queue[k].slot \in SlotSet /\ queue[k].slot # pc.slot /\ queue[k].value \in Nat
              /\ slots[queue[k].slot].done = queue[k].value /\ reached < queue[k].value
              /\ queue[k].value <= submitted /\ Follows(k)
  <2>1. queue[k] \in WorkItem /\ k \in 1..Len(queue)
    BY <1>6
  <2>2. queue[k].slot \in SlotSet /\ queue[k].value \in Nat
    BY <2>1 DEF WorkItem
  <2>3. queue[k].slot # pc.slot
    BY <1>3, <1>11, <2>1 DEF CopyOf
  <2> QED BY <1>11, <2>1, <2>2, <2>3 DEF IInv, DoneOK, ValuesOK, PresentsOK
<1>12. DoneOK'
  <2>1. ASSUME NEW s \in SlotSet PROVE slots'[s].done <= submitted'
    <3>1. slots[s].done <= submitted /\ slots[s].done \in Nat
      BY <1>2 DEF IInv, DoneOK
    <3> QED BY <1>1, <1>2, <1>10, <3>1
  <2>2. ASSUME NEW k \in 1..Len(queue'), Copies(k)' PROVE slots'[queue'[k].slot].done = queue'[k].value
    <3>1. CASE k \in 1..n
      BY <1>6, <1>7, <1>10, <1>11, <2>2, <3>1
    <3>2. CASE k = n + 1
      BY <1>4, <1>6, <1>10, <3>2
    <3> QED BY <1>6, <3>1, <3>2
  <2> QED BY <2>1, <2>2 DEF DoneOK
<1>13. ValuesOK'
  <2>1. ASSUME NEW k \in 1..Len(queue'), Copies(k)' PROVE reached' < queue'[k].value /\ queue'[k].value <= submitted'
    <3>1. CASE k \in 1..n
      BY <1>1, <1>2, <1>6, <1>7, <1>11, <2>1, <3>1
    <3>2. CASE k = n + 1
      BY <1>1, <1>2, <1>4, <1>6, <3>2
    <3> QED BY <1>6, <3>1, <3>2
  <2>2. ASSUME NEW j \in 1..Len(queue'), NEW k \in 1..Len(queue'), Copies(j)', Copies(k)', j < k
        PROVE  queue'[j].value < queue'[k].value
    <3>1. j \in 1..n
      BY <1>6, <2>2
    <3>2. CASE k \in 1..n
      BY <1>6, <1>7, <2>2, <3>1, <3>2 DEF IInv, ValuesOK
    <3>3. CASE k = n + 1
      <4>1. queue[j].value <= submitted /\ queue[j].value \in Nat
        BY <1>7, <1>11, <2>2, <3>1
      <4> QED BY <1>2, <1>4, <1>6, <3>1, <3>3, <4>1
    <3> QED BY <1>6, <3>2, <3>3
  <2>3. Copies(n + 1)' /\ queue'[n + 1].value = submitted' /\ n + 1 \in 1..Len(queue')
    BY <1>1, <1>4, <1>6, <1>8
  <2> QED BY <2>1, <2>2, <2>3 DEF ValuesOK
<1>14. PresentsOK'
  <2>1. ASSUME NEW k \in 1..Len(queue'), Copies(k)' PROVE Follows(k)'
    <3>1. CASE k \in 1..n
      <4>1. PICK j \in 1..Len(queue) : k < j /\ ~Copies(j) /\ queue[j].image = queue[k].image
        BY <1>1, <1>7, <1>11, <2>1, <3>1 DEF Follows
      <4>2. j \in 1..Len(queue') /\ ~Copies(j)' /\ queue'[j].image = queue'[k].image
        BY <1>6, <1>7, <3>1, <4>1
      <4> QED BY <4>1, <4>2 DEF Follows
    <3>2. CASE k = n + 1
      BY <1>4, <1>6, <1>9, <3>2 DEF Follows
    <3> QED BY <1>6, <3>1, <3>2
  <2>2. \A k \in 1..Len(queue') : ~Copies(k)' => k \in 1..n /\ ~Copies(k) /\ queue'[k] = queue[k]
    BY <1>6, <1>7, <1>8
  <2>3. /\ \A k \in 1..n : ~Copies(k) => images[queue[k].image] = "presented"
        /\ \A j, k \in 1..n : ~Copies(j) /\ ~Copies(k) /\ queue[j].image = queue[k].image => j = k
    BY <1>6 DEF IInv, PresentsOK
  <2> QED BY <1>1, <2>1, <2>2, <2>3 DEF PresentsOK
<1>15. SlotsOK'
  <2>1. ASSUME NEW s \in SlotSet, slots'[s].acquired # "free" PROVE CopyOf(s)'
    <3>1. s = pc.slot \/ CopyOf(s)
      BY <1>1, <1>10, <2>1 DEF IInv, SlotsOK, Acquiring
    <3>2. CASE s = pc.slot
      BY <1>8, <1>9, <3>2
    <3> QED BY <1>7, <3>1, <3>2
  <2> QED BY <2>1 DEF SlotsOK
<1>16. RenderedOK'
  <2>1. ASSUME NEW i \in ImageSet, rendered'[i] # "free", i # pc.image PROVE PresentOf(i)'
    <3>1. rendered[i] # "free"
      BY <1>1, <1>2, <2>1
    <3>2. PresentOf(i)
      BY <1>1, <3>1 DEF IInv, RenderedOK
    <3> QED BY <1>7, <3>2
  <2> QED BY <1>9, <2>1 DEF RenderedOK
<1>17. ThreadOK' /\ CountsTyped'
  <2>1. outcome' \in [ok : Nat, registered : Nat] /\ outcome'.registered = outcome'.ok + 1
    <3>1. outcome.ok \in Nat /\ outcome.registered \in Nat
      BY <1>2
    <3>2. outcome' = [outcome EXCEPT !.registered = outcome.ok + 1]
      BY <1>1, <1>3
    <3> QED BY <1>2, <3>1, <3>2
  <2>2. CountsTyped'
    BY <1>1, <2>1 DEF IInv, Typed, CountsTyped
  <2> QED BY <1>1, <1>2, <1>3, <1>9, <2>1, <2>2 DEF ThreadOK
<1>18. UsesLiveSwapchain'
  <2>1. \A k \in 1..Len(queue') : queue'[k].chain = chain'.number
    BY <1>1, <1>4, <1>6 DEF IInv, UsesLiveSwapchain
  <2> QED BY <1>6, <2>1 DEF UsesLiveSwapchain
<1>19. QueueTyped' /\ ImagesTyped' /\ ChainTyped' /\ SlotsTyped'
  <2>1. rendered' \in [ImageSet -> Semaphore]
    BY <1>1, <1>2 DEF Semaphore
  <2> QED BY <1>1, <1>2, <1>6, <1>10, <2>1 DEF IInv, Typed, QueueTyped, ImagesTyped, ChainTyped, SlotsTyped
<1> QED BY <1>9, <1>12, <1>13, <1>14, <1>15, <1>16, <1>17, <1>18, <1>19 DEF IInv, Typed, ThreadTyped

\* A submission that fails: the presenter goes, with the image and its semaphore.
LEMMA SubmitFailsKeeps ==
  ASSUME Sized, IInv, submitFails PROVE IInv'
<1>1. /\ pc.at = "submit" /\ submitted' = (submitted + 1) - 1 /\ Return("Failed")
      /\ UNCHANGED <<chain, slots, next, queue, reached, images, rendered, calls>>
  BY DEF submitFails
<1>2. submitted' = submitted
  BY <1>1 DEF IInv, Typed, QueueTyped
<1>3. ThreadTyped' /\ ThreadOK' /\ outcome' \in [ok : Nat, registered : Nat]
  BY <1>1, <1>2, NothingSubmitted
<1>4. pc'.at = "destroy"
  BY <1>1 DEF Return, Idle
<1>5. DoneOK' /\ ValuesOK' /\ PresentsOK' /\ UsesLiveSwapchain'
  BY <1>1, <1>2, QueueKept
<1>6. SlotsOK'
  BY <1>4 DEF SlotsOK
<1>7. RenderedOK'
  BY <1>1 DEF IInv, RenderedOK, PresentOf, Copies
<1>8. ChainTyped' /\ SlotsTyped' /\ QueueTyped' /\ ImagesTyped' /\ CountsTyped'
  BY <1>1, <1>2, <1>3 DEF IInv, Typed, ChainTyped, SlotsTyped, QueueTyped, ImagesTyped, CountsTyped
<1> QED BY <1>3, <1>5, <1>6, <1>7, <1>8 DEF IInv, Typed

\* The present is queued behind its copy, also when the driver reports a loss.
LEMMA PresentQueued ==
  ASSUME Sized, IInv, NEW result \in {"Presented", "Lost"}, NEW b \in BOOLEAN, queuePresent(result, b) PROVE IInv'
<1>1. /\ pc.at = "present" /\ queue' = Append(queue, Work("present", 0))
      /\ images' = [images EXCEPT ![pc.image] = "presented"]
      /\ chain' = [chain EXCEPT !.stale = @ \/ b] /\ Return(result)
      /\ UNCHANGED <<slots, next, submitted, reached, rendered, calls>>
  BY DEF queuePresent
<1>2. /\ pc \in [at : Ats, extent : Sides, slot : SlotSet, image : 0..Images, value : Nat]
      /\ images \in [ImageSet -> {"ready", "acquired", "presented", "shown"}]
      /\ chain \in [number : Nat, extent : Sides, stale : BOOLEAN] /\ outcome \in [ok : Nat, registered : Nat]
  BY DEF IInv, Typed, ThreadTyped, ImagesTyped, ChainTyped, CountsTyped
<1>3. /\ pc.image \in ImageSet /\ images[pc.image] = "acquired" /\ outcome.registered = outcome.ok + 1
  BY <1>1 DEF IInv, ThreadOK
<1>4. PICK w \in WorkItem : /\ w = Work("present", 0) /\ w.op = "present" /\ w.image = pc.image
                            /\ w.chain = chain.number
  <2>1. Work("present", 0) \in WorkItem
    BY <1>2, <1>3 DEF Work, WorkItem
  <2> QED BY <2>1 DEF Work
<1>5. queue' = Append(queue, w)
  BY <1>1, <1>4
<1>6. PICK n \in Nat : /\ n = Len(queue) /\ Len(queue') = n + 1 /\ queue' \in Seq(WorkItem)
                       /\ \A k \in 1..n : queue'[k] = queue[k] /\ k \in 1..Len(queue') /\ queue[k] \in WorkItem
                       /\ queue'[n + 1] = w /\ n + 1 \in 1..Len(queue')
                       /\ \A k \in 1..Len(queue') : k \in 1..n \/ k = n + 1
  BY <1>5, WorkAppended
<1>7. /\ \A k \in 1..n : Copies(k)' <=> Copies(k)
      /\ \A s \in SlotSet : CopyOf(s) => CopyOf(s)'
      /\ \A i \in ImageSet : PresentOf(i) => PresentOf(i)'
  BY <1>5, <1>6, PositionsKept
<1>8. ~Copies(n + 1)'
  BY <1>4, <1>6 DEF Copies
<1>9. /\ ThreadTyped' /\ pc'.at \in {"idle", "destroy"} /\ pc'.value <= submitted
      /\ outcome' \in [ok : Nat, registered : Nat] /\ outcome'.registered = outcome.registered
      /\ outcome'.ok = outcome.ok + 1
  BY <1>1, ReturnFacts
<1>10. ThreadOK'
  <2>1. outcome'.ok \in Nat /\ outcome'.registered = outcome'.ok + 0
    BY <1>2, <1>3, <1>9
  <2> QED BY <1>1, <1>9, <2>1 DEF ThreadOK
<1>11. ChainTyped' /\ chain'.number = chain.number
  <2>1. PICK stale \in BOOLEAN : stale = (chain.stale \/ b)
    OBVIOUS
  <2>2. chain' = [chain EXCEPT !.stale = stale]
    BY <1>1, <2>1
  <2> QED BY <1>2, <2>2 DEF ChainTyped
<1>12. DoneOK'
  <2>1. ASSUME NEW k \in 1..Len(queue'), Copies(k)' PROVE k \in 1..Len(queue) /\ Copies(k) /\ queue'[k] = queue[k]
    BY <1>6, <1>7, <1>8, <2>1
  <2> QED BY <1>1, <2>1 DEF IInv, DoneOK
<1>13. ValuesOK'
  <2>1. ASSUME NEW k \in 1..Len(queue'), Copies(k)' PROVE k \in 1..Len(queue) /\ Copies(k) /\ queue'[k] = queue[k]
    BY <1>6, <1>7, <1>8, <2>1
  <2>2. \A k \in 1..Len(queue) : Copies(k) => k \in 1..Len(queue') /\ Copies(k)' /\ queue'[k] = queue[k]
    BY <1>6, <1>7
  <2>3. \A k \in 1..Len(queue') : Copies(k)' => reached' < queue'[k].value /\ queue'[k].value <= submitted'
    BY <1>1, <2>1 DEF IInv, ValuesOK
  <2>4. ASSUME NEW j \in 1..Len(queue'), NEW k \in 1..Len(queue'), Copies(j)', Copies(k)', j < k
        PROVE  queue'[j].value < queue'[k].value
    BY <2>1, <2>4 DEF IInv, ValuesOK
  <2>5. reached' = submitted' \/ \E k \in 1..Len(queue') : Copies(k)' /\ queue'[k].value = submitted'
    BY <1>1, <2>2 DEF IInv, ValuesOK
  <2> QED BY <2>3, <2>4, <2>5 DEF ValuesOK
<1>14. PresentsOK'
  <2>1. ASSUME NEW k \in 1..Len(queue'), Copies(k)' PROVE Follows(k)'
    <3>1. k \in 1..n /\ Copies(k) /\ queue'[k] = queue[k]
      BY <1>6, <1>7, <1>8, <2>1
    <3>2. CASE pc.image = queue[k].image
      <4>1. n + 1 \in 1..Len(queue') /\ k < n + 1 /\ queue'[n + 1].image = queue'[k].image
        BY <1>4, <1>6, <3>1, <3>2
      <4> QED BY <1>8, <4>1 DEF Follows
    <3>3. CASE pc.image # queue[k].image
      <4>1. Follows(k)
        BY <1>6, <3>1 DEF IInv, PresentsOK
      <4>2. PICK j \in 1..n : k < j /\ ~Copies(j) /\ queue[j].image = queue[k].image
        BY <1>6, <3>3, <4>1 DEF Follows
      <4>3. j \in 1..Len(queue') /\ ~Copies(j)' /\ queue'[j].image = queue'[k].image
        BY <1>6, <1>7, <3>1, <4>2
      <4> QED BY <4>2, <4>3 DEF Follows
    <3> QED BY <3>2, <3>3
  <2>2. ASSUME NEW k \in 1..n, ~Copies(k)
        PROVE  /\ images[queue[k].image] = "presented" /\ queue[k].image \in ImageSet /\ queue[k].image # pc.image
               /\ queue'[k].image = queue[k].image
    <3>1. images[queue[k].image] = "presented"
      BY <1>6, <2>2 DEF IInv, PresentsOK
    <3>2. queue[k] \in WorkItem
      BY <1>6
    <3> QED BY <1>3, <1>6, <3>1, <3>2 DEF WorkItem
  <2>3. ASSUME NEW k \in 1..Len(queue'), ~Copies(k)' PROVE images'[queue'[k].image] = "presented"
    <3>1. CASE k \in 1..n
      BY <1>1, <1>2, <1>7, <2>2, <2>3, <3>1
    <3>2. CASE k = n + 1
      BY <1>1, <1>2, <1>3, <1>4, <1>6, <3>2
    <3> QED BY <1>6, <3>1, <3>2
  <2>4. ASSUME NEW j \in 1..Len(queue'), NEW k \in 1..Len(queue'), ~Copies(j)', ~Copies(k)',
               queue'[j].image = queue'[k].image
        PROVE  j = k
    <3>1. CASE j \in 1..n /\ k \in 1..n
      BY <1>6, <1>7, <2>4, <3>1 DEF IInv, PresentsOK
    <3>2. CASE j \in 1..n /\ k = n + 1
      BY <1>4, <1>6, <1>7, <2>2, <2>4, <3>2
    <3>3. CASE k \in 1..n /\ j = n + 1
      BY <1>4, <1>6, <1>7, <2>2, <2>4, <3>3
    <3> QED BY <1>6, <3>1, <3>2, <3>3
  <2> QED BY <2>1, <2>3, <2>4 DEF PresentsOK
<1>15. SlotsOK'
  BY <1>1, <1>7 DEF IInv, SlotsOK, Acquiring
<1>16. RenderedOK'
  <2>2. ASSUME NEW i \in ImageSet, i = pc.image PROVE PresentOf(i)'
    BY <1>4, <1>6, <1>8, <2>2 DEF PresentOf
  <2>3. ASSUME NEW i \in ImageSet, rendered'[i] # "free", i # pc.image PROVE PresentOf(i)'
    BY <1>1, <1>7, <2>3 DEF IInv, RenderedOK
  <2> QED BY <2>2, <2>3 DEF RenderedOK
<1>17. UsesLiveSwapchain'
  <2>1. \A k \in 1..Len(queue') : queue'[k].chain = chain'.number
    BY <1>4, <1>6, <1>11 DEF IInv, UsesLiveSwapchain
  <2> QED BY <1>6, <2>1 DEF UsesLiveSwapchain
<1>18. QueueTyped' /\ SlotsTyped' /\ CountsTyped'
  BY <1>1, <1>6, <1>9 DEF IInv, Typed, QueueTyped, SlotsTyped, CountsTyped
<1>19. ImagesTyped'
  BY <1>1, <1>2 DEF IInv, Typed, ImagesTyped
<1> QED BY <1>9, <1>10, <1>11, <1>12, <1>13, <1>14, <1>15, <1>16, <1>17, <1>18, <1>19 DEF IInv, Typed

-----------------------------------------------------------------------------
(* The queue and the presentation engine *)

\* The queue after its oldest piece of work.
LEMMA WorkTaken ==
  ASSUME IInv, queue # <<>>, queue' = Tail(queue)
  PROVE  /\ queue' \in Seq(WorkItem) /\ Head(queue) = queue[1] /\ queue[1] \in WorkItem /\ 1 \in 1..Len(queue)
         /\ \A k \in 1..Len(queue') : /\ k + 1 \in 1..Len(queue) /\ queue'[k] = queue[k + 1]
                                      /\ queue[k + 1] \in WorkItem /\ (Copies(k)' <=> Copies(k + 1))
         /\ \A k \in 1..Len(queue) : k # 1 => /\ k - 1 \in 1..Len(queue') /\ queue'[k - 1] = queue[k]
                                              /\ (Copies(k - 1)' <=> Copies(k))
<1>1. queue \in Seq(WorkItem)
  BY DEF IInv, Typed, QueueTyped
<1>2. /\ Head(queue) \in WorkItem /\ Head(queue) = queue[1] /\ queue' \in Seq(WorkItem)
      /\ Len(queue) \in Nat \ {0} /\ Len(queue') = Len(queue) - 1
      /\ \A k \in 1..Len(queue) - 1 : queue'[k] = queue[k + 1]
  BY <1>1, TailFacts
<1>3. ASSUME NEW k \in 1..Len(queue')
      PROVE  /\ k + 1 \in 1..Len(queue) /\ queue'[k] = queue[k + 1]
             /\ queue[k + 1] \in WorkItem /\ (Copies(k)' <=> Copies(k + 1))
  <2>1. k + 1 \in 1..Len(queue) /\ queue'[k] = queue[k + 1]
    BY <1>2
  <2> QED BY <1>1, <2>1 DEF Copies
<1>4. ASSUME NEW k \in 1..Len(queue), k # 1
      PROVE  k - 1 \in 1..Len(queue') /\ queue'[k - 1] = queue[k] /\ (Copies(k - 1)' <=> Copies(k))
  <2>1. k - 1 \in 1..Len(queue') /\ (k - 1) + 1 = k
    BY <1>2, <1>4
  <2> QED BY <1>3, <2>1
<1>5. 1 \in 1..Len(queue)
  BY <1>2
<1> QED BY <1>2, <1>3, <1>4, <1>5

\* What is left of the queue has the work for a slot and for an image, if it
\* was not the oldest.
LEMMA WorkLeft ==
  ASSUME IInv, queue # <<>>, queue' = Tail(queue)
  PROVE  /\ \A s \in SlotSet : CopyOf(s)' => CopyOf(s)
         /\ \A s \in SlotSet : CopyOf(s) => CopyOf(s)' \/ (Copies(1) /\ queue[1].slot = s)
         /\ \A i \in ImageSet : PresentOf(i) => PresentOf(i)' \/ (~Copies(1) /\ queue[1].image = i)
<1>1. ASSUME NEW s \in SlotSet, CopyOf(s)' PROVE CopyOf(s)
  <2>1. PICK k \in 1..Len(queue') : Copies(k)' /\ queue'[k].slot = s
    BY <1>1 DEF CopyOf
  <2>2. k + 1 \in 1..Len(queue) /\ Copies(k + 1) /\ queue[k + 1].slot = s
    BY <2>1, WorkTaken
  <2> QED BY <2>2 DEF CopyOf
<1>2. ASSUME NEW s \in SlotSet, CopyOf(s), ~(Copies(1) /\ queue[1].slot = s) PROVE CopyOf(s)'
  <2>1. PICK k \in 1..Len(queue) : Copies(k) /\ queue[k].slot = s
    BY <1>2 DEF CopyOf
  <2>2. k # 1
    BY <1>2, <2>1
  <2>3. k - 1 \in 1..Len(queue') /\ Copies(k - 1)' /\ queue'[k - 1].slot = s
    BY <2>1, <2>2, WorkTaken
  <2> QED BY <2>3 DEF CopyOf
<1>3. ASSUME NEW i \in ImageSet, PresentOf(i), ~(~Copies(1) /\ queue[1].image = i) PROVE PresentOf(i)'
  <2>1. PICK k \in 1..Len(queue) : ~Copies(k) /\ queue[k].image = i
    BY <1>3 DEF PresentOf
  <2>2. k # 1
    BY <1>3, <2>1
  <2>3. k - 1 \in 1..Len(queue') /\ ~Copies(k - 1)' /\ queue'[k - 1].image = i
    BY <2>1, <2>2, WorkTaken
  <2> QED BY <2>3 DEF PresentOf
<1> QED BY <1>1, <1>2, <1>3

\* The parts of the invariant that only the queue's order matters for.
LEMMA OrderLeft ==
  ASSUME IInv, queue # <<>>, queue' = Tail(queue), UNCHANGED <<pc, chain, submitted>>,
         \A s \in SlotSet : slots'[s].done = slots[s].done
  PROVE  /\ DoneOK' /\ UsesLiveSwapchain'
         /\ \A j, k \in 1..Len(queue') : Copies(j)' /\ Copies(k)' /\ j < k => queue'[j].value < queue'[k].value
         /\ \A k \in 1..Len(queue') : Copies(k)' => Follows(k)'
         /\ \A j, k \in 1..Len(queue') :
              ~Copies(j)' /\ ~Copies(k)' /\ queue'[j].image = queue'[k].image => j = k
<1>1. DoneOK'
  <2>1. ASSUME NEW k \in 1..Len(queue'), Copies(k)' PROVE slots'[queue'[k].slot].done = queue'[k].value
    <3>1. /\ k + 1 \in 1..Len(queue) /\ queue'[k] = queue[k + 1] /\ queue[k + 1] \in WorkItem /\ Copies(k + 1)
      BY <2>1, WorkTaken
    <3>2. queue[k + 1].slot \in SlotSet
      BY <3>1 DEF WorkItem
    <3> QED BY <3>1, <3>2 DEF IInv, DoneOK
  <2> QED BY <2>1 DEF IInv, DoneOK
<1>2. UsesLiveSwapchain'
  <2>1. ASSUME NEW k \in 1..Len(queue') PROVE queue'[k].chain = chain'.number
    <3>1. k + 1 \in 1..Len(queue) /\ queue'[k] = queue[k + 1]
      BY WorkTaken
    <3>2. k + 1 \in DOMAIN queue
      BY <3>1 DEF IInv, Typed, QueueTyped
    <3> QED BY <3>1, <3>2 DEF IInv, UsesLiveSwapchain
  <2>2. DOMAIN queue' = 1..Len(queue')
    BY WorkTaken
  <2> QED BY <2>1, <2>2 DEF UsesLiveSwapchain
<1>3. ASSUME NEW j \in 1..Len(queue'), NEW k \in 1..Len(queue')
      PROVE  /\ Copies(j)' /\ Copies(k)' /\ j < k => queue'[j].value < queue'[k].value
             /\ ~Copies(j)' /\ ~Copies(k)' /\ queue'[j].image = queue'[k].image => j = k
  <2>1. /\ j + 1 \in 1..Len(queue) /\ queue'[j] = queue[j + 1] /\ (Copies(j)' <=> Copies(j + 1))
        /\ k + 1 \in 1..Len(queue) /\ queue'[k] = queue[k + 1] /\ (Copies(k)' <=> Copies(k + 1))
    BY WorkTaken
  <2>2. (j < k => j + 1 < k + 1) /\ (j + 1 = k + 1 => j = k)
    OBVIOUS
  <2>3. Copies(j + 1) /\ Copies(k + 1) /\ j + 1 < k + 1 => queue[j + 1].value < queue[k + 1].value
    BY <2>1 DEF IInv, ValuesOK
  <2>4. ~Copies(j + 1) /\ ~Copies(k + 1) /\ queue[j + 1].image = queue[k + 1].image => j + 1 = k + 1
    BY <2>1 DEF IInv, PresentsOK
  <2> QED BY <2>1, <2>2, <2>3, <2>4
<1>4. ASSUME NEW k \in 1..Len(queue'), Copies(k)' PROVE Follows(k)'
  <2>1. k + 1 \in 1..Len(queue) /\ queue'[k] = queue[k + 1] /\ Copies(k + 1)
    BY <1>4, WorkTaken
  <2>2. Follows(k + 1)
    BY <2>1 DEF IInv, PresentsOK
  <2>3. CASE pc.at = "present" /\ pc.image = queue[k + 1].image
    BY <2>1, <2>3 DEF Follows
  <2>4. CASE \E j \in 1..Len(queue) : k + 1 < j /\ ~Copies(j) /\ queue[j].image = queue[k + 1].image
    <3>1. PICK j \in 1..Len(queue) : k + 1 < j /\ ~Copies(j) /\ queue[j].image = queue[k + 1].image
      BY <2>4
    <3>2. j # 1 /\ k < j - 1
      BY <3>1
    <3>3. j - 1 \in 1..Len(queue') /\ ~Copies(j - 1)' /\ queue'[j - 1].image = queue'[k].image
      BY <2>1, <3>1, <3>2, WorkTaken
    <3> QED BY <3>2, <3>3 DEF Follows
  <2> QED BY <2>2, <2>3, <2>4 DEF Follows
<1> QED BY <1>1, <1>2, <1>3, <1>4

\* The queue runs a copy: it waits for the acquired image, frees the slot's
\* semaphore, signals the image's and moves the timeline.
LEMMA CopyRuns ==
  ASSUME Sized, IInv, execute, Copies(1) PROVE IInv'
<1>1. queue # <<>> /\ queue' = Tail(queue) /\ UNCHANGED <<pc, chain, next, submitted, calls, outcome>>
  BY DEF execute
<1>2. PICK w \in WorkItem : /\ w = Head(queue) /\ w = queue[1] /\ w.op = "copy" /\ 1 \in 1..Len(queue)
                            /\ queue' \in Seq(WorkItem)
  BY <1>1, WorkTaken DEF Copies
<1>3. /\ slots' = [slots EXCEPT ![w.slot].acquired = "free"] /\ reached' = w.value
      /\ rendered' = [rendered EXCEPT ![w.image] = "signalled"] /\ images' = images
  BY <1>2 DEF execute
<1>4. /\ w.slot \in SlotSet /\ w.image \in ImageSet /\ w.value \in Nat
      /\ slots \in [SlotSet -> [done : Nat, acquired : Semaphore]] /\ rendered \in [ImageSet -> Semaphore]
      /\ submitted \in Nat /\ reached \in Nat
  BY DEF WorkItem, IInv, Typed, SlotsTyped, ImagesTyped, QueueTyped
<1>5. /\ slots' \in [SlotSet -> [done : Nat, acquired : Semaphore]]
      /\ \A s \in SlotSet : slots'[s].done = slots[s].done
      /\ \A s \in SlotSet : s # w.slot => slots'[s].acquired = slots[s].acquired
      /\ slots'[w.slot].acquired = "free"
  BY <1>3, <1>4 DEF Semaphore
<1>6. /\ DoneOK' /\ UsesLiveSwapchain'
      /\ \A j, k \in 1..Len(queue') : Copies(j)' /\ Copies(k)' /\ j < k => queue'[j].value < queue'[k].value
      /\ \A k \in 1..Len(queue') : Copies(k)' => Follows(k)'
      /\ \A j, k \in 1..Len(queue') :
           ~Copies(j)' /\ ~Copies(k)' /\ queue'[j].image = queue'[k].image => j = k
  BY <1>1, <1>5, OrderLeft
<1>7. reached < w.value /\ w.value <= submitted
  BY <1>2 DEF IInv, ValuesOK
<1>8. ValuesOK'
  <2>1. ASSUME NEW k \in 1..Len(queue'), Copies(k)' PROVE reached' < queue'[k].value /\ queue'[k].value <= submitted'
    <3>1. k + 1 \in 1..Len(queue) /\ queue'[k] = queue[k + 1] /\ Copies(k + 1) /\ 1 < k + 1
      BY <1>1, <2>1, WorkTaken
    <3>2. queue[1].value < queue[k + 1].value /\ queue[k + 1].value <= submitted
      BY <1>2, <3>1 DEF IInv, ValuesOK
    <3> QED BY <1>1, <1>2, <1>3, <3>1, <3>2
  <2>2. reached' = submitted' \/ \E k \in 1..Len(queue') : Copies(k)' /\ queue'[k].value = submitted'
    <3>1. reached # submitted
      BY <1>4, <1>7
    <3>2. PICK k \in 1..Len(queue) : Copies(k) /\ queue[k].value = submitted
      BY <3>1 DEF IInv, ValuesOK
    <3>3. CASE k = 1
      BY <1>1, <1>2, <1>3, <3>2, <3>3
    <3>4. CASE k # 1
      <4>1. k - 1 \in 1..Len(queue') /\ queue'[k - 1] = queue[k] /\ Copies(k - 1)'
        BY <1>1, <3>2, <3>4, WorkTaken
      <4> QED BY <1>1, <3>2, <4>1
    <3> QED BY <3>3, <3>4
  <2> QED BY <1>6, <2>1, <2>2 DEF ValuesOK
<1>9. PresentsOK'
  <2>1. ASSUME NEW k \in 1..Len(queue'), ~Copies(k)' PROVE images'[queue'[k].image] = "presented"
    <3>1. k + 1 \in 1..Len(queue) /\ queue'[k] = queue[k + 1] /\ ~Copies(k + 1)
      BY <1>1, <2>1, WorkTaken
    <3> QED BY <1>3, <3>1 DEF IInv, PresentsOK
  <2> QED BY <1>6, <2>1 DEF PresentsOK
<1>10. SlotsOK'
  <2>1. ASSUME NEW s \in SlotSet, slots'[s].acquired # "free"
        PROVE  Acquiring(s)' \/ CopyOf(s)' \/ pc'.at \in {"destroy", "gone"}
    <3>1. s # w.slot /\ slots[s].acquired # "free"
      BY <1>5, <2>1
    <3>2. Acquiring(s) \/ CopyOf(s) \/ pc.at \in {"destroy", "gone"}
      BY <3>1 DEF IInv, SlotsOK
    <3>3. CopyOf(s) => CopyOf(s)'
      BY <1>1, <1>2, <3>1, WorkLeft
    <3> QED BY <1>1, <3>2, <3>3 DEF Acquiring
  <2> QED BY <2>1 DEF SlotsOK
<1>11. RenderedOK'
  <2>1. ASSUME NEW i \in ImageSet, rendered'[i] # "free"
        PROVE  (pc'.at = "present" /\ pc'.image = i) \/ PresentOf(i)'
    <3>1. PresentOf(i) => PresentOf(i)'
      BY <1>1, WorkLeft
    <3>2. CASE i = w.image
      <4>1. Follows(1)
        BY <1>2 DEF IInv, PresentsOK
      <4>2. (pc.at = "present" /\ pc.image = i) \/ PresentOf(i)
        BY <1>2, <3>2, <4>1 DEF Follows, PresentOf
      <4> QED BY <1>1, <3>1, <4>2
    <3>3. CASE i # w.image
      <4>1. rendered[i] # "free"
        BY <1>3, <1>4, <2>1, <3>3
      <4> QED BY <1>1, <3>1, <4>1 DEF IInv, RenderedOK
    <3> QED BY <3>2, <3>3
  <2> QED BY <2>1 DEF RenderedOK
<1>12. ThreadOK'
  <2>1. pc.slot \in SlotSet
    BY DEF IInv, Typed, ThreadTyped
  <2>2. ~CopyOf(pc.slot) => ~CopyOf(pc.slot)'
    <3>1. PICK s \in SlotSet : s = pc.slot
      BY <2>1
    <3>2. CopyOf(s)' => CopyOf(s)
      BY <1>1, WorkLeft
    <3> QED BY <1>1, <3>1, <3>2 DEF CopyOf
  <2> QED BY <1>1, <1>3, <1>5, <2>1, <2>2 DEF IInv, ThreadOK
<1>13. ThreadTyped' /\ ChainTyped' /\ CountsTyped' /\ next' \in SlotSet
  BY <1>1 DEF IInv, Typed, ThreadTyped, ChainTyped, CountsTyped, SlotsTyped
<1>14. ImagesTyped' /\ QueueTyped' /\ SlotsTyped'
  <2>1. rendered' \in [ImageSet -> Semaphore]
    BY <1>3, <1>4 DEF Semaphore
  <2> QED BY <1>1, <1>2, <1>3, <1>4, <1>5, <1>7, <1>13, <2>1 DEF IInv, Typed, ImagesTyped, QueueTyped, SlotsTyped
<1> QED BY <1>6, <1>8, <1>9, <1>10, <1>11, <1>12, <1>13, <1>14 DEF IInv, Typed

\* The queue runs a present: the image's semaphore is free and it is shown.
LEMMA PresentRuns ==
  ASSUME Sized, IInv, execute, ~Copies(1) PROVE IInv'
<1>1. queue # <<>> /\ queue' = Tail(queue) /\ UNCHANGED <<pc, chain, next, submitted, calls, outcome>>
  BY DEF execute
<1>2. PICK w \in WorkItem : /\ w = Head(queue) /\ w = queue[1] /\ w.op # "copy" /\ 1 \in 1..Len(queue)
                            /\ queue' \in Seq(WorkItem)
  BY <1>1, WorkTaken DEF Copies
<1>3. /\ rendered' = [rendered EXCEPT ![w.image] = "free"] /\ images' = [images EXCEPT ![w.image] = "shown"]
      /\ UNCHANGED <<slots, reached>>
  BY <1>2 DEF execute
<1>4. /\ w.image \in ImageSet /\ rendered \in [ImageSet -> Semaphore]
      /\ images \in [ImageSet -> {"ready", "acquired", "presented", "shown"}]
  BY DEF WorkItem, IInv, Typed, ImagesTyped
<1>5. images[w.image] = "presented"
  BY <1>2 DEF IInv, PresentsOK
<1>6. /\ DoneOK' /\ UsesLiveSwapchain'
      /\ \A j, k \in 1..Len(queue') : Copies(j)' /\ Copies(k)' /\ j < k => queue'[j].value < queue'[k].value
      /\ \A k \in 1..Len(queue') : Copies(k)' => Follows(k)'
      /\ \A j, k \in 1..Len(queue') :
           ~Copies(j)' /\ ~Copies(k)' /\ queue'[j].image = queue'[k].image => j = k
  BY <1>1, <1>3, OrderLeft
<1>7. ValuesOK'
  <2>1. ASSUME NEW k \in 1..Len(queue'), Copies(k)' PROVE reached' < queue'[k].value /\ queue'[k].value <= submitted'
    <3>1. k + 1 \in 1..Len(queue) /\ queue'[k] = queue[k + 1] /\ Copies(k + 1)
      BY <1>1, <2>1, WorkTaken
    <3> QED BY <1>1, <1>3, <3>1 DEF IInv, ValuesOK
  <2>2. reached' = submitted' \/ \E k \in 1..Len(queue') : Copies(k)' /\ queue'[k].value = submitted'
    <3>1. CASE reached = submitted
      BY <1>1, <1>3, <3>1
    <3>2. CASE reached # submitted
      <4>1. PICK k \in 1..Len(queue) : Copies(k) /\ queue[k].value = submitted
        BY <3>2 DEF IInv, ValuesOK
      <4>2. k # 1
        BY <4>1
      <4>3. k - 1 \in 1..Len(queue') /\ queue'[k - 1] = queue[k] /\ Copies(k - 1)'
        BY <1>1, <4>1, <4>2, WorkTaken
      <4> QED BY <1>1, <4>1, <4>3
    <3> QED BY <3>1, <3>2
  <2> QED BY <1>6, <2>1, <2>2 DEF ValuesOK
<1>8. PresentsOK'
  <2>1. ASSUME NEW k \in 1..Len(queue'), ~Copies(k)' PROVE images'[queue'[k].image] = "presented"
    <3>1. /\ k + 1 \in 1..Len(queue) /\ queue'[k] = queue[k + 1] /\ ~Copies(k + 1) /\ k + 1 # 1
          /\ queue[k + 1] \in WorkItem
      BY <1>1, <2>1, WorkTaken
    <3>2. images[queue[k + 1].image] = "presented" /\ queue[k + 1].image # queue[1].image
      BY <1>2, <3>1 DEF IInv, PresentsOK
    <3>3. queue[k + 1].image \in ImageSet
      BY <3>1 DEF WorkItem
    <3> QED BY <1>2, <1>3, <1>4, <3>1, <3>2, <3>3
  <2> QED BY <1>6, <2>1 DEF PresentsOK
<1>9. SlotsOK'
  <2>1. \A s \in SlotSet : CopyOf(s) => CopyOf(s)'
    BY <1>1, WorkLeft
  <2> QED BY <1>1, <1>3, <2>1 DEF IInv, SlotsOK, Acquiring
<1>10. RenderedOK'
  <2>1. ASSUME NEW i \in ImageSet, rendered'[i] # "free"
        PROVE  (pc'.at = "present" /\ pc'.image = i) \/ PresentOf(i)'
    <3>1. i # w.image /\ rendered[i] # "free"
      BY <1>3, <1>4, <2>1
    <3>2. PresentOf(i) => PresentOf(i)'
      BY <1>1, <1>2, <3>1, WorkLeft
    <3> QED BY <1>1, <3>1, <3>2 DEF IInv, RenderedOK
  <2> QED BY <2>1 DEF RenderedOK
<1>11. ThreadOK'
  <2>1. pc.slot \in SlotSet
    BY DEF IInv, Typed, ThreadTyped
  <2>2. ~CopyOf(pc.slot) => ~CopyOf(pc.slot)'
    <3>1. PICK s \in SlotSet : s = pc.slot
      BY <2>1
    <3>2. CopyOf(s)' => CopyOf(s)
      BY <1>1, WorkLeft
    <3> QED BY <1>1, <3>1, <3>2 DEF CopyOf
  <2>3. pc.at \in {"submit", "present"} => pc.image \in ImageSet /\ images'[pc.image] = "acquired"
    BY <1>3, <1>4, <1>5 DEF IInv, ThreadOK
  <2> QED BY <1>1, <1>3, <2>2, <2>3 DEF IInv, ThreadOK
<1>12. ThreadTyped' /\ ChainTyped' /\ CountsTyped' /\ SlotsTyped'
  BY <1>1, <1>3 DEF IInv, Typed, ThreadTyped, ChainTyped, CountsTyped, SlotsTyped
<1>13. ImagesTyped' /\ QueueTyped'
  <2>1. rendered' \in [ImageSet -> Semaphore]
    BY <1>3, <1>4 DEF Semaphore
  <2>2. images' \in [ImageSet -> {"ready", "acquired", "presented", "shown"}]
    BY <1>3, <1>4
  <2> QED BY <1>1, <1>2, <1>3, <2>1, <2>2 DEF IInv, Typed, ImagesTyped, QueueTyped
<1> QED BY <1>6, <1>7, <1>8, <1>9, <1>10, <1>11, <1>12, <1>13 DEF IInv, Typed

\* The engine signals an acquired image.
LEMMA EngineSignals ==
  ASSUME Sized, IInv, NEW s \in SlotSet, engineSignals(s) PROVE IInv'
<1>1. /\ slots[s].acquired = "pending" /\ slots' = [slots EXCEPT ![s].acquired = "signalled"]
      /\ UNCHANGED <<pc, chain, next, submitted, queue, reached, images, rendered, calls, outcome>>
  BY DEF engineSignals
<1>2. slots \in [SlotSet -> [done : Nat, acquired : Semaphore]] /\ pc.slot \in SlotSet
  BY DEF IInv, Typed, SlotsTyped, ThreadTyped
<1>3. /\ slots' \in [SlotSet -> [done : Nat, acquired : Semaphore]]
      /\ \A x \in SlotSet : slots'[x].done = slots[x].done
      /\ \A x \in SlotSet : slots'[x].acquired # "free" => slots[x].acquired # "free"
  BY <1>1, <1>2 DEF Semaphore
<1>4. DoneOK' /\ ValuesOK' /\ PresentsOK' /\ UsesLiveSwapchain'
  BY <1>1, <1>3, QueueKept
<1>5. SlotsOK'
  BY <1>1, <1>3 DEF IInv, SlotsOK, Acquiring, CopyOf, Copies
<1>6. RenderedOK'
  BY <1>1 DEF IInv, RenderedOK, PresentOf, Copies
<1>7. ThreadOK'
  BY <1>1, <1>2, <1>3 DEF IInv, ThreadOK, CopyOf, Copies
<1>8. ThreadTyped' /\ ChainTyped' /\ CountsTyped' /\ SlotsTyped' /\ ImagesTyped' /\ QueueTyped'
  BY <1>1, <1>3 DEF IInv, Typed, ThreadTyped, ChainTyped, CountsTyped, SlotsTyped, ImagesTyped, QueueTyped
<1> QED BY <1>4, <1>5, <1>6, <1>7, <1>8 DEF IInv, Typed

\* The engine gives an image back that is not shown any more.
LEMMA EngineReleases ==
  ASSUME Sized, IInv, NEW i \in ImageSet, engineReleases(i) PROVE IInv'
<1>1. /\ images[i] = "shown" /\ images' = [images EXCEPT ![i] = "ready"]
      /\ UNCHANGED <<pc, chain, slots, next, submitted, queue, reached, rendered, calls, outcome>>
  BY DEF engineReleases
<1>2. images \in [ImageSet -> {"ready", "acquired", "presented", "shown"}]
  BY DEF IInv, Typed, ImagesTyped
<1>3. /\ images' \in [ImageSet -> {"ready", "acquired", "presented", "shown"}]
      /\ \A x \in ImageSet : images[x] = "presented" => images'[x] = "presented"
      /\ \A x \in ImageSet : images[x] = "acquired" => images'[x] = "acquired"
  BY <1>1, <1>2
<1>4. DoneOK' /\ ValuesOK' /\ PresentsOK' /\ UsesLiveSwapchain'
  BY <1>1, <1>3, QueueKept
<1>5. SlotsOK'
  BY <1>1 DEF IInv, SlotsOK, Acquiring, CopyOf, Copies
<1>6. RenderedOK'
  BY <1>1 DEF IInv, RenderedOK, PresentOf, Copies
<1>7. ThreadOK'
  BY <1>1, <1>3 DEF IInv, ThreadOK, CopyOf, Copies
<1>8. ThreadTyped' /\ ChainTyped' /\ CountsTyped' /\ SlotsTyped' /\ ImagesTyped' /\ QueueTyped'
  BY <1>1, <1>3 DEF IInv, Typed, ThreadTyped, ChainTyped, CountsTyped, SlotsTyped, ImagesTyped, QueueTyped
<1> QED BY <1>4, <1>5, <1>6, <1>7, <1>8 DEF IInv, Typed

-----------------------------------------------------------------------------
(* The theorem *)

LEMMA InitHolds == ASSUME Sized, Init PROVE IInv
<1>1. Len(queue) = 0 /\ 1..Len(queue) = {} /\ DOMAIN queue = {} /\ queue \in Seq(WorkItem)
  BY DEF Init
<1>2. 0 \in SlotSet /\ 0 \in 0..Images /\ 0 \in Sides
  BY DEF Sized, SlotSet, Sides
<1>3. pc = [at |-> "idle", extent |-> 0, slot |-> 0, image |-> 0, value |-> 0]
  BY DEF Init, Idle
<1>4. ThreadTyped
  BY <1>2, <1>3 DEF ThreadTyped, Ats
<1>5. ChainTyped /\ CountsTyped
  BY <1>2 DEF Init, ChainTyped, CountsTyped
<1>6. SlotsTyped /\ QueueTyped /\ ImagesTyped
  BY <1>1, <1>2 DEF Init, SlotsTyped, QueueTyped, ImagesTyped, Semaphore
<1>7. DoneOK /\ ValuesOK
  BY <1>1 DEF Init, DoneOK, ValuesOK
<1>8. PresentsOK /\ UsesLiveSwapchain
  BY <1>1 DEF PresentsOK, UsesLiveSwapchain
<1>9. SlotsOK /\ RenderedOK
  BY DEF Init, SlotsOK, RenderedOK
<1>10. ThreadOK
  BY <1>3 DEF Init, ThreadOK
<1> QED BY <1>4, <1>5, <1>6, <1>7, <1>8, <1>9, <1>10 DEF IInv, Typed

LEMMA NextKeeps == ASSUME Sized, IInv, Next PROVE IInv'
<1>1. CASE \E e \in Extents : present(e)
  BY <1>1, PresentBegins
<1>2. CASE Present
  <2>1. CASE recreateRefused \/ recreateWaits
    BY <2>1, RecreateBegins
  <2>2. CASE recreate \/ recreateFails
    BY <2>2, RecreateEnds
  <2>3. CASE waitForCopies
    BY <2>3, SlotWaited
  <2>4. CASE \E i \in ImageSet, b \in BOOLEAN : acquire(i, b)
    BY <2>4, AcquireKeeps
  <2>5. CASE acquireFails("Dropped", TRUE) \/ acquireFails("Dropped", FALSE) \/ acquireFails("Failed", FALSE)
    BY <2>5, AcquireFailsKeeps
  <2>6. CASE submit
    BY <2>6, SubmitKeeps
  <2>7. CASE submitFails
    BY <2>7, SubmitFailsKeeps
  <2>8. CASE queuePresent("Presented", FALSE) \/ queuePresent("Presented", TRUE) \/ queuePresent("Lost", FALSE)
    BY <2>8, PresentQueued
  <2>9. CASE destroy
    BY <2>9, DestroyKeeps
  <2> QED BY <1>2, <2>1, <2>2, <2>3, <2>4, <2>5, <2>6, <2>7, <2>8, <2>9 DEF Present
<1>3. CASE execute
  BY <1>3, CopyRuns, PresentRuns
<1>4. CASE Engine
  BY <1>4, EngineSignals, EngineReleases DEF Engine
<1> QED BY <1>1, <1>2, <1>3, <1>4 DEF Next

LEMMA StutterKeeps == ASSUME IInv, UNCHANGED vars PROVE IInv'
<1>1. UNCHANGED <<pc, chain, slots, next, submitted, queue, reached, images, rendered, calls, outcome>>
  BY DEF vars
<1>2. Typed'
  BY <1>1 DEF IInv, Typed, ThreadTyped, ChainTyped, SlotsTyped, QueueTyped, ImagesTyped, CountsTyped
<1>3. DoneOK' /\ ValuesOK' /\ PresentsOK' /\ UsesLiveSwapchain'
  BY <1>1, QueueKept
<1>4. SlotsOK' /\ RenderedOK'
  BY <1>1 DEF IInv, SlotsOK, RenderedOK, Acquiring, CopyOf, PresentOf, Copies
<1>5. ThreadOK'
  BY <1>1 DEF IInv, ThreadOK, CopyOf, Copies
<1> QED BY <1>2, <1>3, <1>4, <1>5 DEF IInv

LEMMA SafetyFollows == ASSUME IInv PROVE Safety
<1>1. /\ pc \in [at : Ats, extent : Sides, slot : SlotSet, image : 0..Images, value : Nat]
      /\ slots \in [SlotSet -> [done : Nat, acquired : Semaphore]] /\ next \in SlotSet
      /\ queue \in Seq(WorkItem) /\ submitted \in Nat /\ reached \in Nat /\ reached <= submitted
      /\ rendered \in [ImageSet -> Semaphore] /\ outcome \in [ok : Nat, registered : Nat]
  BY DEF IInv, Typed, ThreadTyped, SlotsTyped, QueueTyped, ImagesTyped, CountsTyped
<1>2. DOMAIN queue = 1..Len(queue)
  BY <1>1
<1>3. TypeOK
  <2>1. ASSUME NEW s \in SlotSet PROVE slots[s].done \in 0..submitted
    <3>1. slots[s].done \in Nat /\ slots[s].done <= submitted
      BY <1>1 DEF IInv, DoneOK
    <3> QED BY <1>1, <3>1
  <2> QED BY <1>1, <2>1 DEF TypeOK
<1>4. SlotFreeForReuse
  <2>1. ASSUME pc.at = "acquire" PROVE ~CopyOf(pc.slot) /\ slots[pc.slot].acquired = "free"
    BY <1>1, <2>1 DEF IInv, ThreadOK, SlotsOK, Acquiring
  <2> QED BY <1>2, <2>1 DEF SlotFreeForReuse, CopyOf, Copies
<1>5. RenderedFreeForReuse
  <2>1. ASSUME pc.at = "submit", rendered[pc.image] # "free" PROVE FALSE
    <3>1. pc.image \in ImageSet /\ images[pc.image] = "acquired"
      BY <2>1 DEF IInv, ThreadOK
    <3>2. PresentOf(pc.image)
      BY <2>1, <3>1 DEF IInv, RenderedOK
    <3>3. PICK k \in 1..Len(queue) : ~Copies(k) /\ queue[k].image = pc.image
      BY <3>2 DEF PresentOf
    <3> QED BY <3>1, <3>3 DEF IInv, PresentsOK
  <2> QED BY <2>1 DEF RenderedFreeForReuse
<1>6. WaitsForSubmitted
  <2>1. pc.value <= submitted /\ pc.value \in Nat
    BY <1>1 DEF IInv, ThreadOK
  <2>2. CASE reached = submitted
    BY <2>1, <2>2 DEF WaitsForSubmitted
  <2>3. CASE reached # submitted
    <3>1. PICK k \in 1..Len(queue) : Copies(k) /\ queue[k].value = submitted
      BY <2>3 DEF IInv, ValuesOK
    <3> QED BY <1>1, <1>2, <2>1, <3>1 DEF WaitsForSubmitted, Copies
  <2> QED BY <2>2, <2>3
<1>7. ReleasedAsPromised
  BY <1>1 DEF IInv, ThreadOK, ReleasedAsPromised
<1> QED BY <1>3, <1>4, <1>5, <1>6, <1>7 DEF Safety, IInv

\* SwapchainPresenter, with any number of frame slots and images: a slot's
\* command buffer and acquire semaphore, an image's semaphore and a swapchain
\* are used again only after the queue and the engine are done with them,
\* nobody waits for a timeline value that nothing signals, and `released` is
\* registered exactly for the presents that report Presented or Lost.
THEOREM PresenterReusesSafely ==
  ASSUME Slots \in Nat \ {0}, Images \in Nat
  PROVE  Spec => []Safety
<1>1. Sized
  BY DEF Sized
<1>2. Init => IInv
  BY <1>1, InitHolds
<1>3. IInv /\ [Next]_vars => IInv'
  BY <1>1, NextKeeps, StutterKeeps
<1>4. IInv => Safety
  BY SafetyFollows
<1> QED BY <1>2, <1>3, <1>4, PTL DEF Spec
=============================================================================
