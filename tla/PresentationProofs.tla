------------------------- MODULE PresentationProofs -------------------------
(***************************************************************************)
(* Proofs about Presentation, for any number of frames and drawables and   *)
(* whatever the swapchain answers: a presented drawable is always in one   *)
(* place that will give it back, and GL shows it with its own export.      *)
(***************************************************************************)
EXTENDS Presentation, FiniteSetTheorems, SequenceTheorems, NaturalsInduction, TLAPS

-----------------------------------------------------------------------------
(* The inductive invariant *)

Encoding == {"acquired", "encoding", "rendered", "submitted"}
Thread == {"gl", "enqueued", "vulkan", "copying"}
Handed == {"starting", "end"}

\* The frame that uses a drawable is the only one: nextDrawable reuses it only
\* after it was given back or abandoned.
Uses(f) == pc[f] \notin {"none", "abandoned"} /\ released[f] = 0
OneUser == \A f, g \in Frames : Uses(f) /\ Uses(g) /\ drawable[f] = drawable[g] => f = g

FrameOK(f) ==
  /\ pc[f] # "none" => drawable[f] \in Drawables
  /\ released[f] \in {0, 1}
  /\ released[f] = 1 => pc[f] \in Handed
  /\ pc[f] \in Encoding => callback[drawable[f]] = None
  /\ pc[f] \in Thread => callback[drawable[f]] = f
  /\ pc[f] \in Handed /\ released[f] = 0 => callback[drawable[f]] = f
  /\ f \in copies => pc[f] = "end" /\ callback[drawable[f]] = f
  /\ pc[f] = "copying" <=> holder = f
FramesOK == \A f \in Frames : FrameOK(f)

\* A callback belongs to the frame that uses the drawable now.
CallbacksOK ==
  \A d \in Drawables : callback[d] # None =>
    drawable[callback[d]] = d /\ Uses(callback[d]) /\ pc[callback[d]] \in Thread \cup Handed

\* The places that keep a drawable after its frame's thread has handed it on.
Queued(d) == \E i \in 1..Len(layerQueue) : layerQueue[i] = d
Kept(d) == callback[d] # None /\ pc[callback[d]] \in Handed /\ callback[d] \notin copies
QueueOK ==
  \A i \in 1..Len(layerQueue) :
    /\ Kept(layerQueue[i]) /\ layerQueue[i] # last /\ layerQueue[i] # lastGL
    /\ \A j \in 1..Len(layerQueue) : layerQueue[j] = layerQueue[i] => j = i
LastOK ==
  /\ last # None => Kept(last) /\ last # lastGL
  /\ lastGL # None => Kept(lastGL) /\ holder # None
KeptSomewhere ==
  \A d \in Drawables : Kept(d) => Queued(d) \/ last = d \/ lastGL = d

\* The export goes with its frame, from the commit to the drawable GL waits for.
ExportsOK ==
  \A f \in Frames :
    /\ export[f] \in {None, f}
    /\ pc[f] \in {"acquired", "encoding"} => texture[drawable[f]] = None
    /\ pc[f] \in {"rendered", "submitted"} => texture[drawable[f]] \in {None, f}
    /\ pc[f] \in {"gl", "enqueued"} => export[f] = f
    /\ pc[f] = "enqueued" => queuedSerial[drawable[f]] = serial[f]

\* Serials are drawn once per frame.
Drew == {f \in Frames : serial[f] # 0}
SerialsOK ==
  /\ nextSerial = Cardinality(Drew) + 1
  /\ \A f \in Frames : pc[f] \in {"none", "acquired", "encoding", "rendered"} => serial[f] = 0

IInv == /\ TypeOK /\ SerialsOK /\ OneUser /\ FramesOK /\ CallbacksOK
        /\ QueueOK /\ LastOK /\ KeptSomewhere /\ ExportsOK /\ GLShowsOwnExport

-----------------------------------------------------------------------------
(* Lemmas *)

\* A set of naturals that is not empty has a least element.
LEMMA Least ==
  ASSUME NEW T, T \subseteq Nat, T # {}
  PROVE  \E x \in T : \A y \in T : ~(y < x)
<1>1. PICK R : R = OpToRel(<, Nat) /\ IsWellFoundedOn(R, Nat)
  BY NatLessThanWellFounded
<1>2. \A x, y \in Nat : y < x => <<y, x>> \in R
  BY <1>1 DEF OpToRel
<1>3. \E x \in T : \A y \in T : ~(<<y, x>> \in R)
  BY <1>1, WFMin
<1> QED BY <1>2, <1>3

\* trackb_prepare_render finds the first drawable that is not stale.
LEMMA FirstFreshFacts ==
  ASSUME TypeOK
  PROVE  /\ FirstFresh \in 1..(Len(layerQueue) + 1)
         /\ FirstFresh <= Len(layerQueue) => ~Stale(queuedSerial[layerQueue[FirstFresh]])
<1>1. layerQueue \in Seq(Drawables) /\ Len(layerQueue) \in Nat
  BY DEF TypeOK
<1> DEFINE T == {i \in 1..(Len(layerQueue) + 1) : i <= Len(layerQueue) => ~Stale(queuedSerial[layerQueue[i]])}
<1>2. PICK i \in T : \A y \in T : ~(y < i)
  <2>1. T \subseteq Nat
    BY <1>1
  <2>2. Len(layerQueue) + 1 \in T
    BY <1>1
  <2> HIDE DEF T
  <2> QED BY <2>1, <2>2, Least
<1>3. ASSUME NEW j \in 1..(i - 1) PROVE Stale(queuedSerial[layerQueue[j]])
  <2>1. j \in 1..(Len(layerQueue) + 1) /\ j < i
    BY <1>1, <1>2
  <2>2. j \notin T
    BY <1>2, <2>1
  <2> QED BY <2>1, <2>2
<1>4. \E k \in 1..(Len(layerQueue) + 1) :
        /\ k <= Len(layerQueue) => ~Stale(queuedSerial[layerQueue[k]])
        /\ \A j \in 1..(k - 1) : Stale(queuedSerial[layerQueue[j]])
  BY <1>2, <1>3
<1> QED BY <1>4 DEF FirstFresh

\* didPresent and didDrop of a set of drawables.
Ends(D) ==
  /\ \A d \in Drawables : callback'[d] = IF d \in D THEN None ELSE callback[d]
  /\ \A f \in Frames : released'[f] = IF \E d \in D : callback[d] = f THEN released[f] + 1 ELSE released[f]

\* They run each callback once, since no two drawables have the same.
LEMMA DidEndFacts ==
  ASSUME TypeOK, CallbacksOK, NEW D, D \subseteq Drawables, DidEnd(D)
  PROVE  Ends(D) /\ callback' \in [Drawables -> Handle(Frames)] /\ released' \in [Frames -> Nat]
<1>1. /\ callback \in [Drawables -> Handle(Frames)] /\ released \in [Frames -> Nat] /\ None \notin Frames
      /\ IsFiniteSet(Drawables)
  BY PresentationAssumption DEF TypeOK
<1>2. callback' \in [Drawables -> Handle(Frames)] /\ \A d \in Drawables : callback'[d] = IF d \in D THEN None ELSE callback[d]
  BY <1>1 DEF DidEnd, Handle
<1>3. ASSUME NEW f \in Frames
      PROVE  Cardinality({d \in D : callback[d] = f}) = IF \E d \in D : callback[d] = f THEN 1 ELSE 0
  <2>1. CASE \E d \in D : callback[d] = f
    <3>1. PICK d \in D : callback[d] = f
      BY <2>1
    <3>2. ASSUME NEW e \in D, callback[e] = f PROVE e = d
      <4>1. e \in Drawables /\ d \in Drawables /\ f # None
        BY <1>1
      <4> QED BY <3>1, <3>2, <4>1 DEF CallbacksOK
    <3>3. {e \in D : callback[e] = f} = {d}
      BY <3>1, <3>2
    <3> QED BY <2>1, <3>3, FS_Singleton
  <2>2. CASE ~\E d \in D : callback[d] = f
    <3>1. {e \in D : callback[e] = f} = {}
      BY <2>2
    <3> QED BY <2>2, <3>1, FS_EmptySet
  <2> QED BY <2>1, <2>2
<1>4. \A f \in Frames : released'[f] = released[f] + Cardinality({d \in D : callback[d] = f})
  BY DEF DidEnd
<1>5. ASSUME NEW f \in Frames
      PROVE  /\ released'[f] = IF \E d \in D : callback[d] = f THEN released[f] + 1 ELSE released[f]
             /\ released'[f] \in Nat
  <2>1. released[f] \in Nat
    BY <1>1
  <2>2. CASE \E d \in D : callback[d] = f
    <3>1. Cardinality({d \in D : callback[d] = f}) = 1
      BY <1>3, <2>2
    <3>2. released'[f] = released[f] + 1
      BY <1>4, <3>1
    <3> QED BY <2>1, <2>2, <3>2
  <2>3. CASE ~\E d \in D : callback[d] = f
    <3>1. Cardinality({d \in D : callback[d] = f}) = 0
      BY <1>3, <2>3
    <3>2. released'[f] = released[f] + 0
      BY <1>4, <3>1
    <3> QED BY <2>1, <2>3, <3>2
  <2> QED BY <2>2, <2>3
<1>6. released' \in [Frames -> Nat]
  <2>1. released' = [f \in Frames |-> released[f] + Cardinality({d \in D : callback[d] = f})]
    BY DEF DidEnd
  <2>2. \A f \in Frames : released[f] + Cardinality({d \in D : callback[d] = f}) \in Nat
    BY <1>4, <1>5
  <2> QED BY <2>1, <2>2
<1> QED BY <1>2, <1>5, <1>6 DEF Ends

\* A frame's thread goes on from presenting to handing the drawable over.
MovesOn(f) == \/ pc'[f] = pc[f]
              \/ pc[f] \in Thread /\ pc'[f] \in Thread \cup Handed
              \/ pc[f] \in Handed /\ pc'[f] \in Handed

\* Threads that go on and drawables that are given back keep the frames sound.
LEMMA EndKeeps ==
  ASSUME TypeOK, OneUser, FramesOK, CallbacksOK, NEW D, D \subseteq Drawables, Ends(D), UNCHANGED drawable,
         \A f \in Frames : MovesOn(f) /\ (pc'[f] = "copying" <=> holder' = f),
         \A d \in D : callback[d] # None /\ pc'[callback[d]] \in Handed /\ callback[d] \notin copies',
         \A f \in copies' : f \in Frames /\ pc'[f] = "end" /\ callback[drawable[f]] = f
  PROVE  OneUser' /\ FramesOK' /\ CallbacksOK'
<1>1. /\ callback \in [Drawables -> Handle(Frames)] /\ released \in [Frames -> Nat] /\ None \notin Frames
      /\ drawable \in [Frames -> Handle(Drawables)]
  BY PresentationAssumption DEF TypeOK
<1>2. ASSUME NEW f \in Frames
      PROVE  /\ pc'[f] \notin Thread \cup Handed => pc'[f] = pc[f]
             /\ pc[f] \in Thread \cup Handed => pc'[f] \in Thread \cup Handed
             /\ pc[f] \in Handed => pc'[f] \in Handed
             /\ pc[f] \notin Thread \cup Handed => pc'[f] = pc[f]
             /\ drawable'[f] = drawable[f]
  BY DEF MovesOn, Thread, Handed
<1>3. ASSUME NEW f \in Frames, \E d \in D : callback[d] = f
      PROVE  /\ drawable[f] \in D /\ callback[drawable[f]] = f /\ released[f] = 0 /\ released'[f] = 1
             /\ pc'[f] \in Handed /\ f \notin copies'
  <2>1. PICK d \in D : callback[d] = f
    BY <1>3
  <2>2. drawable[f] = d /\ released[f] = 0
    BY <1>1, <2>1 DEF CallbacksOK, Uses
  <2>3. released'[f] = released[f] + 1
    BY <1>3 DEF Ends
  <2> QED BY <2>1, <2>2, <2>3
<1>4. ASSUME NEW f \in Frames, ~\E d \in D : callback[d] = f PROVE released'[f] = released[f]
  BY <1>4 DEF Ends
<1>5. ASSUME NEW f \in Frames PROVE Uses(f)' => Uses(f)
  <2>1. released'[f] = 0 => released[f] = 0
    BY <1>3, <1>4
  <2>2. pc'[f] \notin {"none", "abandoned"} => pc[f] \notin {"none", "abandoned"}
    BY DEF MovesOn, Thread, Handed
  <2> QED BY <2>1, <2>2 DEF Uses
<1>6. OneUser'
  BY <1>2, <1>5 DEF OneUser
<1>7. ASSUME NEW f \in Frames PROVE FrameOK(f)'
  <2>1. FrameOK(f)
    BY DEF FramesOK
  <2>2. pc'[f] # "none" => drawable'[f] \in Drawables
    BY <1>2, <2>1 DEF FrameOK, MovesOn, Thread, Handed
  <2>3. released'[f] \in {0, 1} /\ (released'[f] = 1 => pc'[f] \in Handed)
    BY <1>2, <1>3, <1>4, <2>1 DEF FrameOK
  <2>4. pc'[f] \in Encoding => callback'[drawable'[f]] = None
    <3>1. pc'[f] \in Encoding => pc[f] \in Encoding /\ drawable[f] \in Drawables
      BY <1>2, <2>1 DEF FrameOK, Encoding, Thread, Handed
    <3> QED BY <1>2, <2>1, <3>1 DEF FrameOK, Ends
  <2>5. ASSUME pc'[f] \in Thread PROVE callback'[drawable'[f]] = f
    <3>1. pc[f] \in Thread /\ drawable[f] \in Drawables /\ callback[drawable[f]] = f
      BY <2>1, <2>5 DEF FrameOK, MovesOn, Thread, Handed
    <3>2. drawable[f] \notin D
      BY <2>5, <3>1 DEF Thread, Handed
    <3> QED BY <1>2, <3>1, <3>2 DEF Ends
  <2>6. ASSUME pc'[f] \in Handed, released'[f] = 0 PROVE callback'[drawable'[f]] = f
    <3>1. pc[f] \in Thread \cup Handed /\ drawable[f] \in Drawables /\ released[f] = 0
      BY <1>3, <1>4, <2>1, <2>6 DEF FrameOK, MovesOn, Thread, Handed
    <3>2. callback[drawable[f]] = f
      BY <2>1, <3>1 DEF FrameOK
    <3>3. drawable[f] \notin D
      BY <1>3, <2>6, <3>2
    <3> QED BY <1>2, <3>1, <3>2, <3>3 DEF Ends
  <2>7. ASSUME f \in copies' PROVE pc'[f] = "end" /\ callback'[drawable'[f]] = f
    <3>1. pc'[f] = "end" /\ callback[drawable[f]] = f
      BY <2>7
    <3>2. drawable[f] \notin D /\ drawable[f] \in Drawables
      BY <2>1, <2>2, <2>7, <3>1
    <3> QED BY <1>2, <3>1, <3>2 DEF Ends
  <2>8. pc'[f] = "copying" <=> holder' = f
    OBVIOUS
  <2> QED BY <2>2, <2>3, <2>4, <2>5, <2>6, <2>7, <2>8 DEF FrameOK
<1>8. CallbacksOK'
  <2> SUFFICES ASSUME NEW d \in Drawables, NEW g, g = callback'[d], g # None
               PROVE  drawable'[g] = d /\ Uses(g)' /\ pc'[g] \in Thread \cup Handed
    BY DEF CallbacksOK, Uses
  <2>1. d \notin D /\ callback[d] = g
    BY DEF Ends
  <2>2. g \in Frames
    BY <1>1, <2>1 DEF Handle
  <2>3. drawable[g] = d /\ Uses(g) /\ pc[g] \in Thread \cup Handed
    BY <2>1 DEF CallbacksOK
  <2>4. released'[g] = released[g]
    BY <1>3, <1>4, <2>1, <2>2, <2>3
  <2>5. pc'[g] \in Thread \cup Handed
    BY <1>2, <2>2, <2>3
  <2>6. Uses(g)'
    BY <2>3, <2>4, <2>5 DEF Uses, Thread, Handed
  <2> QED BY <2>2, <2>3, <2>5, <2>6
<1> QED BY <1>6, <1>7, <1>8 DEF FramesOK

\* A step that gives no drawable back.
LEMMA NoneEnds ==
  ASSUME UNCHANGED <<callback, released>>
  PROVE  Ends({})
BY DEF Ends

\* What is kept stays kept unless it is given back; what is newly kept was
\* handed over by a thread or by the completion of its copy.
LEMMA KeptMoves ==
  ASSUME TypeOK, CallbacksOK, NEW D, D \subseteq Drawables, Ends(D),
         \A f \in Frames : MovesOn(f), \A f \in copies' \ copies : pc[f] \in Thread,
         NEW d \in Drawables
  PROVE  /\ Kept(d) /\ d \notin D => Kept(d)' /\ callback'[d] = callback[d]
         /\ Kept(d)' => /\ d \notin D /\ callback'[d] = callback[d] /\ callback[d] \in Frames
                        /\ callback[d] \notin copies' /\ drawable[callback[d]] = d
                        /\ Kept(d) \/ pc[callback[d]] \in Thread \/ callback[d] \in copies \ copies'
                        /\ pc'[callback[d]] \in Handed
<1>1. callback \in [Drawables -> Handle(Frames)]
  BY DEF TypeOK
<1>2. ASSUME Kept(d), d \notin D PROVE Kept(d)' /\ callback'[d] = callback[d]
  <2>1. callback'[d] = callback[d]
    BY <1>2 DEF Ends
  <2>2. PICK g : g = callback[d]
    OBVIOUS
  <2>3. g \in Frames /\ pc[g] \in Handed /\ g \notin copies
    BY <1>1, <1>2, <2>2 DEF Kept, Handle
  <2>4. pc'[g] \in Handed /\ g \notin copies'
    BY <2>3 DEF MovesOn, Thread, Handed
  <2> QED BY <1>2, <2>1, <2>2, <2>4 DEF Kept
<1>3. ASSUME Kept(d)'
      PROVE  /\ d \notin D /\ callback'[d] = callback[d] /\ callback[d] \in Frames
             /\ callback[d] \notin copies' /\ drawable[callback[d]] = d
             /\ Kept(d) \/ pc[callback[d]] \in Thread \/ callback[d] \in copies \ copies'
             /\ pc'[callback[d]] \in Handed
  <2>1. PICK g : g = callback'[d]
    OBVIOUS
  <2>2. g # None /\ pc'[g] \in Handed /\ g \notin copies'
    BY <1>3, <2>1 DEF Kept
  <2>3. d \notin D /\ callback[d] = g
    BY <2>1, <2>2 DEF Ends
  <2>4. g \in Frames
    BY <1>1, <2>2, <2>3 DEF Handle
  <2>5. drawable[g] = d
    BY <2>2, <2>3 DEF CallbacksOK
  <2>6. pc[g] \in Thread \cup Handed
    BY <2>2, <2>3 DEF CallbacksOK
  <2> QED BY <2>1, <2>2, <2>3, <2>4, <2>5, <2>6 DEF Kept
<1> QED BY <1>2, <1>3

\* A step that leaves the layer's queue alone and gives back, or hands over,
\* what it takes out of the other places keeps the places sound.
LEMMA PlacesKeep ==
  ASSUME TypeOK, CallbacksOK, QueueOK, LastOK, KeptSomewhere, GLShowsOwnExport,
         NEW D, D \subseteq Drawables, Ends(D), \A f \in Frames : MovesOn(f),
         UNCHANGED <<layerQueue, semaphore, serial>>, \A f \in copies' \ copies : pc[f] \in Thread,
         \A i \in 1..Len(layerQueue) : layerQueue[i] \notin D /\ queuedSerial'[layerQueue[i]] = queuedSerial[layerQueue[i]],
         last' \in {last, None}, lastGL' \in {lastGL, last, None},
         last' # None => last' \notin D /\ last' # lastGL',
         lastGL' # None => lastGL' \notin D /\ holder' # None,
         \A d \in {last, lastGL} \ {None} : d \in D \cup {last', lastGL'},
         \A f \in Frames : pc[f] \in Thread /\ pc'[f] \in Handed => drawable[f] \in D \/ f \in copies',
         \A f \in copies \ copies' : drawable[f] \in D
  PROVE  QueueOK' /\ LastOK' /\ KeptSomewhere' /\ GLShowsOwnExport'
<1>1. /\ layerQueue \in Seq(Drawables) /\ last \in Handle(Drawables) /\ lastGL \in Handle(Drawables)
      /\ None \notin Drawables
  BY PresentationAssumption DEF TypeOK
<1>2. ASSUME NEW i \in 1..Len(layerQueue)
      PROVE  /\ Kept(layerQueue[i])' /\ layerQueue[i] # last' /\ layerQueue[i] # lastGL'
             /\ callback'[layerQueue[i]] = callback[layerQueue[i]]
  <2>1. layerQueue[i] \in Drawables
    BY <1>1, ElementOfSeq
  <2>2. PICK d \in Drawables : d = layerQueue[i]
    BY <2>1
  <2>3. Kept(d) /\ d # last /\ d # lastGL /\ d # None
    BY <1>1, <2>1, <2>2 DEF QueueOK
  <2>4. Kept(d)' /\ callback'[d] = callback[d]
    BY <2>2, <2>3, KeptMoves
  <2>5. layerQueue'[i] = d
    BY <2>2
  <2>6. d # last' /\ d # lastGL'
    BY <2>3
  <2> QED BY <2>2, <2>4, <2>5, <2>6 DEF Kept
<1>3. QueueOK'
  BY <1>2 DEF QueueOK
<1>4. GLShowsOwnExport'
  <2>1. ASSUME NEW i \in 1..Len(layerQueue)
        PROVE  /\ callback'[layerQueue'[i]] # None /\ semaphore'[layerQueue'[i]] = callback'[layerQueue'[i]]
               /\ queuedSerial'[layerQueue'[i]] = serial'[callback'[layerQueue'[i]]]
    BY <1>2, <2>1 DEF GLShowsOwnExport
  <2> QED BY <2>1 DEF GLShowsOwnExport
<1>5. ASSUME last' # None PROVE Kept(last)' /\ last' # lastGL'
  <2>1. PICK d \in Drawables : d = last
    BY <1>1, <1>5 DEF Handle
  <2>2. Kept(d)
    BY <1>5, <2>1 DEF LastOK
  <2>3. d \notin D /\ last' = d
    BY <1>5, <2>1
  <2>4. Kept(d)'
    BY <2>2, <2>3, KeptMoves
  <2> QED BY <1>5, <2>3, <2>4 DEF Kept
<1>6. ASSUME lastGL' # None PROVE Kept(lastGL)' /\ holder' # None
  <2>1. PICK d \in Drawables : d = lastGL'
    BY <1>1, <1>6 DEF Handle
  <2>2. Kept(d)
    BY <1>6, <2>1 DEF LastOK
  <2>3. d \notin D
    BY <1>6, <2>1
  <2>4. Kept(d)'
    BY <2>2, <2>3, KeptMoves
  <2> QED BY <1>6, <2>1, <2>4 DEF Kept
<1>7. LastOK'
  BY <1>5, <1>6 DEF LastOK
<1>8. ASSUME NEW d \in Drawables, Kept(d)' PROVE Queued(d)' \/ last' = d \/ lastGL' = d
  <2>1. /\ d \notin D /\ callback'[d] = callback[d] /\ callback[d] \in Frames
        /\ callback[d] \notin copies' /\ drawable[callback[d]] = d
        /\ Kept(d) \/ pc[callback[d]] \in Thread \/ callback[d] \in copies \ copies'
        /\ pc'[callback[d]] \in Handed
    BY <1>8, KeptMoves
  <2>2. Kept(d)
    BY <2>1
  <2>3. CASE Queued(d)
    BY <2>3 DEF Queued
  <2>4. CASE last = d \/ lastGL = d
    BY <1>1, <2>1, <2>4
  <2> QED BY <2>2, <2>3, <2>4 DEF KeptSomewhere
<1> QED BY <1>3, <1>4, <1>7, <1>8 DEF KeptSomewhere

-----------------------------------------------------------------------------
(* Types, serials and exports *)

FrameTypes ==
  /\ pc \in [Frames -> Pcs] /\ drawable \in [Frames -> Handle(Drawables)]
  /\ export \in [Frames -> Handle(Frames)]
  /\ serial \in [Frames -> Serials] /\ nextSerial \in 1..(Cardinality(Frames) + 1)
DrawableTypes ==
  /\ texture \in [Drawables -> Handle(Frames)] /\ semaphore \in [Drawables -> Handle(Frames)]
  /\ callback \in [Drawables -> Handle(Frames)] /\ released \in [Frames -> Nat]
  /\ queuedSerial \in [Drawables -> Serials]
LayerTypes ==
  /\ layerQueue \in Seq(Drawables) /\ Len(layerQueue) <= Cardinality(Drawables)
  /\ last \in Handle(Drawables) /\ lastGL \in Handle(Drawables)
RouteTypes ==
  /\ vulkan \in BOOLEAN /\ presenter \in {"none", "live", "unavailable"}
  /\ glAttached \in BOOLEAN /\ newest \in Serials
  /\ holder \in Handle(Frames) /\ copies \subseteq Frames
WindowTypes ==
  /\ {owns, hidePending, frameReady, glHandoff, vkHandoff, current, browserVisible, surface}
       \subseteq BOOLEAN
  /\ {glTex, glBuf, vkBuf} \subseteq Serials
EnvTypes == hud \in BOOLEAN /\ toggles \in 0..MaxToggles

LEMMA TypeParts ==
  /\ TypeOK <=> FrameTypes /\ DrawableTypes /\ LayerTypes /\ RouteTypes /\ WindowTypes /\ EnvTypes
  /\ TypeOK' <=> FrameTypes' /\ DrawableTypes' /\ LayerTypes' /\ RouteTypes' /\ WindowTypes' /\ EnvTypes'
BY DEF TypeOK, FrameTypes, DrawableTypes, LayerTypes, RouteTypes, WindowTypes, EnvTypes

LEMMA Counts ==
  Cardinality(Frames) \in Nat /\ Cardinality(Drawables) \in Nat /\ 0 \in Serials
<1>1. Cardinality(Frames) \in Nat /\ Cardinality(Drawables) \in Nat
  BY PresentationAssumption, FS_CardinalityType
<1> QED BY <1>1 DEF Serials

\* A frame that has no serial yet draws the next one.
LEMMA DrawSerial ==
  ASSUME TypeOK, SerialsOK, NEW f \in Frames, serial[f] = 0,
         serial' = [serial EXCEPT ![f] = nextSerial], nextSerial' = nextSerial + 1
  PROVE  /\ serial' \in [Frames -> Serials] /\ nextSerial' \in 1..(Cardinality(Frames) + 1)
         /\ nextSerial' = Cardinality(Drew') + 1
<1>1. /\ serial \in [Frames -> Serials] /\ nextSerial \in 1..(Cardinality(Frames) + 1)
      /\ nextSerial = Cardinality(Drew) + 1
  BY DEF TypeOK, SerialsOK
<1>2. IsFiniteSet(Frames) /\ Cardinality(Frames) \in Nat
  BY PresentationAssumption, Counts
<1>3. nextSerial \in Nat /\ nextSerial # 0
  BY <1>1, <1>2
<1>4. Drew' = Drew \cup {f} /\ f \notin Drew
  BY <1>1, <1>3 DEF Drew
<1>5. Drew \subseteq Frames /\ Drew \cup {f} \subseteq Frames
  BY DEF Drew
<1>6. IsFiniteSet(Drew)
  BY <1>2, <1>5, FS_Subset
<1>7. Cardinality(Drew \cup {f}) = Cardinality(Drew) + 1
  BY <1>4, <1>6, FS_AddElement
<1>8. Cardinality(Drew \cup {f}) <= Cardinality(Frames)
  BY <1>2, <1>5, FS_Subset
<1>9. nextSerial <= Cardinality(Frames)
  BY <1>1, <1>7, <1>8
<1>10. nextSerial \in Serials
  BY <1>2, <1>3, <1>9 DEF Serials
<1>11. Cardinality(Drew') = nextSerial
  BY <1>1, <1>4, <1>7
<1> QED BY <1>1, <1>2, <1>3, <1>9, <1>10, <1>11

\* No drawable is queued twice, so the queue has room for one that is not in it.
LEMMA QueueRoom ==
  ASSUME NEW q \in Seq(Drawables), \A i, j \in 1..Len(q) : q[i] = q[j] => i = j
  PROVE  Len(q) <= Cardinality(Drawables)
<1>1. Len(q) \in Nat /\ q \in [1..Len(q) -> Drawables]
  BY LenProperties
<1>2. q \in Injection(1..Len(q), Drawables)
  BY <1>1 DEF Injection, IsInjective
<1>3. Cardinality(1..Len(q)) <= Cardinality(Drawables)
  BY <1>2, PresentationAssumption, FS_Injection
<1>4. Cardinality(1..Len(q)) = Len(q)
  BY <1>1, FS_Interval
<1> QED BY <1>3, <1>4

LEMMA SerialsKeep ==
  ASSUME SerialsOK, UNCHANGED <<serial, nextSerial>>, \A f \in Frames : MovesOn(f)
  PROVE  SerialsOK'
<1>1. ASSUME NEW f \in Frames, pc'[f] \in {"none", "acquired", "encoding", "rendered"} PROVE serial'[f] = 0
  BY <1>1 DEF MovesOn, Thread, Handed, SerialsOK
<1>2. Drew' = Drew
  BY DEF Drew
<1> QED BY <1>1, <1>2 DEF SerialsOK

\* An export that has left for GL is kept until its drawable is queued.
LEMMA ExportsKeep ==
  ASSUME ExportsOK, UNCHANGED <<drawable, texture, serial>>, \A f \in Frames : MovesOn(f),
         \A f \in Frames : \/ export'[f] = export[f]
                           \/ export'[f] = None /\ pc'[f] \in Handed,
         \A f \in Frames : pc'[f] \in {"gl", "enqueued"} => pc[f] \in {"gl", "enqueued"},
         \A f \in Frames : pc'[f] = "enqueued" => queuedSerial'[drawable[f]] = serial[f]
  PROVE  ExportsOK'
<1> SUFFICES ASSUME NEW f \in Frames
             PROVE  /\ export'[f] \in {None, f}
                    /\ pc'[f] \in {"acquired", "encoding"} => texture'[drawable'[f]] = None
                    /\ pc'[f] \in {"rendered", "submitted"} => texture'[drawable'[f]] \in {None, f}
                    /\ pc'[f] \in {"gl", "enqueued"} => export'[f] = f
                    /\ pc'[f] = "enqueued" => queuedSerial'[drawable'[f]] = serial'[f]
  BY DEF ExportsOK
<1>1. export'[f] \in {None, f} /\ (pc'[f] \in {"gl", "enqueued"} => export'[f] = f)
  BY DEF ExportsOK, Handed
<1>2. pc'[f] \in Encoding => pc[f] = pc'[f]
  BY DEF MovesOn, Thread, Handed, Encoding
<1> QED BY <1>1, <1>2 DEF ExportsOK, Encoding

-----------------------------------------------------------------------------
(* The steps of a presenting thread *)

\* A frame's thread, or the completion of its copy, has its drawable alone.
LEMMA HoldsAlone ==
  ASSUME IInv, NEW f \in Frames, pc[f] \in Thread \/ f \in copies
  PROVE  /\ drawable[f] \in Drawables /\ callback[drawable[f]] = f /\ f # None /\ None \notin Drawables
         /\ \A i \in 1..Len(layerQueue) : layerQueue[i] # drawable[f]
         /\ drawable[f] # last /\ drawable[f] # lastGL
<1>1. FrameOK(f) /\ f # None /\ None \notin Drawables
  BY PresentationAssumption DEF IInv, FramesOK
<1>2. drawable[f] \in Drawables /\ callback[drawable[f]] = f
  BY <1>1 DEF FrameOK, Thread
<1>3. ~Kept(drawable[f])
  BY <1>2 DEF Kept, Thread, Handed
<1> QED BY <1>1, <1>2, <1>3 DEF IInv, QueueOK, LastOK

LEMMA ThreadGoes ==
  ASSUME TypeOK, NEW f \in Frames, NEW to \in Pcs, Goto(f, to),
         \/ pc[f] \in Thread /\ to \in Thread \cup Handed
         \/ pc[f] \in Handed /\ to \in Handed
  PROVE  /\ pc' \in [Frames -> Pcs] /\ pc'[f] = to
         /\ \A g \in Frames : MovesOn(g) /\ (g # f => pc'[g] = pc[g])
<1>1. pc \in [Frames -> Pcs]
  BY DEF TypeOK
<1>2. pc' \in [Frames -> Pcs] /\ pc'[f] = to /\ \A g \in Frames \ {f} : pc'[g] = pc[g]
  BY <1>1 DEF Goto
<1> QED BY <1>2 DEF MovesOn

\* GL route: the frame is dropped as stale or its serial is recorded.
LEMMA EnqueueGLKeeps ==
  ASSUME IInv, NEW f \in Frames, EnqueueGL(f)
  PROVE  IInv'
<1>1. TypeOK /\ SerialsOK /\ OneUser /\ FramesOK /\ CallbacksOK /\ QueueOK /\ LastOK /\ KeptSomewhere
      /\ ExportsOK /\ GLShowsOwnExport
  BY DEF IInv
<1>2. pc[f] = "gl" /\ pc[f] \in Thread
  BY DEF EnqueueGL, Thread
<1>3. PICK d \in Drawables : d = drawable[f] /\ callback[d] = f
  BY <1>2, HoldsAlone
<1>4. f # None /\ d # None /\ d # last /\ d # lastGL /\ \A i \in 1..Len(layerQueue) : layerQueue[i] # d
  BY <1>2, <1>3, HoldsAlone
<1>5. /\ UNCHANGED <<windowVars, drawable, export, serial, nextSerial, texture, semaphore, layerQueue, last>>
      /\ UNCHANGED <<vulkan, presenter, glAttached, newest, holder, lastGL, copies, hud, toggles>>
  BY DEF EnqueueGL, layerVars, routeVars, envVars
<1>6. PICK to \in {"end", "enqueued"} : Goto(f, to) /\ (to = "end" <=> Stale(serial[f]))
  BY DEF EnqueueGL
<1>7. /\ pc' \in [Frames -> Pcs] /\ pc'[f] = to
      /\ \A g \in Frames : MovesOn(g) /\ (g # f => pc'[g] = pc[g])
  <2>1. to \in Pcs /\ to \in Thread \cup Handed
    BY DEF Pcs, Thread, Handed
  <2> QED BY <1>1, <1>2, <1>6, <2>1, ThreadGoes
<1>8. PICK D : /\ D = (IF to = "end" THEN {d} ELSE {})
               /\ Ends(D) /\ callback' \in [Drawables -> Handle(Frames)] /\ released' \in [Frames -> Nat]
  <2>1. CASE to = "end"
    <3>1. DidEnd({d}) /\ {d} \subseteq Drawables
      BY <1>3, <1>6, <2>1 DEF EnqueueGL
    <3> QED BY <1>1, <2>1, <3>1, DidEndFacts
  <2>2. CASE to # "end"
    <3>1. UNCHANGED <<callback, released>>
      BY <1>6, <2>2 DEF EnqueueGL
    <3> QED BY <1>1, <2>2, <3>1, NoneEnds DEF TypeOK
  <2> QED BY <2>1, <2>2
<1>9. D \subseteq Drawables /\ \A e \in D : e = d /\ to = "end"
  BY <1>8
<1>10. /\ queuedSerial' \in [Drawables -> Serials]
       /\ \A e \in Drawables \ {d} : queuedSerial'[e] = queuedSerial[e]
       /\ to = "enqueued" => queuedSerial'[d] = serial[f]
  <2>1. queuedSerial \in [Drawables -> Serials] /\ serial \in [Frames -> Serials]
    BY <1>1 DEF TypeOK
  <2> QED BY <1>3, <1>6, <2>1 DEF EnqueueGL
<1>11. TypeOK'
  <2>1. FrameTypes' /\ LayerTypes' /\ RouteTypes' /\ EnvTypes'
    BY <1>1, <1>5, <1>7, TypeParts DEF FrameTypes, LayerTypes, RouteTypes, EnvTypes
  <2>2. DrawableTypes' /\ WindowTypes'
    BY <1>1, <1>5, <1>8, <1>10, TypeParts
    DEF DrawableTypes, WindowTypes, windowVars, flagVars, handoffVars, browserVars, contentVars
  <2> QED BY <2>1, <2>2, TypeParts
<1>12. \A g \in Frames : pc'[g] = "copying" <=> holder' = g
  BY <1>1, <1>2, <1>5, <1>7 DEF FramesOK, FrameOK
<1>13. \A g \in copies' : g \in Frames /\ pc'[g] = "end" /\ callback[drawable[g]] = g
  BY <1>1, <1>2, <1>5, <1>7 DEF TypeOK, FramesOK, FrameOK
<1>14. \A e \in D : callback[e] # None /\ pc'[callback[e]] \in Handed /\ callback[e] \notin copies'
  BY <1>1, <1>2, <1>3, <1>4, <1>5, <1>7, <1>9 DEF FramesOK, FrameOK, Handed
<1>15. OneUser' /\ FramesOK' /\ CallbacksOK'
  BY <1>1, <1>5, <1>7, <1>8, <1>9, <1>12, <1>13, <1>14, EndKeeps
<1>16. QueueOK' /\ LastOK' /\ KeptSomewhere' /\ GLShowsOwnExport'
  <2>1. \A i \in 1..Len(layerQueue) : layerQueue[i] \notin D /\ queuedSerial'[layerQueue[i]] = queuedSerial[layerQueue[i]]
    <3>1. \A i \in 1..Len(layerQueue) : layerQueue[i] \in Drawables \ {d}
      BY <1>1, <1>4, ElementOfSeq DEF TypeOK
    <3> QED BY <1>9, <1>10, <3>1
  <2>2. \A g \in Frames : pc[g] \in Thread /\ pc'[g] \in Handed => drawable[g] \in D
    BY <1>3, <1>7, <1>8 DEF Thread, Handed
  <2>3. \A e \in {last, lastGL} \ {None} : e \notin D
    BY <1>4, <1>9
  <2>4. (last # None => last # lastGL) /\ (lastGL # None => holder # None)
    BY <1>1 DEF LastOK
  <2> QED BY <1>1, <1>5, <1>7, <1>8, <1>9, <2>1, <2>2, <2>3, <2>4, PlacesKeep DEF LastOK
<1>17. SerialsOK'
  BY <1>1, <1>5, <1>7, SerialsKeep
<1>18. ExportsOK'
  <2>1. \A g \in Frames : pc'[g] \in {"gl", "enqueued"} => pc[g] \in {"gl", "enqueued"}
    BY <1>2, <1>7
  <2>2. ASSUME NEW g \in Frames, pc'[g] = "enqueued" PROVE queuedSerial'[drawable[g]] = serial[g]
    <3>1. CASE g = f
      BY <1>3, <1>7, <1>10, <2>2, <3>1
    <3>2. CASE g # f
      <4>1. pc[g] = "enqueued" /\ pc[g] \in Thread
        BY <1>7, <2>2, <3>2 DEF Thread
      <4>2. drawable[g] \in Drawables /\ callback[drawable[g]] = g
        BY <4>1, HoldsAlone
      <4>3. drawable[g] # d
        BY <1>3, <3>2, <4>2
      <4> QED BY <1>1, <1>10, <4>1, <4>2, <4>3 DEF ExportsOK
    <3> QED BY <3>1, <3>2
  <2> QED BY <1>1, <1>5, <1>7, <2>1, <2>2, ExportsKeep
<1> QED BY <1>11, <1>15, <1>16, <1>17, <1>18 DEF IInv

\* A step that leaves the queue, the serials and the exports alone keeps the
\* invariant if every drawable it takes from a place is given back or is in
\* another one.
LEMMA RouteStepKeeps ==
  ASSUME IInv, TypeOK', NEW D, D \subseteq Drawables, Ends(D),
         UNCHANGED <<drawable, texture, serial, nextSerial, layerQueue, semaphore, export, queuedSerial>>,
         \A g \in Frames : MovesOn(g) /\ (pc'[g] = "copying" <=> holder' = g),
         \A g \in Frames : pc'[g] \in {"gl", "enqueued"} => pc'[g] = pc[g],
         \A e \in D : callback[e] # None /\ pc'[callback[e]] \in Handed /\ callback[e] \notin copies',
         \A e \in D : \A i \in 1..Len(layerQueue) : layerQueue[i] # e,
         \A g \in copies' : pc'[g] = "end" /\ (g \in copies \/ pc[g] \in Thread),
         last' \in {last, None}, lastGL' \in {lastGL, last, None},
         last' # None => last' \notin D /\ last' # lastGL',
         lastGL' # None => lastGL' \notin D /\ holder' # None,
         \A e \in {last, lastGL} \ {None} : e \in D \cup {last', lastGL'},
         \A g \in Frames : pc[g] \in Thread /\ pc'[g] \in Handed => drawable[g] \in D \/ g \in copies',
         \A g \in copies \ copies' : drawable[g] \in D
  PROVE  IInv'
<1>1. TypeOK /\ SerialsOK /\ OneUser /\ FramesOK /\ CallbacksOK /\ QueueOK /\ LastOK /\ KeptSomewhere
      /\ ExportsOK /\ GLShowsOwnExport
  BY DEF IInv
<1>2. ASSUME NEW g \in copies' PROVE g \in Frames /\ pc'[g] = "end" /\ callback[drawable[g]] = g
  <2>1. g \in Frames /\ FrameOK(g) /\ MovesOn(g)
    BY <1>1 DEF TypeOK, FramesOK
  <2>2. CASE g \in copies
    BY <2>1, <2>2 DEF FrameOK
  <2>3. CASE pc[g] \in Thread
    BY <2>1, <2>3 DEF FrameOK
  <2> QED BY <2>2, <2>3
<1>3. OneUser' /\ FramesOK' /\ CallbacksOK'
  BY <1>1, <1>2, EndKeeps
<1>4. QueueOK' /\ LastOK' /\ KeptSomewhere' /\ GLShowsOwnExport'
  <2>1. \A g \in copies' \ copies : pc[g] \in Thread
    OBVIOUS
  <2>2. \A i \in 1..Len(layerQueue) : layerQueue[i] \notin D /\ queuedSerial'[layerQueue[i]] = queuedSerial[layerQueue[i]]
    OBVIOUS
  <2> QED BY <1>1, <2>1, <2>2, PlacesKeep
<1>5. SerialsOK' /\ ExportsOK'
  <2>1. ASSUME NEW g \in Frames, pc'[g] = "enqueued" PROVE queuedSerial'[drawable[g]] = serial[g]
    BY <1>1, <2>1 DEF ExportsOK
  <2> QED BY <1>1, <2>1, SerialsKeep, ExportsKeep
<1> QED BY <1>3, <1>4, <1>5 DEF IInv

\* startVulkanPresentation changes the route and no drawable.
LEMMA StartVulkanPresentationKeeps ==
  ASSUME IInv, NEW f \in Frames, StartVulkanPresentation(f)
  PROVE  IInv'
<1>1. TypeOK /\ FramesOK /\ LastOK
  BY DEF IInv
<1>2. pc[f] = "starting" /\ Goto(f, "end")
  BY DEF StartVulkanPresentation
<1>3. /\ UNCHANGED <<drawable, texture, serial, nextSerial, layerQueue, semaphore, export, queuedSerial>>
      /\ UNCHANGED <<callback, released, last, newest, holder, lastGL, copies, hud, toggles>>
  BY DEF StartVulkanPresentation, drawableVars, layerVars, envVars
<1>4. /\ pc' \in [Frames -> Pcs] /\ pc'[f] = "end"
      /\ \A g \in Frames : MovesOn(g) /\ (g # f => pc'[g] = pc[g])
  <2>1. "end" \in Pcs /\ pc[f] \in Handed /\ "end" \in Handed
    BY <1>2 DEF Pcs, Handed
  <2> QED BY <1>1, <1>2, <2>1, ThreadGoes
<1>5. TypeOK'
  <2>1. FrameTypes' /\ DrawableTypes' /\ LayerTypes' /\ EnvTypes'
    BY <1>1, <1>3, <1>4, TypeParts DEF FrameTypes, DrawableTypes, LayerTypes, EnvTypes
  <2>2. RouteTypes'
    BY <1>1, <1>3, TypeParts DEF RouteTypes, StartVulkanPresentation
  <2>3. WindowTypes'
    BY <1>1, TypeParts
    DEF WindowTypes, StartVulkanPresentation, flagVars, handoffVars, browserVars, contentVars
  <2> QED BY <2>1, <2>2, <2>3, TypeParts
<1>6. \A g \in Frames : MovesOn(g) /\ (pc'[g] = "copying" <=> holder' = g)
  BY <1>1, <1>2, <1>3, <1>4 DEF FramesOK, FrameOK
<1>7. \A g \in Frames : pc[g] \in Thread /\ pc'[g] \in Handed => FALSE
  BY <1>2, <1>4 DEF Thread, Handed
<1>8. Ends({})
  BY <1>3, NoneEnds
<1>9. (last # None => last # lastGL) /\ (lastGL # None => holder # None)
  BY <1>1 DEF LastOK
<1>10. \A g \in Frames : pc'[g] \in {"gl", "enqueued"} => pc'[g] = pc[g]
  BY <1>4
<1>11. \A g \in copies' : pc'[g] = "end"
  BY <1>1, <1>3, <1>4 DEF TypeOK, FramesOK, FrameOK
<1> QED BY <1>3, <1>5, <1>6, <1>7, <1>8, <1>9, <1>10, <1>11, RouteStepKeeps

\* presentVulkan gives the frame back: it is stale, or the route has changed.
LEMMA VulkanDropKeeps ==
  ASSUME IInv, NEW f \in Frames, VulkanDrop(f)
  PROVE  IInv'
<1>1. TypeOK /\ FramesOK /\ CallbacksOK /\ QueueOK /\ LastOK
  BY DEF IInv
<1>2. pc[f] = "vulkan" /\ pc[f] \in Thread /\ Goto(f, "end") /\ holder = None
  BY DEF VulkanDrop, Thread
<1>3. PICK d \in Drawables : d = drawable[f] /\ callback[d] = f
  BY <1>2, HoldsAlone
<1>4. /\ f # None /\ d # None /\ d # last /\ d # lastGL /\ None \notin Drawables
      /\ \A i \in 1..Len(layerQueue) : layerQueue[i] # d
  BY <1>2, <1>3, HoldsAlone
<1>5. /\ UNCHANGED <<drawable, texture, serial, nextSerial, layerQueue, semaphore, export, queuedSerial>>
      /\ UNCHANGED <<presenter, glAttached, newest, holder, lastGL, copies, hud, toggles>>
  BY DEF VulkanDrop, envVars
<1>6. /\ pc' \in [Frames -> Pcs] /\ pc'[f] = "end"
      /\ \A g \in Frames : MovesOn(g) /\ (g # f => pc'[g] = pc[g])
  <2>1. "end" \in Pcs /\ "end" \in Handed
    BY DEF Pcs, Handed
  <2> QED BY <1>1, <1>2, <2>1, ThreadGoes
<1>7. lastGL = None
  BY <1>1, <1>2 DEF LastOK
<1>8. PICK D : /\ DidEnd(D) /\ d \in D /\ D \subseteq {d, last} \ {None}
               /\ \/ D = {d} /\ last' = last
                  \/ D = {d, last} \ {None} /\ last' = None
  BY <1>3, <1>4 DEF VulkanDrop
<1>9. last \in Handle(Drawables)
  BY <1>1 DEF TypeOK
<1>10. D \subseteq Drawables /\ Ends(D) /\ callback' \in [Drawables -> Handle(Frames)] /\ released' \in [Frames -> Nat]
  <2>1. D \subseteq Drawables
    BY <1>8, <1>9 DEF Handle
  <2> QED BY <1>1, <1>8, <2>1, DidEndFacts
<1>11. TypeOK'
  <2>1. FrameTypes' /\ EnvTypes'
    BY <1>1, <1>5, <1>6, TypeParts DEF FrameTypes, EnvTypes
  <2>2. DrawableTypes' /\ LayerTypes'
    BY <1>1, <1>5, <1>8, <1>10, TypeParts DEF DrawableTypes, LayerTypes, Handle
  <2>3. RouteTypes'
    BY <1>1, <1>5, TypeParts DEF RouteTypes, VulkanDrop
  <2>4. WindowTypes'
    BY <1>1, TypeParts
    DEF WindowTypes, VulkanDrop, DeferHide, windowVars, flagVars, handoffVars, browserVars, contentVars
  <2> QED BY <2>1, <2>2, <2>3, <2>4, TypeParts
<1>12. \A g \in Frames : MovesOn(g) /\ (pc'[g] = "copying" <=> holder' = g)
  BY <1>1, <1>2, <1>5, <1>6 DEF FramesOK, FrameOK
<1>13. ASSUME NEW e \in D
       PROVE  /\ callback[e] # None /\ pc'[callback[e]] \in Handed /\ callback[e] \notin copies'
              /\ \A i \in 1..Len(layerQueue) : layerQueue[i] # e
  <2>1. CASE e = d
    BY <1>1, <1>2, <1>3, <1>4, <1>5, <1>6, <2>1 DEF FramesOK, FrameOK, Handed
  <2>2. CASE e = last /\ last # None
    <3>1. Kept(e) /\ e \in Drawables
      BY <1>1, <1>9, <2>2 DEF LastOK, Handle
    <3>2. PICK g : g = callback[e]
      OBVIOUS
    <3>3. g \in Frames /\ g # None /\ pc[g] \in Handed /\ g \notin copies
      BY <1>1, <3>1, <3>2 DEF Kept, TypeOK, Handle
    <3>4. pc'[g] \in Handed
      BY <1>6, <3>3 DEF MovesOn, Thread, Handed
    <3>5. \A i \in 1..Len(layerQueue) : layerQueue[i] # e
      BY <1>1, <2>2 DEF QueueOK
    <3> QED BY <1>5, <3>2, <3>3, <3>4, <3>5
  <2> QED BY <1>8, <2>1, <2>2
<1>14. \A g \in Frames : pc[g] \in Thread /\ pc'[g] \in Handed => drawable[g] \in D
  BY <1>3, <1>6, <1>8 DEF Thread, Handed
<1>15. \A g \in Frames : pc'[g] \in {"gl", "enqueued"} => pc'[g] = pc[g]
  BY <1>6
<1>16. /\ last' \in {last, None} /\ (last' # None => last' \notin D /\ last' # lastGL')
       /\ \A e \in {last, lastGL} \ {None} : e \in D \cup {last', lastGL'}
  BY <1>4, <1>5, <1>7, <1>8
<1>17. \A g \in copies' : pc'[g] = "end"
  BY <1>1, <1>5, <1>6 DEF TypeOK, FramesOK, FrameOK
<1> QED BY <1>5, <1>7, <1>10, <1>11, <1>12, <1>13, <1>14, <1>15, <1>16, <1>17, RouteStepKeeps

\* The takeover moves the drawable GL shows into the hands of the presenter.
LEMMA VulkanTakeoverKeeps ==
  ASSUME IInv, NEW f \in Frames, VulkanTakeover(f)
  PROVE  IInv'
<1>1. TypeOK /\ FramesOK /\ LastOK
  BY DEF IInv
<1>2. pc[f] = "vulkan" /\ pc[f] \in Thread /\ Goto(f, "copying") /\ holder = None /\ f # None
  BY PresentationAssumption DEF VulkanTakeover, Thread
<1>3. /\ UNCHANGED <<drawable, texture, serial, nextSerial, layerQueue, semaphore, export, queuedSerial>>
      /\ UNCHANGED <<callback, released, vulkan, presenter, glAttached, newest, copies, hud, toggles>>
      /\ holder' = f /\ lastGL' = last /\ last' = None
  BY DEF VulkanTakeover, drawableVars, envVars
<1>4. /\ pc' \in [Frames -> Pcs] /\ pc'[f] = "copying"
      /\ \A g \in Frames : MovesOn(g) /\ (g # f => pc'[g] = pc[g])
  <2>1. "copying" \in Pcs /\ "copying" \in Thread
    BY DEF Pcs, Thread
  <2> QED BY <1>1, <1>2, <2>1, ThreadGoes
<1>5. TypeOK'
  <2>1. FrameTypes' /\ DrawableTypes' /\ EnvTypes'
    BY <1>1, <1>3, <1>4, TypeParts DEF FrameTypes, DrawableTypes, EnvTypes
  <2>2. LayerTypes' /\ RouteTypes'
    BY <1>1, <1>3, TypeParts DEF LayerTypes, RouteTypes, Handle
  <2>3. WindowTypes'
    BY <1>1, TypeParts
    DEF WindowTypes, VulkanTakeover, Takeover, flagVars, handoffVars, browserVars, contentVars
  <2> QED BY <2>1, <2>2, <2>3, TypeParts
<1>6. \A g \in Frames : MovesOn(g) /\ (pc'[g] = "copying" <=> holder' = g)
  BY <1>1, <1>2, <1>3, <1>4, PresentationAssumption DEF FramesOK, FrameOK
<1>7. \A g \in Frames : pc[g] \in Thread /\ pc'[g] \in Handed => FALSE
  BY <1>2, <1>4 DEF Thread, Handed
<1>8. Ends({})
  BY <1>3, NoneEnds
<1>9. lastGL = None
  BY <1>1, <1>2 DEF LastOK
<1>10. \A g \in Frames : pc'[g] \in {"gl", "enqueued"} => pc'[g] = pc[g]
  BY <1>4
<1>11. \A g \in copies' : pc'[g] = "end"
  BY <1>1, <1>2, <1>3, <1>4 DEF TypeOK, FramesOK, FrameOK
<1> QED BY <1>2, <1>3, <1>5, <1>6, <1>7, <1>8, <1>9, <1>10, <1>11, RouteStepKeeps

\* presentVulkan's end: GL's last drawable is given back; the frame's own is
\* too, or its copy's completion will.
LEMMA VulkanFinishKeeps ==
  ASSUME IInv, NEW f \in Frames, VulkanFinish(f)
  PROVE  IInv'
<1>1. TypeOK /\ FramesOK /\ CallbacksOK /\ QueueOK /\ LastOK
  BY DEF IInv
<1>2. pc[f] = "copying" /\ pc[f] \in Thread /\ Goto(f, "end")
  BY DEF VulkanFinish, Thread
<1>3. PICK d \in Drawables : d = drawable[f] /\ callback[d] = f
  BY <1>2, HoldsAlone
<1>4. /\ f # None /\ d # None /\ d # last /\ d # lastGL /\ None \notin Drawables
      /\ \A i \in 1..Len(layerQueue) : layerQueue[i] # d
  BY <1>2, <1>3, HoldsAlone
<1>5. /\ UNCHANGED <<drawable, texture, serial, nextSerial, layerQueue, semaphore, export, queuedSerial>>
      /\ UNCHANGED <<last, hud, toggles>> /\ holder' = None /\ lastGL' = None
  BY DEF VulkanFinish, layerVars, envVars
<1>6. holder = f /\ f \notin copies
  BY <1>1, <1>2 DEF FramesOK, FrameOK
<1>7. /\ pc' \in [Frames -> Pcs] /\ pc'[f] = "end"
      /\ \A g \in Frames : MovesOn(g) /\ (g # f => pc'[g] = pc[g])
  <2>1. "end" \in Pcs /\ "end" \in Handed
    BY DEF Pcs, Handed
  <2> QED BY <1>1, <1>2, <2>1, ThreadGoes
<1>8. PICK D : /\ DidEnd(D)
               /\ \/ D = {lastGL} \ {None} /\ copies' = copies \cup {f}
                  \/ D = {lastGL, d} \ {None} /\ copies' = copies
  <2>1. CASE VulkanPresented(f)
    BY <2>1 DEF VulkanPresented
  <2>2. CASE \E result \in Results \cap {"Failed", "Lost"} : VulkanBroken(f, result)
    <3>1. PICK result \in {"Failed", "Lost"} : VulkanBroken(f, result)
      BY <2>2
    <3>2. CASE result = "Failed"
      <4>1. ({lastGL} \cup IF result = "Failed" THEN {drawable[f]} ELSE {}) = {lastGL, d}
        BY <1>3, <3>2
      <4> QED BY <3>1, <3>2, <4>1 DEF VulkanBroken
    <3>3. CASE result = "Lost"
      <4>1. ({lastGL} \cup IF result = "Failed" THEN {drawable[f]} ELSE {}) = {lastGL}
        BY <3>3
      <4> QED BY <3>1, <3>3, <4>1 DEF VulkanBroken
    <3> QED BY <3>1, <3>2, <3>3
  <2>3. CASE DidEnd({lastGL, drawable[f]} \ {None}) /\ UNCHANGED copies
    BY <1>3, <2>3
  <2> QED BY <2>1, <2>2, <2>3 DEF VulkanFinish
<1>9. lastGL \in Handle(Drawables) /\ last \in Handle(Drawables)
  BY <1>1 DEF TypeOK
<1>10. D \subseteq Drawables /\ Ends(D) /\ callback' \in [Drawables -> Handle(Frames)] /\ released' \in [Frames -> Nat]
  <2>1. D \subseteq Drawables
    BY <1>8, <1>9 DEF Handle
  <2> QED BY <1>1, <1>8, <2>1, DidEndFacts
<1>11. TypeOK'
  <2>1. FrameTypes' /\ EnvTypes'
    BY <1>1, <1>5, <1>7, TypeParts DEF FrameTypes, EnvTypes
  <2>2. DrawableTypes' /\ LayerTypes'
    BY <1>1, <1>5, <1>10, TypeParts DEF DrawableTypes, LayerTypes, Handle
  <2>3. serial[f] \in Serials
    BY <1>1, TypeParts DEF FrameTypes
  <2>4. RouteTypes'
    <3>1. copies' \subseteq Frames /\ holder' \in Handle(Frames)
      BY <1>1, <1>5, <1>8, TypeParts DEF RouteTypes, Handle
    <3>2. vulkan' \in BOOLEAN /\ presenter' \in {"none", "live", "unavailable"} /\ glAttached' \in BOOLEAN /\ newest' \in Serials
      BY <1>1, <2>3, TypeParts DEF RouteTypes, VulkanFinish, VulkanPresented, VulkanBroken
    <3> QED BY <3>1, <3>2 DEF RouteTypes
  <2>5. WindowTypes'
    BY <1>1, <2>3, TypeParts
    DEF WindowTypes, VulkanFinish, VulkanPresented, VulkanBroken, DeferHide, RetireGL, Unobstructed,
        flagVars, handoffVars, browserVars, contentVars
  <2> QED BY <2>1, <2>2, <2>4, <2>5, TypeParts
<1>12. \A g \in Frames : MovesOn(g) /\ (pc'[g] = "copying" <=> holder' = g)
  BY <1>1, <1>4, <1>5, <1>6, <1>7, PresentationAssumption DEF FramesOK, FrameOK
<1>13. ASSUME NEW e \in D
       PROVE  /\ callback[e] # None /\ pc'[callback[e]] \in Handed /\ callback[e] \notin copies'
              /\ \A i \in 1..Len(layerQueue) : layerQueue[i] # e
  <2>1. CASE e = d
    <3>1. copies' = copies
      BY <1>4, <1>8, <2>1
    <3> QED BY <1>3, <1>4, <1>6, <1>7, <2>1, <3>1 DEF Handed
  <2>2. CASE e = lastGL /\ lastGL # None
    <3>1. Kept(e) /\ e \in Drawables
      BY <1>1, <1>9, <2>2 DEF LastOK, Handle
    <3>2. PICK g : g = callback[e]
      OBVIOUS
    <3>3. g \in Frames /\ g # None /\ pc[g] \in Handed /\ g \notin copies
      BY <1>1, <3>1, <3>2 DEF Kept, TypeOK, Handle
    <3>4. pc'[g] \in Handed /\ g # f
      BY <1>2, <1>7, <3>3 DEF MovesOn, Thread, Handed
    <3>5. \A i \in 1..Len(layerQueue) : layerQueue[i] # e
      BY <1>1, <2>2 DEF QueueOK
    <3> QED BY <1>8, <3>2, <3>3, <3>4, <3>5
  <2> QED BY <1>8, <2>1, <2>2
<1>14. \A g \in Frames : pc[g] \in Thread /\ pc'[g] \in Handed => drawable[g] \in D \/ g \in copies'
  BY <1>3, <1>4, <1>7, <1>8 DEF Thread, Handed
<1>15. \A g \in Frames : pc'[g] \in {"gl", "enqueued"} => pc'[g] = pc[g]
  BY <1>7
<1>16. /\ last' # None => last' \notin D /\ last' # lastGL'
       /\ \A e \in {last, lastGL} \ {None} : e \in D \cup {last', lastGL'}
  BY <1>1, <1>4, <1>5, <1>8 DEF LastOK
<1>17. ASSUME NEW g \in copies' PROVE pc'[g] = "end" /\ (g \in copies \/ pc[g] \in Thread)
  BY <1>1, <1>2, <1>7, <1>8 DEF TypeOK, FramesOK, FrameOK
<1>18. copies \subseteq copies'
  BY <1>8
<1> QED BY <1>5, <1>10, <1>11, <1>12, <1>13, <1>14, <1>15, <1>16, <1>17, <1>18, RouteStepKeeps

\* The completion of a copy gives the frame's drawable back.
LEMMA CopyCompletedKeeps ==
  ASSUME IInv, NEW f \in Frames, CopyCompleted(f)
  PROVE  IInv'
<1>1. TypeOK /\ FramesOK /\ CallbacksOK /\ LastOK
  BY DEF IInv
<1>2. f \in copies /\ copies' = copies \ {f}
  BY DEF CopyCompleted
<1>3. PICK d \in Drawables : d = drawable[f] /\ callback[d] = f
  BY <1>2, HoldsAlone
<1>4. /\ f # None /\ d # None /\ d # last /\ d # lastGL
      /\ \A i \in 1..Len(layerQueue) : layerQueue[i] # d
  BY <1>2, <1>3, HoldsAlone
<1>5. /\ UNCHANGED <<drawable, texture, serial, nextSerial, layerQueue, semaphore, export, queuedSerial>>
      /\ UNCHANGED <<windowVars, pc, last, vulkan, presenter, glAttached, newest, holder, lastGL, hud, toggles>>
  BY DEF CopyCompleted, frameVars, layerVars, envVars
<1>6. {d} \subseteq Drawables /\ Ends({d}) /\ callback' \in [Drawables -> Handle(Frames)] /\ released' \in [Frames -> Nat]
  <2>1. DidEnd({d}) /\ {d} \subseteq Drawables
    BY <1>3 DEF CopyCompleted
  <2> QED BY <1>1, <2>1, DidEndFacts
<1>7. TypeOK'
  <2>1. FrameTypes' /\ EnvTypes' /\ DrawableTypes' /\ LayerTypes'
    BY <1>1, <1>5, <1>6, TypeParts DEF FrameTypes, EnvTypes, DrawableTypes, LayerTypes
  <2>2. RouteTypes'
    BY <1>1, <1>2, <1>5, TypeParts DEF RouteTypes
  <2>3. WindowTypes'
    BY <1>1, <1>5, TypeParts DEF WindowTypes, windowVars, flagVars, handoffVars, browserVars, contentVars
  <2> QED BY <2>1, <2>2, <2>3, TypeParts
<1>8. \A g \in Frames : MovesOn(g) /\ (pc'[g] = "copying" <=> holder' = g)
  BY <1>1, <1>5 DEF FramesOK, FrameOK, MovesOn
<1>9. pc[f] = "end" /\ \A g \in copies' : pc'[g] = "end"
  BY <1>1, <1>2, <1>5 DEF TypeOK, FramesOK, FrameOK
<1>10. \A g \in Frames : ~(pc[g] \in Thread /\ pc'[g] \in Handed)
  BY <1>5 DEF Thread, Handed
<1>11. (last # None => last # lastGL) /\ (lastGL # None => holder # None)
  BY <1>1 DEF LastOK
<1>12. callback[d] # None /\ pc'[callback[d]] \in Handed /\ callback[d] \notin copies'
  BY <1>2, <1>3, <1>4, <1>5, <1>9 DEF Handed
<1>13. \A g \in copies \ copies' : drawable[g] \in {d}
  BY <1>2, <1>3
<1> QED BY <1>2, <1>4, <1>5, <1>6, <1>7, <1>8, <1>9, <1>10, <1>11, <1>12, <1>13, RouteStepKeeps

\* queuePresent: the drawable goes to the layer's queue with its export.
LEMMA QueuePresentKeeps ==
  ASSUME IInv, NEW f \in Frames, QueuePresent(f)
  PROVE  IInv'
<1>1. TypeOK /\ SerialsOK /\ OneUser /\ FramesOK /\ CallbacksOK /\ QueueOK /\ LastOK /\ KeptSomewhere
      /\ ExportsOK /\ GLShowsOwnExport
  BY DEF IInv
<1>2. pc[f] = "enqueued" /\ pc[f] \in Thread
  BY DEF QueuePresent, Thread
<1>3. PICK d \in Drawables : d = drawable[f] /\ callback[d] = f
  BY <1>2, HoldsAlone
<1>4. f # None /\ d # None /\ d # last /\ d # lastGL /\ \A i \in 1..Len(layerQueue) : layerQueue[i] # d
  BY <1>2, <1>3, HoldsAlone
<1>5. /\ UNCHANGED <<windowVars, drawable, serial, nextSerial, texture, callback, queuedSerial, released, last>>
      /\ UNCHANGED <<vulkan, presenter, glAttached, newest, holder, lastGL, copies, hud, toggles>>
  BY DEF QueuePresent, routeVars, envVars
<1>6. PICK to \in {"end", "starting"} : Goto(f, to)
  BY DEF QueuePresent
<1>7. /\ pc' \in [Frames -> Pcs] /\ pc'[f] = to
      /\ \A g \in Frames : MovesOn(g) /\ (g # f => pc'[g] = pc[g])
  <2>1. to \in Pcs /\ to \in Handed
    BY DEF Pcs, Handed
  <2> QED BY <1>1, <1>2, <1>6, <2>1, ThreadGoes
<1>8. /\ export[f] = f /\ queuedSerial[d] = serial[f]
      /\ export' \in [Frames -> Handle(Frames)] /\ export'[f] = None /\ \A g \in Frames \ {f} : export'[g] = export[g]
      /\ semaphore' \in [Drawables -> Handle(Frames)] /\ semaphore'[d] = f
      /\ \A e \in Drawables \ {d} : semaphore'[e] = semaphore[e]
  <2>1. export[f] = f /\ queuedSerial[d] = serial[f]
    BY <1>1, <1>2, <1>3 DEF ExportsOK
  <2>2. export \in [Frames -> Handle(Frames)] /\ semaphore \in [Drawables -> Handle(Frames)]
    BY <1>1 DEF TypeOK
  <2> QED BY <1>3, <2>1, <2>2 DEF QueuePresent, Handle
<1>9. Ends({})
  BY <1>5, NoneEnds
<1>10. /\ layerQueue \in Seq(Drawables) /\ layerQueue' \in Seq(Drawables) /\ Len(layerQueue) \in Nat
       /\ Len(layerQueue') = Len(layerQueue) + 1 /\ layerQueue'[Len(layerQueue) + 1] = d
       /\ \A i \in 1..Len(layerQueue) : layerQueue'[i] = layerQueue[i]
  <2>1. layerQueue \in Seq(Drawables) /\ layerQueue' = Append(layerQueue, d)
    BY <1>1, <1>3 DEF TypeOK, QueuePresent
  <2> QED BY <2>1, AppendProperties, LenProperties
<1>11. ASSUME NEW i \in 1..Len(layerQueue')
       PROVE  \/ i \in 1..Len(layerQueue) /\ layerQueue'[i] = layerQueue[i] /\ layerQueue[i] # d
              \/ i = Len(layerQueue) + 1 /\ layerQueue'[i] = d
  BY <1>4, <1>10
<1>12. \A i, j \in 1..Len(layerQueue') : layerQueue'[i] = layerQueue'[j] => i = j
  BY <1>1, <1>11 DEF QueueOK
<1>13. TypeOK'
  <2>1. FrameTypes' /\ RouteTypes' /\ EnvTypes'
    BY <1>1, <1>5, <1>7, <1>8, TypeParts DEF FrameTypes, RouteTypes, EnvTypes
  <2>2. DrawableTypes' /\ WindowTypes'
    BY <1>1, <1>5, <1>8, TypeParts
    DEF DrawableTypes, WindowTypes, windowVars, flagVars, handoffVars, browserVars, contentVars
  <2>3. PICK q \in Seq(Drawables) : q = layerQueue'
    BY <1>10
  <2>4. Len(q) <= Cardinality(Drawables)
    BY <1>12, <2>3, QueueRoom
  <2>5. LayerTypes'
    BY <1>1, <1>5, <2>3, <2>4, TypeParts DEF LayerTypes
  <2> QED BY <2>1, <2>2, <2>5, TypeParts
<1>14. f \notin copies
  BY <1>1, <1>2 DEF FramesOK, FrameOK
<1>15. OneUser' /\ FramesOK' /\ CallbacksOK'
  <2>1. \A g \in Frames : pc'[g] = "copying" <=> holder' = g
    BY <1>1, <1>2, <1>5, <1>7 DEF FramesOK, FrameOK
  <2>2. \A g \in copies' : g \in Frames /\ pc'[g] = "end" /\ callback[drawable[g]] = g
    BY <1>1, <1>2, <1>5, <1>7 DEF TypeOK, FramesOK, FrameOK
  <2> QED BY <1>1, <1>5, <1>7, <1>9, <2>1, <2>2, EndKeeps
<1>16. ASSUME NEW e \in Drawables
       PROVE  /\ Kept(e) => Kept(e)'
              /\ Kept(e)' => Kept(e) \/ e = d
  <2>1. Kept(e) => Kept(e)'
    BY <1>1, <1>5, <1>7, <1>9, KeptMoves
  <2>2. Kept(e)' => Kept(e) \/ pc[callback[e]] \in Thread \/ callback[e] \in copies \ copies'
    BY <1>1, <1>5, <1>7, <1>9, KeptMoves
  <2>3. Kept(e)' => callback[e] \in Frames /\ drawable[callback[e]] = e /\ pc'[callback[e]] \in Handed
    BY <1>1, <1>5, <1>7, <1>9, KeptMoves
  <2>4. Kept(e)' /\ pc[callback[e]] \in Thread => callback[e] = f
    BY <1>7, <2>3 DEF Thread, Handed
  <2> QED BY <1>3, <1>5, <2>1, <2>2, <2>3, <2>4
<1>17. Kept(d)'
  BY <1>3, <1>4, <1>5, <1>7, <1>14 DEF Kept, Handed
<1>18. QueueOK'
  <2>1. ASSUME NEW i \in 1..Len(layerQueue')
        PROVE  /\ Kept(layerQueue[i])' /\ layerQueue'[i] # last' /\ layerQueue'[i] # lastGL'
               /\ \A j \in 1..Len(layerQueue') : layerQueue'[j] = layerQueue'[i] => j = i
    <3>1. PICK e \in Drawables : e = layerQueue'[i]
      BY <1>10, ElementOfSeq
    <3>2. Kept(e)' /\ e # last' /\ e # lastGL'
      <4>1. CASE e = d
        BY <1>4, <1>5, <1>17, <4>1
      <4>2. CASE i \in 1..Len(layerQueue) /\ e = layerQueue[i]
        <5>1. Kept(e) /\ e # last /\ e # lastGL
          BY <1>1, <4>2 DEF QueueOK
        <5> QED BY <1>5, <1>16, <5>1
      <4> QED BY <1>11, <3>1, <4>1, <4>2
    <3> QED BY <1>12, <3>1, <3>2 DEF Kept
  <2> QED BY <2>1 DEF QueueOK
<1>19. LastOK'
  <2>1. last \in Handle(Drawables) /\ lastGL \in Handle(Drawables)
    BY <1>1 DEF TypeOK
  <2>2. ASSUME last' # None PROVE Kept(last)' /\ last' # lastGL'
    <3>1. PICK e \in Drawables : e = last
      BY <1>5, <2>1, <2>2 DEF Handle
    <3>2. Kept(e)' /\ e # lastGL
      BY <1>1, <1>5, <1>16, <2>2, <3>1 DEF LastOK
    <3> QED BY <1>5, <3>1, <3>2 DEF Kept
  <2>3. ASSUME lastGL' # None PROVE Kept(lastGL)' /\ holder' # None
    <3>1. PICK e \in Drawables : e = lastGL
      BY <1>5, <2>1, <2>3 DEF Handle
    <3>2. Kept(e)' /\ holder # None
      BY <1>1, <1>5, <1>16, <2>3, <3>1 DEF LastOK
    <3> QED BY <1>5, <3>1, <3>2 DEF Kept
  <2> QED BY <2>2, <2>3 DEF LastOK
<1>20. KeptSomewhere'
  <2>1. ASSUME NEW e \in Drawables, Kept(e)' PROVE Queued(e)' \/ last' = e \/ lastGL' = e
    <3>1. CASE e = d
      <4>1. Len(layerQueue) + 1 \in 1..Len(layerQueue')
        BY <1>10
      <4> QED BY <1>10, <3>1, <4>1 DEF Queued
    <3>2. CASE Kept(e) /\ Queued(e)
      <4>1. PICK i \in 1..Len(layerQueue) : layerQueue[i] = e
        BY <3>2 DEF Queued
      <4>2. i \in 1..Len(layerQueue') /\ layerQueue'[i] = e
        BY <1>10, <4>1
      <4> QED BY <4>2 DEF Queued
    <3>3. CASE Kept(e) /\ (last = e \/ lastGL = e)
      BY <1>5, <3>3
    <3> QED BY <1>1, <1>16, <2>1, <3>1, <3>2, <3>3 DEF KeptSomewhere
  <2> QED BY <2>1 DEF KeptSomewhere
<1>21. GLShowsOwnExport'
  <2>1. ASSUME NEW i \in 1..Len(layerQueue')
        PROVE  /\ callback'[layerQueue'[i]] # None /\ semaphore'[layerQueue'[i]] = callback'[layerQueue'[i]]
               /\ queuedSerial'[layerQueue'[i]] = serial'[callback'[layerQueue'[i]]]
    <3>1. CASE layerQueue'[i] = d
      BY <1>3, <1>4, <1>5, <1>8, <3>1
    <3>2. CASE i \in 1..Len(layerQueue) /\ layerQueue'[i] = layerQueue[i] /\ layerQueue[i] # d
      <4>1. layerQueue[i] \in Drawables
        BY <1>10, <3>2, ElementOfSeq
      <4> QED BY <1>1, <1>5, <1>8, <3>2, <4>1 DEF GLShowsOwnExport
    <3> QED BY <1>11, <3>1, <3>2
  <2> QED BY <2>1 DEF GLShowsOwnExport
<1>22. SerialsOK'
  BY <1>1, <1>5, <1>7, SerialsKeep
<1>23. ExportsOK'
  <2>1. \A g \in Frames : pc'[g] \in {"gl", "enqueued"} => pc[g] \in {"gl", "enqueued"}
    BY <1>7
  <2>2. \A g \in Frames : pc'[g] = "enqueued" => queuedSerial'[drawable[g]] = serial[g]
    BY <1>1, <1>5, <1>7 DEF ExportsOK
  <2>3. \A g \in Frames : \/ export'[g] = export[g]
                          \/ export'[g] = None /\ pc'[g] \in Handed
    BY <1>7, <1>8 DEF Handed
  <2> QED BY <1>1, <1>5, <1>7, <2>1, <2>2, <2>3, ExportsKeep
<1> QED BY <1>13, <1>15, <1>18, <1>19, <1>20, <1>21, <1>22, <1>23 DEF IInv

-----------------------------------------------------------------------------
(* The main thread *)

\* trackb_prepare_render drops the stale drawables and gives back the last one;
\* the first fresh one takes its place.
LEMMA PrepareRenderKeeps ==
  ASSUME IInv, PrepareRender
  PROVE  IInv'
<1>1. TypeOK /\ SerialsOK /\ OneUser /\ FramesOK /\ CallbacksOK /\ QueueOK /\ LastOK /\ KeptSomewhere
      /\ ExportsOK /\ GLShowsOwnExport
  BY DEF IInv
<1>2. layerQueue \in Seq(Drawables) /\ Len(layerQueue) \in Nat /\ None \notin Drawables
  BY <1>1, PresentationAssumption, LenProperties DEF TypeOK
<1>3. PICK n \in 1..(Len(layerQueue) + 1) : n = FirstFresh
  BY <1>1, FirstFreshFacts
<1>4. PICK dropped : dropped = {layerQueue[i] : i \in 1..(n - 1)}
  OBVIOUS
<1>5. PICK fresh : fresh = (IF n <= Len(layerQueue) THEN {layerQueue[n]} ELSE {})
  OBVIOUS
<1>6. PICK D : D = dropped \cup ({last} \ {None})
  OBVIOUS
<1>7. /\ holder = None
      /\ layerQueue' = SubSeq(layerQueue, n + 1, Len(layerQueue))
      /\ queuedSerial' = [d \in Drawables |-> IF d \in dropped \cup fresh THEN 0 ELSE queuedSerial[d]]
      /\ last' = (IF n <= Len(layerQueue) THEN layerQueue[n] ELSE None)
      /\ DidEnd(D)
  BY <1>3, <1>4, <1>5, <1>6 DEF PrepareRender
<1>8. /\ UNCHANGED <<drawable, texture, serial, nextSerial, pc, semaphore, export>>
      /\ UNCHANGED <<vulkan, presenter, glAttached, holder, lastGL, copies, hud, toggles>>
  BY DEF PrepareRender, frameVars, envVars
<1>9. lastGL = None
  BY <1>1, <1>7 DEF LastOK
<1>10. \A i \in 1..Len(layerQueue) : layerQueue[i] \in Drawables
  BY <1>2, ElementOfSeq
<1>11. ASSUME NEW e \in dropped PROVE \E i \in 1..Len(layerQueue) : i < n /\ layerQueue[i] = e
  <2>1. PICK i \in 1..(n - 1) : layerQueue[i] = e
    BY <1>4, <1>11
  <2>2. i \in 1..Len(layerQueue) /\ i < n
    BY <1>2, <1>3
  <2> QED BY <2>1, <2>2
<1>12. D \subseteq Drawables /\ dropped \cup fresh \subseteq Drawables
  <2>1. dropped \subseteq Drawables
    BY <1>10, <1>11
  <2>2. fresh \subseteq Drawables
    BY <1>2, <1>3, <1>5, <1>10
  <2>3. {last} \ {None} \subseteq Drawables
    BY <1>1 DEF TypeOK, Handle
  <2> QED BY <1>6, <2>1, <2>2, <2>3
<1>13. Ends(D) /\ callback' \in [Drawables -> Handle(Frames)] /\ released' \in [Frames -> Nat]
  BY <1>1, <1>7, <1>12, DidEndFacts
<1>14. /\ layerQueue' \in Seq(Drawables) /\ Len(layerQueue') \in Nat /\ Len(layerQueue') <= Len(layerQueue)
       /\ \A i \in 1..Len(layerQueue') : n + i \in 1..Len(layerQueue) /\ layerQueue'[i] = layerQueue[n + i]
       /\ \A i \in 1..Len(layerQueue) : i > n => i - n \in 1..Len(layerQueue')
  <2>1. n + 1 \in Int /\ Len(layerQueue) \in Int /\ n + 1 >= 1
    BY <1>2, <1>3
  <2>2. Len(layerQueue') = IF n + 1 <= Len(layerQueue) THEN Len(layerQueue) - (n + 1) + 1 ELSE 0
    BY <1>2, <1>3, <1>7
  <2>3. Len(layerQueue') = IF n <= Len(layerQueue) THEN Len(layerQueue) - n ELSE 0
    BY <1>2, <1>3, <2>2
  <2>4. layerQueue' \in Seq(Drawables)
    BY <1>2, <1>7, <1>10, <2>1, SubSeqProperties
  <2>5. ASSUME NEW i \in 1..Len(layerQueue') PROVE n + i \in 1..Len(layerQueue) /\ layerQueue'[i] = layerQueue[n + i]
    <3>1. i \in 1..(Len(layerQueue) - n) /\ n + i \in 1..Len(layerQueue)
      BY <1>2, <1>3, <2>3
    <3>2. layerQueue'[i] = layerQueue[(n + 1) + i - 1]
      BY <1>2, <1>3, <1>7, <3>1
    <3>3. (n + 1) + i - 1 = n + i
      BY <1>3, <3>1
    <3> QED BY <3>1, <3>2, <3>3
  <2>6. ASSUME NEW i \in 1..Len(layerQueue), i > n PROVE i - n \in 1..Len(layerQueue')
    BY <1>2, <1>3, <2>3, <2>6
  <2>7. Len(layerQueue') \in Nat /\ Len(layerQueue') <= Len(layerQueue)
    BY <1>2, <1>3, <2>3
  <2> QED BY <2>4, <2>5, <2>6, <2>7
<1>15. ASSUME NEW i \in 1..Len(layerQueue), i > n
       PROVE  /\ layerQueue[i] \in Drawables /\ layerQueue[i] \notin D /\ layerQueue[i] \notin dropped \cup fresh
              /\ layerQueue[i] # last' /\ layerQueue[i] # lastGL'
  <2>1. layerQueue[i] \in Drawables /\ layerQueue[i] # last /\ layerQueue[i] # None
    BY <1>1, <1>2, <1>10 DEF QueueOK
  <2>2. layerQueue[i] \notin dropped
    <3>1. ASSUME NEW j \in 1..Len(layerQueue), j < n PROVE layerQueue[j] # layerQueue[i]
      BY <1>1, <1>3, <1>15, <3>1 DEF QueueOK
    <3> QED BY <1>11, <3>1
  <2>3. n <= Len(layerQueue) => n \in 1..Len(layerQueue) /\ n # i
    BY <1>2, <1>3, <1>15
  <2>4. n <= Len(layerQueue) => layerQueue[n] # layerQueue[i]
    BY <1>1, <2>3 DEF QueueOK
  <2> QED BY <1>5, <1>6, <1>7, <1>8, <1>9, <2>1, <2>2, <2>4
<1>16. /\ \A g \in Frames : MovesOn(g)
       /\ \A g \in copies' \ copies : pc[g] \in Thread
  BY <1>8 DEF MovesOn
<1>17. ASSUME NEW e \in D PROVE Kept(e) /\ e \in Drawables
  <2>1. CASE e \in dropped
    BY <1>1, <1>11, <1>12, <2>1 DEF QueueOK
  <2>2. CASE e = last /\ e # None
    BY <1>1, <1>12, <2>2 DEF LastOK
  <2> QED BY <1>6, <2>1, <2>2
<1>18. OneUser' /\ FramesOK' /\ CallbacksOK'
  <2>1. \A g \in Frames : pc'[g] = "copying" <=> holder' = g
    BY <1>1, <1>8 DEF FramesOK, FrameOK
  <2>2. \A g \in copies' : g \in Frames /\ pc'[g] = "end" /\ callback[drawable[g]] = g
    BY <1>1, <1>8 DEF TypeOK, FramesOK, FrameOK
  <2>3. \A e \in D : callback[e] # None /\ pc'[callback[e]] \in Handed /\ callback[e] \notin copies'
    BY <1>8, <1>17 DEF Kept
  <2> QED BY <1>1, <1>8, <1>12, <1>13, <1>16, <2>1, <2>2, <2>3, EndKeeps
<1>19. ASSUME NEW i \in 1..Len(layerQueue')
       PROVE  /\ Kept(layerQueue[i])' /\ layerQueue'[i] # last' /\ layerQueue'[i] # lastGL'
              /\ callback'[layerQueue'[i]] # None /\ semaphore'[layerQueue'[i]] = callback'[layerQueue'[i]]
              /\ queuedSerial'[layerQueue'[i]] = serial'[callback'[layerQueue'[i]]]
  <2>1. PICK k \in 1..Len(layerQueue) : k = n + i /\ k > n
    BY <1>3, <1>14
  <2>2. PICK e \in Drawables : e = layerQueue[k]
    BY <1>10
  <2>3. layerQueue'[i] = e
    BY <1>14, <2>1, <2>2
  <2>4. e \notin D /\ e \notin dropped \cup fresh /\ e # last' /\ e # lastGL'
    BY <1>15, <2>1, <2>2
  <2>5. Kept(e)
    BY <1>1, <2>2 DEF QueueOK
  <2>6. Kept(e)' /\ callback'[e] = callback[e]
    BY <1>1, <1>12, <1>13, <1>16, <2>4, <2>5, KeptMoves
  <2>7. callback[e] # None /\ semaphore[e] = callback[e] /\ queuedSerial[e] = serial[callback[e]]
    BY <1>1, <2>2 DEF GLShowsOwnExport
  <2>8. queuedSerial'[e] = queuedSerial[e]
    BY <1>7, <2>4
  <2> QED BY <1>8, <2>3, <2>4, <2>6, <2>7, <2>8 DEF Kept
<1>20. QueueOK'
  <2>1. ASSUME NEW i \in 1..Len(layerQueue'), NEW j \in 1..Len(layerQueue'), layerQueue'[j] = layerQueue'[i]
        PROVE  j = i
    <3>1. n + i \in 1..Len(layerQueue) /\ n + j \in 1..Len(layerQueue) /\ layerQueue[n + j] = layerQueue[n + i]
      BY <1>14, <2>1
    <3>2. n + j = n + i
      BY <1>1, <3>1 DEF QueueOK
    <3> QED BY <1>3, <1>14, <3>2
  <2> QED BY <1>19, <2>1 DEF QueueOK
<1>21. GLShowsOwnExport'
  BY <1>19 DEF GLShowsOwnExport
<1>22. LastOK'
  <2>1. ASSUME last' # None PROVE Kept(last)' /\ last' # lastGL'
    <3>1. n \in 1..Len(layerQueue) /\ last' = layerQueue[n]
      BY <1>2, <1>3, <1>7, <2>1
    <3>2. PICK e \in Drawables : e = layerQueue[n]
      BY <1>10, <3>1
    <3>3. Kept(e) /\ e # last
      BY <1>1, <3>1, <3>2 DEF QueueOK
    <3>4. ASSUME NEW j \in 1..Len(layerQueue), j < n PROVE layerQueue[j] # e
      BY <1>1, <3>1, <3>2, <3>4 DEF QueueOK
    <3>5. e \notin D
      BY <1>6, <1>11, <3>3, <3>4
    <3>6. Kept(e)'
      BY <1>1, <1>12, <1>13, <1>16, <3>3, <3>5, KeptMoves
    <3> QED BY <1>2, <1>8, <1>9, <3>1, <3>2, <3>6 DEF Kept
  <2> QED BY <1>8, <1>9, <2>1 DEF LastOK
<1>23. KeptSomewhere'
  <2>1. ASSUME NEW e \in Drawables, Kept(e)' PROVE Queued(e)' \/ last' = e \/ lastGL' = e
    <3>1. e \notin D /\ (Kept(e) \/ pc[callback[e]] \in Thread \/ callback[e] \in copies \ copies')
          /\ pc'[callback[e]] \in Handed /\ callback[e] \in Frames
      BY <1>1, <1>12, <1>13, <1>16, <2>1, KeptMoves
    <3>2. Kept(e)
      BY <1>8, <3>1 DEF Thread, Handed
    <3>3. last # e /\ lastGL # e
      BY <1>2, <1>6, <1>9, <3>1
    <3>4. PICK i \in 1..Len(layerQueue) : layerQueue[i] = e
      BY <1>1, <3>2, <3>3 DEF KeptSomewhere, Queued
    <3>5. ~(i < n)
      <4>1. i < n => i \in 1..(n - 1)
        BY <1>3
      <4> QED BY <1>4, <1>6, <3>1, <3>4, <4>1
    <3>6. CASE i = n
      BY <1>7, <3>4, <3>6
    <3>7. CASE i > n
      <4>1. i - n \in 1..Len(layerQueue')
        BY <1>14, <3>7
      <4>2. layerQueue'[i - n] = layerQueue[n + (i - n)]
        BY <1>14, <4>1
      <4>3. n + (i - n) = i
        BY <1>3
      <4>4. layerQueue'[i - n] = e
        BY <3>4, <4>2, <4>3
      <4> QED BY <4>1, <4>4 DEF Queued
    <3> QED BY <1>3, <3>5, <3>6, <3>7
  <2> QED BY <2>1 DEF KeptSomewhere
<1>24. TypeOK'
  <2>1. FrameTypes' /\ EnvTypes'
    BY <1>1, <1>8, TypeParts DEF FrameTypes, EnvTypes
  <2>2. queuedSerial \in [Drawables -> Serials]
    BY <1>1 DEF TypeOK
  <2>3. DrawableTypes'
    BY <1>1, <1>7, <1>8, <1>13, <2>2, Counts, TypeParts DEF DrawableTypes
  <2>4. last' \in Handle(Drawables)
    BY <1>2, <1>3, <1>7, <1>10 DEF Handle
  <2>5. LayerTypes'
    BY <1>1, <1>2, <1>8, <1>14, <2>4, Counts, TypeParts DEF LayerTypes
  <2>6. /\ newest' \in Serials /\ glTex' \in Serials
        /\ frameReady' \in BOOLEAN
    <3>1. n <= Len(layerQueue) => queuedSerial[layerQueue[n]] \in Serials
      BY <1>2, <1>3, <1>10, <2>2
    <3>2. newest \in Serials /\ glTex \in Serials /\ frameReady \in BOOLEAN
      BY <1>1 DEF TypeOK
    <3>3. CASE n <= Len(layerQueue)
      BY <1>3, <3>1, <3>3 DEF PrepareRender, GLFrameReady
    <3>4. CASE ~(n <= Len(layerQueue))
      BY <1>3, <3>2, <3>4 DEF PrepareRender
    <3> QED BY <3>3, <3>4
  <2>7. RouteTypes'
    BY <1>1, <1>8, <2>6, TypeParts DEF RouteTypes
  <2>8. WindowTypes'
    <3>1. UNCHANGED <<owns, hidePending, glHandoff, vkHandoff, current, browserVisible, surface, glBuf, vkBuf>>
      BY DEF PrepareRender, handoffVars, browserVars
    <3> QED BY <1>1, <2>6, <3>1, TypeParts DEF WindowTypes
  <2> QED BY <2>1, <2>3, <2>5, <2>7, <2>8, TypeParts
<1>25. SerialsOK'
  BY <1>1, <1>8, <1>16, SerialsKeep
<1>26. ExportsOK'
  <2>1. ASSUME NEW g \in Frames, pc'[g] = "enqueued" PROVE queuedSerial'[drawable[g]] = serial[g]
    <3>1. pc[g] = "enqueued" /\ pc[g] \in Thread
      BY <1>8, <2>1 DEF Thread
    <3>2. drawable[g] \in Drawables /\ \A i \in 1..Len(layerQueue) : layerQueue[i] # drawable[g]
      BY <3>1, HoldsAlone
    <3>3. drawable[g] \notin dropped
      BY <1>11, <3>2
    <3>4. drawable[g] \notin fresh
      <4>1. n <= Len(layerQueue) => n \in 1..Len(layerQueue)
        BY <1>2, <1>3
      <4> QED BY <1>5, <3>2, <4>1
    <3> QED BY <1>1, <1>7, <3>1, <3>2, <3>3, <3>4 DEF ExportsOK
  <2> QED BY <1>1, <1>8, <1>16, <2>1, ExportsKeep
<1> QED BY <1>18, <1>20, <1>21, <1>22, <1>23, <1>24, <1>25, <1>26 DEF IInv

-----------------------------------------------------------------------------
(* The steps of a frame before its thread presents it *)

\* They leave the places that keep drawables alone.
LEMMA PlacesSame ==
  ASSUME IInv, NEW f \in Frames, pc[f] \notin Thread \cup Handed,
         \A g \in Frames \ {f} : pc'[g] = pc[g] /\ serial'[g] = serial[g],
         \A e \in Drawables : callback'[e] = callback[e] \/ (callback[e] = None /\ pc'[callback'[e]] \in Thread),
         \A e \in Drawables : callback[e] # None => semaphore'[e] = semaphore[e] /\ queuedSerial'[e] = queuedSerial[e],
         UNCHANGED <<layerQueue, last, lastGL, holder, copies>>
  PROVE  QueueOK' /\ LastOK' /\ KeptSomewhere' /\ GLShowsOwnExport'
<1>1. TypeOK /\ CallbacksOK /\ QueueOK /\ LastOK /\ KeptSomewhere /\ GLShowsOwnExport
  BY DEF IInv
<1>2. ASSUME NEW e \in Drawables
      PROVE  /\ Kept(e) => Kept(e)' /\ callback'[e] = callback[e] /\ callback[e] \in Frames \ {f}
             /\ Kept(e)' => Kept(e)
  <2>1. callback[e] # None => callback[e] \in Frames \ {f} /\ callback'[e] = callback[e]
    <3>1. callback \in [Drawables -> Handle(Frames)]
      BY <1>1 DEF TypeOK
    <3>2. callback[e] # None => pc[callback[e]] \in Thread \cup Handed
      BY <1>1 DEF CallbacksOK
    <3> QED BY <3>1, <3>2 DEF Handle
  <2>2. ASSUME Kept(e)' PROVE callback[e] # None
    BY <2>2 DEF Kept, Thread, Handed
  <2>3. ASSUME callback[e] # None PROVE Kept(e)' <=> Kept(e)
    <3>1. PICK g \in Frames \ {f} : g = callback[e] /\ g = callback'[e]
      BY <2>1, <2>3
    <3>2. pc'[g] = pc[g]
      OBVIOUS
    <3> QED BY <2>3, <3>1, <3>2 DEF Kept
  <2> QED BY <2>1, <2>2, <2>3 DEF Kept
<1>3. layerQueue \in Seq(Drawables) /\ \A i \in 1..Len(layerQueue) : layerQueue[i] \in Drawables
  BY <1>1, ElementOfSeq DEF TypeOK
<1>4. ASSUME NEW i \in 1..Len(layerQueue)
      PROVE  /\ Kept(layerQueue[i])'
             /\ callback'[layerQueue'[i]] # None /\ semaphore'[layerQueue'[i]] = callback'[layerQueue'[i]]
             /\ queuedSerial'[layerQueue'[i]] = serial'[callback'[layerQueue'[i]]]
  <2>1. PICK e \in Drawables : e = layerQueue[i] /\ e = layerQueue'[i]
    BY <1>3
  <2>2. Kept(e) /\ Kept(e)' /\ callback'[e] = callback[e] /\ callback[e] \in Frames \ {f} /\ callback[e] # None
    BY <1>1, <1>2, <2>1 DEF QueueOK, Kept
  <2>3. semaphore[e] = callback[e] /\ queuedSerial[e] = serial[callback[e]]
    BY <1>1, <2>1 DEF GLShowsOwnExport
  <2>4. serial'[callback[e]] = serial[callback[e]]
    BY <2>2
  <2>5. Kept(layerQueue[i])'
    BY <2>1, <2>2 DEF Kept
  <2> QED BY <2>1, <2>2, <2>3, <2>4, <2>5
<1>5. QueueOK'
  BY <1>1, <1>4 DEF QueueOK
<1>6. GLShowsOwnExport'
  BY <1>4 DEF GLShowsOwnExport
<1>7. LastOK'
  <2>1. last \in Handle(Drawables) /\ lastGL \in Handle(Drawables)
    BY <1>1 DEF TypeOK
  <2>2. ASSUME last' # None PROVE Kept(last)' /\ last' # lastGL'
    <3>1. PICK e \in Drawables : e = last
      BY <2>1, <2>2 DEF Handle
    <3>2. Kept(e)' /\ e # lastGL
      BY <1>1, <1>2, <2>2, <3>1 DEF LastOK
    <3> QED BY <3>1, <3>2 DEF Kept
  <2>3. ASSUME lastGL' # None PROVE Kept(lastGL)' /\ holder' # None
    <3>1. PICK e \in Drawables : e = lastGL
      BY <2>1, <2>3 DEF Handle
    <3>2. Kept(e)' /\ holder # None
      BY <1>1, <1>2, <2>3, <3>1 DEF LastOK
    <3> QED BY <3>1, <3>2 DEF Kept
  <2> QED BY <2>2, <2>3 DEF LastOK
<1>8. KeptSomewhere'
  <2>1. ASSUME NEW e \in Drawables, Kept(e)' PROVE Queued(e)' \/ last' = e \/ lastGL' = e
    BY <1>1, <1>2, <2>1 DEF KeptSomewhere, Queued
  <2> QED BY <2>1 DEF KeptSomewhere
<1> QED BY <1>5, <1>6, <1>7, <1>8

\* A step of a frame that no callback belongs to yet, and that ends nothing.
LEMMA EarlyStep ==
  ASSUME IInv, NEW f \in Frames, NEW to \in {"acquired", "encoding", "rendered", "submitted", "abandoned"},
         pc[f] \notin Thread \cup Handed, pc'[f] = to, drawable'[f] \in Drawables,
         \A g \in Frames \ {f} : pc'[g] = pc[g] /\ drawable'[g] = drawable[g] /\ serial'[g] = serial[g],
         UNCHANGED <<callback, released, layerQueue, last, lastGL, holder, copies>>,
         callback[drawable'[f]] = None,
         \A g \in Frames \ {f} : Uses(g) /\ to # "abandoned" => drawable[g] # drawable'[f],
         \A e \in Drawables : callback[e] # None => semaphore'[e] = semaphore[e] /\ queuedSerial'[e] = queuedSerial[e]
  PROVE  OneUser' /\ FramesOK' /\ CallbacksOK' /\ QueueOK' /\ LastOK' /\ KeptSomewhere' /\ GLShowsOwnExport'
<1>1. TypeOK /\ OneUser /\ FramesOK /\ CallbacksOK
  BY DEF IInv
<1>2. \A g \in Frames \ {f} : Uses(g)' <=> Uses(g)
  BY DEF Uses
<1>3. OneUser'
  <2>1. ASSUME NEW g \in Frames, NEW h \in Frames, Uses(g)', Uses(h)', drawable'[g] = drawable'[h], g # h PROVE FALSE
    <3>1. CASE g = f
      BY <1>2, <2>1, <3>1 DEF Uses
    <3>2. CASE h = f
      BY <1>2, <2>1, <3>2 DEF Uses
    <3>3. CASE g # f /\ h # f
      BY <1>1, <1>2, <2>1, <3>3 DEF OneUser
    <3> QED BY <3>1, <3>2, <3>3
  <2> QED BY <2>1 DEF OneUser
<1>4. ASSUME NEW g \in Frames PROVE FrameOK(g)'
  <2>1. FrameOK(g)
    BY <1>1 DEF FramesOK
  <2>2. CASE g = f
    BY <2>1, <2>2 DEF FrameOK, Thread, Handed, Encoding
  <2>3. CASE g # f
    BY <2>1, <2>3 DEF FrameOK
  <2> QED BY <2>2, <2>3
<1>5. CallbacksOK'
  <2>1. ASSUME NEW e \in Drawables, NEW g, g = callback[e], g # None
        PROVE  drawable'[g] = e /\ Uses(g)' /\ pc'[g] \in Thread \cup Handed
    <3>1. drawable[g] = e /\ Uses(g) /\ pc[g] \in Thread \cup Handed /\ g \in Frames
      BY <1>1, <2>1 DEF CallbacksOK, TypeOK, Handle
    <3> QED BY <1>2, <3>1
  <2> QED BY <2>1 DEF CallbacksOK, Uses
<1>6. QueueOK' /\ LastOK' /\ KeptSomewhere' /\ GLShowsOwnExport'
  BY PlacesSame
<1> QED BY <1>3, <1>4, <1>5, <1>6 DEF FramesOK

\* A frame has its drawable alone while it is rendered.
LEMMA RendersAlone ==
  ASSUME IInv, NEW f \in Frames, pc[f] \in Encoding
  PROVE  /\ drawable[f] \in Drawables /\ callback[drawable[f]] = None /\ released[f] = 0
         /\ pc[f] \notin Thread \cup Handed /\ f \notin copies /\ holder # f
         /\ \A g \in Frames \ {f} : Uses(g) => drawable[g] # drawable[f]
<1>1. FrameOK(f) /\ OneUser
  BY DEF IInv, FramesOK
<1>2. /\ drawable[f] \in Drawables /\ callback[drawable[f]] = None /\ released[f] = 0
      /\ pc[f] \notin Thread \cup Handed /\ f \notin copies /\ holder # f
  BY <1>1 DEF FrameOK, Encoding, Thread, Handed
<1>3. Uses(f)
  BY <1>2 DEF Uses, Encoding
<1> QED BY <1>1, <1>2, <1>3 DEF OneUser

\* The exports of the other frames do not depend on a frame's drawable.
LEMMA OtherExports ==
  ASSUME IInv, NEW f \in Frames, NEW d \in Drawables,
         \A g \in Frames \ {f} : /\ pc'[g] = pc[g] /\ drawable'[g] = drawable[g]
                                 /\ export'[g] = export[g] /\ serial'[g] = serial[g],
         \A g \in Frames \ {f} : Uses(g) => drawable[g] # d,
         \A e \in Drawables \ {d} : texture'[e] = texture[e] /\ queuedSerial'[e] = queuedSerial[e],
         export'[f] \in {None, f},
         pc'[f] \in {"acquired", "encoding"} => texture'[drawable'[f]] = None,
         pc'[f] \in {"rendered", "submitted"} => texture'[drawable'[f]] \in {None, f},
         pc'[f] = "gl" => export'[f] = f, pc'[f] # "enqueued"
  PROVE  ExportsOK'
<1>1. ExportsOK /\ FramesOK
  BY DEF IInv
<1>2. ASSUME NEW g \in Frames
      PROVE  /\ export'[g] \in {None, g}
             /\ pc'[g] \in {"acquired", "encoding"} => texture'[drawable'[g]] = None
             /\ pc'[g] \in {"rendered", "submitted"} => texture'[drawable'[g]] \in {None, g}
             /\ pc'[g] \in {"gl", "enqueued"} => export'[g] = g
             /\ pc'[g] = "enqueued" => queuedSerial'[drawable'[g]] = serial'[g]
  <2>1. CASE g = f
    BY <2>1
  <2>2. CASE g # f
    <3>1. pc[g] \in Encoding \cup Thread => Uses(g) /\ drawable[g] \in Drawables
      BY <1>1 DEF FramesOK, FrameOK, Uses, Encoding, Thread, Handed
    <3>2. pc[g] \in Encoding \cup Thread => /\ texture'[drawable[g]] = texture[drawable[g]]
                                            /\ queuedSerial'[drawable[g]] = queuedSerial[drawable[g]]
      BY <2>2, <3>1
    <3>3. pc[g] \in {"acquired", "encoding", "rendered", "submitted", "enqueued"} => pc[g] \in Encoding \cup Thread
      BY DEF Encoding, Thread
    <3> QED BY <1>1, <2>2, <3>2, <3>3 DEF ExportsOK
  <2> QED BY <2>1, <2>2
<1> QED BY <1>2 DEF ExportsOK

\* nextDrawable: a drawable no frame uses has no callback left to run.
LEMMA NextDrawableKeeps ==
  ASSUME IInv, NEW f \in Frames, NEW d \in Drawables, NextDrawable(f, d)
  PROVE  IInv'
<1>1. TypeOK /\ SerialsOK /\ FramesOK /\ CallbacksOK /\ ExportsOK
  BY DEF IInv
<1>2. pc[f] = "none" /\ Free(d) /\ Goto(f, "acquired")
  BY DEF NextDrawable
<1>3. /\ pc \in [Frames -> Pcs] /\ drawable \in [Frames -> Handle(Drawables)]
      /\ texture \in [Drawables -> Handle(Frames)] /\ semaphore \in [Drawables -> Handle(Frames)]
      /\ callback \in [Drawables -> Handle(Frames)] /\ released \in [Frames -> Nat]
      /\ queuedSerial \in [Drawables -> Serials]
  BY <1>1 DEF TypeOK
<1>4. \A g \in Frames : Uses(g) => drawable[g] # d
  BY <1>2, <1>3 DEF Free, Uses
<1>5. callback[d] = None
  BY <1>1, <1>3, <1>4 DEF CallbacksOK, Handle
<1>6. /\ UNCHANGED <<windowVars, export, serial, nextSerial, released, layerQueue, last, vulkan, presenter>>
      /\ UNCHANGED <<glAttached, newest, holder, lastGL, copies, hud, toggles>>
  BY DEF NextDrawable, layerVars, routeVars, envVars
<1>7. UNCHANGED callback
  BY <1>3, <1>5 DEF NextDrawable
<1>8. /\ pc' \in [Frames -> Pcs] /\ pc'[f] = "acquired" /\ \A g \in Frames \ {f} : pc'[g] = pc[g]
      /\ drawable' \in [Frames -> Handle(Drawables)] /\ drawable'[f] = d
      /\ \A g \in Frames \ {f} : drawable'[g] = drawable[g]
  BY <1>2, <1>3 DEF NextDrawable, Goto, Pcs, Handle
<1>9. /\ texture' \in [Drawables -> Handle(Frames)] /\ texture'[d] = None
      /\ semaphore' \in [Drawables -> Handle(Frames)] /\ queuedSerial' \in [Drawables -> Serials]
      /\ \A e \in Drawables \ {d} : /\ texture'[e] = texture[e] /\ semaphore'[e] = semaphore[e]
                                    /\ queuedSerial'[e] = queuedSerial[e]
  BY <1>3, Counts DEF NextDrawable, Handle
<1>10. TypeOK'
  <2>1. FrameTypes' /\ LayerTypes' /\ RouteTypes' /\ EnvTypes'
    BY <1>1, <1>6, <1>8, TypeParts DEF FrameTypes, LayerTypes, RouteTypes, EnvTypes
  <2>2. DrawableTypes' /\ WindowTypes'
    BY <1>1, <1>6, <1>7, <1>9, TypeParts
    DEF DrawableTypes, WindowTypes, windowVars, flagVars, handoffVars, browserVars, contentVars
  <2> QED BY <2>1, <2>2, TypeParts
<1>11. OneUser' /\ FramesOK' /\ CallbacksOK' /\ QueueOK' /\ LastOK' /\ KeptSomewhere' /\ GLShowsOwnExport'
  <2>1. pc[f] \notin Thread \cup Handed
    BY <1>2 DEF Thread, Handed
  <2>2. \A e \in Drawables : callback[e] # None => semaphore'[e] = semaphore[e] /\ queuedSerial'[e] = queuedSerial[e]
    BY <1>5, <1>9
  <2> QED BY <1>4, <1>5, <1>6, <1>7, <1>8, <2>1, <2>2, EarlyStep
<1>12. SerialsOK'
  <2>1. Drew' = Drew
    BY <1>6 DEF Drew
  <2> QED BY <1>1, <1>2, <1>6, <1>8, <2>1 DEF SerialsOK
<1>13. ExportsOK'
  <2>1. export[f] \in {None, f}
    BY <1>1 DEF ExportsOK
  <2> QED BY <1>4, <1>6, <1>8, <1>9, <2>1, OtherExports
<1> QED BY <1>10, <1>11, <1>12, <1>13 DEF IInv

\* commit decides on the export, or the application drops the drawable.
LEMMA CommitRouteKeeps ==
  ASSUME IInv, NEW f \in Frames, CommitRoute(f) \/ Abandon(f)
  PROVE  IInv'
<1>1. TypeOK /\ SerialsOK /\ FramesOK /\ ExportsOK
  BY DEF IInv
<1>2. PICK to \in {"encoding", "abandoned"} :
        /\ Goto(f, to)
        /\ to = "encoding" => pc[f] = "acquired"
        /\ to = "abandoned" => pc[f] = "rendered"
  BY DEF CommitRoute, Abandon
<1>3. pc[f] \in Encoding
  BY <1>2 DEF CommitRoute, Abandon, Encoding
<1>4. /\ drawable[f] \in Drawables /\ callback[drawable[f]] = None /\ pc[f] \notin Thread \cup Handed
      /\ \A g \in Frames \ {f} : Uses(g) => drawable[g] # drawable[f]
  BY <1>3, RendersAlone
<1>5. /\ UNCHANGED <<windowVars, drawable, serial, nextSerial, layerQueue, last, vulkan, presenter>>
      /\ UNCHANGED <<glAttached, newest, holder, lastGL, copies, hud, toggles>>
      /\ UNCHANGED <<texture, semaphore, callback, queuedSerial, released>>
  BY DEF CommitRoute, Abandon, drawableVars, layerVars, routeVars, envVars
<1>6. pc' \in [Frames -> Pcs] /\ pc'[f] = to /\ \A g \in Frames \ {f} : pc'[g] = pc[g]
  BY <1>1, <1>2 DEF TypeOK, Goto, Pcs
<1>7. /\ export' \in [Frames -> Handle(Frames)] /\ export'[f] \in {None, f}
      /\ \A g \in Frames \ {f} : export'[g] = export[g]
  <2>1. export \in [Frames -> Handle(Frames)] /\ export[f] \in {None, f}
    BY <1>1 DEF TypeOK, ExportsOK
  <2>2. \/ export' = export
        \/ \E e \in {None, f} : export' = [export EXCEPT ![f] = e]
    BY DEF CommitRoute, Abandon
  <2>3. {None, f} \subseteq Handle(Frames)
    BY DEF Handle
  <2> QED BY <2>1, <2>2, <2>3
<1>8. TypeOK'
  <2>1. FrameTypes' /\ LayerTypes' /\ RouteTypes' /\ EnvTypes'
    BY <1>1, <1>5, <1>6, <1>7, TypeParts DEF FrameTypes, LayerTypes, RouteTypes, EnvTypes
  <2>2. DrawableTypes' /\ WindowTypes'
    BY <1>1, <1>5, TypeParts
    DEF DrawableTypes, WindowTypes, windowVars, flagVars, handoffVars, browserVars, contentVars
  <2> QED BY <2>1, <2>2, TypeParts
<1>9. OneUser' /\ FramesOK' /\ CallbacksOK' /\ QueueOK' /\ LastOK' /\ KeptSomewhere' /\ GLShowsOwnExport'
  BY <1>4, <1>5, <1>6, EarlyStep
<1>10. SerialsOK'
  <2>1. Drew' = Drew
    BY <1>5 DEF Drew
  <2> QED BY <1>1, <1>2, <1>5, <1>6, <2>1 DEF SerialsOK
<1>11. ExportsOK'
  <2>1. to = "encoding" => texture[drawable[f]] = None
    BY <1>1, <1>2 DEF ExportsOK
  <2> QED BY <1>4, <1>5, <1>6, <1>7, <2>1, OtherExports
<1> QED BY <1>8, <1>9, <1>10, <1>11 DEF IInv

\* commit publishes the export and may draw the serial.
LEMMA CommitSubmitKeeps ==
  ASSUME IInv, NEW f \in Frames, CommitSubmit(f)
  PROVE  IInv'
<1>1. TypeOK /\ SerialsOK /\ FramesOK /\ ExportsOK
  BY DEF IInv
<1>2. pc[f] = "encoding" /\ pc[f] \in Encoding
  BY DEF CommitSubmit, Encoding
<1>3. PICK d \in Drawables : d = drawable[f]
  BY <1>2, RendersAlone
<1>4. /\ callback[d] = None /\ pc[f] \notin Thread \cup Handed
      /\ \A g \in Frames \ {f} : Uses(g) => drawable[g] # d
  BY <1>2, <1>3, RendersAlone
<1>5. /\ UNCHANGED <<windowVars, drawable, semaphore, callback, queuedSerial, released, layerQueue, last>>
      /\ UNCHANGED <<vulkan, presenter, glAttached, newest, holder, lastGL, copies, hud, toggles>>
  BY DEF CommitSubmit, layerVars, routeVars, envVars
<1>6. export[f] \in {None, f} /\ texture[d] = None /\ serial[f] = 0
  BY <1>1, <1>2, <1>3 DEF ExportsOK, SerialsOK
<1>7. /\ texture' \in [Drawables -> Handle(Frames)] /\ texture'[d] \in {None, f}
      /\ \A e \in Drawables \ {d} : texture'[e] = texture[e]
  BY <1>1, <1>3, <1>6 DEF TypeOK, CommitSubmit, Handle
<1>8. /\ export' \in [Frames -> Handle(Frames)] /\ export'[f] = None
      /\ \A g \in Frames \ {f} : export'[g] = export[g]
  BY <1>1 DEF TypeOK, CommitSubmit, Handle
<1>9. PICK to \in {"submitted", "rendered"} :
        /\ Goto(f, to)
        /\ \/ to = "submitted" /\ serial' = [serial EXCEPT ![f] = nextSerial] /\ nextSerial' = nextSerial + 1
           \/ to = "rendered" /\ UNCHANGED <<serial, nextSerial>>
  BY DEF CommitSubmit
<1>10. pc' \in [Frames -> Pcs] /\ pc'[f] = to /\ \A g \in Frames \ {f} : pc'[g] = pc[g]
  BY <1>1, <1>9 DEF TypeOK, Goto, Pcs
<1>11. /\ serial' \in [Frames -> Serials] /\ nextSerial' \in 1..(Cardinality(Frames) + 1)
       /\ nextSerial' = Cardinality(Drew') + 1 /\ \A g \in Frames \ {f} : serial'[g] = serial[g]
       /\ to = "rendered" => serial'[f] = 0
  <2>1. CASE to = "submitted"
    <3>1. serial' = [serial EXCEPT ![f] = nextSerial] /\ nextSerial' = nextSerial + 1
      BY <1>9, <2>1
    <3> QED BY <1>1, <1>6, <2>1, <3>1, DrawSerial DEF TypeOK
  <2>2. CASE to = "rendered"
    <3>1. UNCHANGED <<serial, nextSerial>>
      BY <1>9, <2>2
    <3>2. Drew' = Drew
      BY <3>1 DEF Drew
    <3> QED BY <1>1, <1>6, <3>1, <3>2 DEF TypeOK, SerialsOK
  <2> QED BY <2>1, <2>2
<1>12. TypeOK'
  <2>1. FrameTypes' /\ LayerTypes' /\ RouteTypes' /\ EnvTypes'
    BY <1>1, <1>5, <1>8, <1>10, <1>11, TypeParts DEF FrameTypes, LayerTypes, RouteTypes, EnvTypes
  <2>2. DrawableTypes' /\ WindowTypes'
    BY <1>1, <1>5, <1>7, TypeParts
    DEF DrawableTypes, WindowTypes, windowVars, flagVars, handoffVars, browserVars, contentVars
  <2> QED BY <2>1, <2>2, TypeParts
<1>13. OneUser' /\ FramesOK' /\ CallbacksOK' /\ QueueOK' /\ LastOK' /\ KeptSomewhere' /\ GLShowsOwnExport'
  BY <1>3, <1>4, <1>5, <1>10, <1>11, EarlyStep
<1>14. SerialsOK'
  BY <1>1, <1>10, <1>11 DEF SerialsOK
<1>15. ExportsOK'
  BY <1>3, <1>4, <1>5, <1>7, <1>8, <1>10, <1>11, OtherExports
<1> QED BY <1>12, <1>13, <1>14, <1>15 DEF IInv

\* trackb_present_drawable: the callback is installed with the route, or the
\* drawable is given back at once.
LEMMA PresentDrawableKeeps ==
  ASSUME IInv, NEW f \in Frames, PresentDrawable(f)
  PROVE  IInv'
<1>1. TypeOK /\ SerialsOK /\ OneUser /\ FramesOK /\ CallbacksOK /\ ExportsOK
  BY DEF IInv
<1>2. pc[f] \in {"submitted", "rendered"} /\ pc[f] \in Encoding
  BY DEF PresentDrawable, Encoding
<1>3. PICK d \in Drawables : d = drawable[f]
  BY <1>2, RendersAlone
<1>4. /\ callback[d] = None /\ released[f] = 0 /\ pc[f] \notin Thread \cup Handed /\ f \notin copies /\ holder # f
      /\ f # None /\ \A g \in Frames \ {f} : Uses(g) => drawable[g] # d
  BY <1>2, <1>3, RendersAlone, PresentationAssumption
<1>5. /\ UNCHANGED <<windowVars, drawable, semaphore, queuedSerial, layerQueue, last>>
      /\ UNCHANGED <<vulkan, presenter, glAttached, newest, holder, lastGL, copies, hud, toggles>>
  BY DEF PresentDrawable, layerVars, routeVars, envVars
<1>6. texture[d] \in {None, f}
  BY <1>1, <1>2, <1>3 DEF ExportsOK
<1>7. /\ texture' \in [Drawables -> Handle(Frames)] /\ \A e \in Drawables \ {d} : texture'[e] = texture[e]
      /\ export' \in [Frames -> Handle(Frames)] /\ export'[f] = texture[d]
      /\ \A g \in Frames \ {f} : export'[g] = export[g]
  BY <1>1, <1>3 DEF TypeOK, PresentDrawable, Handle
<1>8. /\ serial' \in [Frames -> Serials] /\ nextSerial' \in 1..(Cardinality(Frames) + 1)
      /\ nextSerial' = Cardinality(Drew') + 1 /\ \A g \in Frames \ {f} : serial'[g] = serial[g]
  <2>1. CASE serial' = [serial EXCEPT ![f] = nextSerial] /\ nextSerial' = nextSerial + 1 /\ pc[f] = "rendered"
    <3>1. serial[f] = 0
      BY <1>1, <2>1 DEF SerialsOK
    <3> QED BY <1>1, <2>1, <3>1, DrawSerial DEF TypeOK
  <2>2. CASE UNCHANGED <<serial, nextSerial>>
    <3>1. Drew' = Drew
      BY <2>2 DEF Drew
    <3> QED BY <1>1, <2>2, <3>1 DEF TypeOK, SerialsOK
  <2> QED BY <2>1, <2>2 DEF PresentDrawable
<1>9. PICK to \in {"gl", "vulkan", "end"} :
        /\ Goto(f, to)
        /\ to = "gl" => texture[d] # None
        /\ \/ to # "end" /\ callback' = [callback EXCEPT ![d] = f] /\ UNCHANGED released
           \/ to = "end" /\ UNCHANGED callback /\ released' = [released EXCEPT ![f] = @ + 1]
  BY <1>3 DEF PresentDrawable
<1>10. pc' \in [Frames -> Pcs] /\ pc'[f] = to /\ \A g \in Frames \ {f} : pc'[g] = pc[g]
  BY <1>1, <1>9 DEF TypeOK, Goto, Pcs
<1>11. /\ callback' \in [Drawables -> Handle(Frames)] /\ callback'[d] = (IF to = "end" THEN None ELSE f)
       /\ \A e \in Drawables \ {d} : callback'[e] = callback[e]
       /\ released' \in [Frames -> Nat] /\ released'[f] = (IF to = "end" THEN 1 ELSE 0)
       /\ \A g \in Frames \ {f} : released'[g] = released[g]
  <2>1. callback \in [Drawables -> Handle(Frames)] /\ released \in [Frames -> Nat]
    BY <1>1 DEF TypeOK
  <2> QED BY <1>4, <1>9, <2>1 DEF Handle
<1>12. TypeOK'
  <2>1. FrameTypes' /\ LayerTypes' /\ RouteTypes' /\ EnvTypes'
    BY <1>1, <1>5, <1>7, <1>8, <1>10, TypeParts DEF FrameTypes, LayerTypes, RouteTypes, EnvTypes
  <2>2. DrawableTypes' /\ WindowTypes'
    BY <1>1, <1>5, <1>7, <1>11, TypeParts
    DEF DrawableTypes, WindowTypes, windowVars, flagVars, handoffVars, browserVars, contentVars
  <2> QED BY <2>1, <2>2, TypeParts
<1>13. /\ \A g \in Frames \ {f} : Uses(g)' <=> Uses(g)
       /\ Uses(f)' => Uses(f) /\ to # "end"
  BY <1>2, <1>4, <1>10, <1>11 DEF Uses
<1>14. OneUser'
  BY <1>1, <1>5, <1>13 DEF OneUser
<1>15. ASSUME NEW g \in Frames PROVE FrameOK(g)'
  <2>1. FrameOK(g)
    BY <1>1 DEF FramesOK
  <2>2. CASE g = f
    BY <1>3, <1>4, <1>5, <1>10, <1>11, <2>2 DEF FrameOK, Thread, Handed, Encoding
  <2>3. CASE g # f
    <3>1. pc'[g] = pc[g] /\ released'[g] = released[g] /\ drawable'[g] = drawable[g] /\ copies' = copies /\ holder' = holder
      BY <1>5, <1>10, <1>11, <2>3
    <3>2. Uses(g) /\ drawable[g] \in Drawables => callback'[drawable[g]] = callback[drawable[g]]
      BY <1>4, <1>11, <2>3
    <3>3. pc[g] \in Encoding \cup Thread => Uses(g) /\ drawable[g] \in Drawables
      BY <2>1 DEF FrameOK, Uses, Encoding, Thread, Handed
    <3>4. pc[g] \in Handed /\ released[g] = 0 => Uses(g) /\ drawable[g] \in Drawables
      BY <2>1 DEF FrameOK, Uses, Handed
    <3>5. g \in copies => drawable[g] \in Drawables /\ drawable[g] # d
      BY <1>4, <2>1, PresentationAssumption DEF FrameOK
    <3> QED BY <1>11, <2>1, <3>1, <3>2, <3>3, <3>4, <3>5 DEF FrameOK
  <2> QED BY <2>2, <2>3
<1>16. CallbacksOK'
  <2>1. ASSUME NEW e \in Drawables, NEW g, g = callback'[e], g # None
        PROVE  drawable'[g] = e /\ Uses(g)' /\ pc'[g] \in Thread \cup Handed
    <3>1. CASE e = d
      <4>1. g = f /\ to # "end"
        BY <1>11, <2>1, <3>1
      <4> QED BY <1>3, <1>5, <1>10, <1>11, <3>1, <4>1 DEF Uses, Thread, Handed
    <3>2. CASE e # d
      <4>1. g = callback[e] /\ g \in Frames
        BY <1>11, <1>1, <2>1, <3>2 DEF TypeOK, Handle
      <4>2. drawable[g] = e /\ Uses(g) /\ pc[g] \in Thread \cup Handed
        BY <1>1, <2>1, <4>1 DEF CallbacksOK
      <4>3. g # f
        BY <1>4, <4>2
      <4> QED BY <1>5, <1>10, <1>13, <4>1, <4>2, <4>3
    <3> QED BY <3>1, <3>2
  <2> QED BY <2>1 DEF CallbacksOK, Uses
<1>17. QueueOK' /\ LastOK' /\ KeptSomewhere' /\ GLShowsOwnExport'
  <2>1. ASSUME NEW e \in Drawables
        PROVE  callback'[e] = callback[e] \/ (callback[e] = None /\ pc'[callback'[e]] \in Thread)
    BY <1>4, <1>10, <1>11 DEF Thread
  <2> QED BY <1>4, <1>5, <1>8, <1>10, <2>1, PlacesSame
<1>18. SerialsOK'
  BY <1>1, <1>8, <1>10 DEF SerialsOK
<1>19. ExportsOK'
  BY <1>4, <1>5, <1>6, <1>7, <1>8, <1>9, <1>10, OtherExports
<1> QED BY <1>12, <1>14, <1>15, <1>16, <1>17, <1>18, <1>19 DEF IInv, FramesOK

-----------------------------------------------------------------------------
(* The theorem *)

\* Flushes, handoffs and the browser touch no drawable.
LEMMA WindowStepsKeep ==
  ASSUME IInv, WindowStep \/ UserStep \/ UNCHANGED vars
  PROVE  IInv'
<1>1. UNCHANGED <<frameVars, drawableVars, layerVars, routeVars>>
  BY DEF WindowStep, UserStep, vars
<1>2. TypeOK'
  <2>1. TypeOK
    BY DEF IInv
  <2>2. FrameTypes' /\ DrawableTypes' /\ LayerTypes' /\ RouteTypes'
    BY <1>1, <2>1, TypeParts
    DEF FrameTypes, DrawableTypes, LayerTypes, RouteTypes, frameVars, drawableVars, layerVars, routeVars
  <2>3. EnvTypes'
    <3>1. hud \in BOOLEAN /\ toggles \in 0..MaxToggles /\ MaxToggles \in Nat
      BY <2>1, PresentationAssumption DEF TypeOK
    <3>2. toggles' \in 0..MaxToggles
      BY <3>1 DEF WindowStep, UserStep, envVars, vars
    <3>3. hud' \in BOOLEAN
      BY <3>1 DEF WindowStep, UserStep, envVars, vars
    <3> QED BY <3>2, <3>3 DEF EnvTypes
  <2>4. WindowTypes
    BY <2>1, TypeParts
  <2>5. WindowTypes'
    <3>1. CASE CGLFlushDrawable
      BY <2>4, <3>1 DEF WindowTypes, CGLFlushDrawable, Unobstructed, flagVars, handoffVars, browserVars
    <3>2. CASE CompleteGLHandoff \/ CompleteVulkanHandoff
      BY <2>4, <3>2, Counts DEF WindowTypes, CompleteGLHandoff, CompleteVulkanHandoff, flagVars, browserVars
    <3>3. CASE PumpBrowser
      BY <2>4, <3>3, Counts DEF WindowTypes, PumpBrowser, flagVars, handoffVars
    <3>4. CASE TogglePage \/ HideWindow
      BY <2>4, <3>4, Counts DEF WindowTypes, TogglePage, HideWindow, flagVars, handoffVars, browserVars, contentVars
    <3>5. CASE UNCHANGED windowVars
      BY <2>4, <3>5 DEF WindowTypes, windowVars, flagVars, handoffVars, browserVars, contentVars
    <3> QED BY <3>1, <3>2, <3>3, <3>4, <3>5 DEF WindowStep, UserStep, vars
  <2> QED BY <2>2, <2>3, <2>5, TypeParts
<1>3. /\ UNCHANGED <<pc, drawable, export, serial, nextSerial, texture, semaphore, callback, queuedSerial, released>>
      /\ UNCHANGED <<layerQueue, last, holder, lastGL, copies>>
  BY <1>1 DEF frameVars, drawableVars, layerVars, routeVars
<1>4. SerialsOK' /\ OneUser' /\ ExportsOK'
  BY <1>3 DEF IInv, SerialsOK, Drew, OneUser, Uses, ExportsOK
<1>5. FramesOK' /\ CallbacksOK'
  BY <1>3 DEF IInv, FramesOK, FrameOK, CallbacksOK, Uses
<1>6. QueueOK' /\ LastOK' /\ KeptSomewhere' /\ GLShowsOwnExport'
  BY <1>3 DEF IInv, QueueOK, LastOK, KeptSomewhere, Kept, Queued, GLShowsOwnExport
<1> QED BY <1>2, <1>4, <1>5, <1>6 DEF IInv

LEMMA InitKeeps == Init => IInv
<1> SUFFICES ASSUME Init PROVE IInv
  OBVIOUS
<1>1. TypeOK
  <2>1. FrameTypes
    <3>1. 1 \in 1..(Cardinality(Frames) + 1)
      BY Counts
    <3> QED BY <3>1, Counts DEF Init, FrameTypes, Pcs, Handle
  <2>2. RouteTypes /\ DrawableTypes
    BY Counts DEF Init, RouteTypes, DrawableTypes, Handle
  <2>3. LayerTypes /\ EnvTypes
    <3>1. <<>> \in Seq(Drawables) /\ Len(<<>>) = 0 /\ 0 <= Cardinality(Drawables)
      BY Counts
    <3>2. 0 \in 0..MaxToggles
      BY PresentationAssumption
    <3> QED BY <3>1, <3>2 DEF Init, LayerTypes, EnvTypes, Handle
  <2>4. WindowTypes
    BY Counts DEF Init, WindowInit, WindowTypes
  <2> QED BY <2>1, <2>2, <2>3, <2>4, TypeParts
<1>2. SerialsOK
  <2>1. Drew = {}
    BY DEF Init, Drew
  <2> QED BY <2>1, FS_EmptySet DEF Init, SerialsOK
<1>3. FramesOK /\ OneUser /\ CallbacksOK
  BY PresentationAssumption DEF Init, FramesOK, FrameOK, OneUser, Uses, CallbacksOK, Encoding, Thread, Handed
<1>4. QueueOK /\ LastOK /\ KeptSomewhere /\ GLShowsOwnExport
  BY DEF Init, QueueOK, LastOK, KeptSomewhere, Kept, GLShowsOwnExport
<1>5. ExportsOK
  BY DEF Init, ExportsOK
<1> QED BY <1>1, <1>2, <1>3, <1>4, <1>5 DEF IInv

\* The invariant leaves a presented drawable exactly one place.
LEMMA OnePlace ==
  ASSUME IInv
  PROVE  OneReleaser
<1>1. TypeOK /\ OneUser /\ FramesOK /\ CallbacksOK /\ QueueOK /\ LastOK /\ KeptSomewhere
  BY DEF IInv
<1>2. None \notin Frames \cup Drawables /\ callback \in [Drawables -> Handle(Frames)] /\ copies \subseteq Frames
  BY <1>1, PresentationAssumption DEF TypeOK
<1>3. ASSUME NEW d \in Drawables
      PROVE  /\ \A f \in Frames : drawable[f] = d /\ pc[f] \in Thread => callback[d] = f /\ ~Kept(d) /\ f \notin copies
             /\ \A f \in copies : drawable[f] = d => callback[d] = f /\ ~Kept(d) /\ pc[f] \notin Thread
             /\ \A i \in 1..Len(layerQueue) : layerQueue[i] = d => Kept(d) /\ d # last /\ d # lastGL
             /\ last = d => Kept(d) /\ d # lastGL
             /\ lastGL = d => Kept(d)
             /\ Kept(d) => callback[d] # None
             /\ Kept(d) => Queued(d) \/ last = d \/ lastGL = d
             /\ callback[d] # None => /\ callback[d] \in Frames /\ drawable[callback[d]] = d
                                      /\ pc[callback[d]] \in Thread \/ callback[d] \in copies \/ Kept(d)
  <2>1. \A f \in Frames : drawable[f] = d /\ pc[f] \in Thread => callback[d] = f /\ ~Kept(d) /\ f \notin copies
    BY <1>1 DEF FramesOK, FrameOK, Kept, Thread, Handed
  <2>2. \A f \in copies : drawable[f] = d => callback[d] = f /\ ~Kept(d) /\ pc[f] \notin Thread
    BY <1>1, <1>2 DEF FramesOK, FrameOK, Kept, Thread
  <2>3. \A i \in 1..Len(layerQueue) : layerQueue[i] = d => Kept(d) /\ d # last /\ d # lastGL
    BY <1>1 DEF QueueOK
  <2>4. (last = d => Kept(d) /\ d # lastGL) /\ (lastGL = d => Kept(d))
    BY <1>1, <1>2 DEF LastOK
  <2>5. callback[d] # None => /\ callback[d] \in Frames /\ drawable[callback[d]] = d
                              /\ pc[callback[d]] \in Thread \/ callback[d] \in copies \/ Kept(d)
    BY <1>1, <1>2 DEF CallbacksOK, Kept, Handle
  <2>6. Kept(d) => callback[d] # None /\ (Queued(d) \/ last = d \/ lastGL = d)
    BY <1>1 DEF KeptSomewhere, Kept
  <2> QED BY <2>1, <2>2, <2>3, <2>4, <2>5, <2>6
<1>4. ASSUME NEW d \in Drawables, callback[d] = None PROVE Places(d) = {}
  <2>1. \A f \in Frames : ~(drawable[f] = d /\ pc[f] \in Thread)
    BY <1>2, <1>3, <1>4
  <2>2. \A f \in copies : drawable[f] # d
    BY <1>2, <1>3, <1>4
  <2>3. last # d /\ lastGL # d /\ \A i \in 1..Len(layerQueue) : layerQueue[i] # d
    BY <1>3, <1>4
  <2> QED BY <2>1, <2>2, <2>3 DEF Places, Thread
<1>5. ASSUME NEW d \in Drawables, callback[d] # None PROVE \E x \in Places(d) : Places(d) = {x}
  <2>1. PICK f \in Frames : f = callback[d] /\ drawable[f] = d
    BY <1>3, <1>5
  <2>2. CASE pc[f] \in Thread
    <3>1. Places(d) = {<<"thread", f>>}
      <4>1. {g \in Frames : drawable[g] = d /\ pc[g] \in Thread} = {f}
        BY <1>3, <2>1, <2>2
      <4>2. {g \in copies : drawable[g] = d} = {}
        BY <1>3, <2>1, <2>2
      <4>3. {i \in 1..Len(layerQueue) : layerQueue[i] = d} = {} /\ last # d /\ lastGL # d
        BY <1>3, <2>1, <2>2
      <4> QED BY <4>1, <4>2, <4>3 DEF Places, Thread
    <3> QED BY <3>1
  <2>3. CASE f \in copies
    <3>1. Places(d) = {<<"copy", f>>}
      <4>1. {g \in Frames : drawable[g] = d /\ pc[g] \in Thread} = {}
        BY <1>3, <2>1, <2>3
      <4>2. {g \in copies : drawable[g] = d} = {f}
        BY <1>3, <2>1, <2>3
      <4>3. {i \in 1..Len(layerQueue) : layerQueue[i] = d} = {} /\ last # d /\ lastGL # d
        BY <1>3, <2>1, <2>3
      <4> QED BY <4>1, <4>2, <4>3 DEF Places, Thread
    <3> QED BY <3>1
  <2>4. CASE Kept(d)
    <3>1. {g \in Frames : drawable[g] = d /\ pc[g] \in Thread} = {} /\ {g \in copies : drawable[g] = d} = {}
      BY <1>3, <2>4
    <3>2. CASE Queued(d)
      <4>1. PICK i \in 1..Len(layerQueue) : layerQueue[i] = d
        BY <3>2 DEF Queued
      <4>2. {j \in 1..Len(layerQueue) : layerQueue[j] = d} = {i}
        BY <1>1, <4>1 DEF QueueOK
      <4>3. last # d /\ lastGL # d
        BY <1>3, <4>1
      <4>4. Places(d) = {<<"queued", i>>}
        BY <3>1, <4>2, <4>3 DEF Places, Thread
      <4> QED BY <4>4
    <3>3. CASE last = d
      <4>1. {j \in 1..Len(layerQueue) : layerQueue[j] = d} = {} /\ lastGL # d
        BY <1>3, <3>3
      <4>2. Places(d) = {<<"last", d>>}
        BY <3>1, <3>3, <4>1 DEF Places, Thread
      <4> QED BY <4>2
    <3>4. CASE lastGL = d
      <4>1. {j \in 1..Len(layerQueue) : layerQueue[j] = d} = {} /\ last # d
        BY <1>3, <3>4
      <4>2. Places(d) = {<<"lastGL", d>>}
        BY <3>1, <3>4, <4>1 DEF Places, Thread
      <4> QED BY <4>2
    <3> QED BY <1>3, <2>4, <3>2, <3>3, <3>4
  <2> QED BY <1>3, <1>5, <2>1, <2>2, <2>3, <2>4
<1>6. ASSUME NEW f \in Frames
      PROVE  released[f] <= 1 /\ (released[f] = 1 => \A d \in Drawables : callback[d] # f)
  <2>1. released[f] \in {0, 1}
    BY <1>1 DEF FramesOK, FrameOK
  <2>2. ASSUME released[f] = 1, NEW d \in Drawables PROVE callback[d] # f
    BY <1>1, <1>2, <2>2 DEF CallbacksOK, Uses
  <2> QED BY <2>1, <2>2
<1> QED BY <1>4, <1>5, <1>6 DEF OneReleaser

LEMMA StepKeeps == IInv /\ [Next]_vars => IInv'
<1> SUFFICES ASSUME IInv, [Next]_vars PROVE IInv'
  OBVIOUS
<1>1. CASE \E f \in Frames, d \in Drawables : NextDrawable(f, d)
  BY <1>1, NextDrawableKeeps
<1>2. CASE \E f \in Frames : CommitRoute(f) \/ Abandon(f)
  BY <1>2, CommitRouteKeeps
<1>3. CASE \E f \in Frames : CommitSubmit(f)
  BY <1>3, CommitSubmitKeeps
<1>4. CASE \E f \in Frames : PresentDrawable(f)
  BY <1>4, PresentDrawableKeeps
<1>5. CASE \E f \in Frames : EnqueueGL(f)
  BY <1>5, EnqueueGLKeeps
<1>6. CASE \E f \in Frames : QueuePresent(f)
  BY <1>6, QueuePresentKeeps
<1>7. CASE \E f \in Frames : StartVulkanPresentation(f)
  BY <1>7, StartVulkanPresentationKeeps
<1>8. CASE \E f \in Frames : VulkanDrop(f)
  BY <1>8, VulkanDropKeeps
<1>9. CASE \E f \in Frames : VulkanTakeover(f)
  BY <1>9, VulkanTakeoverKeeps
<1>10. CASE \E f \in Frames : VulkanFinish(f)
  BY <1>10, VulkanFinishKeeps
<1>11. CASE \E f \in Frames : CopyCompleted(f)
  BY <1>11, CopyCompletedKeeps
<1>12. CASE PrepareRender
  BY <1>12, PrepareRenderKeeps
<1>13. CASE WindowStep \/ UserStep \/ UNCHANGED vars
  BY <1>13, WindowStepsKeep
<1> QED BY <1>1, <1>2, <1>3, <1>4, <1>5, <1>6, <1>7, <1>8, <1>9, <1>10, <1>11, <1>12, <1>13
    DEF Next, PresentStep

\* Every drawable that is presented is in exactly one place that will give it
\* back, no frame is given back twice, and GL shows a drawable with the export
\* and the serial of the frame that queued it: for any number of frames and
\* drawables, any routes and any answers of the swapchain.
THEOREM DrawablesStayAccounted == Spec => []DrawablesAccounted
<1>1. IInv => DrawablesAccounted
  BY OnePlace DEF DrawablesAccounted, IInv
<1> QED BY <1>1, InitKeeps, StepKeeps, PTL DEF Spec

-----------------------------------------------------------------------------
(* The window *)

\* What the window shows is no newer than the newest frame taken, a handoff
\* waits for a frame at least as new as the one it replaces, and the presenter
\* owns the window while it presents.
WindowOK ==
  /\ glBuf <= glTex /\ glTex <= newest /\ vkBuf <= newest
  /\ owns => ~hidePending /\ ~glHandoff
  /\ vkHandoff => owns
  /\ vulkan /\ ~glAttached => owns
  /\ holder # None => owns /\ newest < serial[holder]
  /\ glHandoff => vkBuf <= glBuf
  /\ hidePending /\ frameReady => vkBuf <= glTex

\* What a step needs to show.
WindowMoves == WindowOK' /\ NoOlderFrame /\ NeverBlank

LEMMA WindowNumbers ==
  ASSUME IInv
  PROVE  /\ glTex \in Nat /\ glBuf \in Nat /\ vkBuf \in Nat /\ newest \in Nat /\ serial \in [Frames -> Nat]
         /\ holder \in Handle(Frames) /\ None \notin Frames
<1>1. TypeOK /\ Cardinality(Frames) \in Nat
  BY Counts DEF IInv
<1>2. Serials \subseteq Nat
  BY <1>1 DEF Serials
<1> QED BY <1>1, <1>2, PresentationAssumption DEF TypeOK

\* A step that changes neither the window nor the route, nor the serial of the
\* frame that is being presented.
LEMMA WindowSame ==
  ASSUME IInv, WindowOK, UNCHANGED <<windowVars, newest, holder, vulkan, glAttached>>,
         holder # None => serial'[holder] = serial[holder]
  PROVE  WindowMoves
<1>1. /\ UNCHANGED <<owns, hidePending, frameReady, glHandoff, vkHandoff, browserVisible, glTex, glBuf, vkBuf>>
      /\ UNCHANGED Shown
  BY DEF windowVars, flagVars, handoffVars, browserVars, contentVars, Shown
<1>2. WindowOK'
  BY <1>1 DEF WindowOK
<1>3. Shown \in Nat
  BY WindowNumbers DEF Shown
<1> QED BY <1>1, <1>2, <1>3 DEF WindowMoves, NoOlderFrame, NeverBlank

\* The steps of frames that are not being presented by Vulkan.
LEMMA FrameStepsMove ==
  ASSUME IInv, WindowOK, NEW f \in Frames,
         \/ \E d \in Drawables : NextDrawable(f, d)
         \/ CommitRoute(f) \/ CommitSubmit(f) \/ Abandon(f) \/ PresentDrawable(f)
         \/ EnqueueGL(f) \/ QueuePresent(f) \/ CopyCompleted(f)
  PROVE  WindowMoves
<1>1. UNCHANGED <<windowVars, newest, holder, vulkan, glAttached>>
  <2>1. CASE (\E d \in Drawables : NextDrawable(f, d)) \/ CommitRoute(f) \/ CommitSubmit(f) \/ Abandon(f)
    BY <2>1 DEF NextDrawable, CommitRoute, CommitSubmit, Abandon, routeVars
  <2>2. CASE PresentDrawable(f) \/ EnqueueGL(f) \/ QueuePresent(f) \/ CopyCompleted(f)
    BY <2>2 DEF PresentDrawable, EnqueueGL, QueuePresent, CopyCompleted, routeVars
  <2> QED BY <2>1, <2>2
<1>2. serial \in [Frames -> Nat] /\ holder \in Handle(Frames)
  BY WindowNumbers
<1>3. ASSUME holder # None PROVE serial'[holder] = serial[holder]
  <2>1. CASE UNCHANGED serial
    BY <2>1
  <2>2. CASE CommitSubmit(f) \/ PresentDrawable(f)
    <3>1. pc[f] \in Encoding
      BY <2>2 DEF CommitSubmit, PresentDrawable, Encoding
    <3>2. holder # f
      BY <3>1, RendersAlone
    <3>3. \A g \in Frames \ {f} : serial'[g] = serial[g]
      BY <1>2, <2>2 DEF CommitSubmit, PresentDrawable
    <3> QED BY <1>2, <1>3, <3>2, <3>3 DEF Handle
  <2>3. UNCHANGED serial \/ CommitSubmit(f) \/ PresentDrawable(f)
    BY DEF NextDrawable, CommitRoute, Abandon, EnqueueGL, QueuePresent, CopyCompleted, frameVars
  <2> QED BY <2>1, <2>2, <2>3
<1> QED BY <1>1, <1>3, WindowSame

\* The route starts again, or a frame is dropped before Vulkan owns the window.
LEMMA RouteChangesMove ==
  ASSUME IInv, WindowOK, NEW f \in Frames, StartVulkanPresentation(f) \/ VulkanDrop(f)
  PROVE  WindowMoves
<1>1. /\ UNCHANGED <<glTex, glBuf, vkBuf, newest, holder, serial, browserVisible, glHandoff>> /\ holder = None
      /\ UNCHANGED Shown
  BY DEF StartVulkanPresentation, VulkanDrop, DeferHide, windowVars, flagVars, handoffVars, browserVars,
         contentVars, Shown
<1>2. Shown \in Nat
  BY WindowNumbers DEF Shown
<1>3. WindowOK'
  <2>1. CASE StartVulkanPresentation(f)
    <3>1. UNCHANGED <<owns, hidePending, frameReady, vkHandoff>> /\ glAttached' = TRUE
      BY <2>1 DEF StartVulkanPresentation, flagVars, handoffVars
    <3> QED BY <1>1, <3>1 DEF WindowOK
  <2>2. CASE VulkanDrop(f) /\ UNCHANGED windowVars
    <3>1. UNCHANGED <<owns, hidePending, frameReady, vkHandoff>>
      BY <2>2 DEF windowVars, flagVars, handoffVars
    <3>2. UNCHANGED glAttached /\ (vulkan' = vulkan \/ vulkan' = FALSE)
      BY <2>2 DEF VulkanDrop
    <3> QED BY <1>1, <3>1, <3>2 DEF WindowOK
  <2>3. CASE VulkanDrop(f) /\ DeferHide /\ vulkan' = FALSE
    BY <1>1, <2>3 DEF WindowOK, DeferHide
  <2>4. VulkanDrop(f) => UNCHANGED windowVars \/ (DeferHide /\ vulkan' = FALSE)
    BY DEF VulkanDrop
  <2> QED BY <2>1, <2>2, <2>3, <2>4
<1> QED BY <1>1, <1>2, <1>3 DEF WindowMoves, NoOlderFrame, NeverBlank

\* Takeover: the frame is newer than what is shown, and Vulkan owns the window.
LEMMA VulkanTakeoverMoves ==
  ASSUME IInv, WindowOK, NEW f \in Frames, VulkanTakeover(f)
  PROVE  WindowMoves
<1>1. /\ UNCHANGED <<glTex, glBuf, vkBuf, newest, serial, browserVisible, vulkan, glAttached>> /\ holder' = f
      /\ UNCHANGED Shown /\ vulkan
  BY DEF VulkanTakeover, Takeover, browserVars, contentVars, Shown
<1>2. Shown \in Nat /\ newest \in Nat /\ serial[f] \in Nat /\ glTex \in Nat /\ vkBuf \in Nat /\ glBuf \in Nat
  BY WindowNumbers DEF Shown
<1>3. newest < serial[f]
  BY <1>2 DEF VulkanTakeover, Stale
<1>4. WindowOK'
  <2>1. CASE glAttached
    <3>1. owns' = TRUE /\ hidePending' = FALSE /\ frameReady' = FALSE /\ glHandoff' = FALSE /\ vkHandoff' = FALSE
      BY <2>1 DEF VulkanTakeover, Takeover
    <3> QED BY <1>1, <1>3, <3>1 DEF WindowOK
  <2>2. CASE ~glAttached
    <3>1. UNCHANGED <<owns, hidePending, frameReady, glHandoff, vkHandoff>>
      BY <2>2 DEF VulkanTakeover, flagVars, handoffVars
    <3> QED BY <1>1, <1>3, <2>2, <3>1 DEF WindowOK
  <2> QED BY <2>1, <2>2
<1> QED BY <1>1, <1>2, <1>4 DEF WindowMoves, NoOlderFrame, NeverBlank

\* presentVulkan's end: the frame shows, or the window goes back to GL later.
LEMMA VulkanFinishMoves ==
  ASSUME IInv, WindowOK, NEW f \in Frames, VulkanFinish(f)
  PROVE  WindowMoves
<1>1. holder = f /\ f # None
  BY PresentationAssumption DEF IInv, FramesOK, FrameOK, VulkanFinish
<1>2. owns /\ newest < serial[f] /\ ~hidePending /\ ~glHandoff
  BY <1>1 DEF WindowOK
<1>3. /\ newest \in Nat /\ serial[f] \in Nat /\ glTex \in Nat /\ vkBuf \in Nat /\ glBuf \in Nat /\ owns \in BOOLEAN
      /\ hidePending \in BOOLEAN /\ glHandoff \in BOOLEAN
  BY WindowNumbers DEF IInv, TypeOK
<1>4. UNCHANGED <<browserVisible, serial>> /\ holder' = None
  BY DEF VulkanFinish, browserVars
<1>5. CASE VulkanPresented(f)
  <2>1. /\ newest' = serial[f] /\ vkBuf' \in {serial[f], vkBuf} /\ glAttached' = FALSE
        /\ UNCHANGED <<owns, hidePending, frameReady, glHandoff, glTex, glBuf>>
    BY <1>5 DEF VulkanPresented, flagVars
  <2>2. glBuf <= glTex /\ glTex <= newest /\ vkBuf <= newest
    BY DEF WindowOK
  <2>3. glBuf' <= glTex' /\ glTex' <= newest' /\ vkBuf' <= newest'
    BY <1>2, <1>3, <2>1, <2>2
  <2>4. WindowOK'
    BY <1>2, <1>4, <2>1, <2>3 DEF WindowOK
  <2>5. (vkBuf' = vkBuf /\ Shown' = Shown) \/ (Shown' = serial[f] /\ Shown <= newest)
    BY <1>2, <1>3, <2>1, <2>2 DEF Shown
  <2>6. Shown \in Nat
    BY <1>3 DEF Shown
  <2>7. Shown' >= Shown /\ (Shown # 0 => Shown' # 0)
    BY <1>2, <1>3, <2>5, <2>6
  <2> QED BY <2>4, <2>7 DEF WindowMoves, NoOlderFrame, NeverBlank
<1>6. CASE \E result \in Results \cap {"Failed", "Lost"} : VulkanBroken(f, result)
  <2>1. vulkan' = FALSE /\ DeferHide /\ UNCHANGED <<newest, glAttached>>
    BY <1>6 DEF VulkanBroken
  <2>2. WindowOK'
    BY <1>4, <2>1 DEF WindowOK, DeferHide, contentVars
  <2>3. UNCHANGED Shown /\ Shown \in Nat
    BY <1>3, <2>1 DEF DeferHide, contentVars, Shown
  <2> QED BY <2>2, <2>3 DEF WindowMoves, NoOlderFrame, NeverBlank
<1>7. CASE UNCHANGED <<flagVars, handoffVars, contentVars, newest, vulkan, glAttached>>
  <2>1. WindowOK'
    BY <1>4, <1>7 DEF WindowOK, flagVars, handoffVars, contentVars
  <2>2. UNCHANGED Shown /\ Shown \in Nat
    BY <1>3, <1>7 DEF contentVars, Shown
  <2> QED BY <2>1, <2>2 DEF WindowMoves, NoOlderFrame, NeverBlank
<1> QED BY <1>5, <1>6, <1>7 DEF VulkanFinish

\* trackb_prepare_render: GL's texture gets a frame that is not stale.
LEMMA PrepareRenderMoves ==
  ASSUME IInv, WindowOK, PrepareRender
  PROVE  WindowMoves
<1>1. /\ UNCHANGED <<owns, hidePending, glHandoff, vkHandoff, browserVisible, glBuf, vkBuf, serial, vulkan>>
      /\ UNCHANGED <<glAttached, holder>> /\ UNCHANGED Shown /\ holder = None
  BY DEF PrepareRender, handoffVars, browserVars, frameVars, Shown
<1>2. newest \in Nat /\ glTex \in Nat /\ vkBuf \in Nat /\ glBuf \in Nat /\ Shown \in Nat
  BY WindowNumbers DEF Shown
<1>3. \/ UNCHANGED <<newest, glTex, frameReady>>
      \/ newest' = glTex' /\ newest < newest' /\ newest' \in Nat
  <2>1. TypeOK /\ layerQueue \in Seq(Drawables) /\ queuedSerial \in [Drawables -> Serials] /\ Serials \subseteq Nat
    BY Counts DEF IInv, TypeOK, Serials
  <2>2. FirstFresh \in 1..(Len(layerQueue) + 1) /\ Len(layerQueue) \in Nat
    BY <2>1, FirstFreshFacts, LenProperties
  <2>3. CASE FirstFresh <= Len(layerQueue)
    <3>1. PICK d : d = layerQueue[FirstFresh]
      OBVIOUS
    <3>2. d \in Drawables
      BY <2>1, <2>2, <2>3, <3>1, ElementOfSeq
    <3>3. queuedSerial[d] \in Nat
      BY <2>1, <3>2
    <3>4. newest < queuedSerial[d]
      BY <1>2, <2>1, <2>3, <3>1, <3>3, FirstFreshFacts DEF Stale
    <3>5. newest' = queuedSerial[d] /\ glTex' = queuedSerial[d]
      BY <2>3, <3>1 DEF PrepareRender
    <3> QED BY <3>3, <3>4, <3>5
  <2>4. CASE ~(FirstFresh <= Len(layerQueue))
    BY <2>4 DEF PrepareRender
  <2> QED BY <2>3, <2>4
<1>4. glBuf' <= glTex' /\ glTex' <= newest' /\ vkBuf' <= newest' /\ ((glTex' = glTex /\ frameReady' = frameReady) \/ vkBuf' <= glTex')
  BY <1>1, <1>2, <1>3 DEF WindowOK
<1>5. WindowOK'
  BY <1>1, <1>4 DEF WindowOK
<1> QED BY <1>1, <1>2, <1>5 DEF WindowMoves, NoOlderFrame, NeverBlank

\* The flush, the handoffs and the browser.
LEMMA WindowStepsMove ==
  ASSUME IInv, WindowOK, WindowStep \/ UserStep
  PROVE  WindowMoves
<1>1. UNCHANGED <<newest, holder, serial, vulkan, glAttached>>
  BY DEF WindowStep, UserStep, frameVars, routeVars
<1>2. newest \in Nat /\ glTex \in Nat /\ vkBuf \in Nat /\ glBuf \in Nat /\ Shown \in Nat
  BY WindowNumbers DEF Shown
<1>3. /\ owns \in BOOLEAN /\ hidePending \in BOOLEAN /\ frameReady \in BOOLEAN /\ glHandoff \in BOOLEAN
      /\ vkHandoff \in BOOLEAN /\ current \in BOOLEAN
  BY DEF IInv, TypeOK
<1>4. CASE CGLFlushDrawable
  <2>1. /\ ~owns /\ glTex # 0 /\ glBuf' = glTex /\ (hidePending => frameReady) /\ hidePending' = FALSE
        /\ UNCHANGED <<owns, frameReady, glTex, vkBuf>>
    BY <1>4 DEF CGLFlushDrawable
  <2>2. (hidePending => vkHandoff' = FALSE) /\ (~hidePending => UNCHANGED <<glHandoff, vkHandoff>>)
    BY <1>4 DEF CGLFlushDrawable, handoffVars
  <2>3. glBuf <= glTex /\ glTex <= newest /\ vkBuf <= newest
    BY DEF WindowOK
  <2>4. glHandoff' => vkBuf' <= glBuf'
    <3>1. CASE hidePending
      BY <2>1, <3>1 DEF WindowOK
    <3>2. CASE ~hidePending
      <4>1. glHandoff' => vkBuf <= glBuf
        BY <2>2, <3>2 DEF WindowOK
      <4>2. vkBuf <= glBuf => vkBuf <= glTex
        BY <1>2, <2>3
      <4> QED BY <2>1, <4>1, <4>2
    <3> QED BY <3>1, <3>2
  <2>5. ~vkHandoff'
    BY <2>1, <2>2 DEF WindowOK
  <2>6. WindowOK'
    BY <1>1, <1>2, <2>1, <2>3, <2>4, <2>5 DEF WindowOK
  <2>7. Shown' >= Shown /\ Shown' # 0
    BY <1>2, <2>1, <2>3 DEF Shown
  <2> QED BY <2>6, <2>7 DEF WindowMoves, NoOlderFrame, NeverBlank
<1>5. CASE CompleteGLHandoff
  <2>1. /\ glHandoff /\ glBuf # 0 /\ glHandoff' = FALSE /\ vkBuf' \in {0, vkBuf}
        /\ UNCHANGED <<owns, hidePending, frameReady, vkHandoff, glTex, glBuf>>
    BY <1>5 DEF CompleteGLHandoff, flagVars
  <2>2. vkBuf' <= vkBuf
    BY <1>2, <2>1
  <2>3. WindowOK'
    BY <1>1, <1>2, <2>1, <2>2 DEF WindowOK
  <2>4. Shown' >= Shown /\ Shown' # 0
    BY <1>2, <2>1 DEF Shown, WindowOK
  <2> QED BY <2>3, <2>4 DEF WindowMoves, NoOlderFrame, NeverBlank
<1>6. CASE CompleteVulkanHandoff
  <2>1. /\ vkHandoff /\ vkBuf # 0 /\ vkHandoff' = FALSE /\ glBuf' \in {0, glBuf}
        /\ UNCHANGED <<owns, hidePending, frameReady, glHandoff, glTex, vkBuf>>
    BY <1>6 DEF CompleteVulkanHandoff, flagVars
  <2>2. owns /\ ~glHandoff
    BY <2>1 DEF WindowOK
  <2>3. glBuf' <= glTex
    BY <1>2, <2>1 DEF WindowOK
  <2>4. WindowOK'
    BY <1>1, <1>2, <2>1, <2>2, <2>3 DEF WindowOK
  <2>5. Shown' = Shown
    BY <2>1 DEF Shown
  <2> QED BY <1>2, <2>4, <2>5 DEF WindowMoves, NoOlderFrame, NeverBlank
<1>7. CASE HideWindow
  <2>1. /\ glHandoff' = FALSE /\ vkHandoff' = FALSE /\ vkBuf' = (IF glHandoff THEN 0 ELSE vkBuf)
        /\ UNCHANGED <<owns, hidePending, frameReady, glTex, glBuf>>
    BY <1>7 DEF HideWindow, flagVars
  <2>2. vkBuf' <= vkBuf
    BY <1>2, <2>1
  <2>3. WindowOK'
    BY <1>1, <1>2, <2>1, <2>2 DEF WindowOK
  <2>4. Shown' >= Shown
    BY <1>2, <2>1 DEF Shown, WindowOK
  <2>5. Shown # 0 => Shown' # 0
    BY <1>2, <2>1 DEF Shown, WindowOK
  <2> QED BY <2>3, <2>4, <2>5 DEF WindowMoves, NoOlderFrame, NeverBlank
<1>8. CASE PumpBrowser
  <2>1. UNCHANGED <<owns, hidePending, frameReady, glTex>>
    BY <1>8 DEF PumpBrowser, flagVars
  <2>2. CASE current
    <3>1. browserVisible' = TRUE /\ glHandoff' = FALSE /\ vkHandoff' = FALSE /\ glBuf' = 0 /\ vkBuf' = 0
      BY <1>3, <1>8, <2>2 DEF PumpBrowser
    <3>2. WindowOK'
      BY <1>1, <1>2, <2>1, <3>1 DEF WindowOK
    <3>3. Shown' = 0
      BY <3>1 DEF Shown
    <3> QED BY <3>1, <3>2, <3>3 DEF WindowMoves, NoOlderFrame, NeverBlank
  <2>3. CASE ~current
    <3>1. UNCHANGED <<glHandoff, vkHandoff, glBuf, vkBuf>>
      BY <1>8, <2>3 DEF PumpBrowser, handoffVars
    <3>2. WindowOK'
      BY <1>1, <2>1, <3>1 DEF WindowOK
    <3>3. Shown' = Shown
      BY <3>1 DEF Shown
    <3> QED BY <1>2, <3>2, <3>3 DEF WindowMoves, NoOlderFrame, NeverBlank
  <2> QED BY <2>2, <2>3
<1>9. CASE TogglePage \/ UNCHANGED windowVars
  <2>1. UNCHANGED <<owns, hidePending, frameReady, glHandoff, vkHandoff, glTex, glBuf, vkBuf>>
    BY <1>9 DEF TogglePage, windowVars, flagVars, handoffVars, contentVars
  <2>2. WindowOK' /\ Shown' = Shown
    BY <1>1, <2>1 DEF WindowOK, Shown
  <2> QED BY <1>2, <2>2 DEF WindowMoves, NoOlderFrame, NeverBlank
<1> QED BY <1>4, <1>5, <1>6, <1>7, <1>8, <1>9 DEF WindowStep, UserStep

\* Whatever commits late, is queued for GL or is redrawn, and whichever route
\* shows it, the window never goes back to an older frame, and once a frame
\* shows it is empty only while a browser page is open.
THEOREM WindowOnlyMovesOn == Spec => WindowKeepsNewest
<1>1. Init => WindowOK
  BY DEF Init, WindowInit, WindowOK
<1>2. IInv /\ WindowOK /\ [Next]_vars => WindowOK' /\ [NoOlderFrame /\ NeverBlank]_vars
  <2> SUFFICES ASSUME IInv, WindowOK, [Next]_vars
               PROVE  WindowMoves
    BY DEF WindowMoves
  <2>1. CASE UNCHANGED vars
    <3>1. UNCHANGED <<windowVars, newest, holder, vulkan, glAttached, serial>>
      BY <2>1 DEF vars, frameVars, routeVars
    <3> QED BY <3>1, WindowSame
  <2>2. CASE \E f \in Frames : \/ \E d \in Drawables : NextDrawable(f, d)
                               \/ CommitRoute(f) \/ CommitSubmit(f) \/ Abandon(f) \/ PresentDrawable(f)
                               \/ EnqueueGL(f) \/ QueuePresent(f) \/ CopyCompleted(f)
    BY <2>2, FrameStepsMove
  <2>3. CASE \E f \in Frames : StartVulkanPresentation(f) \/ VulkanDrop(f)
    BY <2>3, RouteChangesMove
  <2>4. CASE \E f \in Frames : VulkanTakeover(f)
    BY <2>4, VulkanTakeoverMoves
  <2>5. CASE \E f \in Frames : VulkanFinish(f)
    BY <2>5, VulkanFinishMoves
  <2>6. CASE PrepareRender
    BY <2>6, PrepareRenderMoves
  <2>7. CASE WindowStep \/ UserStep
    BY <2>7, WindowStepsMove
  <2> QED BY <2>1, <2>2, <2>3, <2>4, <2>5, <2>6, <2>7 DEF Next, PresentStep
<1> QED BY <1>1, <1>2, InitKeeps, StepKeeps, PTL DEF Spec, WindowKeepsNewest
=============================================================================
