------------------------- MODULE UploadQueueProofs -------------------------
(***************************************************************************)
(* Proofs about UploadQueue, for any ring, block, alignment, batch limit   *)
(* and sizes: what is staged is kept, read and applied exactly and in      *)
(* order, an idle queue holds nothing, and begin() waits only when the     *)
(* ring is full.                                                           *)
(***************************************************************************)
EXTENDS UploadQueue, SequenceTheorems, TLAPS

-----------------------------------------------------------------------------
(* The inductive invariant *)

Memory == UNION {[0..(c - 1) -> Nat] : c \in Nat}
Batch == [staging : BOOLEAN, capacity : Nat, mem : Memory, used : Nat, ops : Seq(Op),
          pending : BOOLEAN, fence : BOOLEAN, resources : SUBSET Images, lost : BOOLEAN]
Call == [image : Images, size : Sizes \cup {0}, slot : Slots]
WorkItem == [slot : Slots \cup {None}, id : Nat]

BatchTyped(b) == b \in Batch /\ b.mem \in [0..(b.capacity - 1) -> Nat] /\ Len(b.ops) <= MaxOps
BatchesTyped == batch = [s \in Slots |-> batch[s]] /\ \A s \in Slots : BatchTyped(batch[s])
CursorTyped == current \in Slots \cup {None} /\ cursor \in Slots /\ request \in Call \cup {None}
QueueTyped == gpuQueue \in Seq(WorkItem) /\ staged \in Nat /\ applied \in Nat
RestTyped == /\ needsService \in BOOLEAN /\ textures \subseteq Images /\ polling \subseteq Pollers
             /\ alive \in BOOLEAN
Typed == BatchesTyped /\ CursorTyped /\ QueueTyped /\ RestTyped

\* What is submitted and not finished and, at the end, the batch that is recorded.
Work == FlushedQueue

\* A batch is there once, and is pending with its fence unsignalled exactly
\* while it is submitted.
Queued(s) == \E k \in 1..Len(gpuQueue) : gpuQueue[k].slot = s
OnceOK == \A j, k \in 1..Len(Work) : Work[j].slot # None /\ Work[j].slot = Work[k].slot => j = k
Running(s) == batch[s].pending /\ ~batch[s].fence
FencesOK == \A s \in Slots : Queued(s) <=> Running(s)

\* The batch's operations have their bytes and their images.
Holds(b) ==
  /\ b.used <= b.capacity
  /\ \A n \in 1..Len(b.ops) :
       /\ b.ops[n].image \in b.resources /\ b.ops[n].offset + b.ops[n].size <= b.used
       /\ \A k \in b.ops[n].offset..(b.ops[n].offset + b.ops[n].size - 1) : b.mem[k] = b.ops[n].id
InWork(s) == \E k \in 1..Len(Work) : Work[k].slot = s
HoldsOK == \A s \in Slots : InWork(s) => Holds(batch[s])

\* Memory and images are kept by batches in use, and the hint tells of those.
InUse(s) == batch[s].pending \/ s = current
KeptOK ==
  /\ \A s \in Slots : batch[s].resources # {} \/ batch[s].capacity > Block => InUse(s)
  /\ needsService \/ \A s \in Slots : ~InUse(s)
  /\ current # None => ~batch[current].pending

\* A call inside begin() has the slot before the cursor.
After(s) == IF s + 1 = Ring THEN 0 ELSE s + 1
RequestOK == request # None => current = None /\ cursor = After(request.slot)

\* The slot whose turn is the oldest, and how much later the turn of s was.
Oldest == IF request = None THEN cursor ELSE request.slot
Turn(o, s) == IF s >= o THEN s - o ELSE s + Ring - o

\* The batches with a later turn than one that is not finished were submitted
\* after it, or their turn ended in an exception.
LaterIn(j, t) == \E k \in 1..Len(Work) : j < k /\ Work[k].slot = t
RingOK ==
  \A j \in 1..Len(Work) : Work[j].slot # None =>
    \A t \in Slots : Turn(Oldest, Work[j].slot) < Turn(Oldest, t) => batch[t].lost \/ LaterIn(j, t)

IInv == Typed /\ OnceOK /\ FencesOK /\ HoldsOK /\ KeptOK /\ RequestOK /\ RingOK /\ InOrder

\* There is a ring, copies are aligned to something, a batch takes an operation.
Sized == /\ Ring \in Nat \ {0} /\ Align \in Nat \ {0} /\ MaxOps \in Nat \ {0} /\ Block \in Nat
         /\ Sizes \subseteq Nat /\ None \notin Slots /\ None \notin Call

-----------------------------------------------------------------------------
(* The operations on one batch *)

\* A copy's offset is past what is used.
LEMMA Aligned == ASSUME Sized, NEW n \in Nat PROVE AlignUp(n) \in Nat /\ AlignUp(n) >= n
<1>1. Align \in Nat \ {0}
  BY DEF Sized
<1>2. PICK q \in Nat : q = (n + Align - 1) \div Align
  BY <1>1, SMTT(30)
<1>3. q * Align >= n /\ q * Align \in Nat
  BY <1>1, <1>2, SMTT(30)
<1> QED BY <1>2, <1>3 DEF AlignUp

LEMMA AppendFacts ==
  ASSUME NEW S, NEW q \in Seq(S), NEW x \in S
  PROVE  /\ Append(q, x) \in Seq(S) /\ Len(q) \in Nat /\ Len(Append(q, x)) = Len(q) + 1
         /\ \A k \in 1..Len(q) : Append(q, x)[k] = q[k]
         /\ Append(q, x)[Len(q) + 1] = x
BY AppendProperties

LEMMA OpFields == ASSUME Sized, NEW op \in Op PROVE op.offset \in Nat /\ op.size \in Nat /\ op.id \in Nat
<1>1. op.offset \in Nat /\ op.size \in Sizes \cup {0} /\ op.id \in Nat
  BY DEF Op
<1>2. Sizes \subseteq Nat /\ 0 \in Nat
  BY DEF Sized
<1> QED BY <1>1, <1>2, Zenon

\* Bytes behind the used ones are not among them.
LEMMA Apart ==
  ASSUME NEW o \in Nat, NEW z \in Nat, NEW u \in Nat, NEW c \in Nat, NEW p \in Nat, NEW size \in Nat,
         o + z <= u, u <= c, p >= u, NEW k \in o..(o + z - 1)
  PROVE  k \in 0..(c - 1) /\ k \notin p..(p + size - 1)
OBVIOUS

\* The fields of a batch.
LEMMA BatchFields ==
  ASSUME NEW b, BatchTyped(b)
  PROVE  /\ b \in Batch /\ b.staging \in BOOLEAN /\ b.capacity \in Nat /\ b.mem \in [0..(b.capacity - 1) -> Nat]
         /\ b.used \in Nat /\ b.ops \in Seq(Op) /\ Len(b.ops) \in Nat /\ b.pending \in BOOLEAN /\ b.fence \in BOOLEAN
         /\ b.resources \in SUBSET Images /\ b.lost \in BOOLEAN
         /\ Len(b.ops) <= MaxOps
<1>1. b \in Batch
  BY DEF BatchTyped
<1>2. b.ops \in Seq(Op)
  BY <1>1 DEF Batch
<1> QED BY <1>1, <1>2 DEF BatchTyped, Batch

\* A batch the GPU is done with, and one without its buffer.
LEMMA FinishedFacts ==
  ASSUME NEW b, BatchTyped(b)
  PROVE  /\ BatchTyped(Finished(b)) /\ Finished(b).resources = {} /\ ~Finished(b).pending
         /\ Finished(b).capacity = b.capacity /\ Finished(b).staging = b.staging
         /\ Finished(b).fence = b.fence /\ Finished(b).ops = b.ops /\ Finished(b).lost = b.lost
BY BatchFields DEF Finished, BatchTyped, Batch

LEMMA FreeStagingFacts ==
  ASSUME NEW b, BatchTyped(b)
  PROVE  /\ BatchTyped(FreeStaging(b)) /\ FreeStaging(b).capacity = 0 /\ FreeStaging(b).resources = b.resources
         /\ FreeStaging(b).pending = b.pending /\ FreeStaging(b).fence = b.fence /\ FreeStaging(b).ops = b.ops
         /\ FreeStaging(b).lost = b.lost
<1>1. NoBytes \in [0..(0 - 1) -> Nat] /\ NoBytes \in Memory
  <2>1. 0..(0 - 1) = {}
    OBVIOUS
  <2>2. NoBytes \in [0..(0 - 1) -> Nat]
    BY <2>1 DEF NoBytes
  <2> QED BY <2>2 DEF Memory
<1>2. b \in Batch /\ Len(b.ops) <= MaxOps
  BY DEF BatchTyped
<1>3. /\ FreeStaging(b) \in Batch /\ FreeStaging(b).capacity = 0 /\ FreeStaging(b).mem = NoBytes
      /\ FreeStaging(b).resources = b.resources
      /\ FreeStaging(b).pending = b.pending /\ FreeStaging(b).fence = b.fence /\ FreeStaging(b).ops = b.ops
      /\ FreeStaging(b).lost = b.lost
  BY <1>1, <1>2 DEF FreeStaging, Batch
<1> QED BY <1>1, <1>2, <1>3 DEF BatchTyped

LEMMA NewBatchTyped ==
  ASSUME Sized
  PROVE  BatchTyped(NewBatch) /\ NewBatch.capacity = 0 /\ NewBatch.resources = {} /\ ~NewBatch.pending
<1>1. NoBytes \in [0..(0 - 1) -> Nat] /\ NoBytes \in Memory
  <2>1. 0..(0 - 1) = {}
    OBVIOUS
  <2>2. NoBytes \in [0..(0 - 1) -> Nat]
    BY <2>1 DEF NoBytes
  <2> QED BY <2>2 DEF Memory
<1>2. <<>> \in Seq(Op) /\ Len(<<>>) = 0
  OBVIOUS
<1>3. NewBatch \in Batch
  BY <1>1, <1>2 DEF NewBatch, Batch
<1>4. NewBatch.capacity = 0 /\ NewBatch.resources = {} /\ ~NewBatch.pending /\ NewBatch.mem = NoBytes /\ NewBatch.ops = <<>>
  BY DEF NewBatch
<1>5. Len(NewBatch.ops) <= MaxOps
  BY <1>2, <1>4 DEF Sized
<1> QED BY <1>1, <1>3, <1>4, <1>5 DEF BatchTyped

LEMMA ReclaimedFacts ==
  ASSUME Sized, NEW b, BatchTyped(b)
  PROVE  /\ BatchTyped(Reclaimed(b)) /\ Reclaimed(b).resources = {} /\ ~Reclaimed(b).pending
         /\ Reclaimed(b).capacity <= Block /\ Reclaimed(b).lost = b.lost
<1>1. PICK f : f = Finished(b)
  OBVIOUS
<1>2. /\ BatchTyped(f) /\ f.resources = {} /\ ~f.pending /\ f.capacity = b.capacity /\ f.lost = b.lost
  BY <1>1, FinishedFacts
<1>3. /\ BatchTyped(FreeStaging(f)) /\ FreeStaging(f).capacity = 0 /\ FreeStaging(f).resources = {}
      /\ FreeStaging(f).pending = f.pending /\ FreeStaging(f).lost = f.lost
  BY <1>2, FreeStagingFacts
<1>4. CASE b.capacity > Block
  BY <1>1, <1>2, <1>3, <1>4 DEF Reclaimed, Sized
<1>5. CASE ~(b.capacity > Block)
  <2>1. b.capacity <= Block
    BY <1>5, BatchFields DEF Sized
  <2> QED BY <1>1, <1>2, <1>5, <2>1 DEF Reclaimed
<1> QED BY <1>4, <1>5

\* The batch begin() hands out: its buffer has room for the bytes.
Handed(b, size) == [WithStaging(Finished(b), size) EXCEPT !.used = 0, !.ops = <<>>, !.lost = FALSE]
LEMMA HandedFacts ==
  ASSUME Sized, NEW b, BatchTyped(b), NEW size \in Sizes \cup {0}
  PROVE  /\ BatchTyped(Handed(b, size)) /\ Handed(b, size).ops = <<>> /\ Handed(b, size).resources = {}
         /\ ~Handed(b, size).pending /\ Handed(b, size).fence = b.fence /\ ~Handed(b, size).lost
         /\ size <= Handed(b, size).capacity
<1>1. PICK f : f = Finished(b)
  OBVIOUS
<1>2. BatchTyped(f) /\ f.resources = {} /\ ~f.pending /\ f.fence = b.fence
  BY <1>1, FinishedFacts
<1>3. PICK w : w = WithStaging(f, size)
  OBVIOUS
<1>4. size \in Nat /\ f.capacity \in Nat /\ Block \in Nat /\ f \in Batch /\ Len(f.ops) <= MaxOps
  BY <1>2, BatchFields DEF Sized
<1>5. BatchTyped(w) /\ w.resources = {} /\ ~w.pending /\ w.fence = b.fence /\ size <= w.capacity
  <2>1. CASE ~NeedsStaging(f, size)
    BY <1>2, <1>3, <1>4, <2>1 DEF WithStaging, NeedsStaging
  <2>2. CASE NeedsStaging(f, size)
    <3>1. PICK c \in Nat : c = (IF size > Block THEN size ELSE Block) /\ size <= c
      BY <1>4
    <3>2. PICK m \in [0..(c - 1) -> Nat] : m = [k \in 0..(c - 1) |-> 0]
      OBVIOUS
    <3>3. m \in Memory
      BY <3>1, <3>2 DEF Memory
    <3>4. w = [f EXCEPT !.staging = TRUE, !.capacity = c, !.mem = m]
      BY <1>3, <2>2, <3>1, <3>2 DEF WithStaging
    <3>5. /\ w \in Batch /\ w.resources = f.resources /\ w.pending = f.pending /\ w.fence = f.fence
          /\ w.capacity = c /\ w.mem = m /\ w.ops = f.ops
      BY <1>4, <3>3, <3>4 DEF Batch
    <3> QED BY <1>2, <1>4, <3>1, <3>2, <3>5 DEF BatchTyped
  <2> QED BY <2>1, <2>2
<1>6. Handed(b, size) = [w EXCEPT !.used = 0, !.ops = <<>>, !.lost = FALSE]
  BY <1>1, <1>3 DEF Handed
<1>7. w \in Batch /\ w.mem \in [0..(w.capacity - 1) -> Nat]
  BY <1>5 DEF BatchTyped
<1>8. /\ Handed(b, size) \in Batch /\ Handed(b, size).ops = <<>> /\ Handed(b, size).resources = w.resources
      /\ Handed(b, size).pending = w.pending /\ Handed(b, size).fence = w.fence /\ ~Handed(b, size).lost
      /\ Handed(b, size).capacity = w.capacity /\ Handed(b, size).mem = w.mem
  <2>1. Handed(b, size) \in Batch
    <3>1. <<>> \in Seq(Op)
      OBVIOUS
    <3>2. PICK none \in Seq(Op) : none = <<>>
      BY <3>1
    <3>3. Handed(b, size) = [w EXCEPT !.used = 0, !.ops = none, !.lost = FALSE]
      BY <1>6, <3>2
    <3>4. w = [staging |-> w.staging, capacity |-> w.capacity, mem |-> w.mem, used |-> w.used, ops |-> w.ops,
               pending |-> w.pending, fence |-> w.fence, resources |-> w.resources, lost |-> w.lost]
      BY <1>7 DEF Batch
    <3>5. Handed(b, size) = [staging |-> w.staging, capacity |-> w.capacity, mem |-> w.mem, used |-> 0, ops |-> none,
               pending |-> w.pending, fence |-> w.fence, resources |-> w.resources, lost |-> FALSE]
      BY <3>3, <3>4
    <3>6. /\ w.staging \in BOOLEAN /\ w.capacity \in Nat /\ w.mem \in Memory /\ w.pending \in BOOLEAN
          /\ w.fence \in BOOLEAN /\ w.resources \in SUBSET Images
      BY <1>7 DEF Batch
    <3> QED BY <3>5, <3>6 DEF Batch
  <2>2. /\ Handed(b, size).ops = <<>> /\ Handed(b, size).resources = w.resources
        /\ Handed(b, size).capacity = w.capacity /\ Handed(b, size).mem = w.mem
    BY <1>6, <1>7 DEF Batch
  <2>3. Handed(b, size).pending = w.pending /\ Handed(b, size).fence = w.fence
    BY <1>6, <1>7 DEF Batch
  <2>4. ~Handed(b, size).lost
    BY <1>6, <1>7 DEF Batch
  <2> QED BY <2>1, <2>2, <2>3, <2>4
<1>9. Len(Handed(b, size).ops) <= MaxOps
  BY <1>8 DEF Sized
<1> QED BY <1>5, <1>7, <1>8, <1>9 DEF BatchTyped

\* The batch takes another operation of this size at this offset.
Room(b, offset, size) ==
  /\ offset + size <= b.capacity /\ Len(b.ops) < MaxOps
  /\ b.ops = <<>> \/ (Holds(b) /\ offset >= b.used)

\* One more operation, behind what is used: the earlier ones keep their bytes.
LEMMA RecordedFacts ==
  ASSUME Sized, staged \in Nat, NEW b, BatchTyped(b), NEW offset \in Nat, NEW image \in Images,
         NEW size \in Sizes \cup {0}, Room(b, offset, size),
         NEW r, r = Recorded(b, offset, image, size)
  PROVE  /\ BatchTyped(r) /\ Holds(r) /\ r.capacity = b.capacity /\ r.pending = b.pending /\ r.fence = b.fence
         /\ r.lost = b.lost /\ Len(r.ops) = Len(b.ops) + 1 /\ r.ops[Len(b.ops) + 1].id = staged + 1
         /\ \A n \in 1..Len(b.ops) : r.ops[n] = b.ops[n]
<1>0. offset + size <= b.capacity /\ Len(b.ops) < MaxOps /\ (b.ops = <<>> \/ (Holds(b) /\ offset >= b.used))
  BY DEF Room
<1>1. /\ b \in Batch /\ b.capacity \in Nat /\ b.mem \in [0..(b.capacity - 1) -> Nat] /\ b.used \in Nat
      /\ b.ops \in Seq(Op) /\ Len(b.ops) \in Nat /\ b.resources \in SUBSET Images /\ size \in Nat
  BY BatchFields DEF Sized
<1>2. PICK op \in Op : op = [id |-> staged + 1, image |-> image, offset |-> offset, size |-> size]
  <2>1. [id |-> staged + 1, image |-> image, offset |-> offset, size |-> size] \in Op
    BY DEF Op
  <2> QED BY <2>1
<1>3. PICK m \in [0..(b.capacity - 1) -> Nat] :
        m = [k \in DOMAIN b.mem |-> IF k \in offset..(offset + size - 1) THEN staged + 1 ELSE b.mem[k]]
  <2>1. DOMAIN b.mem = 0..(b.capacity - 1) /\ \A k \in 0..(b.capacity - 1) : b.mem[k] \in Nat
    BY <1>1
  <2>2. staged + 1 \in Nat
    OBVIOUS
  <2>3. \A k \in DOMAIN b.mem : (IF k \in offset..(offset + size - 1) THEN staged + 1 ELSE b.mem[k]) \in Nat
    BY <2>1, <2>2
  <2> QED BY <2>1, <2>3
<1>4. m \in Memory
  BY <1>1, <1>3 DEF Memory
<1>5. r = [b EXCEPT !.resources = @ \cup {image}, !.mem = m, !.ops = Append(@, op), !.used = offset + size]
  BY <1>2, <1>3 DEF Recorded
<1>6. PICK o \in Seq(Op) : o = Append(b.ops, op) /\ Len(o) = Len(b.ops) + 1 /\ o[Len(b.ops) + 1] = op
                           /\ \A n \in 1..Len(b.ops) : o[n] = b.ops[n]
  <2>1. b.ops \in Seq(Op)
    BY <1>1
  <2>2. /\ Append(b.ops, op) \in Seq(Op) /\ Len(Append(b.ops, op)) = Len(b.ops) + 1
        /\ Append(b.ops, op)[Len(b.ops) + 1] = op
        /\ \A n \in 1..Len(b.ops) : Append(b.ops, op)[n] = b.ops[n]
    BY <2>1, AppendFacts
  <2> QED BY <2>2
<1>7. PICK res \in SUBSET Images : res = b.resources \cup {image}
  BY <1>1
<1>8. r = [b EXCEPT !.resources = res, !.mem = m, !.ops = o, !.used = offset + size]
  BY <1>5, <1>6, <1>7
<1>9. /\ r \in Batch /\ r.resources = res /\ r.mem = m /\ r.ops = o /\ r.used = offset + size
      /\ r.capacity = b.capacity /\ r.pending = b.pending /\ r.fence = b.fence /\ r.lost = b.lost
  <2>1. b \in Batch /\ offset + size \in Nat
    BY <1>1
  <2>2. r \in Batch
    BY <1>4, <1>8, <2>1 DEF Batch
  <2>3. r.resources = res /\ r.mem = m /\ r.ops = o /\ r.used = offset + size
    BY <1>8, <2>1 DEF Batch
  <2>4. r.capacity = b.capacity /\ r.pending = b.pending /\ r.fence = b.fence /\ r.lost = b.lost
    BY <1>8, <2>1 DEF Batch
  <2> QED BY <2>2, <2>3, <2>4
<1>10. BatchTyped(r)
  BY <1>0, <1>1, <1>3, <1>6, <1>9, SMTT(30) DEF BatchTyped, Sized
<1>11. ASSUME NEW n \in 1..Len(r.ops)
       PROVE  /\ r.ops[n].image \in r.resources /\ r.ops[n].offset + r.ops[n].size <= r.used
              /\ \A k \in r.ops[n].offset..(r.ops[n].offset + r.ops[n].size - 1) : r.mem[k] = r.ops[n].id
  <2>1. CASE n = Len(b.ops) + 1
    <3>1. r.ops[n] = op /\ op.id = staged + 1 /\ op.image = image /\ op.offset = offset /\ op.size = size
      BY <1>2, <1>6, <1>9, <2>1
    <3>2. ASSUME NEW k \in offset..(offset + size - 1) PROVE r.mem[k] = staged + 1
      <4>1. k \in 0..(b.capacity - 1)
        BY <1>0, <1>1
      <4> QED BY <1>1, <1>3, <1>9, <4>1
    <3> QED BY <1>1, <1>7, <1>9, <3>1, <3>2
  <2>2. CASE n \in 1..Len(b.ops)
    <3>1. /\ b.ops[n].image \in b.resources /\ b.ops[n].offset + b.ops[n].size <= b.used /\ b.used <= b.capacity
          /\ \A k \in b.ops[n].offset..(b.ops[n].offset + b.ops[n].size - 1) : b.mem[k] = b.ops[n].id
          /\ offset >= b.used
      BY <1>0, <2>2 DEF Holds
    <3>2. b.ops[n] \in Op
      BY <1>1, <2>2
    <3>3. b.ops[n].offset \in Nat /\ b.ops[n].size \in Nat
      BY <3>2, OpFields
    <3>4. r.ops[n] = b.ops[n]
      BY <1>6, <1>9, <2>2
    <3>5. ASSUME NEW k \in b.ops[n].offset..(b.ops[n].offset + b.ops[n].size - 1) PROVE r.mem[k] = b.ops[n].id
      <4>1. /\ b.ops[n].offset + b.ops[n].size <= b.used /\ b.used <= b.capacity /\ offset >= b.used
            /\ b.used \in Nat /\ b.capacity \in Nat /\ size \in Nat
        BY <1>1, <3>1
      <4>2. k \in 0..(b.capacity - 1) /\ k \notin offset..(offset + size - 1)
        <5>1. PICK at \in Nat, z \in Nat, u \in Nat, c \in Nat :
                at = b.ops[n].offset /\ z = b.ops[n].size /\ u = b.used /\ c = b.capacity
          BY <3>3, <4>1
        <5>2. at + z <= u /\ u <= c /\ offset >= u /\ k \in at..(at + z - 1) /\ size \in Nat
          BY <3>5, <4>1, <5>1
        <5>3. k \in 0..(c - 1) /\ k \notin offset..(offset + size - 1)
          BY <5>2
        <5> QED BY <5>1, <5>3
      <4> QED BY <1>1, <1>3, <1>9, <3>1, <4>2
    <3>6. b.ops[n].offset + b.ops[n].size <= offset + size
      <4>1. b.ops[n].offset + b.ops[n].size <= b.used /\ offset >= b.used /\ b.used \in Nat /\ size \in Nat
        BY <1>1, <3>1
      <4> QED BY <3>3, <4>1
    <3>7. b.ops[n].image \in res
      BY <1>7, <3>1
    <3> QED BY <1>9, <3>4, <3>5, <3>6, <3>7
  <2> QED BY <1>1, <1>6, <1>9, <2>1, <2>2
<1>12. Holds(r)
  BY <1>0, <1>1, <1>9, <1>11 DEF Holds
<1> QED BY <1>1, <1>2, <1>6, <1>9, <1>10, <1>12

-----------------------------------------------------------------------------
(* The work under way *)

\* The submissions and, behind them, the batch that is recorded.
WorkOf(c, q) == IF c = None THEN q ELSE Append(q, [slot |-> c, id |-> 0])

LEMMA WorkElements ==
  ASSUME NEW c \in Slots \cup {None}, NEW q \in Seq(WorkItem)
  PROVE  /\ WorkOf(c, q) \in Seq(WorkItem) /\ Len(q) \in Nat
         /\ \A k \in 1..Len(q) : WorkOf(c, q)[k] = q[k]
         /\ c = None => Len(WorkOf(c, q)) = Len(q)
         /\ c # None => Len(WorkOf(c, q)) = Len(q) + 1 /\ WorkOf(c, q)[Len(q) + 1].slot = c
<1>1. CASE c = None
  BY <1>1 DEF WorkOf
<1>2. CASE c # None
  <2>1. PICK x \in WorkItem : x = [slot |-> c, id |-> 0] /\ x.slot = c
    <3>1. [slot |-> c, id |-> 0] \in WorkItem
      BY DEF WorkItem
    <3> QED BY <3>1
  <2>2. WorkOf(c, q) = Append(q, x)
    BY <1>2, <2>1 DEF WorkOf
  <2> QED BY <1>2, <2>1, <2>2, AppendFacts
<1> QED BY <1>1, <1>2

LEMMA WorkFacts ==
  ASSUME Sized, IInv
  PROVE  /\ Work \in Seq(WorkItem) /\ Len(gpuQueue) \in Nat /\ Len(Work) \in Nat
         /\ \A k \in 1..Len(Work) : Work[k] \in WorkItem
         /\ \A k \in 1..Len(gpuQueue) : k \in 1..Len(Work) /\ Work[k] = gpuQueue[k]
         /\ current = None => Work = gpuQueue
         /\ current # None => Len(Work) = Len(gpuQueue) + 1 /\ Work[Len(Work)].slot = current
         /\ \A s \in Slots : InWork(s) <=> Queued(s) \/ s = current
<1>1. current \in Slots \cup {None} /\ gpuQueue \in Seq(WorkItem) /\ Work = WorkOf(current, gpuQueue)
  BY DEF IInv, Typed, CursorTyped, QueueTyped, Work, FlushedQueue, WorkOf
<1>2. /\ Work \in Seq(WorkItem) /\ Len(gpuQueue) \in Nat
      /\ \A k \in 1..Len(gpuQueue) : Work[k] = gpuQueue[k]
      /\ current = None => Len(Work) = Len(gpuQueue)
      /\ current # None => Len(Work) = Len(gpuQueue) + 1 /\ Work[Len(gpuQueue) + 1].slot = current
  BY <1>1, WorkElements
<1>3. \A k \in 1..Len(Work) : Work[k] \in WorkItem
  BY <1>2
<1>4. \A k \in 1..Len(gpuQueue) : k \in 1..Len(Work)
  BY <1>2
<1>5. current # None => Work[Len(Work)].slot = current /\ Len(Work) \in 1..Len(Work)
  BY <1>2
<1>6. ASSUME NEW s \in Slots PROVE InWork(s) <=> Queued(s) \/ s = current
  <2>1. ASSUME InWork(s) PROVE Queued(s) \/ s = current
    <3>1. PICK k \in 1..Len(Work) : Work[k].slot = s
      BY <2>1 DEF InWork
    <3>2. CASE k \in 1..Len(gpuQueue)
      BY <1>2, <3>1, <3>2 DEF Queued
    <3>3. CASE k \notin 1..Len(gpuQueue)
      BY <1>2, <3>1, <3>3
    <3> QED BY <3>2, <3>3
  <2>2. ASSUME Queued(s) PROVE InWork(s)
    BY <1>2, <1>4, <2>2 DEF InWork, Queued
  <2>3. ASSUME s = current PROVE InWork(s)
    <3>1. s # None
      BY DEF Sized
    <3> QED BY <1>5, <2>3, <3>1 DEF InWork
  <2> QED BY <2>1, <2>2, <2>3
<1>7. current = None => Work = gpuQueue
  BY DEF Work, FlushedQueue
<1> QED BY <1>2, <1>3, <1>4, <1>5, <1>6, <1>7

\* The numbers of a submission.
LEMMA CommandNumbers ==
  ASSUME NEW x, x.slot = None PROVE Len(Numbers(x)) = 1 /\ Numbers(x)[1] = x.id
BY DEF Numbers

LEMMA BatchNumbers ==
  ASSUME NEW x, x.slot # None, batch[x.slot].ops \in Seq(Op)
  PROVE  /\ Len(Numbers(x)) = Len(batch[x.slot].ops) /\ Len(batch[x.slot].ops) \in Nat
         /\ \A j \in 1..Len(batch[x.slot].ops) : Numbers(x)[j] = batch[x.slot].ops[j].id
<1>1. PICK o \in Seq(Op) : o = batch[x.slot].ops
  OBVIOUS
<1>2. Numbers(x) = [k \in 1..Len(o) |-> o[k].id] /\ Len(o) \in Nat
  BY <1>1 DEF Numbers
<1> QED BY <1>1, <1>2

LEMMA NumbersKept ==
  ASSUME NEW x, x.slot # None => batch'[x.slot].ops = batch[x.slot].ops
  PROVE  Numbers(x)' = Numbers(x)
BY DEF Numbers

\* The place of a submission in the order, and InOrder in these terms.
Placed(w, k) == Follow(Numbers(w[k]), Before(w, k))
LEMMA OrderIs == InOrder <=> (alive => /\ \A k \in 1..Len(Work) : Placed(Work, k)
                                       /\ Before(Work, Len(Work) + 1) = staged)
BY DEF InOrder, Placed, Work

LEMMA OrderIsNext ==
  ASSUME NEW w, w = Work', alive' => (\A k \in 1..Len(w) : Placed(w, k)') /\ Before(w, Len(w) + 1)' = staged'
  PROVE  InOrder'
BY DEF InOrder, Placed, Work

\* ... when no number changes,
LEMMA OrderKept ==
  ASSUME Sized, IInv, Work' = Work, UNCHANGED <<staged, applied>>, alive' => alive,
         \A s \in Slots : InWork(s) => batch'[s].ops = batch[s].ops
  PROVE  InOrder'
<1>1. PICK w \in Seq(WorkItem) : w = Work /\ \A k \in 1..Len(w) : w[k] \in WorkItem
  BY WorkFacts
<1>2. ASSUME NEW k \in 1..Len(w) PROVE Numbers(w[k])' = Numbers(w[k])
  <2>1. w[k].slot \in Slots \cup {None}
    BY <1>1 DEF WorkItem
  <2>2. w[k].slot # None => batch'[w[k].slot].ops = batch[w[k].slot].ops
    BY <1>1, <2>1 DEF InWork
  <2> QED BY <2>2, NumbersKept
<1>3. ASSUME NEW k \in 1..(Len(w) + 1) PROVE Before(w, k)' = Before(w, k)
  <2>1. CASE k = 1
    BY <2>1 DEF Before
  <2>2. CASE k # 1
    <3>1. k - 1 \in 1..Len(w)
      BY <1>1, <2>2
    <3> QED BY <1>2, <2>2, <3>1 DEF Before
  <2> QED BY <2>1, <2>2
<1>4. ASSUME alive' PROVE (\A k \in 1..Len(w) : Placed(w, k)') /\ Before(w, Len(w) + 1)' = staged'
  <2>1. (\A k \in 1..Len(w) : Placed(w, k)) /\ Before(w, Len(w) + 1) = staged /\ Len(w) \in Nat
    BY <1>1, <1>4, OrderIs DEF IInv
  <2>2. ASSUME NEW k \in 1..Len(w) PROVE Placed(w, k)'
    <3>1. k \in 1..(Len(w) + 1)
      BY <2>1
    <3> QED BY <1>2, <1>3, <2>1, <3>1 DEF Placed
  <2>3. Len(w) + 1 \in 1..(Len(w) + 1)
    BY <2>1
  <2> QED BY <1>3, <2>1, <2>2, <2>3
<1> QED BY <1>1, <1>4, OrderIsNext

\* ... when one submission or batch with the next number is added,
LEMMA OrderAppended ==
  ASSUME Sized, IInv, NEW x \in WorkItem, Work' = Append(Work, x), staged' = staged + 1, applied' = applied,
         alive' => alive, \A s \in Slots : InWork(s) => batch'[s].ops = batch[s].ops,
         Len(Numbers(x)') = 1, Numbers(x)'[1] = staged + 1
  PROVE  InOrder'
<1>1. PICK w \in Seq(WorkItem) : w = Work /\ \A k \in 1..Len(w) : w[k] \in WorkItem
  BY WorkFacts
<1>2. PICK w2 \in Seq(WorkItem) : /\ w2 = Work' /\ Len(w) \in Nat /\ Len(w2) = Len(w) + 1 /\ w2[Len(w) + 1] = x
                                  /\ \A k \in 1..Len(w) : w2[k] = w[k]
  BY <1>1, AppendFacts
<1>3. ASSUME NEW k \in 1..Len(w) PROVE Numbers(w2[k])' = Numbers(w[k])
  <2>1. w[k].slot \in Slots \cup {None} /\ w2[k] = w[k]
    BY <1>1, <1>2 DEF WorkItem
  <2>2. w[k].slot # None => batch'[w[k].slot].ops = batch[w[k].slot].ops
    BY <1>1, <2>1 DEF InWork
  <2> QED BY <2>1, <2>2, NumbersKept
<1>4. ASSUME NEW k \in 1..(Len(w) + 1) PROVE Before(w2, k)' = Before(w, k)
  <2>1. CASE k = 1
    BY <2>1 DEF Before
  <2>2. CASE k # 1
    <3>1. k - 1 \in 1..Len(w)
      BY <1>2, <2>2
    <3> QED BY <1>3, <2>2, <3>1 DEF Before
  <2> QED BY <2>1, <2>2
<1>5. ASSUME alive' PROVE (\A k \in 1..Len(w2) : Placed(w2, k)') /\ Before(w2, Len(w2) + 1)' = staged'
  <2>1. (\A k \in 1..Len(w) : Placed(w, k)) /\ Before(w, Len(w) + 1) = staged /\ staged \in Nat
    BY <1>1, <1>5, OrderIs DEF IInv, Typed, QueueTyped
  <2>2. ASSUME NEW k \in 1..Len(w2) PROVE Placed(w2, k)'
    <3>1. CASE k \in 1..Len(w)
      <4>1. k \in 1..(Len(w) + 1) /\ Placed(w, k)
        BY <1>2, <2>1, <3>1
      <4> QED BY <1>3, <1>4, <3>1, <4>1 DEF Placed
    <3>2. CASE k = Len(w) + 1
      <4>1. Before(w2, k)' = staged /\ w2[k] = x
        BY <1>2, <1>4, <2>1, <3>2
      <4>2. Follow(Numbers(x)', staged)
        BY <2>1 DEF Follow
      <4> QED BY <4>1, <4>2 DEF Placed
    <3> QED BY <1>2, <3>1, <3>2
  <2>3. Before(w2, Len(w2) + 1)' = staged + 1
    <3>1. Len(w2) + 1 # 1 /\ (Len(w2) + 1) - 1 = Len(w) + 1
      BY <1>2
    <3>2. Last(Numbers(x)') = staged + 1
      BY DEF Last
    <3> QED BY <1>2, <3>1, <3>2 DEF Before
  <2> QED BY <2>2, <2>3
<1> QED BY <1>2, <1>5, OrderIsNext

\* ... when the oldest is finished,
LEMMA OrderTaken ==
  ASSUME Sized, IInv, NEW w2 \in Seq(WorkItem), w2 = Work', 1 \in 1..Len(Work), Len(w2) = Len(Work) - 1,
         \A k \in 1..Len(w2) : w2[k] = Work[k + 1], staged' = staged,
         applied' = applied + Len(Numbers(Work[1])), alive' => alive,
         \A s \in Slots : InWork(s) => batch'[s].ops = batch[s].ops
  PROVE  InOrder'
<1>1. PICK w \in Seq(WorkItem) : w = Work /\ \A k \in 1..Len(w) : w[k] \in WorkItem
  BY WorkFacts
<1>2. PICK n \in Nat : n = Len(w2) /\ Len(w) = n + 1 /\ \A k \in 1..n : w2[k] = w[k + 1]
  BY <1>1
<1>3. ASSUME NEW k \in 1..n PROVE Numbers(w2[k])' = Numbers(w[k + 1])
  <2>1. k + 1 \in 1..Len(w) /\ w2[k] = w[k + 1]
    BY <1>2
  <2>2. w[k + 1].slot \in Slots \cup {None}
    BY <1>1, <2>1 DEF WorkItem
  <2>3. w[k + 1].slot # None => batch'[w[k + 1].slot].ops = batch[w[k + 1].slot].ops
    BY <1>1, <2>1, <2>2 DEF InWork
  <2> QED BY <2>1, <2>3, NumbersKept
<1>4. ASSUME alive' PROVE (\A k \in 1..n : Placed(w2, k)') /\ Before(w2, n + 1)' = staged'
  <2>1. (\A k \in 1..Len(w) : Placed(w, k)) /\ Before(w, Len(w) + 1) = staged /\ applied \in Nat
    BY <1>1, <1>4, OrderIs DEF IInv, Typed, QueueTyped
  <2>2. Last(Numbers(w[1])) = applied'
    <3>1. Follow(Numbers(w[1]), applied)
      BY <1>1, <2>1 DEF Placed, Before
    <3>2. Len(Numbers(w[1])) \in Nat
      <4>1. w[1] \in WorkItem
        BY <1>1
      <4>2. w[1].slot \in Slots \cup {None}
        BY <4>1 DEF WorkItem
      <4>3. CASE w[1].slot = None
        BY <4>3, CommandNumbers
      <4>4. CASE w[1].slot \in Slots
        <5>1. w[1].slot # None /\ batch[w[1].slot].ops \in Seq(Op)
          BY <4>4, BatchFields DEF Sized, IInv, Typed, BatchesTyped
        <5> QED BY <5>1, BatchNumbers
      <4> QED BY <4>2, <4>3, <4>4
    <3> QED BY <1>1, <3>1, <3>2 DEF Follow, Last
  <2>3. ASSUME NEW k \in 1..(n + 1) PROVE Before(w2, k)' = Before(w, k + 1)
    <3>1. k + 1 # 1 /\ (k + 1) - 1 = k
      OBVIOUS
    <3>2. CASE k = 1
      BY <2>2, <3>1, <3>2 DEF Before
    <3>3. CASE k # 1
      <4>1. k - 1 \in 1..n /\ (k - 1) + 1 = k
        BY <3>3
      <4> QED BY <1>3, <3>1, <3>3, <4>1 DEF Before
    <3> QED BY <3>2, <3>3
  <2>4. ASSUME NEW k \in 1..n PROVE Placed(w2, k)'
    <3>1. k + 1 \in 1..Len(w) /\ k \in 1..(n + 1)
      BY <1>2
    <3> QED BY <1>3, <2>1, <2>3, <3>1 DEF Placed
  <2>5. Before(w2, n + 1)' = staged'
    <3>1. n + 1 \in 1..(n + 1) /\ (n + 1) + 1 = Len(w) + 1
      BY <1>2
    <3> QED BY <2>1, <2>3, <3>1
  <2> QED BY <2>4, <2>5
<1> QED BY <1>2, <1>4, OrderIsNext

\* The last number of a submission that has one.
LEMMA LastNumber ==
  ASSUME Sized, IInv, NEW x \in WorkItem, Len(Numbers(x)) > 0 PROVE Last(Numbers(x)) \in Nat
<1>1. x.slot \in Slots \cup {None} /\ x.id \in Nat
  BY DEF WorkItem
<1>2. CASE x.slot = None
  BY <1>1, <1>2, CommandNumbers DEF Last
<1>3. CASE x.slot \in Slots
  <2>1. x.slot # None /\ batch[x.slot].ops \in Seq(Op)
    BY <1>3, BatchFields DEF Sized, IInv, Typed, BatchesTyped
  <2>2. PICK o \in Seq(Op) : o = batch[x.slot].ops
    BY <2>1
  <2>3. Len(o) \in Nat /\ Len(Numbers(x)) = Len(o) /\ Numbers(x)[Len(o)] = o[Len(o)].id /\ Len(o) \in 1..Len(o)
    BY <2>1, <2>2, BatchNumbers
  <2>4. o[Len(o)] \in Op
    BY <2>2, <2>3
  <2> QED BY <2>3, <2>4, OpFields DEF Last
<1> QED BY <1>1, <1>2, <1>3

\* ... and when the recorded batch gets another operation.
LEMMA OrderExtended ==
  ASSUME Sized, IInv, Work' = Work, staged' = staged + 1, applied' = applied, alive' => alive,
         current \in Slots, NEW o \in Seq(Op), o = batch[current].ops, NEW o2 \in Seq(Op), o2 = batch'[current].ops,
         Len(o2) = Len(o) + 1, o2[Len(o) + 1].id = staged + 1, \A n \in 1..Len(o) : o2[n] = o[n],
         \A s \in Slots : s # current => batch'[s].ops = batch[s].ops
  PROVE  InOrder'
<1>1. PICK w \in Seq(WorkItem) : w = Work /\ \A k \in 1..Len(w) : w[k] \in WorkItem
  BY WorkFacts
<1>2. PICK n \in Nat : n = Len(w) /\ n \in 1..Len(w) /\ w[n].slot = current /\ current # None
  BY <1>1, WorkFacts DEF Sized
<1>3. ASSUME NEW k \in 1..n, k # n PROVE Numbers(w[k])' = Numbers(w[k])
  <2>1. w[k].slot \in Slots \cup {None}
    BY <1>1, <1>2 DEF WorkItem
  <2>2. w[k].slot # current
    BY <1>1, <1>2, <1>3 DEF IInv, OnceOK
  <2>3. w[k].slot # None => batch'[w[k].slot].ops = batch[w[k].slot].ops
    BY <2>1, <2>2
  <2> QED BY <2>3, NumbersKept
<1>4. ASSUME NEW k \in 1..n PROVE Before(w, k)' = Before(w, k)
  <2>1. CASE k = 1
    BY <2>1 DEF Before
  <2>2. CASE k # 1
    <3>1. k - 1 \in 1..n /\ k - 1 # n
      BY <2>2
    <3> QED BY <1>3, <2>2, <3>1 DEF Before
  <2> QED BY <2>1, <2>2
<1>5. /\ Len(Numbers(w[n])) = Len(o) /\ Len(o) \in Nat /\ \A j \in 1..Len(o) : Numbers(w[n])[j] = o[j].id
  <2>1. PICK x : x = w[n] /\ x.slot # None /\ batch[x.slot].ops = o
    BY <1>2
  <2>2. /\ Len(Numbers(x)) = Len(batch[x.slot].ops) /\ Len(batch[x.slot].ops) \in Nat
        /\ \A j \in 1..Len(batch[x.slot].ops) : Numbers(x)[j] = batch[x.slot].ops[j].id
    BY <2>1, BatchNumbers
  <2> QED BY <2>1, <2>2
<1>6. Len(Numbers(w[n])') = Len(o) + 1 /\ \A j \in 1..(Len(o) + 1) : Numbers(w[n])'[j] = o2[j].id
  <2>1. Numbers(w[n])' = [k \in 1..Len(o2) |-> o2[k].id]
    BY <1>2 DEF Numbers
  <2> QED BY <1>5, <2>1
<1>7. ASSUME alive' PROVE (\A k \in 1..n : Placed(w, k)') /\ Before(w, n + 1)' = staged'
  <2>1. (\A k \in 1..n : Placed(w, k)) /\ Before(w, n + 1) = staged /\ staged \in Nat
    BY <1>1, <1>2, <1>7, OrderIs DEF IInv, Typed, QueueTyped
  <2>2. Follow(Numbers(w[n]), Before(w, n))
    BY <1>2, <2>1 DEF Placed
  <2>3. n + 1 # 1 /\ (n + 1) - 1 = n
    BY <1>2
  <2>4. staged = Last(Numbers(w[n]))
    BY <2>1, <2>3 DEF Before
  <2>5. PICK p \in Nat : p = Before(w, n)
    <3>1. CASE n = 1
      BY <3>1 DEF Before, IInv, Typed, QueueTyped
    <3>2. CASE n # 1
      <4>1. n - 1 \in 1..n
        BY <1>2, <3>2
      <4>2. w[n - 1] \in WorkItem /\ Len(Numbers(w[n - 1])) > 0
        BY <1>1, <1>2, <2>1, <4>1 DEF Placed, Follow
      <4> QED BY <3>2, <4>2, LastNumber DEF Before
    <3> QED BY <3>1, <3>2
  <2>6. Len(o) > 0 /\ (\A j \in 1..Len(o) : o[j].id = p + j) /\ staged = p + Len(o)
    <3>1. Len(o) > 0 /\ \A j \in 1..Len(o) : Numbers(w[n])[j] = p + j
      BY <1>5, <2>2, <2>5 DEF Follow
    <3>2. Len(o) \in 1..Len(o)
      BY <1>5, <3>1
    <3>3. staged = p + Len(o)
      BY <1>5, <2>4, <3>1, <3>2 DEF Last
    <3> QED BY <1>5, <3>1, <3>3
  <2>7. ASSUME NEW j \in 1..(Len(o) + 1) PROVE o2[j].id = p + j
    <3>1. CASE j \in 1..Len(o)
      BY <2>6, <3>1
    <3>2. CASE j = Len(o) + 1
      BY <1>5, <2>6, <3>2
    <3>3. Len(o) \in Nat
      BY <1>5
    <3> QED BY <3>1, <3>2, <3>3
  <2>8. Follow(Numbers(w[n])', p)
    BY <1>5, <1>6, <2>7 DEF Follow
  <2>9. ASSUME NEW k \in 1..n PROVE Placed(w, k)'
    <3>1. CASE k = n
      BY <1>2, <1>4, <2>5, <2>8, <3>1 DEF Placed
    <3>2. CASE k # n
      BY <1>3, <1>4, <2>1, <3>2 DEF Placed
    <3> QED BY <3>1, <3>2
  <2>10. Last(Numbers(w[n])') = staged + 1
    <3>1. Len(o) + 1 \in 1..(Len(o) + 1)
      BY <1>5
    <3> QED BY <1>6, <3>1 DEF Last
  <2> QED BY <2>3, <2>9, <2>10 DEF Before
<1> QED BY <1>1, <1>2, <1>7, OrderIsNext

-----------------------------------------------------------------------------
(* The turns of the ring *)

LEMMA NextIs == ASSUME Sized, NEW s \in Slots PROVE (s + 1) % Ring = After(s) /\ After(s) \in Slots
BY SMTT(30) DEF Sized, Slots, After

LEMMA TurnShift ==
  ASSUME Sized, NEW r \in Slots, NEW s \in Slots
  PROVE  /\ Turn(r, s) \in 0..(Ring - 1) /\ Turn(After(r), s) \in 0..(Ring - 1)
         /\ s = r => Turn(r, s) = 0 /\ Turn(After(r), s) = Ring - 1
         /\ s # r => Turn(After(r), s) = Turn(r, s) - 1
<1>1. Ring \in Nat \ {0} /\ r \in 0..(Ring - 1) /\ s \in 0..(Ring - 1)
  BY DEF Sized, Slots
<1>2. CASE r + 1 = Ring
  BY <1>1, <1>2 DEF Turn, After
<1>3. CASE r + 1 # Ring
  BY <1>1, <1>3 DEF Turn, After
<1> QED BY <1>2, <1>3

\* What was queued behind a batch stays behind it, when work is only added.
LEMMA LaterKept ==
  ASSUME NEW w, w = Work, NEW w2, w2 = Work', Len(w) \in Nat, Len(w2) \in Nat, Len(w) <= Len(w2),
         \A k \in 1..Len(w) : w2[k] = w[k], NEW j \in 1..Len(w), NEW t, LaterIn(j, t)
  PROVE  LaterIn(j, t)'
<1>1. PICK k \in 1..Len(w) : j < k /\ w[k].slot = t
  BY DEF LaterIn
<1>2. k \in 1..Len(w2) /\ w2[k].slot = t
  BY <1>1
<1> QED BY <1>1, <1>2 DEF LaterIn

\* Commands do not take part in the ring.
LEMMA RingKept ==
  ASSUME Sized, IInv, NEW w \in Seq(WorkItem), w = Work, NEW w2 \in Seq(WorkItem), w2 = Work', Len(w) <= Len(w2),
         \A k \in 1..Len(w) : w2[k] = w[k], \A k \in 1..Len(w2) : k \in 1..Len(w) \/ w2[k].slot = None,
         Oldest' = Oldest, \A s \in Slots : batch[s].lost => batch'[s].lost
  PROVE  RingOK'
<1>1. SUFFICES ASSUME NEW j \in 1..Len(w2), w2[j].slot # None, NEW t \in Slots, NEW o, o = Oldest',
                      Turn(o, w2[j].slot) < Turn(o, t)
               PROVE  batch'[t].lost \/ LaterIn(j, t)'
  BY DEF RingOK, Turn
<1>2. j \in 1..Len(w) /\ w2[j] = w[j] /\ Len(w) \in Nat /\ Len(w2) \in Nat
  BY <1>1
<1>3. batch[t].lost \/ LaterIn(j, t)
  BY <1>1, <1>2 DEF IInv, RingOK
<1>4. LaterIn(j, t) => LaterIn(j, t)'
  BY <1>2, LaterKept
<1> QED BY <1>3, <1>4

\* A slot takes its turn, which gives it work or ends in an exception.
LEMMA RingTurned ==
  ASSUME Sized, IInv, NEW w \in Seq(WorkItem), w = Work, NEW w2 \in Seq(WorkItem), w2 = Work', Len(w) <= Len(w2),
         \A k \in 1..Len(w) : w2[k] = w[k], NEW r \in Slots, ~InWork(r),
         \A k \in 1..Len(w2) : k \in 1..Len(w) \/ w2[k].slot = r,
         batch'[r].lost \/ (Len(w2) > Len(w) /\ w2[Len(w2)].slot = r),
         Oldest = r, Oldest' = After(r), \A s \in Slots : s # r /\ batch[s].lost => batch'[s].lost
  PROVE  RingOK'
<1>0. Len(w) \in Nat /\ Len(w2) \in Nat /\ After(r) \in Slots
  BY NextIs
<1>1. SUFFICES ASSUME NEW j \in 1..Len(w2), w2[j].slot # None, NEW t \in Slots,
                      Turn(After(r), w2[j].slot) < Turn(After(r), t)
               PROVE  batch'[t].lost \/ LaterIn(j, t)'
  BY DEF RingOK, Turn
<1>2. w2[j] \in WorkItem
  BY <1>1
<1>3. w2[j].slot \in Slots
  BY <1>1, <1>2 DEF WorkItem
<1>4. w2[j].slot # r
  <2>1. ASSUME w2[j].slot = r PROVE FALSE
    <3>1. PICK a \in Int : a = Turn(After(r), t) /\ a <= Ring - 1
      BY TurnShift DEF Sized
    <3>2. Turn(After(r), r) = Ring - 1 /\ Ring \in Nat
      BY TurnShift DEF Sized
    <3> QED BY <1>1, <2>1, <3>1, <3>2
  <2> QED BY <2>1
<1>5. j \in 1..Len(w) /\ w2[j] = w[j]
  BY <1>1, <1>4
<1>6. CASE t = r
  <2>1. CASE batch'[r].lost
    BY <1>6, <2>1
  <2>2. CASE Len(w2) > Len(w) /\ w2[Len(w2)].slot = r
    <3>1. Len(w2) \in 1..Len(w2) /\ j < Len(w2)
      BY <1>0, <1>5, <2>2
    <3> QED BY <1>6, <2>2, <3>1 DEF LaterIn
  <2> QED BY <2>1, <2>2
<1>7. CASE t # r
  <2>1. PICK s \in Slots : s = w2[j].slot /\ s # r
    BY <1>3, <1>4
  <2>2. PICK a \in Int, b \in Int : a = Turn(r, s) /\ b = Turn(r, t)
    BY TurnShift
  <2>3. Turn(After(r), s) = a - 1 /\ Turn(After(r), t) = b - 1
    BY <1>7, <2>1, <2>2, TurnShift
  <2>4. a < b
    BY <1>1, <2>1, <2>2, <2>3
  <2>5. batch[t].lost \/ LaterIn(j, t)
    BY <1>1, <1>5, <2>1, <2>2, <2>4 DEF IInv, RingOK
  <2>6. LaterIn(j, t) => LaterIn(j, t)'
    BY <1>0, <1>5, LaterKept
  <2> QED BY <1>7, <2>5, <2>6
<1> QED BY <1>6, <1>7

\* The oldest work is finished.
LEMMA RingTaken ==
  ASSUME Sized, IInv, NEW w \in Seq(WorkItem), w = Work, NEW w2 \in Seq(WorkItem), w2 = Work',
         Len(w2) = Len(w) - 1, Len(w) \in Nat \ {0}, \A k \in 1..Len(w2) : w2[k] = w[k + 1],
         Oldest' = Oldest, \A s \in Slots : batch[s].lost => batch'[s].lost
  PROVE  RingOK'
<1>1. SUFFICES ASSUME NEW j \in 1..Len(w2), w2[j].slot # None, NEW t \in Slots, NEW o, o = Oldest',
                      Turn(o, w2[j].slot) < Turn(o, t)
               PROVE  batch'[t].lost \/ LaterIn(j, t)'
  BY DEF RingOK, Turn
<1>2. j + 1 \in 1..Len(w) /\ w2[j] = w[j + 1]
  BY <1>1
<1>3. batch[t].lost \/ LaterIn(j + 1, t)
  BY <1>1, <1>2 DEF IInv, RingOK
<1>4. ASSUME LaterIn(j + 1, t) PROVE LaterIn(j, t)'
  <2>1. PICK k \in 1..Len(w) : j + 1 < k /\ w[k].slot = t
    BY <1>4 DEF LaterIn
  <2>2. k - 1 \in 1..Len(w2) /\ j < k - 1 /\ (k - 1) + 1 = k
    BY <2>1
  <2>3. w2[k - 1].slot = t
    BY <2>1, <2>2
  <2> QED BY <2>2, <2>3 DEF LaterIn
<1> QED BY <1>3, <1>4

-----------------------------------------------------------------------------
(* Submission and collection *)

LEMMA TypedBatch == ASSUME IInv, NEW s \in Slots PROVE BatchTyped(batch[s])
BY DEF IInv, Typed, BatchesTyped

LEMMA FlushFacts ==
  ASSUME Sized, IInv, NEW s \in Slots
  PROVE  /\ BatchTyped(Flushed[s]) /\ Flushed[s].ops = batch[s].ops /\ Flushed[s].mem = batch[s].mem
         /\ Flushed[s].used = batch[s].used /\ Flushed[s].capacity = batch[s].capacity
         /\ Flushed[s].resources = batch[s].resources /\ Flushed[s].lost = batch[s].lost
         /\ s = current => Flushed[s].pending /\ ~Flushed[s].fence
         /\ s # current => Flushed[s] = batch[s]
<1>1. BatchTyped(batch[s])
  BY TypedBatch
<1>2. CASE s # current
  <2>1. Flushed[s] = batch[s]
    BY <1>2 DEF Flushed
  <2> QED BY <1>1, <1>2, <2>1
<1>3. CASE s = current
  <2>1. PICK b : b = batch[s] /\ b \in Batch /\ b.mem \in [0..(b.capacity - 1) -> Nat] /\ Len(b.ops) <= MaxOps
    BY <1>1 DEF BatchTyped
  <2>2. PICK f : f = [b EXCEPT !.pending = TRUE, !.fence = FALSE]
    OBVIOUS
  <2>3. Flushed[s] = f
    BY <1>3, <2>1, <2>2 DEF Flushed
  <2>4. f \in Batch /\ f.pending /\ ~f.fence
    BY <2>1, <2>2 DEF Batch
  <2>5. f.ops = b.ops /\ f.mem = b.mem /\ f.used = b.used /\ f.capacity = b.capacity
    BY <2>1, <2>2 DEF Batch
  <2>6. f.resources = b.resources /\ f.lost = b.lost
    BY <2>1, <2>2 DEF Batch
  <2>7. BatchTyped(f)
    BY <2>1, <2>4, <2>5 DEF BatchTyped
  <2> QED BY <1>3, <2>1, <2>3, <2>4, <2>5, <2>6, <2>7
<1> QED BY <1>2, <1>3

\* What a batch holds for the GPU stays in place.
Same(s) == /\ batch'[s].ops = batch[s].ops /\ batch'[s].mem = batch[s].mem /\ batch'[s].used = batch[s].used
           /\ batch'[s].capacity = batch[s].capacity /\ batch'[s].resources = batch[s].resources

LEMMA Serviced ==
  ASSUME Sized, IInv, FlushAndCollect
  PROVE  /\ BatchesTyped' /\ current' = None /\ needsService' \in BOOLEAN /\ KeptOK'
         /\ \A s \in Slots : InWork(s) => Same(s)
         /\ \A s \in Slots : InWork(s) <=> Running(s)'
         /\ \A s \in Slots : batch[s].lost => batch'[s].lost
<1>1. PICK done \in SUBSET Collectable :
        /\ batch' = [s \in Slots |-> IF s \in done THEN Reclaimed(Flushed[s]) ELSE Flushed[s]]
        /\ needsService' = ((needsService \/ current # None) /\ \E s \in Slots : batch'[s].pending)
        /\ current' = None
  BY DEF FlushAndCollect
<1>2. ASSUME NEW s \in Slots, s \in done
      PROVE  /\ BatchTyped(batch'[s]) /\ batch'[s].resources = {} /\ ~batch'[s].pending /\ batch'[s].capacity <= Block
             /\ batch[s].lost => batch'[s].lost
             /\ ~InWork(s) /\ s # current
  <2>1. PICK f : f = Flushed[s] /\ batch'[s] = Reclaimed(f) /\ f.pending /\ f.fence /\ BatchTyped(f) /\ f.lost = batch[s].lost
    BY <1>1, <1>2, FlushFacts DEF Collectable
  <2>2. /\ BatchTyped(Reclaimed(f)) /\ Reclaimed(f).resources = {} /\ ~Reclaimed(f).pending
        /\ Reclaimed(f).capacity <= Block /\ Reclaimed(f).lost = f.lost
    BY <2>1, ReclaimedFacts
  <2>3. s # current /\ f = batch[s]
    BY <2>1, FlushFacts
  <2>4. ~Queued(s)
    BY <2>1, <2>3 DEF IInv, FencesOK, Running
  <2>5. ~InWork(s)
    BY <2>3, <2>4, WorkFacts
  <2> QED BY <2>1, <2>2, <2>3, <2>5
<1>3. ASSUME NEW s \in Slots, s \notin done
      PROVE  /\ BatchTyped(batch'[s]) /\ Same(s) /\ (batch[s].lost => batch'[s].lost)
             /\ s = current => batch'[s].pending /\ ~batch'[s].fence
             /\ s # current => batch'[s] = batch[s]
  <2>1. batch'[s] = Flushed[s]
    BY <1>1, <1>3
  <2> QED BY <2>1, FlushFacts DEF Same
<1>4. BatchesTyped'
  <2>1. batch' = [s \in Slots |-> batch'[s]]
    BY <1>1
  <2>2. \A s \in Slots : BatchTyped(batch'[s])
    BY <1>2, <1>3
  <2> QED BY <2>1, <2>2 DEF BatchesTyped, BatchTyped
<1>5. needsService' \in BOOLEAN
  BY <1>1
<1>6. ASSUME NEW s \in Slots PROVE InWork(s) <=> Running(s)'
  <2>1. CASE s \in done
    BY <1>2, <2>1 DEF Running
  <2>2. CASE s \notin done /\ s = current
    <3>1. InWork(s)
      BY <2>2, WorkFacts
    <3> QED BY <1>3, <2>2, <3>1 DEF Running
  <2>3. CASE s \notin done /\ s # current
    <3>1. InWork(s) <=> Queued(s)
      BY <2>3, WorkFacts
    <3> QED BY <1>3, <2>3, <3>1 DEF IInv, FencesOK, Running
  <2> QED BY <2>1, <2>2, <2>3
<1>7. KeptOK'
  <2>1. ASSUME NEW s \in Slots PROVE ~(s = current') /\ (InUse(s)' <=> batch'[s].pending)
    BY <1>1 DEF Sized, InUse
  <2>2. ASSUME NEW s \in Slots, batch'[s].resources # {} \/ batch'[s].capacity > Block PROVE batch'[s].pending
    <3>1. s \notin done
      <4>1. ASSUME s \in done PROVE FALSE
        <5>1. BatchTyped(batch'[s]) /\ batch'[s].resources = {} /\ batch'[s].capacity <= Block
          BY <1>2, <4>1
        <5>2. batch'[s].capacity \in Nat /\ Block \in Nat
          BY <5>1, BatchFields DEF Sized
        <5> QED BY <2>2, <5>1, <5>2
      <4> QED BY <4>1
    <3>2. CASE s = current
      BY <1>3, <3>1, <3>2
    <3>3. CASE s # current
      BY <1>3, <2>2, <3>1, <3>3 DEF IInv, KeptOK, InUse
    <3> QED BY <3>2, <3>3
  <2>3. needsService' \/ \A s \in Slots : ~batch'[s].pending
    <3>1. CASE \A s \in Slots : ~batch'[s].pending
      BY <3>1
    <3>2. CASE needsService \/ current # None
      BY <1>1, <3>2
    <3>3. CASE ~needsService /\ current = None
      <4>1. ASSUME NEW s \in Slots PROVE ~batch'[s].pending
        <5>1. ~batch[s].pending /\ s # current
          BY <3>3 DEF IInv, KeptOK, InUse, Sized
        <5> QED BY <1>2, <1>3, <5>1
      <4> QED BY <4>1
    <3> QED BY <3>1, <3>2, <3>3
  <2> QED BY <1>1, <2>1, <2>2, <2>3 DEF KeptOK
<1> QED BY <1>1, <1>2, <1>3, <1>4, <1>5, <1>6, <1>7

-----------------------------------------------------------------------------
(* The steps *)

LEMMA HoldsKept ==
  ASSUME Sized, IInv, \A s \in Slots : InWork(s) => Same(s), \A s \in Slots : InWork(s)' => InWork(s)
  PROVE  HoldsOK'
<1>1. ASSUME NEW s \in Slots, InWork(s)' PROVE Holds(batch'[s])
  <2>1. Holds(batch[s]) /\ Same(s)
    BY <1>1 DEF IInv, HoldsOK
  <2> QED BY <2>1 DEF Holds, Same
<1> QED BY <1>1 DEF HoldsOK, Holds

\* Steps that change neither the batches nor the queue.
LEMMA QuietStep ==
  ASSUME Sized, IInv, RestTyped', alive' = alive,
         UNCHANGED <<batch, current, cursor, needsService, request, gpuQueue, staged, applied>>
  PROVE  IInv'
<1>1. Work' = Work
  BY DEF Work, FlushedQueue
<1>2. BatchesTyped' /\ CursorTyped' /\ QueueTyped'
  BY DEF IInv, Typed, BatchesTyped, BatchTyped, CursorTyped, QueueTyped
<1>3. OnceOK' /\ \A s \in Slots : InWork(s)' => InWork(s)
  BY <1>1 DEF IInv, OnceOK, InWork
<1>4. FencesOK'
  BY DEF IInv, FencesOK, Running, Queued
<1>5. HoldsOK'
  BY <1>3, HoldsKept DEF Same
<1>6. KeptOK' /\ RequestOK'
  BY DEF IInv, KeptOK, InUse, RequestOK
<1>7. RingOK'
  <2>1. PICK w \in Seq(WorkItem) : w = Work
    BY WorkFacts
  <2>2. Oldest' = Oldest
    BY DEF Oldest
  <2> QED BY <1>1, <2>1, <2>2, RingKept
<1>8. InOrder'
  BY <1>1, OrderKept
<1> QED BY <1>2, <1>3, <1>4, <1>5, <1>6, <1>7, <1>8 DEF IInv, Typed

\* A step that submits what is recorded.
LEMMA Submits ==
  ASSUME Sized, IInv, Work' = Work, gpuQueue' = Work, UNCHANGED <<staged, applied>>, alive' => alive, Oldest' = Oldest,
         \A s \in Slots : InWork(s) => Same(s), \A s \in Slots : InWork(s) <=> Running(s)',
         \A s \in Slots : batch[s].lost => batch'[s].lost
  PROVE  OnceOK' /\ FencesOK' /\ HoldsOK' /\ RingOK' /\ InOrder'
<1>1. OnceOK' /\ \A s \in Slots : InWork(s)' => InWork(s)
  BY DEF IInv, OnceOK, InWork
<1>2. FencesOK'
  <2>1. \A s \in Slots : Queued(s)' <=> InWork(s)
    BY DEF Queued, InWork
  <2> QED BY <2>1 DEF FencesOK
<1>3. HoldsOK'
  BY <1>1, HoldsKept
<1>4. RingOK'
  <2>1. PICK w \in Seq(WorkItem) : w = Work
    BY WorkFacts
  <2> QED BY <2>1, RingKept
<1>5. InOrder'
  BY OrderKept DEF Same
<1> QED BY <1>1, <1>2, <1>3, <1>4, <1>5

LEMMA PollServiceKeeps == ASSUME Sized, IInv, NEW p \in Pollers, PollService(p) PROVE IInv'
<1>1. /\ request = None /\ FlushAndCollect /\ gpuQueue' = FlushedQueue /\ polling' = polling \ {p}
      /\ UNCHANGED <<cursor, request, staged, applied, textures, alive>>
  BY DEF PollService, Free
<1>2. /\ BatchesTyped' /\ current' = None /\ needsService' \in BOOLEAN /\ KeptOK'
      /\ \A s \in Slots : InWork(s) => Same(s)
      /\ \A s \in Slots : InWork(s) <=> Running(s)'
      /\ \A s \in Slots : batch[s].lost => batch'[s].lost
  BY <1>1, Serviced
<1>3. Work' = Work /\ gpuQueue' = Work /\ Oldest' = Oldest
  BY <1>1, <1>2 DEF Work, FlushedQueue, Oldest
<1>4. OnceOK' /\ FencesOK' /\ HoldsOK' /\ RingOK' /\ InOrder'
  BY <1>1, <1>2, <1>3, Submits
<1>5. Work \in Seq(WorkItem)
  BY WorkFacts
<1>6. CursorTyped' /\ QueueTyped' /\ RestTyped' /\ RequestOK'
  BY <1>1, <1>2, <1>3, <1>5 DEF IInv, Typed, CursorTyped, QueueTyped, RestTyped, RequestOK
<1> QED BY <1>2, <1>4, <1>6 DEF IInv, Typed

LEMMA CommitKeeps == ASSUME Sized, IInv, Commit PROVE IInv'
<1>1. /\ request = None /\ FlushAndCollect /\ staged' = staged + 1
      /\ gpuQueue' = Append(FlushedQueue, [slot |-> None, id |-> staged + 1])
      /\ UNCHANGED <<cursor, request, applied, textures, polling, alive>>
  BY DEF Commit, Free
<1>2. /\ BatchesTyped' /\ current' = None /\ needsService' \in BOOLEAN /\ KeptOK'
      /\ \A s \in Slots : InWork(s) => Same(s)
      /\ \A s \in Slots : InWork(s) <=> Running(s)'
      /\ \A s \in Slots : batch[s].lost => batch'[s].lost
  BY <1>1, Serviced
<1>3. staged \in Nat /\ applied \in Nat
  BY DEF IInv, Typed, QueueTyped
<1>4. PICK x \in WorkItem : x = [slot |-> None, id |-> staged + 1] /\ x.slot = None /\ x.id = staged + 1
  <2>1. [slot |-> None, id |-> staged + 1] \in WorkItem
    BY <1>3 DEF WorkItem
  <2> QED BY <2>1
<1>5. gpuQueue' = Append(Work, x) /\ Work' = gpuQueue' /\ Oldest' = Oldest
  BY <1>1, <1>2, <1>4 DEF Work, FlushedQueue, Oldest
<1>6. PICK w \in Seq(WorkItem) : w = Work
  BY WorkFacts
<1>7. PICK w2 \in Seq(WorkItem) : /\ w2 = Work' /\ Len(w) \in Nat /\ Len(w2) = Len(w) + 1 /\ w2[Len(w) + 1] = x
                                  /\ \A k \in 1..Len(w) : w2[k] = w[k]
  BY <1>5, <1>6, AppendFacts
<1>8. \A k \in 1..Len(w2) : k \in 1..Len(w) \/ (k = Len(w) + 1 /\ w2[k].slot = None)
  BY <1>4, <1>7
<1>9. OnceOK'
  <2>1. ASSUME NEW j \in 1..Len(w2), NEW k \in 1..Len(w2), w2[j].slot # None, w2[j].slot = w2[k].slot PROVE j = k
    <3>1. j \in 1..Len(w) /\ k \in 1..Len(w)
      BY <1>8, <2>1
    <3>2. w[j].slot # None /\ w[j].slot = w[k].slot
      BY <1>7, <2>1, <3>1
    <3> QED BY <1>6, <3>1, <3>2 DEF IInv, OnceOK
  <2> QED BY <1>7, <2>1 DEF OnceOK
<1>10. ASSUME NEW s \in Slots PROVE InWork(s)' <=> InWork(s)
  <2>1. s # None
    BY DEF Sized
  <2>2. \A k \in 1..Len(w) : k \in 1..Len(w2)
    BY <1>7
  <2> QED BY <1>6, <1>7, <1>8, <2>1, <2>2 DEF InWork
<1>11. FencesOK'
  <2>1. \A s \in Slots : Queued(s)' <=> InWork(s)'
    BY <1>5 DEF Queued, InWork
  <2> QED BY <1>2, <1>10, <2>1 DEF FencesOK
<1>12. HoldsOK'
  BY <1>2, <1>10, HoldsKept
<1>13. RingOK'
  <2>1. Len(w) <= Len(w2)
    BY <1>7
  <2> QED BY <1>2, <1>5, <1>6, <1>7, <1>8, <2>1, RingKept
<1>14. InOrder'
  <2>1. Len(Numbers(x)') = 1 /\ Numbers(x)'[1] = staged + 1
    BY <1>4 DEF Numbers
  <2> QED BY <1>1, <1>2, <1>5, <2>1, OrderAppended DEF Same
<1>15. CursorTyped' /\ QueueTyped' /\ RestTyped' /\ RequestOK'
  <2>1. CursorTyped' /\ RequestOK'
    BY <1>1, <1>2 DEF IInv, Typed, CursorTyped, RequestOK
  <2>2. QueueTyped'
    <3>1. gpuQueue' \in Seq(WorkItem)
      BY <1>5, <1>7
    <3>2. staged' \in Nat /\ applied' \in Nat
      BY <1>1, <1>3
    <3> QED BY <3>1, <3>2 DEF QueueTyped
  <2>3. RestTyped'
    BY <1>1, <1>2 DEF IInv, Typed, RestTyped
  <2> QED BY <2>1, <2>2, <2>3
<1> QED BY <1>2, <1>9, <1>11, <1>12, <1>13, <1>14, <1>15 DEF IInv, Typed

\* begin() submits what is recorded and takes the next slot.
LEMMA StageInNextKeeps ==
  ASSUME Sized, IInv, NEW image \in Images, NEW size \in Sizes \cup {0}, StageInNext(image, size) PROVE IInv'
<1>1. /\ request = None /\ batch' = Flushed /\ gpuQueue' = FlushedQueue
      /\ needsService' = (needsService \/ current # None) /\ current' = None
      /\ cursor' = (cursor + 1) % Ring /\ request' = [image |-> image, size |-> size, slot |-> cursor]
      /\ UNCHANGED <<staged, applied, textures, polling, alive>>
  BY DEF StageInNext, Free
<1>2. cursor \in Slots /\ cursor' = After(cursor) /\ cursor' \in Slots
  BY <1>1, NextIs DEF IInv, Typed, CursorTyped
<1>3. request' \in Call /\ request' # None /\ request'.slot = cursor
  <2>1. request' \in Call
    BY <1>1, <1>2 DEF Call
  <2> QED BY <1>1, <2>1 DEF Sized
<1>4. Work' = Work /\ gpuQueue' = Work /\ Oldest' = Oldest
  BY <1>1, <1>3 DEF Work, FlushedQueue, Oldest
<1>5. ASSUME NEW s \in Slots
      PROVE  /\ BatchTyped(batch'[s]) /\ Same(s) /\ (batch[s].lost => batch'[s].lost)
             /\ s = current => batch'[s].pending /\ ~batch'[s].fence
             /\ s # current => batch'[s] = batch[s]
  BY <1>1, FlushFacts DEF Same
<1>6. BatchesTyped'
  <2>1. batch' = [s \in Slots |-> batch'[s]]
    BY <1>1 DEF Flushed
  <2>2. \A s \in Slots : BatchTyped(batch'[s])
    BY <1>5
  <2> QED BY <2>1, <2>2 DEF BatchesTyped, BatchTyped
<1>7. ASSUME NEW s \in Slots PROVE InWork(s) <=> Running(s)'
  <2>1. CASE s = current
    <3>1. InWork(s)
      BY <2>1, WorkFacts
    <3> QED BY <1>5, <2>1, <3>1 DEF Running
  <2>2. CASE s # current
    <3>1. InWork(s) <=> Queued(s)
      BY <2>2, WorkFacts
    <3> QED BY <1>5, <2>2, <3>1 DEF IInv, FencesOK, Running
  <2> QED BY <2>1, <2>2
<1>8. OnceOK' /\ FencesOK' /\ HoldsOK' /\ RingOK' /\ InOrder'
  BY <1>1, <1>4, <1>5, <1>7, Submits
<1>9. KeptOK'
  <2>1. ASSUME NEW s \in Slots PROVE InUse(s)' <=> batch'[s].pending
    BY <1>1 DEF Sized, InUse
  <2>2. ASSUME NEW s \in Slots, batch'[s].resources # {} \/ batch'[s].capacity > Block PROVE batch'[s].pending
    <3>1. batch[s].resources # {} \/ batch[s].capacity > Block
      BY <1>5, <2>2 DEF Same
    <3>2. batch[s].pending \/ s = current
      BY <3>1 DEF IInv, KeptOK, InUse
    <3> QED BY <1>5, <3>2
  <2>3. needsService' \/ \A s \in Slots : ~batch'[s].pending
    <3>1. CASE needsService \/ current # None
      BY <1>1, <3>1
    <3>2. CASE ~needsService /\ current = None
      <4>1. ASSUME NEW s \in Slots PROVE ~batch'[s].pending
        <5>1. ~batch[s].pending /\ s # current
          BY <3>2 DEF IInv, KeptOK, InUse, Sized
        <5> QED BY <1>5, <5>1
      <4> QED BY <4>1
    <3> QED BY <3>1, <3>2
  <2> QED BY <1>1, <2>1, <2>2, <2>3 DEF KeptOK
<1>10. RequestOK'
  BY <1>1, <1>2, <1>3 DEF RequestOK, After
<1>11. Work \in Seq(WorkItem)
  BY WorkFacts
<1>12. CursorTyped' /\ QueueTyped' /\ RestTyped'
  BY <1>1, <1>2, <1>3, <1>4, <1>11 DEF IInv, Typed, CursorTyped, QueueTyped, RestTyped
<1> QED BY <1>6, <1>8, <1>9, <1>10, <1>12 DEF IInv, Typed

\* One batch is replaced.
LEMMA BatchSet ==
  ASSUME IInv, NEW r \in Slots, NEW b, BatchTyped(b), batch' = [batch EXCEPT ![r] = b]
  PROVE  BatchesTyped' /\ batch'[r] = b /\ \A s \in Slots : s # r => batch'[s] = batch[s]
<1>1. batch = [s \in Slots |-> batch[s]] /\ \A s \in Slots : BatchTyped(batch[s])
  BY DEF IInv, Typed, BatchesTyped
<1>2. batch' = [s \in Slots |-> IF s = r THEN b ELSE batch[s]]
  BY <1>1
<1>3. batch' = [s \in Slots |-> batch'[s]] /\ batch'[r] = b /\ \A s \in Slots : s # r => batch'[s] = batch[s]
  BY <1>2
<1>4. \A s \in Slots : BatchTyped(batch'[s])
  BY <1>1, <1>3
<1> QED BY <1>3, <1>4 DEF BatchesTyped, BatchTyped

\* The next operation of the current batch.
LEMMA StageInCurrentKeeps ==
  ASSUME Sized, IInv, NEW image \in Images, NEW size \in Sizes \cup {0}, StageInCurrent(image, size) PROVE IInv'
<1>1. /\ request = None /\ current # None /\ Fits(batch[current], size)
      /\ batch' = [batch EXCEPT ![current] = Recorded(@, AlignUp(@.used), image, size)]
      /\ staged' = staged + 1 /\ needsService' = TRUE /\ textures' = textures \cup {image}
      /\ UNCHANGED <<current, cursor, request, gpuQueue, applied, polling, alive>>
  BY DEF StageInCurrent, Free, Stage
<1>2. current \in Slots /\ staged \in Nat /\ batch = [s \in Slots |-> batch[s]]
  BY <1>1 DEF IInv, Typed, CursorTyped, QueueTyped, BatchesTyped
<1>3. PICK b : b = batch[current] /\ BatchTyped(b) /\ Holds(b)
  BY <1>2, TypedBatch, WorkFacts DEF IInv, HoldsOK
<1>4. b.used \in Nat /\ b.capacity \in Nat /\ size \in Nat /\ b.ops \in Seq(Op) /\ Len(b.ops) \in Nat
  BY <1>3, BatchFields DEF Sized
<1>5. PICK p \in Nat : p = AlignUp(b.used) /\ p >= b.used
  BY <1>4, Aligned
<1>6. Room(b, p, size)
  BY <1>1, <1>3, <1>4, <1>5 DEF Fits, Room
<1>7. PICK r : r = Recorded(b, p, image, size)
  OBVIOUS
<1>8. /\ BatchTyped(r) /\ Holds(r) /\ r.capacity = b.capacity /\ r.pending = b.pending /\ r.fence = b.fence
      /\ r.lost = b.lost /\ Len(r.ops) = Len(b.ops) + 1 /\ r.ops[Len(b.ops) + 1].id = staged + 1
      /\ \A n \in 1..Len(b.ops) : r.ops[n] = b.ops[n]
  BY <1>2, <1>3, <1>5, <1>6, <1>7, RecordedFacts
<1>9. batch' = [batch EXCEPT ![current] = r]
  BY <1>1, <1>2, <1>3, <1>5, <1>7
<1>10. BatchesTyped' /\ batch'[current] = r /\ \A s \in Slots : s # current => batch'[s] = batch[s]
  BY <1>2, <1>8, <1>9, BatchSet
<1>11. Work' = Work /\ Oldest' = Oldest
  BY <1>1 DEF Work, FlushedQueue, Oldest
<1>12. OnceOK' /\ \A s \in Slots : InWork(s)' => InWork(s)
  BY <1>11 DEF IInv, OnceOK, InWork
<1>13. FencesOK'
  <2>1. \A s \in Slots : (Queued(s)' <=> Queued(s)) /\ (Running(s)' <=> Running(s))
    BY <1>1, <1>3, <1>8, <1>10 DEF Queued, Running
  <2> QED BY <2>1 DEF IInv, FencesOK
<1>14. HoldsOK'
  <2>1. ASSUME NEW s \in Slots, InWork(s)' PROVE Holds(batch'[s])
    <3>1. Holds(batch[s])
      BY <1>12, <2>1 DEF IInv, HoldsOK
    <3> QED BY <1>8, <1>10, <3>1
  <2> QED BY <2>1 DEF HoldsOK, Holds
<1>15. KeptOK'
  <2>1. ASSUME NEW s \in Slots, batch'[s].resources # {} \/ batch'[s].capacity > Block PROVE InUse(s)'
    BY <1>1, <1>10, <2>1 DEF IInv, KeptOK, InUse
  <2>2. ~batch'[current'].pending
    BY <1>1, <1>3, <1>8, <1>10 DEF IInv, KeptOK
  <2> QED BY <1>1, <2>1, <2>2 DEF KeptOK
<1>16. RingOK'
  <2>1. PICK w \in Seq(WorkItem) : w = Work
    BY WorkFacts
  <2>2. \A s \in Slots : batch[s].lost => batch'[s].lost
    BY <1>3, <1>8, <1>10
  <2> QED BY <1>11, <2>1, <2>2, RingKept
<1>17. InOrder'
  <2>1. PICK o \in Seq(Op) : o = b.ops
    BY <1>4
  <2>2. PICK o2 \in Seq(Op) : o2 = r.ops
    BY <1>8, BatchFields
  <2>3. /\ o = batch[current].ops /\ o2 = batch'[current].ops /\ Len(o2) = Len(o) + 1
        /\ o2[Len(o) + 1].id = staged + 1 /\ \A n \in 1..Len(o) : o2[n] = o[n]
    BY <1>3, <1>8, <1>10, <2>1, <2>2
  <2>4. \A s \in Slots : s # current => batch'[s].ops = batch[s].ops
    BY <1>10
  <2> QED BY <1>1, <1>2, <1>11, <2>3, <2>4, OrderExtended
<1>18. CursorTyped' /\ RequestOK'
  BY <1>1 DEF IInv, Typed, CursorTyped, RequestOK
<1>19. QueueTyped' /\ RestTyped'
  BY <1>1, <1>2 DEF IInv, Typed, QueueTyped, RestTyped
<1> QED BY <1>10, <1>12, <1>13, <1>14, <1>15, <1>16, <1>17, <1>18, <1>19 DEF IInv, Typed

\* The call inside begin(): the slot is not in use, and no batch is recorded.
LEMMA InBegin ==
  ASSUME Sized, IInv, request # None, ~Blocked
  PROVE  /\ request \in Call /\ request.slot \in Slots /\ request.image \in Images /\ request.size \in Sizes \cup {0}
         /\ current = None /\ cursor = After(request.slot) /\ Oldest = request.slot
         /\ ~Queued(request.slot) /\ ~InWork(request.slot)
<1>1. request \in Call /\ current = None /\ cursor = After(request.slot) /\ Oldest = request.slot
  BY DEF IInv, Typed, CursorTyped, RequestOK, Oldest
<1>2. request.slot \in Slots /\ request.image \in Images /\ request.size \in Sizes \cup {0}
  BY <1>1 DEF Call
<1>3. ~Queued(request.slot)
  BY <1>2 DEF IInv, FencesOK, Running, Blocked
<1>4. PICK s \in Slots : s = request.slot
  BY <1>2
<1>5. s # None
  BY DEF Sized
<1>6. ~InWork(s)
  BY <1>1, <1>3, <1>4, <1>5, WorkFacts
<1> QED BY <1>1, <1>2, <1>3, <1>4, <1>6

\* What callers use of it, the batch named by what it was recorded from.
LEMMA FirstRecorded ==
  ASSUME Sized, staged \in Nat, NEW h, BatchTyped(h), NEW image \in Images, NEW size \in Sizes \cup {0},
         NEW o \in Nat, Room(h, o, size)
  PROVE  LET b == Recorded(h, o, image, size) IN
           BatchTyped(b) /\ Holds(b) /\ b.pending = h.pending /\ Len(b.ops) = Len(h.ops) + 1 /\ b.ops[Len(h.ops) + 1].id = staged + 1
<1>1. PICK b : b = Recorded(h, o, image, size)
  OBVIOUS
<1>2. /\ BatchTyped(b) /\ Holds(b) /\ b.capacity = h.capacity /\ b.pending = h.pending /\ b.fence = h.fence
      /\ b.lost = h.lost /\ Len(b.ops) = Len(h.ops) + 1 /\ b.ops[Len(h.ops) + 1].id = staged + 1
      /\ \A n \in 1..Len(h.ops) : b.ops[n] = h.ops[n]
  BY <1>1, RecordedFacts
<1> QED BY <1>1, <1>2

\* begin() has its batch, and the operation is its first.
LEMMA BeginSlotKeeps == ASSUME Sized, IInv, BeginSlot PROVE IInv'
<1>1. PICK r \in Slots, image \in Images, size \in Sizes \cup {0} :
        r = request.slot /\ image = request.image /\ size = request.size
  BY InBegin DEF BeginSlot
<1>2. /\ current = None /\ cursor = After(r) /\ Oldest = r /\ ~Queued(r) /\ ~InWork(r) /\ r # None
  BY <1>1, InBegin DEF BeginSlot, Sized
<1>3. /\ batch' = [batch EXCEPT ![r] = Recorded(Handed(batch[r], size), 0, image, size)]
      /\ current' = r /\ request' = None
      /\ staged' = staged + 1 /\ needsService' = TRUE /\ textures' = textures \cup {image}
      /\ UNCHANGED <<cursor, gpuQueue, applied, polling, alive>>
  BY <1>1 DEF BeginSlot, Stage, Handed
<1>4. staged \in Nat /\ BatchTyped(batch[r])
  BY TypedBatch DEF IInv, Typed, QueueTyped
<1>5. PICK h : /\ h = Handed(batch[r], size) /\ BatchTyped(h) /\ h.ops = <<>> /\ ~h.pending /\ size <= h.capacity
  BY <1>4, HandedFacts
<1>6. PICK b : b = Recorded(h, 0, image, size)
  OBVIOUS
<1>7. BatchTyped(b) /\ Holds(b) /\ b.pending = h.pending /\ Len(b.ops) = 1 /\ b.ops[1].id = staged + 1
  <2>1. size \in Nat /\ MaxOps \in Nat \ {0}
    BY DEF Sized
  <2>2. PICK o \in Nat : o = 0 /\ Len(h.ops) = o
    BY <1>5
  <2>3. Room(h, o, size) /\ b = Recorded(h, o, image, size)
    BY <1>5, <1>6, <2>1, <2>2 DEF Room
  <2>4. /\ BatchTyped(b) /\ Holds(b) /\ b.pending = h.pending /\ Len(b.ops) = Len(h.ops) + 1
        /\ b.ops[Len(h.ops) + 1].id = staged + 1
    BY <1>4, <1>5, <2>3, FirstRecorded
  <2> QED BY <2>2, <2>4
<1>8. BatchesTyped' /\ batch'[r] = b /\ \A s \in Slots : s # r => batch'[s] = batch[s]
  BY <1>3, <1>5, <1>6, <1>7, BatchSet
<1>9. PICK x \in WorkItem : x = [slot |-> r, id |-> 0] /\ x.slot = r
  <2>1. [slot |-> r, id |-> 0] \in WorkItem
    BY DEF WorkItem
  <2> QED BY <2>1
<1>10. PICK w \in Seq(WorkItem) : w = Work /\ Work' = Append(w, x) /\ \A k \in 1..Len(w) : w[k] \in WorkItem
  <2>1. Work' = Append(Work, x)
    BY <1>2, <1>3, <1>9 DEF Work, FlushedQueue
  <2> QED BY <2>1, WorkFacts
<1>11. PICK w2 \in Seq(WorkItem) : /\ w2 = Work' /\ Len(w) \in Nat /\ Len(w2) = Len(w) + 1 /\ w2[Len(w) + 1] = x
                                   /\ \A k \in 1..Len(w) : w2[k] = w[k]
  BY <1>10, AppendFacts
<1>12. \A k \in 1..Len(w2) : k \in 1..Len(w) \/ (k = Len(w) + 1 /\ w2[k].slot = r)
  BY <1>9, <1>11
<1>13. \A k \in 1..Len(w) : w2[k].slot # r
  BY <1>2, <1>10, <1>11 DEF InWork
<1>14. OnceOK'
  <2>1. ASSUME NEW j \in 1..Len(w2), NEW k \in 1..Len(w2), w2[j].slot # None, w2[j].slot = w2[k].slot PROVE j = k
    <3>1. CASE j \in 1..Len(w) /\ k \in 1..Len(w)
      <4>1. w[j].slot # None /\ w[j].slot = w[k].slot
        BY <1>11, <2>1, <3>1
      <4> QED BY <1>10, <3>1, <4>1 DEF IInv, OnceOK
    <3>2. CASE ~(j \in 1..Len(w) /\ k \in 1..Len(w))
      BY <1>12, <1>13, <2>1, <3>2
    <3> QED BY <3>1, <3>2
  <2> QED BY <1>11, <2>1 DEF OnceOK
<1>15. ASSUME NEW s \in Slots, InWork(s)' PROVE s = r \/ InWork(s)
  <2>1. PICK k \in 1..Len(w2) : w2[k].slot = s
    BY <1>11, <1>15 DEF InWork
  <2> QED BY <1>10, <1>11, <1>12, <2>1 DEF InWork
<1>16. FencesOK'
  <2>1. ASSUME NEW s \in Slots PROVE Queued(s)' <=> Running(s)'
    <3>1. Queued(s)' <=> Queued(s)
      BY <1>3 DEF Queued
    <3>2. CASE s = r
      BY <1>2, <1>5, <1>7, <1>8, <3>1, <3>2 DEF Running
    <3>3. CASE s # r
      BY <1>8, <3>1, <3>3 DEF IInv, FencesOK, Running
    <3> QED BY <3>2, <3>3
  <2> QED BY <2>1 DEF FencesOK
<1>17. HoldsOK'
  <2>1. ASSUME NEW s \in Slots, InWork(s)' PROVE Holds(batch'[s])
    <3>1. CASE s = r
      BY <1>7, <1>8, <3>1
    <3>2. CASE s # r
      <4>1. Holds(batch[s])
        BY <1>15, <2>1, <3>2 DEF IInv, HoldsOK
      <4> QED BY <1>8, <3>2, <4>1
    <3> QED BY <3>1, <3>2
  <2> QED BY <2>1 DEF HoldsOK, Holds
<1>18. KeptOK'
  <2>1. ASSUME NEW s \in Slots, batch'[s].resources # {} \/ batch'[s].capacity > Block PROVE InUse(s)'
    <3>1. s # None
      BY DEF Sized
    <3> QED BY <1>2, <1>3, <1>8, <2>1, <3>1 DEF IInv, KeptOK, InUse
  <2>2. ~batch'[current'].pending
    BY <1>3, <1>5, <1>7, <1>8
  <2> QED BY <1>3, <2>1, <2>2 DEF KeptOK
<1>19. RequestOK' /\ Oldest' = After(r)
  BY <1>2, <1>3 DEF RequestOK, Oldest
<1>20. RingOK'
  <2>1. Len(w) <= Len(w2) /\ Len(w2) > Len(w) /\ w2[Len(w2)].slot = r
    BY <1>9, <1>11
  <2>2. \A s \in Slots : s # r /\ batch[s].lost => batch'[s].lost
    BY <1>8
  <2> QED BY <1>2, <1>10, <1>11, <1>12, <1>19, <2>1, <2>2, RingTurned
<1>21. InOrder'
  <2>1. Numbers(x)' = [k \in 1..Len(b.ops) |-> b.ops[k].id]
    BY <1>2, <1>8, <1>9 DEF Numbers
  <2>2. Len(Numbers(x)') = 1 /\ Numbers(x)'[1] = staged + 1
    BY <1>7, <2>1
  <2>3. \A s \in Slots : InWork(s) => batch'[s].ops = batch[s].ops
    BY <1>2, <1>8
  <2> QED BY <1>3, <1>10, <2>2, <2>3, OrderAppended
<1>22. CursorTyped' /\ QueueTyped' /\ RestTyped'
  <2>1. CursorTyped'
    BY <1>3 DEF IInv, Typed, CursorTyped
  <2>2. QueueTyped'
    BY <1>3, <1>4 DEF IInv, Typed, QueueTyped
  <2>3. RestTyped'
    BY <1>3 DEF IInv, Typed, RestTyped
  <2> QED BY <2>1, <2>2, <2>3
<1> QED BY <1>8, <1>14, <1>16, <1>17, <1>18, <1>19, <1>20, <1>21, <1>22 DEF IInv, Typed

\* begin() throws: the slot is out of this round, with nothing in it.
LEMMA BeginSlotFailsKeeps == ASSUME Sized, IInv, BeginSlotFails PROVE IInv'
<1>1. PICK r \in Slots, created \in BOOLEAN :
        /\ r = request.slot
        /\ batch' = [batch EXCEPT ![r] = [FreeStaging(Finished(batch[r])) EXCEPT !.staging = created, !.lost = TRUE]]
  <2>1. PICK r \in Slots : r = request.slot
    BY InBegin DEF BeginSlotFails
  <2>2. batch = [s \in Slots |-> batch[s]]
    BY DEF IInv, Typed, BatchesTyped
  <2>3. PICK created \in BOOLEAN :
          batch' = [batch EXCEPT ![r] = [FreeStaging(Finished(@)) EXCEPT !.staging = created, !.lost = TRUE]]
    BY <2>1 DEF BeginSlotFails
  <2> QED BY <2>1, <2>2, <2>3
<1>2. /\ current = None /\ cursor = After(r) /\ Oldest = r /\ ~Queued(r) /\ ~InWork(r)
  BY <1>1, InBegin DEF BeginSlotFails
<1>3. /\ request' = None
      /\ UNCHANGED <<current, cursor, needsService, gpuQueue, staged, applied, textures, polling, alive>>
  BY DEF BeginSlotFails
<1>4. PICK f : /\ f = FreeStaging(Finished(batch[r])) /\ BatchTyped(f) /\ f.capacity = 0 /\ f.resources = {} /\ ~f.pending
  <2>1. PICK g : g = Finished(batch[r]) /\ BatchTyped(g) /\ g.resources = {} /\ ~g.pending
    BY TypedBatch, FinishedFacts
  <2> QED BY <2>1, FreeStagingFacts
<1>5. PICK b : b = [f EXCEPT !.staging = created, !.lost = TRUE]
  OBVIOUS
<1>6. BatchTyped(b) /\ b.capacity = 0 /\ b.resources = {} /\ ~b.pending /\ b.lost
  <2>1. f \in Batch /\ Len(f.ops) <= MaxOps /\ f.mem \in [0..(f.capacity - 1) -> Nat]
    BY <1>4 DEF BatchTyped
  <2>2. b \in Batch /\ b.lost
    BY <1>5, <2>1 DEF Batch
  <2>3. b.capacity = f.capacity /\ b.resources = f.resources /\ b.mem = f.mem /\ b.ops = f.ops
    BY <1>5, <2>1 DEF Batch
  <2>4. b.pending = f.pending
    BY <1>5, <2>1 DEF Batch
  <2> QED BY <1>4, <2>1, <2>2, <2>3, <2>4 DEF BatchTyped
<1>7. BatchesTyped' /\ batch'[r] = b /\ \A s \in Slots : s # r => batch'[s] = batch[s]
  <2>1. batch' = [batch EXCEPT ![r] = b]
    BY <1>1, <1>4, <1>5
  <2> QED BY <1>6, <2>1, BatchSet
<1>8. Work' = Work /\ Oldest' = After(r)
  BY <1>2, <1>3 DEF Work, FlushedQueue, Oldest
<1>9. OnceOK' /\ \A s \in Slots : InWork(s)' => InWork(s)
  BY <1>8 DEF IInv, OnceOK, InWork
<1>10. FencesOK'
  <2>1. ASSUME NEW s \in Slots PROVE Queued(s)' <=> Running(s)'
    <3>1. Queued(s)' <=> Queued(s)
      BY <1>3 DEF Queued
    <3>2. CASE s = r
      BY <1>2, <1>6, <1>7, <3>1, <3>2 DEF Running
    <3>3. CASE s # r
      BY <1>7, <3>1, <3>3 DEF IInv, FencesOK, Running
    <3> QED BY <3>2, <3>3
  <2> QED BY <2>1 DEF FencesOK
<1>11. \A s \in Slots : InWork(s) => Same(s)
  BY <1>2, <1>7 DEF Same
<1>12. HoldsOK'
  BY <1>9, <1>11, HoldsKept
<1>13. KeptOK'
  <2>1. ASSUME NEW s \in Slots, batch'[s].resources # {} \/ batch'[s].capacity > Block PROVE InUse(s)'
    <3>1. s # r
      BY <1>6, <1>7, <2>1 DEF Sized
    <3> QED BY <1>3, <1>7, <2>1, <3>1 DEF IInv, KeptOK, InUse
  <2>2. \A s \in Slots : InUse(s)' => InUse(s)
    BY <1>3, <1>6, <1>7 DEF InUse
  <2> QED BY <1>2, <1>3, <2>1, <2>2 DEF IInv, KeptOK
<1>14. RingOK'
  <2>1. PICK w \in Seq(WorkItem) : w = Work
    BY WorkFacts
  <2>2. \A s \in Slots : s # r /\ batch[s].lost => batch'[s].lost
    BY <1>7
  <2>3. batch'[r].lost
    BY <1>6, <1>7
  <2>4. Len(w) \in Nat
    OBVIOUS
  <2> QED BY <1>2, <1>8, <2>1, <2>2, <2>3, <2>4, RingTurned
<1>15. InOrder'
  BY <1>3, <1>8, <1>11, OrderKept DEF Same
<1>16. CursorTyped' /\ QueueTyped' /\ RestTyped' /\ RequestOK'
  BY <1>3 DEF IInv, Typed, CursorTyped, QueueTyped, RestTyped, RequestOK
<1> QED BY <1>7, <1>9, <1>10, <1>12, <1>13, <1>14, <1>15, <1>16 DEF IInv, Typed

\* A queue without its oldest submission.
LEMMA QueueTail ==
  ASSUME NEW q \in Seq(WorkItem), q # <<>>
  PROVE  /\ Head(q) \in WorkItem /\ Head(q) = q[1] /\ Tail(q) \in Seq(WorkItem) /\ Len(q) \in Nat \ {0}
         /\ Len(Tail(q)) = Len(q) - 1 /\ \A k \in 1..Len(q) - 1 : Tail(q)[k] = q[k + 1]
BY HeadTailProperties

\* The work in order loses its first item with it, whatever the open batch.
LEMMA WorkTail ==
  ASSUME NEW c \in Slots \cup {None}, NEW q \in Seq(WorkItem), q # <<>>
  PROVE  \E w, w2 \in Seq(WorkItem) :
           /\ w = WorkOf(c, q) /\ w2 = WorkOf(c, Tail(q))
           /\ Len(w) \in Nat \ {0} /\ Len(w2) = Len(w) - 1 /\ w[1] = Head(q)
           /\ \A k \in 1..Len(w2) : w2[k] = w[k + 1]
<1>0. PICK w, w2 : w = WorkOf(c, q) /\ w2 = WorkOf(c, Tail(q))
  OBVIOUS
<1>1. /\ Head(q) \in WorkItem /\ Head(q) = q[1] /\ Tail(q) \in Seq(WorkItem) /\ Len(q) \in Nat \ {0}
      /\ Len(Tail(q)) = Len(q) - 1 /\ \A k \in 1..Len(q) - 1 : Tail(q)[k] = q[k + 1]
  BY QueueTail
<1>2. CASE c = None
  <2>1. w = q /\ w2 = Tail(q)
    BY <1>0, <1>2 DEF WorkOf
  <2> QED BY <1>0, <1>1, <2>1
<1>3. CASE c # None
  <2>1. PICK x \in WorkItem : x = [slot |-> c, id |-> 0]
    <3>1. [slot |-> c, id |-> 0] \in WorkItem
      BY DEF WorkItem
    <3> QED BY <3>1
  <2>2. w = Append(q, x) /\ w2 = Append(Tail(q), x)
    BY <1>0, <1>3, <2>1 DEF WorkOf
  <2>3. w \in Seq(WorkItem) /\ Len(w) = Len(q) + 1 /\ w[Len(q) + 1] = x /\ \A k \in 1..Len(q) : w[k] = q[k]
    BY <2>2, AppendFacts
  <2>4. /\ w2 \in Seq(WorkItem) /\ Len(w2) = Len(q) /\ w2[Len(q)] = x
        /\ \A k \in 1..Len(q) - 1 : w2[k] = q[k + 1]
    <3>1. /\ w2 \in Seq(WorkItem) /\ Len(w2) = Len(Tail(q)) + 1 /\ w2[Len(Tail(q)) + 1] = x
          /\ \A k \in 1..Len(Tail(q)) : w2[k] = Tail(q)[k]
      BY <1>1, <2>2, AppendFacts
    <3> QED BY <1>1, <3>1
  <2>5. ASSUME NEW k \in 1..Len(w2) PROVE w2[k] = w[k + 1]
    <3>1. CASE k = Len(q)
      BY <2>3, <2>4, <3>1
    <3>2. CASE k # Len(q)
      <4>0. Len(w2) = Len(q) /\ Len(q) \in Nat
        BY <1>1, <2>4
      <4>1. k \in 1..Len(q) - 1 /\ k + 1 \in 1..Len(q)
        BY <3>2, <4>0
      <4> QED BY <2>3, <2>4, <4>1
    <3> QED BY <3>1, <3>2
  <2>6. w[1] = q[1]
    BY <1>1, <2>3
  <2>7. Len(w) \in Nat \ {0} /\ Len(w2) = Len(w) - 1 /\ w[1] = Head(q)
    BY <1>1, <2>3, <2>4, <2>6
  <2> QED BY <1>0, <2>3, <2>4, <2>5, <2>7
<1> QED BY <1>2, <1>3

\* The GPU finishes the oldest submission.
LEMMA GpuExecuteKeeps == ASSUME Sized, IInv, GpuExecute PROVE IInv'
<1>1. PICK item : /\ item = Head(gpuQueue) /\ gpuQueue # <<>> /\ applied' = applied + Len(Numbers(item))
                  /\ batch' = [s \in Slots |-> IF s = item.slot THEN [batch[s] EXCEPT !.fence = TRUE] ELSE batch[s]]
                  /\ gpuQueue' = Tail(gpuQueue)
                  /\ UNCHANGED <<current, cursor, needsService, request, staged, textures, polling, alive>>
  BY DEF GpuExecute
<1>2. current \in Slots \cup {None} /\ gpuQueue \in Seq(WorkItem) /\ staged \in Nat /\ applied \in Nat
  BY DEF IInv, Typed, CursorTyped, QueueTyped
<1>3. PICK w : w = WorkOf(current, gpuQueue) /\ w = Work
  BY DEF Work, FlushedQueue, WorkOf
<1>4. PICK w2 : w2 = WorkOf(current, Tail(gpuQueue)) /\ w2 = Work'
  BY <1>1 DEF Work, FlushedQueue, WorkOf
<1>5. /\ w2 \in Seq(WorkItem) /\ w \in Seq(WorkItem) /\ Len(w) \in Nat \ {0} /\ Len(w2) = Len(w) - 1
      /\ w[1] = item /\ item \in WorkItem /\ Tail(gpuQueue) \in Seq(WorkItem)
      /\ \A k \in 1..Len(w2) : w2[k] = w[k + 1]
      /\ Len(gpuQueue) \in Nat \ {0} /\ Len(gpuQueue') = Len(gpuQueue) - 1
      /\ \A k \in 1..Len(gpuQueue) - 1 : gpuQueue'[k] = gpuQueue[k + 1]
  <2>1. PICK q \in Seq(WorkItem), c \in Slots \cup {None} : q = gpuQueue /\ c = current /\ q # <<>>
    BY <1>1, <1>2
  <2>2. PICK v, v2 \in Seq(WorkItem) :
           /\ v = WorkOf(c, q) /\ v2 = WorkOf(c, Tail(q))
           /\ Len(v) \in Nat \ {0} /\ Len(v2) = Len(v) - 1 /\ v[1] = Head(q)
           /\ \A k \in 1..Len(v2) : v2[k] = v[k + 1]
    BY <2>1, WorkTail
  <2>3. v = w /\ v2 = w2
    BY <1>3, <1>4, <2>1, <2>2
  <2>4. /\ Head(q) \in WorkItem /\ Head(q) = q[1] /\ Tail(q) \in Seq(WorkItem) /\ Len(q) \in Nat \ {0}
        /\ Len(Tail(q)) = Len(q) - 1 /\ \A k \in 1..Len(q) - 1 : Tail(q)[k] = q[k + 1]
    BY <2>1, QueueTail
  <2>5. item = Head(q) /\ gpuQueue' = Tail(q) /\ gpuQueue = q
    BY <1>1, <2>1
  <2> QED BY <2>2, <2>3, <2>4, <2>5
<1>6. \A k \in 1..Len(w2) : k + 1 \in 1..Len(w) /\ w2[k] = w[k + 1] /\ k \in Nat
  BY <1>5
<1>7. 1 \in 1..Len(w)
  BY <1>5
<1>8. ASSUME NEW s \in Slots
      PROVE  /\ BatchTyped(batch'[s]) /\ Same(s) /\ (batch[s].lost => batch'[s].lost)
             /\ batch'[s].pending = batch[s].pending
             /\ s = item.slot => batch'[s].fence
             /\ s # item.slot => batch'[s] = batch[s]
  <2>1. CASE s # item.slot
    <3>1. batch'[s] = batch[s]
      BY <1>1, <2>1
    <3> QED BY <2>1, <3>1, TypedBatch DEF Same
  <2>2. CASE s = item.slot
    <3>1. PICK b : b = batch[s] /\ BatchTyped(b) /\ b \in Batch /\ b.mem \in [0..(b.capacity - 1) -> Nat] /\ Len(b.ops) <= MaxOps
      BY TypedBatch DEF BatchTyped
    <3>2. PICK f : f = [b EXCEPT !.fence = TRUE]
      OBVIOUS
    <3>3. batch'[s] = f
      BY <1>1, <2>2, <3>1, <3>2
    <3>4. f \in Batch /\ f.fence
      BY <3>1, <3>2 DEF Batch
    <3>5. f.ops = b.ops /\ f.mem = b.mem /\ f.used = b.used /\ f.capacity = b.capacity /\ f.resources = b.resources
      BY <3>1, <3>2 DEF Batch
    <3>6. f.pending = b.pending /\ f.lost = b.lost
      BY <3>1, <3>2 DEF Batch
    <3>7. BatchTyped(f)
      BY <3>1, <3>4, <3>5 DEF BatchTyped
    <3> QED BY <2>2, <3>1, <3>3, <3>4, <3>5, <3>6, <3>7 DEF Same
  <2> QED BY <2>1, <2>2
<1>9. BatchesTyped'
  <2>1. batch' = [s \in Slots |-> batch'[s]]
    BY <1>1
  <2>2. \A s \in Slots : BatchTyped(batch'[s])
    BY <1>8
  <2> QED BY <2>1, <2>2 DEF BatchesTyped, BatchTyped
<1>10. OnceOK'
  <2>1. ASSUME NEW j \in 1..Len(w2), NEW k \in 1..Len(w2), w2[j].slot # None, w2[j].slot = w2[k].slot PROVE j = k
    <3>1. j + 1 = k + 1
      BY <1>3, <1>6, <2>1 DEF IInv, OnceOK
    <3> QED BY <3>1
  <2> QED BY <1>4, <2>1 DEF OnceOK
<1>11. ASSUME NEW s \in Slots, InWork(s)' PROVE InWork(s)
  BY <1>3, <1>4, <1>6, <1>11 DEF InWork
<1>12. FencesOK'
  <2>1. ASSUME NEW s \in Slots, s = item.slot PROVE ~Queued(s)'
    <3>1. ASSUME Queued(s)' PROVE FALSE
      <4>1. PICK k \in 1..Len(gpuQueue') : gpuQueue'[k].slot = s
        BY <3>1 DEF Queued
      <4>2. k + 1 \in 1..Len(gpuQueue) /\ gpuQueue[k + 1].slot = s /\ k + 1 # 1
        BY <1>5, <4>1
      <4>3. k + 1 \in 1..Len(w) /\ w[k + 1].slot = s
        BY <1>3, <4>2, WorkFacts
      <4>4. s # None
        BY DEF Sized
      <4> QED BY <1>3, <1>5, <1>7, <2>1, <4>2, <4>3, <4>4 DEF IInv, OnceOK
    <3> QED BY <3>1
  <2>2. ASSUME NEW s \in Slots, s # item.slot PROVE Queued(s)' <=> Queued(s)
    <3>1. ASSUME Queued(s)' PROVE Queued(s)
      <4>1. PICK k \in 1..Len(gpuQueue') : gpuQueue'[k].slot = s
        BY <3>1 DEF Queued
      <4>2. k + 1 \in 1..Len(gpuQueue) /\ gpuQueue[k + 1].slot = s
        BY <1>5, <4>1
      <4> QED BY <4>2 DEF Queued
    <3>2. ASSUME Queued(s) PROVE Queued(s)'
      <4>1. PICK k \in 1..Len(gpuQueue) : gpuQueue[k].slot = s
        BY <3>2 DEF Queued
      <4>2. k # 1
        <5>1. gpuQueue[1] = item
          BY <1>1, <1>2
        <5> QED BY <2>2, <4>1, <5>1
      <4>3. k - 1 \in 1..Len(gpuQueue') /\ k - 1 \in 1..Len(gpuQueue) - 1 /\ (k - 1) + 1 = k
        BY <1>5, <4>1, <4>2
      <4>4. gpuQueue'[k - 1].slot = s
        BY <1>5, <4>1, <4>3
      <4> QED BY <4>3, <4>4 DEF Queued
    <3> QED BY <3>1, <3>2
  <2>3. ASSUME NEW s \in Slots PROVE Queued(s)' <=> Running(s)'
    <3>1. CASE s = item.slot
      BY <1>8, <2>1, <3>1 DEF Running
    <3>2. CASE s # item.slot
      BY <1>8, <2>2, <3>2 DEF IInv, FencesOK, Running
    <3> QED BY <3>1, <3>2
  <2> QED BY <2>3 DEF FencesOK
<1>13. HoldsOK'
  BY <1>8, <1>11, HoldsKept
<1>14. KeptOK'
  <2>1. ASSUME NEW s \in Slots PROVE InUse(s)' <=> InUse(s)
    BY <1>1, <1>8 DEF InUse
  <2>2. current # None => ~batch'[current].pending
    BY <1>2, <1>8 DEF IInv, KeptOK
  <2>3. \A s \in Slots : batch'[s].resources = batch[s].resources /\ batch'[s].capacity = batch[s].capacity
    BY <1>8 DEF Same
  <2> QED BY <1>1, <2>1, <2>2, <2>3 DEF IInv, KeptOK
<1>15. Oldest' = Oldest
  BY <1>1 DEF Oldest
<1>16. RingOK'
  BY <1>3, <1>4, <1>5, <1>8, <1>15, RingTaken
<1>17. InOrder'
  <2>1. \A s \in Slots : InWork(s) => batch'[s].ops = batch[s].ops
    BY <1>8 DEF Same
  <2>2. 1 \in 1..Len(Work) /\ Len(w2) = Len(Work) - 1 /\ \A k \in 1..Len(w2) : w2[k] = Work[k + 1]
    BY <1>3, <1>5, <1>7
  <2>3. applied' = applied + Len(Numbers(Work[1]))
    BY <1>1, <1>3, <1>5
  <2> QED BY <1>1, <1>4, <1>5, <2>1, <2>2, <2>3, OrderTaken
<1>18. Len(Numbers(item)) \in Nat
  <2>1. item.slot \in Slots \cup {None}
    BY <1>5 DEF WorkItem
  <2>2. CASE item.slot = None
    BY <2>2, CommandNumbers
  <2>3. CASE item.slot \in Slots
    <3>1. item.slot # None /\ batch[item.slot].ops \in Seq(Op)
      BY <2>3, TypedBatch, BatchFields DEF Sized
    <3> QED BY <3>1, BatchNumbers
  <2> QED BY <2>1, <2>2, <2>3
<1>19. CursorTyped' /\ RequestOK' /\ RestTyped'
  BY <1>1 DEF IInv, Typed, CursorTyped, RequestOK, RestTyped
<1>20. QueueTyped'
  BY <1>1, <1>2, <1>5, <1>18 DEF QueueTyped
<1> QED BY <1>9, <1>10, <1>12, <1>13, <1>14, <1>16, <1>17, <1>19, <1>20 DEF IInv, Typed

\* The device goes, when nothing of its queue is under way.
LEMMA DestroyDeviceKeeps == ASSUME Sized, IInv, DestroyDevice PROVE IInv'
<1>1. /\ request = None /\ \A k \in 1..Len(gpuQueue) : gpuQueue[k].slot # None
      /\ \A s \in Slots : batch[s].pending => batch[s].fence
      /\ alive' = FALSE /\ batch' = [s \in Slots |-> NewBatch] /\ current' = None /\ needsService' = FALSE
      /\ UNCHANGED <<cursor, request, gpuQueue, staged, applied, textures, polling>>
  BY DEF DestroyDevice, Free
<1>2. gpuQueue = <<>> /\ Len(gpuQueue) = 0
  <2>1. gpuQueue \in Seq(WorkItem) /\ Len(gpuQueue) \in Nat
    BY DEF IInv, Typed, QueueTyped
  <2>2. ASSUME Len(gpuQueue) # 0 PROVE FALSE
    <3>1. 1 \in 1..Len(gpuQueue)
      BY <2>1, <2>2
    <3>2. gpuQueue[1] \in WorkItem /\ gpuQueue[1].slot # None
      BY <1>1, <2>1, <3>1
    <3>3. PICK s \in Slots : s = gpuQueue[1].slot
      BY <3>2 DEF WorkItem
    <3>4. Queued(s)
      BY <3>1, <3>3 DEF Queued
    <3> QED BY <1>1, <3>4 DEF IInv, FencesOK, Running
  <2> QED BY <2>1, <2>2
<1>3. Work' = <<>> /\ Len(Work') = 0 /\ 1..Len(Work') = {}
  BY <1>1, <1>2 DEF Work, FlushedQueue
<1>4. BatchTyped(NewBatch) /\ NewBatch.capacity = 0 /\ NewBatch.resources = {} /\ ~NewBatch.pending
  BY NewBatchTyped
<1>5. \A s \in Slots : batch'[s] = NewBatch
  BY <1>1
<1>6. BatchesTyped'
  BY <1>1, <1>4, <1>5 DEF BatchesTyped, BatchTyped
<1>7. OnceOK' /\ RingOK'
  BY <1>3 DEF OnceOK, RingOK
<1>8. \A s \in Slots : ~InWork(s)' /\ ~Queued(s)'
  BY <1>1, <1>2, <1>3 DEF InWork, Queued
<1>9. FencesOK' /\ HoldsOK'
  BY <1>4, <1>5, <1>8 DEF FencesOK, HoldsOK, Running
<1>10. KeptOK'
  <2>1. ASSUME NEW s \in Slots PROVE ~InUse(s)' /\ batch'[s].resources = {} /\ ~(batch'[s].capacity > Block)
    BY <1>1, <1>4, <1>5 DEF InUse, Sized
  <2> QED BY <1>1, <2>1 DEF KeptOK
<1>11. RequestOK' /\ InOrder'
  BY <1>1 DEF RequestOK, InOrder
<1>12. CursorTyped' /\ QueueTyped' /\ RestTyped'
  BY <1>1 DEF IInv, Typed, CursorTyped, QueueTyped, RestTyped
<1> QED BY <1>6, <1>7, <1>9, <1>10, <1>11, <1>12 DEF IInv, Typed

-----------------------------------------------------------------------------
(* The theorem *)

LEMMA InitHolds == ASSUME Sized, Init PROVE IInv
<1>1. /\ batch = [s \in Slots |-> NewBatch] /\ current = None /\ cursor = 0 /\ needsService = FALSE /\ request = None
      /\ gpuQueue = <<>> /\ staged = 0 /\ applied = 0 /\ textures = {} /\ polling = {} /\ alive = TRUE
  BY DEF Init
<1>2. BatchTyped(NewBatch) /\ NewBatch.capacity = 0 /\ NewBatch.resources = {} /\ ~NewBatch.pending
  BY NewBatchTyped
<1>3. \A s \in Slots : batch[s] = NewBatch
  BY <1>1
<1>4. Work = <<>> /\ Len(Work) = 0 /\ 1..Len(Work) = {} /\ Len(gpuQueue) = 0
  BY <1>1 DEF Work, FlushedQueue
<1>5. BatchesTyped
  BY <1>1, <1>2, <1>3 DEF BatchesTyped
<1>6. OnceOK /\ RingOK
  BY <1>4 DEF OnceOK, RingOK
<1>7. \A s \in Slots : ~InWork(s) /\ ~Queued(s)
  BY <1>4 DEF InWork, Queued
<1>8. FencesOK /\ HoldsOK
  BY <1>2, <1>3, <1>7 DEF FencesOK, HoldsOK, Running
<1>9. KeptOK
  <2>1. ASSUME NEW s \in Slots PROVE ~InUse(s) /\ batch[s].resources = {} /\ ~(batch[s].capacity > Block)
    BY <1>1, <1>2, <1>3 DEF InUse, Sized
  <2> QED BY <1>1, <2>1 DEF KeptOK
<1>10. RequestOK
  BY <1>1 DEF RequestOK
<1>11. InOrder
  <2>1. Before(Work, Len(Work) + 1) = staged
    BY <1>1, <1>4 DEF Before
  <2> QED BY <1>4, <2>1 DEF InOrder, Work
<1>12. CursorTyped /\ QueueTyped /\ RestTyped
  <2>1. 0 \in Slots /\ <<>> \in Seq(WorkItem)
    BY DEF Sized, Slots
  <2> QED BY <1>1, <2>1 DEF CursorTyped, QueueTyped, RestTyped
<1> QED BY <1>5, <1>6, <1>8, <1>9, <1>10, <1>11, <1>12 DEF IInv, Typed

LEMMA NextKeeps == ASSUME Sized, IInv, [Next]_vars PROVE IInv'
<1>1. ASSUME NEW i \in Images, CreateTexture(i) PROVE IInv'
  BY <1>1, StageInCurrentKeeps, StageInNextKeeps DEF CreateTexture
<1>2. ASSUME NEW i \in Images, DestroyTexture(i) PROVE IInv'
  <2>1. RestTyped'
    BY <1>2 DEF DestroyTexture, IInv, Typed, RestTyped
  <2> QED BY <1>2, <2>1, QuietStep DEF DestroyTexture
<1>3. ASSUME NEW i \in Images, NEW size \in Sizes, ReplaceRegion(i, size) PROVE IInv'
  <2>1. size \in Sizes \cup {0}
    OBVIOUS
  <2> QED BY <1>3, <2>1, StageInCurrentKeeps, StageInNextKeeps DEF ReplaceRegion
<1>4. ASSUME NEW p \in Pollers, PollHint(p) PROVE IInv'
  <2>1. RestTyped'
    BY <1>4 DEF PollHint, IInv, Typed, RestTyped
  <2> QED BY <1>4, <2>1, QuietStep DEF PollHint
<1>5. ASSUME UNCHANGED vars PROVE IInv'
  <2>1. RestTyped'
    BY <1>5 DEF vars, IInv, Typed, RestTyped
  <2> QED BY <1>5, <2>1, QuietStep DEF vars
<1> QED BY <1>1, <1>2, <1>3, <1>4, <1>5, BeginSlotKeeps, BeginSlotFailsKeeps, CommitKeeps, PollServiceKeeps,
           GpuExecuteKeeps, DestroyDeviceKeeps DEF Next

LEMMA SafetyFollows == ASSUME Sized, IInv PROVE Safety
<1>1. \A s \in Slots : BatchTyped(batch[s])
  BY TypedBatch
<1>2. \A s \in Slots : s \in Outstanding <=> InWork(s)
  BY WorkFacts DEF Outstanding, Queued
<1>3. TypeOK
  <2>1. ASSUME NEW s \in Slots
        PROVE  /\ batch[s].staging \in BOOLEAN /\ batch[s].pending \in BOOLEAN /\ batch[s].fence \in BOOLEAN
               /\ batch[s].lost \in BOOLEAN /\ batch[s].capacity \in Nat /\ batch[s].used \in Nat
               /\ DOMAIN batch[s].mem = 0..(batch[s].capacity - 1)
               /\ Len(batch[s].ops) <= MaxOps /\ \A k \in 1..Len(batch[s].ops) : batch[s].ops[k] \in Op
               /\ batch[s].resources \subseteq Images
    <3>1. PICK b : b = batch[s] /\ BatchTyped(b)
      BY <1>1
    <3>2. /\ b.staging \in BOOLEAN /\ b.capacity \in Nat /\ b.mem \in [0..(b.capacity - 1) -> Nat]
          /\ b.used \in Nat /\ b.ops \in Seq(Op) /\ b.pending \in BOOLEAN /\ b.fence \in BOOLEAN
          /\ b.resources \in SUBSET Images /\ b.lost \in BOOLEAN /\ Len(b.ops) <= MaxOps
      BY <3>1, BatchFields
    <3> QED BY <3>1, <3>2
  <2>2. current \in Slots \cup {None} /\ cursor \in Slots /\ (request = None \/ request \in Call)
    BY DEF IInv, Typed, CursorTyped
  <2>3. (\A k \in 1..Len(gpuQueue) : gpuQueue[k] \in WorkItem) /\ staged \in Nat /\ applied \in Nat
    BY DEF IInv, Typed, QueueTyped
  <2>4. needsService \in BOOLEAN /\ textures \subseteq Images /\ polling \subseteq Pollers /\ alive \in BOOLEAN
    BY DEF IInv, Typed, RestTyped
  <2> QED BY <2>1, <2>2, <2>3, <2>4 DEF TypeOK, Call, WorkItem
<1>4. ReadsOwnBytes
  <2>1. ASSUME NEW s \in Slots, s \in Outstanding, NEW n \in 1..Len(batch[s].ops), NEW op, op = batch[s].ops[n],
               NEW k \in op.offset..(op.offset + op.size - 1)
        PROVE  k \in DOMAIN batch[s].mem /\ batch[s].mem[k] = op.id
    <3>1. PICK b : b = batch[s] /\ BatchTyped(b) /\ Holds(b)
      BY <1>1, <1>2, <2>1 DEF IInv, HoldsOK
    <3>2. b.used <= b.capacity /\ op.offset + op.size <= b.used /\ b.mem[k] = op.id
      BY <2>1, <3>1 DEF Holds
    <3>3. b.used \in Nat /\ b.capacity \in Nat /\ DOMAIN b.mem = 0..(b.capacity - 1) /\ b.ops \in Seq(Op)
      BY <3>1, BatchFields
    <3>4. op \in Op
      BY <2>1, <3>1, <3>3
    <3>5. op.offset \in Nat /\ op.size \in Nat
      BY <3>4, OpFields
    <3>6. k \in 0..(b.capacity - 1)
      BY <3>2, <3>3, <3>5
    <3> QED BY <3>1, <3>2, <3>3, <3>6
  <2> QED BY <2>1 DEF ReadsOwnBytes, Outstanding
<1>5. ImagesOutliveUploads
  BY <1>2 DEF ImagesOutliveUploads, ImageAlive, Outstanding, IInv, HoldsOK, Holds
<1>6. IdleHoldsNothing
  <2>1. ASSUME ~needsService PROVE current = None /\ \A s \in Slots : ~InUse(s)
    BY <2>1 DEF IInv, KeptOK, InUse, Typed, CursorTyped
  <2>2. ASSUME NEW s \in Slots, ~InUse(s) PROVE ~batch[s].pending /\ batch[s].resources = {} /\ batch[s].capacity <= Block
    <3>1. batch[s].resources = {} /\ ~(batch[s].capacity > Block) /\ ~batch[s].pending
      BY <2>2 DEF IInv, KeptOK, InUse
    <3>2. batch[s].capacity \in Nat /\ Block \in Nat
      BY <1>1, BatchFields DEF Sized
    <3> QED BY <3>1, <3>2
  <2> QED BY <2>1, <2>2 DEF IdleHoldsNothing
<1>7. LargeStagingInUse
  BY DEF LargeStagingInUse, IInv, KeptOK, InUse
<1>8. WaitsUnderBackpressure
  <2>1. ASSUME Blocked, NEW t \in Slots PROVE (batch[t].pending /\ ~batch[t].fence) \/ batch[t].lost
    <3>1. PICK r \in Slots : r = request.slot /\ Oldest = r /\ current = None /\ Running(r)
      BY <2>1 DEF Blocked, IInv, Typed, CursorTyped, RequestOK, Call, Oldest, Running
    <3>2. CASE t = r
      BY <3>1, <3>2 DEF Running
    <3>3. CASE t # r
      <4>1. Queued(r) /\ r # None
        BY <3>1 DEF IInv, FencesOK, Sized
      <4>2. PICK j \in 1..Len(Work) : Work[j].slot = r
        BY <4>1, WorkFacts DEF InWork
      <4>3. Turn(r, r) = 0 /\ Turn(r, t) \in 0..(Ring - 1) /\ Turn(r, t) # 0
        <5>1. Turn(r, t) \in 0..(Ring - 1) /\ Turn(r, r) = 0
          BY TurnShift
        <5>2. Turn(r, t) # 0
          BY <3>3 DEF Turn, Slots, Sized
        <5> QED BY <5>1, <5>2
      <4>4. Turn(Oldest, Work[j].slot) < Turn(Oldest, t)
        BY <3>1, <4>2, <4>3
      <4>5. batch[t].lost \/ LaterIn(j, t)
        BY <4>1, <4>2, <4>4 DEF IInv, RingOK
      <4>6. ASSUME LaterIn(j, t) PROVE Running(t)
        <5>1. InWork(t)
          BY <4>6 DEF LaterIn, InWork
        <5>2. t # None
          BY DEF Sized
        <5>3. Queued(t)
          BY <3>1, <5>1, <5>2, WorkFacts
        <5> QED BY <5>3 DEF IInv, FencesOK
      <4> QED BY <4>5, <4>6 DEF Running
    <3> QED BY <3>2, <3>3
  <2> QED BY <2>1 DEF WaitsUnderBackpressure
<1> QED BY <1>3, <1>4, <1>5, <1>6, <1>7, <1>8 DEF Safety, IInv

\* UploadQueue, with any number and size of batches: uploads and commands run
\* exactly once and in order, a copy reads the bytes its replaceRegion wrote
\* and writes an image that is alive, an idle queue keeps no memory, and
\* begin() waits only when every batch of the ring is on the GPU.
THEOREM UploadsStaySound ==
  ASSUME Ring \in Nat \ {0}, Align \in Nat \ {0}, MaxOps \in Nat \ {0}, Block \in Nat, Sizes \subseteq Nat,
         None \notin Slots, None \notin [image : Images, size : Sizes \cup {0}, slot : Slots]
  PROVE  Spec => []Safety
<1>1. Sized
  BY DEF Sized, Call
<1>2. Init => IInv
  BY <1>1, InitHolds
<1>3. IInv /\ [Next]_vars => IInv'
  BY <1>1, NextKeeps
<1>4. IInv => Safety
  BY <1>1, SafetyFollows
<1> QED BY <1>2, <1>3, <1>4, PTL DEF Spec
=============================================================================
