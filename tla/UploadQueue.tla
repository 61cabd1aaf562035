---------------------------- MODULE UploadQueue ----------------------------
(***************************************************************************)
(* The texture upload queue of native/renderer/uploads.cpp.                *)
(*                                                                         *)
(* Textures stage their first layout transition (initialize) and their     *)
(* replaceRegion bytes (copy) into the current batch.  A batch owns a      *)
(* command buffer, a fence and a staging buffer that is filled from the    *)
(* front.  A batch that is full is submitted and the next one of the ring  *)
(* is taken, after a wait for its fence if the GPU still works on it.      *)
(* Commits and polls submit the current batch and reclaim finished ones.   *)
(*                                                                         *)
(* Every operation runs under queueMutex.  Only begin() blocks while it    *)
(* holds it: request # None from there until the staging call returns.     *)
(* Every staged operation and every committed command gets the next number *)
(* (staged), which stands for its bytes too; the GPU has finished the      *)
(* first `applied` of them.                                                *)
(*                                                                         *)
(* A failure of the allocation of staging memory is an exception out of    *)
(* the staging call.  Other Vulkan errors (a lost device) are left out.     *)
(***************************************************************************)
EXTENDS Naturals, SequencesExt

CONSTANTS Ring,         \* number of batches; 4 in the code
          Block,        \* least size of a staging buffer; 4 MiB in the code
          Align,        \* alignment of copies; at least 16 in the code
          MaxOps,       \* operations per batch; 256 in the code
          Sizes,        \* sizes of the bytes of a replaceRegion
          Images,       \* VkImage handles
          Pollers,      \* threads that call pollEvents
          MaxStaged,    \* bound: operations and commands in a behaviour
          None

VARIABLES batch,        \* batches: what each slot holds
          current,      \* slot of the batch being recorded, or None
          cursor,       \* slot taken next
          needsService, \* the polling threads' hint
          request,      \* the staging call inside begin(), or None
          gpuQueue,     \* submissions on graphicsQueue() not yet finished
          staged, applied,
          textures,     \* images whose texture object exists
          polling,      \* pollers that read needsService and go for the lock
          alive         \* the device exists

vars == <<batch, current, cursor, needsService, request, gpuQueue, staged,
          applied, textures, polling, alive>>

Slots == 0..(Ring - 1)

NoBytes == [k \in {} |-> 0]

\* UploadQueue::Batch: ops is its command buffer, mem its mapped staging buffer.
\* lost is history: the slot's last turn in the ring ended in an exception.
NewBatch == [staging |-> FALSE, capacity |-> 0, mem |-> NoBytes, used |-> 0, ops |-> <<>>,
             pending |-> FALSE, fence |-> FALSE, resources |-> {}, lost |-> FALSE]

Init ==
  /\ batch = [s \in Slots |-> NewBatch]
  /\ current = None
  /\ cursor = 0
  /\ needsService = FALSE
  /\ request = None
  /\ gpuQueue = <<>>
  /\ staged = 0
  /\ applied = 0
  /\ textures = {}
  /\ polling = {}
  /\ alive = TRUE

\* queueMutex can be taken.
Free == alive /\ request = None

\* The image is destroyed with its last _uploadLifetime.
ImageAlive(i) ==
  \/ i \in textures
  \/ \E s \in Slots : i \in batch[s].resources
  \/ request # None /\ request.image = i

-----------------------------------------------------------------------------
(* The pieces of a batch's life. *)

\* (n + alignment - 1) & ~(alignment - 1)
AlignUp(n) == ((n + Align - 1) \div Align) * Align

\* Mutant: capacity - offset wraps around when the offset is past the end.
FitsWrapped(b, size) ==
  /\ AlignUp(b.used) > b.capacity \/ size <= b.capacity - AlignUp(b.used)
  /\ Len(b.ops) < MaxOps

\* begin(): the current batch has room for the operation.
Fits(b, size) ==
  /\ AlignUp(b.used) <= b.capacity
  /\ size <= b.capacity - AlignUp(b.used)
  /\ Len(b.ops) < MaxOps

\* The body of initialize (size 0) and copy, at the batch's offset.
Recorded(b, offset, image, size) ==
  [b EXCEPT !.resources = @ \cup {image},
            !.mem = [k \in DOMAIN @ |->
                       IF k \in offset..(offset + size - 1) THEN staged + 1 ELSE @[k]],
            !.ops = Append(@, [id |-> staged + 1, image |-> image, offset |-> offset, size |-> size]),
            !.used = offset + size]

FreeStaging(b) == [b EXCEPT !.staging = FALSE, !.capacity = 0, !.mem = NoBytes]

\* The GPU is done with the batch.
Finished(b) == [b EXCEPT !.pending = FALSE, !.resources = {}]

\* begin(): a staging buffer for the bytes.
NeedsStaging(b, size) == ~b.staging \/ size > b.capacity

WithStaging(b, size) ==
  IF ~NeedsStaging(b, size) THEN b
  ELSE LET capacity == IF size > Block THEN size ELSE Block
       IN  [b EXCEPT !.staging = TRUE, !.capacity = capacity,
                     !.mem = [k \in 0..(capacity - 1) |-> 0]]

\* flush(): the batches, and the queue, after it.
Flushed == [s \in Slots |->
  IF s = current THEN [batch[s] EXCEPT !.pending = TRUE, !.fence = FALSE] ELSE batch[s]]

FlushedQueue ==
  IF current = None THEN gpuQueue ELSE Append(gpuQueue, [slot |-> current, id |-> 0])

\* collect(): a finished batch gives up its resources and a large buffer.
Reclaimed(b) == IF b.capacity > Block THEN FreeStaging(Finished(b)) ELSE Finished(b)

Collectable == {s \in Slots : Flushed[s].pending /\ Flushed[s].fence}

\* flush(); collect(): the fences are read one by one while the GPU runs on,
\* so one signalled meanwhile may be left to the next collect.
FlushAndCollect ==
  \E done \in SUBSET Collectable :
    /\ batch' = [s \in Slots |-> IF s \in done THEN Reclaimed(Flushed[s]) ELSE Flushed[s]]
    /\ needsService' = /\ needsService \/ current # None
                       /\ \E s \in Slots : batch'[s].pending
    /\ current' = None

-----------------------------------------------------------------------------
(* Staging. *)

\* The operation is recorded; a constructor that recorded its transition has
\* made its texture.
Stage(image) ==
  /\ staged' = staged + 1
  /\ needsService' = TRUE
  /\ textures' = textures \cup {image}

\* begin() finds room in the current batch.
StageInCurrent(image, size) ==
  /\ Free /\ staged < MaxStaged
  /\ current # None /\ Fits(batch[current], size)
  /\ batch' = [batch EXCEPT ![current] = Recorded(@, AlignUp(@.used), image, size)]
  /\ Stage(image)
  /\ UNCHANGED <<current, cursor, request, gpuQueue, applied, polling, alive>>

\* begin() submits a full batch and takes the next slot of the ring.
StageInNext(image, size) ==
  /\ Free /\ staged < MaxStaged
  /\ current # None => ~Fits(batch[current], size)
  /\ batch' = Flushed
  /\ gpuQueue' = FlushedQueue
  /\ needsService' = (needsService \/ current # None)
  /\ current' = None
  /\ cursor' = (cursor + 1) % Ring
  /\ request' = [image |-> image, size |-> size, slot |-> cursor]
  /\ UNCHANGED <<staged, applied, textures, polling, alive>>

\* begin() waits here while the GPU works on the slot.
Blocked == request # None /\ batch[request.slot].pending /\ ~batch[request.slot].fence

\* begin() after the wait, and the operation at the start of the batch.
BeginSlot ==
  /\ request # None /\ ~Blocked
  /\ LET b == Finished(batch[request.slot])
         ready == [WithStaging(b, request.size) EXCEPT !.used = 0, !.ops = <<>>, !.lost = FALSE]
     IN  batch' = [batch EXCEPT ![request.slot] = Recorded(ready, 0, request.image, request.size)]
  /\ current' = request.slot
  /\ request' = None
  /\ Stage(request.image)
  /\ UNCHANGED <<cursor, gpuQueue, applied, polling, alive>>

\* begin() cannot get staging memory: it throws with the old buffer gone and
\* perhaps a new VkBuffer without memory.
BeginSlotFails ==
  /\ request # None /\ ~Blocked
  /\ NeedsStaging(batch[request.slot], request.size)
  /\ \E created \in BOOLEAN :
       batch' = [batch EXCEPT ![request.slot] =
                   [FreeStaging(Finished(@)) EXCEPT !.staging = created, !.lost = TRUE]]
  /\ request' = None
  /\ UNCHANGED <<current, cursor, needsService, gpuQueue, staged, applied, textures, polling, alive>>

-----------------------------------------------------------------------------
(* The textures. *)

\* ConcreteTexture's constructor.
CreateTexture(i) ==
  /\ ~ImageAlive(i)
  /\ StageInCurrent(i, 0) \/ StageInNext(i, 0)

\* ConcreteTexture::replaceRegion.
ReplaceRegion(i, size) ==
  /\ i \in textures
  /\ StageInCurrent(i, size) \/ StageInNext(i, size)

\* ConcreteTexture's destructor; it does not take queueMutex.
DestroyTexture(i) ==
  /\ i \in textures
  /\ request # None => request.image # i
  /\ textures' = textures \ {i}
  /\ UNCHANGED <<batch, current, cursor, needsService, request, gpuQueue, staged, applied, polling, alive>>

-----------------------------------------------------------------------------
(* Commits, polls, the GPU and the end. *)

\* PrivateCommandBuffer::commit submits the uploads before its commands.
Commit ==
  /\ Free /\ staged < MaxStaged
  /\ FlushAndCollect
  /\ gpuQueue' = Append(FlushedQueue, [slot |-> None, id |-> staged + 1])
  /\ staged' = staged + 1
  /\ UNCHANGED <<cursor, request, applied, textures, polling, alive>>

\* pollEvents reads the hint without the lock ...
PollHint(p) ==
  /\ alive /\ needsService
  /\ p \notin polling
  /\ polling' = polling \cup {p}
  /\ UNCHANGED <<batch, current, cursor, needsService, request, gpuQueue, staged, applied, textures, alive>>

\* ... and services the queue under it.
PollService(p) ==
  /\ Free
  /\ p \in polling
  /\ polling' = polling \ {p}
  /\ FlushAndCollect
  /\ gpuQueue' = FlushedQueue
  /\ UNCHANGED <<cursor, request, staged, applied, textures, alive>>

\* The numbers a submission completes.
Numbers(item) ==
  IF item.slot = None THEN <<item.id>>
  ELSE [k \in 1..Len(batch[item.slot].ops) |-> batch[item.slot].ops[k].id]

\* Submissions execute in order; a batch signals its fence when it is done.
GpuExecute ==
  /\ gpuQueue # <<>>
  /\ LET item == Head(gpuQueue)
     IN  /\ applied' = applied + Len(Numbers(item))
         /\ batch' = [s \in Slots |->
              IF s = item.slot THEN [batch[s] EXCEPT !.fence = TRUE] ELSE batch[s]]
  /\ gpuQueue' = Tail(gpuQueue)
  /\ UNCHANGED <<current, cursor, needsService, request, staged, textures, polling, alive>>

\* ~PrivateDevice and ~UploadQueue, when no texture, unfinished command or
\* poll keeps the device: unsubmitted work is discarded, submitted work awaited.
DestroyDevice ==
  /\ Free
  /\ textures = {} /\ polling = {}
  /\ \A k \in 1..Len(gpuQueue) : gpuQueue[k].slot # None
  /\ \A s \in Slots : batch[s].pending => batch[s].fence
  /\ alive' = FALSE
  /\ batch' = [s \in Slots |-> NewBatch]
  /\ current' = None
  /\ needsService' = FALSE
  /\ UNCHANGED <<cursor, request, gpuQueue, staged, applied, textures, polling>>

Next ==
  \/ \E i \in Images : CreateTexture(i) \/ DestroyTexture(i)
  \/ \E i \in Images, size \in Sizes : ReplaceRegion(i, size)
  \/ BeginSlot \/ BeginSlotFails
  \/ Commit
  \/ \E p \in Pollers : PollHint(p) \/ PollService(p)
  \/ GpuExecute
  \/ DestroyDevice

Spec == Init /\ [][Next]_vars

-----------------------------------------------------------------------------
(* Properties. *)

\* The batches the GPU will still read: submitted and unfinished, or recorded.
Outstanding == {s \in Slots : s = current \/ \E k \in 1..Len(gpuQueue) : gpuQueue[k].slot = s}

Op == [id : Nat, image : Images, offset : Nat, size : Sizes \cup {0}]

\* Types.
TypeOK ==
  /\ \A s \in Slots :
       /\ batch[s].staging \in BOOLEAN /\ batch[s].pending \in BOOLEAN /\ batch[s].fence \in BOOLEAN
       /\ batch[s].lost \in BOOLEAN
       /\ batch[s].capacity \in Nat /\ batch[s].used \in Nat
       /\ DOMAIN batch[s].mem = 0..(batch[s].capacity - 1)
       /\ Len(batch[s].ops) <= MaxOps /\ \A k \in 1..Len(batch[s].ops) : batch[s].ops[k] \in Op
       /\ batch[s].resources \subseteq Images
  /\ current \in Slots \cup {None}
  /\ cursor \in Slots
  /\ needsService \in BOOLEAN
  /\ request = None \/ request \in [image : Images, size : Sizes \cup {0}, slot : Slots]
  /\ \A k \in 1..Len(gpuQueue) : gpuQueue[k] \in [slot : Slots \cup {None}, id : Nat]
  /\ staged \in Nat /\ applied \in Nat
  /\ textures \subseteq Images
  /\ polling \subseteq Pollers
  /\ alive \in BOOLEAN

\* The numbers right after n, at least one.
Follow(numbers, n) == Len(numbers) > 0 /\ \A j \in 1..Len(numbers) : numbers[j] = n + j

\* The number before those of the k-th submission of work.
Before(work, k) == IF k = 1 THEN applied ELSE Last(Numbers(work[k - 1]))

\* Uploads and commands execute exactly once and in the order in which they
\* were staged and committed: what is submitted and then what is recorded is
\* precisely the numbers from `applied` to `staged`.  So an upload precedes
\* every command committed after it, across full batches, reused slots and
\* failed calls (uploads.cpp:140, "uploads wait for prior sampling/readback
\* and publish to future use").
InOrder ==
  alive =>
    LET work == FlushedQueue
    IN  /\ \A k \in 1..Len(work) : Follow(Numbers(work[k]), Before(work, k))
        /\ Before(work, Len(work) + 1) = staged

\* Until the GPU has executed a copy, the staging bytes it will read exist and
\* are the ones its replaceRegion wrote, whatever was staged, reclaimed,
\* reallocated or destroyed since.
ReadsOwnBytes ==
  \A s \in Outstanding : \A n \in 1..Len(batch[s].ops) :
    LET op == batch[s].ops[n]
    IN  \A k \in op.offset..(op.offset + op.size - 1) :
          k \in DOMAIN batch[s].mem /\ batch[s].mem[k] = op.id

\* No image is destroyed while a recorded or submitted upload names it, also
\* when its texture is gone.
ImagesOutliveUploads ==
  \A s \in Outstanding : \A n \in 1..Len(batch[s].ops) : ImageAlive(batch[s].ops[n].image)

\* A poller that reads needsService as false leaves nothing behind: no
\* recorded or pending batch, no retained image and no large staging buffer
\* (uploads.hpp:18-21).
IdleHoldsNothing ==
  ~needsService =>
    /\ current = None
    /\ \A s \in Slots : /\ ~batch[s].pending
                        /\ batch[s].resources = {}
                        /\ batch[s].capacity <= Block

\* Staging memory beyond the four blocks is kept by batches in use only.
LargeStagingInUse ==
  \A s \in Slots : batch[s].capacity > Block => batch[s].pending \/ s = current

\* begin() waits only under backpressure (uploads.cpp:73): every slot of the
\* ring is then on the GPU, unless its last turn ended in an exception.
WaitsUnderBackpressure ==
  Blocked => \A s \in Slots : \/ batch[s].pending /\ ~batch[s].fence
                              \/ batch[s].lost

\* What is staged is kept, read and applied exactly: see the parts.
Safety ==
  /\ TypeOK /\ InOrder /\ ReadsOwnBytes /\ ImagesOutliveUploads
  /\ IdleHoldsNothing /\ LargeStagingInUse /\ WaitsUnderBackpressure
=============================================================================
