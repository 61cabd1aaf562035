--------------------------- MODULE CommandBuffer ---------------------------
(***************************************************************************)
(* Command buffers from creation to their last completion handler:         *)
(* native/renderer/command-buffer.cpp, on top of the device's event loop   *)
(* and its pools of completion semaphores and command pools.               *)
(*                                                                         *)
(* A commit takes the command's mutex, then the device's queue mutex,      *)
(* acquires a timeline semaphore, submits, and arms the completion: at     *)
(* once, or from the serial dispatch queue after the application's         *)
(* scheduled handlers.  The polling thread runs the completion; the        *)
(* application's completed handlers run on the concurrent dispatch queue.  *)
(* A wrapped semaphore has several owners (the command, the running        *)
(* commit, the completion closure, threads in waitForGPU) and returns to   *)
(* the pool when the last one drops it.                                    *)
(*                                                                         *)
(* Texture dependencies, uploads and the presentation of drawables are not *)
(* part of this module; a commit only draws the presentation serial here.  *)
(***************************************************************************)
EXTENDS EventLoop

CONSTANTS Pools,          \* VkCommandPool handles
          Waiters,        \* threads that call waitUntilCompleted
          Readers,        \* threads that call waitForGPU
          Calls,          \* the optional calls the application may make (a bound)
          Stuck,          \* commands whose application handlers never return
          MaxHandlers,    \* bound on handlers of one kind per command
          SemCapacity,    \* completionSemaphoreCapacity (128)
          PoolCapacity,   \* idle command pools kept (32)
          MaxCount,       \* UINT64_MAX, the last value of a timeline
          None            \* null handle

Commands == Callbacks

VARIABLES phase,             \* the application thread's progress with a command
          scheduledHandlers, \* _scheduledHandlers not yet run
          completedHandlers, \* _completedHandlers not yet run
          encoders,          \* _commandEncoders: "none", "held", "work" (moved to the callback)
          drawables,         \* _drawablesToPresent is not empty
          completed,         \* _completed
          handlersCompleted, \* _handlersCompleted
          pool,              \* _commandPool
          recycledCommands,  \* device: idle command pools
          timeline,          \* the semaphore a commit acquired
          count,             \* TimelineSemaphore::count of each handle
          owners,            \* who holds the shared_ptr of each handle
          recycledSems,      \* device: recycledCompletionSemaphores
          gpuQueue,          \* submissions the GPU has not finished, oldest first
          scheduledQueue,    \* serial dispatch queue "RobloxLinux.MetalScheduled"
          completionWork,    \* work on the concurrent global dispatch queue
          spent,             \* a poll's callbacks that ran, destroyed when it returns
          nextSerial, serial,\* trackb_next_present_serial and the one a commit drew
          waitOn, asleep,    \* waitUntilCompleted: the command, blocked in the condvar
          reader             \* waitForGPU: what a reader waits for

commandVars == <<phase, scheduledHandlers, completedHandlers, encoders, drawables>>
poolVars == <<pool, recycledCommands>>
semVars == <<timeline, count, owners, recycledSems>>
doneVars == <<completed, handlersCompleted, completionWork>>
serialVars == <<nextSerial, serial>>
waitVars == <<waitOn, asleep, reader>>
cbVars == <<commandVars, poolVars, semVars, doneVars, gpuQueue, scheduledQueue, spent,
            serialVars, waitVars>>
vars == <<loopVars, cbVars>>

Phases == {"none", "open", "locked", "submitted", "presenting", "returned", "discarded"}
Owner == ({"command", "commit", "closure"} \X Commands) \cup ({"reader"} \X Readers)
Read == [cmd : Commands, sem : Semaphores, value : Nat]

\* VK_NULL_HANDLE and nullptr are no handle, and a timeline can be signalled.
ASSUME CommandBufferAssumption ==
  /\ {MaxHandlers, SemCapacity, PoolCapacity, MaxCount} \subseteq Nat /\ MaxCount # 0
  /\ None \notin Semaphores \cup Commands \cup Pools /\ None \notin Read

\* The command's _mutex, held by commit from `_committed = true` to the arming.
MutexFree(c) == phase[c] \notin {"locked", "submitted"}
\* PrivateDevice::queueMutex
QueueMutexFree == \A c \in Commands : phase[c] # "submitted"
Committed(c) == phase[c] \in {"locked", "submitted", "presenting", "returned"}

-----------------------------------------------------------------------------
(* The pools. *)

\* PrivateCommandBuffer's constructor: reuse an idle command pool or create one.
AcquirePool(c) ==
  IF recycledCommands # <<>>
  THEN /\ pool' = [pool EXCEPT ![c] = recycledCommands[Len(recycledCommands)]]
       /\ recycledCommands' = SubSeq(recycledCommands, 1, Len(recycledCommands) - 1)
  ELSE /\ \E k \in Pools : /\ \A d \in Commands : pool[d] # k
                           /\ pool' = [pool EXCEPT ![c] = k]
       /\ UNCHANGED recycledCommands

\* recycleCommandPool: reset, then keep at most PoolCapacity idle pools.
RecycleCommandPool(c) ==
  /\ pool' = [pool EXCEPT ![c] = None]
  /\ recycledCommands' = IF pool[c] # None /\ Len(recycledCommands) < PoolCapacity
                         THEN Append(recycledCommands, pool[c]) ELSE recycledCommands

\* The shared_ptr deleter of getCompletionSemaphore runs when the last owner
\* drops the wrapper: back to the pool with its count, or destroyed.
Drop(s, o) ==
  /\ owners' = [owners EXCEPT ![s] = @ \ {o}]
  /\ recycledSems' = IF owners[s] = {o} /\ Len(recycledSems) < SemCapacity /\ count[s] # MaxCount
                     THEN Append(recycledSems, s) ELSE recycledSems

\* A handle vkCreateSemaphore may return: not live, not pooled.
FreshSemaphore(s) ==
  /\ owners[s] = {}
  /\ \A i \in 1..Len(recycledSems) : recycledSems[i] # s

\* Mutant: a recycled semaphore's count is not advanced.
AcquireSemaphoreSameCount(c, s) ==
  /\ IF recycledSems # <<>>
     THEN /\ s = recycledSems[Len(recycledSems)]
          /\ recycledSems' = SubSeq(recycledSems, 1, Len(recycledSems) - 1)
          /\ UNCHANGED <<count, counter>>
     ELSE /\ FreshSemaphore(s)
          /\ count' = [count EXCEPT ![s] = 1]
          /\ counter' = [counter EXCEPT ![s] = 0]
          /\ UNCHANGED recycledSems
  /\ owners' = [owners EXCEPT ![s] = {"command", "commit", "closure"} \X {c}]
  /\ timeline' = [timeline EXCEPT ![c] = s]

\* getCompletionSemaphore followed by ++count, and the references the commit
\* takes: its local, the command's field and the completion closure.
AcquireSemaphore(c, s) ==
  /\ IF recycledSems # <<>>
     THEN /\ s = recycledSems[Len(recycledSems)]
          /\ recycledSems' = SubSeq(recycledSems, 1, Len(recycledSems) - 1)
          /\ count' = [count EXCEPT ![s] = @ + 1]
          /\ UNCHANGED counter
     ELSE /\ FreshSemaphore(s)
          /\ count' = [count EXCEPT ![s] = 1]
          /\ counter' = [counter EXCEPT ![s] = 0]
          /\ UNCHANGED recycledSems
  /\ owners' = [owners EXCEPT ![s] = {"command", "commit", "closure"} \X {c}]
  /\ timeline' = [timeline EXCEPT ![c] = s]

-----------------------------------------------------------------------------
(* The application thread that encodes and commits. *)

Create(c) ==
  /\ phase[c] = "none"
  /\ phase' = [phase EXCEPT ![c] = "open"]
  /\ AcquirePool(c)
  /\ UNCHANGED <<loopVars, scheduledHandlers, completedHandlers, encoders, drawables,
                 semVars, doneVars, gpuQueue, scheduledQueue, spent, serialVars, waitVars>>

\* An uncommitted command is released: its destructor recycles the pool.
Discard(c) ==
  /\ "discard" \in Calls
  /\ phase[c] = "open"
  /\ phase' = [phase EXCEPT ![c] = "discarded"]
  /\ encoders' = [encoders EXCEPT ![c] = "none"]
  /\ RecycleCommandPool(c)
  /\ UNCHANGED <<loopVars, scheduledHandlers, completedHandlers, drawables, semVars,
                 doneVars, gpuQueue, scheduledQueue, spent, serialVars, waitVars>>

\* renderCommandEncoder, blitCommandEncoder, computeCommandEncoder.
NewEncoder(c) ==
  /\ "encoder" \in Calls
  /\ phase[c] = "open"
  /\ encoders' = [encoders EXCEPT ![c] = "held"]
  /\ UNCHANGED <<loopVars, phase, scheduledHandlers, completedHandlers, drawables, poolVars,
                 semVars, doneVars, gpuQueue, scheduledQueue, spent, serialVars, waitVars>>

PresentDrawable(c) ==
  /\ "present" \in Calls
  /\ phase[c] = "open"
  /\ drawables' = [drawables EXCEPT ![c] = TRUE]
  /\ UNCHANGED <<loopVars, phase, scheduledHandlers, completedHandlers, encoders, poolVars,
                 semVars, doneVars, gpuQueue, scheduledQueue, spent, serialVars, waitVars>>

AddScheduledHandler(c) ==
  /\ "scheduled" \in Calls
  /\ phase[c] = "open"
  /\ scheduledHandlers[c] < MaxHandlers
  /\ scheduledHandlers' = [scheduledHandlers EXCEPT ![c] = @ + 1]
  /\ UNCHANGED <<loopVars, phase, completedHandlers, encoders, drawables, poolVars, semVars,
                 doneVars, gpuQueue, scheduledQueue, spent, serialVars, waitVars>>

AddCompletedHandler(c) ==
  /\ "completed" \in Calls
  /\ phase[c] = "open"
  /\ completedHandlers[c] < MaxHandlers
  /\ completedHandlers' = [completedHandlers EXCEPT ![c] = @ + 1]
  /\ UNCHANGED <<loopVars, phase, scheduledHandlers, encoders, drawables, poolVars, semVars,
                 doneVars, gpuQueue, scheduledQueue, spent, serialVars, waitVars>>

\* commit, up to the queue mutex: lock _mutex and set _committed.
CommitLock(c) ==
  /\ phase[c] = "open"
  /\ phase' = [phase EXCEPT ![c] = "locked"]
  /\ UNCHANGED <<loopVars, scheduledHandlers, completedHandlers, encoders, drawables, poolVars,
                 semVars, doneVars, gpuQueue, scheduledQueue, spent, serialVars, waitVars>>

\* commit, under the queue mutex: semaphore, presentation serial, vkQueueSubmit2.
CommitSubmit(c) ==
  /\ phase[c] = "locked"
  /\ QueueMutexFree
  /\ phase' = [phase EXCEPT ![c] = "submitted"]
  /\ \E s \in Semaphores :
       /\ AcquireSemaphore(c, s)
       /\ gpuQueue' = Append(gpuQueue, [cmd |-> c, sem |-> s, value |-> count'[s]])
  /\ nextSerial' = IF drawables[c] THEN nextSerial + 1 ELSE nextSerial
  /\ serial' = [serial EXCEPT ![c] = IF drawables[c] THEN nextSerial ELSE 0]
  /\ UNCHANGED <<sharedVars, pollPc, localVars, scheduledHandlers, completedHandlers, encoders,
                 drawables, poolVars, doneVars, scheduledQueue, spent, waitVars>>

\* Arm the completion, or hand it to the serial queue; then both unlocks.
CommitArm(c) ==
  /\ phase[c] = "submitted"
  /\ phase' = [phase EXCEPT ![c] = "presenting"]
  /\ \/ /\ scheduledHandlers[c] = 0
        /\ WaitForSemaphore(timeline[c], count[timeline[c]], c)
        /\ UNCHANGED scheduledQueue
     \/ /\ scheduledHandlers[c] # 0
        /\ scheduledQueue' = Append(scheduledQueue, c)
        /\ UNCHANGED <<sharedVars, pollPc, localVars>>
  /\ UNCHANGED <<counter, scheduledHandlers, completedHandlers, encoders, drawables, poolVars,
                 semVars, doneVars, gpuQueue, spent, serialVars, waitVars>>

\* Mutant: the presentation serial is drawn after the queue was unlocked.
CommitReturnDraws(c) ==
  /\ phase[c] = "presenting"
  /\ phase' = [phase EXCEPT ![c] = "returned"]
  /\ Drop(timeline[c], <<"commit", c>>)
  /\ nextSerial' = IF drawables[c] THEN nextSerial + 1 ELSE nextSerial
  /\ serial' = [serial EXCEPT ![c] = IF drawables[c] THEN nextSerial ELSE 0]
  /\ UNCHANGED <<loopVars, scheduledHandlers, completedHandlers, encoders, drawables, poolVars,
                 timeline, count, doneVars, gpuQueue, scheduledQueue, spent, waitVars>>

\* After the unlocks: the drawables are presented and commit returns.
CommitReturn(c) ==
  /\ phase[c] = "presenting"
  /\ phase' = [phase EXCEPT ![c] = "returned"]
  /\ Drop(timeline[c], <<"commit", c>>)
  /\ UNCHANGED <<loopVars, scheduledHandlers, completedHandlers, encoders, drawables, poolVars,
                 timeline, count, doneVars, gpuQueue, scheduledQueue, spent, serialVars, waitVars>>

-----------------------------------------------------------------------------
(* The GPU and the dispatch queues (external). *)

\* One queue, and every command starts with a whole-queue barrier: submissions
\* finish in order; finishing signals the submission's timeline value.
GpuExecute ==
  /\ gpuQueue # <<>>
  /\ counter' = [counter EXCEPT ![Head(gpuQueue).sem] = Head(gpuQueue).value]
  /\ gpuQueue' = Tail(gpuQueue)
  /\ UNCHANGED <<sharedVars, pollPc, localVars, commandVars, poolVars, semVars, doneVars,
                 scheduledQueue, spent, serialVars, waitVars>>

\* The serial queue runs one scheduled handler of its first command.
RunScheduledHandler ==
  /\ scheduledQueue # <<>>
  /\ LET c == Head(scheduledQueue)
     IN  /\ c \notin Stuck
         /\ scheduledHandlers[c] > 0
         /\ scheduledHandlers' = [scheduledHandlers EXCEPT ![c] = @ - 1]
  /\ UNCHANGED <<loopVars, phase, completedHandlers, encoders, drawables, poolVars, semVars,
                 doneVars, gpuQueue, scheduledQueue, spent, serialVars, waitVars>>

\* Mutant: the completion is armed while scheduled handlers are left.
ArmScheduledEarly ==
  /\ scheduledQueue # <<>>
  /\ LET c == Head(scheduledQueue)
     IN  WaitForSemaphore(timeline[c], count[timeline[c]], c)
  /\ scheduledQueue' = Tail(scheduledQueue)
  /\ UNCHANGED <<counter, commandVars, poolVars, semVars, doneVars, gpuQueue, spent,
                 serialVars, waitVars>>

\* After the last one the completion is armed.
ArmScheduled ==
  /\ scheduledQueue # <<>>
  /\ LET c == Head(scheduledQueue)
     IN  /\ scheduledHandlers[c] = 0
         /\ WaitForSemaphore(timeline[c], count[timeline[c]], c)
  /\ scheduledQueue' = Tail(scheduledQueue)
  /\ UNCHANGED <<counter, commandVars, poolVars, semVars, doneVars, gpuQueue, spent,
                 serialVars, waitVars>>

\* finishCompletedHandlers: set the flag, notify_all.
FinishCompletedHandlers(c) ==
  /\ handlersCompleted' = [handlersCompleted EXCEPT ![c] = TRUE]
  /\ asleep' = {w \in asleep : waitOn[w] # c}

\* Mutant: the completed handlers run on the polling thread.
CompletedCallbackInline(p) ==
  /\ PollCallback(p)
  /\ LET c == Head(ready[p]).cb
     IN  /\ MutexFree(c)
         /\ completedHandlers[c] = 0 \/ c \notin Stuck
         /\ RecycleCommandPool(c)
         /\ completed' = [completed EXCEPT ![c] = TRUE]
         /\ Drop(timeline[c], <<"command", c>>)
         /\ encoders' = [encoders EXCEPT ![c] = "none"]
         /\ completedHandlers' = [completedHandlers EXCEPT ![c] = 0]
         /\ FinishCompletedHandlers(c)
  /\ spent' = [spent EXCEPT ![p] = Append(@, Head(ready[p]).cb)]
  /\ UNCHANGED <<phase, scheduledHandlers, drawables, timeline, count, completionWork,
                 gpuQueue, scheduledQueue, serialVars, waitOn, reader>>

\* The completion closure, on the polling thread: recycle the command pool, take
\* the encoders, drop the command's reference; without encoders and handlers
\* finish here, else hand the rest to the concurrent queue.
CompletedCallback(p) ==
  /\ PollCallback(p)
  /\ LET c == Head(ready[p]).cb
     IN  /\ MutexFree(c)
         /\ RecycleCommandPool(c)
         /\ completed' = [completed EXCEPT ![c] = TRUE]
         /\ Drop(timeline[c], <<"command", c>>)
         /\ encoders' = [encoders EXCEPT ![c] = IF @ = "held" THEN "work" ELSE @]
         /\ IF completedHandlers[c] = 0 /\ encoders[c] = "none"
            THEN FinishCompletedHandlers(c) /\ UNCHANGED completionWork
            ELSE /\ completionWork' = completionWork \cup {c}
                 /\ UNCHANGED <<handlersCompleted, asleep>>
  /\ spent' = [spent EXCEPT ![p] = Append(@, Head(ready[p]).cb)]
  /\ UNCHANGED <<phase, scheduledHandlers, completedHandlers, drawables, timeline, count,
                 gpuQueue, scheduledQueue, serialVars, waitOn, reader>>

\* pollEvents returns: its vector of callbacks is destroyed, closure by closure.
DestroyClosure(p) ==
  /\ pollPc[p] = "run"
  /\ ready[p] = <<>>
  /\ spent[p] # <<>>
  /\ LET c == Head(spent[p]) IN Drop(timeline[c], <<"closure", c>>)
  /\ spent' = [spent EXCEPT ![p] = Tail(@)]
  /\ UNCHANGED <<loopVars, commandVars, poolVars, timeline, count, doneVars, gpuQueue,
                 scheduledQueue, serialVars, waitVars>>

\* Work on the concurrent queue: first the encoders' resources are released ...
ReleaseEncoders(c) ==
  /\ c \in completionWork
  /\ encoders[c] = "work"
  /\ encoders' = [encoders EXCEPT ![c] = "none"]
  /\ UNCHANGED <<loopVars, phase, scheduledHandlers, completedHandlers, drawables, poolVars,
                 semVars, doneVars, gpuQueue, scheduledQueue, spent, serialVars, waitVars>>

\* ... then the completed handlers run, one after the other ...
RunCompletedHandler(c) ==
  /\ c \in completionWork \ Stuck
  /\ encoders[c] = "none"
  /\ completedHandlers[c] > 0
  /\ completedHandlers' = [completedHandlers EXCEPT ![c] = @ - 1]
  /\ UNCHANGED <<loopVars, phase, scheduledHandlers, encoders, drawables, poolVars, semVars,
                 doneVars, gpuQueue, scheduledQueue, spent, serialVars, waitVars>>

\* Mutant: the waiters are notified before the handlers ran.
FinishWorkEarly(c) ==
  /\ c \in completionWork
  /\ FinishCompletedHandlers(c)
  /\ completionWork' = completionWork \ {c}
  /\ UNCHANGED <<loopVars, commandVars, poolVars, semVars, completed, gpuQueue,
                 scheduledQueue, spent, serialVars, waitOn, reader>>

\* ... and finally the waiters are notified.
FinishWork(c) ==
  /\ c \in completionWork
  /\ encoders[c] = "none"
  /\ completedHandlers[c] = 0
  /\ FinishCompletedHandlers(c)
  /\ completionWork' = completionWork \ {c}
  /\ UNCHANGED <<loopVars, commandVars, poolVars, semVars, completed, gpuQueue,
                 scheduledQueue, spent, serialVars, waitOn, reader>>

-----------------------------------------------------------------------------
(* Threads that wait for a command. *)

\* waitUntilCompleted: block in the condition variable ...
WaitBegin(w, c) ==
  /\ waitOn[w] = None
  /\ phase[c] \notin {"none", "discarded"} /\ MutexFree(c)
  /\ ~handlersCompleted[c]
  /\ waitOn' = [waitOn EXCEPT ![w] = c]
  /\ asleep' = asleep \cup {w}
  /\ UNCHANGED <<loopVars, commandVars, poolVars, semVars, doneVars, gpuQueue, scheduledQueue,
                 spent, serialVars, reader>>

\* ... and return once notified with the flag set.
WaitReturn(w) ==
  /\ waitOn[w] # None
  /\ w \notin asleep
  /\ handlersCompleted[waitOn[w]]
  /\ waitOn' = [waitOn EXCEPT ![w] = None]
  /\ UNCHANGED <<loopVars, commandVars, poolVars, semVars, doneVars, gpuQueue, scheduledQueue,
                 spent, serialVars, asleep, reader>>

\* waitForGPU: under _mutex, share the command's semaphore unless it completed.
ReadBegin(r, c) ==
  /\ reader[r] = None
  /\ Committed(c) /\ MutexFree(c) /\ ~completed[c]
  /\ LET s == timeline[c]
     IN  /\ reader' = [reader EXCEPT ![r] = [cmd |-> c, sem |-> s, value |-> count[s]]]
         /\ owners' = [owners EXCEPT ![s] = @ \cup {<<"reader", r>>}]
  /\ UNCHANGED <<loopVars, commandVars, poolVars, timeline, count, recycledSems, doneVars,
                 gpuQueue, scheduledQueue, spent, serialVars, waitOn, asleep>>

\* vkWaitSemaphores returns and the reader drops its reference.
ReadReturn(r) ==
  /\ reader[r] # None
  /\ counter[reader[r].sem] >= reader[r].value
  /\ Drop(reader[r].sem, <<"reader", r>>)
  /\ reader' = [reader EXCEPT ![r] = None]
  /\ UNCHANGED <<loopVars, commandVars, poolVars, timeline, count, doneVars, gpuQueue,
                 scheduledQueue, spent, serialVars, waitOn, asleep>>

-----------------------------------------------------------------------------
\* The device reserves SemCapacity semaphores when it is created.
InitialReserve(reserve) ==
  /\ Len(reserve) = SemCapacity
  /\ \A i, j \in 1..Len(reserve) : i # j => reserve[i] # reserve[j]

Init ==
  /\ LoopInit
  /\ phase = [c \in Commands |-> "none"]
  /\ scheduledHandlers = [c \in Commands |-> 0]
  /\ completedHandlers = [c \in Commands |-> 0]
  /\ encoders = [c \in Commands |-> "none"]
  /\ drawables = [c \in Commands |-> FALSE]
  /\ completed = [c \in Commands |-> FALSE]
  /\ handlersCompleted = [c \in Commands |-> FALSE]
  /\ pool = [c \in Commands |-> None]
  /\ recycledCommands = <<>>
  /\ timeline = [c \in Commands |-> None]
  /\ count = [s \in Semaphores |-> 0]
  /\ owners = [s \in Semaphores |-> {}]
  /\ recycledSems \in [1..SemCapacity -> Semaphores] /\ InitialReserve(recycledSems)
  /\ gpuQueue = <<>> /\ scheduledQueue = <<>> /\ completionWork = {}
  /\ spent = [p \in Pollers |-> <<>>]
  /\ nextSerial = 1 /\ serial = [c \in Commands |-> 0]
  /\ waitOn = [w \in Waiters |-> None] /\ asleep = {}
  /\ reader = [r \in Readers |-> None]

\* The parts of pollEvents that touch only the event loop; pollEvents returns
\* when its closures are destroyed.  Nobody calls wakeupEventLoop here: the
\* shutdown is EventLoopSystem's.
PollStep(p) ==
  /\ \/ PollSleep(p) \/ PollAwake(p) \/ PollSnapshot(p)
     \/ PollTimeout(p) \/ PollSignalled(p) \/ PollScan(p) \/ PollRemove(p)
     \/ spent[p] = <<>> /\ PollReturn(p)
  /\ UNCHANGED cbVars

\* Steps of one thread or queue with a command.
Encode(c) ==
  \/ Create(c) \/ Discard(c) \/ NewEncoder(c) \/ PresentDrawable(c)
  \/ AddScheduledHandler(c) \/ AddCompletedHandler(c) \/ CommitLock(c)
Commit(c) == CommitSubmit(c) \/ CommitArm(c) \/ CommitReturn(c)
Dispatch == RunScheduledHandler \/ ArmScheduled
Work(c) == ReleaseEncoders(c) \/ RunCompletedHandler(c) \/ FinishWork(c)
Poll(p) == PollStep(p) \/ CompletedCallback(p) \/ DestroyClosure(p)

Next ==
  \/ \E c \in Commands : Encode(c) \/ Commit(c) \/ Work(c)
  \/ GpuExecute
  \/ Dispatch
  \/ \E p \in Pollers : Poll(p)
  \/ \E w \in Waiters : WaitReturn(w) \/ \E c \in Commands : WaitBegin(w, c)
  \/ \E r \in Readers : ReadReturn(r) \/ \E c \in Commands : ReadBegin(r, c)

Spec == Init /\ [][Next]_vars

-----------------------------------------------------------------------------
Handle(S) == S \cup {None}

\* Types.
TypeOK ==
  /\ phase \in [Commands -> Phases]
  /\ scheduledHandlers \in [Commands -> 0..MaxHandlers]
  /\ completedHandlers \in [Commands -> 0..MaxHandlers]
  /\ encoders \in [Commands -> {"none", "held", "work"}]
  /\ drawables \in [Commands -> BOOLEAN]
  /\ completed \in [Commands -> BOOLEAN] /\ handlersCompleted \in [Commands -> BOOLEAN]
  /\ pool \in [Commands -> Handle(Pools)] /\ recycledCommands \in Seq(Pools)
  /\ timeline \in [Commands -> Handle(Semaphores)]
  /\ count \in [Semaphores -> Nat] /\ owners \in [Semaphores -> SUBSET Owner]
  /\ recycledSems \in Seq(Semaphores)
  /\ gpuQueue \in Seq([cmd : Commands, sem : Semaphores, value : Nat])
  /\ scheduledQueue \in Seq(Commands) /\ completionWork \subseteq Commands
  /\ spent \in [Pollers -> Seq(Commands)]
  /\ nextSerial \in Nat /\ serial \in [Commands -> Nat]
  /\ waitOn \in [Waiters -> Handle(Commands)] /\ asleep \subseteq Waiters
  /\ reader \in [Readers -> Handle(Read)]

InGpu(c) == \E i \in 1..Len(gpuQueue) : gpuQueue[i].cmd = c

\* Recycling (getCompletionSemaphore's deleter, "Recycle only after its last
\* owner releases it"): a pooled semaphore is in the pool once, nobody will
\* signal it, poll it or read it, and the GPU has reached its count, so the
\* next commit's ++count is a value not yet signalled.
PooledSemaphoreIdle ==
  \A i \in 1..Len(recycledSems) :
    LET s == recycledSems[i]
    IN  /\ counter[s] = count[s] /\ count[s] < MaxCount
        /\ \A j \in 1..Len(recycledSems) : recycledSems[j] = s => j = i
        /\ \A j \in 1..Len(gpuQueue) : gpuQueue[j].sem # s
        /\ \A j \in 1..Len(entries) : entries[j].sem # s
        /\ \A r \in Readers : reader[r] # None => reader[r].sem # s

\* Vulkan requires each signal of a timeline to exceed its value, also across
\* recycling and at the end of the 64-bit range.
SignalsIncrease ==
  \A i \in 1..Len(gpuQueue) :
    /\ counter[gpuQueue[i].sem] < gpuQueue[i].value
    /\ gpuQueue[i].value <= MaxCount
    /\ \A j \in 1..Len(gpuQueue) : gpuQueue[j].sem = gpuQueue[i].sem => j = i

\* "Each pending buffer owns its pool exclusively until GPU completion"
\* (constructor): no pool of a command in execution is idle or shared.
PendingPoolExclusive ==
  \A c \in Commands : (InGpu(c) \/ phase[c] \in {"open", "locked"}) =>
    /\ pool[c] # None
    /\ \A d \in Commands : d # c => pool[d] # pool[c]
    /\ \A i \in 1..Len(recycledCommands) : recycledCommands[i] # pool[c]

\* Semaphores and command pools are recycled only when idle: see the parts.
RecyclingSafe == TypeOK /\ PooledSemaphoreIdle /\ SignalsIncrease /\ PendingPoolExclusive

\* The encoders keep the resources of a command alive: they leave it only when
\* it was never submitted or the GPU has finished it ("we have to keep some
\* encoders alive until the buffer has finished executing").
ResourcesOutliveExecution ==
  \A c \in Commands : encoders[c] = "held" /\ encoders'[c] # "held" =>
    phase[c] = "open" \/ (Committed(c) /\ ~InGpu(c))

\* waitUntilCompleted "also waits for those handlers" (RobloxLinuxDev/README.md):
\* when it returns the GPU is done, the resources are released and every
\* scheduled and completed handler has run.
WaitCoversHandlers ==
  \A w \in Waiters : waitOn[w] # None /\ waitOn'[w] = None =>
    LET c == waitOn[w]
    IN  /\ ~InGpu(c) /\ completed[c] /\ encoders[c] = "none"
        /\ scheduledHandlers[c] = 0 /\ completedHandlers[c] = 0

\* No step releases what the GPU still uses or returns from a wait too early:
\* see the two parts.
HeldUntilDone == [][ResourcesOutliveExecution /\ WaitCoversHandlers]_vars

\* waitForGPU reads *pValues and the semaphore after it released _mutex: while
\* it waits the wrapper is alive, still carries the value of that command, and
\* the wait ends only after that command was executed.
ReadWaitsForItsCommand ==
  \A r \in Readers : reader[r] # None =>
    LET x == reader[r]
    IN  /\ x.sem = timeline[x.cmd]
        /\ <<"reader", r>> \in owners[x.sem]
        /\ count[x.sem] = x.value
        /\ InGpu(x.cmd) <=> counter[x.sem] < x.value

\* "Capture presentation order while submissions still hold the device queue
\* lock": serials follow the order of execution, drawn once per commit.
SerialsInExecutionOrder ==
  \A i, j \in 1..Len(gpuQueue) :
    LET c == gpuQueue[i].cmd  d == gpuQueue[j].cmd
    IN  i < j /\ serial[c] # 0 /\ serial[d] # 0 => serial[c] < serial[d]

\* What a reader outside _mutex and a presentation rely on: see the two parts.
ReadsAndSerialsInOrder == ReadWaitsForItsCommand /\ SerialsInExecutionOrder

-----------------------------------------------------------------------------
(* The refinement of what Metal promises. *)

StageOf(c) ==
  CASE phase[c] \in {"none", "open"}                          -> "new"
    [] phase[c] = "discarded"                                 -> "dropped"
    [] Committed(c) /\ handlersCompleted[c]                   -> "done"
    [] Committed(c) /\ completed[c] /\ ~handlersCompleted[c]  -> "completed"
    [] Committed(c) /\ ~completed[c] /\ ~handlersCompleted[c] -> "committed"

Lifecycle == INSTANCE CommandLifecycle WITH
  NoCommand <- None,
  stage     <- [c \in Commands |-> StageOf(c)],
  pending   <- [i \in 1..Len(gpuQueue) |-> gpuQueue[i].cmd],
  scheduled <- {c \in Commands : /\ phase[c] \in {"presenting", "returned"}
                                 /\ scheduledHandlers[c] = 0
                                 /\ \A i \in 1..Len(scheduledQueue) : scheduledQueue[i] # c},
  executed  <- {c \in Commands : /\ phase[c] \in {"submitted", "presenting", "returned"}
                                 /\ ~InGpu(c)},
  waitsFor  <- waitOn

\* The implementation takes only the steps of the Metal command life cycle: in
\* particular commands execute in submission order, and none completes before
\* its scheduled handlers ran and the GPU executed it.
ImplementsLifecycle == Lifecycle!LifecycleSpec
=============================================================================
