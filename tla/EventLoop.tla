----------------------------- MODULE EventLoop -----------------------------
(***************************************************************************)
(* The completion event loop of the Vulkan device: pollEvents,             *)
(* waitForSemaphore and wakeupEventLoop of native/renderer/device.cpp.     *)
(*                                                                         *)
(* Any thread may register a wait: "run this callback once this timeline   *)
(* semaphore has reached this value".  Polling threads call pollEvents in  *)
(* a loop.  With nothing registered a poll sleeps on a condition variable; *)
(* otherwise it copies the registered waits, waits on the GPU without any  *)
(* lock for at most 1 ms, scans the copied waits one counter at a time,    *)
(* and removes the ready ones from the shared vectors BY INDEX.            *)
(*                                                                         *)
(* The three parallel vectors of the code are one sequence, entries, of    *)
(* records; the vectors' slot 0 (the wakeup semaphore) is wakeValue, the   *)
(* value the next poll waits for, and wakeCount, the semaphore's counter.  *)
(***************************************************************************)
EXTENDS Naturals, Sequences, FiniteSets

CONSTANTS Pollers,     \* the threads that call pollEvents
          Semaphores,  \* timeline semaphores (VkSemaphore handles)
          Callbacks    \* the registered completions

VARIABLES entries,      \* _eventLoopSemaphores/_WaitValues/_Callbacks, slots 1..
          wakeValue,    \* _eventLoopWaitValues[0]
          wakeCount,    \* counter of _eventLoopSemaphores[0]
          wakePending,  \* _eventLoopWakePending
          waiting,      \* _eventLoopWaiting
          pollPc,       \* where each polling thread is in pollEvents
          snapshot,     \* its copies `semaphores` and `values` (slots 1..)
          snapWake,     \* its copy of slot 0
          scan,         \* loop variable i of the readiness scan
          readyIndices, \* its local readyIndices
          ready,        \* its local vector of callbacks moved out
          counter       \* GPU: the value each timeline semaphore has reached

sharedVars == <<entries, wakeValue, wakeCount, wakePending, waiting>>
localVars  == <<snapshot, snapWake, scan, readyIndices, ready>>
loopVars   == <<sharedVars, pollPc, localVars, counter>>

\* One registered wait.
Entry == [sem : Semaphores, value : Nat, cb : Callbacks]

PollPcs == {"outside", "asleep", "notified", "gpuWait", "scan", "run"}

\* Mutant: _pollingMutex is released for the wait on the GPU.
HoldsPollingUntilWait(p) == pollPc[p] \notin {"outside", "gpuWait"}

\* _pollingMutex is held from its acquisition to the return of pollEvents.
HoldsPolling(p) == pollPc[p] # "outside"
PollingMutexFree == \A q \in Pollers : ~HoldsPolling(q)

\* vkGetSemaphoreCounterValue(e.sem) >= e.value
Signalled(e) == counter[e.sem] >= e.value

\* _eventLoopIdle.notify_one(): at most one poller sleeps, under _pollingMutex.
NotifyIdle ==
  pollPc' = [p \in Pollers |-> IF pollPc[p] = "asleep" THEN "notified" ELSE pollPc[p]]

-----------------------------------------------------------------------------
(* The callers' side. *)

\* Mutant: the sleeping poll is not notified.
WaitForSemaphoreSilent(sem, value, cb) ==
  /\ entries' = Append(entries, [sem |-> sem, value |-> value, cb |-> cb])
  /\ UNCHANGED <<waiting, pollPc, wakeValue, wakeCount, wakePending, localVars>>

\* PrivateDevice::waitForSemaphore.
WaitForSemaphore(sem, value, cb) ==
  /\ entries' = Append(entries, [sem |-> sem, value |-> value, cb |-> cb])
  /\ waiting' = FALSE
  /\ IF waiting THEN NotifyIdle ELSE UNCHANGED pollPc
  /\ UNCHANGED <<wakeValue, wakeCount, wakePending, localVars>>

\* Mutant: the wait value of slot 0 does not move on.
WakeupEventLoopSameValue ==
  /\ wakePending' = TRUE
  /\ waiting' = FALSE
  /\ IF waiting THEN NotifyIdle /\ UNCHANGED wakeCount
                 ELSE wakeCount' = wakeValue /\ UNCHANGED pollPc
  /\ UNCHANGED <<entries, wakeValue, localVars, counter>>

\* PrivateDevice::wakeupEventLoop.
WakeupEventLoop ==
  /\ wakePending' = TRUE
  /\ waiting' = FALSE
  /\ \/ /\ waiting
        /\ NotifyIdle
        /\ UNCHANGED <<wakeValue, wakeCount>>
     \/ /\ ~waiting
        /\ wakeValue' = wakeValue + 1
        /\ wakeCount' = wakeValue
        /\ UNCHANGED pollPc
  /\ UNCHANGED <<entries, localVars, counter>>

-----------------------------------------------------------------------------
(* pollEvents, one critical section or one driver call per action. *)

\* A pending wake is consumed instead of sleeping.
PollConsumeWake(p) ==
  /\ PollingMutexFree
  /\ wakePending
  /\ wakePending' = FALSE
  /\ UNCHANGED <<entries, wakeValue, wakeCount, waiting, pollPc, localVars, counter>>

\* Nothing registered: sleep on the condition variable.
PollSleep(p) ==
  /\ PollingMutexFree
  /\ ~wakePending
  /\ entries = <<>>
  /\ waiting' = TRUE
  /\ pollPc' = [pollPc EXCEPT ![p] = "asleep"]
  /\ UNCHANGED <<entries, wakeValue, wakeCount, wakePending, localVars, counter>>

\* The wait ends: notified with its predicate true, or timed out.
PollAwake(p) ==
  /\ \/ pollPc[p] = "notified" /\ ~waiting
     \/ pollPc[p] = "asleep"
  /\ waiting' = FALSE
  /\ wakePending' = FALSE
  /\ pollPc' = [pollPc EXCEPT ![p] = "outside"]
  /\ UNCHANGED <<entries, wakeValue, wakeCount, localVars, counter>>

\* Copy the registered waits and release _eventLoopMutex.
PollSnapshot(p) ==
  /\ PollingMutexFree
  /\ ~wakePending
  /\ entries # <<>>
  /\ snapshot' = [snapshot EXCEPT ![p] = entries]
  /\ snapWake' = [snapWake EXCEPT ![p] = wakeValue]
  /\ pollPc' = [pollPc EXCEPT ![p] = "gpuWait"]
  /\ UNCHANGED <<sharedVars, scan, readyIndices, ready, counter>>

\* The condition of vkWaitSemaphores with VK_SEMAPHORE_WAIT_ANY_BIT.
AnySignalled(p) ==
  \/ wakeCount >= snapWake[p]
  \/ \E i \in 1..Len(snapshot[p]) : Signalled(snapshot[p][i])

\* VK_TIMEOUT after 1 ms.
PollTimeout(p) ==
  /\ pollPc[p] = "gpuWait"
  /\ ~AnySignalled(p)
  /\ pollPc' = [pollPc EXCEPT ![p] = "outside"]
  /\ UNCHANGED <<sharedVars, localVars, counter>>

\* VK_SUCCESS: start the scan.
PollSignalled(p) ==
  /\ pollPc[p] = "gpuWait"
  /\ AnySignalled(p)
  /\ scan' = [scan EXCEPT ![p] = 1]
  /\ readyIndices' = [readyIndices EXCEPT ![p] = <<>>]
  /\ pollPc' = [pollPc EXCEPT ![p] = "scan"]
  /\ UNCHANGED <<sharedVars, snapshot, snapWake, ready, counter>>

\* Mutant: every copied wait is taken as ready.
PollScanUnchecked(p) ==
  /\ pollPc[p] = "scan"
  /\ scan[p] <= Len(snapshot[p])
  /\ readyIndices' = [readyIndices EXCEPT ![p] = Append(@, scan[p])]
  /\ scan' = [scan EXCEPT ![p] = @ + 1]
  /\ UNCHANGED <<sharedVars, pollPc, snapshot, snapWake, ready, counter>>

\* Mutant: slot 0 is forgotten, positions are off by one.
PollScanShifted(p) ==
  /\ pollPc[p] = "scan"
  /\ scan[p] <= Len(snapshot[p])
  /\ readyIndices' = [readyIndices EXCEPT ![p] =
                        IF Signalled(snapshot[p][scan[p]]) THEN Append(@, scan[p] - 1) ELSE @]
  /\ scan' = [scan EXCEPT ![p] = @ + 1]
  /\ UNCHANGED <<sharedVars, pollPc, snapshot, snapWake, ready, counter>>

\* Read one counter; the GPU runs on between two reads.
PollScan(p) ==
  /\ pollPc[p] = "scan"
  /\ scan[p] <= Len(snapshot[p])
  /\ readyIndices' = [readyIndices EXCEPT ![p] =
                        IF Signalled(snapshot[p][scan[p]]) THEN Append(@, scan[p]) ELSE @]
  /\ scan' = [scan EXCEPT ![p] = @ + 1]
  /\ UNCHANGED <<sharedVars, pollPc, snapshot, snapWake, ready, counter>>

\* The increasing enumeration of a set of positions.
Enumerations(S) ==
  {f \in [1..Cardinality(S) -> S] :
     /\ \A i, j \in 1..Cardinality(S) : i < j => f[i] < f[j]
     /\ \A k \in S : \E i \in 1..Cardinality(S) : f[i] = k}

\* The slots at these positions are erased (back to front), the others move up.
EraseEntries(positions) ==
  \E kept \in Enumerations((1..Len(entries)) \ positions) :
    entries' = [j \in DOMAIN kept |-> entries[kept[j]]]

\* Mutant: the ready callbacks are moved out in the order of erasing.
PollRemoveBackwards(p) ==
  LET idx == readyIndices[p]
  IN  /\ pollPc[p] = "scan"
      /\ scan[p] > Len(snapshot[p])
      /\ ready' = [ready EXCEPT ![p] =
                     [i \in 1..Len(idx) |-> entries[idx[Len(idx) + 1 - i]]]]
      /\ EraseEntries({idx[i] : i \in 1..Len(idx)})
      /\ pollPc' = [pollPc EXCEPT ![p] = "run"]
      /\ UNCHANGED <<wakeValue, wakeCount, wakePending, waiting,
                     snapshot, snapWake, scan, readyIndices, counter>>

\* Relock, move the ready callbacks out in order, erase their slots.
PollRemove(p) ==
  LET idx == readyIndices[p]
  IN  /\ pollPc[p] = "scan"
      /\ scan[p] > Len(snapshot[p])
      /\ ready' = [ready EXCEPT ![p] = [i \in 1..Len(idx) |-> entries[idx[i]]]]
      /\ EraseEntries({idx[i] : i \in 1..Len(idx)})
      /\ pollPc' = [pollPc EXCEPT ![p] = "run"]
      /\ UNCHANGED <<wakeValue, wakeCount, wakePending, waiting,
                     snapshot, snapWake, scan, readyIndices, counter>>

\* Invoke the next ready callback, outside the lock; what it does is up to
\* the registrant.
PollCallback(p) ==
  /\ pollPc[p] = "run"
  /\ ready[p] # <<>>
  /\ ready' = [ready EXCEPT ![p] = Tail(@)]
  /\ UNCHANGED <<sharedVars, pollPc, snapshot, snapWake, scan, readyIndices, counter>>

PollReturn(p) ==
  /\ pollPc[p] = "run"
  /\ ready[p] = <<>>
  /\ pollPc' = [pollPc EXCEPT ![p] = "outside"]
  /\ UNCHANGED <<sharedVars, localVars, counter>>

LoopInit ==
  /\ entries = <<>>
  /\ wakeValue = 1 /\ wakeCount = 0
  /\ wakePending = FALSE /\ waiting = FALSE
  /\ pollPc = [p \in Pollers |-> "outside"]
  /\ snapshot = [p \in Pollers |-> <<>>]
  /\ snapWake = [p \in Pollers |-> 0]
  /\ scan = [p \in Pollers |-> 1]
  /\ readyIndices = [p \in Pollers |-> <<>>]
  /\ ready = [p \in Pollers |-> <<>>]
  /\ counter = [s \in Semaphores |-> 0]

=============================================================================
