-------------------------- MODULE EventLoopProofs --------------------------
(***************************************************************************)
(* Proofs about EventLoopSystem, for any pollers, semaphores, callbacks    *)
(* and number of wakes.  One inductive invariant, IInv, carries the type   *)
(* invariant and the safety properties SnapshotIsFront, RunsAfterSignal,   *)
(* NoSleepOverWork and WakeValueAhead.                                     *)
(***************************************************************************)
EXTENDS EventLoopSystem, FiniteSetTheorems, SequenceTheorems, TLAPS

\* _pollingMutex: one poller at a time is inside pollEvents.
OnePoller == \A p, q \in Pollers : HoldsPolling(p) /\ HoldsPolling(q) => p = q

\* The positions a scan has collected lie behind it in the copy, and their
\* waits are signalled.
ScanSound ==
  \A p \in Pollers : pollPc[p] = "scan" =>
    /\ scan[p] <= Len(snapshot[p]) + 1
    /\ \A i \in 1..Len(readyIndices[p]) :
         /\ readyIndices[p][i] < scan[p]
         /\ Signalled(snapshot[p][readyIndices[p][i]])

\* Callbacks moved out have been signalled.
ReadySound == \A p \in Pollers : \A i \in 1..Len(ready[p]) : Signalled(ready[p][i])

\* Timeline semaphores only grow: queued submissions signal values beyond the
\* counter, in queue order, and none beyond the last value issued.
Monotone ==
  /\ \A s \in Semaphores : counter[s] <= issued[s]
  /\ \A i \in 1..Len(gpuQueue) :
       /\ counter[gpuQueue[i].sem] < gpuQueue[i].value
       /\ gpuQueue[i].value <= issued[gpuQueue[i].sem]
       /\ \A j \in 1..Len(gpuQueue) :
            i < j /\ gpuQueue[i].sem = gpuQueue[j].sem => gpuQueue[i].value < gpuQueue[j].value

IInv ==
  /\ TypeOK
  /\ OnePoller
  /\ SnapshotIsFront
  /\ ScanSound
  /\ ReadySound
  /\ RunsAfterSignal
  /\ Monotone
  /\ NoSleepOverWork
  /\ WakeValueAhead

-----------------------------------------------------------------------------
(* The initial states. *)

\* The device starts with nothing registered, asleep or queued.
LEMMA Initial == Init => IInv
<1> SUFFICES ASSUME Init PROVE IInv
  OBVIOUS
<1>1. TypeOK
  <2>1. <<>> \in Seq(Entry) /\ <<>> \in Seq(Nat \ {0}) /\ 0 \in 0..MaxWakes
    BY MaxWakesAssumption
  <2>2. /\ entries \in Seq(Entry) /\ wakeValue \in Nat /\ wakeCount \in Nat
        /\ pollPc \in [Pollers -> PollPcs] /\ snapshot \in [Pollers -> Seq(Entry)]
        /\ snapWake \in [Pollers -> Nat] /\ scan \in [Pollers -> Nat \ {0}]
        /\ readyIndices \in [Pollers -> Seq(Nat \ {0})] /\ ready \in [Pollers -> Seq(Entry)]
        /\ counter \in [Semaphores -> Nat]
    BY <2>1 DEF Init, LoopInit, PollPcs
  <2>3. /\ gpuQueue \in Seq(Entry) /\ unregistered \subseteq Entry
        /\ issued \in [Semaphores -> Nat]
        /\ registered \in Seq(Entry) /\ done \in Seq(Entry)
        /\ loopPc \in [Pollers -> {"check", "poll", "exit"}]
        /\ stopping \in {"no", "set", "woken"} /\ wakes \in 0..MaxWakes
    BY <2>1 DEF Init
  <2>4. wakePending \in BOOLEAN /\ waiting \in BOOLEAN
    BY DEF Init, LoopInit
  <2> QED BY <2>2, <2>3, <2>4 DEF TypeOK
<1>2. OnePoller /\ SnapshotIsFront /\ ScanSound /\ ReadySound
  BY DEF Init, LoopInit, OnePoller, HoldsPolling, SnapshotIsFront, ScanSound, ReadySound
<1>3. RunsAfterSignal /\ Monotone /\ NoSleepOverWork /\ WakeValueAhead
  BY DEF Init, LoopInit, RunsAfterSignal, Monotone, NoSleepOverWork, WakeValueAhead
<1> QED BY <1>1, <1>2, <1>3 DEF IInv

-----------------------------------------------------------------------------
(* The callers and the GPU. *)

\* A caller queues a submission: its value is new and above the counter.
LEMMA SubmitStep ==
  ASSUME NEW s \in Semaphores, NEW cb \in Callbacks, IInv, Submit(s, cb)
  PROVE  IInv'
<1> DEFINE e == [sem |-> s, value |-> issued[s] + 1, cb |-> cb]
<1>1. /\ e \in Entry
      /\ gpuQueue' = Append(gpuQueue, e) /\ gpuQueue \in Seq(Entry)
      /\ unregistered' = unregistered \cup {e}
      /\ issued \in [Semaphores -> Nat] /\ issued' = [issued EXCEPT ![s] = issued[s] + 1]
      /\ UNCHANGED <<loopVars, registered, done, loopPc, stopping, wakes>>
  BY DEF IInv, TypeOK, Entry, Submit
<1> HIDE DEF e
<1>2. /\ gpuQueue' \in Seq(Entry)
      /\ Len(gpuQueue') = Len(gpuQueue) + 1
      /\ \A i \in 1..Len(gpuQueue) : gpuQueue'[i] = gpuQueue[i]
      /\ gpuQueue'[Len(gpuQueue) + 1] = e
  BY <1>1, AppendProperties
<1>3. TypeOK'
  BY <1>1, <1>2 DEF IInv, TypeOK, loopVars, sharedVars, localVars
<1>4. Monotone'
  <2>1. e.sem = s /\ e.value = issued[s] + 1
    BY DEF e
  <2>2. \A x \in Semaphores : counter'[x] <= issued'[x]
    BY <1>1 DEF IInv, TypeOK, Monotone, loopVars
  <2>3. ASSUME NEW i \in 1..Len(gpuQueue')
        PROVE  /\ counter'[gpuQueue'[i].sem] < gpuQueue'[i].value
               /\ gpuQueue'[i].value <= issued'[gpuQueue'[i].sem]
    <3>1. CASE i = Len(gpuQueue) + 1
      BY <3>1, <2>1, <1>1, <1>2 DEF IInv, TypeOK, Monotone, loopVars
    <3>2. CASE i \in 1..Len(gpuQueue)
      <4>1. gpuQueue[i].sem \in Semaphores /\ gpuQueue[i].value \in Nat
        <5>1. gpuQueue[i] \in Entry
          BY <3>2, <1>1
        <5> QED BY <5>1 DEF Entry
      <4>2. /\ counter[gpuQueue[i].sem] < gpuQueue[i].value
            /\ gpuQueue[i].value <= issued[gpuQueue[i].sem]
        BY <3>2 DEF IInv, Monotone
      <4>3. issued[gpuQueue[i].sem] <= issued'[gpuQueue[i].sem] /\ counter' = counter
        BY <4>1, <1>1 DEF loopVars
      <4>4. issued[gpuQueue[i].sem] \in Nat /\ issued'[gpuQueue[i].sem] \in Nat
        BY <4>1, <1>1
      <4> QED BY <3>2, <4>1, <4>2, <4>3, <4>4, <1>2
    <3> QED BY <3>1, <3>2, <1>1, <1>2
  <2>4. ASSUME NEW i \in 1..Len(gpuQueue'), NEW j \in 1..Len(gpuQueue'),
               i < j, gpuQueue'[i].sem = gpuQueue'[j].sem
        PROVE  gpuQueue'[i].value < gpuQueue'[j].value
    <3>1. i \in 1..Len(gpuQueue) /\ gpuQueue[i] \in Entry
      BY <2>4, <1>1, <1>2
    <3>2. CASE j = Len(gpuQueue) + 1
      <4>1. gpuQueue[i].sem = s /\ gpuQueue[i].value \in Nat
        BY <3>1, <3>2, <2>1, <2>4, <1>2 DEF Entry
      <4>2. gpuQueue[i].value <= issued[s] /\ issued[s] \in Nat
        BY <3>1, <4>1, <1>1 DEF IInv, Monotone
      <4> QED BY <3>1, <3>2, <4>1, <4>2, <2>1, <1>2
    <3>3. CASE j \in 1..Len(gpuQueue)
      BY <3>1, <3>3, <2>4, <1>2 DEF IInv, Monotone
    <3> QED BY <3>2, <3>3, <1>1, <1>2
  <2> QED BY <2>2, <2>3, <2>4 DEF Monotone
<1>5. OnePoller' /\ SnapshotIsFront' /\ ScanSound' /\ ReadySound' /\ RunsAfterSignal'
  BY <1>1 DEF IInv, OnePoller, HoldsPolling, SnapshotIsFront, ScanSound, ReadySound,
              RunsAfterSignal, Signalled, loopVars, sharedVars, localVars
<1>6. NoSleepOverWork' /\ WakeValueAhead'
  BY <1>1 DEF IInv, NoSleepOverWork, WakeValueAhead, loopVars, sharedVars, localVars
<1> QED BY <1>3, <1>4, <1>5, <1>6 DEF IInv

\* waitForSemaphore appends a wait: copies stay fronts, sleepers are notified.
LEMMA RegisterStep ==
  ASSUME NEW e \in unregistered, IInv, Register(e)
  PROVE  IInv'
<1> DEFINE x == [sem |-> e.sem, value |-> e.value, cb |-> e.cb]
<1>1. /\ e \in Entry /\ x \in Entry
      /\ entries \in Seq(Entry) /\ entries' = Append(entries, x)
      /\ registered \in Seq(Entry) /\ registered' = Append(registered, e)
      /\ unregistered' = unregistered \ {e}
      /\ waiting' = FALSE
      /\ pollPc \in [Pollers -> PollPcs]
      /\ IF waiting THEN NotifyIdle ELSE UNCHANGED pollPc
      /\ UNCHANGED <<wakeValue, wakeCount, wakePending, localVars>>
      /\ UNCHANGED <<counter, gpuQueue, issued, done, loopPc, stopping, wakes>>
  BY DEF IInv, TypeOK, Entry, Register, WaitForSemaphore
<1> HIDE DEF x
<1>2. /\ entries' \in Seq(Entry) /\ registered' \in Seq(Entry)
      /\ Len(entries') = Len(entries) + 1
      /\ \A i \in 1..Len(entries) : entries'[i] = entries[i]
  BY <1>1, AppendProperties
<1>3. /\ pollPc' \in [Pollers -> PollPcs]
      /\ \A p \in Pollers : pollPc'[p] # "asleep"
      /\ \A p \in Pollers : pollPc[p] = "outside" <=> pollPc'[p] = "outside"
      /\ \A p \in Pollers : pollPc'[p] \in {"gpuWait", "scan"} => pollPc'[p] = pollPc[p]
  <2>1. CASE waiting
    BY <2>1, <1>1 DEF NotifyIdle, PollPcs
  <2>2. CASE ~waiting
    BY <2>2, <1>1 DEF IInv, NoSleepOverWork
  <2> QED BY <2>1, <2>2
<1>4. TypeOK'
  BY <1>1, <1>2, <1>3 DEF IInv, TypeOK, localVars
<1>5. OnePoller'
  BY <1>3 DEF IInv, OnePoller, HoldsPolling
<1>6. SnapshotIsFront'
  <2> SUFFICES ASSUME NEW p \in Pollers, pollPc'[p] \in {"gpuWait", "scan"}
               PROVE  /\ Len(snapshot'[p]) <= Len(entries')
                      /\ \A i \in 1..Len(snapshot'[p]) : entries'[i] = snapshot'[p][i]
    BY DEF SnapshotIsFront
  <2>1. /\ Len(snapshot[p]) <= Len(entries)
        /\ \A i \in 1..Len(snapshot[p]) : entries[i] = snapshot[p][i]
    BY <1>3 DEF IInv, SnapshotIsFront
  <2>2. Len(snapshot[p]) \in Nat /\ Len(entries) \in Nat /\ snapshot' = snapshot
    BY <1>1 DEF IInv, TypeOK, localVars
  <2> QED BY <2>1, <2>2, <1>2
<1>7. ScanSound'
  BY <1>1, <1>3 DEF IInv, ScanSound, Signalled, localVars
<1>8. ReadySound' /\ RunsAfterSignal' /\ Monotone' /\ NoSleepOverWork' /\ WakeValueAhead'
  BY <1>1, <1>3 DEF IInv, ReadySound, RunsAfterSignal, Signalled, Monotone,
                    NoSleepOverWork, WakeValueAhead, localVars
<1> QED BY <1>4, <1>5, <1>6, <1>7, <1>8 DEF IInv

\* A timeline that only grows leaves a reached value reached.
LEMMA SignalledStays ==
  ASSUME counter \in [Semaphores -> Nat], counter' \in [Semaphores -> Nat],
         \A s \in Semaphores : counter[s] <= counter'[s],
         NEW e \in Entry, Signalled(e)
  PROVE  counter'[e.sem] >= e.value
BY DEF Signalled, Entry

\* The GPU raises one counter to the value of the oldest submission.
LEMMA GpuExecuteStep ==
  ASSUME IInv, GpuExecute
  PROVE  IInv'
<1> DEFINE h == Head(gpuQueue)
<1>1. /\ gpuQueue \in Seq(Entry) /\ gpuQueue # <<>>
      /\ counter \in [Semaphores -> Nat]
      /\ counter' = [counter EXCEPT ![h.sem] = h.value]
      /\ gpuQueue' = Tail(gpuQueue)
      /\ UNCHANGED <<sharedVars, pollPc, localVars, unregistered, issued, registered,
                     done, loopPc, stopping, wakes>>
  BY DEF IInv, TypeOK, GpuExecute
<1>2. /\ h \in Entry /\ gpuQueue' \in Seq(Entry)
      /\ h = gpuQueue[1]
      /\ Len(gpuQueue) \in Nat /\ Len(gpuQueue) > 0
      /\ Len(gpuQueue') = Len(gpuQueue) - 1
      /\ \A i \in 1..Len(gpuQueue') : gpuQueue'[i] = gpuQueue[i + 1]
  BY <1>1, HeadTailProperties
<1> HIDE DEF h
<1>3. h.sem \in Semaphores /\ h.value \in Nat /\ counter[h.sem] < h.value
  BY <1>2 DEF IInv, Monotone, Entry
<1>4. /\ counter' \in [Semaphores -> Nat]
      /\ \A s \in Semaphores : counter[s] <= counter'[s]
      /\ \A s \in Semaphores : s # h.sem => counter'[s] = counter[s]
      /\ counter'[h.sem] = h.value
  BY <1>1, <1>3
<1>5. TypeOK'
  BY <1>1, <1>2, <1>4 DEF IInv, TypeOK, sharedVars, localVars
<1>6. OnePoller' /\ SnapshotIsFront' /\ NoSleepOverWork' /\ WakeValueAhead'
  BY <1>1 DEF IInv, OnePoller, HoldsPolling, SnapshotIsFront, NoSleepOverWork,
              WakeValueAhead, sharedVars, localVars
<1>7. ScanSound'
  <2> SUFFICES ASSUME NEW p \in Pollers, pollPc[p] = "scan",
                      NEW i \in 1..Len(readyIndices[p])
               PROVE  counter'[snapshot[p][readyIndices[p][i]].sem]
                        >= snapshot[p][readyIndices[p][i]].value
    BY <1>1 DEF IInv, ScanSound, Signalled, localVars
  <2>1. /\ readyIndices[p][i] \in 1..Len(snapshot[p])
        /\ Signalled(snapshot[p][readyIndices[p][i]])
    <3>1. /\ readyIndices[p] \in Seq(Nat \ {0}) /\ snapshot[p] \in Seq(Entry)
          /\ scan[p] \in Nat /\ scan[p] <= Len(snapshot[p]) + 1
          /\ readyIndices[p][i] < scan[p]
      BY DEF IInv, TypeOK, ScanSound
    <3>2. readyIndices[p][i] \in Nat \ {0} /\ Len(snapshot[p]) \in Nat
      BY <3>1
    <3> QED BY <3>1, <3>2 DEF IInv, ScanSound
  <2>2. snapshot[p][readyIndices[p][i]] \in Entry
    BY <2>1 DEF IInv, TypeOK
  <2> QED BY <2>1, <2>2, <1>1, <1>4, SignalledStays
<1>8. ReadySound'
  <2> SUFFICES ASSUME NEW p \in Pollers, NEW i \in 1..Len(ready[p])
               PROVE  counter'[ready[p][i].sem] >= ready[p][i].value
    BY <1>1 DEF ReadySound, Signalled, localVars
  <2>1. ready[p][i] \in Entry /\ Signalled(ready[p][i])
    BY DEF IInv, TypeOK, ReadySound
  <2> QED BY <2>1, <1>1, <1>4, SignalledStays
<1>9. RunsAfterSignal'
  <2> SUFFICES ASSUME NEW i \in 1..Len(done)
               PROVE  counter'[done[i].sem] >= done[i].value
    BY <1>1 DEF RunsAfterSignal, Signalled
  <2>1. done[i] \in Entry /\ Signalled(done[i])
    BY DEF IInv, TypeOK, RunsAfterSignal
  <2> QED BY <2>1, <1>1, <1>4, SignalledStays
<1>10. Monotone'
  <2>1. ASSUME NEW s \in Semaphores PROVE counter'[s] <= issued'[s]
    BY <1>1, <1>2, <1>3, <1>4 DEF IInv, Monotone
  <2>2. ASSUME NEW i \in 1..Len(gpuQueue')
        PROVE  /\ counter'[gpuQueue'[i].sem] < gpuQueue'[i].value
               /\ gpuQueue'[i].value <= issued'[gpuQueue'[i].sem]
    <3>1. /\ i + 1 \in 1..Len(gpuQueue) /\ 1 \in 1..Len(gpuQueue) /\ 1 < i + 1
          /\ gpuQueue'[i] = gpuQueue[i + 1] /\ gpuQueue[i + 1] \in Entry
      BY <1>1, <1>2
    <3> QED BY <3>1, <1>1, <1>2, <1>4 DEF IInv, Monotone, Entry
  <2>3. ASSUME NEW i \in 1..Len(gpuQueue'), NEW j \in 1..Len(gpuQueue'),
               i < j, gpuQueue'[i].sem = gpuQueue'[j].sem
        PROVE  gpuQueue'[i].value < gpuQueue'[j].value
    <3>1. /\ i + 1 \in 1..Len(gpuQueue) /\ j + 1 \in 1..Len(gpuQueue) /\ i + 1 < j + 1
          /\ gpuQueue'[i] = gpuQueue[i + 1] /\ gpuQueue'[j] = gpuQueue[j + 1]
      BY <2>3, <1>2
    <3> QED BY <3>1, <2>3 DEF IInv, Monotone
  <2> QED BY <2>1, <2>2, <2>3 DEF Monotone
<1> QED BY <1>5, <1>6, <1>7, <1>8, <1>9, <1>10 DEF IInv

\* wakeupEventLoop leaves everything but the wake and the sleepers alone.
LEMMA WakeupStep ==
  ASSUME IInv, WakeupEventLoop,
         UNCHANGED <<gpuQueue, unregistered, issued, registered, done, loopPc>>,
         stopping' \in {"no", "set", "woken"}, wakes' \in 0..MaxWakes
  PROVE  IInv'
<1>1. /\ wakePending' = TRUE /\ waiting' = FALSE
      /\ \/ /\ waiting /\ NotifyIdle /\ UNCHANGED <<wakeValue, wakeCount>>
         \/ /\ ~waiting /\ wakeValue' = wakeValue + 1 /\ wakeCount' = wakeValue
            /\ UNCHANGED pollPc
      /\ UNCHANGED <<entries, localVars, counter>>
      /\ pollPc \in [Pollers -> PollPcs]
  BY DEF IInv, TypeOK, WakeupEventLoop
<1>2. /\ pollPc' \in [Pollers -> PollPcs]
      /\ \A p \in Pollers : pollPc'[p] # "asleep"
      /\ \A p \in Pollers : pollPc[p] = "outside" <=> pollPc'[p] = "outside"
      /\ \A p \in Pollers : pollPc'[p] \in {"gpuWait", "scan"} => pollPc'[p] = pollPc[p]
  <2>1. CASE waiting
    BY <2>1, <1>1 DEF NotifyIdle, PollPcs
  <2>2. CASE ~waiting
    BY <2>2, <1>1 DEF IInv, NoSleepOverWork
  <2> QED BY <2>1, <2>2
<1>3. TypeOK'
  <2>1. wakeValue' \in Nat /\ wakeCount' \in Nat
    BY <1>1 DEF IInv, TypeOK
  <2>2. wakePending' \in BOOLEAN /\ waiting' \in BOOLEAN
    BY <1>1
  <2> QED BY <2>1, <2>2, <1>1, <1>2 DEF IInv, TypeOK, localVars
<1>4. OnePoller' /\ SnapshotIsFront' /\ ScanSound'
  BY <1>1, <1>2 DEF IInv, OnePoller, HoldsPolling, SnapshotIsFront, ScanSound, Signalled, localVars
<1>5. ReadySound' /\ RunsAfterSignal' /\ Monotone' /\ NoSleepOverWork'
  BY <1>1, <1>2 DEF IInv, ReadySound, RunsAfterSignal, Signalled, Monotone,
                    NoSleepOverWork, localVars
<1>6. WakeValueAhead'
  BY <1>1, <1>2 DEF IInv, TypeOK, WakeValueAhead, localVars
<1> QED BY <1>3, <1>4, <1>5, <1>6 DEF IInv

-----------------------------------------------------------------------------
(* The pollers. *)

\* The steps that touch only the program counters and the wake flag.
LEMMA ControlStep ==
  ASSUME NEW p \in Pollers, IInv,
         \/ LoopCheck(p)
         \/ LoopPoll(p)
         \/ LoopStep(p) /\ PollSleep(p)
  PROVE  IInv'
<1> DEFINE Frame == UNCHANGED <<entries, wakeValue, wakeCount, localVars, counter, gpuQueue,
                                unregistered, issued, registered, done, wakes>>
<1>1. CASE LoopCheck(p)
  <2>1. TypeOK'
    BY <1>1 DEF IInv, TypeOK, LoopCheck, loopVars, sharedVars, localVars
  <2>2. OnePoller' /\ SnapshotIsFront' /\ ScanSound' /\ ReadySound' /\ RunsAfterSignal'
    BY <1>1 DEF IInv, LoopCheck, OnePoller, HoldsPolling, SnapshotIsFront,
                ScanSound, ReadySound, RunsAfterSignal, Signalled, loopVars, sharedVars, localVars
  <2>3. Monotone' /\ NoSleepOverWork' /\ WakeValueAhead'
    BY <1>1 DEF IInv, LoopCheck, Monotone, NoSleepOverWork, WakeValueAhead,
                loopVars, sharedVars, localVars
  <2> QED BY <2>1, <2>2, <2>3 DEF IInv
<1>2. CASE LoopPoll(p) \/ (LoopStep(p) /\ PollSleep(p))
  <2>1. /\ Frame
        /\ pollPc \in [Pollers -> PollPcs]
        /\ loopPc \in [Pollers -> {"check", "poll", "exit"}]
        /\ stopping' = stopping
        /\ loopPc' \in [Pollers -> {"check", "poll", "exit"}]
    BY <1>2 DEF IInv, TypeOK, LoopPoll, LoopStep, PollConsumeWake, PollAwake, PollTimeout,
                PollReturn, PollSleep, sharedVars, localVars, clientVars
  <2>2. /\ wakePending' \in BOOLEAN /\ waiting' \in BOOLEAN
        /\ pollPc' \in [Pollers -> PollPcs]
        /\ \/ pollPc' = pollPc /\ \A q \in Pollers : pollPc[q] = "outside"
           \/ pollPc' = [pollPc EXCEPT ![p] = "outside"] /\ pollPc[p] # "outside"
           \/ /\ pollPc' = [pollPc EXCEPT ![p] = "asleep"]
              /\ \A q \in Pollers : pollPc[q] = "outside"
              /\ waiting' /\ entries = <<>> /\ ~wakePending'
    <3>1. CASE PollConsumeWake(p)
      BY <3>1 DEF IInv, TypeOK, PollConsumeWake, PollingMutexFree, HoldsPolling
    <3>2. CASE PollAwake(p)
      BY <3>2 DEF IInv, TypeOK, PollAwake, PollPcs
    <3>3. CASE PollTimeout(p) \/ PollReturn(p)
      BY <3>3 DEF IInv, TypeOK, PollTimeout, PollReturn, PollPcs, sharedVars
    <3>4. CASE PollSleep(p)
      BY <3>4 DEF IInv, TypeOK, PollSleep, PollingMutexFree, HoldsPolling, PollPcs
    <3> QED BY <3>1, <3>2, <3>3, <3>4, <1>2 DEF LoopPoll
  <2>3. TypeOK'
    BY <2>1, <2>2 DEF IInv, TypeOK, localVars
  <2>4. OnePoller' /\ NoSleepOverWork'
    BY <2>1, <2>2 DEF IInv, OnePoller, HoldsPolling, NoSleepOverWork
  <2>5. SnapshotIsFront' /\ ScanSound' /\ WakeValueAhead'
    BY <2>1, <2>2 DEF IInv, SnapshotIsFront, ScanSound, Signalled, WakeValueAhead, localVars
  <2>6. ReadySound' /\ RunsAfterSignal' /\ Monotone'
    BY <2>1 DEF IInv, ReadySound, RunsAfterSignal, Signalled, Monotone, localVars
  <2> QED BY <2>3, <2>4, <2>5, <2>6 DEF IInv
<1> QED BY <1>1, <1>2

\* pollEvents copies the vectors under both locks.
LEMMA SnapshotStep ==
  ASSUME NEW p \in Pollers, IInv, LoopStep(p), PollSnapshot(p)
  PROVE  IInv'
<1> USE DEF LoopStep, PollSnapshot, PollingMutexFree, HoldsPolling, sharedVars, clientVars
<1>1. TypeOK'
  BY DEF IInv, TypeOK, PollPcs
<1>2. OnePoller' /\ SnapshotIsFront' /\ WakeValueAhead'
  BY SMTT(30) DEF IInv, TypeOK, OnePoller, SnapshotIsFront, WakeValueAhead
<1>3. ScanSound' /\ ReadySound' /\ RunsAfterSignal'
  BY DEF IInv, TypeOK, ScanSound, ReadySound, RunsAfterSignal, Signalled
<1>4. Monotone' /\ NoSleepOverWork'
  BY DEF IInv, TypeOK, Monotone, NoSleepOverWork
<1> QED BY <1>1, <1>2, <1>3, <1>4 DEF IInv

\* The wait on the GPU returns and the scan starts.
LEMMA SignalledStep ==
  ASSUME NEW p \in Pollers, IInv, LoopStep(p), PollSignalled(p)
  PROVE  IInv'
<1>1. /\ pollPc[p] = "gpuWait"
      /\ scan' = [scan EXCEPT ![p] = 1]
      /\ readyIndices' = [readyIndices EXCEPT ![p] = <<>>]
      /\ pollPc' = [pollPc EXCEPT ![p] = "scan"]
      /\ UNCHANGED <<entries, wakeValue, wakeCount, wakePending, waiting, snapshot, snapWake,
                     ready, counter, gpuQueue, unregistered, issued, registered, done,
                     loopPc, stopping, wakes>>
  BY DEF LoopStep, PollSignalled, sharedVars, clientVars
<1>2. /\ scan' \in [Pollers -> Nat \ {0}] /\ readyIndices' \in [Pollers -> Seq(Nat \ {0})]
      /\ pollPc' \in [Pollers -> PollPcs] /\ pollPc \in [Pollers -> PollPcs]
      /\ scan \in [Pollers -> Nat \ {0}] /\ readyIndices \in [Pollers -> Seq(Nat \ {0})]
  <2>1. <<>> \in Seq(Nat \ {0})
    OBVIOUS
  <2> QED BY <1>1, <2>1 DEF IInv, TypeOK, PollPcs
<1>3. TypeOK'
  BY <1>1, <1>2 DEF IInv, TypeOK
<1>4. ScanSound'
  <2> SUFFICES ASSUME NEW q \in Pollers, pollPc'[q] = "scan"
               PROVE  /\ scan'[q] <= Len(snapshot'[q]) + 1
                      /\ \A i \in 1..Len(readyIndices'[q]) :
                           /\ readyIndices'[q][i] < scan'[q]
                           /\ Signalled(snapshot[q][readyIndices'[q][i]])
    BY <1>1 DEF ScanSound, Signalled
  <2>1. CASE q = p
    <3>1. scan'[q] = 1 /\ Len(readyIndices'[q]) = 0 /\ Len(snapshot'[q]) \in Nat
      BY <2>1, <1>1, <1>2 DEF IInv, TypeOK
    <3> QED BY <3>1
  <2>2. CASE q # p
    BY <2>2, <1>1, <1>2 DEF IInv, ScanSound
  <2> QED BY <2>1, <2>2
<1>5. OnePoller' /\ SnapshotIsFront' /\ NoSleepOverWork' /\ WakeValueAhead'
  BY <1>1, <1>2 DEF IInv, OnePoller, HoldsPolling, SnapshotIsFront, NoSleepOverWork, WakeValueAhead
<1>6. ReadySound' /\ RunsAfterSignal' /\ Monotone'
  BY <1>1 DEF IInv, ReadySound, RunsAfterSignal, Signalled, Monotone
<1> QED BY <1>3, <1>4, <1>5, <1>6 DEF IInv

\* The scan reads one counter of its copy.
LEMMA ScanStep ==
  ASSUME NEW p \in Pollers, IInv, LoopStep(p), PollScan(p)
  PROVE  IInv'
<1> DEFINE r == IF Signalled(snapshot[p][scan[p]]) THEN Append(readyIndices[p], scan[p])
                                                   ELSE readyIndices[p]
<1>1. /\ pollPc[p] = "scan" /\ scan[p] <= Len(snapshot[p])
      /\ readyIndices' = [readyIndices EXCEPT ![p] = r]
      /\ scan' = [scan EXCEPT ![p] = scan[p] + 1]
      /\ UNCHANGED <<entries, wakeValue, wakeCount, wakePending, waiting, pollPc, snapshot,
                     snapWake, ready, counter, gpuQueue, unregistered, issued, registered,
                     done, loopPc, stopping, wakes>>
  BY DEF LoopStep, PollScan, sharedVars, clientVars
<1>2. /\ readyIndices \in [Pollers -> Seq(Nat \ {0})] /\ scan \in [Pollers -> Nat \ {0}]
      /\ snapshot[p] \in Seq(Entry) /\ Len(snapshot[p]) \in Nat
  BY DEF IInv, TypeOK
<1>3. /\ r \in Seq(Nat \ {0})
      /\ \A i \in 1..Len(r) :
           \/ i \in 1..Len(readyIndices[p]) /\ r[i] = readyIndices[p][i]
           \/ r[i] = scan[p] /\ Signalled(snapshot[p][scan[p]])
  <2>1. readyIndices[p] \in Seq(Nat \ {0}) /\ scan[p] \in Nat \ {0}
    BY <1>2
  <2>2. CASE Signalled(snapshot[p][scan[p]])
    BY <2>1, <2>2, AppendProperties
  <2>3. CASE ~Signalled(snapshot[p][scan[p]])
    BY <2>1, <2>3
  <2> QED BY <2>2, <2>3
<1> HIDE DEF r
<1>4. scan' \in [Pollers -> Nat \ {0}] /\ readyIndices' \in [Pollers -> Seq(Nat \ {0})]
  BY <1>1, <1>2, <1>3
<1>5. TypeOK'
  BY <1>1, <1>4 DEF IInv, TypeOK
<1>6. ScanSound'
  <2> SUFFICES ASSUME NEW q \in Pollers, pollPc[q] = "scan"
               PROVE  /\ scan'[q] <= Len(snapshot[q]) + 1
                      /\ \A i \in 1..Len(readyIndices'[q]) :
                           /\ readyIndices'[q][i] < scan'[q]
                           /\ Signalled(snapshot[q][readyIndices'[q][i]])
    BY <1>1 DEF ScanSound, Signalled
  <2>1. CASE q = p
    <3>1. scan'[q] = scan[p] + 1 /\ readyIndices'[q] = r /\ scan[p] \in Nat
      BY <2>1, <1>1, <1>2
    <3>2. ASSUME NEW i \in 1..Len(r)
          PROVE  r[i] < scan[p] + 1 /\ Signalled(snapshot[p][r[i]])
      <4>1. CASE i \in 1..Len(readyIndices[p]) /\ r[i] = readyIndices[p][i]
        <5>1. readyIndices[p][i] \in Nat
          BY <4>1, <1>2
        <5> QED BY <4>1, <5>1, <3>1, <1>1 DEF IInv, ScanSound
      <4>2. CASE r[i] = scan[p] /\ Signalled(snapshot[p][scan[p]])
        BY <4>2, <3>1
      <4> QED BY <4>1, <4>2, <1>3
    <3> QED BY <3>1, <3>2, <2>1, <1>1, <1>2
  <2>2. CASE q # p
    BY <2>2, <1>1, <1>2 DEF IInv, ScanSound
  <2> QED BY <2>1, <2>2
<1>7. OnePoller' /\ SnapshotIsFront' /\ NoSleepOverWork' /\ WakeValueAhead'
  BY <1>1 DEF IInv, OnePoller, HoldsPolling, SnapshotIsFront, NoSleepOverWork, WakeValueAhead
<1>8. ReadySound' /\ RunsAfterSignal' /\ Monotone'
  BY <1>1 DEF IInv, ReadySound, RunsAfterSignal, Signalled, Monotone
<1> QED BY <1>5, <1>6, <1>7, <1>8 DEF IInv

\* What erasing leaves are registered waits.
LEMMA EraseType ==
  ASSUME entries \in Seq(Entry), NEW P, EraseEntries(P)
  PROVE  entries' \in Seq(Entry)
<1> DEFINE K == (1..Len(entries)) \ P
<1>1. PICK kept \in Enumerations(K) : entries' = [j \in DOMAIN kept |-> entries[kept[j]]]
  BY DEF EraseEntries
<1>2. Cardinality(K) \in Nat
  <2>1. IsFiniteSet(1..Len(entries))
    BY FS_Interval
  <2>2. IsFiniteSet(K)
    BY <2>1, FS_Subset
  <2> QED BY <2>2, FS_CardinalityType
<1>3. kept \in [1..Cardinality(K) -> K]
  BY DEF Enumerations
<1>4. ASSUME NEW j \in 1..Cardinality(K) PROVE entries[kept[j]] \in Entry
  <2>1. kept[j] \in K
    BY <1>3
  <2>2. kept[j] \in 1..Len(entries)
    BY <2>1
  <2> QED BY <2>2
<1> HIDE DEF K
<1> QED BY <1>1, <1>2, <1>3, <1>4

\* pollEvents moves the ready callbacks out of the vectors by index.
LEMMA RemoveStep ==
  ASSUME NEW p \in Pollers, IInv, LoopStep(p), PollRemove(p)
  PROVE  IInv'
<1> DEFINE idx == readyIndices[p]
           out == [i \in 1..Len(idx) |-> entries[idx[i]]]
<1>1. /\ pollPc[p] = "scan"
      /\ ready' = [ready EXCEPT ![p] = out]
      /\ EraseEntries({idx[i] : i \in 1..Len(idx)})
      /\ pollPc' = [pollPc EXCEPT ![p] = "run"]
      /\ UNCHANGED <<wakeValue, wakeCount, wakePending, waiting, snapshot, snapWake, scan,
                     readyIndices, counter, gpuQueue, unregistered, issued, registered,
                     done, loopPc, stopping, wakes>>
  BY DEF LoopStep, PollRemove, clientVars
<1>2. entries' \in Seq(Entry)
  BY <1>1, EraseType DEF IInv, TypeOK
<1>3. ASSUME NEW i \in 1..Len(idx)
      PROVE  entries[idx[i]] \in Entry /\ Signalled(entries[idx[i]])
  <2>1. /\ idx \in Seq(Nat \ {0}) /\ snapshot[p] \in Seq(Entry) /\ entries \in Seq(Entry)
        /\ scan[p] \in Nat /\ scan[p] <= Len(snapshot[p]) + 1
        /\ idx[i] < scan[p] /\ Signalled(snapshot[p][idx[i]])
    BY <1>1 DEF IInv, TypeOK, ScanSound
  <2>2. idx[i] \in 1..Len(snapshot[p])
    <3>1. idx[i] \in Nat \ {0} /\ Len(snapshot[p]) \in Nat
      BY <2>1
    <3> QED BY <2>1, <3>1
  <2>3. Len(snapshot[p]) <= Len(entries) /\ entries[idx[i]] = snapshot[p][idx[i]]
    BY <2>2, <1>1 DEF IInv, SnapshotIsFront
  <2>4. idx[i] \in 1..Len(entries)
    BY <2>1, <2>2, <2>3
  <2> QED BY <2>1, <2>3, <2>4
<1>4. /\ out \in Seq(Entry)
      /\ Len(out) = Len(idx) /\ \A i \in 1..Len(out) : Signalled(out[i])
  <2>1. Len(idx) \in Nat
    BY DEF IInv, TypeOK
  <2> QED BY <2>1, <1>3
<1> HIDE DEF idx, out
<1>5. /\ pollPc' \in [Pollers -> PollPcs] /\ ready' \in [Pollers -> Seq(Entry)]
      /\ ready'[p] = out /\ \A q \in Pollers : q # p => ready'[q] = ready[q]
      /\ pollPc'[p] = "run" /\ \A q \in Pollers : q # p => pollPc'[q] = pollPc[q]
  BY <1>1, <1>4 DEF IInv, TypeOK, PollPcs
<1>6. TypeOK'
  BY <1>1, <1>2, <1>5 DEF IInv, TypeOK
<1>7. \A q \in Pollers : q # p => pollPc'[q] = "outside"
  BY <1>1, <1>5 DEF IInv, OnePoller, HoldsPolling
<1>8. OnePoller' /\ SnapshotIsFront' /\ ScanSound' /\ NoSleepOverWork' /\ WakeValueAhead'
  BY <1>1, <1>5, <1>7 DEF IInv, OnePoller, HoldsPolling, SnapshotIsFront, ScanSound,
                          NoSleepOverWork, WakeValueAhead
<1>9. ReadySound'
  BY <1>1, <1>4, <1>5 DEF IInv, ReadySound, Signalled
<1>10. RunsAfterSignal' /\ Monotone'
  BY <1>1 DEF IInv, RunsAfterSignal, Signalled, Monotone
<1> QED BY <1>6, <1>8, <1>9, <1>10 DEF IInv

\* One callback that was moved out runs.
LEMMA CallbackStep ==
  ASSUME NEW p \in Pollers, IInv, LoopCallback(p)
  PROVE  IInv'
<1> DEFINE h == Head(ready[p])
<1>1. /\ ready[p] # <<>> /\ ready[p] \in Seq(Entry)
      /\ ready \in [Pollers -> Seq(Entry)] /\ done \in Seq(Entry)
      /\ ready' = [ready EXCEPT ![p] = Tail(ready[p])]
      /\ done' = Append(done, h)
      /\ UNCHANGED <<entries, wakeValue, wakeCount, wakePending, waiting, pollPc, snapshot,
                     snapWake, scan, readyIndices, counter, gpuQueue, unregistered, issued,
                     registered, loopPc, stopping, wakes>>
  BY DEF IInv, TypeOK, LoopCallback, PollCallback, sharedVars
<1>2. /\ h \in Entry /\ h = ready[p][1] /\ Tail(ready[p]) \in Seq(Entry)
      /\ Len(ready[p]) \in Nat /\ Len(ready[p]) > 0
      /\ Len(Tail(ready[p])) = Len(ready[p]) - 1
      /\ \A i \in 1..Len(Tail(ready[p])) : Tail(ready[p])[i] = ready[p][i + 1]
  BY <1>1, HeadTailProperties
<1> HIDE DEF h
<1>3. /\ done' \in Seq(Entry) /\ Len(done') = Len(done) + 1
      /\ \A i \in 1..Len(done) : done'[i] = done[i]
      /\ done'[Len(done) + 1] = h /\ Len(done) \in Nat
  BY <1>1, <1>2, AppendProperties
<1>4. TypeOK'
  BY <1>1, <1>2, <1>3 DEF IInv, TypeOK
<1>5. ReadySound'
  <2> SUFFICES ASSUME NEW q \in Pollers, NEW i \in 1..Len(ready'[q])
               PROVE  Signalled(ready'[q][i])
    BY <1>1 DEF ReadySound, Signalled
  <2>1. CASE q = p
    <3>1. i + 1 \in 1..Len(ready[p]) /\ ready'[q][i] = ready[p][i + 1]
      BY <2>1, <1>1, <1>2
    <3> QED BY <3>1 DEF IInv, ReadySound
  <2>2. CASE q # p
    BY <2>2, <1>1 DEF IInv, ReadySound
  <2> QED BY <2>1, <2>2
<1>6. RunsAfterSignal'
  <2> SUFFICES ASSUME NEW i \in 1..Len(done') PROVE Signalled(done'[i])
    BY <1>1 DEF RunsAfterSignal, Signalled
  <2>1. CASE i = Len(done) + 1
    BY <2>1, <1>2, <1>3 DEF IInv, ReadySound
  <2>2. CASE i \in 1..Len(done)
    BY <2>2, <1>3 DEF IInv, RunsAfterSignal
  <2> QED BY <2>1, <2>2, <1>3
<1>7. OnePoller' /\ SnapshotIsFront' /\ ScanSound' /\ Monotone'
  BY <1>1 DEF IInv, OnePoller, HoldsPolling, SnapshotIsFront, ScanSound, Signalled, Monotone
<1>8. NoSleepOverWork' /\ WakeValueAhead'
  BY <1>1 DEF IInv, NoSleepOverWork, WakeValueAhead
<1> QED BY <1>4, <1>5, <1>6, <1>7, <1>8 DEF IInv

\* IInv depends on vars only.
LEMMA StutterStep ==
  ASSUME IInv, UNCHANGED vars
  PROVE  IInv'
<1> USE DEF vars, loopVars, sharedVars, localVars, clientVars
<1>1. TypeOK'
  BY DEF IInv, TypeOK
<1>2. OnePoller' /\ SnapshotIsFront' /\ ScanSound' /\ ReadySound' /\ RunsAfterSignal'
  BY DEF IInv, OnePoller, HoldsPolling, SnapshotIsFront, ScanSound, ReadySound,
         RunsAfterSignal, Signalled
<1>3. Monotone' /\ NoSleepOverWork' /\ WakeValueAhead'
  BY DEF IInv, Monotone, NoSleepOverWork, WakeValueAhead
<1> QED BY <1>1, <1>2, <1>3 DEF IInv

-----------------------------------------------------------------------------
\* Every step of the system preserves IInv.
LEMMA Inductive == IInv /\ [Next]_vars => IInv'
<1> SUFFICES ASSUME IInv, [Next]_vars PROVE IInv'
  OBVIOUS
<1>1. ASSUME NEW s \in Semaphores, NEW cb \in Callbacks, Submit(s, cb) PROVE IInv'
  BY <1>1, SubmitStep
<1>2. ASSUME NEW e \in unregistered, Register(e) PROVE IInv'
  BY <1>2, RegisterStep
<1>3. CASE GpuExecute
  BY <1>3, GpuExecuteStep
<1>4. CASE Wake \/ StopWake
  <2>1. stopping' \in {"no", "set", "woken"} /\ wakes' \in 0..MaxWakes
    BY <1>4, MaxWakesAssumption DEF IInv, TypeOK, Wake, StopWake
  <2>2. /\ WakeupEventLoop
        /\ UNCHANGED <<gpuQueue, unregistered, issued, registered, done, loopPc>>
    BY <1>4 DEF Wake, StopWake
  <2> QED BY <2>1, <2>2, WakeupStep
<1>5. CASE StopPollers
  <2>1. TypeOK'
    BY <1>5 DEF IInv, TypeOK, StopPollers, loopVars, sharedVars, localVars
  <2>2. OnePoller' /\ SnapshotIsFront' /\ ScanSound' /\ ReadySound' /\ RunsAfterSignal'
    BY <1>5 DEF IInv, StopPollers, OnePoller, HoldsPolling, SnapshotIsFront, ScanSound,
                ReadySound, RunsAfterSignal, Signalled, loopVars, sharedVars, localVars
  <2>3. Monotone' /\ NoSleepOverWork' /\ WakeValueAhead'
    BY <1>5 DEF IInv, StopPollers, Monotone, NoSleepOverWork, WakeValueAhead, loopVars,
                sharedVars, localVars
  <2> QED BY <2>1, <2>2, <2>3 DEF IInv
<1>6. ASSUME NEW p \in Pollers, LoopCheck(p) \/ LoopPoll(p) PROVE IInv'
  BY <1>6, ControlStep
<1>7. ASSUME NEW p \in Pollers, LoopStep(p) PROVE IInv'
  <2>1. CASE PollSleep(p)
    BY <2>1, <1>7, ControlStep
  <2>2. CASE PollSnapshot(p)
    BY <2>2, <1>7, SnapshotStep
  <2>3. CASE PollSignalled(p)
    BY <2>3, <1>7, SignalledStep
  <2>4. CASE PollScan(p)
    BY <2>4, <1>7, ScanStep
  <2>5. CASE PollRemove(p)
    BY <2>5, <1>7, RemoveStep
  <2> QED BY <2>1, <2>2, <2>3, <2>4, <2>5, <1>7 DEF LoopStep
<1>8. ASSUME NEW p \in Pollers, LoopCallback(p) PROVE IInv'
  BY <1>8, CallbackStep
<1>9. CASE UNCHANGED vars
  BY <1>9, StutterStep
<1> QED BY <1>1, <1>2, <1>3, <1>4, <1>5, <1>6, <1>7, <1>8, <1>9 DEF Next

\* IInv is an invariant of the event loop and its callers.
THEOREM Invariance == Spec => []IInv
BY Initial, Inductive, PTL DEF Spec

\* pollEvents, waitForSemaphore and wakeupEventLoop keep every variable of its
\* type; in particular removal by index reads only existing slots.
THEOREM TypeCorrect == Spec => []TypeOK
<1>1. IInv => TypeOK
  BY DEF IInv
<1> QED BY <1>1, Invariance, PTL

\* The assumption stated in pollEvents holds: what a poll copied stays the
\* front of the shared vectors until it removes from them by index.
THEOREM SnapshotStaysFront == Spec => []SnapshotIsFront
<1>1. IInv => SnapshotIsFront
  BY DEF IInv
<1> QED BY <1>1, Invariance, PTL

\* No completion callback runs before the GPU reached its value.
THEOREM CallbacksRunAfterSignal == Spec => []RunsAfterSignal
<1>1. IInv => RunsAfterSignal
  BY DEF IInv
<1> QED BY <1>1, Invariance, PTL

\* No poll sleeps while there is work or a wake for it.
THEOREM NoLostWakeup == Spec => []NoSleepOverWork
<1>1. IInv => NoSleepOverWork
  BY DEF IInv
<1> QED BY <1>1, Invariance, PTL

\* wakeupEventLoop always signals a value beyond the semaphore's counter, and
\* one that every waiting snapshot reacts to.
THEOREM WakeupsIncrease == Spec => []WakeValueAhead
<1>1. IInv => WakeValueAhead
  BY DEF IInv
<1> QED BY <1>1, Invariance, PTL

-----------------------------------------------------------------------------
(***************************************************************************)
(* Once and in order.  pollEvents copies the waits, releases the lock, and *)
(* later removes the ready ones from three parallel vectors by index.  On  *)
(* top of IInv, no callback is lost, run twice or moved out of order by    *)
(* it.  OInv says where each registered callback is, and that every vector *)
(* is in registration order.                                               *)
(***************************************************************************)

IsRegistered(e) == \E k \in 1..Len(registered) : registered[k] = e
Before(e, x) == \E k, l \in 1..Len(registered) : k < l /\ registered[k] = e /\ registered[l] = x
Holds(s, cb) == \E i \in 1..Len(s) : s[i].cb = cb
Apart(s, t) == \A i \in 1..Len(s) : \A j \in 1..Len(t) : s[i].cb # t[j].cb

\* A callback is submitted, and so registered, once.
IdsOnce ==
  /\ \A i, j \in 1..Len(registered) : registered[i].cb = registered[j].cb => i = j
  /\ \A x, y \in unregistered : x.cb = y.cb => x = y
  /\ \A x \in unregistered : \A i \in 1..Len(registered) : registered[i].cb # x.cb

\* The vectors hold registered waits, oldest first.
EntriesInOrder ==
  \A i \in 1..Len(entries) :
    /\ IsRegistered(entries[i])
    /\ \A j \in 1..Len(entries) : i < j => Before(entries[i], entries[j])

\* A scan collects increasing positions.
IndicesIncrease ==
  \A p \in Pollers : pollPc[p] = "scan" =>
    \A i, j \in 1..Len(readyIndices[p]) : i < j => readyIndices[p][i] < readyIndices[p][j]

\* What a poll has moved out is nowhere else.
ReadyApart ==
  \A p \in Pollers :
    /\ pollPc[p] # "run" => ready[p] = <<>>
    /\ \A i \in 1..Len(ready[p]) : IsRegistered(ready[p][i])
    /\ Apart(ready[p], entries) /\ Apart(ready[p], done)

DoneOnce ==
  /\ Apart(entries, done)
  /\ \A i \in 1..Len(done) :
       /\ IsRegistered(done[i])
       /\ \A j \in 1..Len(done) : done[i].cb = done[j].cb => i = j

NoneLost ==
  \A i \in 1..Len(registered) :
    \/ Holds(entries, registered[i].cb) \/ Holds(done, registered[i].cb)
    \/ \E p \in Pollers : Holds(ready[p], registered[i].cb)

OInv == /\ IdsOnce /\ EntriesInOrder /\ IndicesIncrease
        /\ ReadyApart /\ OldestFirst /\ DoneOnce /\ NoneLost

-----------------------------------------------------------------------------
(* Lemmas *)

\* The registrations of two waits in a row are different callbacks.
LEMMA BeforeDiffers == ASSUME IdsOnce, NEW e, NEW x, Before(e, x) PROVE e.cb # x.cb
<1>1. PICK k, l \in 1..Len(registered) : k < l /\ registered[k] = e /\ registered[l] = x
  BY DEF Before
<1>2. k # l
  BY <1>1
<1> QED BY <1>1, <1>2 DEF IdsOnce

\* No callback is twice in the vectors or among the ones a poll moved out.
LEMMA InOrderOnce ==
  ASSUME TypeOK, OInv
  PROVE  /\ \A i, j \in 1..Len(entries) : entries[i].cb = entries[j].cb => i = j
         /\ \A p \in Pollers : \A i, j \in 1..Len(ready[p]) : ready[p][i].cb = ready[p][j].cb => i = j
<1>1. ASSUME NEW i \in 1..Len(entries), NEW j \in 1..Len(entries), i < j PROVE entries[i].cb # entries[j].cb
  BY <1>1, BeforeDiffers DEF OInv, EntriesInOrder
<1>2. ASSUME NEW p \in Pollers, NEW i \in 1..Len(ready[p]), NEW j \in 1..Len(ready[p]), i < j
      PROVE  ready[p][i].cb # ready[p][j].cb
  <2>1. Before(ready[p][i], ready[p][j])
    BY <1>2 DEF OInv, OldestFirst, Before
  <2> QED BY <2>1, BeforeDiffers DEF OInv
<1>3. ASSUME NEW i \in 1..Len(entries), NEW j \in 1..Len(entries), entries[i].cb = entries[j].cb PROVE i = j
  BY <1>1, <1>3
<1>4. ASSUME NEW p \in Pollers, NEW i \in 1..Len(ready[p]), NEW j \in 1..Len(ready[p]),
             ready[p][i].cb = ready[p][j].cb
      PROVE  i = j
  BY <1>2, <1>4
<1> QED BY <1>3, <1>4

\* The positions that an erasure keeps: slot j was slot kept[j].
KeepsSlots(P, kept) ==
  /\ kept \in [1..Len(entries') -> (1..Len(entries)) \ P]
  /\ \A j \in 1..Len(entries') : entries'[j] = entries[kept[j]]
  /\ \A i, j \in 1..Len(entries') : i < j => kept[i] < kept[j]
  /\ \A k \in (1..Len(entries)) \ P : \E j \in 1..Len(entries') : kept[j] = k

\* Erasing keeps the other slots, in order.
LEMMA EraseKeeps ==
  ASSUME entries \in Seq(Entry), NEW P, EraseEntries(P)
  PROVE  \E kept : KeepsSlots(P, kept)
<1> DEFINE K == (1..Len(entries)) \ P
<1>1. PICK kept \in Enumerations(K) : entries' = [j \in DOMAIN kept |-> entries[kept[j]]]
  BY DEF EraseEntries
<1>2. Cardinality(K) \in Nat
  <2>1. IsFiniteSet(1..Len(entries))
    BY FS_Interval
  <2>2. IsFiniteSet(K)
    BY <2>1, FS_Subset
  <2> QED BY <2>2, FS_CardinalityType
<1>3. /\ kept \in [1..Cardinality(K) -> K]
      /\ \A i, j \in 1..Cardinality(K) : i < j => kept[i] < kept[j]
      /\ \A k \in K : \E i \in 1..Cardinality(K) : kept[i] = k
  BY DEF Enumerations
<1>4. ASSUME NEW j \in 1..Cardinality(K) PROVE entries[kept[j]] \in Entry
  <2>1. kept[j] \in K
    BY <1>3
  <2>2. kept[j] \in 1..Len(entries)
    BY <2>1
  <2> QED BY <2>2
<1> HIDE DEF K
<1>5. entries' \in Seq(Entry) /\ Len(entries') = Cardinality(K)
  BY <1>1, <1>2, <1>3, <1>4
<1>6. \A j \in 1..Len(entries') : entries'[j] = entries[kept[j]]
  BY <1>1, <1>3, <1>5
<1>7. /\ kept \in [1..Len(entries') -> (1..Len(entries)) \ P]
      /\ \A k \in (1..Len(entries)) \ P : \E j \in 1..Len(entries') : kept[j] = k
  BY <1>3, <1>5 DEF K
<1>8. KeepsSlots(P, kept)
  BY <1>3, <1>5, <1>6, <1>7 DEF KeepsSlots
<1> QED BY <1>8

\* Steps that move no callback and return no poll that still has some.
LEMMA NothingMoves ==
  ASSUME OInv, UNCHANGED <<entries, ready, done, registered>>,
         \A p \in Pollers : pollPc'[p] # "run" => ready[p] = <<>>,
         IndicesIncrease', IdsOnce'
  PROVE  OInv'
<1>1. \A e, x : (IsRegistered(e)' <=> IsRegistered(e)) /\ (Before(e, x)' <=> Before(e, x))
  BY DEF IsRegistered, Before
<1>2. EntriesInOrder'
  BY <1>1 DEF OInv, EntriesInOrder, IsRegistered, Before
<1>3. ReadyApart' /\ OldestFirst'
  BY DEF OInv, ReadyApart, OldestFirst, IsRegistered, Apart
<1>4. DoneOnce' /\ NoneLost'
  BY DEF OInv, DoneOnce, NoneLost, IsRegistered, Apart, Holds
<1> QED BY <1>2, <1>3, <1>4 DEF OInv

-----------------------------------------------------------------------------
(* The steps *)

\* At first nothing is registered.
LEMMA OrderInit == Init => OInv
<1> SUFFICES ASSUME Init PROVE OInv
  OBVIOUS
<1>1. /\ entries = <<>> /\ registered = <<>> /\ done = <<>> /\ unregistered = {}
      /\ pollPc = [p \in Pollers |-> "outside"] /\ ready = [p \in Pollers |-> <<>>]
  BY DEF Init, LoopInit
<1>2. \A p \in Pollers : ready[p] = <<>> /\ pollPc[p] = "outside"
  BY <1>1
<1>3. IdsOnce /\ EntriesInOrder /\ DoneOnce /\ NoneLost
  BY <1>1 DEF IdsOnce, EntriesInOrder, DoneOnce, NoneLost, Apart
<1>4. IndicesIncrease /\ ReadyApart /\ OldestFirst
  BY <1>2 DEF IndicesIncrease, ReadyApart, OldestFirst, Apart
<1> QED BY <1>3, <1>4 DEF OInv

\* A submission draws a callback that was not submitted before.
LEMMA SubmitOrder ==
  ASSUME TypeOK, OInv, NEW s \in Semaphores, NEW cb \in Callbacks, Submit(s, cb)
  PROVE  OInv'
<1>1. PICK e : /\ e.cb = cb /\ unregistered' = unregistered \cup {e}
               /\ e = [sem |-> s, value |-> issued[s] + 1, cb |-> cb]
  BY DEF Submit
<1>2. /\ \A i \in 1..Len(registered) : registered[i].cb # cb
      /\ \A x \in unregistered : x.cb # cb
      /\ UNCHANGED <<entries, ready, done, registered, pollPc, readyIndices>>
  BY DEF Submit, loopVars, sharedVars, localVars
<1>3. IdsOnce'
  <2>1. \A i, j \in 1..Len(registered') : registered'[i].cb = registered'[j].cb => i = j
    BY <1>2 DEF OInv, IdsOnce
  <2>2. \A x, y \in unregistered' : x.cb = y.cb => x = y
    BY <1>1, <1>2 DEF OInv, IdsOnce
  <2>3. \A x \in unregistered' : \A i \in 1..Len(registered') : registered'[i].cb # x.cb
    BY <1>1, <1>2 DEF OInv, IdsOnce
  <2> QED BY <2>1, <2>2, <2>3 DEF IdsOnce
<1>4. IndicesIncrease'
  BY <1>2 DEF OInv, IndicesIncrease
<1> QED BY <1>2, <1>3, <1>4, NothingMoves DEF OInv, ReadyApart

\* waitForSemaphore: the wait is the youngest, in the vectors as in the history.
LEMMA RegisterOrder ==
  ASSUME TypeOK, OInv, NEW e \in unregistered, Register(e)
  PROVE  OInv'
<1>1. /\ e \in Entry /\ entries \in Seq(Entry) /\ registered \in Seq(Entry)
      /\ registered' = Append(registered, e) /\ unregistered' = unregistered \ {e}
      /\ entries' = Append(entries, [sem |-> e.sem, value |-> e.value, cb |-> e.cb])
      /\ UNCHANGED <<done, ready, readyIndices>>
  BY DEF TypeOK, Register, WaitForSemaphore, localVars
<1>2. entries' = Append(entries, e)
  BY <1>1 DEF Entry
<1>3. \A p \in Pollers : pollPc'[p] # pollPc[p] => pollPc[p] = "asleep" /\ pollPc'[p] = "notified"
  BY DEF Register, WaitForSemaphore, NotifyIdle, TypeOK
<1>4. /\ Len(registered) \in Nat /\ Len(registered') = Len(registered) + 1
      /\ \A i \in 1..Len(registered) : registered'[i] = registered[i]
      /\ registered'[Len(registered) + 1] = e
      /\ \A i \in 1..Len(registered') : i \in 1..Len(registered) \/ i = Len(registered) + 1
  BY <1>1, AppendProperties
<1>5. /\ Len(entries) \in Nat /\ Len(entries') = Len(entries) + 1
      /\ \A i \in 1..Len(entries) : entries'[i] = entries[i]
      /\ entries'[Len(entries) + 1] = e
      /\ \A i \in 1..Len(entries') : i \in 1..Len(entries) \/ i = Len(entries) + 1
  BY <1>1, <1>2, AppendProperties
<1>6. /\ \A i \in 1..Len(registered) : registered[i].cb # e.cb
      /\ \A x : IsRegistered(x) => IsRegistered(x)' /\ Before(x, e)' /\ x.cb # e.cb
      /\ \A x, y : Before(x, y) => Before(x, y)'
      /\ IsRegistered(e)'
  <2>1. \A i \in 1..Len(registered) : registered[i].cb # e.cb
    BY DEF OInv, IdsOnce
  <2>2. IsRegistered(e)'
    <3>1. Len(registered) + 1 \in 1..Len(registered')
      BY <1>4
    <3> QED BY <1>4, <3>1 DEF IsRegistered
  <2>3. ASSUME NEW x, IsRegistered(x) PROVE IsRegistered(x)' /\ Before(x, e)' /\ x.cb # e.cb
    <3>1. PICK k \in 1..Len(registered) : registered[k] = x
      BY <2>3 DEF IsRegistered
    <3>2. k \in 1..Len(registered') /\ Len(registered) + 1 \in 1..Len(registered') /\ k < Len(registered) + 1
      BY <1>4
    <3> QED BY <1>4, <2>1, <3>1, <3>2 DEF IsRegistered, Before
  <2>4. ASSUME NEW x, NEW y, Before(x, y) PROVE Before(x, y)'
    <3>1. PICK k, l \in 1..Len(registered) : k < l /\ registered[k] = x /\ registered[l] = y
      BY <2>4 DEF Before
    <3>2. k \in 1..Len(registered') /\ l \in 1..Len(registered')
      BY <1>4
    <3> QED BY <1>4, <3>1, <3>2 DEF Before
  <2> QED BY <2>1, <2>2, <2>3, <2>4
<1>7. IdsOnce'
  <2>1. ASSUME NEW i \in 1..Len(registered'), NEW j \in 1..Len(registered'), registered'[i].cb = registered'[j].cb
        PROVE  i = j
    <3>1. CASE i \in 1..Len(registered) /\ j \in 1..Len(registered)
      BY <1>4, <2>1, <3>1 DEF OInv, IdsOnce
    <3>2. CASE ~(i \in 1..Len(registered) /\ j \in 1..Len(registered))
      BY <1>4, <1>6, <2>1, <3>2
    <3> QED BY <3>1, <3>2
  <2>2. \A x, y \in unregistered' : x.cb = y.cb => x = y
    BY <1>1 DEF OInv, IdsOnce
  <2>3. ASSUME NEW x \in unregistered', NEW i \in 1..Len(registered') PROVE registered'[i].cb # x.cb
    <3>1. x \in unregistered /\ x # e /\ x.cb # e.cb
      BY <1>1 DEF OInv, IdsOnce
    <3> QED BY <1>4, <3>1 DEF OInv, IdsOnce
  <2> QED BY <2>1, <2>2, <2>3 DEF IdsOnce
<1>8. EntriesInOrder'
  <2>2. ASSUME NEW i \in 1..Len(entries'), NEW j \in 1..Len(entries'), NEW x, NEW y,
               x = entries'[i], y = entries'[j], i < j
        PROVE  Before(x, y)'
    <3>1. i \in 1..Len(entries) /\ x = entries[i] /\ IsRegistered(x)
      BY <1>5, <2>2 DEF OInv, EntriesInOrder
    <3>2. CASE j \in 1..Len(entries)
      BY <1>5, <1>6, <2>2, <3>1, <3>2 DEF OInv, EntriesInOrder
    <3>3. CASE j = Len(entries) + 1
      BY <1>5, <1>6, <2>2, <3>1, <3>3
    <3> QED BY <1>5, <3>2, <3>3
  <2>3. ASSUME NEW i \in 1..Len(entries'), NEW x, x = entries'[i] PROVE IsRegistered(x)'
    BY <1>5, <1>6, <2>3 DEF OInv, EntriesInOrder
  <2>4. ASSUME NEW i \in 1..Len(entries') PROVE \E k \in 1..Len(registered') : registered'[k] = entries'[i]
    BY <2>3 DEF IsRegistered
  <2>5. ASSUME NEW i \in 1..Len(entries'), NEW j \in 1..Len(entries'), i < j
        PROVE  \E k, l \in 1..Len(registered') : k < l /\ registered'[k] = entries'[i] /\ registered'[l] = entries'[j]
    BY <2>2, <2>5 DEF Before
  <2> QED BY <2>4, <2>5 DEF EntriesInOrder, IsRegistered, Before
<1>9. IndicesIncrease'
  BY <1>1, <1>3 DEF OInv, IndicesIncrease
<1>10. ReadyApart'
  <2>1. ASSUME NEW p \in Pollers PROVE pollPc'[p] # "run" => ready'[p] = <<>>
    BY <1>1, <1>3 DEF OInv, ReadyApart
  <2>2. ASSUME NEW p \in Pollers, NEW i \in 1..Len(ready'[p]), NEW x, x = ready'[p][i]
        PROVE  /\ IsRegistered(x)'
               /\ \A j \in 1..Len(entries') : x.cb # entries'[j].cb
               /\ \A j \in 1..Len(done') : x.cb # done'[j].cb
    <3>1. i \in 1..Len(ready[p]) /\ x = ready[p][i] /\ IsRegistered(x)
      BY <1>1, <2>2 DEF OInv, ReadyApart
    <3>2. \A j \in 1..Len(done) : x.cb # done[j].cb
      BY <3>1 DEF OInv, ReadyApart, Apart
    <3>3. \A j \in 1..Len(entries) : x.cb # entries[j].cb
      BY <3>1 DEF OInv, ReadyApart, Apart
    <3> QED BY <1>1, <1>5, <1>6, <3>1, <3>2, <3>3
  <2>3. ASSUME NEW p \in Pollers, NEW i \in 1..Len(ready'[p])
        PROVE  /\ \E k \in 1..Len(registered') : registered'[k] = ready'[p][i]
               /\ \A j \in 1..Len(entries') : ready'[p][i].cb # entries'[j].cb
               /\ \A j \in 1..Len(done') : ready'[p][i].cb # done'[j].cb
    BY <2>2 DEF IsRegistered
  <2> QED BY <2>1, <2>3 DEF ReadyApart, IsRegistered, Apart
<1>11. OldestFirst'
  <2> SUFFICES ASSUME NEW p \in Pollers, NEW i \in 1..Len(ready'[p]), NEW j \in 1..Len(ready'[p]), i < j,
                      NEW x, NEW y, x = ready'[p][i], y = ready'[p][j]
               PROVE  Before(x, y)'
    BY DEF OldestFirst, Before
  <2>1. Before(x, y)
    BY <1>1 DEF OInv, OldestFirst, Before
  <2> QED BY <1>6, <2>1
<1>12. DoneOnce'
  <2>1. ASSUME NEW i \in 1..Len(done'), NEW x, x = done'[i]
        PROVE  /\ IsRegistered(x)' /\ \A j \in 1..Len(entries') : entries'[j].cb # x.cb
               /\ \A j \in 1..Len(done') : x.cb = done'[j].cb => i = j
    <3>1. i \in 1..Len(done) /\ x = done[i] /\ IsRegistered(x)
      BY <1>1, <2>1 DEF OInv, DoneOnce
    <3>2. \A j \in 1..Len(entries) : entries[j].cb # x.cb
      BY <3>1 DEF OInv, DoneOnce, Apart
    <3>3. \A j \in 1..Len(done) : x.cb = done[j].cb => i = j
      BY <3>1 DEF OInv, DoneOnce
    <3> QED BY <1>1, <1>5, <1>6, <3>1, <3>2, <3>3
  <2> QED BY <2>1 DEF DoneOnce, IsRegistered, Apart
<1>13. NoneLost'
  <2>1. ASSUME NEW i \in 1..Len(registered'), NEW c, c = registered'[i].cb
        PROVE  Holds(entries', c) \/ Holds(done', c) \/ \E p \in Pollers : Holds(ready'[p], c)
    <3>1. CASE i = Len(registered) + 1
      <4>1. Len(entries) + 1 \in 1..Len(entries') /\ entries'[Len(entries) + 1].cb = c
        BY <1>4, <1>5, <2>1, <3>1
      <4> QED BY <4>1 DEF Holds
    <3>2. CASE i \in 1..Len(registered)
      <4>1. c = registered[i].cb
        BY <1>4, <2>1, <3>2
      <4>2. Holds(entries, c) => Holds(entries', c)
        BY <1>5 DEF Holds
      <4> QED BY <1>1, <3>2, <4>1, <4>2 DEF OInv, NoneLost
    <3> QED BY <1>4, <3>1, <3>2
  <2> QED BY <2>1 DEF NoneLost, Holds
<1> QED BY <1>7, <1>8, <1>9, <1>10, <1>11, <1>12, <1>13 DEF OInv

\* Steps of pollEvents that move no callback; a scan collects the position it
\* has reached, which is larger than the ones before.
LEMMA ControlOrder ==
  ASSUME IInv, OInv, NEW p \in Pollers,
         LoopCheck(p) \/ LoopPoll(p) \/ (LoopStep(p) /\ ~PollRemove(p))
  PROVE  OInv'
<1>1. /\ UNCHANGED <<entries, ready, done, registered, unregistered>>
      /\ pollPc \in [Pollers -> PollPcs] /\ readyIndices \in [Pollers -> Seq(Nat \ {0})]
      /\ scan \in [Pollers -> Nat \ {0}]
  BY DEF IInv, TypeOK, LoopCheck, LoopPoll, LoopStep, PollConsumeWake, PollAwake, PollTimeout, PollReturn,
         PollSleep, PollSnapshot, PollSignalled, PollScan, clientVars, loopVars, sharedVars, localVars
<1>2. ASSUME NEW q \in Pollers, pollPc'[q] # "run" PROVE ready[q] = <<>>
  <2>1. pollPc[q] # "run" \/ ready[q] = <<>>
    BY <1>1, <1>2 DEF LoopCheck, LoopPoll, LoopStep, PollConsumeWake, PollAwake, PollTimeout, PollReturn,
       PollSleep, PollSnapshot, PollSignalled, PollScan, PollingMutexFree, HoldsPolling,
       clientVars, loopVars, sharedVars, localVars
  <2> QED BY <2>1 DEF OInv, ReadyApart
<1>3. IdsOnce'
  BY <1>1 DEF OInv, IdsOnce
<1>4. IndicesIncrease'
  <2> SUFFICES ASSUME NEW q \in Pollers, pollPc'[q] = "scan",
                      NEW i \in 1..Len(readyIndices'[q]), NEW j \in 1..Len(readyIndices'[q]), i < j
               PROVE  readyIndices'[q][i] < readyIndices'[q][j]
    BY DEF IndicesIncrease
  <2>1. CASE readyIndices'[q] = readyIndices[q] /\ pollPc[q] = "scan"
    BY <2>1 DEF OInv, IndicesIncrease
  <2>2. CASE readyIndices'[q] = <<>>
    BY <2>2
  <2>3. CASE readyIndices'[q] = Append(readyIndices[q], scan[q]) /\ pollPc[q] = "scan"
    <3>1. /\ readyIndices[q] \in Seq(Nat \ {0}) /\ scan[q] \in Nat \ {0} /\ Len(readyIndices[q]) \in Nat
      BY <1>1
    <3>2. /\ Len(readyIndices'[q]) = Len(readyIndices[q]) + 1
          /\ \A k \in 1..Len(readyIndices[q]) : readyIndices'[q][k] = readyIndices[q][k]
          /\ readyIndices'[q][Len(readyIndices[q]) + 1] = scan[q]
      BY <2>3, <3>1, AppendProperties
    <3>3. i \in 1..Len(readyIndices[q]) /\ (j \in 1..Len(readyIndices[q]) \/ j = Len(readyIndices[q]) + 1)
      BY <3>1, <3>2
    <3>4. readyIndices[q][i] < scan[q]
      BY <2>3, <3>3 DEF IInv, ScanSound
    <3>5. CASE j \in 1..Len(readyIndices[q])
      BY <2>3, <3>2, <3>3, <3>5 DEF OInv, IndicesIncrease
    <3>6. CASE j = Len(readyIndices[q]) + 1
      BY <3>2, <3>3, <3>4, <3>6
    <3> QED BY <3>3, <3>5, <3>6
  <2> QED
    <3>1. CASE PollScan(p) /\ q = p
      BY <1>1, <2>1, <2>3, <3>1 DEF PollScan
    <3>2. CASE PollSignalled(p) /\ q = p
      BY <1>1, <2>2, <3>2 DEF PollSignalled
    <3>3. CASE q # p \/ ~(PollScan(p) \/ PollSignalled(p))
      <4>1. readyIndices'[q] = readyIndices[q] /\ pollPc[q] = "scan"
        BY <1>1, <3>3 DEF LoopCheck, LoopPoll, LoopStep, PollConsumeWake, PollAwake, PollTimeout, PollReturn,
           PollSleep, PollSnapshot, PollSignalled, PollScan, clientVars, loopVars, sharedVars, localVars
      <4> QED BY <2>1, <4>1
    <3> QED BY <3>1, <3>2, <3>3
<1> QED BY <1>1, <1>2, <1>3, <1>4, NothingMoves

\* The removal by index: the ready waits leave the vectors in their order, and
\* the others stay in theirs.
LEMMA RemoveOrder ==
  ASSUME IInv, OInv, NEW p \in Pollers, LoopStep(p), PollRemove(p)
  PROVE  OInv'
<1>15. PICK idx \in Seq(Nat \ {0}) : idx = readyIndices[p]
  BY DEF IInv, TypeOK
<1>16. PICK P : P = {idx[i] : i \in 1..Len(idx)}
  OBVIOUS
<1>1. /\ pollPc[p] = "scan" /\ ready' = [ready EXCEPT ![p] = [i \in 1..Len(idx) |-> entries[idx[i]]]]
      /\ EraseEntries(P) /\ pollPc' = [pollPc EXCEPT ![p] = "run"]
      /\ UNCHANGED <<readyIndices, done, registered, unregistered>>
      /\ entries \in Seq(Entry) /\ ready \in [Pollers -> Seq(Entry)] /\ pollPc \in [Pollers -> PollPcs]
      /\ idx \in Seq(Nat \ {0}) /\ Len(idx) \in Nat /\ Len(entries) \in Nat
  BY <1>15, <1>16 DEF LoopStep, PollRemove, clientVars, IInv, TypeOK
<1>17. entries \in Seq(Entry) /\ EraseEntries(P)
  BY <1>1
<1>18. PICK kept : KeepsSlots(P, kept)
  BY <1>17, EraseKeeps
<1>2. /\ kept \in [1..Len(entries') -> (1..Len(entries)) \ P]
      /\ \A j \in 1..Len(entries') : entries'[j] = entries[kept[j]]
      /\ \A i, j \in 1..Len(entries') : i < j => kept[i] < kept[j]
      /\ \A k \in (1..Len(entries)) \ P : \E j \in 1..Len(entries') : kept[j] = k
  BY <1>18 DEF KeepsSlots
<1>3. ASSUME NEW i \in 1..Len(idx) PROVE idx[i] \in 1..Len(entries) /\ idx[i] \in P
  <2>1. /\ snapshot[p] \in Seq(Entry) /\ scan[p] \in Nat /\ scan[p] <= Len(snapshot[p]) + 1
        /\ idx[i] < scan[p] /\ Len(snapshot[p]) <= Len(entries)
    BY <1>1, <1>15 DEF IInv, TypeOK, ScanSound, SnapshotIsFront
  <2>2. idx[i] \in Nat \ {0} /\ Len(snapshot[p]) \in Nat
    BY <1>1, <2>1
  <2>3. Len(entries) \in Nat
    BY <1>1
  <2>4. idx[i] \in 1..Len(entries)
    BY <2>1, <2>2, <2>3
  <2> QED BY <1>16, <2>4
<1>4. /\ Len(ready'[p]) = Len(idx) /\ \A i \in 1..Len(idx) : ready'[p][i] = entries[idx[i]]
      /\ \A q \in Pollers : q # p => ready'[q] = ready[q] /\ ready[q] = <<>> /\ pollPc'[q] = pollPc[q] /\ pollPc[q] = "outside"
      /\ ready[p] = <<>> /\ pollPc'[p] = "run"
  <2>1. ready'[p] = [i \in 1..Len(idx) |-> entries[idx[i]]]
    BY <1>1
  <2>2. \A q \in Pollers : q # p => pollPc[q] = "outside"
    BY <1>1 DEF IInv, OnePoller, HoldsPolling
  <2>3. \A q \in Pollers : pollPc[q] # "run" => ready[q] = <<>>
    BY DEF OInv, ReadyApart
  <2>4. ready[p] = <<>> /\ \A q \in Pollers : q # p => ready[q] = <<>>
    BY <1>1, <2>2, <2>3
  <2>5. Len(ready'[p]) = Len(idx) /\ \A i \in 1..Len(idx) : ready'[p][i] = entries[idx[i]]
    BY <1>1, <2>1
  <2> QED BY <1>1, <2>2, <2>4, <2>5
<1>5. \A j \in 1..Len(entries') : kept[j] \in 1..Len(entries) /\ kept[j] \notin P
  BY <1>2
<1>6. \A i, j \in 1..Len(entries) : entries[i].cb = entries[j].cb => i = j
  BY InOrderOnce DEF IInv
<1>7. \A i \in 1..Len(entries) : IsRegistered(entries[i])
  BY DEF OInv, EntriesInOrder
<1>8. EntriesInOrder'
  <2>1. ASSUME NEW i \in 1..Len(entries') PROVE \E k \in 1..Len(registered') : registered'[k] = entries'[i]
    <3>1. entries'[i] = entries[kept[i]] /\ IsRegistered(entries[kept[i]])
      BY <1>2, <1>5, <1>7
    <3> QED BY <1>1, <3>1 DEF IsRegistered
  <2>2. ASSUME NEW i \in 1..Len(entries'), NEW j \in 1..Len(entries'), i < j
        PROVE  \E k, l \in 1..Len(registered') : k < l /\ registered'[k] = entries'[i] /\ registered'[l] = entries'[j]
    <3>1. kept[i] < kept[j] /\ entries'[i] = entries[kept[i]] /\ entries'[j] = entries[kept[j]]
      BY <1>2, <2>2
    <3>2. Before(entries[kept[i]], entries[kept[j]])
      BY <1>5, <3>1 DEF OInv, EntriesInOrder
    <3> QED BY <1>1, <3>1, <3>2 DEF Before
  <2> QED BY <2>1, <2>2 DEF EntriesInOrder, IsRegistered, Before
<1>9. IndicesIncrease'
  BY <1>4 DEF IndicesIncrease
<1>10. ReadyApart'
  <2>1. ASSUME NEW q \in Pollers, NEW i \in 1..Len(ready'[q])
        PROVE  /\ \E k \in 1..Len(registered') : registered'[k] = ready'[q][i]
               /\ \A j \in 1..Len(entries') : ready'[q][i].cb # entries'[j].cb
               /\ \A j \in 1..Len(done') : ready'[q][i].cb # done'[j].cb
    <3>1. q = p
      BY <1>4
    <3>2. idx[i] \in 1..Len(entries) /\ idx[i] \in P /\ ready'[q][i] = entries[idx[i]]
      BY <1>3, <1>4, <3>1
    <3>3. \E k \in 1..Len(registered') : registered'[k] = ready'[q][i]
      BY <1>1, <1>7, <3>2 DEF IsRegistered
    <3>4. ASSUME NEW j \in 1..Len(entries') PROVE ready'[q][i].cb # entries'[j].cb
      <4>1. entries'[j] = entries[kept[j]] /\ kept[j] \in 1..Len(entries) /\ kept[j] # idx[i]
        BY <1>2, <1>5, <3>2
      <4> QED BY <1>6, <3>2, <4>1
    <3>5. ASSUME NEW j \in 1..Len(done') PROVE ready'[q][i].cb # done'[j].cb
      BY <1>1, <3>2 DEF OInv, DoneOnce, Apart
    <3> QED BY <3>3, <3>4, <3>5
  <2>2. ASSUME NEW q \in Pollers PROVE pollPc'[q] # "run" => ready'[q] = <<>>
    BY <1>4
  <2> QED BY <2>1, <2>2 DEF ReadyApart, IsRegistered, Apart
<1>11. OldestFirst'
  <2> SUFFICES ASSUME NEW q \in Pollers, NEW i \in 1..Len(ready'[q]), NEW j \in 1..Len(ready'[q]), i < j
               PROVE  \E k, l \in 1..Len(registered') :
                        k < l /\ registered'[k] = ready'[q][i] /\ registered'[l] = ready'[q][j]
    BY DEF OldestFirst
  <2>1. q = p /\ i \in 1..Len(idx) /\ j \in 1..Len(idx)
    BY <1>4
  <2>2. idx[i] < idx[j]
    BY <1>1, <1>15, <2>1 DEF OInv, IndicesIncrease
  <2>3. /\ idx[i] \in 1..Len(entries) /\ idx[j] \in 1..Len(entries)
        /\ ready'[q][i] = entries[idx[i]] /\ ready'[q][j] = entries[idx[j]]
    BY <1>3, <1>4, <2>1
  <2>4. Before(entries[idx[i]], entries[idx[j]])
    BY <2>2, <2>3 DEF OInv, EntriesInOrder
  <2> QED BY <1>1, <2>3, <2>4 DEF Before
<1>12. DoneOnce'
  <2>1. ASSUME NEW i \in 1..Len(entries'), NEW j \in 1..Len(done') PROVE entries'[i].cb # done'[j].cb
    <3>1. j \in 1..Len(done) /\ done'[j] = done[j] /\ entries'[i] = entries[kept[i]] /\ kept[i] \in 1..Len(entries)
      BY <1>1, <1>2, <1>5
    <3> QED BY <3>1 DEF OInv, DoneOnce, Apart
  <2>2. \A i \in 1..Len(done') : /\ \E k \in 1..Len(registered') : registered'[k] = done'[i]
                                 /\ \A j \in 1..Len(done') : done'[i].cb = done'[j].cb => i = j
    BY <1>1 DEF OInv, DoneOnce, IsRegistered
  <2> QED BY <2>1, <2>2 DEF DoneOnce, Apart, IsRegistered
<1>13. NoneLost'
  <2>1. ASSUME NEW i \in 1..Len(registered'), NEW c, c = registered'[i].cb
        PROVE  Holds(entries', c) \/ Holds(done', c) \/ \E q \in Pollers : Holds(ready'[q], c)
    <3>1. i \in 1..Len(registered) /\ c = registered[i].cb
      BY <1>1, <2>1
    <3>2. \A q \in Pollers : ~Holds(ready[q], c)
      BY <1>4 DEF Holds
    <3>3. Holds(entries, c) \/ Holds(done, c)
      BY <3>1, <3>2 DEF OInv, NoneLost
    <3>4. CASE Holds(entries, c)
      <4>1. PICK k \in 1..Len(entries) : entries[k].cb = c
        BY <3>4 DEF Holds
      <4>2. CASE k \in P
        <5>1. PICK n \in 1..Len(idx) : idx[n] = k
          BY <1>16, <4>2
        <5>2. n \in 1..Len(ready'[p]) /\ ready'[p][n].cb = c
          BY <1>4, <4>1, <5>1
        <5> QED BY <5>2 DEF Holds
      <4>3. CASE k \notin P
        <5>1. PICK n \in 1..Len(entries') : kept[n] = k
          BY <1>2, <4>3
        <5>2. entries'[n].cb = c
          BY <1>2, <4>1, <5>1
        <5> QED BY <5>2 DEF Holds
      <4> QED BY <4>2, <4>3
    <3>5. CASE Holds(done, c)
      BY <1>1, <3>5 DEF Holds
    <3> QED BY <3>3, <3>4, <3>5
  <2> QED BY <2>1 DEF NoneLost, Holds
<1>14. IdsOnce'
  BY <1>1 DEF OInv, IdsOnce
<1> QED BY <1>8, <1>9, <1>10, <1>11, <1>12, <1>13, <1>14 DEF OInv

\* A callback runs: the oldest a poll moved out goes from its vector to the past.
LEMMA CallbackOrder ==
  ASSUME IInv, OInv, NEW p \in Pollers, LoopCallback(p)
  PROVE  OInv'
<1>1. /\ pollPc[p] = "run" /\ ready[p] # <<>> /\ ready[p] \in Seq(Entry) /\ done \in Seq(Entry)
      /\ ready \in [Pollers -> Seq(Entry)]
      /\ ready' = [ready EXCEPT ![p] = Tail(ready[p])] /\ done' = Append(done, Head(ready[p]))
      /\ UNCHANGED <<entries, pollPc, readyIndices, registered, unregistered>>
  BY DEF IInv, TypeOK, LoopCallback, PollCallback, sharedVars
<1>2. PICK h \in Entry : h = Head(ready[p]) /\ h = ready[p][1]
  BY <1>1, HeadTailProperties
<1>3. /\ Len(ready[p]) \in Nat /\ 1 \in 1..Len(ready[p]) /\ Len(ready'[p]) = Len(ready[p]) - 1
      /\ \A i \in 1..Len(ready'[p]) : i + 1 \in 1..Len(ready[p]) /\ i + 1 # 1 /\ ready'[p][i] = ready[p][i + 1]
      /\ \A q \in Pollers : q # p => ready'[q] = ready[q]
  <2>1. /\ Len(ready[p]) \in Nat /\ Len(ready[p]) > 0 /\ Len(Tail(ready[p])) = Len(ready[p]) - 1
        /\ \A i \in 1..Len(Tail(ready[p])) : Tail(ready[p])[i] = ready[p][i + 1]
    BY <1>1, HeadTailProperties
  <2>2. ready'[p] = Tail(ready[p]) /\ \A q \in Pollers : q # p => ready'[q] = ready[q]
    BY <1>1
  <2> QED BY <2>1, <2>2
<1>4. /\ Len(done) \in Nat /\ Len(done') = Len(done) + 1 /\ \A i \in 1..Len(done) : done'[i] = done[i]
      /\ done'[Len(done) + 1] = h
      /\ \A i \in 1..Len(done') : i \in 1..Len(done) \/ i = Len(done) + 1
  BY <1>1, <1>2, AppendProperties
<1>5. /\ IsRegistered(h) /\ (\A i \in 1..Len(entries) : entries[i].cb # h.cb)
      /\ \A i \in 1..Len(done) : done[i].cb # h.cb
  BY <1>2, <1>3 DEF OInv, ReadyApart, Apart
<1>6. \A q \in Pollers : q # p => ready[q] = <<>>
  <2>1. \A q \in Pollers : q # p => pollPc[q] # "run"
    BY <1>1 DEF IInv, OnePoller, HoldsPolling
  <2> QED BY <2>1 DEF OInv, ReadyApart
<1>7. \A i \in 1..Len(ready'[p]) : ready'[p][i].cb # h.cb
  <2>1. \A i, j \in 1..Len(ready[p]) : ready[p][i].cb = ready[p][j].cb => i = j
    BY InOrderOnce DEF IInv
  <2>2. ASSUME NEW i \in 1..Len(ready'[p]) PROVE ready'[p][i].cb # h.cb
    <3>1. i + 1 \in 1..Len(ready[p]) /\ i + 1 # 1 /\ ready'[p][i] = ready[p][i + 1]
      BY <1>3
    <3> QED BY <1>2, <2>1, <3>1
  <2> QED BY <2>2
<1>8. EntriesInOrder' /\ IndicesIncrease' /\ IdsOnce'
  <2>1. EntriesInOrder'
    BY <1>1 DEF OInv, EntriesInOrder, IsRegistered, Before
  <2>2. IndicesIncrease'
    BY <1>1 DEF OInv, IndicesIncrease
  <2>3. IdsOnce'
    BY <1>1 DEF OInv, IdsOnce
  <2> QED BY <2>1, <2>2, <2>3
<1>9. ReadyApart'
  <2>1. ASSUME NEW q \in Pollers PROVE pollPc'[q] # "run" => ready'[q] = <<>>
    BY <1>1, <1>3 DEF OInv, ReadyApart
  <2>2. ASSUME NEW q \in Pollers, NEW i \in 1..Len(ready'[q])
        PROVE  /\ \E k \in 1..Len(registered') : registered'[k] = ready'[q][i]
               /\ \A j \in 1..Len(entries') : ready'[q][i].cb # entries'[j].cb
               /\ \A j \in 1..Len(done') : ready'[q][i].cb # done'[j].cb
    <3>1. q = p
      BY <1>3, <1>6
    <3>2. PICK n \in 1..Len(ready[p]) : n = i + 1 /\ ready'[q][i] = ready[p][n]
      BY <1>3, <3>1
    <3>3. IsRegistered(ready[p][n]) /\ Apart(ready[p], entries) /\ Apart(ready[p], done)
      BY DEF OInv, ReadyApart
    <3>4. ready[p][n].cb # h.cb
      BY <1>7, <3>1, <3>2
    <3>5. ASSUME NEW j \in 1..Len(done') PROVE ready[p][n].cb # done'[j].cb
      BY <1>4, <3>3, <3>4 DEF Apart
    <3> QED BY <1>1, <3>2, <3>3, <3>5 DEF Apart, IsRegistered
  <2> QED BY <2>1, <2>2 DEF ReadyApart, IsRegistered, Apart
<1>10. OldestFirst'
  <2> SUFFICES ASSUME NEW q \in Pollers, NEW i \in 1..Len(ready'[q]), NEW j \in 1..Len(ready'[q]), i < j
               PROVE  \E k, l \in 1..Len(registered') :
                        k < l /\ registered'[k] = ready'[q][i] /\ registered'[l] = ready'[q][j]
    BY DEF OldestFirst
  <2>1. q = p
    BY <1>3, <1>6
  <2>2. /\ i + 1 \in 1..Len(ready[p]) /\ j + 1 \in 1..Len(ready[p]) /\ i + 1 < j + 1
        /\ ready'[q][i] = ready[p][i + 1] /\ ready'[q][j] = ready[p][j + 1]
    BY <1>3, <2>1
  <2> QED BY <1>1, <2>2 DEF OInv, OldestFirst
<1>11. DoneOnce'
  <2>1. ASSUME NEW i \in 1..Len(entries'), NEW j \in 1..Len(done') PROVE entries'[i].cb # done'[j].cb
    BY <1>1, <1>4, <1>5 DEF OInv, DoneOnce, Apart
  <2>2. ASSUME NEW i \in 1..Len(done') PROVE \E k \in 1..Len(registered') : registered'[k] = done'[i]
    BY <1>1, <1>4, <1>5 DEF OInv, DoneOnce, IsRegistered
  <2>3. ASSUME NEW i \in 1..Len(done'), NEW j \in 1..Len(done'), done'[i].cb = done'[j].cb PROVE i = j
    <3>1. CASE i \in 1..Len(done) /\ j \in 1..Len(done)
      BY <1>4, <2>3, <3>1 DEF OInv, DoneOnce
    <3>2. CASE ~(i \in 1..Len(done) /\ j \in 1..Len(done))
      BY <1>4, <1>5, <2>3, <3>2
    <3> QED BY <3>1, <3>2
  <2> QED BY <2>1, <2>2, <2>3 DEF DoneOnce, Apart, IsRegistered
<1>12. NoneLost'
  <2>1. ASSUME NEW i \in 1..Len(registered'), NEW c, c = registered'[i].cb
        PROVE  Holds(entries', c) \/ Holds(done', c) \/ \E q \in Pollers : Holds(ready'[q], c)
    <3>1. \/ Holds(entries, c) \/ Holds(done, c) \/ \E q \in Pollers : Holds(ready[q], c)
      BY <1>1, <2>1 DEF OInv, NoneLost
    <3>2. CASE Holds(entries, c)
      BY <1>1, <3>2 DEF Holds
    <3>3. CASE Holds(done, c)
      BY <1>4, <3>3 DEF Holds
    <3>4. CASE \E q \in Pollers : Holds(ready[q], c)
      <4>1. PICK n \in 1..Len(ready[p]) : ready[p][n].cb = c
        BY <1>6, <3>4 DEF Holds
      <4>2. CASE n = 1
        <5>1. Len(done) + 1 \in 1..Len(done') /\ done'[Len(done) + 1].cb = c
          BY <1>2, <1>4, <4>1, <4>2
        <5> QED BY <5>1 DEF Holds
      <4>3. CASE n # 1
        <5>1. n - 1 \in 1..Len(ready'[p]) /\ (n - 1) + 1 = n
          BY <1>3, <4>3
        <5>2. ready'[p][n - 1].cb = c
          BY <1>3, <4>1, <5>1
        <5> QED BY <5>1, <5>2 DEF Holds
      <4> QED BY <4>2, <4>3
    <3> QED BY <3>1, <3>2, <3>3, <3>4
  <2> QED BY <2>1 DEF NoneLost, Holds
<1> QED BY <1>8, <1>9, <1>10, <1>11, <1>12 DEF OInv

-----------------------------------------------------------------------------
(* The theorem *)

\* Every step of the system preserves OInv.
LEMMA OrderInductive == IInv /\ OInv /\ [Next]_vars => OInv'
<1> SUFFICES ASSUME IInv, OInv, [Next]_vars PROVE OInv'
  OBVIOUS
<1>1. ASSUME NEW s \in Semaphores, NEW cb \in Callbacks, Submit(s, cb) PROVE OInv'
  BY <1>1, SubmitOrder DEF IInv
<1>2. ASSUME NEW e \in unregistered, Register(e) PROVE OInv'
  BY <1>2, RegisterOrder DEF IInv
<1>3. CASE GpuExecute \/ Wake \/ StopPollers \/ StopWake \/ UNCHANGED vars
  <2>1. /\ UNCHANGED <<entries, ready, done, registered, unregistered, readyIndices>>
        /\ \A p \in Pollers : pollPc'[p] # pollPc[p] => pollPc[p] = "asleep" /\ pollPc'[p] = "notified"
    BY <1>3 DEF GpuExecute, Wake, StopPollers, StopWake, WakeupEventLoop, NotifyIdle, vars, clientVars,
                loopVars, sharedVars, localVars, IInv, TypeOK
  <2>2. IdsOnce'
    BY <2>1 DEF OInv, IdsOnce
  <2>3. IndicesIncrease'
    BY <2>1 DEF OInv, IndicesIncrease
  <2>4. \A p \in Pollers : pollPc'[p] # "run" => ready[p] = <<>>
    BY <2>1 DEF OInv, ReadyApart
  <2> QED BY <2>1, <2>2, <2>3, <2>4, NothingMoves
<1>4. ASSUME NEW p \in Pollers, LoopCheck(p) \/ LoopPoll(p) \/ LoopStep(p) PROVE OInv'
  BY <1>4, ControlOrder, RemoveOrder
<1>5. ASSUME NEW p \in Pollers, LoopCallback(p) PROVE OInv'
  BY <1>5, CallbackOrder
<1> QED BY <1>1, <1>2, <1>3, <1>4, <1>5 DEF Next

\* A registered callback is at exactly one place.
LEMMA OnceFromInv == ASSUME IInv, OInv PROVE ExactlyOnce
<1> SUFFICES ASSUME NEW i \in 1..Len(registered)
             PROVE  LET cb == registered[i].cb
                        places == ({"entries"} \X Positions(entries, cb))
                                    \cup ({"done"} \X Positions(done, cb))
                                    \cup UNION {{p} \X Positions(ready[p], cb) : p \in Pollers}
                    IN  \E x \in places : places = {x}
  BY DEF ExactlyOnce
<1> DEFINE cb == registered[i].cb
           places == ({"entries"} \X Positions(entries, cb))
                       \cup ({"done"} \X Positions(done, cb))
                       \cup UNION {{p} \X Positions(ready[p], cb) : p \in Pollers}
<1>1. \A x : x \in places <=>
         \/ \E k \in 1..Len(entries) : entries[k].cb = cb /\ x = <<"entries", k>>
         \/ \E k \in 1..Len(done) : done[k].cb = cb /\ x = <<"done", k>>
         \/ \E p \in Pollers : \E k \in 1..Len(ready[p]) : ready[p][k].cb = cb /\ x = <<p, k>>
  BY DEF Positions
<1> HIDE DEF places, cb
<1>2. \E x : x \in places
  <2>1. \/ Holds(entries, cb) \/ Holds(done, cb) \/ \E p \in Pollers : Holds(ready[p], cb)
    BY DEF OInv, NoneLost, cb
  <2> QED BY <1>1, <2>1 DEF Holds
<1>3. /\ \A k, l \in 1..Len(entries) : entries[k].cb = cb /\ entries[l].cb = cb => k = l
      /\ \A k, l \in 1..Len(done) : done[k].cb = cb /\ done[l].cb = cb => k = l
      /\ \A k \in 1..Len(entries) : \A l \in 1..Len(done) : ~(entries[k].cb = cb /\ done[l].cb = cb)
  <2>1. \A k, l \in 1..Len(entries) : entries[k].cb = entries[l].cb => k = l
    BY InOrderOnce DEF IInv
  <2> QED BY <2>1 DEF OInv, DoneOnce, Apart
<1>4. \A p \in Pollers : \A k \in 1..Len(ready[p]) : ready[p][k].cb = cb =>
        /\ \A l \in 1..Len(entries) : entries[l].cb # cb
        /\ \A l \in 1..Len(done) : done[l].cb # cb
        /\ \A l \in 1..Len(ready[p]) : ready[p][l].cb = cb => k = l
  <2>1. \A p \in Pollers : \A k, l \in 1..Len(ready[p]) : ready[p][k].cb = ready[p][l].cb => k = l
    BY InOrderOnce DEF IInv
  <2> QED BY <2>1 DEF OInv, ReadyApart, Apart
<1>5. \A p, q \in Pollers : \A k \in 1..Len(ready[p]) : \A l \in 1..Len(ready[q]) : p = q
  <2>1. ASSUME NEW p \in Pollers, NEW k \in 1..Len(ready[p]) PROVE pollPc[p] = "run"
    <3>1. ready[p] # <<>>
      OBVIOUS
    <3> QED BY <3>1 DEF OInv, ReadyApart
  <2> QED BY <2>1 DEF IInv, OnePoller, HoldsPolling
<1>6. ASSUME NEW x \in places, NEW y \in places PROVE x = y
  <2> DEFINE Slot(z) == \E k \in 1..Len(entries) : entries[k].cb = cb /\ z = <<"entries", k>>
             Run(z) == \E k \in 1..Len(done) : done[k].cb = cb /\ z = <<"done", k>>
             Out(z) == \E p \in Pollers : \E k \in 1..Len(ready[p]) : ready[p][k].cb = cb /\ z = <<p, k>>
  <2>1. (Slot(x) \/ Run(x) \/ Out(x)) /\ (Slot(y) \/ Run(y) \/ Out(y))
    BY <1>1
  <2>2. CASE Out(x) /\ Out(y)
    <3>5. PICK p \in Pollers : \E k \in 1..Len(ready[p]) : ready[p][k].cb = cb /\ x = <<p, k>>
      BY <2>2
    <3>1. PICK k \in 1..Len(ready[p]) : ready[p][k].cb = cb /\ x = <<p, k>>
      BY <3>5
    <3>6. PICK q \in Pollers : \E l \in 1..Len(ready[q]) : ready[q][l].cb = cb /\ y = <<q, l>>
      BY <2>2
    <3>2. PICK l \in 1..Len(ready[q]) : ready[q][l].cb = cb /\ y = <<q, l>>
      BY <3>6
    <3>3. p = q
      BY <1>5
    <3>4. k = l
      BY <1>4, <3>1, <3>2, <3>3
    <3> QED BY <3>1, <3>2, <3>3, <3>4
  <2>3. CASE Slot(x) /\ Slot(y)
    BY <1>3, <2>3
  <2>4. CASE Run(x) /\ Run(y)
    BY <1>3, <2>4
  <2>5. ~(Slot(x) /\ Run(y)) /\ ~(Slot(y) /\ Run(x))
    BY <1>3
  <2>6. ~(Out(x) /\ (Slot(y) \/ Run(y))) /\ ~(Out(y) /\ (Slot(x) \/ Run(x)))
    BY <1>4
  <2> HIDE DEF Slot, Run, Out
  <2> QED BY <2>1, <2>2, <2>3, <2>4, <2>5, <2>6
<1>7. \E x \in places : places = {x}
  BY <1>2, <1>6
<1> QED BY <1>7 DEF places, cb

\* pollEvents, for any number of pollers, semaphores and callbacks and however
\* registrations and the GPU interleave with it: a registered callback is still
\* in the vectors, moved out by one poll, or done, once; and a poll runs its
\* callbacks in the order of their registration.
THEOREM CallbacksOnceInOrder == Spec => []RunsOnceInOrder
<1>1. IInv /\ OInv => RunsOnceInOrder
  BY OnceFromInv DEF RunsOnceInOrder, OInv
<1> QED BY <1>1, OrderInit, OrderInductive, Invariance, PTL DEF Spec
=============================================================================
