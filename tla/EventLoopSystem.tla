-------------------------- MODULE EventLoopSystem --------------------------
(***************************************************************************)
(* The event loop with the world around it: threads that submit work and   *)
(* register its completion, a GPU queue that executes submissions in       *)
(* order, polling threads that call pollEvents until they are told to      *)
(* stop, and a shutdown that sets the stop flag and wakes the loop.        *)
(***************************************************************************)
EXTENDS EventLoop
LOCAL INSTANCE TLC

CONSTANT MaxWakes   \* bound on wakeupEventLoop calls outside the shutdown

ASSUME MaxWakesAssumption == MaxWakes \in Nat

VARIABLES gpuQueue,     \* submitted entries the GPU has not executed, oldest first
          unregistered, \* entries submitted but not yet passed to waitForSemaphore
          issued,       \* the highest value a submission will signal, per semaphore
          registered,   \* history: entries in registration order
          done,         \* history: entries whose callback ran, in that order
          loopPc,       \* each poller's loop: "check" the flag, "poll", "exit"
          stopping,     \* shutdown: "no", "set" (flag stored), "woken"
          wakes         \* wakeupEventLoop calls so far

clientVars == <<gpuQueue, unregistered, issued, registered, done, loopPc, stopping, wakes>>
vars == <<loopVars, clientVars>>

\* A commit: the GPU will signal the semaphore's next value.
Submit(s, cb) ==
  LET e == [sem |-> s, value |-> issued[s] + 1, cb |-> cb]
  IN  /\ \A i \in 1..Len(registered) : registered[i].cb # cb
      /\ \A x \in unregistered : x.cb # cb
      /\ gpuQueue' = Append(gpuQueue, e)
      /\ unregistered' = unregistered \cup {e}
      /\ issued' = [issued EXCEPT ![s] = @ + 1]
      /\ UNCHANGED <<loopVars, registered, done, loopPc, stopping, wakes>>

Register(e) ==
  /\ WaitForSemaphore(e.sem, e.value, e.cb)
  /\ unregistered' = unregistered \ {e}
  /\ registered' = Append(registered, e)
  /\ UNCHANGED <<counter, gpuQueue, issued, done, loopPc, stopping, wakes>>

\* The GPU executes the oldest submission and signals its semaphore.
GpuExecute ==
  /\ gpuQueue # <<>>
  /\ counter' = [counter EXCEPT ![Head(gpuQueue).sem] = Head(gpuQueue).value]
  /\ gpuQueue' = Tail(gpuQueue)
  /\ UNCHANGED <<sharedVars, pollPc, localVars, unregistered, issued, registered,
                 done, loopPc, stopping, wakes>>

Wake ==
  /\ wakes < MaxWakes
  /\ WakeupEventLoop
  /\ wakes' = wakes + 1
  /\ UNCHANGED <<gpuQueue, unregistered, issued, registered, done, loopPc, stopping>>

StopPollers ==
  /\ stopping = "no"
  /\ stopping' = "set"
  /\ UNCHANGED <<loopVars, gpuQueue, unregistered, issued, registered, done, loopPc, wakes>>

StopWake ==
  /\ stopping = "set"
  /\ WakeupEventLoop
  /\ stopping' = "woken"
  /\ UNCHANGED <<gpuQueue, unregistered, issued, registered, done, loopPc, wakes>>

\* while (!stopping) pollEvents(...): test the flag.
LoopCheck(p) ==
  /\ loopPc[p] = "check"
  /\ loopPc' = [loopPc EXCEPT ![p] = IF stopping = "no" THEN "poll" ELSE "exit"]
  /\ UNCHANGED <<loopVars, gpuQueue, unregistered, issued, registered, done, stopping, wakes>>

\* The pollEvents actions of a poller; the ones that return go back to the test.
LoopPoll(p) ==
  /\ loopPc[p] = "poll"
  /\ \/ PollConsumeWake(p) \/ PollAwake(p) \/ PollTimeout(p) \/ PollReturn(p)
  /\ loopPc' = [loopPc EXCEPT ![p] = "check"]
  /\ UNCHANGED <<gpuQueue, unregistered, issued, registered, done, stopping, wakes>>

LoopStep(p) ==
  /\ loopPc[p] = "poll"
  /\ \/ PollSleep(p) \/ PollSnapshot(p) \/ PollSignalled(p) \/ PollScan(p) \/ PollRemove(p)
  /\ UNCHANGED clientVars

LoopCallback(p) ==
  /\ PollCallback(p)
  /\ done' = Append(done, Head(ready[p]))
  /\ UNCHANGED <<gpuQueue, unregistered, issued, registered, loopPc, stopping, wakes>>

Init ==
  /\ LoopInit
  /\ gpuQueue = <<>> /\ unregistered = {}
  /\ issued = [s \in Semaphores |-> 0]
  /\ registered = <<>> /\ done = <<>>
  /\ loopPc = [p \in Pollers |-> "check"]
  /\ stopping = "no" /\ wakes = 0

Next ==
  \/ \E s \in Semaphores, cb \in Callbacks : Submit(s, cb)
  \/ \E e \in unregistered : Register(e)
  \/ GpuExecute
  \/ Wake
  \/ StopPollers
  \/ StopWake
  \/ \E p \in Pollers : LoopCheck(p) \/ LoopPoll(p) \/ LoopStep(p) \/ LoopCallback(p)

Spec == Init /\ [][Next]_vars

\* What a poller does when it is scheduled.  A sleeping poll is not assumed to
\* time out: only a notification ends its wait.
PollerStep(p) ==
  \/ LoopCheck(p)
  \/ pollPc[p] # "asleep" /\ LoopPoll(p)
  \/ LoopStep(p)
  \/ LoopCallback(p)

-----------------------------------------------------------------------------
\* Types.
TypeOK ==
  /\ entries \in Seq(Entry)
  /\ wakeValue \in Nat /\ wakeCount \in Nat
  /\ wakePending \in BOOLEAN /\ waiting \in BOOLEAN
  /\ pollPc \in [Pollers -> PollPcs]
  /\ snapshot \in [Pollers -> Seq(Entry)]
  /\ snapWake \in [Pollers -> Nat]
  /\ scan \in [Pollers -> Nat \ {0}]
  /\ readyIndices \in [Pollers -> Seq(Nat \ {0})]
  /\ ready \in [Pollers -> Seq(Entry)]
  /\ counter \in [Semaphores -> Nat]
  /\ gpuQueue \in Seq(Entry)
  /\ unregistered \subseteq Entry
  /\ issued \in [Semaphores -> Nat]
  /\ registered \in Seq(Entry) /\ done \in Seq(Entry)
  /\ loopPc \in [Pollers -> {"check", "poll", "exit"}]
  /\ stopping \in {"no", "set", "woken"}
  /\ wakes \in 0..MaxWakes

\* "we assume that the front portions of the vectors (the portions we copied
\* earlier) remain the same" (pollEvents): from the copy to the removal by
\* index, what the poller copied is still the front of the shared vectors.
SnapshotIsFront ==
  \A p \in Pollers : pollPc[p] \in {"gpuWait", "scan"} =>
    /\ Len(snapshot[p]) <= Len(entries)
    /\ \A i \in 1..Len(snapshot[p]) : entries[i] = snapshot[p][i]

\* A callback runs only after the GPU reached the value it was registered for,
\* whatever was registered or removed between the copy and the removal.
RunsAfterSignal == \A i \in 1..Len(done) : Signalled(done[i])

Positions(s, cb) == {i \in 1..Len(s) : s[i].cb = cb}

\* pollEvents moves callbacks between vectors by index: none is lost or run
\* twice.  A registered callback is at one place, once: still in the vectors,
\* moved out by one poller, or done.
ExactlyOnce ==
  \A i \in 1..Len(registered) :
    LET cb == registered[i].cb
        places == ({"entries"} \X Positions(entries, cb))
                    \cup ({"done"} \X Positions(done, cb))
                    \cup UNION {{p} \X Positions(ready[p], cb) : p \in Pollers}
    IN  \E x \in places : places = {x}

\* "Callbacks must still run oldest-first" (pollEvents): the callbacks one poll
\* moved out are in registration order.
OldestFirst ==
  \A p \in Pollers : \A i, j \in 1..Len(ready[p]) :
    i < j => \E k, l \in 1..Len(registered) :
               k < l /\ registered[k] = ready[p][i] /\ registered[l] = ready[p][j]

\* Neither lost, repeated nor reordered: see the two parts.
RunsOnceInOrder == ExactlyOnce /\ OldestFirst

\* No poller sleeps on the condition variable over work: while one sleeps
\* un-notified nothing is registered and no wake is pending, so the exchange of
\* _eventLoopWaiting in waitForSemaphore and wakeupEventLoop misses no sleeper.
NoSleepOverWork ==
  \A p \in Pollers : pollPc[p] = "asleep" => entries = <<>> /\ ~wakePending /\ waiting

\* The value wakeupEventLoop signals is larger than the wakeup semaphore's
\* counter (Vulkan requires it), and no snapshot waits for a value that the
\* next wakeup would not reach.
WakeValueAhead ==
  /\ wakeCount < wakeValue
  /\ \A p \in Pollers : pollPc[p] = "gpuWait" => snapWake[p] <= wakeValue

-----------------------------------------------------------------------------
\* Pollers, semaphores and callbacks are interchangeable (for TLC's safety run).
Symmetry ==
  Permutations(Pollers) \cup Permutations(Semaphores) \cup Permutations(Callbacks)
=============================================================================
