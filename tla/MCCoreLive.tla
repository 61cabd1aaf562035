----------------------------- MODULE MCCoreLive -----------------------------
(***************************************************************************)
(* Liveness of the event loop, of command buffers and of presentation.     *)
(* The specifications are instances over the same variables, and a         *)
(* behaviour is one of ONE of them, the part; what a part does not use     *)
(* stays None.                                                             *)
(***************************************************************************)
EXTENDS Sequences

CONSTANTS Pollers, Semaphores, Callbacks, MaxWakes,
          Pools, Waiters, Readers, Calls, Stuck,
          MaxHandlers, SemCapacity, PoolCapacity, MaxCount,
          Frames, Drawables, Results, MaxToggles, None

VARIABLES part,
          entries, wakeValue, wakeCount, wakePending, waiting, pollPc, snapshot, snapWake, scan,
          readyIndices, ready, counter, gpuQueue,
          unregistered, issued, registered, done, loopPc, stopping, wakes,
          phase, scheduledHandlers, completedHandlers, encoders, drawables, completed,
          handlersCompleted, pool, recycledCommands, timeline, count, owners,
          recycledSems, scheduledQueue, completionWork, spent, waitOn, asleep, reader,
          nextSerial, serial,
          owns, hidePending, frameReady, glHandoff, vkHandoff, current, browserVisible, surface,
          glTex, glBuf, vkBuf, pc, drawable, export, texture, semaphore, callback,
          queuedSerial, layerQueue, last, vulkan, presenter, glAttached, newest, holder,
          lastGL, copies, released, hud, toggles

Events == INSTANCE EventLoopSystem
Cmd == INSTANCE CommandBuffer
Present == INSTANCE Presentation

pollVars == <<entries, wakeValue, wakeCount, wakePending, waiting, pollPc, snapshot, snapWake, scan,
             readyIndices, ready, counter, gpuQueue>>
eventVars == <<unregistered, issued, registered, done, loopPc, stopping, wakes>>
cmdVars == <<phase, scheduledHandlers, completedHandlers, encoders, drawables, completed,
            handlersCompleted, pool, recycledCommands, timeline, count, owners,
            recycledSems, scheduledQueue, completionWork, spent, waitOn, asleep, reader>>
serialVars == <<nextSerial, serial>>
presentVars == <<owns, hidePending, frameReady, glHandoff, vkHandoff, current, browserVisible, surface,
                glTex, glBuf, vkBuf, pc, drawable, export, texture, semaphore, callback,
                queuedSerial, layerQueue, last, vulkan, presenter, glAttached, newest,
                holder, lastGL, copies, released, hud, toggles>>
vv == <<part, pollVars, eventVars, cmdVars, serialVars, presentVars>>

NoPoll ==
  /\ entries = None /\ wakeValue = None /\ wakeCount = None /\ wakePending = None
  /\ waiting = None /\ pollPc = None /\ snapshot = None /\ snapWake = None
  /\ scan = None /\ readyIndices = None /\ ready = None /\ counter = None
  /\ gpuQueue = None
NoEvents ==
  /\ unregistered = None /\ issued = None /\ registered = None /\ done = None
  /\ loopPc = None /\ stopping = None /\ wakes = None
NoCmd ==
  /\ phase = None /\ scheduledHandlers = None /\ completedHandlers = None /\ encoders = None
  /\ drawables = None /\ completed = None /\ handlersCompleted = None /\ pool = None
  /\ recycledCommands = None /\ timeline = None /\ count = None /\ owners = None
  /\ recycledSems = None /\ scheduledQueue = None /\ completionWork = None /\ spent = None
  /\ waitOn = None /\ asleep = None /\ reader = None
NoSerials == nextSerial = None /\ serial = None
NoPresent ==
  /\ owns = None /\ hidePending = None /\ frameReady = None /\ glHandoff = None
  /\ vkHandoff = None /\ current = None /\ browserVisible = None /\ surface = None
  /\ glTex = None /\ glBuf = None /\ vkBuf = None /\ pc = None
  /\ drawable = None /\ export = None /\ texture = None /\ semaphore = None
  /\ callback = None /\ queuedSerial = None /\ layerQueue = None /\ last = None
  /\ vulkan = None /\ presenter = None /\ glAttached = None /\ newest = None
  /\ holder = None /\ lastGL = None /\ copies = None /\ released = None
  /\ hud = None /\ toggles = None

Init == \/ part = "events" /\ Events!Init /\ NoCmd /\ NoSerials /\ NoPresent
        \/ part = "commands" /\ Cmd!Init /\ NoEvents /\ NoPresent
        \/ part = "presentation" /\ Present!Init /\ NoPoll /\ NoEvents /\ NoCmd

IsEvents == part = "events" /\ UNCHANGED <<part, cmdVars, serialVars, presentVars>>
IsCmd == part = "commands" /\ UNCHANGED <<part, eventVars, presentVars>>
IsPresent == part = "presentation" /\ UNCHANGED <<part, pollVars, eventVars, cmdVars>>

EventsStep == IsEvents /\ Events!Next
CmdStep == IsCmd /\ Cmd!Next
PresentStep == IsPresent /\ Present!Next

Next == EventsStep \/ CmdStep \/ PresentStep

\* Threads run, the GPU executes what was submitted, and the main thread
\* renders while drawables are queued.
EventsFairness ==
  /\ WF_vv(IsEvents /\ Events!GpuExecute)
  /\ WF_vv(IsEvents /\ Events!StopWake)
  /\ \A cb \in Callbacks : WF_vv(IsEvents /\ \E e \in unregistered : e.cb = cb /\ Events!Register(e))
  /\ \A p \in Pollers : WF_vv(IsEvents /\ Events!PollerStep(p))
CmdFairness ==
  /\ WF_vv(IsCmd /\ Cmd!GpuExecute)
  /\ WF_vv(IsCmd /\ Cmd!Dispatch)
  /\ \A c \in Callbacks : WF_vv(IsCmd /\ Cmd!Commit(c)) /\ WF_vv(IsCmd /\ Cmd!Work(c))
  /\ \A p \in Pollers : WF_vv(IsCmd /\ pollPc[p] # "asleep" /\ Cmd!Poll(p))
  /\ \A w \in Waiters : WF_vv(IsCmd /\ Cmd!WaitReturn(w))

PresentFairness ==
  /\ \A f \in Frames : /\ WF_vv(IsPresent /\ pc[f] # "rendered" /\ Present!PresentStep(f))
                       /\ WF_vv(IsPresent /\ presenter = "live" /\ Present!CopyCompleted(f))
  /\ WF_vv(IsPresent /\ layerQueue # <<>> /\ Present!PrepareRender)

Spec == Init /\ [][Next]_vv /\ EventsFairness /\ CmdFairness /\ PresentFairness

-----------------------------------------------------------------------------
\* Every submitted completion is delivered, and a shutdown ends every poll,
\* although the poll may be asleep, waiting on older work or in the middle of
\* a scan at that moment (pollEvents and wakeupEventLoop).  Submissions are
\* bounded and a delivery is final, so nothing outstanding again and again is
\* EveryCompletionRuns and ShutdownStopsPoller of EventLoopSystem in one.
AllDelivered == unregistered = {} /\ Len(done) = Len(registered)
CompletionsDelivered ==
  []<>(part = "events" =>
         IF stopping = "no" THEN AllDelivered ELSE \A p \in Pollers : loopPc[p] = "exit")

\* A command whose scheduled handlers have run completes and whoever waits for
\* it returns, although the handlers of another command never do (CommandBuffer's
\* IndependentCompletion and WaiterReturns in one: completed handlers are
\* dispatched to a queue of their own).
HandlersIndependent ==
  []<>(part = "commands" =>
         \A c \in Callbacks \ Stuck :
           Cmd!Committed(c) /\ scheduledHandlers[c] = 0
             => handlersCompleted[c] /\ \A w \in Waiters : waitOn[w] # c)

\* Every presented drawable returns to the application whatever route its frame
\* takes; only the newest GL frame may be kept ("Preserve Cocotron's
\* one-frame-delayed callback").
EveryDrawableReleased ==
  []<>(part = "presentation" =>
         \A f \in Frames : Present!Presented(f)
           => released[f] = 1 \/ (last = drawable[f] /\ newest = serial[f]))
=============================================================================
