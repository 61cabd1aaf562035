----------------------------- MODULE MCProgress -----------------------------
(***************************************************************************)
(* Liveness of the audio loop and streams, Mach semaphores, the browser    *)
(* bridge, presentation semaphores, compute pipelines, data tasks, the     *)
(* swapchain, input and uploads.  They share no state, so a behaviour is   *)
(* one of ONE of them, the part, and the parts share the variables v1 to   *)
(* v11; what a part does not use stays None.                               *)
(***************************************************************************)
EXTENDS Naturals

CONSTANTS None, t1, t2

VARIABLES part, v1, v2, v3, v4, v5, v6, v7, v8, v9, v10, v11
vv == <<part, v1, v2, v3, v4, v5, v6, v7, v8, v9, v10, v11>>

Callers == {t1, t2}
Caller == {t1}
NoEvents == {}
Io == {"io"}
Deferred == {"defer"}
Fd == {"fd"}
Loop == INSTANCE PAMainLoop WITH
    suspended <- v1, queue <- v2, running <- v3, io <- v4, timer <- v5, defer <- v6,
    openFds <- v7, destroyed <- v8, waiting <- v9,
    IoEvents <- Io, TimeEvents <- NoEvents, DeferEvents <- Deferred, Fds <- Fd,
    Threads <- Caller, MaxQueue <- 2

Proc == {"p"}
Streams == INSTANCE AudioStreams WITH
    input <- v1, procs <- v2, streams <- v3, made <- v4, st <- v5, context <- v6,
    pending <- v7, queue <- v8, callback <- v9, pc <- v10,
    Threads <- Callers, Procs <- Proc, MaxStreams <- 2, MaxTime <- 1, MaxChunk <- 1

Paired == {"create", "destroy", "wait", "signal", "signal_all", "wait_signal", "timedwait_signal", "terminate"}
Zero == {0}
Sem == INSTANCE MachSemaphore WITH
    table <- v1, freeSlots <- v2, nextUnused <- v3, names <- v4, th <- v5, ledger <- v6,
    Threads <- Callers, SlotCount <- 1, Generations <- 4, Ops <- Paired, InitialValues <- Zero,
    MaxCalls <- 2, MaxCreates <- 1

\* A navigation over a breaking connection, and calls over a whole one.
View == {1}
Bridge == INSTANCE BrowserBridge WITH
    guest <- v1, host <- v2, peer <- v3, next <- v4, answers <- v5,
    Views <- View, MaxOutput <- 1, SocketLines <- 1, MaxOps <- 1, MaxAsks <- 1, MaxBreaks <- 1
Scripts == INSTANCE BrowserBridge WITH
    guest <- v1, host <- v2, peer <- v3, next <- v4, answers <- v5,
    Views <- View, MaxOutput <- 6, SocketLines <- 1, MaxOps <- 3, MaxAsks <- 0, MaxBreaks <- 0

ThreeFrames == {"f1", "f2", "f3"}
Frames == INSTANCE PresentationSemaphores WITH
    pc <- v1, semaphore <- v2, commands <- v3, gpu <- v4, payload <- v5, waits <- v6, got <- v7,
    queue <- v8, imports <- v9, contexts <- v10,
    Frames <- ThreeFrames, MaxImports <- 1, MaxContexts <- 1

TwoSizes == {"s1", "s2"}
Compute == INSTANCE ComputePipelines WITH
    pipelines <- v1, preparing <- v2, future <- v3, thr <- v4, alive <- v5,
    Threads <- Callers, Sizes <- TwoSizes, MaxTries <- 2

OneOrigin == {"home"}
Get == {"GET"}
Http == INSTANCE URLSession WITH
    invalidated <- v1, tasks <- v2, task <- v3, mainQueue <- v4, operations <- v5, handling <- v6,
    answers <- v7, stopping <- v8,
    Tasks <- Caller, Origins <- OneOrigin, Home <- "home", Methods <- Get, Timeout <- 1, Resource <- 2,
    MaxArm <- 1, MaxHops <- 0, MaxChunks <- 0

OneSize == {1}
Chain == INSTANCE Swapchain WITH
    pc <- v1, chain <- v2, slots <- v3, next <- v4, submitted <- v5, queue <- v6, reached <- v7,
    images <- v8, rendered <- v9, calls <- v10, outcome <- v11,
    Slots <- 2, Images <- 2, Extents <- OneSize, MinExtent <- 1, MaxExtent <- 1, MaxPresents <- 4, MaxChains <- 2

LeftButton == {1}
Delivery == INSTANCE InputDelivery WITH
    helper <- v1, pressed <- v2, pending <- v3, batch <- v4, pump <- v5, guest <- v6, app <- v7,
    made <- v8, polled <- v9,
    Buttons <- LeftButton, Size <- 2, Rounds <- 2, MaxInput <- 2, MaxFocus <- 1

OneImage == {"i1"}
Poller == {"p1"}
Bytes == {1, 5}
Uploads == INSTANCE UploadQueue WITH
    batch <- v1, current <- v2, cursor <- v3, needsService <- v4, request <- v5, gpuQueue <- v6,
    staged <- v7, applied <- v8, textures <- v9, polling <- v10, alive <- v11,
    Ring <- 2, Block <- 4, Align <- 2, MaxOps <- 2, Sizes <- Bytes, Images <- OneImage, Pollers <- Poller,
    MaxStaged <- 4

Ten == v11 = None
Nine == v10 = None /\ Ten
Eight == v9 = None /\ Nine
Six == v7 = None /\ v8 = None /\ Eight
Five == v6 = None /\ Six
Init ==
    \/ part = "loop" /\ Loop!Init /\ Nine
    \/ part = "streams" /\ Streams!Init /\ Ten
    \/ part = "semaphore" /\ Sem!Init /\ Six
    \/ part = "bridge" /\ Bridge!Init /\ Five
    \/ part = "scripts" /\ Scripts!Init /\ Five
    \/ part = "frames" /\ Frames!Init /\ Ten
    \/ part = "compute" /\ Compute!Init /\ Five
    \/ part = "http" /\ Http!Init /\ Eight
    \/ part = "swapchain" /\ Chain!Init
    \/ part = "delivery" /\ Delivery!Init /\ Nine
    \/ part = "uploads" /\ Uploads!Init

IsLoop == part = "loop" /\ UNCHANGED <<part, v10, v11>>
IsStreams == part = "streams" /\ UNCHANGED <<part, v11>>
IsSem == part = "semaphore" /\ UNCHANGED <<part, v7, v8, v9, v10, v11>>
IsBridge == part = "bridge" /\ UNCHANGED <<part, v6, v7, v8, v9, v10, v11>>
IsScripts == part = "scripts" /\ UNCHANGED <<part, v6, v7, v8, v9, v10, v11>>
IsFrames == part = "frames" /\ UNCHANGED <<part, v11>>
IsCompute == part = "compute" /\ UNCHANGED <<part, v6, v7, v8, v9, v10, v11>>
IsHttp == part = "http" /\ UNCHANGED <<part, v9, v10, v11>>
IsChain == part = "swapchain" /\ UNCHANGED part
IsDelivery == part = "delivery" /\ UNCHANGED <<part, v10, v11>>
IsUploads == part = "uploads" /\ UNCHANGED part

LoopStep == IsLoop /\ Loop!Next
StreamsStep == IsStreams /\ Streams!Next
SemStep == IsSem /\ Sem!Next
BridgeStep == IsBridge /\ Bridge!Next
ScriptsStep == IsScripts /\ Scripts!Next
FramesStep == IsFrames /\ Frames!Next
ComputeStep == IsCompute /\ Compute!Next
HttpStep == IsHttp /\ Http!Next
ChainStep == IsChain /\ Chain!Next
DeliveryStep == IsDelivery /\ Delivery!Next
UploadsStep == IsUploads /\ Uploads!Next

Next ==
    \/ LoopStep \/ StreamsStep \/ SemStep \/ BridgeStep \/ ScriptsStep \/ FramesStep \/ ComputeStep
    \/ HttpStep \/ ChainStep \/ DeliveryStep \/ UploadsStep

-----------------------------------------------------------------------------
(* Fairness *)

\* Blocks, sources and deadlines that come up again and again between other
\* work are served: dispatch runs every block and every cancellation of a
\* source, libpulse ends a connection attempt, a futex timeout ends however
\* often the sleep is interrupted, for its deadline is absolute, and Cocoa
\* dispatches events between two pumps.  A part has at most three of them, so a
\* condition may join those of several parts.
Served(k) ==
    \/ IsLoop /\ \/ k = 1 /\ Loop!RunBlock
                 \/ k = 2 /\ Loop!IoCancelled("io", "read")
                 \/ k = 3 /\ Loop!IoCancelled("io", "write")
    \/ IsStreams /\ \/ k = 1 /\ Streams!RunConnect
                    \/ k = 2 /\ Streams!RunStop
                    \/ k = 3 /\ \E ctx \in {"ready", "failed"} : Streams!ContextFinish(ctx)
    \/ IsSem /\ ((k = 1 /\ Sem!timeout(t1)) \/ (k = 2 /\ Sem!timeout(t2)))
    \/ IsDelivery /\ k = 1 /\ Delivery!dispatch

\* A thread inside a call runs.
Runs(t) ==
    \/ IsStreams /\ (Streams!StopDestructor(t) \/ Streams!StopReturn(t))
    \/ IsSem /\ Sem!Step(t)
    \/ IsCompute /\ Compute!Work(t)
    \/ IsHttp /\ t \in Caller /\ (Http!CancelListed(t) \/ Http!TimerFires(t))

\* Callbacks return, and nothing but the constructor suspends the loop.
CallbacksReturn == (IsLoop /\ Loop!Return) \/ (IsStreams /\ Streams!CallbackEnd)

\* Both main loops of the bridge run, WebKit finishes evaluations, and both
\* devices work through what was submitted to them.
BridgeRuns(k) ==
    \/ IsBridge /\ \/ k = 1 /\ Bridge!connect
                   \/ k = 2 /\ Bridge!write
                   \/ k = 3 /\ (Bridge!writeError \/ (Bridge!readEOF /\ Bridge!Held.eof))
                   \/ k = 4 /\ Bridge!receiveMessage
                   \/ k = 5 /\ Bridge!accept_peer
                   \/ k = 6 /\ Bridge!flush_output
                   \/ k = 7 /\ Bridge!handle
                   \/ k = 8 /\ Bridge!hangup /\ v3.hup
                   \/ k = 9 /\ \E d \in v2.decisions : Bridge!expire_policy(d)
    \/ IsScripts /\ \/ k = 1 /\ Scripts!connect
                    \/ k = 2 /\ Scripts!write
                    \/ k = 4 /\ Scripts!receiveMessage
                    \/ k = 5 /\ Scripts!accept_peer
                    \/ k = 6 /\ Scripts!flush_output
                    \/ k = 7 /\ Scripts!handle
                    \/ k = 9 /\ \E n \in v2.evals : Scripts!evaluated(n)

\* The main queue and the operation queue run, time passes, a present goes on
\* while the queue and the presentation engine work, the timer pumps input
\* while the UI thread answers, and the GPU executes what was submitted while a
\* staging call whose fence is signalled goes on.
QueuesRun(k) ==
    \/ IsHttp /\ \/ k = 1 /\ Http!RunBlock
                 \/ k = 2 /\ (Http!HandlerBegins \/ Http!completed)
                 \/ k = 3 /\ Http!Tick
    \/ IsChain /\ \/ k = 1 /\ Chain!Present
                  \/ k = 2 /\ Chain!execute
                  \/ k = 3 /\ \E s \in Chain!SlotSet : Chain!engineSignals(s)
    \/ IsDelivery /\ \/ k = 1 /\ Delivery!runTask
                     \/ k = 2 /\ (Delivery!startPump \/ Delivery!Poll)
    \/ IsUploads /\ ((k = 1 /\ Uploads!GpuExecute) \/ (k = 2 /\ Uploads!BeginSlot))

Fairness ==
    /\ \A k \in 1..3 : WF_vv(QueuesRun(k))
    /\ \A k \in 1..3 : SF_vv(Served(k))
    /\ \A t \in Callers : WF_vv(Runs(t))
    /\ WF_vv(CallbacksReturn)
    /\ WF_vv(IsLoop /\ Loop!Resume) /\ <>[][~(part = "loop" /\ Loop!Suspend)]_vv
    /\ \A k \in 1..9 : WF_vv(BridgeRuns(k))
    /\ WF_vv(IsFrames /\ Frames!execute) /\ WF_vv(IsFrames /\ Frames!glExecute)

Spec == Init /\ [][Next]_vv /\ Fairness

-----------------------------------------------------------------------------
\* Every thread gets out of its call: perform() on a suspended or busy loop,
\* AudioDeviceStop although it waits with m_procMutex held, a semaphore wait
\* that was signalled, timed out or destroyed, a request for a compute
\* pipeline whose compile fails in another thread, a present that waits for
\* copies or ends the presenter, and a staging call that waits for a fence with
\* queueMutex held (PADispatchMainLoop.cpp, AudioHardwareImpl, semaphore.c,
\* compute-pipeline.cpp, swapchain.cpp, uploads.cpp).
Out(t) ==
    /\ part = "loop" => t \notin v9
    /\ part = "streams" => v10[t] = Streams!Idle
    /\ part = "semaphore" => ~Sem!Released(t)
    /\ part = "compute" => v4[t].pc = "idle"
    /\ part = "swapchain" => v1.at \in {"idle", "gone"}
    /\ part = "uploads" => v5 = None
CallersReturn == \A t \in Callers : []<>Out(t)

\* What was begun is ended: a freed Pulse event is deleted, a started stream
\* hears about the context, a navigation is decided and a script call answered
\* whatever happens to the connection, a closed view leaves the screen, GL
\* never waits for a signal that does not come, a failed compile leaves no
\* entry behind, a resumed or cancelled data task is answered although the
\* server is silent, and input and focus changes reach the application.
Ended ==
    /\ part = "loop" => v4["io"].state # "freed"
    /\ part = "streams" => \A i \in 1..v4 : v5[i].answered > 0
    /\ part = "bridge" => v2.decisions = {}
    /\ part = "scripts" => v1.calls = {}
    /\ part = "frames" => v6 = <<>>
    /\ part = "compute" => \A s \in TwoSizes : v2[s] = 0
    /\ part = "http" => \A t \in v2 : v3[t].state = "suspended"
    /\ part = "delivery" => Delivery!Waiting = <<>> /\ Delivery!Unpolled = <<>>
AlsoEnded ==
    /\ part = "loop" => v6["defer"].state # "freed"
    /\ part = "scripts" => (1 \notin v1.views => v2.current # 1)
\* After the last break the guest stays connected.
Connected == part = "bridge" => v1.fd = "peer" /\ ~v3.eof
WorkEnds == []<>Ended /\ []<>AlsoEnded /\ <>[]Connected
=============================================================================
