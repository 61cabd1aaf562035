----------------------------- MODULE MCDesktop -----------------------------
(***************************************************************************)
(* The runtime around the renderer: Mach semaphores, fork, the profiler,   *)
(* the embedded browser, the Wayland window, data tasks, video decoding    *)
(* and the updater.                                                        *)
(* They share no state, so a behaviour is one of ONE of them, the part,    *)
(* and the parts share the variables v1 to v9; what a part does not use    *)
(* stays None.                                                             *)
(***************************************************************************)
EXTENDS Naturals, TLC

CONSTANTS
    None, t1, t2, t3,
    Updaters, Versions, MaxRuns, MaxKills   \* the updater

VARIABLES part, v1, v2, v3, v4, v5, v6, v7, v8, v9
vv == <<part, v1, v2, v3, v4, v5, v6, v7, v8, v9>>

Symmetry == Permutations({t1, t2, t3})
Callers == {t1, t2, t3}
Caller == {t1}
Pair == {t1, t2}
Racing == {"create", "destroy", "wait", "timedwait", "signal", "signal_all"}
Calls == Racing \cup {"poll", "signal_thread"}
Zero == {0}
Values == {0, 1}

\* Three threads on one semaphore, two with every call, and one thread that
\* reuses slots.
Sem == INSTANCE MachSemaphore WITH
    table <- v1, freeSlots <- v2, nextUnused <- v3, names <- v4, th <- v5, ledger <- v6,
    Threads <- Callers, SlotCount <- 1, Generations <- 4, Ops <- Racing, InitialValues <- Zero,
    MaxCalls <- 2, MaxCreates <- 1
Polls == INSTANCE MachSemaphore WITH
    table <- v1, freeSlots <- v2, nextUnused <- v3, names <- v4, th <- v5, ledger <- v6,
    Threads <- Pair, SlotCount <- 1, Generations <- 4, Ops <- Calls, InitialValues <- Values,
    MaxCalls <- 3, MaxCreates <- 1
Reuse == INSTANCE MachSemaphore WITH
    table <- v1, freeSlots <- v2, nextUnused <- v3, names <- v4, th <- v5, ledger <- v6,
    Threads <- Caller, SlotCount <- 1, Generations <- 4, Ops <- Calls, InitialValues <- Values,
    MaxCalls <- 6, MaxCreates <- 2

Fork == INSTANCE NativeFork WITH
    parent <- v1, child <- v2, locks <- v3, forks <- v4, result <- v5, MaxForks <- 3

\* A timed capture, and exports asked for while the mouse moves the panel.
Worker == {"w1"}
Prof == INSTANCE Profiler WITH
    ctl <- v1, key <- v2, span <- v3, model <- v4, collectors <- v5, draw <- v6, panel <- v7,
    exports <- v8, period <- v9,
    Workers <- Worker, Ring <- 1, AutoCapture <- TRUE, MaxKeys <- 3, MaxSpans <- 2, MaxExports <- 0, MaxMouse <- 0
Export == INSTANCE Profiler WITH
    ctl <- v1, key <- v2, span <- v3, model <- v4, collectors <- v5, draw <- v6, panel <- v7,
    exports <- v8, period <- v9,
    Workers <- Worker, Ring <- 1, AutoCapture <- FALSE, MaxKeys <- 2, MaxSpans <- 1, MaxExports <- 2, MaxMouse <- 1

Sampled == Pair
Sampling == INSTANCE SampleWindow WITH
    now <- v1, ring <- v2, sweep <- v3, history <- v4, through <- v5, frames <- v6, hud <- v7, out <- v8, taken <- v9,
    Threads <- Sampled, capacity <- 2, frameCapacity <- 2, MaxTime <- 5

\* Navigations over a breaking connection, and calls over a whole one.
View == {1}
Bridge == INSTANCE BrowserBridge WITH
    guest <- v1, host <- v2, peer <- v3, next <- v4, answers <- v5,
    Views <- View, MaxOutput <- 1, SocketLines <- 1, MaxOps <- 1, MaxAsks <- 2, MaxBreaks <- 1
Scripts == INSTANCE BrowserBridge WITH
    guest <- v1, host <- v2, peer <- v3, next <- v4, answers <- v5,
    Views <- View, MaxOutput <- 6, SocketLines <- 1, MaxOps <- 3, MaxAsks <- 0, MaxBreaks <- 0

\* The pointer at one size, and sizes with an idle pointer.
OneSize == {1}
ThreeSizes == {1, 2, 3}
Pointer == INSTANCE WaylandInput WITH
    win <- v1, cl <- v2, acts <- v3, comp <- v4, toComp <- v5, gtkq <- v6, lockq <- v7, size <- v8, used <- v9,
    MaxCalls <- 2, MaxMoves <- 4, MaxFocus <- 2, MaxSizes <- 0, Sizes <- OneSize
Window == INSTANCE WaylandInput WITH
    win <- v1, cl <- v2, acts <- v3, comp <- v4, toComp <- v5, gtkq <- v6, lockq <- v7, size <- v8, used <- v9,
    MaxCalls <- 0, MaxMoves <- 0, MaxFocus <- 0, MaxSizes <- 5, Sizes <- ThreeSizes

\* Input on its way to the application: a button, and other events.
LeftButton == {1}
Delivery == INSTANCE InputDelivery WITH
    helper <- v1, pressed <- v2, pending <- v3, batch <- v4, pump <- v5, guest <- v6, app <- v7, made <- v8, polled <- v9,
    Buttons <- LeftButton, Size <- 2, Rounds <- 3, MaxInput <- 3, MaxFocus <- 2

\* Tasks that race, and a task that is redirected.
TwoOrigins == {"home", "other"}
Get == {"GET"}
AllMethods == {"GET", "HEAD", "POST"}
Http == INSTANCE URLSession WITH
    invalidated <- v1, tasks <- v2, task <- v3, mainQueue <- v4, operations <- v5, handling <- v6, answers <- v7, stopping <- v8,
    Tasks <- Pair, Origins <- TwoOrigins, Home <- "home", Methods <- Get, Timeout <- 1, Resource <- 2, MaxArm <- 1, MaxHops <- 0, MaxChunks <- 0
Redirect == INSTANCE URLSession WITH
    invalidated <- v1, tasks <- v2, task <- v3, mainQueue <- v4, operations <- v5, handling <- v6, answers <- v7, stopping <- v8,
    Tasks <- Caller, Origins <- TwoOrigins, Home <- "home", Methods <- AllMethods, Timeout <- 2, Resource <- 3, MaxArm <- 1, MaxHops <- 3, MaxChunks <- 2

TwoSamples == {"s1", "s2"}
Video == INSTANCE VideoSession WITH
    session <- v1, attachments <- v2, inside <- v3, open <- v4, thread <- v5, submits <- v6, seen <- v7,
    Threads <- Callers, Samples <- TwoSamples, Capacity <- 2, MaxDecoders <- 2, MaxSubmits <- 3

Update == INSTANCE ClientUpdate WITH
    live <- v1, offered <- v2, up <- v3, orphans <- v4, lost <- v5, launch <- v6, had <- v7, bounds <- v8

Five == v6 = None /\ v7 = None /\ v8 = None /\ v9 = None
Six == v7 = None /\ v8 = None /\ v9 = None
Init ==
    \/ part = "semaphore" /\ Sem!Init /\ Six
    \/ part = "polls" /\ Polls!Init /\ Six
    \/ part = "reuse" /\ Reuse!Init /\ Six
    \/ part = "fork" /\ Fork!Init /\ Five
    \/ part = "profiler" /\ Prof!Init
    \/ part = "export" /\ Export!Init
    \/ part = "samples" /\ Sampling!Init
    \/ part = "bridge" /\ Bridge!Init /\ Five
    \/ part = "scripts" /\ Scripts!Init /\ Five
    \/ part = "pointer" /\ Pointer!Init
    \/ part = "window" /\ Window!Init
    \/ part = "delivery" /\ Delivery!Init
    \/ part = "http" /\ Http!Init /\ v9 = None
    \/ part = "redirect" /\ Redirect!Init /\ v9 = None
    \/ part = "video" /\ Video!Init /\ v8 = None /\ v9 = None
    \/ part = "update" /\ Update!Init /\ v9 = None

SemStep == part = "semaphore" /\ Sem!Next /\ UNCHANGED <<part, v7, v8, v9>>
PollsStep == part = "polls" /\ Polls!Next /\ UNCHANGED <<part, v7, v8, v9>>
ReuseStep == part = "reuse" /\ Reuse!Next /\ UNCHANGED <<part, v7, v8, v9>>
ForkStep == part = "fork" /\ Fork!Next /\ UNCHANGED <<part, v6, v7, v8, v9>>
ProfStep == part = "profiler" /\ Prof!Next /\ UNCHANGED part
ExportStep == part = "export" /\ Export!Next /\ UNCHANGED part
SamplesStep == part = "samples" /\ Sampling!Next /\ UNCHANGED part
BridgeStep == part = "bridge" /\ Bridge!Next /\ UNCHANGED <<part, v6, v7, v8, v9>>
ScriptsStep == part = "scripts" /\ Scripts!Next /\ UNCHANGED <<part, v6, v7, v8, v9>>
PointerStep == part = "pointer" /\ Pointer!Next /\ UNCHANGED part
WindowStep == part = "window" /\ Window!Next /\ UNCHANGED part
DeliveryStep == part = "delivery" /\ Delivery!Next /\ UNCHANGED part
HttpStep == part = "http" /\ Http!Next /\ UNCHANGED <<part, v9>>
RedirectStep == part = "redirect" /\ Redirect!Next /\ UNCHANGED <<part, v9>>
VideoStep == part = "video" /\ Video!Next /\ UNCHANGED <<part, v8, v9>>
UpdateStep == part = "update" /\ Update!Next /\ UNCHANGED <<part, v9>>

Next ==
    \/ SemStep \/ PollsStep \/ ReuseStep \/ ForkStep \/ ProfStep \/ ExportStep \/ SamplesStep \/ BridgeStep \/ ScriptsStep
    \/ PointerStep \/ WindowStep \/ DeliveryStep \/ HttpStep \/ RedirectStep \/ VideoStep
    \/ UpdateStep

Spec == Init /\ [][Next]_vv

-----------------------------------------------------------------------------
\* Waits, timeouts, signals and a destruction that race over one semaphore
\* keep every waiter accounted for, conserve permits, lose no wakeup and free
\* the slot once (semaphore.c); a fork whose child dies or is late tells the
\* truth about it and gives back its locks (native-fork.h).
ShimsSound ==
    /\ part = "semaphore" => Sem!Safety
    /\ part = "polls" => Polls!Safety
    /\ part = "reuse" => Reuse!Safety
    /\ part = "fork" => Fork!Safety

\* Freezing, hiding, timed captures and exports that race with the recording
\* threads mix no two capture periods, leave no collector running, and repeat
\* what a frozen window showed; a window of samples not reported as truncated
\* is exact, although rings are swept at different moments into a bounded
\* history (profiler.cpp, sampler.h, model.h).
CapturesExact ==
    /\ part = "profiler" => Prof!Safety
    /\ part = "export" => Export!Safety
    /\ part = "samples" => Sampling!Safety

\* Each navigation is answered once, by the answer meant for it, whatever
\* happens to the connection, and a destroyed page is never shown (host.cpp).
BrowserAnswers == (part = "bridge" => Bridge!Safety) /\ (part = "scripts" => Scripts!Safety)

\* Capture follows focus, motion counts in the capture it was made in, and
\* focus and size are reported to the end (wayland.cpp).
InputFollowsWindow == (part = "pointer" => Pointer!Safety) /\ (part = "window" => Window!Safety)

\* Over late batches, focus changes that overtake it and merged motion, input
\* reaches the application whole and in order, and a blur releases every button
\* the application holds (native/wayland.cpp, wayland.m).
InputDelivered == part = "delivery" => Delivery!Safety

\* A data task is answered once, with its cancellation, its timeout or its own
\* data, and its headers stay with their origin (session.m).
TasksAnswered == (part = "http" => Http!Safety) /\ (part = "redirect" => Redirect!Safety)

\* Samples are retained as long as the decoder may deliver them, and an
\* invalidated session is quiet (video.m).
VideoRetained == part = "video" => Video!Safety

\* Updates that fail, are killed or meet a launch or a newer version at the
\* server leave a whole client, or keep the one to put back, and never move one
\* that runs (update-roblox.sh, fetch-client.sh, roblox-mac).
ClientKeptWhole == part = "update" => Update!Safety
=============================================================================
