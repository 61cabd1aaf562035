------------------------------ MODULE MCAudio ------------------------------
(***************************************************************************)
(* CoreAudio on PulseAudio: the main loop, a device's streams, the output  *)
(* unit and the registry of devices.  Each keeps to its own state and sees *)
(* the others through their documented behaviour, so a behaviour is one of *)
(* ONE of them, the part, and the parts share the variables v1 to v12;     *)
(* what a part does not use stays None.                                    *)
(***************************************************************************)
EXTENDS Naturals, TLC

CONSTANTS None, m1, m2

VARIABLES part, v1, v2, v3, v4, v5, v6, v7, v8, v9, v10, v11, v12
vv == <<part, v1, v2, v3, v4, v5, v6, v7, v8, v9, v10, v11, v12>>

\* Interchangeable: descriptors in "loop", I/O events in "fds", else threads.
Two == {m1, m2}
Symmetry == Permutations(Two)
NoneOf == {}
OneThread == {"thread"}
OneIo == {"io"}
TwoFds == {3, 4}
TwoProcs == {"p1", "p2"}
Timer == {"timer"}
Defer == {"defer"}

\* An event of each kind, and two I/O events over two descriptors.
Loop == INSTANCE PAMainLoop WITH
  suspended <- v1, queue <- v2, running <- v3, io <- v4, timer <- v5, defer <- v6,
  openFds <- v7, destroyed <- v8, waiting <- v9,
  IoEvents <- OneIo, TimeEvents <- Timer, DeferEvents <- Defer, Fds <- Two, Threads <- OneThread, MaxQueue <- 3
LoopFds == INSTANCE PAMainLoop WITH
  suspended <- v1, queue <- v2, running <- v3, io <- v4, timer <- v5, defer <- v6,
  openFds <- v7, destroyed <- v8, waiting <- v9,
  IoEvents <- Two, TimeEvents <- NoneOf, DeferEvents <- NoneOf, Fds <- TwoFds, Threads <- OneThread, MaxQueue <- 1

Streams == INSTANCE AudioStreams WITH
  input <- v1, procs <- v2, streams <- v3, made <- v4, st <- v5, context <- v6, pending <- v7,
  queue <- v8, callback <- v9, pc <- v10,
  Threads <- Two, Procs <- TwoProcs, MaxStreams <- 3, MaxTime <- 3, MaxChunk <- 2

Hardware == {"headset", "mic"}
Recorders == {"headset", "mic"}
Players == {"headset"}
TwoFormats == {"f1", "f2"}
ThreeFrames == {3}
Unit == INSTANCE AUHAL WITH
  kind <- v1, enable <- v2, device <- v3, procID <- v4, running <- v5, format <- v6, alive <- v7,
  hal <- v8, captured <- v9, packet <- v10, buffer <- v11, rendered <- v12,
  Devices <- Hardware, Inputs <- Recorders, Outputs <- Players, Formats <- TwoFormats, MaxSlice <- 2,
  Packets <- ThreeFrames, MaxIds <- 6, MaxFrames <- 3

MicAndSpeaker == {"mic", "speaker"}
Mic == {"mic"}
OneListener == {"listener"}
Host == INSTANCE AudioHost WITH
  host <- v1, changesLeft <- v2, due <- v3, objects <- v4, alive <- v5, current <- v6, listeners <- v7,
  pc <- v8, told <- v9, removed <- v10, query <- v11,
  Endpoints <- MicAndSpeaker, Sources <- Mic, Threads <- Two, Listeners <- OneListener, MaxChanges <- 2

Init ==
  \/ part = "loop" /\ Loop!Init /\ v10 = None /\ v11 = None /\ v12 = None
  \/ part = "fds" /\ LoopFds!Init /\ v10 = None /\ v11 = None /\ v12 = None
  \/ part = "streams" /\ Streams!Init /\ v11 = None /\ v12 = None
  \/ part = "unit" /\ Unit!Init
  \/ part = "host" /\ Host!Init /\ v12 = None

LoopStep == part = "loop" /\ Loop!Next /\ UNCHANGED <<part, v10, v11, v12>>
LoopFdsStep == part = "fds" /\ LoopFds!Next /\ UNCHANGED <<part, v10, v11, v12>>
StreamsStep == part = "streams" /\ Streams!Next /\ UNCHANGED <<part, v11, v12>>
UnitStep == part = "unit" /\ Unit!Next /\ UNCHANGED part
HostStep == part = "host" /\ Host!Next /\ UNCHANGED <<part, v12>>

Next == LoopStep \/ LoopFdsStep \/ StreamsStep \/ UnitStep \/ HostStep

Spec == Init /\ [][Next]_vv

-----------------------------------------------------------------------------
\* No order of enable, disable, fire, cancel and free on the dispatch queue
\* uses an event's record after its deletion, unbalances a source, destroys
\* twice or loses an enabled defer event (PADispatchMainLoop.cpp).
LoopEventsSound == (part = "loop" => Loop!Safety) /\ (part = "fds" => LoopFds!Safety)

\* A stopped stream stays quiet, a context answers each stream once, an IO
\* proc's error does not end playback, and every frame passed has its own sample
\* time (AudioHardwareImpl, StreamPA); whatever
\* is enabled, selected or lost while the unit runs, its IO procs are the ones
\* it knows, and what it renders is the chunk announced (AUHAL.cpp).
PlaybackSound == (part = "streams" => Streams!Safety) /\ (part = "unit" => Unit!Safety)

\* Ids stay unique, defaults are listed devices and listeners learn of every
\* change and of nothing after their removal (HostDevices.h).
HostSound == part = "host" => Host!Safety
=============================================================================
