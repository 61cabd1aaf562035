---------------------------- MODULE Presentation ----------------------------
(***************************************************************************)
(* The presentation of drawables (native/renderer/drawable-reset.mm): each *)
(* committed frame goes to GL or to the Vulkan swapchain, or is dropped,   *)
(* while the route changes under it.  Committing threads, the main thread  *)
(* (prepareRender and flush), the device's event loop and the Wayland      *)
(* helper run concurrently; presenterMutex serializes the presenters.      *)
(*                                                                         *)
(* A frame is one use of one of the layer's drawables.  The swapchain, the *)
(* layer's drawable queue and the texture's presentation semaphore are     *)
(* external and modelled from their use.  The layer outlives its frames,   *)
(* and the application presents a drawable at most once.                   *)
(***************************************************************************)
EXTENDS WindowHandoff, Sequences, FiniteSets
LOCAL INSTANCE TLC

CONSTANTS Frames,     \* commits that render a drawable
          Drawables,  \* the layer's drawables (3)
          Results,    \* results of SwapchainPresenter::present that occur
          MaxToggles, \* bound on changes of glRequired and of the open page
          None

ASSUME ResultsAssumption == Results \subseteq {"Presented", "Dropped", "Failed", "Lost"}

\* nil is no drawable and no frame; runs are finite.
ASSUME PresentationAssumption ==
  /\ None \notin Frames \cup Drawables
  /\ IsFiniteSet(Frames) /\ IsFiniteSet(Drawables) /\ MaxToggles \in Nat

VARIABLES pc,           \* where a frame's committing thread is
          drawable,     \* the drawable a frame uses
          export,       \* the exportable semaphore its thread holds, by frame
          serial,       \* the presentation serial it drew (0: none yet)
          nextSerial,   \* trackb_next_present_serial
          texture,      \* presentation semaphore of a drawable's texture: its frame
          semaphore,    \* _semaphore of a drawable: its frame
          callback,     \* _didPresentCallback of a drawable: the frame it ends
          queuedSerial, \* queuedPresentSerials (0: none)
          layerQueue,   \* the layer's queued drawables
          last,         \* _lastPresentedDrawable
          vulkan,       \* device.vulkanPresentation
          presenter,    \* "none", "live", "unavailable"
          glAttached,   \* glSurfaceAttached
          newest,       \* newestPresentationSerial
          holder,       \* the frame that holds presenterMutex across steps
          lastGL,       \* the drawable its presentVulkan took from `last`
          copies,       \* frames whose copy's completion the event loop watches
          released,     \* how often each frame's presented callback ran
          hud,          \* glRequired()
          toggles       \* changes made so far

frameVars == <<pc, drawable, export, serial, nextSerial>>
drawableVars == <<texture, semaphore, callback, queuedSerial, released>>
layerVars == <<layerQueue, last>>
routeVars == <<vulkan, presenter, glAttached, newest, holder, lastGL, copies>>
envVars == <<hud, toggles>>
vars == <<windowVars, frameVars, drawableVars, layerVars, routeVars, envVars>>

Pcs == {"none", "acquired", "encoding", "rendered", "submitted", "abandoned",
        "gl", "enqueued", "starting", "vulkan", "copying", "end"}

-----------------------------------------------------------------------------
\* presentationSerialIsStale
Stale(n) == n <= newest

\* didPresent or didDrop of these drawables: each runs its callback once.
DidEnd(D) ==
  /\ released' = [f \in Frames |-> released[f] + Cardinality({d \in D : callback[d] = f})]
  /\ callback' = [d \in Drawables |-> IF d \in D THEN None ELSE callback[d]]

\* A drawable that no frame uses.
Free(d) == \A f \in Frames : drawable[f] = d => pc[f] = "abandoned" \/ released[f] > 0

Goto(f, to) == pc' = [pc EXCEPT ![f] = to]

\* nextDrawable: a free drawable is reset (CAMetalDrawableActual::reset).
NextDrawable(f, d) ==
  /\ pc[f] = "none" /\ Free(d)
  /\ Goto(f, "acquired")
  /\ drawable' = [drawable EXCEPT ![f] = d]
  /\ texture' = [texture EXCEPT ![d] = None]
  /\ semaphore' = [semaphore EXCEPT ![d] = None]
  /\ callback' = [callback EXCEPT ![d] = None]
  /\ queuedSerial' = [queuedSerial EXCEPT ![d] = 0]
  /\ UNCHANGED <<windowVars, export, serial, nextSerial, released, layerVars, routeVars, envVars>>

\* commit decides on the GL export before it takes the queue lock ...
CommitRoute(f) ==
  /\ pc[f] = "acquired"
  /\ Goto(f, "encoding")
  /\ export' = [export EXCEPT ![f] = IF vulkan THEN None ELSE f]
  /\ UNCHANGED <<windowVars, drawable, serial, nextSerial, drawableVars, layerVars, routeVars, envVars>>

\* ... and under it publishes the export, and draws the serial if the command
\* also presents the drawable.
CommitSubmit(f) ==
  /\ pc[f] = "encoding"
  /\ texture' = IF export[f] # None THEN [texture EXCEPT ![drawable[f]] = export[f]] ELSE texture
  /\ export' = [export EXCEPT ![f] = None]
  /\ \/ /\ Goto(f, "submitted")
        /\ serial' = [serial EXCEPT ![f] = nextSerial]
        /\ nextSerial' = nextSerial + 1
     \/ /\ Goto(f, "rendered")
        /\ UNCHANGED <<serial, nextSerial>>
  /\ UNCHANGED <<windowVars, drawable, semaphore, callback, queuedSerial, released,
                 layerVars, routeVars, envVars>>

\* The application drops a rendered drawable without presenting it.
Abandon(f) ==
  /\ pc[f] = "rendered"
  /\ Goto(f, "abandoned")
  /\ UNCHANGED <<windowVars, drawable, export, serial, nextSerial, drawableVars, layerVars,
                 routeVars, envVars>>

\* trackb_present_drawable up to the routing, from commit or from -present,
\* which draws the serial only now: install the callback, consume the texture's
\* export, and choose the route (presentationRoute).
PresentDrawable(f) ==
  LET d == drawable[f]
      glSemaphore == texture[d]
  IN  /\ \/ pc[f] = "submitted" /\ UNCHANGED <<serial, nextSerial>>
         \/ /\ pc[f] = "rendered"
            /\ serial' = [serial EXCEPT ![f] = nextSerial]
            /\ nextSerial' = nextSerial + 1
      /\ texture' = [texture EXCEPT ![d] = None]
      /\ export' = [export EXCEPT ![f] = glSemaphore]
      /\ \/ /\ glSemaphore # None \/ vulkan
            /\ Goto(f, IF glSemaphore # None THEN "gl" ELSE "vulkan")
            /\ callback' = [callback EXCEPT ![d] = f]
            /\ UNCHANGED released
         \/ /\ glSemaphore = None /\ ~vulkan
            /\ Goto(f, "end")
            /\ released' = [released EXCEPT ![f] = @ + 1]
            /\ UNCHANGED callback
      /\ UNCHANGED <<windowVars, drawable, semaphore, queuedSerial, layerVars, routeVars, envVars>>

\* GL route: under presenterMutex, drop a stale frame or record its serial.
EnqueueGL(f) ==
  LET d == drawable[f]
  IN  /\ pc[f] = "gl" /\ holder = None
      /\ IF Stale(serial[f])
         THEN /\ Goto(f, "end")
              /\ DidEnd({d})
              /\ UNCHANGED queuedSerial
         ELSE /\ Goto(f, "enqueued")
              /\ queuedSerial' = [queuedSerial EXCEPT ![d] = serial[f]]
              /\ UNCHANGED <<callback, released>>
      /\ UNCHANGED <<windowVars, drawable, export, serial, nextSerial, texture, semaphore,
                     layerVars, routeVars, envVars>>

\* Publish the semaphore, queuePresent, then test the flag.
QueuePresent(f) ==
  /\ pc[f] = "enqueued"
  /\ semaphore' = [semaphore EXCEPT ![drawable[f]] = export[f]]
  /\ export' = [export EXCEPT ![f] = None]
  /\ layerQueue' = Append(layerQueue, drawable[f])
  /\ Goto(f, IF vulkan THEN "end" ELSE "starting")
  /\ UNCHANGED <<windowVars, drawable, serial, nextSerial, texture, callback, queuedSerial,
                 released, last, routeVars, envVars>>

\* startVulkanPresentation: set up the swapchain, or resume it.
StartVulkanPresentation(f) ==
  /\ pc[f] = "starting" /\ holder = None
  /\ Goto(f, "end")
  /\ glAttached' = TRUE
  /\ \/ /\ presenter = "unavailable" \/ hud
        /\ UNCHANGED <<presenter, vulkan, surface>>
     \/ /\ presenter = "live" /\ ~hud
        /\ vulkan' = TRUE
        /\ UNCHANGED <<presenter, surface>>
     \/ /\ presenter = "none" /\ ~hud       \* no game surface yet
        /\ UNCHANGED <<presenter, vulkan, surface>>
     \/ /\ presenter = "none" /\ ~hud       \* the swapchain cannot be created
        /\ presenter' = "unavailable"          \* or there is no helper
        /\ surface' \in {surface, TRUE}
        /\ UNCHANGED vulkan
     \/ /\ presenter = "none" /\ ~hud
        /\ presenter' = "live" /\ surface' = TRUE
        /\ vulkan' = TRUE
  /\ UNCHANGED <<flagVars, handoffVars, browserVars, contentVars, drawable, export, serial,
                 nextSerial, drawableVars, layerVars, newest, holder, lastGL, copies, envVars>>

-----------------------------------------------------------------------------
(* presentVulkan, under presenterMutex. *)

\* The frame is dropped, as is the route when it has changed or must change.
VulkanDrop(f) ==
  /\ pc[f] = "vulkan" /\ holder = None
  /\ Goto(f, "end")
  /\ \/ /\ Stale(serial[f])
        /\ DidEnd({drawable[f]})
        /\ UNCHANGED <<windowVars, vulkan, last>>
     \/ /\ ~Stale(serial[f])
        /\ ~vulkan \/ presenter # "live"
        /\ vulkan' = FALSE
        /\ DidEnd({drawable[f]})
        /\ UNCHANGED <<windowVars, last>>
     \/ /\ ~Stale(serial[f]) /\ vulkan /\ presenter = "live" /\ hud
        /\ vulkan' = FALSE
        /\ DeferHide
        /\ DidEnd({drawable[f]})
        /\ UNCHANGED <<browserVars, surface, last>>
     \/ /\ ~Stale(serial[f]) /\ vulkan /\ presenter = "live" /\ ~hud
        /\ browserVisible
        /\ last' = None
        /\ DidEnd({drawable[f], last} \ {None})
        /\ UNCHANGED <<windowVars, vulkan>>
  /\ UNCHANGED <<drawable, export, serial, nextSerial, texture, semaphore, queuedSerial,
                 layerQueue, presenter, glAttached, newest, holder, lastGL, copies, envVars>>

\* Mutant: the GL route's last drawable is not taken over.
VulkanTakeoverKeepsLast(f) ==
  /\ pc[f] = "vulkan" /\ holder = None
  /\ ~Stale(serial[f]) /\ vulkan /\ presenter = "live" /\ ~hud /\ ~browserVisible
  /\ Goto(f, "copying")
  /\ holder' = f
  /\ UNCHANGED <<last, lastGL>>
  /\ IF glAttached THEN Takeover ELSE UNCHANGED <<flagVars, handoffVars, contentVars>>
  /\ UNCHANGED <<browserVars, surface, drawable, export, serial, nextSerial, drawableVars,
                 layerQueue, vulkan, presenter, glAttached, newest, copies, envVars>>

\* The window is visible: take over from GL, then present with the lock held.
VulkanTakeover(f) ==
  /\ pc[f] = "vulkan" /\ holder = None
  /\ ~Stale(serial[f]) /\ vulkan /\ presenter = "live" /\ ~hud /\ ~browserVisible
  /\ Goto(f, "copying")
  /\ holder' = f
  /\ lastGL' = last /\ last' = None
  /\ IF glAttached THEN Takeover ELSE UNCHANGED <<flagVars, handoffVars, contentVars>>
  /\ UNCHANGED <<browserVars, surface, drawable, export, serial, nextSerial, drawableVars,
                 layerQueue, vulkan, presenter, glAttached, newest, copies, envVars>>

\* Presented; out of date swapchains accept a frame that never shows.
VulkanPresented(f) ==
  /\ newest' = serial[f]
  /\ copies' = copies \cup {f}
  /\ vkBuf' \in {serial[f], vkBuf}
  /\ IF glAttached THEN RetireGL ELSE UNCHANGED vkHandoff
  /\ glAttached' = FALSE
  /\ DidEnd({lastGL} \ {None})
  /\ UNCHANGED <<flagVars, glHandoff, glTex, glBuf, vulkan, presenter>>

\* Mutant: a lost swapchain also drops the frame whose copy still completes.
VulkanBrokenDrops(f, result) ==
  /\ vulkan' = FALSE
  /\ DeferHide
  /\ presenter' = "unavailable"
  /\ copies' = IF result = "Lost" THEN copies \cup {f} ELSE copies
  /\ DidEnd({lastGL, drawable[f]} \ {None})
  /\ UNCHANGED <<newest, glAttached>>

\* Failed or Lost: back to GL.  A lost frame's copy still runs.
VulkanBroken(f, result) ==
  /\ vulkan' = FALSE
  /\ DeferHide
  /\ presenter' = "unavailable"
  /\ copies' = IF result = "Lost" THEN copies \cup {f} ELSE copies
  /\ DidEnd(({lastGL} \cup IF result = "Failed" THEN {drawable[f]} ELSE {}) \ {None})
  /\ UNCHANGED <<newest, glAttached>>

\* SwapchainPresenter::present returns and presentVulkan finishes.
VulkanFinish(f) ==
  /\ pc[f] = "copying"
  /\ Goto(f, "end")
  /\ holder' = None /\ lastGL' = None
  /\ \/ "Presented" \in Results /\ VulkanPresented(f)
     \/ \E result \in Results \cap {"Failed", "Lost"} : VulkanBroken(f, result)
     \/ /\ "Dropped" \in Results
        /\ DidEnd({lastGL, drawable[f]} \ {None})
        /\ UNCHANGED <<flagVars, handoffVars, contentVars, newest, copies, vulkan, presenter, glAttached>>
  /\ UNCHANGED <<browserVars, surface, drawable, export, serial, nextSerial, texture, semaphore,
                 queuedSerial, layerVars, envVars>>

\* The event loop runs a copy's completion: didPresent.
CopyCompleted(f) ==
  /\ f \in copies
  /\ copies' = copies \ {f}
  /\ DidEnd({drawable[f]})
  /\ UNCHANGED <<windowVars, frameVars, texture, semaphore, queuedSerial, layerVars, vulkan,
                 presenter, glAttached, newest, holder, lastGL, envVars>>

-----------------------------------------------------------------------------
(* The main thread. *)

\* The first queued drawable that is not stale, or one past the end.
FirstFresh ==
  CHOOSE i \in 1..(Len(layerQueue) + 1) :
    /\ i <= Len(layerQueue) => ~Stale(queuedSerial[layerQueue[i]])
    /\ \A j \in 1..(i - 1) : Stale(queuedSerial[layerQueue[j]])

\* trackb_prepare_render: drop stale drawables, copy the first fresh one into
\* GL's texture, release the previous one.
PrepareRender ==
  LET n == FirstFresh
      fresh == IF n <= Len(layerQueue) THEN {layerQueue[n]} ELSE {}
      dropped == {layerQueue[i] : i \in 1..(n - 1)}
      took == dropped \cup fresh
  IN  /\ holder = None
      /\ layerQueue # <<>> \/ last # None
      /\ layerQueue' = SubSeq(layerQueue, n + 1, Len(layerQueue))
      /\ queuedSerial' = [d \in Drawables |-> IF d \in took THEN 0 ELSE queuedSerial[d]]
      /\ IF fresh # {}
         THEN /\ last' = layerQueue[n]
              /\ newest' = queuedSerial[layerQueue[n]]
              /\ glTex' = queuedSerial[layerQueue[n]]
              /\ GLFrameReady
         ELSE last' = None /\ UNCHANGED <<newest, glTex, frameReady>>
      /\ DidEnd(dropped \cup ({last} \ {None}))
      /\ UNCHANGED <<owns, hidePending, handoffVars, browserVars, surface, glBuf, vkBuf, frameVars,
                     texture, semaphore, vulkan, presenter, glAttached, holder, lastGL, copies,
                     envVars>>

\* The rest of the window runs on its own.
WindowStep ==
  /\ CGLFlushDrawable \/ CompleteGLHandoff \/ CompleteVulkanHandoff \/ PumpBrowser
  /\ UNCHANGED <<frameVars, drawableVars, layerVars, routeVars, envVars>>

\* The user opens or closes a page or hides the window; the HUD or the software
\* cursor, drawn in GL, appears or disappears.
UserStep ==
  /\ toggles < MaxToggles
  /\ toggles' = toggles + 1
  /\ \/ (TogglePage \/ HideWindow) /\ UNCHANGED hud
     \/ hud' = ~hud /\ UNCHANGED windowVars
  /\ UNCHANGED <<frameVars, drawableVars, layerVars, routeVars>>

-----------------------------------------------------------------------------
Init ==
  /\ WindowInit
  /\ pc = [f \in Frames |-> "none"] /\ drawable = [f \in Frames |-> None]
  /\ export = [f \in Frames |-> None]
  /\ serial = [f \in Frames |-> 0] /\ nextSerial = 1
  /\ texture = [d \in Drawables |-> None] /\ semaphore = [d \in Drawables |-> None]
  /\ callback = [d \in Drawables |-> None] /\ queuedSerial = [d \in Drawables |-> 0]
  /\ released = [f \in Frames |-> 0]
  /\ layerQueue = <<>> /\ last = None
  /\ vulkan = FALSE /\ presenter = "none" /\ glAttached = FALSE /\ newest = 0
  /\ holder = None /\ lastGL = None /\ copies = {}
  /\ hud = FALSE /\ toggles = 0

\* The steps of a committing thread once the application presents.
PresentStep(f) ==
  \/ PresentDrawable(f) \/ EnqueueGL(f) \/ QueuePresent(f) \/ StartVulkanPresentation(f)
  \/ VulkanDrop(f) \/ VulkanTakeover(f) \/ VulkanFinish(f)

Next ==
  \/ \E f \in Frames : \/ \E d \in Drawables : NextDrawable(f, d)
                       \/ CommitRoute(f) \/ CommitSubmit(f) \/ Abandon(f)
                       \/ PresentStep(f) \/ CopyCompleted(f)
  \/ PrepareRender
  \/ WindowStep
  \/ UserStep

Spec == Init /\ [][Next]_vars

\* Threads that present go on; the main thread renders while drawables are
\* queued; the event loop delivers completions as long as the semaphore it polls
\* exists.  Polling a destroyed one is undefined: the completion may never run.
Fairness ==
  /\ \A f \in Frames : /\ WF_vars(pc[f] # "rendered" /\ PresentStep(f))
                       /\ WF_vars(presenter = "live" /\ CopyCompleted(f))
  /\ WF_vars(layerQueue # <<>> /\ PrepareRender)

FairSpec == Spec /\ Fairness

-----------------------------------------------------------------------------
Handle(S) == S \cup {None}
Serials == 0..Cardinality(Frames)

\* Types.
TypeOK ==
  /\ pc \in [Frames -> Pcs] /\ drawable \in [Frames -> Handle(Drawables)]
  /\ export \in [Frames -> Handle(Frames)]
  /\ serial \in [Frames -> Serials] /\ nextSerial \in 1..(Cardinality(Frames) + 1)
  /\ texture \in [Drawables -> Handle(Frames)] /\ semaphore \in [Drawables -> Handle(Frames)]
  /\ callback \in [Drawables -> Handle(Frames)]
  /\ queuedSerial \in [Drawables -> Serials]
  /\ released \in [Frames -> Nat]
  /\ layerQueue \in Seq(Drawables) /\ Len(layerQueue) <= Cardinality(Drawables)
  /\ last \in Handle(Drawables) /\ lastGL \in Handle(Drawables)
  /\ vulkan \in BOOLEAN /\ presenter \in {"none", "live", "unavailable"}
  /\ glAttached \in BOOLEAN /\ newest \in Serials
  /\ holder \in Handle(Frames) /\ copies \subseteq Frames
  /\ {owns, hidePending, frameReady, glHandoff, vkHandoff, current, browserVisible, surface, hud}
       \subseteq BOOLEAN
  /\ {glTex, glBuf, vkBuf} \subseteq Serials
  /\ toggles \in 0..MaxToggles

\* The places that will still end the presentation of a drawable.
Places(d) ==
  ({"thread"} \X {f \in Frames : /\ drawable[f] = d
                                 /\ pc[f] \in {"gl", "enqueued", "vulkan", "copying"}})
    \cup ({"queued"} \X {i \in 1..Len(layerQueue) : layerQueue[i] = d})
    \cup ({"copy"} \X {f \in copies : drawable[f] = d})
    \cup ({"last"} \X ({last} \cap {d})) \cup ({"lastGL"} \X ({lastGL} \cap {d}))

\* "it's guaranteed that the didPresentCallback will invoked (either for
\* presentation or for dropping)" (CAMetalDrawable.mm): across all routes and
\* fallbacks a drawable with a callback is in exactly one place that will end
\* it, one without is in none, and no frame is released twice.
OneReleaser ==
  /\ \A d \in Drawables :
       IF callback[d] = None THEN Places(d) = {} ELSE \E x \in Places(d) : Places(d) = {x}
  /\ \A f \in Frames : released[f] <= 1 /\ (released[f] = 1 => \A d \in Drawables : callback[d] # f)

\* "Its prior export must not make a later Vulkan-only frame look GL-ready"
\* (reset): a drawable queued for GL carries the export and the serial of the
\* very frame that queued it, so GL waits for that frame's rendering.
GLShowsOwnExport ==
  \A i \in 1..Len(layerQueue) :
    LET d == layerQueue[i]
    IN  callback[d] # None /\ semaphore[d] = callback[d] /\ queuedSerial[d] = serial[callback[d]]

\* Drawables and exports stay with their frame: see the parts.
DrawablesAccounted == TypeOK /\ OneReleaser /\ GLShowsOwnExport

\* Neither a late commit, a queued GL frame nor a redraw of GL's stale texture
\* takes the window back to an older frame, whatever route shows it.
NoOlderFrame == Shown # 0 /\ Shown' # 0 => Shown' >= Shown

\* "unmapping here exposes the background" (presentVulkan): once a frame shows,
\* the window is empty only while a browser page is open.
NeverBlank == Shown # 0 /\ Shown' = 0 => browserVisible'

\* The window goes from frame to newer frame: see the two parts.
WindowKeepsNewest == [][NoOlderFrame /\ NeverBlank]_vars

Presented(f) == pc[f] \in {"gl", "enqueued", "starting", "vulkan", "copying", "end"}

\* Every presented drawable returns to the application; only the newest GL
\* frame may be kept ("Preserve Cocotron's one-frame-delayed callback").
EveryDrawableReleased ==
  \A f \in Frames :
    Presented(f) ~> (released[f] = 1 \/ (last = drawable[f] /\ newest = serial[f]))

\* "The browser transition already unmapped both child surfaces" (presentVulkan,
\* when the window is not visible): while a page is open and nobody is in the
\* middle of a present, no frame covers it.
BrowserUncovered == browserVisible /\ holder = None => vkBuf = 0 /\ glBuf = 0

\* Frames and drawables are interchangeable.
Symmetry == Permutations(Frames) \cup Permutations(Drawables)
=============================================================================
