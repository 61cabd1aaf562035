# Verification of the Roblox Mac/Linux port: renderer, audio, input and system shims

The repository runs the macOS client on Linux under Darling. Its own core logic
is the native renderer (`RobloxLinuxDev/native/renderer`, a Vulkan backend for
Metal), the window and browser helper (`runtime/browser`, `runtime/shims/appkit`),
CoreAudio on PulseAudio (`runtime/optimized/audio`), a profiler, and a set of
replacements for system services (semaphores, kqueue, video, network). This
directory holds TLA+ models of these parts, TLC configurations that check them,
and TLAPS proofs. Paths below are relative to `src/RobloxLinuxDev`.

## 1. Inventory

| Component | State it keeps | Operations | Hard behaviour |
|---|---|---|---|
| Device event loop (`native/renderer/device.cpp`) | three parallel vectors of waits, wakeup semaphore, idle flag | `pollEvents`, `waitForSemaphore`, `wakeupEventLoop` | lock released during the GPU wait, removal by index, lost wakeups |
| Command buffers (`command-buffer.cpp`) | handlers, encoders, pool, completion semaphore, two completion flags | create, encode, handlers, `commit`, completion, `waitUntilCompleted`, `waitForGPU` | five kinds of threads touch one command; resources must outlive the GPU |
| Semaphore and pool recycling (`device.cpp`, `command-buffer.cpp`) | idle semaphores with counts, idle command pools | acquire, last-owner release | a recycled handle somebody still uses; capacity; end of the 64-bit range |
| Drawable presentation (`drawable-reset.mm`) | route flag, newest serial, queued serials, `presenter`, layer queue | commit-time export, `trackb_present_drawable`, `presentVulkan`, `startVulkanPresentation`, `trackb_prepare_render`, `reset` | the route changes between commit and present; failures; each drawable must be given back exactly once |
| Swapchain presenter (`swapchain.cpp`) | swapchain, four frame slots, one semaphore per image, copy timeline | `present`, `recreate`, destruction | a slot or semaphore used again while the queue or the presentation engine still has it; a recreation between two presents; copies outlive the presenter |
| Window handoff (`egl-config.m`, `wayland.cpp`) | ownership and hide flags, two frame callbacks, page visibility | take over, defer hide, flush, compositor callbacks, pages, hide | stale frames, blank window, callbacks of an older handoff |
| Presentation semaphores (`presentation-semaphore.hpp`) | weak registry, per-layer imports, GL fences | remember, consume, acquire, drop | a binary semaphore signalled again while GL still waits |
| Upload queue (`uploads.cpp`) | four batches, fences, staging arena | `initialize`, `copy`, `flush`, `collect` | ring reuse before the GPU is done, a hint read without the lock, a wait with the lock held |
| Render encoder (`render-command-encoder.cpp`) | bound resources, dirty flags, descriptor arenas, cached views, dynamic state, inline buffers | setters, draws, `endEncoding`, reuse of arenas and targets | caches keyed by an address that is reused; a setter that skips what it believes unchanged |
| Descriptor layout (`library.cpp`, `pipeline.private.hpp`) | rewritten bindings, set layouts, dynamic offsets | rewrite, layout, write | three places decide where a resource lives |
| Render pipelines (`render-pipeline.cpp`, `indium/pipeline-workers.hpp`) | per-variant state, queued jobs, shared libraries | `preparePipeline`, `pipelineFor`, workers, teardown | background builds race the end of what they use |
| Compute pipelines (`compute-pipeline.cpp`) | pipelines and pending futures by size | `createPipeline` | a failed compile with waiters |
| Pipeline cache (`device.cpp`) | cache blob, file, temporary file | load, save | crash during a save, a driver change |
| Buffer memory (`buffer.cpp`, `memory-type.h`) | shared blocks with free slots, idle blocks | create, release, flush | slots that overlap, idle memory without bound, alignment of flushed ranges |
| Device setup (`device.cpp`) | queue families and queues | constructor | a family for every operation |
| Mach semaphores (`runtime/shims/kqueue/semaphore.c`) | slots with value, waiters, generation, state | create, wait, timed wait, signal, signal all, destroy, combined calls | destruction with waiters; a timeout racing a grant; a name of an earlier semaphore |
| Audio main loop (`PADispatchMainLoop.cpp`) | I/O, time and defer events on dispatch sources | libpulse's main-loop API, `perform` | a record freed from its own callback, suspended sources, cancellation that comes later |
| Audio streams and unit (`AudioHardwareImpl*`, `AudioHardwareStreamPA*`, `AUHAL.cpp`) | IO procs, streams, context, running unit | start, stop, render, capture | stop waits with a lock held while callbacks run |
| Audio device registry (`HostDevices.h`, `AudioHardware.cpp`) | devices, defaults, listeners | refresh, queries, add and remove listeners | a listener called after its removal; defaults of devices that left |
| Browser bridge (`runtime/browser/host.cpp`, `shims/appkit/browser.m`) | guest views, host pages, pending decisions and calls, a line protocol | load, script, close, navigation decisions, reconnect | a connection that breaks in the middle of a line, a full queue, a decision nobody answers |
| Wayland input (`runtime/browser/wayland.cpp`) | lock and relative pointer, focus, size reports | lock, unlock, warp, motion, focus, resize | two event queues that do not wait for each other |
| Profiler (`runtime/profiler`) | capture flags, span ring, sampled history, HUD cache | keys, spans, snapshot, export, sweep | three kinds of threads and no common lock |
| HTTP session (`runtime/shims/cfnet/session.m`) | tasks with state, timeout and received data, session validity | create, `resume`, `cancel`, invalidate, transport callbacks | a timeout, a cancellation and a late answer race; each task is answered once |
| Video session (`runtime/optimized/video.m`, `video-host.c`) | retained samples, the host decoder, an invalid flag | decode, flush, wait, invalidate, finalize | one of these calls races another while a frame is at the decoder; a failed decode must give back what it took |
| Input delivery (`runtime/browser/wayland.cpp`, `native/wayland.cpp`, `shims/appkit/wayland.m`) | two queues in the helper, one batch under way, Cocoa's queue, a focus change put aside, held buttons | GTK callbacks, `fill_batch`, `poll_batch`, `receive_batch`, `pump:` | a batch answered late; focus changes that overtake input; a button held when the window is left |
| Fork (`native/native-fork.h`) | locks of the fork handlers, a status pipe | `guest_fork` in parent and child | a child that dies, refuses or answers too late |
| Client updater (`runtime/package/update-roblox.sh`, `scripts/fetch-client.sh`, `bin/roblox-mac`) | the installed client, staging directories, two locks | download, prepare shaders, swap, roll back, launch | an end between any two commands; a launch or a new version in between |
| Darling's launcher and server, kqueue and workqueue shims, packaging | see `PROJECT.json` | | |

What makes each correct is listed with the properties in section 3.
`PROJECT.json` lists every component with its status and every hazard at its
line.

### How the modelled parts interact

An application thread records and commits commands. `commit` acquires a timeline
semaphore, submits to the `VkQueue` under the queue lock and registers the
completion with the device's event loop, directly or from a serial dispatch queue
after the application's scheduled handlers. A polling thread runs `pollEvents`,
which runs the completion; completed handlers run on a concurrent dispatch queue.
A commit that presents then routes its drawable: to the layer's GL queue, which
the main thread empties in `prepareRender` and shows with `CGLFlushDrawable`, or
to the Vulkan swapchain, whose copy completes through the same event loop. The
two routes show on two Wayland surfaces; the helper's UI thread moves the window
from one to the other. Textures stage their uploads on the same `VkQueue`: a
commit submits what is staged before its own commands, and a poll services the
upload queue when a hint says that it has work.

While a command is recorded, its render encoder takes descriptor arenas and
attachment views from the device, and pipelines from the pipeline state, which
compiles them on the drawing thread or on shared workers; every compile may save
the cache file. A frame that goes through GL signals a binary semaphore that the
layer imported. The audio unit starts IO procs of a device, a device's streams
run on its own main loop, and the registry of devices is refreshed by whoever
asks. The browser host is a separate process; the Wayland window lives in the
helper next to it and hears requests of the guest through the UI thread.

## 2. Modules

### The completion core

| Module | Models | State and actions |
|---|---|---|
| `EventLoop` | `device.cpp` `pollEvents`, `waitForSemaphore`, `wakeupEventLoop` | `entries` is the three vectors from slot 1 on; slot 0 is `wakeValue`/`wakeCount`. One action per critical section or driver call of `pollEvents`, because the event loop lock is released between them; the polling mutex is held throughout (`HoldsPolling`). |
| `EventLoopSystem` | the loop with its users | submissions, an in-order GPU, registration in any order after submission, pollers that loop until a stop flag, a shutdown that sets the flag and wakes. `registered` and `done` are history variables. |
| `CommandBuffer` | `command-buffer.cpp` and the recycling in `device.cpp`, on top of `EventLoop` | `phase` is the committing thread's place; `owners` is the set of `shared_ptr` owners of each semaphore wrapper, so that the deleter (`Drop`) runs with the last one; `scheduledQueue` and `completionWork` are the two dispatch queues; `spent` holds closures that ran and are destroyed when `pollEvents` returns. |
| `CommandLifecycle` | abstract: what Metal promises of a command | new, committed, completed, done; execution in submission order; waiting |
| `WindowHandoff` | `egl-config.m` flags, `wayland.cpp` handoff callbacks and page transitions | a surface's content is the serial it shows, 0 when unmapped; `Shown` is the topmost |
| `Presentation` | `drawable-reset.mm`, `presentation-route.hpp`, the results of `SwapchainPresenter::present`, on top of `WindowHandoff` | a frame is one use of a drawable, with its committing thread's place in `pc`; `holder` is the frame that holds `presenterMutex` across the present |
| `UploadQueue` | `uploads.cpp` with its callers: `ConcreteTexture` (from `third_party/patches/indium.patch`), `commit`, `pollEvents`, the device's end | `batch[s]` is a slot of the ring: its command buffer (`ops`), staging bytes (`mem`), fence and retained images; `request` is the staging call inside `begin`, which holds `queueMutex` while it waits; staged operations and commands are numbered, and the number stands for the bytes |

### The renderer around it

| Module | Models | State and actions |
|---|---|---|
| `RenderEncoder` | `render-command-encoder.cpp`: binding, descriptor sets, arenas, targets, retained references | a resource is an address and a generation, so that an address the allocator hands out again is told apart exactly where the code can tell it; one action per setter, draw, end and completion |
| `RenderState` | the same file: dynamic state and `setVertexBytes` | `asked` is what Metal says is current, `seen` the encoder's members, `vk` what the recorded commands leave |
| `DescriptorLayout` | `library.cpp`, `pipeline.private.hpp`, the encoder's writes | from any pair of functions and device limits: rewrite, layout, write |
| `RenderPipelines` | `render-pipeline.cpp`, `pipeline-workers.hpp` | a call is a plan of stages, what happens under one lock is one step; draw threads, workers, three teardowns |
| `ComputePipelines` | `compute-pipeline.cpp` | per thread the place in `createPipeline`, futures by size and try |
| `PipelineCache` | `device.cpp`: load, save, destructor | the two files, the interval, `_pipelineCacheMutex`, a crash at any point and a change of driver |
| `BufferMemory` | `buffer.cpp`, `memory-type.h` | blocks with free slots, the device's list, live buffers; create, release, flush |
| `DeviceQueues` | `PrivateDevice`'s constructor | the pass over the families, requests, fetches |
| `PresentationSemaphores` | `presentation-semaphore.hpp` with `command-buffer.cpp` and `drawable-reset.mm` | a semaphore is named by the frame that created it; commit, two devices, prepare, drop, reset, change of context |
| `Swapchain` | `swapchain.cpp`: `present`, `recreate`, destructor | per slot its semaphore, fence value and command; swapchain generations with their images; the driver's answers to acquire, submit and present are chosen freely |

### Audio, desktop and shims

| Module | Models | State and actions |
|---|---|---|
| `PAMainLoop` | `PADispatchMainLoop.cpp` | the queue's FIFO and what runs on it; per event its sources, descriptors, enabled flags; every operation of the API, which a running callback may call |
| `AudioStreams` | `AudioHardwareImpl`, `AudioHardwareImplPA`, `AudioHardwareStreamPA*` | IO procs, stream objects with their blocks on the device's queue, the context and the streams waiting for it |
| `AUHAL` | `AUHAL.cpp`, `DefaultOutputAU`, `SystemOutputAU` | enabled buses, devices, IO proc ids, the captured packet cut into chunks |
| `AudioHost` | `HostDevices.h`, `AudioHardware.cpp` | the server, the registry, defaults, listeners; refresh under one lock and notification under another |
| `MachSemaphore` | `shims/kqueue/semaphore.c` | every atomic access other threads can tell apart is a step; a name is a slot and a generation |
| `Profiler` | `profiler.cpp`: capture control | input, recording and drawing threads; the atomics, the span ring, exports |
| `SampleWindow` | `sampler.h`, `model.h` | kernel rings, the sweeping worker, the bounded history, the window the HUD counts |
| `BrowserBridge` | `browser/host.cpp`, `shims/appkit/browser.m`, `webview.inc` | guest and host with their output, the connection and the one in the backlog; breaks lose what is inside |
| `WaylandInput` | `browser/wayland.cpp`: pointer, focus, size | requests under way to the compositor, motion and lock events on their way back in two queues |
| `InputDelivery` | the event queues of `browser/wayland.cpp`, the batches of `native/wayland.cpp`, `pump:` of `shims/appkit/wayland.m` | events are numbered; the UI thread's and the main thread's steps, a poll that never waits, Cocoa's dispatch between two pumps |
| `NativeFork` | `native/native-fork.h` `guest_fork` | the places of parent and child, what the child wrote, how often the locks are held; the child may die anywhere, the parent's wait may end at any time |
| `ClientUpdate` | `update-roblox.sh`, `fetch-client.sh`, `roblox-mac`, `launch-settings.sh` | a client is its application, cache and `.version`; one action per command that changes a directory; failure, signal and kill between any two |
| `URLSession` | `shims/cfnet/session.m` | per task its state, its current transfer and the redirects it followed; the main queue's callbacks, the completion queue, time |
| `VideoSession` | `optimized/video.m`, `video-host.c` | per calling thread its place in the call, the session's retained samples and its decoder; what is under a lock is one step, what is outside is another |

### Proof modules

`EventLoopProofs`, `CommandBufferProofs`, `PresentationProofs`,
`RenderPipelinesProofs`, `SwapchainProofs` and `UploadQueueProofs` hold the theorems
about the modules they are named after. `RenderingProofs` and `DesktopProofs` have
those about the specifications of `MCRendering` and `MCDesktop`, with the invariants
of `ComputePipelines`, `PipelineCache`, `PresentationSemaphores` and `ClientUpdate`.
See section 4.

### Instances

`MCCommandBuffer` only adds symmetry sets; `EventLoopSystem`, `Presentation`,
`RenderPipelines` and `InputDelivery` are run as they are. `MCAudio`, `MCRendering`,
`MCDesktop`, `MCCoreLive` and `MCProgress` check several components in one run.
These components share no state, so a behaviour is one of ONE of them, chosen
initially (`part`); the parts use the same variables (`v1`, `v2`, ...), a variable
a part does not need is `None`. A component may be several parts with different
bounds. In `MCRendering`, uploads and the swapchain are instanced through their
proof modules. There and in `MCDesktop`, the bounds of the parts with theorems are
CONSTANTS with values in the cfg. Each component's `Safety` conjoins its invariants, and the
suite's property states it for the part.

Modelling decisions:

* Atomicity follows the locks and, in `MachSemaphore`, the atomic accesses.
  `presentVulkan` holds `presenterMutex` throughout, but the window does not take
  it, so the test of visibility and the present are two steps. Callbacks that the
  code runs after unlocking touch nothing the lock protects and are part of the
  step.
* Calls into the helper run on its UI thread one after the other (`on_ui`);
  the main thread's own flush and its polling of the helper (`pump`) exclude
  each other, so a flush is one step.
* Data is abstracted: an entry is a semaphore, a value and a callback; encoders
  are held, moved or gone; an image is the serial of its frame; a cache image is
  the pipelines in it; a sample is its time.
* Undefined behaviour: polling a destroyed semaphore may deliver the completion or
  not (`Presentation`, `Fairness`).
* External: the GPU (in-order queue), the dispatch queues, GTK, WebKit, the
  compositor, libpulse, the layer's `nextDrawable`/`releaseDrawable`.

Assumptions about what is outside:

* Audio: an IO proc does not start, stop, create or destroy on its own device.
* `RenderEncoder`: with unretained references the application keeps resources
  alive, as Metal demands. One shader stage with one buffer and one texture stands
  for the loop over stages and bindings. A full descriptor pool is not modelled.
* `RenderState`: a stencil reference that was never set is not claimed.
* `DescriptorLayout`: two pushed buffers per stage stand for 16; "Texture" is
  every resource that is not a buffer.
* `BufferMemory`: a buffer's length is the size the driver requires; the data
  constructor is a creation followed by writing contents.
* `PipelineCache`: one process writes the file; a driver accepts its own images.
* `PresentationSemaphores`: one device and one layer; any frame may be dropped.
* `MachSemaphore`: a slot is created again only when no other thread is inside a
  call on its earlier semaphore (see Observations).
* `BrowserBridge`: the application does not load a view for the first time after
  closing it, nor script a closed view; lines stay below the 1 MB limit. A close
  that is lost with the connection leaves its page until Back.
* `WaylandInput`: `active` means active and visible; the compositor offers both
  pointer protocols; `Init` is after `create_window` and the first polls.
* `InputDelivery`: input-method text is left out, and the application does not hide
  its window while a button is held.
* `NativeFork`: the stock parent hook releases what `failed_parent` and
  `handlers_parent` release together, and the parent can kill its child.
* `ClientUpdate`: a move is a rename, within one filesystem; the launcher's own
  `flock` parent is not killed, and `fetch-client.sh` runs under the updater's lock.
* `Swapchain`: one number stands for both extents; a failed submission leaves the
  acquire's semaphore pending.
* `URLSession`: the transport proposes a redirect as a GET without headers; the
  completion queue runs one block at a time.
* `VideoSession`: the output callback does not call the session; samples are of the
  session's format.
* `SampleWindow`: one capture, the kernel loses no records, and taking a timestamp
  and publishing a sample is one step. `Profiler`: drawing and input are different
  threads.

## 3. Runs

| Run | Instance | Checks |
|---|---|---|
| `event_loop` | 2 pollers, 2 semaphores, 3 completions, 1 extra wakeup | removal by index stays valid (`SnapshotIsFront`), no early, lost, doubled or reordered callback (`RunsAfterSignal`, `RunsOnceInOrder`), no sleep over work, wakeup values |
| `command_buffer` | 2 commands, 3 semaphores, 2 pools, pool capacities 1, timelines end at 2, 1 waiter, 1 reader, every application call | `RecyclingSafe`: nothing that is recycled is still used; `ReadsAndSerialsInOrder`; `HeldUntilDone`: resources outlive execution; `ImplementsLifecycle`: refinement of `CommandLifecycle` |
| `presentation` | 4 frames, 2 drawables, every result of a present, 2 changes by the user | `DrawablesAccounted`: one releaser per drawable, GL shows its own export; `WindowKeepsNewest`: never an older frame, never blank |
| `core_live` | 1 poller, 2 completions; 2 commands, the handlers of one never return; 2 frames, 2 drawables, 2 changes | completions are delivered and a shutdown ends the poller; the other command completes and its waiters return; every drawable but the newest GL frame is released |
| `audio` | the parts of `MCAudio` | see below; deadlock is checked: these components always have a next call |
| `rendering` | the parts of `MCRendering` | see below |
| `desktop` | the parts of `MCDesktop` | see below |
| `render_pipelines` | 2 draw threads, 1 worker, 3 variants, 1 queued job | `PipelinesSound`: jobs do not outlive the pipeline state or shader they use, no pipeline leaks, rejected work is tried again; `OnlyForward`: a closed state stays idle and a ready variant only improves; `CallsEnd` |
| `progress` | the parts of `MCProgress` | `CallersReturn`: threads get out of `perform`, `AudioDeviceStop`, semaphore waits compute pipeline requests and staging calls; `WorkEnds`: freed Pulse events are deleted, streams are answered, navigations decided, script calls answered, GL waits end, failed compiles leave nothing, the bridge reconnects, calls of `present` return, data tasks are answered, input that occurred is delivered |
| `presentation_lost` | 2 frames, failures | **violated**: see findings |
| `presentation_browser` | 2 frames, a page opens | **violated**: see findings |
| `input_release` | 1 button, 3 input events, 2 focus changes, batches of 2 | **violated**: see findings |

What the properties of the suites consist of:

| Property | Component: its invariants |
|---|---|
| `LoopEventsSound` | `PAMainLoop`: no source or fire uses a deleted record (`IoRecordOutlivesSources`, `DeferRecordOutlivesFires`), suspensions balance, the destroy callback runs once, an enabled defer event will fire |
| `PlaybackSound` | `AudioStreams`: nothing is called after a stop (`QuietAfterStop`), a stream's context is answered once, playback goes on after an IO proc's error, every frame passed between an IO proc and Pulse has a sample time of its own, also across refused writes (`FramesTimedOnce`). `AUHAL`: the IO procs on the devices are those the unit knows, stopped means silent, streams have the unit's format, an input callback renders its own chunk |
| `HostSound` | `AudioHost`: ids are unique, defaults are listed, no call after removal, listeners know the current value, a list that was sized fits its copy |
| `EncodersSound` | `RenderEncoder`: draws read what was set, from resources that live; sampled textures are tracked; a cached view is of the attachment itself; an arena has one user |
| `DrawStateCurrent` | `RenderState`: stencil reference, depth-stencil and fixed-function state at a draw are those asked for; inline slices are disjoint |
| `DeviceChoicesAgree` | `DescriptorLayout`: shader and layout agree, writes reach the shader, offsets are in binding order, limits hold. `DeviceQueues`: every operation is served by a family that supports it, with the fewest families, and fetched queues exist |
| `MemorySound` | `BufferMemory`: buffers are apart, idle memory is bounded, flushes cover the written bytes and stay in the allocation |
| `ComputeShared` | `ComputePipelines`: one compile per size at a time, a pending entry has an owner, what a caller gets is the cached one |
| `PresentsReuseSafely` | `PresentationSemaphores`: at most one signal ahead, a GL wait takes its own frame's signal, an import's fence is free when it is reused. `Swapchain`: a slot and a rendered semaphore are free when they are used again (`SlotFreeForReuse`, `RenderedFreeForReuse`), only the live swapchain is used, waits are for values that were submitted, a drawable is released exactly when its result says so (`ReleasedAsPromised`) |
| `UploadsSound` | `UploadQueue` (ring of 2, blocks of 4 bytes aligned to 2, sizes 1 and 5, 6 operations and commands): uploads and commands execute once and in order, copies read their own bytes and live images, an idle queue holds nothing, large staging buffers are given back, `begin` waits only when the ring is full |
| `CacheKept` | `PipelineCache`: the file is whole after any crash, a start is warm after an orderly end, what is saved is not lost |
| `ShimsSound` | `MachSemaphore`: waiters accounted for, permits conserved, no lost wakeup, a slot freed once. `NativeFork`: a fork that returns a child returns one that checked in, after a failure none is left (`OutcomeTrue`), the handlers' locks are released once on every path (`LocksBalanced`) |
| `CapturesExact` | `Profiler`: spans lie within one period, collectors stop when disabled, exports of one frozen state agree, a cached layout is current. `SampleWindow`: a window that does not say it is truncated has exactly the samples of its interval; every sample is somewhere |
| `BrowserAnswers` | `BrowserBridge`: every decision answered once and by its own answer; the current page exists |
| `InputFollowsWindow` | `WaylandInput`: only a focused window locks, focus is reported, motion counts in its own capture, a jump only after late motion, a wrong size is corrected once |
| `InputDelivered` | `InputDelivery`: no event is lost, doubled or passed by another (`DeliveredInOrder`, `PolledOnce`), motion is merged with motion only, a blur releases every button the application holds (`ButtonsAgree`), the application ends with the window's focus |
| `TasksAnswered` | `URLSession`: a task is answered once (`AnsweredOnce`), a cancellation that came first is the answer (`CancelWins`), a success hands over all the data, a timeout comes at the end of an idle or the resource interval and no later, headers do not go to another origin over any redirects, a task that ended holds neither timer nor connection |
| `VideoRetained` | `VideoSession`: the sample of every packet that the decoder may still deliver is retained (`SamplesRetained`), retained samples are bounded, no callback comes after an invalidation has returned, the open decoder is the session's, a packet is called back once, and a decode that does not announce its frame as asynchronous has called back |
| `ClientKeptWhole` | `ClientUpdate` (2 updaters, 2 versions, 3 updates or launches, 1 kill): application, cache and `.version` of the installed client belong together, a client is installed or can still be put back unless a kill or a failed cleanup fell between the two renames, and no client that runs is moved |

Bounds. Two pollers are needed for the exclusion that the removal by index rests
on, three completions for a scan that finds the first and the third ready. Two
commands and capacity 1 make a semaphore or pool pass from one command to the
other and overflow the pool; `MaxCount = 2` makes a recycled timeline reach its
last value. Four frames are what a complete round trip takes: a GL frame that
starts the swapchain, a Vulkan frame, one that meets the HUD and falls back, and
a GL frame that ends the handoff; and what it takes to signal a presentation
semaphore twice with one frame dropped between. In the upload queue a size above
the block gives a staging buffer whose end is not aligned, so that the aligned
offset passes the capacity; six operations wrap a ring of two more than once, with
or without failures. The encoder's parts vary what competes: two textures, two
buffers, two pipeline states or two encoders, each with an address used twice and
caches of one entry. Descriptor layouts are checked for every pair of functions of
up to two bindings on limits around the ones that matter, queue families for
every list of up to four. Three threads on one Mach semaphore let a waiter time out
while another is granted and the third destroys. Caches, rings and queues are cut
to one or two entries so that eviction and rejection happen. `MaxWakes`,
`MaxHandlers`, `MaxToggles`, `Calls` and the other `Max` constants marked "bound"
in the modules bound what the environment does. Deadlock is not checked
where the system may stop when nobody makes a further call; `audio` checks it.

Liveness is stated as "again and again nothing is outstanding" (`[]<>`): what is
submitted in a behaviour is bounded and an end is final, so this says that
everything outstanding ends, in one formula for all parts of a run.

Fairness. Threads, dispatch queues and the GPU make progress (weak fairness on
their steps). Strong fairness is assumed where other work comes between: the queue
runs every block and every cancellation, a connection attempt of libpulse ends,
and a futex timeout fires however often its sleep is interrupted, because its
deadline is absolute. Callbacks return, and after some time nothing but its
constructor suspends the audio loop. Both main loops of the browser bridge run and
WebKit finishes evaluations. Both devices of the presentation semaphores work
through what was submitted. A present goes on, and the queue and the presentation
engine work through what they have. For data tasks the main queue and the
completion queue run their blocks and time passes. The UI thread answers a request
for input, the timer pumps again, and Cocoa dispatches what is posted. Not assumed: that the application commits or presents,
that a sleeping poll times out, that a stuck handler returns, that the main thread
renders when no drawable is queued, or that polling a destroyed semaphore delivers
anything.

That a staging call returns needs only the GPU and the resumed call; it does not assume that
anybody polls or commits. That staged work is submitted without a further commit
is not claimed: a sleeping poll does not service the queue, which
`uploads.hpp:18-21` accepts.

### Findings

* `presentation_lost`: after `Failed` or `Lost`, `presentVulkan` deletes the
  presenter. Its destructor waits for the copies on the GPU and destroys their
  timeline semaphore, but the event loop may still have waits on it: the
  completions of copies that finished and were not yet polled. `swapchain.hpp:21`
  promises that `released` runs.
* `presentation_browser`: a page that opens between `visible()` and the present
  ends up under the Vulkan surface, and later frames return early because "the
  browser transition already unmapped both child surfaces"
  (`drawable-reset.mm:245`).
* `input_release`: `poll_event` returns focus changes before input queued earlier.
  A press that is in SDL's queue when the window loses focus is polled after the
  `BLUR` that was to end held buttons (`wayland.m:473`); its release goes to
  another surface, and the deactivated application keeps holding the button.

### Observations

Met while modelling; each is outside what a run claims.

* `semaphore.c`: a slot that is created again while a thread is still leaving its
  earlier semaphore may be freed twice; a destruction may make a waiter report
  success without a permit; a timed wait may outlive its deadline when a later
  waiter takes the grant it was to get.
* `AudioHardwareStreamPAOutput.cpp`: after a `pa_stream_write` that fails the next
  callback gives the IO proc the same sample time again; sample times increase by
  what Pulse took, not from call to call.
* `profiler.cpp`: spans that end after the freeze make repeated exports of one
  frozen window differ in those spans.
* `wayland.cpp`: motion that was under way when the pointer was released may count
  the release hint's jump; a size that changes and changes back within one report
  interval is not corrected.
* `wayland.m`: text is inserted at once and may pass key events that are still
  posted; hiding the window forgets a held button without releasing it.
* `update-roblox.sh`: `kill -9` between the two renames leaves the old client only
  in its `.update.*` directory; a launch that had found it before then makes a
  `RobloxVersion` with nothing but settings.
* `video.m`: a flush that races an invalidation may open a decoder again in the
  invalid session; it stays until the session is finalized.
* `swapchain.cpp`: a window size outside the surface's limits is clamped, never
  equals the extent that was asked for, and recreates the swapchain every frame.
* `drawable-reset.mm`: when a frame that reuses an imported semaphore is dropped,
  the import stays unconsumed in the layer's cache until the context changes.

## 4. Proofs

The theorems hold for every value of the constants: any sets of threads,
semaphores, commands, frames and versions, any capacities and bounds. Eight
modules hold them.

| Module | Theorem | States |
|---|---|---|
| `EventLoopProofs` | `TypeCorrect`, `SnapshotStaysFront`, `CallbacksRunAfterSignal`, `NoLostWakeup`, `WakeupsIncrease`, `CallbacksOnceInOrder` | `TypeOK`, `SnapshotIsFront`, `RunsAfterSignal`, `NoSleepOverWork`, `WakeValueAhead`, `RunsOnceInOrder` |
| `CommandBufferProofs` | `RecyclingStaysSafe`, `ReadsAndSerialsStayInOrder`, `ResourcesHeldUntilDone`, `CommandsImplementLifecycle` | `RecyclingSafe`, `ReadsAndSerialsInOrder`, the action property `HeldUntilDone`, the refinement `ImplementsLifecycle` |
| `PresentationProofs` | `DrawablesStayAccounted`, `WindowOnlyMovesOn` | `DrawablesAccounted`, the action property `WindowKeepsNewest` |
| `RenderPipelinesProofs` | `PipelinesStaySound`, `PipelinesOnlyForward` | `PipelinesSound`, the action property `OnlyForward` |
| `SwapchainProofs` | `PresenterReusesSafely` | `Safety` of `Swapchain` |
| `UploadQueueProofs` | `UploadsStaySound` | `Safety` of `UploadQueue` |
| `DesktopProofs` | `ClientStaysSafe` | `ClientKeptWhole` |
| `RenderingProofs` | `UploadsAlwaysSound`, `ComputeAlwaysShared`, `PresentsAlwaysReuseSafely`, `CacheAlwaysKept` | `UploadsSound`, `ComputeShared`, `PresentsReuseSafely`, the action property `CacheKept` |

Every safety property of the runs `event_loop`, `command_buffer`, `presentation`
and `render_pipelines` is therefore a theorem, the refinement included, and so are
four properties of `rendering` and one of `desktop`.

### Assumptions

They are named in the modules and TLC evaluates them on the runs:
`MaxWakes \in Nat`; `CommandBufferAssumption` (bounds are naturals, a timeline
has a first value, `None` is no handle); `PresentationAssumption` and
`ResultsAssumption` (finitely many frames and drawables, `None` is neither);
`RenderPipelinesAssumption` (finitely many threads, drawing threads are not
workers, the prepared variant does not clamp, `None` is no job).
Finiteness is used for counting only: serials drawn, workers inside a build,
pipelines held.

The other theorems state theirs. For the client updater, `None` is not the record
of a client. For uploads, the ring, the alignment and the bound on a batch are
positive, blocks and staging sizes are naturals, and `None` is neither a slot nor a
staging call. For the swapchain, there is at least one slot and the number of
images is a natural. For compute pipelines, `MaxTries \in Nat`. For the cache,
`None` is neither a thread nor a cache image; for the presentation semaphores, it
is no frame. The constants have such values in the runs.

### Arguments

No listed property is inductive alone. What each inductive invariant adds:

* Event loop, `IInv`: `OnePoller`, without which another poller would shift the
  indices of the first; `ScanSound`, the positions found so far are increasing
  positions of the copy whose waits are signalled, which needs `SnapshotIsFront`
  to carry over to the shared vectors at the removal; `ReadySound`, what was moved
  out is signalled; `Monotone`, the GPU's queue holds increasing values per
  semaphore, so a wait that was signalled stays so.
* Event loop, `OInv`, on top of it: callbacks have distinct names (`IdsOnce`),
  the vectors are in registration order (`EntriesInOrder`) and a scan collects
  increasing positions, so moving out by index keeps the order; vectors, moved
  out and done are pairwise apart (`ReadyApart`, `DoneOnce`) and cover everything
  registered (`NoneLost`).
* Command buffers: a completion is in one place (`ScheduledOK`, `EntriesOK`,
  `ReadyOK`, `SpentOK`), so it runs once; the owners of a semaphore are exactly
  those that the phases, queues and readers say (`OwnersOK`), all on behalf of one
  command (`TenantOK`), whose value the count still is (`GpuOK`, `ReadersOK`).
  The last owner's drop then finds nothing pending, which is what
  `PooledSemaphoreIdle` needs. `PhasesOK` ties pool, encoders and flags to the
  place of the committing thread.
* Refinement: under that invariant every action is a step of `CommandLifecycle`
  or changes no mapped variable; the mapping is read one command at a time
  (`BarsRead`).
* Presentation: a drawable has one user (`OneUser`), a callback is that user's
  (`CallbacksOK`), and a frame whose thread handed it on is kept in the layer's
  queue, as `last` or as `lastGL`, each of them apart from the others (`QueueOK`,
  `LastOK`, `KeptSomewhere`): from these follows that exactly one place will give
  it back. `ExportsOK` carries a frame's export and serial to the queue. For the
  window `WindowOK` adds that no surface is newer than the newest frame taken and
  that each handoff waits for a frame at least as new as the one it replaces.
* Render pipelines: plans of calls are those the code can be in (`ThreadsOK`); at
  most one preparation and one optimized compile per variant are submitted, queued
  or running, and the futures cover them (`PreparationOK`, `OptimizationOK`), so
  the destructor's waits (`TeardownOK`) end after the last user; `_running` counts
  the workers in a build (`RunningOK`).
* Client updater: a staged client is whole before it is moved (`UpdatersOK`), and
  one updater, one orphaned command or one running client holds the locks
  (`LocksOK`).
* Swapchain: what is under way is read off the queue. The copies in it carry
  ascending values up to the last one submitted (`ValuesOK`), each for a slot that
  records that value as `done` (`DoneOK`), and a present follows the copy to its
  image (`PresentsOK`). A semaphore that is not free is one the queue or the
  thread's own place still accounts for (`SlotsOK`, `RenderedOK`), so `SlotFree`
  and an acquired image are enough to use them again. `ThreadOK` says what was
  waited for at each place of `present` and `recreate`.
* Uploads: the numbers in the queue, followed by those of the batch being filled,
  are the staged ones in order (`InOrder` over `FlushedQueue`); a batch is in the
  queue at most once (`OnceOK`) and exactly when its fence is pending
  (`FencesOK`). Until then it holds the bytes and images of its operations
  (`HoldsOK`, `KeptOK`). `RingOK`: from the oldest slot on, batches are submitted
  in ring order unless their turn ended in an exception, so that a call that waits
  for one slot waits only when all are on the GPU. `RequestOK` is
  the place of a staging call that waits inside `begin`.
* Compute pipelines: a pending future, and an entry for one, belong to the one
  thread that is compiling that size (`EntryOwned`, `PendingOwned`); what is alive
  is cached or in that thread's hands (`AliveOwned`), and what a future or a caller
  has is cached (`ValuesCached`, `GotOwned`).
* Pipeline cache: only the lock's holder is between sizing and renaming
  (`HolderOwned`), and what the file holds is part of what is in memory and of what
  is about to replace it (`FileCovered`), so the rename takes nothing out; and that
  is part of what is in memory, so it stays true of the next save.
  `KeptSaved` covers the end of a session.
* Presentation semaphores: at most one frame per semaphore is between its signal
  and its wait (`OneActive`), its steps are in the streams of the two devices once
  (`StreamsOnce`), and an import that may be reused has an unused semaphore and a
  fence nobody waits for (`ImportsSound`). All steps but a commit only let frames
  age, which keeps the invariant in one lemma (`AgingKeeps`); the commit is the one
  step that makes a frame active again.
* Suites: `part` never changes, and a step of a behaviour is a step of its part or
  leaves it alone (`RenderingStep`, `DesktopStep`), so an invariant of the component
  is one of the suite.

The proofs go action by action, with one lemma per part of the invariant an action
disturbs; lemmas about appending to, removing from and selecting out of sequences
carry the rest. TLC was run with these invariants on the instance of the
component's run as well (3.8 million states for the event loop, 1.5 million for
presentation, 4.1 million for `rendering`), so none of them excludes a state the
run reaches; the only conjunct left out there is the type of an upload batch,
whose sets TLC cannot decide.

The refinement proof found overlapping arms in the mapping of commands to
abstract stages (`StageOf`): TLC takes the first arm that is true, TLA+ any.
The arms are now disjoint, as are those of the same kind in `BrowserBridge`,
`WaylandInput` and `DescriptorLayout`; those of `prepareRender` in
`PresentationSemaphores` are disjoint because no frame is queued twice
(`StreamsOnce`).

### Only model-checked

* Liveness and fairness (`core_live`, `progress`, `CallsEnd`): out of the prover's
  reach.
* The suite `audio`: `LoopEventsSound`, `PlaybackSound`, `HostSound`.
* In `rendering`: `EncodersSound`, `DrawStateCurrent`, `DeviceChoicesAgree`,
  `MemorySound`. `DescriptorLayout` and `DeviceQueues` are computations over lists,
  and what a fold over a list of any length returns needs induction over data.
* In `desktop`: `ShimsSound`, `CapturesExact`, `BrowserAnswers`,
  `InputFollowsWindow`, `InputDelivered`, `TasksAnswered`, `VideoRetained`. Nothing
  in most of these is beyond the prover; their invariants are not worked out.
* The three violations, by their nature.

## 5. Not modelled, and why

* Texture dependency semaphores, timestamp pools and the upload service inside
  `CommandBuffer`'s `commit` and `EventLoop`'s `pollEvents`: they do not touch the
  state of those modules; the upload service is in `UploadQueue`.
* Vulkan errors of the upload queue other than those of allocating staging
  memory: they mean a lost device, and nothing in the repository catches them.
* A second present of a drawable and a disowned layer: the code ends them at once.
* Wayland surface synchronization and geometry: they change how a commit of a
  surface is applied, not which frame it holds. Clipboard and key
  translation pass data through and keep no state that a property is about.
* The translation of Metal descriptors into Vulkan structures, feature
  negotiation, sample conversion, what the HUD prints and symbolisation:
  data without control.
* Compute and blit encoders: upstream code outside the repository.
* Failures on which the code aborts.
* Components marked `not_modelled` in `PROJECT.json`, with the reason there:
  the launcher and server of Darling (vendored, process setup), build and
  packaging scripts, and the ones the plan lists.

## 6. Plan

1. Texture readback (`indium/texture-readback.hpp`) on `UploadQueue` and
   `CommandBuffer`: what it returns is the last region written.
2. Texture dependencies: order of readers
   and writers across queues.
3. System shims: kqueue wakeups, workqueue threads, libkqueue's map.
4. Proofs: `OutcomeTrue` and `LocksBalanced` of `NativeFork`, the record lifetimes
   of `PAMainLoop`, then `DeliveredInOrder` of `InputDelivery`, which is an argument
   like that for `UploadQueue`.
