---------------------------- MODULE MCRendering ----------------------------
(***************************************************************************)
(* The renderer around its command buffers: the render encoder, its state, *)
(* descriptor layouts, queue families, buffer memory, compute pipelines,   *)
(* the pipeline cache, presentation semaphores, the swapchain and uploads. *)
(* A behaviour is one of ONE of them, the part, and the parts share the    *)
(* variables v1 to v11; what a part does not use stays None.               *)
(***************************************************************************)
EXTENDS Naturals, TLC

CONSTANTS
    None, m1, m2, m3,
    Compilers, GroupSizes, MaxTries,                          \* compute pipelines
    Savers, Drivers, Pipelines, MaxStarts, MaxTicks,          \* the pipeline cache
    Ring, Block, Align, MaxOps, StagingSizes, StagedImages, Pollers, MaxStaged,  \* uploads
    Frames, MaxImports, MaxContexts,                          \* presentation semaphores
    FrameSlots, Images, Extents, MinExtent, MaxExtent, MaxPresents, MaxChains    \* the swapchain

VARIABLES part, v1, v2, v3, v4, v5, v6, v7, v8, v9, v10, v11
vv == <<part, v1, v2, v3, v4, v5, v6, v7, v8, v9, v10, v11>>

Symmetry == Permutations({m1, m2, m3})
Three == {m1, m2, m3}
NoneOf == {}
Yes == {TRUE}
Either == {TRUE, FALSE}
ZeroOne == {0, 1}
Zero == {0}
One == {1}

\* One encoder with two textures, one with two buffers, one with two pipeline
\* states, and two encoders that share arenas.
OneTexture == {"x1"}
TwoTextures == {"x1", "x2"}
OneBuffer == {"b1"}
TwoBuffers == {"b1", "b2"}
OnePSO == {"bound"}
TwoPSOs == {"bound", "pushed"}
Pushed == {"pushed"}
OneEncoder == {"e1"}
TwoEncoders == {"e1", "e2"}
\* Free arenas are interchangeable: whichever is taken is overwritten.
ThreeArenas == Three
Encoder == INSTANCE RenderEncoder WITH
    gen <- v1, app <- v2, targets <- v3, cache <- v4, arena <- v5, enc <- v6, gpu <- v7,
    Textures <- TwoTextures, Buffers <- OneBuffer, MaxGen <- 2, MaxObjects <- 4, PSOs <- OnePSO,
    PushedPSOs <- NoneOf, Encoders <- OneEncoder, Arenas <- ThreeArenas, MaxArenas <- 1,
    MaxEntries <- 1, MaxTargets <- 1, MaxDraws <- 2, RetainModes <- Yes
Rebind == INSTANCE RenderEncoder WITH
    gen <- v1, app <- v2, targets <- v3, cache <- v4, arena <- v5, enc <- v6, gpu <- v7,
    Textures <- OneTexture, Buffers <- TwoBuffers, MaxGen <- 2, MaxObjects <- 4, PSOs <- OnePSO,
    PushedPSOs <- NoneOf, Encoders <- OneEncoder, Arenas <- ThreeArenas, MaxArenas <- 1,
    MaxEntries <- 1, MaxTargets <- 1, MaxDraws <- 2, RetainModes <- Yes
Switch == INSTANCE RenderEncoder WITH
    gen <- v1, app <- v2, targets <- v3, cache <- v4, arena <- v5, enc <- v6, gpu <- v7,
    Textures <- OneTexture, Buffers <- OneBuffer, MaxGen <- 2, MaxObjects <- 4, PSOs <- TwoPSOs,
    PushedPSOs <- Pushed, Encoders <- OneEncoder, Arenas <- ThreeArenas, MaxArenas <- 1,
    MaxEntries <- 1, MaxTargets <- 1, MaxDraws <- 2, RetainModes <- Either
Pair == INSTANCE RenderEncoder WITH
    gen <- v1, app <- v2, targets <- v3, cache <- v4, arena <- v5, enc <- v6, gpu <- v7,
    Textures <- OneTexture, Buffers <- OneBuffer, MaxGen <- 2, MaxObjects <- 3, PSOs <- OnePSO,
    PushedPSOs <- NoneOf, Encoders <- TwoEncoders, Arenas <- ThreeArenas, MaxArenas <- 1,
    MaxEntries <- 1, MaxTargets <- 1, MaxDraws <- 1, RetainModes <- Yes

\* State objects without a stencil, with a front face and with both; state with
\* dynamic depth clamp, and setBytes data with clamp in the pipeline.
Objects == {"none", "front", "both"}
NoStencil == {"none"}
Faces == [none |-> {}, front |-> {"front"}, both |-> {"front", "back"}]
Shapes == {"tri", "strip", "line"}
TwoShapes == {"tri", "line"}
ShapeClass == [tri |-> "triangle", strip |-> "triangle", line |-> "line"]
OneIndex == {"i1"}
TwoIndices == {"i1", "i2"}
ByteLengths == {1, 4, 5, 9}
State == INSTANCE RenderState WITH
    asked <- v1, seen <- v2, vk <- v3, inline <- v4,
    Values <- ZeroOne, DefaultValue <- 0, DepthStates <- Objects, Stencil <- Faces, PSOs <- OnePSO,
    Topologies <- Shapes, Class <- ShapeClass, DynamicClamp <- TRUE, IndexBuffers <- TwoIndices,
    Lengths <- One, Align <- 4, InlineSize <- 8, MaxInline <- 0
Inline == INSTANCE RenderState WITH
    asked <- v1, seen <- v2, vk <- v3, inline <- v4,
    Values <- Zero, DefaultValue <- 0, DepthStates <- NoStencil, Stencil <- Faces, PSOs <- OnePSO,
    Topologies <- TwoShapes, Class <- ShapeClass, DynamicClamp <- FALSE, IndexBuffers <- OneIndex,
    Lengths <- ByteLengths, Align <- 4, InlineSize <- 8, MaxInline <- 4

Bound == {0, 1, 2}
Push == {0, 3, 4}
Dynamic == {0, 2, 3, 4}
Layout == INSTANCE DescriptorLayout WITH
    dev <- v1, fns <- v2, step <- v3, shader <- v4, sets <- v5, writes <- v6,
    pushedBuffersPerStage <- 2, Indices <- Bound, MaxBindings <- 2, PushLimits <- Push, DynamicLimits <- Dynamic

Operations == {"graphics", "compute", "transfer"}
Queues == INSTANCE DeviceQueues WITH
    families <- v1, index <- v2, best <- v3, chosen <- v4, phase <- v5, requested <- v6, fetched <- v7,
    Ops <- Operations, Graphics <- "graphics", MaxFamilies <- 4, MaxQueues <- 2

\* Memory both sides see, host memory, and host memory that is flushed; one
\* heap for the first, one for the other two.  Slots, and flushed ranges.
Types == << [flags |-> {"DeviceLocal", "HostVisible", "HostCoherent"}, heap |-> 1],
            [flags |-> {"HostVisible", "HostCoherent", "HostCached"}, heap |-> 2],
            [flags |-> {"HostVisible", "HostCached"}, heap |-> 2] >>
Heaps == <<8, 18>>
R(s, a, d) == [size |-> s, alignment |-> a, dedicated |-> d]
PoolBits == {{1, 2}}
PoolSizes == {R(1, 2, FALSE), R(3, 2, FALSE)}
FlushBits == {{1, 2}, {3}}
FlushSizes == {R(1, 1, FALSE), R(2, 1, FALSE), R(5, 2, FALSE), R(2, 2, TRUE)}
Memory == INSTANCE BufferMemory WITH
    blocks <- v1, list <- v2, buffers <- v3,
    Buffers <- Three, MemoryTypes <- Types, TypeBits <- PoolBits, HeapSize <- Heaps, Requirements <- PoolSizes,
    MinSlot <- 1, PoolLimit <- 2, LargeLimit <- 4, BlockBytes <- 4, MinCapacity <- 2, MaxCapacity <- 3,
    HeapShare <- 2, IdleCap <- 8, Atom <- 2, MaxBlocks <- 3
Flush == INSTANCE BufferMemory WITH
    blocks <- v1, list <- v2, buffers <- v3,
    Buffers <- TwoBuffers, MemoryTypes <- Types, TypeBits <- FlushBits, HeapSize <- Heaps, Requirements <- FlushSizes,
    MinSlot <- 1, PoolLimit <- 2, LargeLimit <- 4, BlockBytes <- 4, MinCapacity <- 2, MaxCapacity <- 3,
    HeapShare <- 2, IdleCap <- 8, Atom <- 2, MaxBlocks <- 3

\* Threads that share compiles, and threads that save.
Compute == INSTANCE ComputePipelines WITH
    pipelines <- v1, preparing <- v2, future <- v3, thr <- v4, alive <- v5,
    Threads <- Compilers, Sizes <- GroupSizes

Cache == INSTANCE PipelineCache WITH
    up <- v1, drv <- v2, mem <- v3, recent <- v4, holder <- v5, pc <- v6, image <- v7, file <- v8,
    tmp <- v9, kept <- v10, used <- v11,
    Threads <- Savers

Semaphores == INSTANCE PresentationSemaphores WITH
    pc <- v1, semaphore <- v2, commands <- v3, gpu <- v4, payload <- v5, waits <- v6, got <- v7,
    queue <- v8, imports <- v9, contexts <- v10

Chain == INSTANCE SwapchainProofs WITH
    pc <- v1, chain <- v2, slots <- v3, next <- v4, submitted <- v5, queue <- v6, reached <- v7,
    images <- v8, rendered <- v9, calls <- v10, outcome <- v11,
    Slots <- FrameSlots

Uploads == INSTANCE UploadQueueProofs WITH
    batch <- v1, current <- v2, cursor <- v3, needsService <- v4, request <- v5, gpuQueue <- v6,
    staged <- v7, applied <- v8, textures <- v9, polling <- v10, alive <- v11,
    Sizes <- StagingSizes, Images <- StagedImages

\* The variables a part with so many of its own leaves alone.
After10 == v11 = None
After7 == v8 = None /\ v9 = None /\ v10 = None /\ After10
After6 == v7 = None /\ After7
After5 == v6 = None /\ After6
After4 == v5 = None /\ After5
After3 == v4 = None /\ After4
Init ==
    \/ part = "encoder" /\ Encoder!Init /\ After7
    \/ part = "rebind" /\ Rebind!Init /\ After7
    \/ part = "switch" /\ Switch!Init /\ After7
    \/ part = "pair" /\ Pair!Init /\ After7
    \/ part = "state" /\ State!Init /\ After4
    \/ part = "inline" /\ Inline!Init /\ After4
    \/ part = "layout" /\ Layout!Init /\ After6
    \/ part = "queues" /\ Queues!Init /\ After7
    \/ part = "memory" /\ Memory!Init /\ After3
    \/ part = "flush" /\ Flush!Init /\ After3
    \/ part = "compute" /\ Compute!Init /\ After5
    \/ part = "cache" /\ Cache!Init
    \/ part = "semaphores" /\ Semaphores!Init /\ After10
    \/ part = "swapchain" /\ Chain!Init
    \/ part = "uploads" /\ Uploads!Init

EncoderStep == part = "encoder" /\ Encoder!Next /\ UNCHANGED <<part, v8, v9, v10, v11>>
RebindStep == part = "rebind" /\ Rebind!Next /\ UNCHANGED <<part, v8, v9, v10, v11>>
SwitchStep == part = "switch" /\ Switch!Next /\ UNCHANGED <<part, v8, v9, v10, v11>>
PairStep == part = "pair" /\ Pair!Next /\ UNCHANGED <<part, v8, v9, v10, v11>>
StateStep == part = "state" /\ State!Next /\ UNCHANGED <<part, v5, v6, v7, v8, v9, v10, v11>>
InlineStep == part = "inline" /\ Inline!Next /\ UNCHANGED <<part, v5, v6, v7, v8, v9, v10, v11>>
LayoutStep == part = "layout" /\ Layout!Next /\ UNCHANGED <<part, v7, v8, v9, v10, v11>>
QueuesStep == part = "queues" /\ Queues!Next /\ UNCHANGED <<part, v8, v9, v10, v11>>
MemoryStep == part = "memory" /\ Memory!Next /\ UNCHANGED <<part, v4, v5, v6, v7, v8, v9, v10, v11>>
FlushStep == part = "flush" /\ Flush!Next /\ UNCHANGED <<part, v4, v5, v6, v7, v8, v9, v10, v11>>
ComputeStep == part = "compute" /\ Compute!Next /\ UNCHANGED <<part, v6, v7, v8, v9, v10, v11>>
CacheStep == part = "cache" /\ Cache!Next /\ UNCHANGED part
SemaphoresStep == part = "semaphores" /\ Semaphores!Next /\ UNCHANGED <<part, v11>>
SwapchainStep == part = "swapchain" /\ Chain!Next /\ UNCHANGED part
UploadsStep == part = "uploads" /\ Uploads!Next /\ UNCHANGED part

Next ==
    \/ EncoderStep \/ RebindStep \/ SwitchStep \/ PairStep \/ StateStep \/ InlineStep \/ LayoutStep \/ QueuesStep
    \/ MemoryStep \/ FlushStep \/ ComputeStep \/ CacheStep \/ SemaphoresStep \/ SwapchainStep \/ UploadsStep

Spec == Init /\ [][Next]_vv

-----------------------------------------------------------------------------
\* Lazily updated descriptor sets, arenas and views that outlive an encoder
\* never show: a draw reads what was set, alive until the GPU is done, with
\* every sampled texture tracked and every arena used by one encoder
\* (render-command-encoder.cpp).
EncodersSound ==
    /\ part = "encoder" => Encoder!Safety
    /\ part = "rebind" => Rebind!Safety
    /\ part = "switch" => Switch!Safety
    /\ part = "pair" => Pair!Safety

\* Although setters skip what they believe unchanged, every draw executes with
\* the state last asked for, and setBytes data is not overwritten.
DrawStateCurrent == (part = "state" => State!Safety) /\ (part = "inline" => Inline!Safety)

\* Shader rewrite, set layout and descriptor writes agree on where a resource
\* is, within the device's limits, and every operation gets a queue that
\* supports and has it, from as few families as can be (library.cpp,
\* device.cpp).
DeviceChoicesAgree == (part = "layout" => Layout!Safety) /\ (part = "queues" => Queues!Safety)

\* Live buffers share no byte, idle memory is bounded, and a flush covers what
\* was written and nothing else (buffer.cpp).
MemorySound == (part = "memory" => Memory!Safety) /\ (part = "flush" => Flush!Safety)

\* Threads that ask for one specialization share one compile, and nobody waits
\* for a promise that was abandoned (compute-pipeline.cpp).
ComputeShared == part = "compute" => Compute!Safety

\* Whatever saves race and wherever a save stops, the cache file stays whole,
\* loses nothing, and a session starts with what the last one had
\* (savePipelineCache, device.cpp).
CacheKept == [][part = "cache" => Cache!SafeStep]_vv

\* A binary semaphore is signalled again only once its signal was consumed, and
\* GL waits for the frame it copies; frame slots, images and semaphores of a
\* swapchain are reused, recreated and destroyed only when no copy or present
\* needs them, and a wait is for work that was submitted
\* (presentation-semaphore.hpp, swapchain.cpp).
PresentsReuseSafely == (part = "semaphores" => Semaphores!Safety) /\ (part = "swapchain" => Chain!Safety)

\* Uploads and commands execute once and in order, copies read the bytes and
\* the live images they were made for, an idle queue holds nothing, and begin
\* waits only when the ring is full, over a ring that wraps and calls that
\* fail (uploads.cpp).
UploadsSound == part = "uploads" => Uploads!Safety
=============================================================================
