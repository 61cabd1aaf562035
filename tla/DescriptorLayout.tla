--------------------------- MODULE DescriptorLayout ---------------------------
(***************************************************************************)
(* Where a shader resource lives: the shader rewrite (library.cpp), the    *)
(* set layouts (pipeline.private.hpp, device.cpp) and the writes of the    *)
(* render encoder decide it separately and have to agree.                  *)
(*                                                                         *)
(* A function is the sequence of its reflected bindings, in reflection     *)
(* order: [i: internalIndex, k: kind].  Vertex inputs number locations, so *)
(* they may share an index with a resource.  "Texture" stands for every    *)
(* resource that is not a buffer.  A buffer's offset is named by its index.*)
(***************************************************************************)
EXTENDS Naturals, SequencesExt

CONSTANTS
    pushedBuffersPerStage,
    Indices, MaxBindings,       \* bounds: indices and bindings of a function
    PushLimits, DynamicLimits   \* limits a device may have; push limit 0: no extension

VARIABLES
    dev,    \* [maxPush, maxDynamic]: device limits
    fns,    \* the vertex and the fragment function
    step,   \* "library", "layout", "encode", "done"
    shader, \* per stage, the resources after the rewrite: [set, binding, k, i]
    sets,   \* set layouts: entries [set, binding, stage, type]
    writes  \* descriptors written by the encoder, and the dynamic offsets

vars == <<dev, fns, step, shader, sets, writes>>
Stages == {"Vertex", "Fragment"}

\* Functions the translator can report.
ReflectedFunctions(kinds) ==
    {f \in UNION {[1..n -> [i : Indices, k : kinds]] : n \in 0..MaxBindings} :
       \A m, n \in DOMAIN f : (m # n /\ f[m].i = f[n].i) => {f[m].k, f[n].k} \in {{"VertexInput", "Buffer"}, {"VertexInput", "Texture"}}}
Init ==
    /\ dev \in [maxPush : PushLimits, maxDynamic : DynamicLimits]
    /\ fns \in [Vertex : ReflectedFunctions({"Buffer", "Texture", "VertexInput"}),
                Fragment : ReflectedFunctions({"Buffer", "Texture"})]
    /\ step = "library" /\ shader = [s \in Stages |-> {}] /\ sets = {}
    /\ writes = [push |-> {}, set |-> {}, offsets |-> [s \in Stages |-> <<>>]]

-----------------------------------------------------------------------------
\* Set 0 needs room for the buffers of both stages.
pushDescriptors == dev.maxPush >= 2 * pushedBuffersPerStage
Fits(i) == i < pushedBuffersPerStage
pushesBuffers(s) == pushDescriptors /\ \A b \in Range(fns[s]) : b.k = "Buffer" => Fits(b.i)
pushedBufferBinding(s, i) == (IF s = "Fragment" THEN pushedBuffersPerStage ELSE 0) + i
stageSet(s) == IF s = "Fragment" THEN 2 ELSE 1

\* Each stage gets half of the device's dynamic storage buffers.
DynamicShare == dev.maxDynamic \div 2
dynamicBufferBinding(s, b) ==
    Cardinality({o \in Range(fns[s]) : o.k = "Buffer" /\ o.i < b.i}) < DynamicShare

\* The rewrite finds a resource by its index, among the bindings that are not
\* vertex inputs.
Mut_Candidate(b) == TRUE
Candidate(b) == b.k # "VertexInput"
remapDescriptorSets(s) ==
    LET f == fns[s]
        found(i) == f[SelectInSeq(f, LAMBDA b : b.i = i /\ Candidate(b))]
    IN {IF found(b.i).k = "Buffer" /\ pushesBuffers(s)
        THEN [set |-> 0, binding |-> pushedBufferBinding(s, b.i), k |-> b.k, i |-> b.i]
        ELSE [set |-> stageSet(s), binding |-> b.i, k |-> b.k, i |-> b.i] : b \in {c \in Range(f) : c.k # "VertexInput"}}
newLibrary ==
    /\ step = "library" /\ step' = "layout" /\ shader' = [s \in Stages |-> remapDescriptorSets(s)]
    /\ UNCHANGED <<dev, fns, sets, writes>>

TypeOf(s, b) ==
    CASE b.k = "Texture" -> "Texture"
      [] b.k # "Texture" /\ dynamicBufferBinding(s, b) -> "Dynamic"
      [] OTHER -> "Storage"
createFunctionSetLayout(s, set) ==
    {[set |-> set, binding |-> b.i, stage |-> s, type |-> TypeOf(s, b)] :
        b \in {c \in Range(fns[s]) : c.k = "Texture" \/ (c.k = "Buffer" /\ ~pushesBuffers(s))}}
bufferSetLayout ==
    {[set |-> 0, binding |-> i, stage |-> IF i < pushedBuffersPerStage THEN "Vertex" ELSE "Fragment", type |-> "Storage"] :
        i \in {n \in 0..(2 * pushedBuffersPerStage - 1) : pushDescriptors}}
newPipeline ==
    /\ step = "layout" /\ step' = "encode"
    /\ sets' = bufferSetLayout \cup createFunctionSetLayout("Vertex", 1) \cup createFunctionSetLayout("Fragment", 2)
    /\ UNCHANGED <<dev, fns, shader, writes>>

\* setupDescriptors: buffers are pushed or written to the stage's set; the
\* offsets of dynamic ones are passed in ascending order of their bindings.
Ordered(q) == SortSeq(q, LAMBDA a, b : a < b)
encode ==
    /\ step = "encode" /\ step' = "done"
    /\ writes' =
         [push |-> UNION {{[set |-> 0, binding |-> pushedBufferBinding(s, b.i), type |-> "Storage", i |-> b.i, stage |-> s] :
                             b \in {c \in Range(fns[s]) : c.k = "Buffer" /\ pushesBuffers(s)}} : s \in Stages},
          set |-> UNION {{[set |-> stageSet(s), binding |-> b.i, type |-> TypeOf(s, b), i |-> b.i, stage |-> s] :
                            b \in {c \in Range(fns[s]) : c.k = "Texture" \/ (c.k = "Buffer" /\ ~pushesBuffers(s))}} : s \in Stages},
          offsets |-> [s \in Stages |->
            LET d == SelectSeq(fns[s], LAMBDA b : b.k = "Buffer" /\ ~pushesBuffers(s) /\ dynamicBufferBinding(s, b))
            IN Ordered([n \in DOMAIN d |-> d[n].i])]]
    /\ UNCHANGED <<dev, fns, shader, sets>>

Next == newLibrary \/ newPipeline \/ encode
Spec == Init /\ [][Next]_vars

-----------------------------------------------------------------------------
\* Every resource of a stage is declared to its pipeline where the rewritten
\* shader looks for it, for that stage and with a type that fits.
ShaderMatchesLayout ==
    step \in {"encode", "done"} =>
        \A s \in Stages : \A v \in shader[s] : \E e \in sets :
            /\ e.set = v.set /\ e.binding = v.binding /\ e.stage = s
            /\ (e.type = "Texture") = (v.k = "Texture")

\* A draw finds, at the place and in the type the layout declares, the buffer
\* or texture that the shader's resource names.
WritesReachShader ==
    step = "done" =>
        \A s \in Stages : \A v \in shader[s] : \E w \in writes.push \cup writes.set :
            /\ w.set = v.set /\ w.binding = v.binding /\ w.i = v.i /\ w.stage = s
            /\ [set |-> w.set, binding |-> w.binding, stage |-> s, type |-> w.type] \in sets

\* Vulkan gives the n-th offset to the n-th dynamic binding: it is that
\* buffer's offset, and there are as many as the layout has.
OffsetsInBindingOrder ==
    step = "done" => \A s \in Stages :
        LET dynamic == {e.binding : e \in {x \in sets : x.set = stageSet(s) /\ x.type = "Dynamic"}}
        IN /\ Len(writes.offsets[s]) = Cardinality(dynamic)
           /\ \A n \in DOMAIN writes.offsets[s] :
                /\ writes.offsets[s][n] \in dynamic
                /\ Cardinality({b \in dynamic : b < writes.offsets[s][n]}) = n - 1

\* No pipeline layout exceeds the device: its dynamic buffers over both
\* stages, and the descriptors of the pushed set.
WithinLimits ==
    /\ Cardinality({e \in sets : e.type = "Dynamic"}) <= dev.maxDynamic
    /\ Cardinality({e \in sets : e.set = 0}) <= dev.maxPush

Safety == ShaderMatchesLayout /\ WritesReachShader /\ OffsetsInBindingOrder /\ WithinLimits
=============================================================================
