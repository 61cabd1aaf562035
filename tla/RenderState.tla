----------------------------- MODULE RenderState -----------------------------
(***************************************************************************)
(* Dynamic state of the render command encoder                             *)
(* (native/renderer/render-command-encoder.cpp): Metal setters that skip   *)
(* Vulkan commands when a remembered value says nothing changed, state     *)
(* that is applied only at a draw, and the bytes setVertexBytes copies.    *)
(*                                                                         *)
(* `asked` is what Metal says is current, the remembered values are the    *)
(* encoder's members, `vk` is the state the recorded commands leave in the *)
(* Vulkan command buffer.                                                  *)
(***************************************************************************)
EXTENDS Integers, Sequences, FiniteSets, FiniteSetsExt

CONSTANTS
    Values,         \* values of the plain dynamic states and stencil references
    DefaultValue,   \* the value the constructor sets
    DepthStates,    \* depth-stencil state objects
    Stencil,        \* state object -> the faces it has a stencil descriptor for
    PSOs, Topologies, Class, \* pipeline states, topologies and their class
    DynamicClamp,   \* BOOLEAN: the device's dynamicDepthClamp
    IndexBuffers,
    Lengths,        \* sizes passed to setVertexBytes
    Align, InlineSize, \* alignment and size of an inline buffer (65536)
    MaxInline,      \* bound: inline slices per encoder
    None

VARIABLES
    asked,    \* what the Metal calls so far ask of the next draw
    seen,     \* the encoder's remembered values
    vk,       \* state of the Vulkan command buffer
    inline    \* [buffers, offset, slices]: setBytes data, newest buffer last

vars == <<asked, seen, vk, inline>>
Faces == {"front", "back"}

\* The plain states: front face, cull mode, viewports, scissors, blend color.
\* The constructor sets them all; depth bias and stencil reference are unset.
Init ==
    /\ asked = [plain |-> DefaultValue, bias |-> None, ref |-> [f \in Faces |-> None],
                depth |-> None, clamp |-> FALSE, pso |-> None, drawn |-> None]
    /\ seen = [plain |-> DefaultValue, bias |-> None, ref |-> None, depth |-> None,
               clamp |-> FALSE, pipeline |-> None, topology |-> None, index |-> None]
    /\ vk = [plain |-> DefaultValue, biasOn |-> FALSE, bias |-> None,
             ref |-> [f \in Faces |-> None], depthTest |-> FALSE, depth |-> None,
             stencilTest |-> FALSE, op |-> [f \in Faces |-> "unset"],
             clamp |-> FALSE, pipeline |-> None, topology |-> None, index |-> None]
    /\ inline = [buffers |-> 0, offset |-> 0, slices |-> {}]

\* A command is recorded only when the remembered value differs.
Cmd(remembered, old, new) == IF remembered = new THEN old ELSE new

\* setFrontFacingWinding, setCullMode, setViewports, setScissorRects, setBlendColor.
SetPlain(v) ==
    /\ asked' = [asked EXCEPT !.plain = v, !.drawn = None]
    /\ vk' = [vk EXCEPT !.plain = Cmd(seen.plain, @, v)]
    /\ seen' = [seen EXCEPT !.plain = v] /\ UNCHANGED inline

setDepthBias(v) ==
    /\ asked' = [asked EXCEPT !.bias = v, !.drawn = None]
    /\ vk' = [vk EXCEPT !.biasOn = IF seen.bias = None THEN TRUE ELSE @,
                        !.bias = Cmd(seen.bias, @, v)]
    /\ seen' = [seen EXCEPT !.bias = v] /\ UNCHANGED inline

\* Remembered now, applied at the next draw.
setDepthClipMode(c) ==
    /\ asked' = [asked EXCEPT !.clamp = c, !.drawn = None] /\ UNCHANGED <<seen, vk, inline>>

\* One value for both faces, or a command for each face whose value changed.
Mut_EitherFace(f, b) == {g \in Faces : seen.ref = None \/ seen.ref[g] # IF g = "front" THEN b ELSE f}
ChangedFaces(f, b) == {g \in Faces : seen.ref = None \/ seen.ref[g] # IF g = "front" THEN f ELSE b}

setStencilReferenceValue(f, b) ==
    LET new == [g \in Faces |-> IF g = "front" THEN f ELSE b]
    IN /\ asked' = [asked EXCEPT !.ref = new, !.drawn = None]
       /\ vk' = CASE seen.ref = new -> vk
                  [] f = b /\ seen.ref # new -> [vk EXCEPT !.ref = new]
                  [] OTHER -> [vk EXCEPT !.ref = [g \in Faces |->
                                 IF g \in ChangedFaces(f, b) THEN new[g] ELSE @[g]]]
       /\ seen' = [seen EXCEPT !.ref = new] /\ UNCHANGED inline

\* A face without a descriptor keeps the stencil unchanged and always passes.
FaceOp(d, f) == IF d # None /\ f \in Stencil[d] THEN d ELSE "keep"
HasStencil(d) == d # None /\ Stencil[d] # {}

\* The same state object is skipped; no object means the default descriptor.
SameDepthState(d) == d # None /\ d = seen.depth
setDepthStencilState(d) ==
    /\ asked' = [asked EXCEPT !.depth = <<d>>, !.drawn = None]
    /\ IF SameDepthState(d) THEN UNCHANGED <<seen, vk>>
       ELSE /\ seen' = [seen EXCEPT !.depth = d]
            /\ vk' = [vk EXCEPT !.depthTest = TRUE, !.depth = d, !.stencilTest = HasStencil(d),
                        !.op = IF HasStencil(d) THEN [f \in Faces |-> FaceOp(d, f)] ELSE @]
    /\ UNCHANGED inline

setRenderPipelineState(p) ==
    /\ asked' = [asked EXCEPT !.pso = p, !.drawn = None] /\ UNCHANGED <<seen, vk, inline>>

-----------------------------------------------------------------------------
(* setInlineBytes *)

Aligned(o) == ((o + Align - 1) \div Align) * Align

\* The next aligned slice of the newest buffer, or the start of a new buffer.
Fits(o, n) == inline.buffers > 0 /\ o <= InlineSize /\ n <= InlineSize - o

setInlineBytes(n) ==
    LET o == Aligned(inline.offset)
        fits == Fits(o, n)
        b == IF fits THEN inline.buffers ELSE inline.buffers + 1
        at == IF fits THEN o ELSE 0
    IN /\ Cardinality(inline.slices) < MaxInline
       /\ inline' = [buffers |-> b, offset |-> at + n,
                     slices |-> inline.slices \cup
                        {[buffer |-> b, from |-> at, to |-> at + n, size |-> Max({InlineSize, n}),
                          nth |-> Cardinality(inline.slices) + 1]}]
       /\ UNCHANGED <<asked, seen, vk>>

-----------------------------------------------------------------------------
(* Draws *)

\* Pipeline variants: one per topology class, and per clamp without the
\* dynamic depth clamp state.
PipelineFor(p, t, c) == <<p, Class[t], IF DynamicClamp THEN FALSE ELSE c>>

\* Pipeline, topology and clamp, each bound only when it changed.
BoundClamp(c) == IF DynamicClamp THEN c ELSE seen.clamp
Bound(t) == [seen EXCEPT !.pipeline = PipelineFor(asked.pso, t, asked.clamp),
                         !.topology = t, !.clamp = BoundClamp(asked.clamp)]
Recorded(new) == [vk EXCEPT !.pipeline = Cmd(seen.pipeline, @, new.pipeline),
                            !.topology = Cmd(seen.topology, @, new.topology),
                            !.clamp = Cmd(seen.clamp, @, new.clamp),
                            !.index = Cmd(seen.index, @, new.index)]

drawPrimitives(t) ==
    /\ asked.pso # None /\ seen' = Bound(t) /\ vk' = Recorded(Bound(t))
    /\ asked' = [asked EXCEPT !.drawn = <<t, None>>] /\ UNCHANGED inline

drawIndexedPrimitives(t, i) ==
    LET new == [Bound(t) EXCEPT !.index = i]
    IN /\ asked.pso # None /\ seen' = new /\ vk' = Recorded(new)
       /\ asked' = [asked EXCEPT !.drawn = <<t, i>>] /\ UNCHANGED inline

Next ==
    \/ \E v \in Values : SetPlain(v) \/ setDepthBias(v)
    \/ \E f, b \in Values : setStencilReferenceValue(f, b)
    \/ \E c \in BOOLEAN : setDepthClipMode(c)
    \/ \E d \in DepthStates \cup {None} : setDepthStencilState(d)
    \/ \E p \in PSOs : setRenderPipelineState(p)
    \/ \E n \in Lengths : setInlineBytes(n)
    \/ \E t \in Topologies : drawPrimitives(t) \/ \E i \in IndexBuffers : drawIndexedPrimitives(t, i)

Spec == Init /\ [][Next]_vars

-----------------------------------------------------------------------------
(* Properties *)

\* Types.
TypeOK ==
    /\ asked.plain \in Values /\ seen.plain \in Values /\ vk.plain \in Values
    /\ vk.ref \in [Faces -> Values \cup {None}] /\ vk.bias \in Values \cup {None}
    /\ \A f \in Faces : vk.op[f] \in {d \in DepthStates : f \in Stencil[d]} \cup {"keep", "unset"}
    /\ vk.clamp \in BOOLEAN /\ inline.offset <= InlineSize + Max(Lengths)

\* Every draw executes with the stencil references last asked for, face by
\* face, although setStencilReferenceValue sends only the faces it believes
\* changed.  Nothing is claimed of a reference no call has set.
DrawnStencilReference ==
    asked.drawn # None => \A f \in Faces : asked.ref[f] = None \/ vk.ref[f] = asked.ref[f]

\* Every draw executes with the depth and stencil tests of the state object
\* last set: skipped repeats and faces without a descriptor leave no residue of
\* an earlier object.
DrawnDepthStencil ==
    asked.drawn # None =>
      IF asked.depth = None THEN ~vk.depthTest /\ ~vk.stencilTest
      ELSE LET d == asked.depth[1]
           IN /\ vk.depthTest /\ vk.depth = d
              /\ vk.stencilTest = (d # None /\ Stencil[d] # {})
              /\ vk.stencilTest => \A f \in Faces :
                   vk.op[f] = IF f \in Stencil[d] THEN d ELSE "keep"

\* Every draw uses the pipeline of the current state and its own topology, the
\* index buffer it names, the current plain states and depth bias, and the
\* depth clamp last asked for, whether clamp is dynamic or a pipeline variant.
DrawnFixedFunction ==
    asked.drawn # None =>
      LET t == asked.drawn[1] i == asked.drawn[2]
      IN /\ vk.pipeline[1] = asked.pso /\ vk.pipeline[2] = Class[t] /\ vk.topology = t
         /\ (IF DynamicClamp THEN vk.clamp ELSE vk.pipeline[3]) = asked.clamp
         /\ i # None => vk.index = i
         /\ vk.plain = asked.plain
         /\ vk.biasOn = (asked.bias # None) /\ (vk.biasOn => vk.bias = asked.bias)

\* setVertexBytes/setFragmentBytes data is never overwritten: slices are
\* aligned, lie within their buffer and no two of them overlap.
InlineSlicesDisjoint ==
    /\ \A s \in inline.slices : s.from % Align = 0 /\ s.to <= s.size
    /\ \A s, u \in inline.slices : s.nth < u.nth /\ s.buffer = u.buffer => s.to <= u.from

Safety == TypeOK /\ DrawnStencilReference /\ DrawnDepthStencil /\ DrawnFixedFunction /\ InlineSlicesDisjoint
=============================================================================
