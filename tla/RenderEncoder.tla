---------------------------- MODULE RenderEncoder ----------------------------
(***************************************************************************)
(* Resource binding of the render command encoder                          *)
(* (native/renderer/render-command-encoder.cpp): lazily updated descriptor *)
(* sets taken from arenas that outlive one encoder, attachment views       *)
(* cached per target, and the references that keep resources alive until   *)
(* the GPU has finished.                                                   *)
(*                                                                         *)
(* A resource is an address and a generation: a cache key holds only the   *)
(* address, a weak_ptr the object itself, so an address the allocator      *)
(* hands out again is told apart exactly where the code can tell it.  One  *)
(* shader stage with one buffer and one texture stands for the loop over   *)
(* the stages and their bindings; samplers behave as the texture does.     *)
(***************************************************************************)
EXTENDS Integers, Sequences, FiniteSets, SequencesExt, FiniteSetsExt, Functions

CONSTANTS
    Textures, Buffers,   \* addresses textures and buffers are allocated at
    MaxGen,              \* bound: objects created per address
    MaxObjects,          \* bound: objects created in all
    PSOs,                \* pipeline states
    PushedPSOs,          \* those whose buffers are pushed, not part of the set
    Encoders,            \* render encoders alive at once
    Arenas,              \* names for descriptor arenas
    MaxArenas,           \* the 160 arenas kept for reuse
    MaxEntries,          \* the 2048 sets above which an arena is discarded
    MaxTargets,          \* the 128 cached targets
    MaxDraws,            \* bound: draws recorded per encoder
    RetainModes,         \* values of retainsReferences() of the command buffers
    None

VARIABLES
    gen,      \* address -> generation of the latest object there
    app,      \* the objects the application holds a reference to
    targets,  \* renderTargets: attachments whose views are cached, oldest first
    cache,    \* descriptorArenas: arenas at rest, oldest first
    arena,    \* arena -> [target, sets]
    enc,      \* encoder -> its state
    gpu       \* recorded draws the GPU has not finished

vars == <<gen, app, targets, cache, arena, enc, gpu>>

Resources == (Textures \cup Buffers) \X (1 .. MaxGen)
Addr(r) == r[1]

\* What an encoder's shared pointers keep alive: the pass descriptor, current
\* and bound resource tables, replaced slots, and the tracked textures.
Held(e) == {e.attachment, e.tex, e.buf, e.boundTex, e.boundBuf}
             \cup e.saved \cup e.tracked

Live(r) == r \in app \/ \E e \in Encoders : r \in Held(enc[e])

Idle == [st |-> "none", attachment |-> None, view |-> None, arena |-> None,
         pso |-> None, descriptorPSO |-> None, tex |-> None, buf |-> None,
         boundTex |-> None, boundBuf |-> None, dirty |-> {}, set |-> 0,
         key |-> None, pushed |-> None, retain |-> TRUE, saved |-> {}, tracked |-> {}]

Init == /\ gen = [a \in Textures \cup Buffers |-> 0] /\ app = {}
        /\ targets = <<>> /\ cache = <<>>
        /\ arena = [a \in Arenas |-> [target |-> None, sets |-> <<>>]]
        /\ enc = [e \in Encoders |-> Idle] /\ gpu = {}

-----------------------------------------------------------------------------
(* The application's objects *)

\* A new object; the allocator reuses an address once nothing refers to it.
NewResource(a) ==
    /\ gen[a] < MaxGen /\ FoldFunction(+, 0, gen) < MaxObjects
    /\ gen[a] = 0 \/ ~Live(<<a, gen[a]>>)
    /\ gen' = [gen EXCEPT ![a] = @ + 1] /\ app' = app \cup {<<a, gen[a] + 1>>}
    /\ UNCHANGED <<targets, cache, arena, enc, gpu>>

\* The application drops its reference; without retained references it may not
\* do so before the commands that use the object have completed.
ReleaseResource(r) ==
    /\ r \in app /\ \A d \in gpu : d.retain \/ r \notin {d.tex, d.buf}
    /\ app' = app \ {r} /\ UNCHANGED <<gen, targets, cache, arena, enc, gpu>>

-----------------------------------------------------------------------------
(* Opening and destroying an encoder *)

\* The cached views for an attachment: entries of expired textures go first.
Unexpired(ts) == SelectSeq(ts, Live)

\* Evicting the oldest entry only drops the cache's reference.
AddTarget(ts, r) == Append(IF Len(ts) >= MaxTargets THEN Tail(ts) ELSE ts, r)

TargetFor(ts, r) ==
    LET hits == {t \in Range(ts) : Addr(t) = Addr(r)}
    IN IF hits # {} THEN CHOOSE t \in hits : TRUE ELSE r

TargetAlive(t, ts) == t \in Range(ts) \/ \E e \in Encoders : enc[e].view = t

\* The same pass's arena, one whose target is gone, or the oldest of a full cache.
PickArena(t, ts) ==
    LET same == {i \in DOMAIN cache : arena[cache[i]].target = t}
        gone == {i \in DOMAIN cache : ~TargetAlive(arena[cache[i]].target, ts)}
    IN CASE same # {} -> Min(same)
         [] same = {} /\ gone # {} -> Min(gone)
         [] same = {} /\ gone = {} /\ Len(cache) >= MaxArenas -> 1
         [] OTHER -> 0

FreshArena == CHOOSE a \in Arenas :
                a \notin Range(cache) /\ \A e \in Encoders : enc[e].arena # a

\* The chosen arena leaves the cache; its sets are marked unused, or the whole
\* arena is replaced by a new one when it grew too large.
BeginEncoder(e, r, retain) ==
    LET kept == Unexpired(targets)
        t == TargetFor(kept, r)
        i == PickArena(t, kept)
        reuse == i > 0 /\ Len(arena[cache[i]].sets) <= MaxEntries
        a == IF reuse THEN cache[i] ELSE FreshArena
    IN /\ enc[e].st = "none" /\ r \in app /\ Addr(r) \in Textures
       /\ targets' = IF t \in Range(kept) THEN kept ELSE AddTarget(kept, t)
       /\ cache' = IF i > 0 THEN RemoveAt(cache, i) ELSE cache
       /\ arena' = [arena EXCEPT ![a] = [target |-> t, sets |->
                      IF reuse THEN [j \in DOMAIN @.sets |-> [@.sets[j] EXCEPT !.used = FALSE]]
                               ELSE <<>>]]
       /\ enc' = [enc EXCEPT ![e] = [Idle EXCEPT !.st = "recording", !.attachment = r,
                    !.view = t, !.arena = a, !.dirty = {"buf", "tex"}, !.retain = retain, !.tracked = {r}]]
       /\ UNCHANGED <<gen, app, gpu>>

EndEncoding(e) ==
    /\ enc[e].st = "recording" /\ enc' = [enc EXCEPT ![e].st = "pending"]
    /\ UNCHANGED <<gen, app, targets, cache, arena, gpu>>

\* The queue executes the command buffer's draws to the end.
GPUCompletes(e) ==
    /\ enc[e].st = "pending" /\ enc' = [enc EXCEPT ![e].st = "completed"]
    /\ gpu' = {d \in gpu : d.enc # e} /\ UNCHANGED <<gen, app, targets, cache, arena>>

\* The command buffer drops its encoders once the GPU has finished; the
\* destructor keeps the arena, now exclusive, while there is room.
Completed(e) == enc[e].st = "completed"
CacheHasRoom == Len(cache) < MaxArenas
DestroyEncoder(e) ==
    /\ Completed(e)
    /\ cache' = IF CacheHasRoom THEN Append(cache, enc[e].arena) ELSE cache
    /\ enc' = [enc EXCEPT ![e] = Idle]
    /\ UNCHANGED <<gen, app, targets, arena, gpu>>

-----------------------------------------------------------------------------
(* Setting state *)

setRenderPipelineState(e, p) ==
    /\ enc[e].st = "recording" /\ enc[e].pso # p
    /\ enc' = [enc EXCEPT ![e].pso = p, ![e].dirty = {"buf", "tex"}]
    /\ UNCHANGED <<gen, app, targets, cache, arena, gpu>>

\* Setting what is set already is skipped by the code.
setTexture(e, r) ==
    /\ enc[e].st = "recording" /\ r \in app /\ Addr(r) \in Textures /\ enc[e].tex # r
    /\ enc' = [enc EXCEPT ![e].tex = r, ![e].dirty = @ \cup {"tex"}]
    /\ UNCHANGED <<gen, app, targets, cache, arena, gpu>>

setBuffer(e, r) ==
    /\ enc[e].st = "recording" /\ r \in app /\ Addr(r) \in Buffers /\ enc[e].buf # r
    /\ enc' = [enc EXCEPT ![e].buf = r, ![e].dirty = @ \cup {"buf"}]
    /\ UNCHANGED <<gen, app, targets, cache, arena, gpu>>

\* useResources: a barrier, and a reference: textures always, buffers if retained.
useResources(e, r) ==
    /\ enc[e].st = "recording" /\ r \in app
    /\ enc' = [enc EXCEPT
         ![e].tracked = IF Addr(r) \in Textures THEN @ \cup {r} ELSE @,
         ![e].saved = IF Addr(r) \in Buffers /\ enc[e].retain THEN @ \cup {r} ELSE @]
    /\ UNCHANGED <<gen, app, targets, cache, arena, gpu>>

-----------------------------------------------------------------------------
(* updateBindings *)

Pushes(p) == p \in PushedPSOs

KeyOf(s) == <<Addr(s.tex), IF Pushes(s.pso) THEN None ELSE Addr(s.buf)>>

\* Indexed sets with this pipeline state, key and no expired resource.
Mut_HitExpired(s, sets) == {i \in DOMAIN sets : sets[i].pso = s.pso /\ sets[i].key = KeyOf(s)}
Hits(s, sets) == {i \in DOMAIN sets :
    /\ sets[i].pso = s.pso /\ sets[i].key = KeyOf(s)
    /\ \A r \in sets[i].resources : Live(r)}

\* A set of this pipeline state that no draw of this encoder uses, or a new one.
FreeSet(s, sets) ==
    LET free == {i \in DOMAIN sets : ~sets[i].used /\ sets[i].pso = s.pso}
    IN IF free = {} THEN Len(sets) + 1 ELSE Max(free)

\* createDescriptorSets writes the current resources into the selected set.
WrittenSet(s) == [pso |-> s.pso, key |-> KeyOf(s), used |-> TRUE, tex |-> s.tex, buf |-> s.buf,
                  resources |-> {s.tex} \cup (IF Pushes(s.pso) THEN {} ELSE {s.buf})]

Select(s, sets) ==
    IF Hits(s, sets) # {}
      THEN LET i == Min(Hits(s, sets)) IN [index |-> i, sets |-> [sets EXCEPT ![i].used = TRUE]]
      ELSE LET i == FreeSet(s, sets)
           IN [index |-> i, sets |-> [j \in 1 .. Max({i, Len(sets)}) |->
                                        IF j = i THEN WrittenSet(s) ELSE sets[j]]]

\* Pushed buffers do not make an unchanged texture set stale.
UpdateSet(s) == ~Pushes(s.pso) \/ s.descriptorPSO # s.pso \/ "tex" \in s.dirty

\* The bound set is kept when pipeline state and key are those it was bound for.
SameSet(s) == s.set # 0 /\ s.descriptorPSO = s.pso /\ KeyOf(s) = s.key

\* Replaced slots stay referenced through completion.
Replaced(s) == {r \in {s.boundTex, s.boundBuf} : r \notin {s.tex, s.buf, None}}

Tracks(s) == s.descriptorPSO # s.pso \/ s.tex # s.boundTex

updateBindings(s, sets) ==
    IF s.dirty = {} THEN [s |-> s, sets |-> sets]
    ELSE LET sel == IF UpdateSet(s) /\ ~SameSet(s) THEN Select(s, sets)
                    ELSE [index |-> s.set, sets |-> sets]
         IN [sets |-> sel.sets,
             s |-> [s EXCEPT
               !.set = sel.index, !.key = IF UpdateSet(s) THEN KeyOf(s) ELSE @,
               !.pushed = IF Pushes(s.pso) /\ "buf" \in s.dirty THEN s.buf ELSE @,
               !.saved = IF s.retain THEN @ \cup Replaced(s) ELSE @,
               !.boundTex = s.tex, !.boundBuf = s.buf,
               !.tracked = IF Tracks(s) THEN @ \cup {s.tex} ELSE @,
               !.descriptorPSO = s.pso, !.dirty = {}]]

\* drawPrimitives / drawIndexedPrimitives; an unset binding throws instead.
draw(e) ==
    LET s == enc[e]
        u == updateBindings(s, arena[s.arena].sets)
    IN /\ s.st = "recording" /\ s.pso # None /\ s.tex # None /\ s.buf # None
       /\ Cardinality({d \in gpu : d.enc = e}) < MaxDraws
       /\ arena' = [arena EXCEPT ![s.arena].sets = u.sets]
       /\ enc' = [enc EXCEPT ![e] = u.s]
       /\ gpu' = gpu \cup {[enc |-> e, arena |-> s.arena, set |-> u.s.set, pso |-> s.pso,
               pushed |-> IF Pushes(s.pso) THEN u.s.pushed ELSE None,
               retain |-> s.retain, tex |-> s.tex, buf |-> s.buf]}
       /\ UNCHANGED <<gen, app, targets, cache>>

Next ==
    \/ \E a \in Textures \cup Buffers : NewResource(a)
    \/ \E r \in Resources : ReleaseResource(r)
    \/ \E e \in Encoders : EndEncoding(e) \/ GPUCompletes(e) \/ DestroyEncoder(e) \/ draw(e)
    \/ \E e \in Encoders, p \in PSOs : setRenderPipelineState(e, p)
    \/ \E e \in Encoders, r \in Resources :
         \/ \E retain \in RetainModes : BeginEncoder(e, r, retain)
         \/ setTexture(e, r) \/ setBuffer(e, r) \/ useResources(e, r)

Spec == Init /\ [][Next]_vars

-----------------------------------------------------------------------------
(* Properties *)

\* Types.
TypeOK ==
    /\ app \subseteq Resources /\ Range(targets) \subseteq Resources
    /\ Range(cache) \subseteq Arenas
    /\ \A e \in Encoders : /\ enc[e].st \in {"none", "recording", "pending", "completed"}
                          /\ Held(enc[e]) \subseteq Resources \cup {None}
    /\ \A d \in gpu : d.arena \in Arenas /\ d.set \in DOMAIN arena[d.arena].sets

\* Until the GPU has finished, every recorded draw's descriptor set (and pushed
\* buffer) still names the very objects the application had set at that draw:
\* updateBindings' skipped updates, cache hits by address and rewrites of free
\* sets never show in what a draw reads.
DrawsReadWhatWasSet ==
    \A d \in gpu : LET c == arena[d.arena].sets[d.set]
                  IN /\ d.set \in DOMAIN arena[d.arena].sets
                     /\ c.tex = d.tex /\ (IF Pushes(d.pso) THEN d.pushed ELSE c.buf) = d.buf

\* Every object a recorded draw reads outlives its execution: replaced slots,
\* bound tables and tracked textures together retain all of them.  A command
\* buffer with unretained references leaves the buffers to the application.
DrawnResourcesAlive == \A d \in gpu : Live(d.tex) /\ (d.retain => Live(d.buf))

\* Commit's hazard tracking is told of every texture a draw samples, although
\* updateBindings reports textures only when the table or the state changed.
SampledTexturesTracked == \A d \in gpu : d.tex \in enc[d.enc].tracked

\* An encoder renders into its own attachment, never through a cached view of
\* a destroyed texture whose address was handed out again.
ViewOfOwnAttachment == \A e \in Encoders : enc[e].view = enc[e].attachment

\* A descriptor arena has one recording owner: none is shared by two encoders
\* or cached while the GPU reads its sets, and both caches keep their bounds.
ArenasExclusive ==
    /\ Len(cache) <= MaxArenas /\ Len(targets) <= MaxTargets /\ IsInjective(cache)
    /\ \A e \in Encoders : enc[e].arena \notin Range(cache)
    /\ \A e, f \in Encoders : e # f /\ enc[e].arena = enc[f].arena => enc[e].arena = None

Safety ==
    /\ TypeOK /\ DrawsReadWhatWasSet /\ DrawnResourcesAlive /\ SampledTexturesTracked
    /\ ViewOfOwnAttachment /\ ArenasExclusive
=============================================================================
