------------------------ MODULE PresentationSemaphores ------------------------
(***************************************************************************)
(* Binary semaphores that Vulkan signals and GL waits on                   *)
(* (presentation-semaphore.hpp, command-buffer.cpp, drawable-reset.mm).    *)
(* A layer keeps what it imported into GL; a commit signals an imported    *)
(* semaphore again once GL has consumed it and nobody else holds it.       *)
(*                                                                         *)
(* A frame is one use of a drawable.  A semaphore is named by the frame    *)
(* that created it.  Which frames are stale is module Presentation's       *)
(* subject; here any frame may be dropped.                                 *)
(***************************************************************************)
EXTENDS Naturals, SequencesExt

CONSTANTS Frames, None,
    MaxImports, \* imports a layer keeps (32)
    MaxContexts \* bound: times the layer gets another GL context

VARIABLES
    pc,         \* per frame "new", "committed", "queued", "last", "released", "reset"
    semaphore,  \* the semaphore its commit signals
    commands,   \* frames whose completion closure still holds it
    gpu,        \* Vulkan queue: frames whose signal is pending
    payload,    \* per semaphore the frame whose signal it holds
    waits,      \* GL's stream: frames whose wait is pending
    got,        \* per frame the frame whose signal its wait took
    queue,      \* the layer's queued drawables
    imports,    \* the layer's cache and registry: [sem, fence, consumed]
    contexts
vars == <<pc, semaphore, commands, gpu, payload, waits, got, queue, imports, contexts>>
vulkan == <<commands, gpu, payload>>
gl == <<waits, got>>

Init ==
    /\ pc = [f \in Frames |-> "new"] /\ semaphore = [f \in Frames |-> None]
    /\ commands = {} /\ gpu = <<>> /\ payload = [s \in Frames |-> None]
    /\ waits = <<>> /\ got = [f \in Frames |-> None]
    /\ queue = <<>> /\ imports = <<>> /\ contexts = 0

\* use_count() > 1: a command, a texture or a drawable holds it too.
Shared(s) == \E f \in Frames : semaphore[f] = s /\ (f \in commands \/ pc[f] \notin {"new", "reset"})

\* acquire: entry i is the first that both APIs are done with; without one (0)
\* the semaphore is new.
Reusable(e) == e.consumed /\ ~Shared(e.sem)
TakeEntry(i) == [imports EXCEPT ![i].consumed = FALSE]
acquire(i) ==
    /\ i # 0 => Reusable(imports[i])
    /\ \A j \in DOMAIN imports : i = 0 \/ j < i => ~Reusable(imports[j])
commit(f, i) ==
    /\ pc[f] = "new" /\ pc' = [pc EXCEPT ![f] = "committed"] /\ acquire(i)
    /\ semaphore' = [semaphore EXCEPT ![f] = IF i = 0 THEN f ELSE imports[i].sem]
    /\ imports' = IF i = 0 THEN imports ELSE TakeEntry(i)
    /\ commands' = commands \cup {f} /\ gpu' = Append(gpu, f)
    /\ UNCHANGED <<payload, gl, queue, contexts>>

\* The GPU executes submissions in order; the completion closure goes later.
execute ==
    /\ gpu # <<>> /\ gpu' = Tail(gpu)
    /\ payload' = [payload EXCEPT ![semaphore[Head(gpu)]] = Head(gpu)]
    /\ UNCHANGED <<pc, semaphore, commands, gl, queue, imports, contexts>>
completed(f) ==
    /\ f \in commands \ ToSet(gpu) /\ commands' = commands \ {f}
    /\ UNCHANGED <<pc, semaphore, gpu, payload, gl, queue, imports, contexts>>

\* trackb_present_drawable: queued for GL, or dropped.
queuePresent(f) ==
    /\ pc[f] = "committed"
    /\ \/ pc' = [pc EXCEPT ![f] = "queued"] /\ queue' = Append(queue, f)
       \/ pc' = [pc EXCEPT ![f] = "released"] /\ UNCHANGED queue
    /\ UNCHANGED <<semaphore, vulkan, gl, imports, contexts>>

\* The cache of the current context, with the fences GL has passed.
pollFences(is) ==
    [i \in DOMAIN is |-> IF is[i].fence = None \/ is[i].fence \in ToSet(waits) THEN is[i]
                         ELSE [is[i] EXCEPT !.fence = None, !.consumed = TRUE]]
remember(is, f) == Append(is, [sem |-> semaphore[f], fence |-> f, consumed |-> FALSE])
\* Wait, copy and fence of frame f: a semaphore already imported keeps its name,
\* a new one is kept while there is room.
WithFence(is, f) ==
    IF \E i \in DOMAIN is : is[i].sem = semaphore[f]
    THEN [i \in DOMAIN is |-> IF is[i].sem = semaphore[f] THEN [is[i] EXCEPT !.fence = f] ELSE is[i]]
    ELSE IF Len(is) < MaxImports THEN remember(is, f) ELSE is
\* trackb_prepare_render drops the first k, shows the next and gives back the
\* frame before.  In another context the cache starts empty.
prepareRender(k, newContext) ==
    LET shown == IF k < Len(queue) THEN <<queue[k + 1]>> ELSE <<>>
    IN  /\ newContext => k < Len(queue) /\ contexts < MaxContexts
        /\ contexts' = IF newContext THEN contexts + 1 ELSE contexts
        /\ pc' = [f \in Frames |-> CASE f \in ToSet(shown) -> "last"
                                     [] f \in ToSet(SubSeq(queue, 1, k)) \/ pc[f] = "last" -> "released"
                                     [] OTHER -> pc[f]]
        /\ queue' = SubSeq(queue, k + 1 + Len(shown), Len(queue))
        /\ imports' = IF k = Len(queue) THEN imports
                      ELSE WithFence(IF newContext THEN <<>> ELSE pollFences(imports), queue[k + 1])
        /\ waits' = waits \o shown
        /\ UNCHANGED <<semaphore, vulkan, got>>

\* GL executes its stream in order: the wait takes the signal.
glExecute ==
    /\ waits # <<>> /\ payload[semaphore[Head(waits)]] # None
    /\ got' = [got EXCEPT ![Head(waits)] = payload[semaphore[Head(waits)]]]
    /\ payload' = [payload EXCEPT ![semaphore[Head(waits)]] = None]
    /\ waits' = Tail(waits)
    /\ UNCHANGED <<pc, semaphore, commands, gpu, queue, imports, contexts>>

\* reset, when the drawable is handed out again.
reset(f) ==
    /\ pc[f] = "released" /\ pc' = [pc EXCEPT ![f] = "reset"]
    /\ UNCHANGED <<semaphore, vulkan, gl, queue, imports, contexts>>

Next ==
    \/ \E f \in Frames, i \in 0 .. Len(imports) : commit(f, i)
    \/ \E f \in Frames : completed(f) \/ queuePresent(f) \/ reset(f)
    \/ execute \/ glExecute
    \/ \E k \in 0..Len(queue), newContext \in BOOLEAN : prepareRender(k, newContext)
Spec == Init /\ [][Next]_vars

-----------------------------------------------------------------------------
\* A binary semaphore is signalled again only after its last signal was waited
\* for: no signal is submitted while another is pending or unconsumed, or while
\* a GL wait for an earlier frame has not run (acquire after consumed).
OneSignalAhead ==
    /\ \A f \in ToSet(gpu) :
         /\ payload[semaphore[f]] = None
         /\ \A g \in ToSet(gpu) \cup ToSet(waits) : semaphore[g] = semaphore[f] => g = f
    /\ \A f \in ToSet(waits) : payload[semaphore[f]] \in {None, f}

\* GL copies a frame only after that frame's own commands: its wait takes the
\* signal of its own commit, also when the semaphore served other frames before.
WaitsForOwnFrame == \A f \in Frames : got[f] \in {None, f}

\* The assertion in trackb_prepare_render that a cached import has no fence left
\* when its semaphore comes back with another frame never fails.
ImportFenceFree ==
    \A f \in ToSet(queue) : \A i \in DOMAIN imports : imports[i].sem = semaphore[f] => imports[i].fence = None

Safety == OneSignalAhead /\ WaitsForOwnFrame /\ ImportFenceFree

=============================================================================
