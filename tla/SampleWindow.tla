----------------------------- MODULE SampleWindow -----------------------------
(***************************************************************************)
(* The profiler's rolling window (runtime/profiler/sampler.h, model.h):    *)
(* the kernel samples threads into a ring each, a worker sweeps the rings  *)
(* one after the other into a bounded history, and the HUD counts the      *)
(* samples of the frames it shows.  One capture, from reset to freeze; a   *)
(* sample is its time, which no two share.                                 *)
(***************************************************************************)
EXTENDS Naturals, SequencesExt

CONSTANTS
    Threads,
    capacity,   \* of SampleHistory
    frameCapacity,
    MaxTime     \* bound: samples and frames

VARIABLES
    now,        \* CLOCK_MONOTONIC
    ring,       \* per thread: [alive, attached, data]
    sweep,      \* the worker: [pc, start, todo, batch]
    history,    \* [events, evicted]
    through,    \* published.through_ns
    frames,     \* the retained frames, <<begin, end>>, and the last one's time
    hud,        \* the drawing thread: [pc, w]
    out,        \* the last window: [begin, end, truncated, samples]
    taken       \* every sample of the capture

vars == <<now, ring, sweep, history, through, frames, hud, out, taken>>

NoWindow == <<0, 0>>
Init ==
    /\ now = 0 /\ ring = [t \in Threads |-> [alive |-> TRUE, attached |-> FALSE, data |-> <<>>]]
    /\ sweep = [pc |-> "wait", start |-> 0, todo |-> {}, batch |-> <<>>]
    /\ history = [events |-> <<>>, evicted |-> 0] /\ through = 0
    /\ frames = [kept |-> <<>>, last |-> 0] /\ hud = [pc |-> "idle", w |-> NoWindow]
    /\ out = [begin |-> 0, end |-> 0, truncated |-> FALSE, samples |-> 0] /\ taken = {}

\* A running thread is sampled when its event is open; it may end at any time.
sample(t) ==
    /\ now < MaxTime /\ ring[t].alive /\ ring[t].attached /\ now' = now + 1
    /\ ring' = [ring EXCEPT ![t].data = Append(@, now')] /\ taken' = taken \cup {now'}
    /\ UNCHANGED <<sweep, history, through, frames, hud, out>>
endThread(t) ==
    /\ ring[t].alive /\ ring[t].attached /\ ring' = [ring EXCEPT ![t].alive = FALSE]
    /\ UNCHANGED <<now, sweep, history, through, frames, hud, out, taken>>

\* ProcessSampler::run: the clock is read before the first ring is drained.
startSweep ==
    /\ sweep.pc = "wait" /\ sweep' = [pc |-> "sweep", start |-> now, todo |-> Threads, batch |-> <<>>]
    /\ UNCHANGED <<now, ring, history, through, frames, hud, out, taken>>
\* Each ring is emptied, and the event of a thread that has ended is closed.
drain(t) == ring[t].data
visit(t) ==
    /\ sweep.pc = "sweep" /\ t \in sweep.todo
    /\ sweep' = [sweep EXCEPT !.todo = @ \ {t}, !.batch = @ \o drain(t)]
    /\ ring' = [ring EXCEPT ![t].data = <<>>, ![t].attached = ring[t].alive]
    /\ UNCHANGED <<now, history, through, frames, hud, out, taken>>

Mut_Through == now
Through == sweep.start
\* Threads are drained one by one, so times in the history are not sorted.
EvictedThrough(old, evicted) == Max(Range(evicted) \cup {old})
publish ==
    /\ sweep.pc = "sweep" /\ sweep.todo = {} /\ sweep' = [sweep EXCEPT !.pc = "wait", !.batch = <<>>]
    /\ LET all == history.events \o sweep.batch
           cut == IF Len(all) > capacity THEN Len(all) - capacity ELSE 0
       IN history' = [events |-> SubSeq(all, cut + 1, Len(all)),
                      evicted |-> EvictedThrough(history.evicted, SubSeq(all, 1, cut))]
    /\ through' = Through
    /\ UNCHANGED <<now, ring, frames, hud, out, taken>>

\* ProfModel::frame: the ring keeps the newest frames.
frame ==
    /\ now < MaxTime /\ now' = now + 1
    /\ LET k == IF frames.last = 0 THEN <<>> ELSE Append(frames.kept, <<frames.last, now'>>)
       IN frames' = [last |-> now', kept |-> IF Len(k) > frameCapacity THEN Tail(k) ELSE k]
    /\ UNCHANGED <<ring, sweep, history, through, hud, out, taken>>

\* The frames that ended before the published sweep began.
frameWindow(limit) ==
    LET k == SelectSeq(frames.kept, LAMBDA f : f[2] <= limit)
    IN IF k = <<>> THEN NoWindow ELSE <<k[1][1], Last(k)[2]>>
snapshot ==
    /\ hud.pc = "idle" /\ hud' = [pc |-> "snapshot", w |-> frameWindow(through)]
    /\ UNCHANGED <<now, ring, sweep, history, through, frames, out, taken>>

\* SampleHistory::window; what precedes it is dropped from the front.
Keep(x, w) == x > w[1]
window ==
    /\ hud.pc = "snapshot" /\ hud' = [hud EXCEPT !.pc = "idle"]
    /\ LET b == hud.w[1]
           e == hud.w[2]
           first == SelectInSeq(history.events, LAMBDA x : Keep(x, hud.w))
       IN /\ out' = [begin |-> b, end |-> e, truncated |-> b < history.evicted,
                     samples |-> Len(SelectSeq(history.events, LAMBDA x : b < x /\ x <= e))]
          /\ history' = [history EXCEPT !.events = IF first = 0 THEN <<>> ELSE SubSeq(@, first, Len(@))]
    /\ UNCHANGED <<now, ring, sweep, through, frames, taken>>

Next ==
    \/ \E t \in Threads : sample(t) \/ endThread(t) \/ visit(t)
    \/ startSweep \/ publish \/ frame \/ snapshot \/ window
Spec == Init /\ [][Next]_vars

-----------------------------------------------------------------------------
\* A window that is not reported as truncated counts every sample taken during
\* its frames and no other, although rings are drained at different moments,
\* the history is bounded and threads end.
WindowExact == ~out.truncated => out.samples = Cardinality({s \in taken : out.begin < s /\ s <= out.end})

\* Every sample of a retained frame is held, once, in the history, the batch
\* of the sweep or a ring, unless the history has evicted samples as late:
\* the next window will overlap this one.
SamplesAccounted ==
    LET held == history.events \o sweep.batch
    IN /\ IsInjective(held) /\ \A t \in Threads : Range(held) \cap Range(ring[t].data) = {}
       /\ \A s \in taken : (s > history.evicted /\ frames.kept # <<>> /\ s > frames.kept[1][1]) =>
            s \in Range(held) \/ \E t \in Threads : s \in Range(ring[t].data)

Safety == WindowExact /\ SamplesAccounted
=============================================================================
