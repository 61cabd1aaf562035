------------------------------ MODULE Profiler ------------------------------
(***************************************************************************)
(* Capture control of the profiler HUD (runtime/profiler/profiler.cpp).    *)
(*                                                                         *)
(* Three kinds of threads: the input thread handles F7 (freeze), F8 (show) *)
(* and F9 (export) and the mouse; renderer threads record diagnostic spans;*)
(* the drawing thread resets, snapshots, exports and lays out the HUD.     *)
(* What happens under one mutex is one step.                               *)
(***************************************************************************)
EXTENDS Integers, Sequences, FiniteSets, SequencesExt

CONSTANTS
    Workers,        \* threads that record spans
    Ring,           \* diagnostic_capacity: spans the ring retains (262144)
    AutoCapture,    \* BOOLEAN: ROBLOX_MAC_PROFILER_CAPTURE_SECONDS is set
    MaxKeys, MaxSpans, MaxExports, MaxMouse, \* bounds on what happens in a behaviour
    None

VARIABLES
    ctl,        \* [shown, paused, epoch, reset, snapshotReq, saveReq]: the atomics
    key,        \* [pc, done]: the input thread inside rbx_profiler_key
    span,       \* worker -> its RbxProfilerSpan and where it is
    model,      \* [written, drops, live]: ProfModel; live: profiler-work counters
    collectors, \* BOOLEAN: sampler and gpu_usage exist
    draw,       \* the drawing thread: [pc, snapshot, capture, began]
    panel,      \* [state, revision, layout, layoutRevision, read]
    exports,    \* what was written to disk, in order
    period      \* history: number of changes of visibility or freezing

vars == <<ctl, key, span, model, collectors, draw, panel, exports, period>>

NoSpan == [pc |-> "out", epoch |-> 0, from |-> 0, to |-> 0]
enabled == ctl.shown /\ ~ctl.paused

Init ==
    /\ ctl = [shown |-> TRUE, paused |-> FALSE, epoch |-> 1, reset |-> TRUE,
              snapshotReq |-> FALSE, saveReq |-> FALSE]
    /\ key = [pc |-> "idle", done |-> 0]
    /\ span = [w \in Workers |-> NoSpan]
    /\ model = [written |-> <<>>, spans |-> 0, live |-> 0]
    /\ collectors = FALSE /\ exports = <<>> /\ period = 0
    /\ draw = [pc |-> "out", snapshot |-> <<>>, work |-> 0, sampled |-> FALSE, began |-> 0, auto |-> AutoCapture]
    /\ panel = [state |-> 0, revision |-> 1, layout |-> None, layoutRevision |-> 0, read |-> 0]

-----------------------------------------------------------------------------
(* Renderer threads: span_begin and span_end *)

\* enabled, no reset pending; remember the epoch.
beginSpan(w) ==
    /\ span[w].pc = "out" /\ model.spans < MaxSpans /\ enabled /\ ~ctl.reset
    /\ span' = [span EXCEPT ![w] = [pc |-> "clock", epoch |-> ctl.epoch, from |-> 0, to |-> 0]]
    /\ model' = [model EXCEPT !.spans = @ + 1]
    /\ UNCHANGED <<ctl, key, collectors, draw, panel, exports, period>>

startClock(w) ==
    /\ span[w].pc = "clock" /\ span' = [span EXCEPT ![w].pc = "recheck", ![w].from = period]
    /\ UNCHANGED <<ctl, key, model, collectors, draw, panel, exports, period>>

\* The clocks count only if nothing changed while they were read.
recheckSpan(w) ==
    /\ span[w].pc = "recheck"
    /\ span' = [span EXCEPT ![w] = IF enabled /\ ctl.epoch = @.epoch THEN [@ EXCEPT !.pc = "in"] ELSE NoSpan]
    /\ UNCHANGED <<ctl, key, model, collectors, draw, panel, exports, period>>

endClock(w) ==
    /\ span[w].pc = "in"
    /\ span' = [span EXCEPT ![w] = IF enabled /\ ~ctl.reset THEN [@ EXCEPT !.pc = "locked", !.to = period] ELSE NoSpan]
    /\ UNCHANGED <<ctl, key, model, collectors, draw, panel, exports, period>>

\* Under samples_mutex, or dropped when it is taken.
Admits(w) == enabled /\ ~ctl.reset /\ span[w].epoch = ctl.epoch
endSpan(w) ==
    /\ span[w].pc = "locked" /\ span' = [span EXCEPT ![w] = NoSpan]
    /\ \/ /\ Admits(w)
          /\ model' = [model EXCEPT !.written = Append(@, [from |-> span[w].from, to |-> span[w].to])]
       \/ model' = model
    /\ UNCHANGED <<ctl, key, collectors, draw, panel, exports, period>>

-----------------------------------------------------------------------------
(* Input thread: rbx_profiler_key and rbx_profiler_mouse *)

\* The locked part: epoch and state change together.
Toggled(k) ==
    [ctl EXCEPT !.epoch = @ + 1,
                !.shown = IF k = "F8" THEN ~@ ELSE @,
                !.paused = IF k = "F7" THEN ~@ ELSE IF ~ctl.shown THEN FALSE ELSE @]
toggleKey(k) ==
    /\ key.pc = "idle" /\ key.done < MaxKeys /\ (k = "F7" => ctl.shown)
    /\ ctl' = Toggled(k) /\ period' = period + 1
    /\ key' = [pc |-> "snapshot", done |-> key.done + 1]
    /\ panel' = [panel EXCEPT !.revision = @ + 1]
    /\ UNCHANGED <<span, model, collectors, draw, exports>>

requestSnapshot ==
    /\ key.pc = "snapshot" /\ key' = [key EXCEPT !.pc = "collectors"]
    /\ ctl' = [ctl EXCEPT !.snapshotReq = TRUE]
    /\ UNCHANGED <<span, model, collectors, draw, panel, exports, period>>

StopWhenOff == FALSE
stopOrReset ==
    /\ key.pc = "collectors" /\ key' = [key EXCEPT !.pc = "idle"]
    /\ IF enabled THEN ctl' = [ctl EXCEPT !.reset = TRUE] /\ UNCHANGED collectors
       ELSE collectors' = StopWhenOff /\ UNCHANGED ctl
    /\ UNCHANGED <<span, model, draw, panel, exports, period>>

\* F9
exportKey ==
    /\ key.pc = "idle" /\ ctl.shown /\ ~ctl.saveReq /\ Len(exports) < MaxExports
    /\ ctl' = [ctl EXCEPT !.saveReq = TRUE]
    /\ panel' = [panel EXCEPT !.revision = @ + 1]
    /\ UNCHANGED <<key, span, model, collectors, draw, exports, period>>

\* A drag, resize or scroll the panel consumes, under panel_mutex.
PanelMoved == [panel EXCEPT !.state = @ + 1]
mouse ==
    /\ key.pc = "idle" /\ ctl.shown /\ panel.state < MaxMouse
    /\ panel' = [PanelMoved EXCEPT !.revision = @ + 1]
    /\ UNCHANGED <<ctl, key, span, model, collectors, draw, exports, period>>

-----------------------------------------------------------------------------
(* Drawing thread: draw *)

Retained(s) == IF Len(s) > Ring THEN SubSeq(s, Len(s) - Ring + 1, Len(s)) ELSE s

startDraw ==
    /\ draw.pc = "out" /\ ctl.shown
    /\ ctl' = [ctl EXCEPT !.reset = FALSE]
    /\ draw' = [draw EXCEPT !.pc = IF ctl.reset THEN "reset" ELSE "collect",
                            !.began = IF key.pc = "idle" THEN period ELSE -1]
    /\ UNCHANGED <<key, span, model, collectors, panel, exports, period>>

resetCapture ==
    /\ draw.pc = "reset" /\ collectors' = FALSE
    /\ model' = [model EXCEPT !.written = <<>>, !.live = 0]
    /\ draw' = [draw EXCEPT !.pc = "collect", !.snapshot = <<>>, !.work = 0, !.sampled = FALSE]
    /\ UNCHANGED <<ctl, key, span, panel, exports, period>>

\* Under collectors_mutex: start the collectors, take a snapshot when one is
\* forced, the first, or due.  A busy sampler and no force leave the old one.
MayCollect == enabled
collect ==
    LET due == ctl.snapshotReq \/ ~draw.sampled \/ ~ctl.paused
        got == collectors \/ MayCollect
        taken == [draw EXCEPT !.pc = "save", !.sampled = TRUE,
                              !.snapshot = Retained(model.written), !.work = model.live]
    IN /\ draw.pc = "collect" /\ collectors' = got
       /\ ctl' = [ctl EXCEPT !.snapshotReq = FALSE]
       /\ \/ due /\ (got \/ ctl.snapshotReq) /\ draw' = taken
          \/ ~ctl.snapshotReq /\ draw' = [draw EXCEPT !.pc = "save", !.sampled = @ \/ due]
       /\ UNCHANGED <<key, span, model, panel, exports, period>>

\* export_trace of the snapshot; resolving its symbols moves the live counters.
ExportedWork == draw.work
save ==
    /\ draw.pc = "save" /\ (ctl.saveReq \/ draw.auto)
    /\ exports' = Append(exports, [spans |-> draw.snapshot, work |-> ExportedWork, began |-> draw.began,
                                   at |-> period, frozen |-> ctl.paused])
    /\ ctl' = [ctl EXCEPT !.saveReq = FALSE]
    /\ model' = [model EXCEPT !.live = @ + 1]
    /\ panel' = [panel EXCEPT !.revision = @ + 1]
    /\ \/ draw' = [draw EXCEPT !.pc = "freeze", !.auto = FALSE] /\ draw.auto
       \/ draw' = [draw EXCEPT !.pc = "layout"] /\ ctl.saveReq
    /\ UNCHANGED <<key, span, collectors, period>>
noSave ==
    /\ draw.pc = "save" /\ ~ctl.saveReq /\ draw' = [draw EXCEPT !.pc = "layout"]
    /\ UNCHANGED <<ctl, key, span, model, collectors, panel, exports, period>>

\* A timed capture ends frozen.
AutoFrozen == [ctl EXCEPT !.paused = TRUE, !.epoch = @ + 1]
autoFreeze ==
    /\ draw.pc = "freeze" /\ draw' = [draw EXCEPT !.pc = "stop"]
    /\ ctl' = AutoFrozen /\ period' = period + 1
    /\ UNCHANGED <<key, span, model, collectors, panel, exports>>
autoStop ==
    /\ draw.pc = "stop" /\ draw' = [draw EXCEPT !.pc = "layout"] /\ collectors' = FALSE
    /\ UNCHANGED <<ctl, key, span, model, panel, exports, period>>

\* The cached layout is drawn again while the revision stands and its period
\* lasts; otherwise the revision is noted first and the panel read after it.
NoteFirst == TRUE
layoutHUD ==
    /\ draw.pc = "layout"
    /\ \/ /\ (panel.layout # None /\ panel.revision = panel.layoutRevision) \/ ~ctl.shown
          /\ draw' = [draw EXCEPT !.pc = "out", !.began = 0] /\ UNCHANGED panel
       \/ /\ ctl.shown /\ draw' = [draw EXCEPT !.pc = "build"]
          /\ panel' = [panel EXCEPT !.read = IF NoteFirst THEN panel.revision ELSE panel.state]
    /\ UNCHANGED <<ctl, key, span, model, collectors, exports, period>>
buildHUD ==
    /\ draw.pc = "build" /\ draw' = [draw EXCEPT !.pc = "out", !.began = 0]
    /\ panel' = [panel EXCEPT !.layout = IF NoteFirst THEN panel.state ELSE panel.read,
                              !.layoutRevision = IF NoteFirst THEN panel.read ELSE panel.revision]
    /\ UNCHANGED <<ctl, key, span, model, collectors, exports, period>>

Next ==
    \/ \E w \in Workers : beginSpan(w) \/ startClock(w) \/ recheckSpan(w) \/ endClock(w) \/ endSpan(w)
    \/ \E k \in {"F7", "F8"} : toggleKey(k)
    \/ requestSnapshot \/ stopOrReset \/ exportKey \/ mouse
    \/ startDraw \/ resetCapture \/ collect \/ save \/ noSave \/ autoFreeze \/ autoStop
    \/ layoutHUD \/ buildHUD

Spec == Init /\ [][Next]_vars

-----------------------------------------------------------------------------
(* Properties *)

\* No span reaches the model, a snapshot or an export that was open while the
\* HUD was hidden, frozen or shown again: its clocks were read in one period.
SpansWithinOnePeriod ==
    \A s \in ToSet(model.written) \cup ToSet(draw.snapshot) \cup UNION {ToSet(e.spans) : e \in ToSet(exports)} :
        s.from = s.to

\* While hidden or frozen nothing samples the process, once the key or the
\* timed capture that switched it off is handled.
CollectorsOffWhenDisabled ==
    (~enabled /\ key.pc = "idle" /\ draw.pc \notin {"reset", "freeze", "stop"}) => ~collectors

\* Exports of one frozen window agree, spans and work counters, if the frame
\* that writes them began after the freeze was handled.
FrozenExportsAgree ==
    \A i, j \in DOMAIN exports :
        (exports[i].frozen /\ exports[i].at = exports[j].at
           /\ exports[i].began = exports[i].at /\ exports[j].began = exports[j].at)
          => exports[i].spans = exports[j].spans /\ exports[i].work = exports[j].work

\* A layout whose revision still stands shows the panel as the mouse left it.
CachedLayoutCurrent ==
    (draw.pc # "build" /\ panel.layoutRevision = panel.revision) => panel.layout = panel.state

Safety == SpansWithinOnePeriod /\ CollectorsOffWhenDisabled /\ FrozenExportsAgree /\ CachedLayoutCurrent
=============================================================================
