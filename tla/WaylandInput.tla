----------------------------- MODULE WaylandInput -----------------------------
(***************************************************************************)
(* Pointer capture, focus and window size on Wayland                       *)
(* (runtime/browser/wayland.cpp).                                          *)
(*                                                                         *)
(* The UI thread runs GTK callbacks, requests of the guest in the order    *)
(* they were made, and the guest's polls, one at a time.  The compositor   *)
(* is asynchronous: requests travel in toComp, pointer motion comes back   *)
(* through GTK's queue and lock events through the pointer queue, and      *)
(* neither queue waits for the other.  Motion is abstracted to what can    *)
(* make a delta wrong: how often a release hint moved the pointer.         *)
(***************************************************************************)
EXTENDS Integers, Sequences, FiniteSets

CONSTANTS
    MaxCalls,   \* bound: lock, unlock and warp requests of the guest
    MaxMoves,   \* bound: motion events of the compositor
    MaxFocus,   \* bound: changes of activation, browser page and closing
    MaxSizes,   \* bound: resize requests and allocations
    Sizes       \* window sizes

VARIABLES
    win,        \* [active, browser, closing]: GTK window state
    cl,         \* the client: capture, focus, event queues
    acts,       \* async actions queued on the main context
    comp,       \* the compositor: [lock, active, hinted, hints, jumps]
    toComp,     \* requests under way to it
    gtkq,       \* motion under way to the client
    lockq,      \* locked, unlocked and relative motion under way
    size,       \* [content, reported, pending, guest, changes]
    used        \* [calls, moves, focus, sizes]: bounds

vars == <<win, cl, acts, comp, toComp, gtkq, lockq, size, used>>

\* create_window and the guest's first polls have returned.
Init ==
    /\ win = [active |-> TRUE, browser |-> FALSE, closing |-> FALSE]
    /\ cl = [focused |-> TRUE, requested |-> FALSE, lock |-> 0, locks |-> 0, active |-> FALSE,
             known |-> FALSE, base |-> [jumps |-> 0, late |-> FALSE], hints |-> 0,
             fifo |-> <<>>, queued |-> FALSE, focusQ |-> <<>>, told |-> TRUE, wrong |-> FALSE, req |-> <<>>]
    /\ comp = [lock |-> 0, active |-> FALSE, hinted |-> FALSE, hints |-> 0, jumps |-> 0]
    /\ acts = <<>> /\ toComp = <<>> /\ gtkq = <<>> /\ lockq = <<>>
    /\ \E s \in Sizes : size = [content |-> s, reported |-> s, pending |-> FALSE, guest |-> s, changes |-> 0]
    /\ used = [calls |-> 0, moves |-> 0, focus |-> 0, sizes |-> 0]

-----------------------------------------------------------------------------
(* The client's operations, on its record; req collects requests to send *)

queue_capture_state(c, a) ==
    IF c.active = a THEN c ELSE [c EXCEPT !.active = a, !.fifo = Append(@, [k |-> IF a THEN "on" ELSE "off"])]

\* Lock object and relative pointer follow the request.
apply_capture(c) ==
    CASE c.requested = (c.lock # 0) -> c
      [] c.requested /\ c.lock = 0 -> [c EXCEPT !.lock = c.locks + 1, !.locks = @ + 1, !.req = Append(@, [r |-> "lock", id |-> c.locks + 1])]
      [] OTHER -> queue_capture_state([c EXCEPT !.lock = 0, !.req = Append(@, [r |-> "destroy", id |-> c.lock])], FALSE)

\* PointerCapture::focus: losing focus drops the request.
Mut_FocusKeeps(c, f) == [c EXCEPT !.focused = f]
focus(c, f) == [c EXCEPT !.focused = f, !.requested = @ /\ f]
FocusOf(w) == w.active /\ ~w.browser /\ ~w.closing
NotRaw(e) == e.k # "raw"
queueChange(q, f) == Append(q, f)
refresh_pointer_focus(c, w) ==
    IF c.focused = FocusOf(w) THEN c
    ELSE apply_capture([focus(c, FocusOf(w)) EXCEPT !.focusQ = queueChange(@, FocusOf(w)),
                                                   !.fifo = IF FocusOf(w) THEN @ ELSE SelectSeq(@, NotRaw)])

\* The last anchor is committed while the lock still exists; positions known
\* before no longer count.
commit_capture_hint(c) ==
    IF c.lock = 0 \/ ~c.focused THEN c
    ELSE [c EXCEPT !.known = FALSE, !.hints = @ + 1, !.req = Append(@, [r |-> "hint", id |-> c.lock])]

lockAction(c, on) ==
    LET r == [c EXCEPT !.requested = on /\ c.focused] IN apply_capture(IF on THEN r ELSE commit_capture_hint(r))
warpAction(c) == IF c.focused /\ c.lock # 0 THEN [c EXCEPT !.known = FALSE] ELSE c

\* Whatever the client's record asked for is sent when the callback returns.
Commit(c) == cl' = [c EXCEPT !.req = <<>>] /\ toComp' = toComp \o c.req

-----------------------------------------------------------------------------
(* Guest *)

\* RBX_WL_LOCK and RBX_WL_WARP do not wait for the UI thread.
action_async(a) ==
    /\ used.calls < MaxCalls /\ acts' = Append(acts, a) /\ used' = [used EXCEPT !.calls = @ + 1]
    /\ UNCHANGED <<win, cl, comp, toComp, gtkq, lockq, size>>

\* RBX_WL_RESIZE_WINDOW: the guest assumes the size it asked for.
ReportResize(s) == s # size.content
resizeWindow(s) ==
    /\ used.sizes < MaxSizes /\ used' = [used EXCEPT !.sizes = @ + 1]
    /\ size' = [size EXCEPT !.guest = s, !.pending = ReportResize(s)]
    /\ UNCHANGED <<win, cl, acts, comp, toComp, gtkq, lockq>>

\* poll_event: focus first, then the size, then the event queue, in which
\* absolute motion of a capture is discarded.
Discard(e) == e.k \in {"on", "off"} \/ (e.k = "abs" /\ cl.queued)
pollFocus ==
    /\ cl.focusQ # <<>> /\ cl' = [cl EXCEPT !.told = Head(cl.focusQ), !.focusQ = Tail(@)]
    /\ UNCHANGED <<win, acts, comp, toComp, gtkq, lockq, size, used>>
pollSize ==
    /\ cl.focusQ = <<>> /\ (size.pending \/ size.reported # size.content)
    /\ size' = [size EXCEPT !.pending = FALSE, !.reported = size.content, !.guest = size.content, !.changes = 0]
    /\ UNCHANGED <<win, cl, acts, comp, toComp, gtkq, lockq, used>>
pollEvent ==
    /\ cl.focusQ = <<>> /\ ~size.pending /\ size.reported = size.content /\ cl.fifo # <<>>
    /\ LET e == Head(cl.fifo)
       IN cl' = [cl EXCEPT !.fifo = Tail(@),
                           !.queued = IF e.k \in {"on", "off"} THEN e.k = "on" ELSE @,
                           !.wrong = @ \/ (e.k = "abs" /\ Discard(e) # e.during) \/ (e.k = "raw" /\ ~cl.queued)]
    /\ UNCHANGED <<win, acts, comp, toComp, gtkq, lockq, size, used>>

-----------------------------------------------------------------------------
(* UI thread *)

runAction ==
    /\ acts # <<>> /\ acts' = Tail(acts)
    /\ LET c == refresh_pointer_focus(cl, win)
       IN Commit(CASE Head(acts) = "lock" -> lockAction(c, TRUE)
                   [] Head(acts) = "unlock" -> lockAction(c, FALSE)
                   [] OTHER -> warpAction(c))
    /\ UNCHANGED <<win, comp, gtkq, lockq, size, used>>

\* notify::is-active, notify::visible, notify::visible-child and closing.
focusChange(w) ==
    /\ used.focus < MaxFocus /\ w # win /\ (win.closing => w.closing)
    /\ used' = [used EXCEPT !.focus = @ + 1] /\ win' = w
    /\ Commit(IF w.closing THEN apply_capture(refresh_pointer_focus(cl, w)) ELSE refresh_pointer_focus(cl, w))
    /\ UNCHANGED <<acts, comp, gtkq, lockq, size>>

\* motion-notify-event: a delta only from a known position.
motion ==
    /\ gtkq # <<>> /\ gtkq' = Tail(gtkq)
    /\ LET e == Head(gtkq)
       IN cl' = IF win.browser THEN cl
                ELSE [cl EXCEPT !.known = TRUE, !.base = [jumps |-> e.jumps, late |-> e.hints < cl.hints],
                                !.fifo = Append(@, [k |-> "abs", jump |-> cl.known /\ cl.base.jumps # e.jumps,
                                                    late |-> cl.base.late, during |-> cl.active])]
    /\ UNCHANGED <<win, acts, comp, toComp, lockq, size, used>>

\* A button repeats GTK's last coordinates: it proves no position.
KnownAfterButton == cl.known
button ==
    /\ ~win.browser /\ used.moves < MaxMoves /\ used' = [used EXCEPT !.moves = @ + 1]
    /\ cl' = [cl EXCEPT !.known = KnownAfterButton]
    /\ UNCHANGED <<win, acts, comp, toComp, gtkq, lockq, size>>
leave ==
    /\ cl.known /\ cl' = [cl EXCEPT !.known = FALSE]
    /\ UNCHANGED <<win, acts, comp, toComp, gtkq, lockq, size, used>>

\* pump dispatches the pointer queue; events of a destroyed lock are dropped.
\* raw_motion passes on what arrives while captured and focused.
lockEvent ==
    /\ lockq # <<>> /\ lockq' = Tail(lockq)
    /\ LET e == Head(lockq)
       IN cl' = CASE e.id # cl.lock -> cl
                  [] e.id = cl.lock /\ e.k = "raw" -> IF cl.active /\ cl.focused THEN [cl EXCEPT !.fifo = Append(@, [k |-> "raw"])] ELSE cl
                  [] OTHER -> queue_capture_state(cl, e.k = "locked")
    /\ UNCHANGED <<win, acts, comp, toComp, gtkq, size, used>>

\* layout: GTK allocates another size.
layout(s) ==
    /\ used.sizes < MaxSizes /\ s # size.content /\ used' = [used EXCEPT !.sizes = @ + 1]
    /\ size' = [size EXCEPT !.content = s, !.changes = @ + 1]
    /\ UNCHANGED <<win, cl, acts, comp, toComp, gtkq, lockq>>

-----------------------------------------------------------------------------
(* Compositor: pointer constraints and relative pointer *)

compRequest ==
    /\ toComp # <<>> /\ toComp' = Tail(toComp)
    /\ LET q == Head(toComp)
       IN \E honoured \in BOOLEAN :
            comp' = CASE q.r = "lock" -> [comp EXCEPT !.lock = q.id, !.active = FALSE, !.hinted = FALSE]
                      [] q.r = "hint" -> [comp EXCEPT !.hinted = TRUE]
                      [] OTHER -> [comp EXCEPT !.lock = 0, !.active = FALSE, !.hinted = FALSE,
                                     !.hints = IF comp.hinted THEN @ + 1 ELSE @,
                                     !.jumps = IF comp.active /\ comp.hinted /\ honoured THEN @ + 1 ELSE @]
    /\ UNCHANGED <<win, cl, acts, gtkq, lockq, size, used>>
compLock ==
    /\ comp.lock # 0 /\ used.moves < MaxMoves /\ used' = [used EXCEPT !.moves = @ + 1]
    /\ comp' = [comp EXCEPT !.active = ~@]
    /\ lockq' = Append(lockq, [k |-> IF comp.active THEN "unlocked" ELSE "locked", id |-> comp.lock])
    /\ UNCHANGED <<win, cl, acts, toComp, gtkq, size>>
compMove ==
    /\ used.moves < MaxMoves /\ used' = [used EXCEPT !.moves = @ + 1]
    /\ lockq' = IF comp.lock # 0 THEN Append(lockq, [k |-> "raw", id |-> comp.lock]) ELSE lockq
    /\ gtkq' = IF comp.active THEN gtkq ELSE Append(gtkq, [jumps |-> comp.jumps, hints |-> comp.hints])
    /\ UNCHANGED <<win, cl, acts, comp, toComp, size>>

Windows == [active : BOOLEAN, browser : BOOLEAN, closing : BOOLEAN]
Next ==
    \/ \E a \in {"lock", "unlock", "warp"} : action_async(a)
    \/ \E s \in Sizes : resizeWindow(s) \/ layout(s)
    \/ \E w \in Windows : focusChange(w)
    \/ pollFocus \/ pollSize \/ pollEvent \/ runAction \/ motion \/ button \/ leave \/ lockEvent
    \/ compRequest \/ compLock \/ compMove

Spec == Init /\ [][Next]_vars

-----------------------------------------------------------------------------
(* Properties *)

\* The pointer is never held while the window is inactive, shows a page of the
\* browser or is closing.
LockOnlyFocused == (cl.lock # 0 \/ cl.active) => FocusOf(win)

\* What the guest was told of the focus, and is about to be told, ends in what
\* the window has.
FocusReported == FocusOf(win) = (IF cl.focusQ = <<>> THEN cl.told ELSE cl.focusQ[Len(cl.focusQ)])

\* The guest gets the absolute motion made outside a capture and the relative
\* motion made inside it, and no other, however late it polls.
MotionOfItsCapture == ~cl.wrong

\* A delta never contains the jump of a release hint, unless the position it
\* is measured from was on its way when the hint was sent.
JumpOnlyAfterLateMotion == \A i \in DOMAIN cl.fifo : cl.fifo[i].k = "abs" => (cl.fifo[i].jump => cl.fifo[i].late)

\* A guest that has nothing to be told believes the size the window has,
\* unless that size changed twice since its last report.
SizeCorrectedOnce ==
    (~size.pending /\ size.reported = size.content /\ size.changes < 2) => size.guest = size.content

Safety ==
    LockOnlyFocused /\ FocusReported /\ MotionOfItsCapture /\ JumpOnlyAfterLateMotion /\ SizeCorrectedOnce
=============================================================================
