---------------------------- MODULE InputDelivery ----------------------------
(***************************************************************************)
(* The way of an input event from GTK to the application: the helper's     *)
(* queues (runtime/browser/wayland.cpp), the batches between the UI thread *)
(* and the guest (native/wayland.cpp), and the guest's pump, which posts   *)
(* to Cocoa's event queue (runtime/shims/appkit/wayland.m).                *)
(*                                                                         *)
(* The UI thread and the guest's main thread run freely; a poll never      *)
(* waits.  Events are numbered as they occur; a motion event merged from   *)
(* several has all their numbers.  Discarding of captured motion is in     *)
(* WaylandInput, and input-method text is left out.                        *)
(***************************************************************************)
EXTENDS Naturals, Sequences, SequencesExt, FiniteSets, FiniteSetsExt

CONSTANTS
    Buttons,    \* mouse buttons
    Size,       \* the 64 events of a batch
    Rounds,     \* the 512 events of a pump
    MaxInput,   \* bound: input events
    MaxFocus    \* bound: focus changes

VARIABLES
    helper,     \* [active, focusQ, fifo]: focus_changes and SDL's queue
    pressed,    \* buttons that are down on the device
    pending,    \* the future: [at, events]; at is "none", "requested" or "ready"
    batch,      \* [events, next]
    pump,       \* [at, round]: the main thread's place in pump:
    guest,      \* [queue, stash, buttons, focused]: stash is pendingFocusEvent
    app,        \* what the application saw: [seen, held, stuck]
    made,       \* history: kinds of the events, by number
    polled      \* history: numbers in the order of poll_event
vars == <<helper, pressed, pending, batch, pump, guest, app, made, polled>>

Event(k, b) == [k |-> k, b |-> b, n |-> <<Len(made) + 1>>, drag |-> FALSE]
IsFocus(e) == e.k \in {"focus", "blur"}
Numbers(events) == FlattenSeq([i \in DOMAIN events |-> events[i].n])

\* The window is active and the guest has been told.
Init ==
    /\ helper = [active |-> TRUE, focusQ |-> <<>>, fifo |-> <<>>]
    /\ pressed = {} /\ made = <<>> /\ polled = <<>>
    /\ pending = [at |-> "none", events |-> <<>>] /\ batch = [events |-> <<>>, next |-> 0]
    /\ pump = [at |-> "idle", round |-> 0]
    /\ guest = [queue |-> <<>>, stash |-> <<>>, buttons |-> {}, focused |-> TRUE]
    /\ app = [seen |-> <<>>, held |-> {}, stuck |-> FALSE]

-----------------------------------------------------------------------------
(* GTK's callbacks *)

Inputs == Cardinality({i \in DOMAIN made : made[i] \notin {"focus", "blur"}})
Push(k, b) ==
    /\ Inputs < MaxInput /\ helper.active /\ made' = Append(made, k)
    /\ helper' = [helper EXCEPT !.fifo = Append(@, Event(k, b))]
    /\ UNCHANGED <<pending, batch, pump, guest, app, polled>>

motionOrKey == (\E k \in {"motion", "key", "text"} : Push(k, 0)) /\ UNCHANGED pressed
buttonPress(b) == b \notin pressed /\ Push("down", b) /\ pressed' = pressed \cup {b}
buttonRelease(b) == b \in pressed /\ Push("up", b) /\ pressed' = pressed \ {b}

\* "A release on another workspace never reaches this surface."
releasedElsewhere(b) ==
    /\ b \in pressed /\ ~helper.active /\ pressed' = pressed \ {b}
    /\ UNCHANGED <<helper, pending, batch, pump, guest, app, made, polled>>

refresh_pointer_focus ==
    LET k == IF helper.active THEN "blur" ELSE "focus" IN
    /\ Len(made) - Inputs < MaxFocus /\ made' = Append(made, k)
    /\ helper' = [helper EXCEPT !.active = ~@, !.focusQ = Append(@, Event(k, 0))]
    /\ UNCHANGED <<pressed, pending, batch, pump, guest, app, polled>>

-----------------------------------------------------------------------------
(* Batches *)

\* poll_event takes focus changes first, and a batch ends with one.
fill_batch ==
    IF helper.focusQ # <<>> THEN <<Head(helper.focusQ)>>
    ELSE SubSeq(helper.fifo, 1, Min({Size, Len(helper.fifo)}))

\* The packaged task on the UI thread.
runTask ==
    /\ pending.at = "requested" /\ pending' = [at |-> "ready", events |-> fill_batch]
    /\ helper' = IF helper.focusQ # <<>> THEN [helper EXCEPT !.focusQ = Tail(@)]
                 ELSE [helper EXCEPT !.fifo = SubSeq(@, Len(fill_batch) + 1, Len(@))]
    /\ polled' = polled \o Numbers(fill_batch)
    /\ UNCHANGED <<pressed, batch, pump, guest, app, made>>

Consumed == batch.next = Len(batch.events)
\* A partial batch reports the end of the queue once.
Partial == batch.events # <<>> /\ Len(batch.events) < Size

-----------------------------------------------------------------------------
(* The main thread *)

Stop == [at |-> "idle", round |-> 0]
Again == IF pump.round + 1 < Rounds THEN [at |-> "poll", round |-> pump.round + 1] ELSE Stop

startPump ==
    /\ pump.at = "idle" /\ pump' = [at |-> "poll", round |-> 0]
    /\ UNCHANGED <<helper, pressed, pending, batch, guest, app, made, polled>>

\* Adjacent motion is merged, never across another event.
Posted(queue, e) ==
    IF e.k = "motion" /\ queue # <<>> /\ Last(queue).k = "motion" /\ Last(queue).drag = e.drag
    THEN [queue EXCEPT ![Len(queue)].n = @ \o e.n] ELSE Append(queue, e)

Held(held, e) == CASE e.k = "down" -> held \cup {e.b} [] e.k = "up" -> held \ {e.b} [] OTHER -> held

\* The body of pump:'s loop.  On a blur the application gets the release of
\* every button it holds, then the deactivation, and the pump returns.
HandleFocus(e) ==
    LET on == e.k = "focus" IN
    /\ guest' = [guest EXCEPT !.focused = on, !.buttons = IF on THEN @ ELSE {}, !.stash = <<>>]
    /\ app' = [app EXCEPT !.seen = @ \o e.n,
                          !.held = IF on THEN @ ELSE @ \ guest.buttons,
                          !.stuck = @ \/ (~on /\ ~(app.held \subseteq guest.buttons))]
    /\ pump' = IF on THEN Again ELSE Stop

Handle(e) ==
    CASE IsFocus(e) -> HandleFocus(e)
      [] e.k = "text" -> pump' = Again /\ app' = [app EXCEPT !.seen = @ \o e.n] /\ UNCHANGED guest
      [] OTHER -> /\ pump' = Again /\ UNCHANGED app
                  /\ guest' = [guest EXCEPT !.buttons = Held(@, e),
                                            !.queue = Posted(@, [e EXCEPT !.drag = e.k = "motion" /\ guest.buttons # {}])]

\* Mutant: a transition is handled although Cocoa still holds earlier input.
PassesQueue(e) == FALSE
\* pollInput after a poll that returned e: "Cocoa must dispatch earlier input
\* before a backend focus transition."
MustWait(e) == IsFocus(e) /\ guest.queue # <<>>
pollInput(e) ==
    IF MustWait(e) THEN guest' = [guest EXCEPT !.stash = <<e>>] /\ pump' = Stop /\ UNCHANGED app
    ELSE Handle(e)

\* A transition that was put aside comes before anything else.
pollStash ==
    /\ pump.at = "poll" /\ guest.stash # <<>>
    /\ IF guest.queue # <<>> THEN pump' = Stop /\ UNCHANGED <<guest, app>> ELSE HandleFocus(Head(guest.stash))
    /\ UNCHANGED <<helper, pressed, pending, batch, made, polled>>

pollNext ==
    /\ pump.at = "poll" /\ guest.stash = <<>> /\ ~Consumed
    /\ batch' = [batch EXCEPT !.next = @ + 1] /\ pollInput(batch.events[batch.next + 1])
    /\ UNCHANGED <<helper, pressed, pending, made, polled>>

pollEnd ==
    /\ pump.at = "poll" /\ guest.stash = <<>> /\ Consumed /\ Partial
    /\ batch' = [events |-> <<>>, next |-> 0] /\ pump' = Stop
    /\ UNCHANGED <<helper, pressed, pending, guest, app, made, polled>>

\* receive_batch keeps one request, and looks whether it is answered.
requestBatch ==
    /\ pump.at = "poll" /\ guest.stash = <<>> /\ Consumed /\ ~Partial
    /\ pending' = IF pending.at = "none" THEN [pending EXCEPT !.at = "requested"] ELSE pending
    /\ pump' = [pump EXCEPT !.at = "receive"]
    /\ UNCHANGED <<helper, pressed, batch, guest, app, made, polled>>
notReady ==
    /\ pump.at = "receive" /\ pending.at = "requested"
    /\ batch' = [events |-> <<>>, next |-> 0] /\ pump' = Stop
    /\ UNCHANGED <<helper, pressed, pending, guest, app, made, polled>>
receive_batch ==
    /\ pump.at = "receive" /\ pending.at = "ready"
    /\ pending' = [at |-> "none", events |-> <<>>]
    /\ IF pending.events = <<>>
       THEN batch' = [events |-> <<>>, next |-> 0] /\ pump' = Stop /\ UNCHANGED <<guest, app>>
       ELSE batch' = [events |-> pending.events, next |-> 1] /\ pollInput(Head(pending.events))
    /\ UNCHANGED <<helper, pressed, made, polled>>

\* The application takes the next event between two pumps.
dispatch ==
    /\ pump.at = "idle" /\ guest.queue # <<>>
    /\ LET e == Head(guest.queue)
       IN app' = [app EXCEPT !.seen = @ \o e.n, !.held = Held(@, e)]
    /\ guest' = [guest EXCEPT !.queue = Tail(@)]
    /\ UNCHANGED <<helper, pressed, pending, batch, pump, made, polled>>

Poll == pollStash \/ pollNext \/ pollEnd \/ requestBatch \/ notReady \/ receive_batch
Next ==
    \/ motionOrKey \/ refresh_pointer_focus
    \/ \E b \in Buttons : buttonPress(b) \/ buttonRelease(b) \/ releasedElsewhere(b)
    \/ runTask \/ startPump \/ Poll \/ dispatch

Spec == Init /\ [][Next]_vars

-----------------------------------------------------------------------------
Waiting == guest.queue \o guest.stash \o SubSeq(batch.events, batch.next + 1, Len(batch.events)) \o pending.events
Unpolled == helper.focusQ \o helper.fifo
Kinds(numbers, S) == SelectSeq(numbers, LAMBDA n : made[n] \in S)
Transitions == {"focus", "blur"}

\* Counts and places stay in their ranges.
TypeOK ==
    /\ batch.next \in 0 .. Len(batch.events) /\ Len(batch.events) <= Size /\ Len(guest.stash) <= 1
    /\ pump.round \in 0 .. Rounds /\ guest.buttons \subseteq Buttons /\ app.held \subseteq Buttons

\* No event is lost, doubled or passed by another on its way over batches that
\* arrive late, a transition put aside and merged motion: the application sees
\* posted input and transitions, and text and transitions, as they were polled.
\* (Text is inserted at once and may pass posted input.)
DeliveredInOrder ==
    \A S \in {Transitions \cup {"motion", "key", "down", "up"}, Transitions \cup {"text"}} :
      Kinds(app.seen \o Numbers(Waiting), S) = Kinds(polled, S)

\* "Merge adjacent motion counts, never across a button/key/scroll event."
MergesMotion == \A e \in Range(guest.queue) : Len(e.n) > 1 => \A i \in DOMAIN e.n : made[e.n[i]] = "motion"

\* Everything that occurred is polled once, input in its order and transitions
\* in theirs.
PolledOnce ==
    LET all == polled \o Numbers(Unpolled)
        increasing(S) == \A i, j \in DOMAIN Kinds(all, S) : i < j => Kinds(all, S)[i] < Kinds(all, S)[j]
    IN /\ Len(all) = Len(made) /\ increasing(Transitions)
       /\ increasing({"motion", "key", "down", "up", "text"})

\* What the guest believes held is what the application will hold once its
\* queue is dispatched, so that a blur releases every button the application
\* holds ("End held buttons ... before deactivation").
ButtonsAgree == ~app.stuck /\ guest.buttons = FoldLeft(Held, app.held, guest.queue)

\* When everything was delivered the application knows the window's focus.
FocusAgrees == Waiting = <<>> /\ Unpolled = <<>> => guest.focused = helper.active

Safety == TypeOK /\ DeliveredInOrder /\ MergesMotion /\ PolledOnce /\ ButtonsAgree /\ FocusAgrees

\* "A release on another workspace never reaches this surface.  End held
\* buttons through normal window dispatch before deactivation": a deactivated
\* application that has seen everything holds no button that is not pressed.
NothingHeldInactive == Waiting = <<>> /\ Unpolled = <<>> /\ ~guest.focused => app.held \subseteq pressed
=============================================================================
