----------------------------- MODULE PAMainLoop -----------------------------
(***************************************************************************)
(* PADispatchMainLoop: PulseAudio's main-loop API on one serial dispatch   *)
(* queue (runtime/optimized/audio/CoreAudio/pulse/PADispatchMainLoop.cpp). *)
(*                                                                         *)
(* libpulse creates, enables and frees I/O, time and defer events.  The    *)
(* queue runs one thing at a time: a block of its FIFO, the handler of a   *)
(* source that is resumed and not cancelled, or a cancel handler.  While   *)
(* it runs a callback (running # None) the callback may call any operation *)
(* of the API.  Other threads enter through perform().                     *)
(***************************************************************************)
EXTENDS Naturals, Sequences, FiniteSets

CONSTANTS IoEvents, TimeEvents, DeferEvents,  \* the records ever allocated
          Fds,         \* descriptors fcntl(F_DUPFD_CLOEXEC) can return
          Threads,     \* threads outside the queue that call perform()
          MaxQueue,    \* bound: blocks on the queue when one is added
          None

VARIABLES suspended,   \* m_suspended
          queue,       \* blocks of m_queue, oldest first
          running,     \* what the queue executes, or None
          io, timer, defer,
          openFds,     \* open descriptors
          destroyed,   \* history: calls of each event's destroy callback
          waiting      \* threads inside a synchronous perform()

vars == <<suspended, queue, running, io, timer, defer, openFds, destroyed, waiting>>

Dirs == {"read", "write"}

Events == IoEvents \cup TimeEvents \cup DeferEvents

\* dual_source: a dispatch source per direction on one duplicate descriptor.
\* suspends is the source's own suspension count.
NoIo == [state |-> "absent", source |-> [d \in Dirs |-> "none"], suspends |-> [d \in Dirs |-> 1],
         resumed |-> [d \in Dirs |-> FALSE], pendingCancels |-> 2, destroy |-> FALSE,
         watchFd |-> None, half |-> FALSE]

NoTimer == [state |-> "absent", armed |-> FALSE, destroy |-> FALSE]

NoDefer == [state |-> "absent", active |-> TRUE, destroy |-> FALSE]

\* The constructor leaves the queue suspended.
Init ==
  /\ suspended = TRUE
  /\ queue = <<>>
  /\ running = None
  /\ io = [e \in IoEvents |-> NoIo]
  /\ timer = [e \in TimeEvents |-> NoTimer]
  /\ defer = [e \in DeferEvents |-> NoDefer]
  /\ openFds = {}
  /\ destroyed = [e \in Events |-> 0]
  /\ waiting = {}

\* suspend() and resume().
Suspend ==
  /\ ~suspended
  /\ suspended' = TRUE
  /\ UNCHANGED <<queue, running, io, timer, defer, openFds, destroyed, waiting>>

Resume ==
  /\ suspended
  /\ suspended' = FALSE
  /\ UNCHANGED <<queue, running, io, timer, defer, openFds, destroyed, waiting>>

Block(kind, e) == [kind |-> kind, ev |-> e]

\* The queue may start something.
Idle == ~suspended /\ running = None

\* A callback of libpulse is executing, so it may call the API.
InCallback == running # None

-----------------------------------------------------------------------------
(* I/O events. *)

\* One argument of io_new and io_enable: the directions its flags ask for.
\* INPUT, ERROR and HANGUP stand for reading, OUTPUT for writing.
Flags == SUBSET Dirs

\* io_new.  The duplicate or the read source cannot be made: nothing is left
\* behind, so this step changes nothing and is left out.
IoNew(e, fd, flags) ==
  /\ InCallback
  /\ io[e].state = "absent" /\ fd \notin openFds
  /\ io' = [io EXCEPT ![e] =
       [@ EXCEPT !.state = "live", !.source = [d \in Dirs |-> "live"],
                 !.suspends = [d \in Dirs |-> IF d \in flags THEN 0 ELSE 1],
                 !.resumed = [d \in Dirs |-> d \in flags], !.watchFd = fd]]
  /\ openFds' = openFds \cup {fd}
  /\ UNCHANGED <<suspended, queue, running, timer, defer, destroyed, waiting>>

\* io_new without a write source: the read source is resumed and cancelled,
\* its own cancel handler frees the record.  The caller gets no event.
IoNewHalf(e, fd) ==
  /\ InCallback
  /\ io[e].state = "absent" /\ fd \notin openFds
  /\ io' = [io EXCEPT ![e] =
       [@ EXCEPT !.state = "freed", !.source["read"] = "cancelled",
                 !.suspends["read"] = 0, !.watchFd = fd, !.half = TRUE]]
  /\ openFds' = openFds \cup {fd}
  /\ UNCHANGED <<suspended, queue, running, timer, defer, destroyed, waiting>>

\* io_enable resumes and suspends the sources whose flag changes.
IoEnable(e, flags) ==
  /\ InCallback
  /\ io[e].state = "live"
  /\ io' = [io EXCEPT ![e] =
       [@ EXCEPT !.suspends = [d \in Dirs |->
                    IF d \in flags /\ ~io[e].resumed[d] THEN @[d] - 1
                    ELSE IF d \notin flags /\ io[e].resumed[d] THEN @[d] + 1 ELSE @[d]],
                 !.resumed = [d \in Dirs |-> d \in flags]]]
  /\ UNCHANGED <<suspended, queue, running, timer, defer, openFds, destroyed, waiting>>

\* io_free resumes what is suspended, cancels both sources and releases them.
ResumedForFree(r) == [d \in Dirs |-> IF r.resumed[d] THEN r.suspends[d] ELSE r.suspends[d] - 1]

IoFree(e) ==
  /\ InCallback
  /\ io[e].state = "live"
  /\ io' = [io EXCEPT ![e] =
       [@ EXCEPT !.state = "freed", !.source = [d \in Dirs |-> "cancelled"],
                 !.suspends = ResumedForFree(io[e])]]
  /\ UNCHANGED <<suspended, queue, running, timer, defer, openFds, destroyed, waiting>>

\* The event handler of a source calls the callback.
IoFire(e, d) ==
  /\ Idle
  /\ io[e].source[d] = "live" /\ io[e].suspends[d] = 0
  /\ running' = Block("io", e)
  /\ UNCHANGED <<suspended, queue, io, timer, defer, openFds, destroyed, waiting>>

\* Mutant: the first cancel handler frees the record.
LastCancelFirst(e) == TRUE

\* --pendingCancels reaches zero; the handler of a half-made event has no peer.
LastCancel(e) == io[e].half \/ io[e].pendingCancels = 1

\* A cancel handler: the last one closes the duplicate, calls destroy and
\* deletes the record.
IoCancelled(e, d) ==
  /\ Idle
  /\ io[e].source[d] = "cancelled" /\ io[e].suspends[d] = 0
  /\ io' = [io EXCEPT ![e] =
       [@ EXCEPT !.source[d] = "retired", !.pendingCancels = @ - 1,
                 !.state = IF LastCancel(e) THEN "deleted" ELSE @]]
  /\ openFds' = IF LastCancel(e) THEN openFds \ {io[e].watchFd} ELSE openFds
  /\ destroyed' = [destroyed EXCEPT ![e] =
       IF LastCancel(e) /\ io[e].destroy THEN @ + 1 ELSE @]
  /\ UNCHANGED <<suspended, queue, running, timer, defer, waiting>>

-----------------------------------------------------------------------------
(* Time events. *)

TimeNew(e) ==
  /\ InCallback
  /\ timer[e].state = "absent"
  /\ timer' = [timer EXCEPT ![e].state = "live", ![e].armed = TRUE]
  /\ UNCHANGED <<suspended, queue, running, io, defer, openFds, destroyed, waiting>>

\* time_restart; without a time the timer is set to DISPATCH_TIME_FOREVER.
TimeRestart(e, armed) ==
  /\ InCallback
  /\ timer[e].state = "live"
  /\ timer' = [timer EXCEPT ![e].armed = armed]
  /\ UNCHANGED <<suspended, queue, running, io, defer, openFds, destroyed, waiting>>

TimeFree(e) ==
  /\ InCallback
  /\ timer[e].state = "live"
  /\ timer' = [timer EXCEPT ![e].state = "freed"]
  /\ UNCHANGED <<suspended, queue, running, io, defer, openFds, destroyed, waiting>>

\* The timer's event handler; it fires once for a time.
TimeFire(e) ==
  /\ Idle
  /\ timer[e].state = "live" /\ timer[e].armed
  /\ timer' = [timer EXCEPT ![e].armed = FALSE]
  /\ running' = Block("time", e)
  /\ UNCHANGED <<suspended, queue, io, defer, openFds, destroyed, waiting>>

\* The timer's cancel handler.
TimeCancelled(e) ==
  /\ Idle
  /\ timer[e].state = "freed"
  /\ timer' = [timer EXCEPT ![e].state = "deleted"]
  /\ destroyed' = [destroyed EXCEPT ![e] = IF timer[e].destroy THEN @ + 1 ELSE @]
  /\ UNCHANGED <<suspended, queue, running, io, defer, openFds, waiting>>

-----------------------------------------------------------------------------
(* Defer events. *)

DeferNew(e) ==
  /\ InCallback
  /\ defer[e].state = "absent"
  /\ defer' = [defer EXCEPT ![e].state = "live"]
  /\ queue' = Append(queue, Block("fire", e))
  /\ UNCHANGED <<suspended, running, io, timer, openFds, destroyed, waiting>>

\* defer_enable queues a fire for an event that was inactive.
Wakes(e, b) == ~defer[e].active /\ b

DeferEnable(e, b) ==
  /\ InCallback
  /\ defer[e].state = "live" /\ Len(queue) < MaxQueue
  /\ queue' = IF Wakes(e, b) THEN Append(queue, Block("fire", e)) ELSE queue
  /\ defer' = [defer EXCEPT ![e].active = b]
  /\ UNCHANGED <<suspended, running, io, timer, openFds, destroyed, waiting>>

\* defer_free; the record is deleted by a block of its own.
DeferFree(e) ==
  /\ InCallback
  /\ defer[e].state = "live"
  /\ defer' = [defer EXCEPT ![e].state = "freed", ![e].active = FALSE]
  /\ queue' = Append(queue, Block("free", e))
  /\ UNCHANGED <<suspended, running, io, timer, openFds, destroyed, waiting>>

-----------------------------------------------------------------------------
(* Every kind of event has its set_destroy. *)

SetDestroy(e) ==
  /\ InCallback
  /\ \/ /\ e \in IoEvents /\ io[e].state = "live"
        /\ io' = [io EXCEPT ![e].destroy = TRUE]
        /\ UNCHANGED <<timer, defer>>
     \/ /\ e \in TimeEvents /\ timer[e].state = "live"
        /\ timer' = [timer EXCEPT ![e].destroy = TRUE]
        /\ UNCHANGED <<io, defer>>
     \/ /\ e \in DeferEvents /\ defer[e].state = "live"
        /\ defer' = [defer EXCEPT ![e].destroy = TRUE]
        /\ UNCHANGED <<io, timer>>
  /\ UNCHANGED <<suspended, queue, running, openFds, destroyed, waiting>>

-----------------------------------------------------------------------------
(* The queue and perform(). *)

\* The queue takes its oldest block: defer_event_fire of an active event or a
\* block given to perform() runs until Return, the other two are done at once.
RunBlock ==
  /\ Idle /\ queue # <<>>
  /\ queue' = Tail(queue)
  /\ LET b == Head(queue)
     IN  \/ /\ b.kind = "perform" \/ (b.kind = "fire" /\ defer[b.ev].active)
            /\ running' = b
            /\ UNCHANGED <<defer, destroyed>>
         \/ /\ b.kind = "fire" /\ ~defer[b.ev].active
            /\ UNCHANGED <<running, defer, destroyed>>
         \/ /\ b.kind = "free"
            /\ defer' = [defer EXCEPT ![b.ev].state = "deleted"]
            /\ destroyed' = [destroyed EXCEPT ![b.ev] = IF defer[b.ev].destroy THEN @ + 1 ELSE @]
            /\ UNCHANGED running
  /\ UNCHANGED <<suspended, io, timer, openFds, waiting>>

\* defer_event_fire: the event is still active after its callback.
FiresAgain(b) == b.kind = "fire" /\ defer[b.ev].active

AfterCallback(b) == IF FiresAgain(b) THEN Append(queue, b) ELSE queue

\* The callback or the block is over.  defer_event_fire queues itself again
\* for an event that is still active; a synchronous perform() returns.
Return ==
  /\ InCallback
  /\ queue' = AfterCallback(running)
  /\ waiting' = waiting \ {running.ev}
  /\ running' = None
  /\ UNCHANGED <<suspended, io, timer, defer, openFds, destroyed>>

\* perform() on another thread: dispatch_sync or dispatch_async.  On the
\* queue's own thread the block runs inline, as part of the callback.
Perform(t, sync) ==
  /\ t \notin waiting /\ Len(queue) < MaxQueue
  /\ queue' = Append(queue, Block("perform", IF sync THEN t ELSE None))
  /\ waiting' = IF sync THEN waiting \cup {t} ELSE waiting
  /\ UNCHANGED <<suspended, running, io, timer, defer, openFds, destroyed>>

Next ==
  \/ Suspend \/ Resume \/ RunBlock \/ Return
  \/ \E e \in IoEvents, fd \in Fds : IoNewHalf(e, fd) \/ \E f \in Flags : IoNew(e, fd, f)
  \/ \E e \in IoEvents : IoFree(e) \/ \E f \in Flags : IoEnable(e, f)
  \/ \E e \in IoEvents, d \in Dirs : IoFire(e, d) \/ IoCancelled(e, d)
  \/ \E e \in TimeEvents : TimeNew(e) \/ TimeFree(e) \/ TimeFire(e) \/ TimeCancelled(e)
  \/ \E e \in TimeEvents, b \in BOOLEAN : TimeRestart(e, b)
  \/ \E e \in DeferEvents : DeferNew(e) \/ DeferFree(e) \/ \E b \in BOOLEAN : DeferEnable(e, b)
  \/ \E e \in Events : SetDestroy(e)
  \/ \E t \in Threads, sync \in BOOLEAN : Perform(t, sync)

Spec == Init /\ [][Next]_vars

-----------------------------------------------------------------------------
(* Properties. *)

States == {"absent", "live", "freed", "deleted"}

\* Types.
TypeOK ==
  /\ suspended \in BOOLEAN
  /\ \A k \in 1..Len(queue) : queue[k].kind \in {"fire", "free", "perform"}
  /\ running = None \/ running.kind \in {"io", "time", "fire", "perform"}
  /\ \A e \in IoEvents : /\ io[e].state \in States
                         /\ io[e].source \in [Dirs -> {"none", "live", "cancelled", "retired"}]
                         /\ io[e].suspends \in [Dirs -> Nat] /\ io[e].resumed \in [Dirs -> BOOLEAN]
                         /\ io[e].pendingCancels \in 0..2 /\ io[e].destroy \in BOOLEAN
                         /\ io[e].watchFd \in Fds \cup {None} /\ io[e].half \in BOOLEAN
  /\ timer \in [TimeEvents -> [state : States, armed : BOOLEAN, destroy : BOOLEAN]]
  /\ defer \in [DeferEvents -> [state : States, active : BOOLEAN, destroy : BOOLEAN]]
  /\ openFds \subseteq Fds
  /\ destroyed \in [Events -> Nat]
  /\ waiting \subseteq Threads

\* A source of a deleted event never calls into the record again, and until
\* both its sources have retired the duplicate it watches is open and is no
\* other event's (PADispatchMainLoop.cpp:104, :137).
IoRecordOutlivesSources ==
  \A e \in IoEvents :
    (\E d \in Dirs : io[e].source[d] \in {"live", "cancelled"}) =>
      /\ io[e].state # "deleted"
      /\ io[e].watchFd \in openFds
      /\ \A f \in IoEvents \ {e} : io[f].state \in {"live", "freed"} => io[f].watchFd # io[e].watchFd

\* No fire or callback of a defer event runs or is still queued once the block
\* that deletes it has run, also when it was freed by its own callback or
\* while fires of it were waiting (defer_event_fire reads the record after the
\* callback).
DeferRecordOutlivesFires ==
  \A e \in DeferEvents : defer[e].state = "deleted" =>
    /\ running # Block("fire", e)
    /\ \A k \in 1..Len(queue) : queue[k].ev # e

\* dispatch_resume and dispatch_suspend stay balanced: a source's count is
\* what readResumed and writeResumed say, and a cancelled source is not
\* suspended (its cancel handler would never run, and releasing it aborts).
BalancedSuspensions ==
  \A e \in IoEvents, d \in Dirs :
    /\ io[e].source[d] = "live" => io[e].suspends[d] = IF io[e].resumed[d] THEN 0 ELSE 1
    /\ io[e].source[d] = "cancelled" => io[e].suspends[d] = 0

\* destroy is called once, when the record goes, and never for an event whose
\* construction failed.
DestroyedOnce ==
  /\ \A e \in IoEvents : destroyed[e] = IF io[e].state = "deleted" /\ io[e].destroy THEN 1 ELSE 0
  /\ \A e \in TimeEvents : destroyed[e] = IF timer[e].state = "deleted" /\ timer[e].destroy THEN 1 ELSE 0
  /\ \A e \in DeferEvents : destroyed[e] = IF defer[e].state = "deleted" /\ defer[e].destroy THEN 1 ELSE 0

\* An enabled defer event has a fire queued or is in its callback, so no
\* order of enable, disable and fire loses it.
EnabledDeferWillFire ==
  \A e \in DeferEvents : defer[e].state = "live" /\ defer[e].active =>
    \/ running = Block("fire", e)
    \/ \E k \in 1..Len(queue) : queue[k] = Block("fire", e)

Safety ==
  /\ TypeOK /\ IoRecordOutlivesSources /\ DeferRecordOutlivesFires
  /\ BalancedSuspensions /\ DestroyedOnce /\ EnabledDeferWillFire

=============================================================================
