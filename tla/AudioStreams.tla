---------------------------- MODULE AudioStreams ----------------------------
(***************************************************************************)
(* One CoreAudio device on PulseAudio: AudioHardwareImpl's IO procs and    *)
(* streams, AudioHardwareImplPA's context and the AudioHardwareStreamPA    *)
(* classes (runtime/optimized/audio/CoreAudio and its pulse directory).    *)
(*                                                                         *)
(* Threads register, start and stop IO procs under m_procMutex.  A stream  *)
(* connects and stops on the device's serial queue (module PAMainLoop),    *)
(* where the context answers and the IO procs are called.  An IO proc does *)
(* not call start, stop, create or destroy on its own device: the queue's  *)
(* thread would wait for m_procMutex, or free the stream it runs for.      *)
(***************************************************************************)
EXTENDS Naturals, Sequences, FiniteSets

CONSTANTS Threads, Procs,
          MaxStreams,  \* bound: streams created in a behaviour
          MaxTime,     \* bound: frames a stream delivers
          MaxChunk,    \* bound: frames of one IO proc call
          None

VARIABLES input,       \* the device records (createStream's class)
          procs,       \* keys of m_proc
          streams,     \* m_streams: for each proc its stream, or None
          made,        \* streams created so far; stream i is the i-th one
          st,          \* the stream objects
          context,     \* m_context and its state
          pending,     \* m_pending: streams whose context callback waits
          queue,       \* blocks of m_loop, oldest first
          callback,    \* the stream whose Pulse callback runs, or None
          pc           \* what each thread does; it holds m_procMutex unless idle

vars == <<input, procs, streams, made, st, context, pending, queue, callback, pc>>

Streams == 1..MaxStreams

\* A stream: owner is *m_pending, pulse is m_stream, time is m_sampleTime, frames
\* the sample times of the frames Pulse took or gave, and answered counts the
\* calls of its context callback.
NewStream == [owner |-> TRUE, running |-> FALSE, pulse |-> "none", corked |-> FALSE,
              time |-> 0, frames |-> <<>>, answered |-> 0, deleted |-> FALSE]

Idle == [op |-> "idle"]

Init ==
  /\ input \in BOOLEAN
  /\ procs = {}
  /\ streams = [p \in Procs |-> None]
  /\ made = 0
  /\ st = [i \in Streams |-> NewStream]
  /\ context = "none"
  /\ pending = {}
  /\ queue = <<>>
  /\ callback = None
  /\ pc = [t \in Threads |-> Idle]

\* m_procMutex can be taken by an idle thread.
Unlocked == \A t \in Threads : pc[t] = Idle

-----------------------------------------------------------------------------
(* AudioHardwareImpl. *)

CreateIOProcID(p) ==
  /\ Unlocked /\ p \notin procs
  /\ procs' = procs \cup {p}
  /\ UNCHANGED <<input, streams, made, st, context, pending, queue, callback, pc>>

\* A running stream of the proc is left alone.
DestroyIOProcID(p) ==
  /\ Unlocked /\ p \in procs
  /\ procs' = procs \ {p}
  /\ UNCHANGED <<input, streams, made, st, context, pending, queue, callback, pc>>

\* start, the stream's constructor and connect: the context is asked for on
\* the queue.
Start(p) ==
  /\ Unlocked /\ made < MaxStreams
  /\ p \in procs /\ streams[p] = None
  /\ made' = made + 1
  /\ streams' = [streams EXCEPT ![p] = made + 1]
  /\ queue' = Append(queue, [kind |-> "connect", stream |-> made + 1, by |-> None])
  /\ UNCHANGED <<input, procs, st, context, pending, callback, pc>>

StopBlock(i, t) == [kind |-> "stop", stream |-> i, by |-> t]

\* stop takes the lock and performs the stream's stop() synchronously.
Stop(t, p) ==
  /\ Unlocked /\ streams[p] # None
  /\ pc' = [pc EXCEPT ![t] = [op |-> "stop", proc |-> p, round |-> 1, done |-> FALSE]]
  /\ queue' = Append(queue, StopBlock(streams[p], t))
  /\ UNCHANGED <<input, procs, streams, made, st, context, pending, callback>>

\* The destructor performs stop() once more.
StopDestructor(t) ==
  /\ pc[t].op = "stop" /\ pc[t].done /\ pc[t].round = 1
  /\ pc' = [pc EXCEPT ![t].round = 2, ![t].done = FALSE]
  /\ queue' = Append(queue, StopBlock(streams[pc[t].proc], t))
  /\ UNCHANGED <<input, procs, streams, made, st, context, pending, callback>>

\* The stream is deleted and the lock released.
StopReturn(t) ==
  /\ pc[t].op = "stop" /\ pc[t].done /\ pc[t].round = 2
  /\ st' = [st EXCEPT ![streams[pc[t].proc]].deleted = TRUE]
  /\ streams' = [streams EXCEPT ![pc[t].proc] = None]
  /\ pc' = [pc EXCEPT ![t] = Idle]
  /\ UNCHANGED <<input, procs, made, context, pending, queue, callback>>

-----------------------------------------------------------------------------
(* The queue: context and streams. *)

\* The queue is free to run its next item.
Quiet == callback = None

\* connect's context callback: the stream still has its owner and a context.
Startable(i, ctx) == st[i].owner /\ ctx = "ready"

\* Mutant: the pending callbacks stay in the list.
LeftPendingAll(answered) == pending

\* The list after finish has moved its callbacks out.
LeftPending(answered) == pending \ answered

\* The callbacks finish answers in a state: ready and failed end the wait.
AnsweredBy(ctx) == IF ctx \in {"ready", "failed"} THEN pending ELSE {}

\* The callbacks of `who` get the context; those in `open` get a pa_stream
\* (an invalid format or a failing pa_stream_new leaves the stream without).
Answer(who, ctx) ==
  \E open \in SUBSET {i \in who : Startable(i, ctx)} :
    st' = [i \in Streams |->
             IF i \notin who THEN st[i]
             ELSE [st[i] EXCEPT !.answered = @ + 1, !.running = IF i \in open THEN TRUE ELSE @,
                                !.pulse = IF i \in open THEN "open" ELSE @]]

\* getPAContext on the queue.
RunConnect ==
  /\ Quiet /\ queue # <<>> /\ Head(queue).kind = "connect"
  /\ LET i == Head(queue).stream
     IN  \/ /\ context \in {"ready", "failed"}
            /\ Answer({i}, context)
            /\ UNCHANGED <<context, pending>>
         \/ /\ context = "connecting"
            /\ pending' = pending \cup {i}
            /\ UNCHANGED <<context, st>>
         \/ /\ context = "none"     \* no pa_context, or it does not connect
            /\ context' \in {"none", "failed"}
            /\ Answer({i}, "failed")
            /\ UNCHANGED pending
         \/ /\ context = "none"
            /\ context' = "connecting"
            /\ pending' = {i}
            /\ UNCHANGED st
  /\ queue' = Tail(queue)
  /\ UNCHANGED <<input, procs, streams, made, callback, pc>>

\* The state callback `finish`: ready or failed answers all that wait.
ContextFinish(ctx) ==
  /\ Quiet /\ context = "connecting"
  /\ context' = ctx
  /\ Answer(AnsweredBy(ctx), ctx)
  /\ pending' = LeftPending(AnsweredBy(ctx))
  /\ UNCHANGED <<input, procs, streams, made, queue, callback, pc>>

\* The server goes away later; finish answers what waits, which is nothing.
ContextLost ==
  /\ Quiet /\ context = "ready"
  /\ context' = "failed"
  /\ Answer(AnsweredBy("failed"), "failed")
  /\ pending' = LeftPending(AnsweredBy("failed"))
  /\ UNCHANGED <<input, procs, streams, made, queue, callback, pc>>

\* AudioHardwareStreamPA::stop's block.
Stopped(s) == [s EXCEPT !.owner = FALSE, !.running = FALSE,
                        !.pulse = IF @ = "open" THEN "closed" ELSE @]

\* Mutant: the block is dispatched again instead of run.
RunStopRequeues ==
  /\ Quiet /\ queue # <<>> /\ Head(queue).kind = "stop"
  /\ queue' = Append(Tail(queue), Head(queue))
  /\ UNCHANGED <<input, procs, streams, made, st, context, pending, callback, pc>>

RunStop ==
  /\ Quiet /\ queue # <<>> /\ Head(queue).kind = "stop"
  /\ LET b == Head(queue)
     IN  /\ st' = [st EXCEPT ![b.stream] = Stopped(@)]
         /\ pc' = [pc EXCEPT ![b.by].done = TRUE]
  /\ queue' = Tail(queue)
  /\ UNCHANGED <<input, procs, streams, made, context, pending, callback>>

\* paStreamWriteCB or paStreamReadCB begins.  (m_stream and m_running change
\* together, so the test of m_running never fails here.)
CallbackBegin(i) ==
  /\ Quiet /\ context = "ready"
  /\ st[i].pulse = "open" /\ st[i].running /\ ~st[i].corked
  /\ callback' = i
  /\ UNCHANGED <<input, procs, streams, made, st, context, pending, queue, pc>>

\* After an error of the IO proc recording is corked; playback writes silence
\* and pulls again.
Corks(failed) == failed /\ input

\* n frames pass between the IO proc and Pulse under the sample time of the
\* call.  Audio that pa_stream_write refuses does not count.
Passed(s, n, taken) ==
  IF taken THEN [s EXCEPT !.time = @ + n, !.frames = @ \o [k \in 1..n |-> s.time + k - 1]] ELSE s

\* One round of the loop: the IO proc is called with the stream's time, for n
\* recorded frames, or for the n frames to be written that it fills or, when
\* it fails, silence does.  Recorded frames are dropped whatever it returns; a
\* refused write ends the callback, and the next one repeats the sample time.
CallbackRound(failed, taken, n) ==
  /\ callback # None /\ st[callback].time + n <= MaxTime
  /\ input => taken
  /\ st' = [st EXCEPT ![callback] = [Passed(@, n, taken) EXCEPT !.corked = Corks(failed)]]
  /\ callback' = IF Corks(failed) \/ ~taken THEN None ELSE callback
  /\ UNCHANGED <<input, procs, streams, made, context, pending, queue, pc>>

\* Nothing more to read or write, or pa_stream_peek or pa_stream_begin_write fails.
CallbackEnd ==
  /\ callback # None
  /\ callback' = None
  /\ UNCHANGED <<input, procs, streams, made, st, context, pending, queue, pc>>

QueueStep == RunConnect \/ RunStop \/ CallbackEnd

Next ==
  \/ \E p \in Procs : CreateIOProcID(p) \/ DestroyIOProcID(p) \/ Start(p)
  \/ \E t \in Threads, p \in Procs : Stop(t, p)
  \/ \E t \in Threads : StopDestructor(t) \/ StopReturn(t)
  \/ QueueStep \/ ContextLost
  \/ \E ctx \in {"ready", "failed"} : ContextFinish(ctx)
  \/ \E i \in Streams : CallbackBegin(i)
  \/ \E failed, taken \in BOOLEAN, n \in 1..MaxChunk : CallbackRound(failed, taken, n)

Spec == Init /\ [][Next]_vars

-----------------------------------------------------------------------------
(* Properties. *)

\* Types; a proc's stream exists.
TypeOK ==
  /\ input \in BOOLEAN /\ procs \subseteq Procs
  /\ streams \in [Procs -> Streams \cup {None}] /\ made \in 0..MaxStreams
  /\ \A i \in Streams : /\ st[i].pulse \in {"none", "open", "closed"}
                        /\ st[i].time \in 0..MaxTime /\ st[i].frames \in Seq(Nat)
                        /\ st[i].answered \in Nat
  /\ context \in {"none", "connecting", "ready", "failed"}
  /\ pending \subseteq Streams /\ callback \in Streams \cup {None}
  /\ \A k \in 1..Len(queue) : queue[k].kind \in {"connect", "stop"} /\ queue[k].stream \in Streams

\* Once AudioDeviceStop has returned, nothing calls the IO proc for that
\* stream again and no Pulse stream of it is or becomes open, also when the
\* context answers only afterwards (AudioHardwareStreamPA.cpp:38, "Stop
\* invalidates the pending owner on this same queue before destruction").
QuietAfterStop ==
  \A i \in Streams : st[i].deleted => /\ callback # i
                                      /\ st[i].pulse # "open"
                                      /\ ~st[i].owner

\* Each stream's context callback is called once: it is on the queue, waits
\* in m_pending or has been answered.
AnsweredOnce ==
  \A i \in 1..made :
    Cardinality({k \in 1..Len(queue) : queue[k] = [kind |-> "connect", stream |-> i, by |-> None]})
      + (IF i \in pending THEN 1 ELSE 0) + st[i].answered = 1

\* A playback stream is never corked by an IO proc's error: "corking here
\* prevents any future callback" (AudioHardwareStreamPAOutput.cpp:69).
PlaybackKeepsPulling == ~input => \A i \in Streams : ~st[i].corked

\* Every frame a stream plays or records has a sample time of its own, without
\* a gap or a repetition, also after IO proc errors and refused writes
\* (AudioHardwareStreamPAOutput.cpp:75, AudioHardwareStreamPAInput.cpp:75).
FramesTimedOnce == \A i \in Streams : \A k \in 1..Len(st[i].frames) : st[i].frames[k] = k - 1

Safety == TypeOK /\ QuietAfterStop /\ AnsweredOnce /\ PlaybackKeepsPulling /\ FramesTimedOnce

=============================================================================
