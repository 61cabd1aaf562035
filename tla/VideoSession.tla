----------------------------- MODULE VideoSession -----------------------------
(***************************************************************************)
(* A VTDecompressionSession over the host's decoder (video.m and           *)
(* video-host.c of runtime/optimized).                                     *)
(*                                                                         *)
(* Every call tests the session without its lock and then works under it,  *)
(* so a call is two steps.  The decoder keeps raw pointers to samples that *)
(* it has taken and not delivered: frames come later and in another order, *)
(* or never when the data is corrupt.  A callback runs with the lock held  *)
(* and does not call the session.                                          *)
(***************************************************************************)
EXTENDS Naturals, Sequences, SequencesExt, FiniteSets

CONSTANTS
    Threads,
    Samples,        \* samples ready to decode, of the session's format
    Capacity,       \* the 64 samples a session retains
    MaxDecoders,    \* bound: decoders opened
    MaxSubmits,     \* bound: times a sample is sent
    None

VARIABLES
    session,    \* [invalid, decoder, exists, made]: decoder is a number, or None
    attachments,\* samples retained for their callback
    inside,     \* what the decoder holds, in no particular order: sequence of [sample, n]
    open,       \* host decoders that are open
    thread,     \* per thread [call, sample]: past the unlocked test
    submits,    \* number of submissions so far
    seen        \* history: submissions whose callback ran; whether one ran after an
                \* invalidation; whether a submission without callback was not announced
vars == <<session, attachments, inside, open, thread, submits, seen>>

Calls == {"decode", "finish", "wait", "invalidate"}
Idle == [call |-> "none", sample |-> None]

\* VTDecompressionSessionCreate
Init ==
    /\ session = [invalid |-> FALSE, decoder |-> 1, exists |-> TRUE, made |-> 1]
    /\ attachments = <<>> /\ inside = <<>> /\ open = {1}
    /\ thread = [t \in Threads |-> Idle] /\ submits = 0 /\ seen = [called |-> {}, late |-> FALSE, silent |-> FALSE]

\* The tests before the lock; WaitForAsynchronousFrames and Invalidate do not
\* look at v->invalid there.
begin(t, c, s) ==
    /\ session.exists /\ thread[t] = Idle
    /\ c \in {"decode", "finish"} => ~session.invalid
    /\ thread' = [thread EXCEPT ![t] = [call |-> c, sample |-> s]]
    /\ UNCHANGED <<session, attachments, inside, open, submits, seen>>

Returned(t, c) == thread[t].call = c /\ thread' = [thread EXCEPT ![t] = Idle]

-----------------------------------------------------------------------------
(* The host decoder *)

\* It keeps the stamp of a packet, with the pointer to its sample, until the
\* packet's frame is received, or lost.
hostSend(s) == Append(inside, [sample |-> s, n |-> submits + 1])
hostReceive(held, gone) == SelectSeq(held, LAMBDA e : e \notin gone)
hostOpen == session.made + 1
hostClose == open \ {session.decoder}

-----------------------------------------------------------------------------
(* Under the lock *)

\* receiveFrames delivers some of what the decoder holds; others it loses.
\* Each callback gives up one reference to its sample.
Unretain(list, held, frames) ==
    FoldLeft(LAMBDA left, e : IF e \in frames THEN RemoveFirst(left, e.sample) ELSE left, list, held)
Deliver(frames, unannounced) ==
    seen' = [called |-> seen.called \cup {f.n : f \in frames},
             late |-> seen.late \/ (session.invalid /\ frames # {}),
             silent |-> seen.silent \/ unannounced]

\* The session is invalid by now, or corrupt input has filled the list.
decodeRefused(t) ==
    /\ Returned(t, "decode") /\ (session.invalid \/ Len(attachments) >= Capacity)
    /\ UNCHANGED <<session, attachments, inside, open, submits, seen>>

Accepts == ~session.invalid /\ Len(attachments) < Capacity

\* hostSend takes the packet, possibly after frames were received to make room.
\* A sample that is still retained is announced as asynchronous (*info).
decodeSent(t, frames, lost) ==
    LET s == thread[t].sample
        held == hostSend(s) IN
    /\ Returned(t, "decode") /\ Accepts /\ session.decoder # None /\ submits < MaxSubmits
    /\ frames \cup lost \subseteq Range(held) /\ frames \cap lost = {}
    /\ submits' = submits + 1
    /\ attachments' = Unretain(Append(attachments, s), held, frames)
    /\ inside' = hostReceive(held, frames \cup lost)
    /\ Deliver(frames, Last(held) \notin frames /\ ~Contains(attachments', s)) /\ UNCHANGED <<session, open>>

\* Mutant: the oldest sample is given up instead of the one just added.
UndoOldest(list) == Tail(list)

\* hostSend fails, at once or after frames were received.
Undo(list) == Front(list)
decodeFails(t, frames) ==
    /\ Returned(t, "decode") /\ Accepts /\ frames \subseteq Range(inside)
    /\ attachments' = Undo(Unretain(Append(attachments, thread[t].sample), inside, frames))
    /\ inside' = hostReceive(inside, frames)
    /\ Deliver(frames, FALSE) /\ UNCHANGED <<session, open, submits>>

\* A flush delivers what can be delivered; then another decoder, if it opens.
\* v->invalid is not tested again.
FinishDelayedFrames(t, frames, opens) ==
    /\ Returned(t, "finish")
    /\ frames \subseteq Range(inside) /\ Deliver(frames, FALSE)
    /\ attachments' = <<>> /\ inside' = <<>>
    /\ session' = IF opens THEN [session EXCEPT !.decoder = hostOpen, !.made = hostOpen]
                  ELSE [session EXCEPT !.decoder = None, !.invalid = TRUE]
    /\ opens => session.made < MaxDecoders
    /\ open' = hostClose \cup (IF opens THEN {hostOpen} ELSE {})
    /\ UNCHANGED submits

WaitForAsynchronousFrames(t) ==
    /\ Returned(t, "wait")
    /\ UNCHANGED <<session, attachments, inside, open, submits, seen>>

Invalidate(t) ==
    /\ Returned(t, "invalidate")
    /\ session' = [session EXCEPT !.invalid = TRUE, !.decoder = None]
    /\ open' = hostClose /\ attachments' = <<>> /\ inside' = <<>>
    /\ UNCHANGED <<submits, seen>>

\* The last reference goes when no call is under way.
finalize ==
    /\ session.exists /\ \A t \in Threads : thread[t] = Idle
    /\ session' = [session EXCEPT !.exists = FALSE, !.decoder = None]
    /\ open' = hostClose /\ attachments' = <<>> /\ inside' = <<>>
    /\ UNCHANGED <<thread, submits, seen>>

Decode(t) ==
    \/ decodeRefused(t)
    \/ \E f, l \in SUBSET (Range(inside) \cup {[sample |-> thread[t].sample, n |-> submits + 1]}) :
         decodeSent(t, f, l)
    \/ \E f \in SUBSET Range(inside) : decodeFails(t, f)
Next ==
    \/ \E t \in Threads :
         \/ \E s \in Samples : begin(t, "decode", s)
         \/ \E c \in Calls \ {"decode"} : begin(t, c, None)
         \/ Decode(t)
         \/ \E f \in SUBSET Range(inside), o \in BOOLEAN : FinishDelayedFrames(t, f, o)
         \/ WaitForAsynchronousFrames(t) \/ Invalidate(t)
    \/ finalize

Spec == Init /\ [][Next]_vars

-----------------------------------------------------------------------------
Copies(seq, s) == Cardinality({i \in DOMAIN seq : seq[i] = s})

\* "Keep the submitted sample alive until its callback": for every packet the
\* decoder may still deliver its sample is retained, also when one sample is
\* sent twice, sends fail, frames are lost or a flush replaces the decoder.
SamplesRetained ==
    \A s \in Samples : Cardinality({e \in Range(inside) : e.sample = s}) <= Copies(attachments, s)

\* "Bound retained samples even when corrupt input never produces frames."
RetentionBounded == Len(attachments) <= Capacity

\* No callback after VTDecompressionSessionInvalidate has returned, although
\* a flush that was already called opens another decoder.
QuietAfterInvalidate == ~seen.late

\* A decode that does not announce its frame as asynchronous has called back.
Announced == ~seen.silent

\* Every host decoder is closed once: the open one is the session's.
DecodersOwned == open = {session.decoder} \ {None}

\* A packet that was called back is not in the decoder any more.
CalledOnce == \A e \in Range(inside) : e.n \notin seen.called

Safety == /\ SamplesRetained /\ RetentionBounded /\ QuietAfterInvalidate /\ DecodersOwned
          /\ CalledOnce /\ Announced
=============================================================================
