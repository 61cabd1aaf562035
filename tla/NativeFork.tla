------------------------------ MODULE NativeFork ------------------------------
(***************************************************************************)
(* fork of a guest process (native/native-fork.h).                         *)
(*                                                                         *)
(* The fork handlers lock several subsystems.  The child must check in     *)
(* with the server before it goes on, and tells the parent over a pipe;    *)
(* the parent waits for at most ten seconds.  The parent's stock hook      *)
(* waits for the check-in, so the parent may call it only when there was   *)
(* one.  A child that does not answer is killed.                           *)
(***************************************************************************)
EXTENDS Naturals

CONSTANTS None, MaxForks    \* bound: calls of fork

VARIABLES
    parent,     \* its place in guest_fork
    child,      \* [at, sent, in]: its place, what it wrote to the pipe, whether it checked in
    locks,      \* [handlers, systems]: how often the locks are held
    forks,      \* number of calls
    result      \* of the last call: [pid, stops, checked], or None
vars == <<parent, child, locks, forks, result>>

NoChild == [at |-> "none", sent |-> None, in |-> FALSE]
Alive == child.at \in {"setup", "answer", "close", "running"}

Init ==
    /\ parent = "idle" /\ child = NoChild /\ forks = 0 /\ result = None
    /\ locks = [handlers |-> 0, systems |-> 0]

\* The application's prepare handlers, then the subsystems' (in
\* create_native_process, when p_armrt_fork gets that far).  The child of an
\* earlier call is on its own.
guest_fork ==
    /\ parent = "idle" /\ forks < MaxForks /\ forks' = forks + 1
    /\ locks' = [locks EXCEPT !.handlers = @ + 1] /\ parent' = "fork" /\ child' = NoChild /\ result' = None

create_native_process ==
    /\ parent = "fork" /\ locks' = [locks EXCEPT !.systems = @ + 1]
    /\ \/ parent' = "poll" /\ child' = [NoChild EXCEPT !.at = "setup"]
       \/ parent' = "failed" /\ UNCHANGED child
    /\ UNCHANGED <<forks, result>>
unprepared ==
    /\ parent = "fork" /\ parent' = "unprepared" /\ UNCHANGED <<child, locks, forks, result>>

-----------------------------------------------------------------------------
(* The child *)

\* Guarding descriptors and the check-in with the server may fail.
checkin(ok) ==
    /\ child.at = "setup" /\ child' = [child EXCEPT !.at = "answer", !.in = ok]
    /\ UNCHANGED <<parent, locks, forks, result>>
answer(sent) ==
    /\ child.at = "answer" /\ child' = [child EXCEPT !.at = IF sent THEN "close" ELSE "exited", !.sent = IF sent THEN child.in ELSE None]
    /\ UNCHANGED <<parent, locks, forks, result>>
\* A child that could not check in exits, as one that lost its directory does.
continue ==
    /\ child.at = "close"
    /\ \/ child.in /\ child' = [child EXCEPT !.at = "running"]
       \/ child' = [child EXCEPT !.at = "exited"]
    /\ UNCHANGED <<parent, locks, forks, result>>
\* The child may die anywhere.
dies == Alive /\ child' = [child EXCEPT !.at = "exited"] /\ UNCHANGED <<parent, locks, forks, result>>

-----------------------------------------------------------------------------
(* The parent *)

Release(n) == locks' = [handlers |-> locks.handlers - 1, systems |-> locks.systems - n]
Return(pid, stops) ==
    /\ parent' = IF stops THEN "stopped" ELSE "idle"
    /\ result' = [pid |-> pid, stops |-> stops, checked |-> child.in]

\* poll and read: a byte, or the end of the pipe, or nothing in time.
Checked == child.sent = TRUE
received ==
    /\ parent = "poll" /\ Checked
    /\ Release(1) /\ Return(TRUE, FALSE) /\ UNCHANGED <<child, forks>>
refused ==
    /\ parent = "poll" /\ child.sent = FALSE
    /\ parent' = "kill" /\ UNCHANGED <<child, locks, forks, result>>
\* No byte: the pipe's end (the child is gone), or a timeout or a failing poll,
\* whatever the child wrote.
noAnswer ==
    /\ parent = "poll"
    /\ parent' = "killUncertain" /\ UNCHANGED <<child, locks, forks, result>>

\* kill and wait, then the locks, without the hook that waits for a check-in.
Uncertain == parent = "killUncertain"
killed ==
    /\ parent \in {"kill", "killUncertain"} /\ child' = [child EXCEPT !.at = "exited"]
    /\ Release(1) /\ Return(FALSE, Uncertain) /\ UNCHANGED forks
\* No child: an errno, or -2 from the runtime, which stops the guest.
failed_parent(stops) ==
    /\ parent \in {"failed", "unprepared"}
    /\ Release(IF parent = "failed" THEN 1 ELSE 0) /\ Return(FALSE, stops) /\ UNCHANGED <<child, forks>>

Next ==
    \/ guest_fork \/ create_native_process \/ unprepared
    \/ (\E b \in BOOLEAN : checkin(b) \/ answer(b) \/ failed_parent(b)) \/ continue \/ dies
    \/ received \/ refused \/ noAnswer \/ killed

Spec == Init /\ [][Next]_vars

-----------------------------------------------------------------------------
\* Whatever dies or is late where, a call that returns tells the truth: a child
\* whose pid is returned has checked in, and after a failure there is no child,
\* neither running nor known to the server ("child check-in status uncertain;
\* stopping to avoid stale fork synchronization").
OutcomeTrue ==
    parent = "idle" /\ result # None =>
      /\ ~result.stops /\ result.pid = result.checked
      /\ ~result.pid => ~Alive

\* The locks of the prepare handlers are released once on every path.
LocksBalanced ==
    LET held == IF parent \in {"idle", "stopped"} THEN 0 ELSE 1 IN
    /\ locks.handlers = held
    /\ locks.systems = IF parent \in {"fork", "unprepared"} THEN 0 ELSE held

Safety == OutcomeTrue /\ LocksBalanced
=============================================================================
