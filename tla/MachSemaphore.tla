--------------------------- MODULE MachSemaphore ---------------------------
(***************************************************************************)
(* Mach semaphores on Linux futexes (runtime/shims/kqueue/semaphore.c).    *)
(*                                                                         *)
(* Every atomic access other threads can tell apart is a step of its own;  *)
(* a compare-exchange loop is the step of its successful exchange.  A name *)
(* is <<slot, generation>>.  Names outside the table (original RPC) have   *)
(* no state here.                                                          *)
(***************************************************************************)
EXTENDS Integers, Sequences, FiniteSets, FiniteSetsExt, SequencesExt

CONSTANTS
    Threads,
    SlotCount,      \* 4096 in the code
    Generations,    \* 1024 in the code: generations before a name recurs
    Ops,            \* the calls the application makes
    InitialValues,  \* of semaphore_create
    MaxCalls,       \* bound: calls per thread
    MaxCreates,     \* bound: semaphores created; 1 never reuses a slot
    None

Waits == {"wait", "timedwait", "poll"}                 \* poll: a timeout of 0
Pairs == {"wait_signal", "timedwait_signal", "terminate"} \* signal, then wait or exit

VARIABLES
    table,      \* slot -> its struct local_semaphore
    freeSlots, nextUnused,
    names,      \* names semaphore_create handed out
    th,         \* thread -> [pc, op, slot, gen, n, withdrawn, expired, then, result, calls]
    ledger      \* slot -> [permits, taken] of its current semaphore

vars == <<table, freeSlots, nextUnused, names, th, ledger>>
Slots == 0 .. SlotCount - 1
At(t, p) == th[t].pc = p
S(t) == th[t].slot
Sem(t) == table[S(t)]

Init ==
    /\ table = [s \in Slots |-> [count |-> 0, wakeups |-> 0, users |-> 0, gen |-> 0,
                                 dead |-> FALSE, released |-> FALSE]]
    /\ freeSlots = <<>> /\ nextUnused = 0 /\ names = {}
    /\ th = [t \in Threads |-> [pc |-> "idle", op |-> None, slot |-> 0, gen |-> 0, n |-> 0,
                withdrawn |-> FALSE, expired |-> FALSE, then |-> None, result |-> None, calls |-> 0]]
    /\ ledger = [s \in Slots |-> [permits |-> 0, taken |-> 0]]

Go(t, p) == th' = [th EXCEPT ![t].pc = p]
\* Back to the caller.  A pair goes on to its wait when its signal succeeded, a
\* terminating thread to its end in any case.
AfterSignal(t, r) ==
    LET f == th[t].then
    IN CASE f = <<"exit">> -> [th[t] EXCEPT !.pc = "exited"]
         [] f # None /\ f # <<"exit">> /\ r = "success" ->
              [th[t] EXCEPT !.pc = "enter", !.op = f[1], !.slot = f[2][1], !.gen = f[2][2]]
         [] OTHER -> [th[t] EXCEPT !.pc = "idle", !.op = None]
Return(t, r) ==
    th' = [th EXCEPT ![t] = [AfterSignal(t, r) EXCEPT !.result = r, !.then = None,
                               !.withdrawn = FALSE, !.expired = FALSE, !.n = 0]]
\* leave(s), and what the operation will return.
Leaving(t, r) == th' = [th EXCEPT ![t].pc = "leave", ![t].result = r]

-----------------------------------------------------------------------------
(* Calls *)

\* A pair signals n and then waits on m.
Call(t, op, n, m) ==
    /\ At(t, "idle") /\ th[t].calls < MaxCalls /\ {n, m} \subseteq names /\ (op \notin Pairs => m = n)
    /\ th' = [th EXCEPT ![t] = [@ EXCEPT !.calls = @ + 1, !.slot = n[1], !.gen = n[2], !.result = None,
                !.op = IF op \in Pairs THEN "signal" ELSE op,
                !.then = CASE op = "wait_signal" -> <<"wait", m>> [] op = "timedwait_signal" -> <<"timedwait", m>>
                           [] op = "terminate" -> <<"exit">> [] OTHER -> None,
                !.pc = IF op = "destroy" THEN "destroy" ELSE "enter"]]
    /\ UNCHANGED <<table, freeSlots, nextUnused, names, ledger>>

\* semaphore_create, under free_lock: a freed slot, else one never used.
create(t) ==
    /\ At(t, "idle") /\ th[t].calls < MaxCalls /\ Cardinality(names) < MaxCreates
    /\ \A u \in Threads : th[u].pc \notin {"init", "publish"}
    /\ \/ /\ freeSlots # <<>> /\ freeSlots' = Front(freeSlots) /\ UNCHANGED nextUnused
          /\ th' = [th EXCEPT ![t].pc = "init", ![t].slot = Last(freeSlots), ![t].calls = @ + 1]
       \/ /\ freeSlots = <<>> /\ nextUnused < SlotCount
          /\ nextUnused' = nextUnused + 1 /\ UNCHANGED freeSlots
          /\ th' = [th EXCEPT ![t].pc = "init", ![t].slot = nextUnused, ![t].calls = @ + 1]
    /\ UNCHANGED <<table, names, ledger>>

\* The stores before the one to dead.
initialise(t, value) ==
    /\ At(t, "init") /\ Go(t, "publish")
    /\ table' = [table EXCEPT ![S(t)] = [@ EXCEPT !.count = value, !.wakeups = 0, !.released = FALSE]]
    /\ ledger' = [ledger EXCEPT ![S(t)] = [permits |-> value, taken |-> 0]]
    /\ UNCHANGED <<freeSlots, nextUnused, names>>

publish(t) ==
    /\ At(t, "publish") /\ Return(t, "success")
    /\ table' = [table EXCEPT ![S(t)].dead = FALSE]
    /\ names' = names \cup {<<S(t), Sem(t).gen % Generations>>}
    /\ UNCHANGED <<freeSlots, nextUnused, ledger>>

Current(t) == ~Sem(t).dead /\ Sem(t).gen % Generations = th[t].gen

\* The locked part of semaphore_destroy: the destroyer is a user until its wake.
Destroyed(e) == [e EXCEPT !.users = @ + 1, !.gen = @ + 1, !.dead = TRUE]
destroy(t) ==
    /\ At(t, "destroy")
    /\ IF Current(t) THEN table' = [table EXCEPT ![S(t)] = Destroyed(@)] /\ Go(t, "bump")
       ELSE Return(t, "invalid") /\ UNCHANGED table
    /\ UNCHANGED <<freeSlots, nextUnused, names, ledger>>

bump(t) ==
    /\ At(t, "bump") /\ th' = [th EXCEPT ![t].pc = "wake", ![t].n = Cardinality(Threads)]
    /\ table' = [table EXCEPT ![S(t)].wakeups = @ + 1]
    /\ UNCHANGED <<freeSlots, nextUnused, names, ledger>>

-----------------------------------------------------------------------------
(* Enter and leave *)

enter(t) ==
    /\ At(t, "enter") /\ Go(t, "check")
    /\ table' = [table EXCEPT ![S(t)].users = @ + 1]
    /\ UNCHANGED <<freeSlots, nextUnused, names, ledger>>

check(t) ==
    /\ At(t, "check")
    /\ IF Current(t) THEN Go(t, IF th[t].op \in Waits THEN "take" ELSE "signal")
       ELSE Leaving(t, "invalid")
    /\ UNCHANGED <<table, freeSlots, nextUnused, names, ledger>>

leave(t) ==
    /\ At(t, "leave") /\ table' = [table EXCEPT ![S(t)].users = @ - 1]
    /\ IF Sem(t).users = 1 THEN Go(t, "release") ELSE Return(t, th[t].result)
    /\ UNCHANGED <<freeSlots, nextUnused, names, ledger>>

\* release_if_idle: two loads, one compare-exchange, one locked push.
Idle(e) == e.dead /\ e.users = 0
release(t) ==
    /\ At(t, "release")
    /\ IF Idle(Sem(t)) THEN Go(t, "cas") ELSE Return(t, th[t].result)
    /\ UNCHANGED <<table, freeSlots, nextUnused, names, ledger>>

AlreadyReleased(e) == e.released
cas(t) ==
    /\ At(t, "cas")
    /\ IF AlreadyReleased(Sem(t)) THEN Return(t, th[t].result) /\ UNCHANGED table
       ELSE Go(t, "push") /\ table' = [table EXCEPT ![S(t)].released = TRUE]
    /\ UNCHANGED <<freeSlots, nextUnused, names, ledger>>

push(t) ==
    /\ At(t, "push") /\ Return(t, th[t].result) /\ freeSlots' = Append(freeSlots, S(t))
    /\ UNCHANGED <<table, nextUnused, names, ledger>>

-----------------------------------------------------------------------------
(* Signals *)

\* Waiters a signal releases, the count it leaves and the permits it adds.
Granted(op, c) == IF c >= 0 THEN 0 ELSE IF op = "signal_all" THEN -c ELSE 1
Added(op, c) == IF op = "signal" THEN 1 ELSE Granted(op, c)
CountAfter(op, c) == c + Added(op, c)

signal(t) ==
    LET c == Sem(t).count op == th[t].op
    IN /\ At(t, "signal")
       /\ table' = [table EXCEPT ![S(t)].count = CountAfter(op, c)]
       /\ ledger' = [ledger EXCEPT ![S(t)].permits = @ + Added(op, c)]
       /\ th' = [th EXCEPT ![t].n = Granted(op, c),
                   ![t].pc = IF Granted(op, c) > 0 THEN "grant" ELSE "leave",
                   ![t].result = IF op = "signal_thread" /\ c >= 0 THEN "not_waiting" ELSE "success"]
       /\ UNCHANGED <<freeSlots, nextUnused, names>>

grant(t) ==
    /\ At(t, "grant") /\ Go(t, "wake")
    /\ table' = [table EXCEPT ![S(t)].wakeups = @ + th[t].n]
    /\ UNCHANGED <<freeSlots, nextUnused, names, ledger>>

\* FUTEX_WAKE: up to n sleepers of the word, whichever the kernel picks.
Sleepers(s) == {u \in Threads : At(u, "asleep") /\ S(u) = s}
Woken(n, s) == IF Cardinality(s) < n THEN Cardinality(s) ELSE n
wake(t) ==
    /\ At(t, "wake")
    /\ \E W \in kSubset(Woken(th[t].n, Sleepers(S(t))), Sleepers(S(t))) :
          th' = [u \in Threads |-> IF u \in W THEN [th[u] EXCEPT !.pc = "loop"]
                  ELSE IF u = t THEN [th[u] EXCEPT !.pc = "leave", !.n = 0,
                                        !.result = IF th[t].op = "destroy" THEN "success" ELSE @]
                  ELSE th[u]]
    /\ UNCHANGED <<table, freeSlots, nextUnused, names, ledger>>

-----------------------------------------------------------------------------
(* wait_local *)

Taken(s) == ledger' = [ledger EXCEPT ![s].taken = @ + 1]

take(t) ==
    /\ At(t, "take")
    /\ IF Sem(t).count > 0
       THEN /\ table' = [table EXCEPT ![S(t)].count = @ - 1]
            /\ Taken(S(t)) /\ Leaving(t, "success")
       ELSE /\ UNCHANGED <<table, ledger>>
            /\ IF th[t].op = "poll" THEN Leaving(t, "timed_out") ELSE Go(t, "queue")
    /\ UNCHANGED <<freeSlots, nextUnused, names>>

\* A permit signalled since the last look covers this waiter.
Covered(c) == c >= 0
queue(t) ==
    /\ At(t, "queue") /\ table' = [table EXCEPT ![S(t)].count = @ - 1]
    /\ IF Covered(Sem(t).count - 1) THEN Taken(S(t)) /\ Leaving(t, "success")
       ELSE Go(t, "loop") /\ UNCHANGED ledger
    /\ UNCHANGED <<freeSlots, nextUnused, names>>

recheck(t) ==
    /\ At(t, "loop")
    /\ IF Current(t) THEN Go(t, "consume") ELSE Leaving(t, "terminated")
    /\ UNCHANGED <<table, freeSlots, nextUnused, names, ledger>>

\* Take a grant; else withdraw at the deadline; else sleep.
Timed(t) == th[t].op = "timedwait" /\ ~th[t].withdrawn
consume(t) ==
    /\ At(t, "consume")
    /\ \/ /\ Sem(t).wakeups > 0 /\ table' = [table EXCEPT ![S(t)].wakeups = @ - 1]
          /\ Taken(S(t)) /\ Leaving(t, "success")
       \/ /\ Sem(t).wakeups = 0 /\ UNCHANGED <<table, ledger>>
          /\ \/ Timed(t) /\ Go(t, "withdraw")
             \/ ~th[t].expired /\ Go(t, "futex")
             \/ th[t].withdrawn /\ Go(t, "futex")
    /\ UNCHANGED <<freeSlots, nextUnused, names>>

\* Only while still counted as waiting; otherwise the grant is on its way.
Mut_WithdrawAlways(c) == TRUE
MayWithdraw(c) == c < 0
withdraw(t) ==
    /\ At(t, "withdraw")
    /\ IF MayWithdraw(Sem(t).count)
       THEN table' = [table EXCEPT ![S(t)].count = @ + 1] /\ Leaving(t, "timed_out")
       ELSE th' = [th EXCEPT ![t].withdrawn = TRUE, ![t].pc = "loop"] /\ UNCHANGED table
    /\ UNCHANGED <<freeSlots, nextUnused, names, ledger>>

\* FUTEX_WAIT compares the word with 0 as it goes to sleep.
Sleeps(e) == e.wakeups = 0
futex(t) ==
    /\ At(t, "futex") /\ Go(t, IF Sleeps(Sem(t)) THEN "asleep" ELSE "loop")
    /\ UNCHANGED <<table, freeSlots, nextUnused, names, ledger>>

\* The futex timeout ends, or a signal interrupts the sleep.
timeout(t) ==
    /\ At(t, "asleep") /\ Timed(t)
    /\ th' = [th EXCEPT ![t].pc = "loop", ![t].expired = TRUE]
    /\ UNCHANGED <<table, freeSlots, nextUnused, names, ledger>>
interrupt(t) == At(t, "asleep") /\ Go(t, "loop") /\ UNCHANGED <<table, freeSlots, nextUnused, names, ledger>>

Step(t) ==
    \/ \E v \in InitialValues : initialise(t, v)
    \/ publish(t) \/ destroy(t) \/ bump(t) \/ enter(t) \/ check(t) \/ leave(t) \/ release(t)
    \/ cas(t) \/ push(t) \/ signal(t) \/ grant(t) \/ wake(t) \/ take(t) \/ queue(t)
    \/ recheck(t) \/ consume(t) \/ withdraw(t) \/ futex(t)
Calls(t) ==
    \/ "create" \in Ops /\ create(t)
    \/ \E op \in Ops \ {"create"}, n, m \in names : Call(t, op, n, m)

Next == \E t \in Threads : Calls(t) \/ Step(t) \/ timeout(t) \/ interrupt(t)
Spec == Init /\ [][Next]_vars

-----------------------------------------------------------------------------
(* Properties *)

Queued(s) == {t \in Threads : S(t) = s /\ th[t].pc \in {"loop", "consume", "withdraw", "futex", "asleep"}}
Sum(T) == FoldSet(LAMBDA t, acc : th[t].n + acc, 0, T)
OnSlot(s, p) == {t \in Threads : S(t) = s /\ th[t].pc = p}
Negative(c) == IF c < 0 THEN -c ELSE 0
Live(s) == s < nextUnused /\ ~table[s].dead /\ ~table[s].released
             /\ \A t \in Threads : S(t) = s => th[t].pc \notin {"init", "publish"}

\* Every waiter is accounted for exactly once while the semaphore lives: still
\* counted in a negative count, or owed by a wakeup posted or about to be.
\* Timeouts that withdraw and racing signals keep the two in step.
WaitersAccounted == \A s \in Slots : Live(s) =>
    Cardinality(Queued(s)) = Negative(table[s].count) + table[s].wakeups + Sum(OnSlot(s, "grant"))

\* No permit appears or disappears: what signals and the initial value put in
\* is what waits took, what is left and what queued waiters will still take.
PermitsConserved == \A s \in Slots : Live(s) =>
    ledger[s].permits = ledger[s].taken + table[s].count + Cardinality(Queued(s))

\* No wakeup is lost: posted wakeups always find enough waiters awake, or
\* about to be woken, to take them.
NoLostWakeup == \A s \in Slots : Live(s) =>
    Cardinality(Queued(s) \ Sleepers(s)) + Sum(OnSlot(s, "wake")) >= table[s].wakeups

\* A destroyed slot returns to the free list once: no listed slot holds a live
\* semaphore, and none is listed twice.
FreedOnce == /\ \A i, j \in DOMAIN freeSlots : i # j => freeSlots[i] # freeSlots[j]
             /\ \A s \in ToSet(freeSlots) : table[s].dead

Safety == WaitersAccounted /\ PermitsConserved /\ NoLostWakeup /\ FreedOnce

\* A waiter whose semaphore has been destroyed, whose deadline passes or for
\* whom a signal has been counted: it must not stay in semaphore_wait, unless a
\* later waiter takes the grant first.
Released(t) == t \in Queued(S(t)) /\ (Sem(t).dead \/ Timed(t) \/ Sem(t).count >= 0)
=============================================================================
