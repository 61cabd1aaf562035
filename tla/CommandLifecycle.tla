-------------------------- MODULE CommandLifecycle --------------------------
(***************************************************************************)
(* What Metal promises an application about a command buffer, whatever the *)
(* threads, queues and semaphores below: commands execute in the order     *)
(* they were submitted; a command completes after it was scheduled and     *)
(* executed; waitUntilCompleted returns when the completion is finished,   *)
(* handlers included.                                                      *)
(***************************************************************************)
EXTENDS Sequences, Naturals

CONSTANTS Commands, Waiters, NoCommand

VARIABLES stage,     \* of each command
          pending,   \* submitted and not executed, in submission order
          scheduled, \* commands whose scheduled handlers are behind them
          executed,  \* commands the GPU has executed
          waitsFor   \* the command each waiting thread waits for

Stages == {"new", "dropped", "committed", "completed", "done"}

LifecycleVars == <<stage, pending, scheduled, executed, waitsFor>>

LifecycleInit ==
  /\ stage = [c \in Commands |-> "new"]
  /\ pending = <<>>
  /\ scheduled = {} /\ executed = {}
  /\ waitsFor = [w \in Waiters |-> NoCommand]

Abandon(c) ==
  /\ stage[c] = "new"
  /\ stage' = [stage EXCEPT ![c] = "dropped"]
  /\ UNCHANGED <<pending, scheduled, executed, waitsFor>>

Enqueue(c) ==
  /\ stage[c] = "new"
  /\ stage' = [stage EXCEPT ![c] = "committed"]
  /\ UNCHANGED <<pending, scheduled, executed, waitsFor>>

Submitted(c) == c \in executed \/ \E i \in 1..Len(pending) : pending[i] = c

SubmitCommand(c) ==
  /\ stage[c] = "committed"
  /\ ~Submitted(c)
  /\ pending' = Append(pending, c)
  /\ UNCHANGED <<stage, scheduled, executed, waitsFor>>

Schedule(c) ==
  /\ Submitted(c)
  /\ stage[c] = "committed"
  /\ c \notin scheduled
  /\ scheduled' = scheduled \cup {c}
  /\ UNCHANGED <<stage, pending, executed, waitsFor>>

Execute ==
  /\ pending # <<>>
  /\ executed' = executed \cup {Head(pending)}
  /\ pending' = Tail(pending)
  /\ UNCHANGED <<stage, scheduled, waitsFor>>

\* With nothing left to do on its behalf a command is done at once.
Complete(c) ==
  /\ stage[c] = "committed"
  /\ c \in scheduled /\ c \in executed
  /\ \E s \in {"completed", "done"} : stage' = [stage EXCEPT ![c] = s]
  /\ UNCHANGED <<pending, scheduled, executed, waitsFor>>

Finish(c) ==
  /\ stage[c] = "completed"
  /\ stage' = [stage EXCEPT ![c] = "done"]
  /\ UNCHANGED <<pending, scheduled, executed, waitsFor>>

Wait(w, c) ==
  /\ waitsFor[w] = NoCommand
  /\ stage[c] # "done"
  /\ waitsFor' = [waitsFor EXCEPT ![w] = c]
  /\ UNCHANGED <<stage, pending, scheduled, executed>>

Return(w) ==
  /\ waitsFor[w] # NoCommand
  /\ stage[waitsFor[w]] = "done"
  /\ waitsFor' = [waitsFor EXCEPT ![w] = NoCommand]
  /\ UNCHANGED <<stage, pending, scheduled, executed>>

LifecycleNext ==
  \/ \E c \in Commands : \/ Abandon(c) \/ Enqueue(c) \/ SubmitCommand(c)
                         \/ Schedule(c) \/ Complete(c) \/ Finish(c)
  \/ Execute
  \/ \E w \in Waiters : Return(w) \/ \E c \in Commands : Wait(w, c)

LifecycleSpec == LifecycleInit /\ [][LifecycleNext]_LifecycleVars
=============================================================================
