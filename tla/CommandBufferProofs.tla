------------------------ MODULE CommandBufferProofs ------------------------
(***************************************************************************)
(* Proofs about CommandBuffer, for any number of commands, semaphores,     *)
(* command pools, pollers, waiters and readers.  One inductive invariant,  *)
(* IInv, follows a command's completion from the commit to the destruction *)
(* of its closure and says who owns its semaphore at every point.          *)
(***************************************************************************)
EXTENDS CommandBuffer, FiniteSetTheorems, SequenceTheorems, TLAPS

-----------------------------------------------------------------------------
(* The inductive invariant *)

\* The variables of the event loop.
LoopTyped ==
  /\ entries \in Seq(Entry)
  /\ pollPc \in [Pollers -> PollPcs]
  /\ snapshot \in [Pollers -> Seq(Entry)]
  /\ scan \in [Pollers -> Nat \ {0}]
  /\ readyIndices \in [Pollers -> Seq(Nat \ {0})]
  /\ ready \in [Pollers -> Seq(Entry)]
  /\ counter \in [Semaphores -> Nat]

Active(c) == phase[c] \in {"submitted", "presenting", "returned"}
Published(c) == phase[c] \in {"presenting", "returned"}

\* What a command's flags say about each other.
PhaseOK(c) ==
  /\ timeline[c] # None <=> Active(c)
  /\ completed[c] => Published(c) /\ scheduledHandlers[c] = 0 /\ ~InGpu(c)
  /\ InGpu(c) => Active(c)
  /\ c \in completionWork => completed[c]
  /\ handlersCompleted[c] => completed[c] /\ encoders[c] = "none" /\ completedHandlers[c] = 0
  /\ pool[c] # None <=> phase[c] \in {"open", "locked"} \/ (Active(c) /\ ~completed[c])
PhasesOK == \A c \in Commands : PhaseOK(c)

\* A completion is in one place: the serial queue, the registered waits, the
\* callbacks moved out by a poll, or the ones that ran.
Waits(c) == Published(c) /\ ~completed[c]
Armed(e) ==
  /\ Waits(e.cb) /\ scheduledHandlers[e.cb] = 0
  /\ e.sem = timeline[e.cb] /\ e.value = count[e.sem]
InScheduled(c) == \E i \in 1..Len(scheduledQueue) : scheduledQueue[i] = c
InEntries(c) == \E i \in 1..Len(entries) : entries[i].cb = c
ScheduledOK ==
  \A i \in 1..Len(scheduledQueue) :
    /\ Waits(scheduledQueue[i])
    /\ \A j \in 1..Len(scheduledQueue) : scheduledQueue[j] = scheduledQueue[i] => j = i
EntriesOK ==
  \A i \in 1..Len(entries) :
    /\ Armed(entries[i]) /\ ~InScheduled(entries[i].cb)
    /\ \A j \in 1..Len(entries) : entries[j].cb = entries[i].cb => j = i
ReadyOK ==
  \A p \in Pollers : \A i \in 1..Len(ready[p]) :
    /\ Armed(ready[p][i]) /\ ~InGpu(ready[p][i].cb)
    /\ ~InScheduled(ready[p][i].cb) /\ ~InEntries(ready[p][i].cb)
    /\ \A j \in 1..Len(ready[p]) : ready[p][j].cb = ready[p][i].cb => j = i
SpentOK ==
  \A p \in Pollers : \A i \in 1..Len(spent[p]) :
    /\ completed[spent[p][i]]
    /\ \A j \in 1..Len(spent[p]) : spent[p][j] = spent[p][i] => j = i

\* pollEvents: one poller, whose copy is the front of the registered waits, and
\* whose collected positions are distinct and belong to executed commands.
PollOK ==
  /\ \A p, q \in Pollers : HoldsPolling(p) /\ HoldsPolling(q) => p = q
  /\ \A p \in Pollers :
       /\ pollPc[p] # "run" => ready[p] = <<>> /\ spent[p] = <<>>
       /\ pollPc[p] \in {"gpuWait", "scan"} =>
            /\ Len(snapshot[p]) <= Len(entries)
            /\ \A i \in 1..Len(snapshot[p]) : snapshot[p][i] = entries[i]
       /\ pollPc[p] = "scan" =>
            /\ scan[p] <= Len(snapshot[p]) + 1
            /\ \A i \in 1..Len(readyIndices[p]) :
                 /\ readyIndices[p][i] < scan[p]
                 /\ ~InGpu(entries[readyIndices[p][i]].cb)
                 /\ \A j \in 1..Len(readyIndices[p]) : readyIndices[p][j] = readyIndices[p][i] => j = i

\* Who holds the wrapper of a semaphore.
InSpent(c) == \E p \in Pollers : \E i \in 1..Len(spent[p]) : spent[p][i] = c
OwnersOK ==
  \A s \in Semaphores :
    /\ \A c \in Commands :
         /\ <<"commit", c>> \in owners[s] <=> timeline[c] = s /\ phase[c] \in {"submitted", "presenting"}
         /\ <<"command", c>> \in owners[s] <=> timeline[c] = s /\ ~completed[c]
         /\ <<"closure", c>> \in owners[s] <=> timeline[c] = s /\ (~completed[c] \/ InSpent(c))
    /\ \A r \in Readers : <<"reader", r>> \in owners[s] <=> reader[r] # None /\ reader[r].sem = s

\* All of them on behalf of one command, whose value the count still is.
Of(o) == IF o[1] = "reader" THEN reader[o[2]].cmd ELSE o[2]
TenantOK == \A s \in Semaphores : \A o, x \in owners[s] : Of(o) = Of(x)
ReadersOK ==
  \A r \in Readers : reader[r] # None =>
    /\ Published(reader[r].cmd)
    /\ reader[r].sem = timeline[reader[r].cmd] /\ reader[r].value = count[reader[r].sem]

\* Submissions signal the value of a semaphore their command still holds, once.
GpuOK ==
  /\ \A i \in 1..Len(gpuQueue) :
       /\ gpuQueue[i].sem = timeline[gpuQueue[i].cmd] /\ gpuQueue[i].value = count[gpuQueue[i].sem]
       /\ \A j \in 1..Len(gpuQueue) : gpuQueue[j].cmd = gpuQueue[i].cmd => j = i
  /\ \A s \in Semaphores : \A o \in owners[s] :
       IF InGpu(Of(o)) THEN counter[s] < count[s] ELSE counter[s] = count[s]
  /\ \A s \in Semaphores : count[s] <= MaxCount

\* The pools of idle objects.
PooledOK ==
  \A i \in 1..Len(recycledSems) :
    /\ owners[recycledSems[i]] = {}
    /\ counter[recycledSems[i]] = count[recycledSems[i]] /\ count[recycledSems[i]] < MaxCount
    /\ \A j \in 1..Len(recycledSems) : recycledSems[j] = recycledSems[i] => j = i
CommandPoolsOK ==
  /\ \A c, d \in Commands : pool[c] # None /\ pool[c] = pool[d] => c = d
  /\ \A i \in 1..Len(recycledCommands) :
       /\ \A c \in Commands : pool[c] # recycledCommands[i]
       /\ \A j \in 1..Len(recycledCommands) : recycledCommands[j] = recycledCommands[i] => j = i

SerialsOK == /\ \A c \in Commands : serial[c] < nextSerial
             /\ SerialsInExecutionOrder

IInv ==
  /\ TypeOK /\ LoopTyped /\ PhasesOK
  /\ ScheduledOK /\ EntriesOK /\ ReadyOK /\ SpentOK /\ PollOK
  /\ OwnersOK /\ TenantOK /\ ReadersOK /\ GpuOK
  /\ PooledOK /\ CommandPoolsOK /\ SerialsOK

-----------------------------------------------------------------------------
(* Sequences *)

\* One element more at the back.
LEMMA AppendFacts ==
  ASSUME NEW S, NEW q \in Seq(S), NEW e \in S
  PROVE  /\ Append(q, e) \in Seq(S) /\ Len(q) \in Nat /\ Len(Append(q, e)) = Len(q) + 1
         /\ \A i \in 1..Len(q) : Append(q, e)[i] = q[i]
         /\ Append(q, e)[Len(q) + 1] = e
         /\ \A i \in 1..(Len(q) + 1) : i \in 1..Len(q) \/ i = Len(q) + 1
<1>1. Len(q) \in Nat
  OBVIOUS
<1>2. \A i \in 1..(Len(q) + 1) : i \in 1..Len(q) \/ i = Len(q) + 1
  BY <1>1
<1> QED BY <1>1, <1>2, AppendProperties

\* The first element leaves.
LEMMA TailFacts ==
  ASSUME NEW S, NEW q \in Seq(S), q # <<>>
  PROVE  /\ Tail(q) \in Seq(S) /\ Len(Tail(q)) = Len(q) - 1 /\ Len(q) \in Nat /\ Len(q) >= 1
         /\ \A i \in 1..Len(Tail(q)) : i \in Nat /\ i + 1 \in 1..Len(q) /\ i + 1 # 1 /\ Tail(q)[i] = q[i + 1]
         /\ Head(q) = q[1] /\ Head(q) \in S /\ 1 \in 1..Len(q)
OBVIOUS

\* The last element leaves.
LEMMA FrontFacts ==
  ASSUME NEW S, NEW q \in Seq(S), q # <<>>, NEW f, f = SubSeq(q, 1, Len(q) - 1)
  PROVE  /\ f \in Seq(S) /\ Len(f) = Len(q) - 1 /\ Len(q) \in Nat /\ Len(q) >= 1
         /\ \A i \in 1..Len(f) : i \in 1..Len(q) /\ i # Len(q) /\ f[i] = q[i]
         /\ q[Len(q)] \in S /\ Len(q) \in 1..Len(q)
<1>1. Len(q) \in Nat /\ Len(q) >= 1 /\ Len(q) \in 1..Len(q) /\ q[Len(q)] \in S
  OBVIOUS
<1>2. \A i \in 1..(Len(q) - 1) : q[i] \in S
  OBVIOUS
<1>3. PICK n \in Int : n = Len(q) - 1
  BY <1>1
<1>4. /\ SubSeq(q, 1, n) \in Seq(S)
      /\ Len(SubSeq(q, 1, n)) = IF 1 <= n THEN n - 1 + 1 ELSE 0
      /\ \A i \in 1..(n - 1 + 1) : SubSeq(q, 1, n)[i] = q[1 + i - 1]
  BY <1>2, <1>3, SubSeqProperties
<1>5. f \in Seq(S) /\ Len(f) = n
  BY <1>1, <1>3, <1>4
<1>6. ASSUME NEW i \in 1..n PROVE f[i] = q[i] /\ i \in 1..Len(q) /\ i # Len(q)
  <2>1. i \in 1..(n - 1 + 1) /\ 1 + i - 1 = i
    BY <1>3
  <2>2. f[i] = q[1 + i - 1]
    BY <1>3, <1>4, <2>1
  <2> QED BY <1>1, <1>3, <2>1, <2>2
<1> QED BY <1>1, <1>3, <1>5, <1>6

\* The elements of a queue.
LEMMA ElementFacts ==
  ASSUME NEW S, NEW q \in Seq(S)
  PROVE  (\A i \in 1..Len(q) : q[i] \in S) /\ Len(q) \in Nat /\ (q = <<>> <=> Len(q) = 0)
OBVIOUS

-----------------------------------------------------------------------------
(* Types *)

Submission == [cmd : Commands, sem : Semaphores, value : Nat]

\* The pool of semaphores and the owners after a reference was dropped.
LEMMA DropTyped ==
  ASSUME TypeOK, NEW s \in Semaphores, NEW o, Drop(s, o)
  PROVE  owners' \in [Semaphores -> SUBSET Owner] /\ recycledSems' \in Seq(Semaphores)
<1>1. owners \in [Semaphores -> SUBSET Owner] /\ recycledSems \in Seq(Semaphores)
  BY DEF TypeOK
<1>2. owners' \in [Semaphores -> SUBSET Owner]
  <2> HIDE DEF Owner
  <2> QED BY <1>1 DEF Drop
<1>3. recycledSems' \in Seq(Semaphores)
  BY <1>1, AppendFacts DEF Drop
<1> QED BY <1>2, <1>3

\* The command pools after one was put back or destroyed.
LEMMA RecycleTyped ==
  ASSUME TypeOK, NEW c \in Commands, RecycleCommandPool(c)
  PROVE  pool' \in [Commands -> Handle(Pools)] /\ recycledCommands' \in Seq(Pools)
<1>1. pool \in [Commands -> Handle(Pools)] /\ recycledCommands \in Seq(Pools)
  BY DEF TypeOK
<1>2. pool' \in [Commands -> Handle(Pools)]
  BY <1>1 DEF RecycleCommandPool, Handle
<1>3. pool[c] # None => pool[c] \in Pools
  BY <1>1 DEF Handle
<1>4. recycledCommands' \in Seq(Pools)
  BY <1>1, <1>3, AppendFacts DEF RecycleCommandPool
<1> QED BY <1>2, <1>4

\* The steps that encode a command or work after it keep the types.
LEMMA EncodeTyped == ASSUME TypeOK, NEW c \in Commands, Encode(c) PROVE TypeOK'
<1> USE DEF TypeOK, commandVars, poolVars, semVars, doneVars, serialVars, waitVars
<1>1. CASE Create(c)
  <2>1. pool' \in [Commands -> Handle(Pools)] /\ recycledCommands' \in Seq(Pools)
    <3>1. CASE recycledCommands # <<>>
      <4>1. /\ SubSeq(recycledCommands, 1, Len(recycledCommands) - 1) \in Seq(Pools)
            /\ recycledCommands[Len(recycledCommands)] \in Pools
        BY <3>1, FrontFacts
      <4> QED BY <1>1, <3>1, <4>1 DEF Create, AcquirePool, Handle
    <3>2. CASE recycledCommands = <<>>
      BY <1>1, <3>2 DEF Create, AcquirePool, Handle
    <3> QED BY <3>1, <3>2
  <2>2. phase' \in [Commands -> Phases]
    BY <1>1 DEF Create, Phases
  <2> QED BY <1>1, <2>1, <2>2 DEF Create
<1>2. CASE Discard(c)
  <2>1. pool' \in [Commands -> Handle(Pools)] /\ recycledCommands' \in Seq(Pools)
    BY <1>2, RecycleTyped DEF Discard
  <2>2. phase' \in [Commands -> Phases] /\ encoders' \in [Commands -> {"none", "held", "work"}]
    BY <1>2 DEF Discard, Phases
  <2> QED BY <1>2, <2>1, <2>2 DEF Discard
<1>3. CASE NewEncoder(c) \/ PresentDrawable(c)
  BY <1>3 DEF NewEncoder, PresentDrawable
<1>4. CASE AddScheduledHandler(c)
  <2>1. scheduledHandlers' \in [Commands -> 0..MaxHandlers]
    <3>1. scheduledHandlers[c] + 1 \in 0..MaxHandlers
      BY <1>4, CommandBufferAssumption DEF AddScheduledHandler
    <3> QED BY <1>4, <3>1 DEF AddScheduledHandler
  <2> QED BY <1>4, <2>1 DEF AddScheduledHandler
<1>6. CASE AddCompletedHandler(c)
  <2>1. completedHandlers' \in [Commands -> 0..MaxHandlers]
    <3>1. completedHandlers[c] + 1 \in 0..MaxHandlers
      BY <1>6, CommandBufferAssumption DEF AddCompletedHandler
    <3> QED BY <1>6, <3>1 DEF AddCompletedHandler
  <2> QED BY <1>6, <2>1 DEF AddCompletedHandler
<1>5. CASE CommitLock(c)
  <2>1. phase' \in [Commands -> Phases]
    BY <1>5 DEF CommitLock, Phases
  <2> QED BY <1>5, <2>1 DEF CommitLock
<1> QED BY <1>1, <1>2, <1>3, <1>4, <1>5, <1>6 DEF Encode

\* So do the steps on the dispatch queues and of the waiting threads.
LEMMA WorkTyped ==
  ASSUME TypeOK, \/ \E c \in Commands : Work(c)
                 \/ RunScheduledHandler \/ ArmScheduled
                 \/ \E w \in Waiters : WaitReturn(w) \/ \E c \in Commands : WaitBegin(w, c)
  PROVE  TypeOK'
<1> USE DEF TypeOK, commandVars, poolVars, semVars, doneVars, serialVars, waitVars
<1>1. ASSUME NEW c \in Commands, Work(c) PROVE TypeOK'
  <2>1. CASE ReleaseEncoders(c)
    BY <2>1 DEF ReleaseEncoders
  <2>2. CASE RunCompletedHandler(c)
    <3>1. completedHandlers' \in [Commands -> 0..MaxHandlers]
      <4>1. PICK n \in 0..MaxHandlers : n = completedHandlers[c]
        OBVIOUS
      <4>2. n > 0 /\ MaxHandlers \in Nat
        BY <2>2, <4>1, CommandBufferAssumption DEF RunCompletedHandler
      <4>3. n - 1 \in 0..MaxHandlers
        BY <4>2
      <4>4. completedHandlers[c] - 1 \in 0..MaxHandlers
        BY <4>1, <4>3
      <4> QED BY <2>2, <4>4 DEF RunCompletedHandler
    <3> QED BY <2>2, <3>1 DEF RunCompletedHandler
  <2>3. CASE FinishWork(c)
    <3>1. /\ handlersCompleted' \in [Commands -> BOOLEAN] /\ asleep' \subseteq Waiters
          /\ completionWork' \subseteq Commands
      BY <2>3 DEF FinishWork, FinishCompletedHandlers
    <3> QED BY <2>3, <3>1 DEF FinishWork
  <2> QED BY <1>1, <2>1, <2>2, <2>3 DEF Work
<1>2. CASE RunScheduledHandler
  <2>1. Head(scheduledQueue) \in Commands
    BY <1>2, TailFacts DEF RunScheduledHandler
  <2>2. scheduledHandlers' \in [Commands -> 0..MaxHandlers]
    <3>1. scheduledHandlers[Head(scheduledQueue)] - 1 \in 0..MaxHandlers
      <4>1. PICK n \in 0..MaxHandlers : n = scheduledHandlers[Head(scheduledQueue)]
        BY <2>1
      <4>2. n > 0 /\ MaxHandlers \in Nat
        BY <1>2, <4>1, CommandBufferAssumption DEF RunScheduledHandler
      <4>3. n - 1 \in 0..MaxHandlers
        BY <4>2
      <4> QED BY <4>1, <4>3
    <3> QED BY <1>2, <3>1 DEF RunScheduledHandler
  <2> QED BY <1>2, <2>2 DEF RunScheduledHandler
<1>3. CASE ArmScheduled
  <2>1. scheduledQueue' \in Seq(Commands)
    BY <1>3, TailFacts DEF ArmScheduled
  <2> QED BY <1>3, <2>1 DEF ArmScheduled
<1>4. ASSUME NEW w \in Waiters, NEW c \in Commands, WaitBegin(w, c) PROVE TypeOK'
  <2>1. waitOn' \in [Waiters -> Handle(Commands)] /\ asleep' \subseteq Waiters
    BY <1>4 DEF WaitBegin, Handle
  <2> QED BY <1>4, <2>1 DEF WaitBegin
<1>5. ASSUME NEW w \in Waiters, WaitReturn(w) PROVE TypeOK'
  BY <1>5 DEF WaitReturn, Handle
<1> QED BY <1>1, <1>2, <1>3, <1>4, <1>5

\* The timeline of a command in flight is a semaphore.
LEMMA TimelineTyped == ASSUME TypeOK, PhasesOK, NEW c \in Commands, Active(c) PROVE timeline[c] \in Semaphores
BY DEF TypeOK, PhasesOK, PhaseOK, Handle

\* A commit draws a semaphore of the pool or a new one.
LEMMA SubmitTyped ==
  ASSUME TypeOK, LoopTyped, NEW c \in Commands, CommitSubmit(c)
  PROVE  /\ TypeOK' /\ LoopTyped'
         /\ \E s \in Semaphores : AcquireSemaphore(c, s)
                /\ gpuQueue' = Append(gpuQueue, [cmd |-> c, sem |-> s, value |-> count'[s]])
<1> USE DEF commandVars, poolVars, semVars, doneVars, serialVars, waitVars
<1>1. PICK s \in Semaphores : AcquireSemaphore(c, s)
              /\ gpuQueue' = Append(gpuQueue, [cmd |-> c, sem |-> s, value |-> count'[s]])
  BY DEF CommitSubmit
<1>2. /\ timeline' \in [Commands -> Handle(Semaphores)] /\ count' \in [Semaphores -> Nat]
      /\ counter' \in [Semaphores -> Nat]
  <2>1. timeline \in [Commands -> Handle(Semaphores)] /\ count \in [Semaphores -> Nat]
        /\ counter \in [Semaphores -> Nat]
    BY DEF TypeOK, LoopTyped
  <2>2. CASE recycledSems # <<>>
    BY <1>1, <2>1, <2>2 DEF AcquireSemaphore, Handle
  <2>3. CASE recycledSems = <<>>
    <3>1. /\ count' = [count EXCEPT ![s] = 1] /\ counter' = [counter EXCEPT ![s] = 0]
          /\ timeline' = [timeline EXCEPT ![c] = s]
      BY <1>1, <2>3 DEF AcquireSemaphore
    <3> QED BY <2>1, <3>1 DEF Handle
  <2> QED BY <2>2, <2>3
<1>3. owners' \in [Semaphores -> SUBSET Owner]
  <2>1. {"command", "commit", "closure"} \X {c} \in SUBSET Owner
    BY DEF Owner
  <2> QED BY <1>1, <2>1 DEF AcquireSemaphore, TypeOK
<1>4. recycledSems' \in Seq(Semaphores)
  <2>1. CASE recycledSems # <<>>
    BY <1>1, <2>1, FrontFacts DEF AcquireSemaphore, TypeOK
  <2> QED BY <1>1, <2>1 DEF AcquireSemaphore, TypeOK
<1>5. gpuQueue' \in Seq(Submission)
  <2>1. [cmd |-> c, sem |-> s, value |-> count'[s]] \in Submission
    BY <1>2 DEF Submission
  <2> QED BY <1>1, <2>1, AppendFacts DEF TypeOK, Submission
<1>6. /\ phase' \in [Commands -> Phases] /\ nextSerial' \in Nat /\ serial' \in [Commands -> Nat]
  BY DEF CommitSubmit, TypeOK, Phases
<1>7. TypeOK'
  BY <1>2, <1>3, <1>4, <1>5, <1>6 DEF TypeOK, CommitSubmit, Submission
<1>8. LoopTyped'
  BY <1>2 DEF LoopTyped, CommitSubmit, sharedVars, localVars
<1> QED BY <1>1, <1>7, <1>8

\* A poll erases slots by position: the rest keep their order.
LEMMA EraseFacts ==
  ASSUME entries \in Seq(Entry), NEW P, EraseEntries(P)
  PROVE  /\ entries' \in Seq(Entry)
         /\ \E kept \in [1..Len(entries') -> (1..Len(entries)) \ P] :
              /\ \A j \in 1..Len(entries') : entries'[j] = entries[kept[j]]
              /\ \A i, j \in 1..Len(entries') : i < j => kept[i] < kept[j]
<1> DEFINE K == (1..Len(entries)) \ P
<1>1. PICK kept \in Enumerations(K) : entries' = [j \in DOMAIN kept |-> entries[kept[j]]]
  BY DEF EraseEntries
<1>2. Cardinality(K) \in Nat
  <2>1. IsFiniteSet(1..Len(entries))
    BY FS_Interval
  <2>2. IsFiniteSet(K)
    BY <2>1, FS_Subset
  <2> QED BY <2>2, FS_CardinalityType
<1>3. /\ kept \in [1..Cardinality(K) -> K]
      /\ \A i, j \in 1..Cardinality(K) : i < j => kept[i] < kept[j]
  BY DEF Enumerations
<1>4. ASSUME NEW j \in 1..Cardinality(K) PROVE entries[kept[j]] \in Entry
  <2>1. kept[j] \in K
    BY <1>3
  <2>2. kept[j] \in 1..Len(entries)
    BY <2>1
  <2> QED BY <2>2
<1> HIDE DEF K
<1>5. entries' \in Seq(Entry) /\ Len(entries') = Cardinality(K)
  BY <1>1, <1>2, <1>3, <1>4
<1>6. \A j \in 1..Len(entries') : entries'[j] = entries[kept[j]]
  BY <1>1, <1>3, <1>5
<1>7. kept \in [1..Len(entries') -> (1..Len(entries)) \ P]
  BY <1>3, <1>5 DEF K
<1> QED BY <1>3, <1>5, <1>6, <1>7

\* A wait is registered at the back.
LEMMA ArmTyped ==
  ASSUME LoopTyped, NEW s \in Semaphores, NEW n \in Nat, NEW c \in Commands, WaitForSemaphore(s, n, c),
         UNCHANGED counter
  PROVE  LoopTyped'
<1>1. [sem |-> s, value |-> n, cb |-> c] \in Entry
  BY DEF Entry, Commands
<1>2. entries' \in Seq(Entry)
  BY <1>1, AppendFacts DEF LoopTyped, WaitForSemaphore
<1>3. pollPc' \in [Pollers -> PollPcs]
  BY DEF LoopTyped, WaitForSemaphore, NotifyIdle, PollPcs
<1> QED BY <1>2, <1>3 DEF LoopTyped, WaitForSemaphore, localVars

\* The steps of pollEvents keep the types of the loop.
LEMMA PollTyped == ASSUME IInv, NEW p \in Pollers, PollStep(p) PROVE LoopTyped'
<1> USE DEF sharedVars, localVars
<1>0. LoopTyped
  BY DEF IInv
<1>1. CASE PollSleep(p) \/ PollAwake(p) \/ PollTimeout(p) \/ PollReturn(p)
  <2>1. pollPc' \in [Pollers -> PollPcs]
    BY <1>0, <1>1 DEF LoopTyped, PollSleep, PollAwake, PollTimeout, PollReturn, PollPcs
  <2> QED BY <1>0, <1>1, <2>1 DEF LoopTyped, PollSleep, PollAwake, PollTimeout, PollReturn
<1>2. CASE PollSnapshot(p)
  <2>1. pollPc' \in [Pollers -> PollPcs] /\ snapshot' \in [Pollers -> Seq(Entry)]
    BY <1>0, <1>2 DEF LoopTyped, PollSnapshot, PollPcs
  <2> QED BY <1>0, <1>2, <2>1 DEF LoopTyped, PollSnapshot
<1>3. CASE PollSignalled(p)
  <2>1. /\ pollPc' \in [Pollers -> PollPcs] /\ scan' \in [Pollers -> Nat \ {0}]
        /\ readyIndices' \in [Pollers -> Seq(Nat \ {0})]
    <3>1. <<>> \in Seq(Nat \ {0}) /\ 1 \in Nat \ {0}
      OBVIOUS
    <3> QED BY <1>0, <1>3, <3>1 DEF LoopTyped, PollSignalled, PollPcs
  <2> QED BY <1>0, <1>3, <2>1 DEF LoopTyped, PollSignalled
<1>4. CASE PollScan(p)
  <2>1. scan[p] \in Nat \ {0} /\ readyIndices[p] \in Seq(Nat \ {0})
    BY <1>0 DEF LoopTyped
  <2>2. scan[p] + 1 \in Nat \ {0} /\ Append(readyIndices[p], scan[p]) \in Seq(Nat \ {0})
    BY <2>1, AppendFacts
  <2>3. scan' \in [Pollers -> Nat \ {0}] /\ readyIndices' \in [Pollers -> Seq(Nat \ {0})]
    BY <1>0, <1>4, <2>2 DEF LoopTyped, PollScan
  <2> QED BY <1>0, <1>4, <2>3 DEF LoopTyped, PollScan
<1>5. CASE PollRemove(p)
  <2> DEFINE idx == readyIndices[p]
             moved == [i \in 1..Len(idx) |-> entries[idx[i]]]
  <2>1. /\ pollPc[p] = "scan" /\ ready' = [ready EXCEPT ![p] = moved]
        /\ EraseEntries({idx[i] : i \in 1..Len(idx)})
        /\ pollPc' = [pollPc EXCEPT ![p] = "run"]
        /\ UNCHANGED <<snapshot, scan, readyIndices, counter>>
    BY <1>5 DEF PollRemove
  <2>2. idx \in Seq(Nat \ {0}) /\ entries \in Seq(Entry) /\ snapshot[p] \in Seq(Entry) /\ scan[p] \in Nat
    BY <1>0 DEF LoopTyped
  <2>3. \A i \in 1..Len(idx) : idx[i] \in 1..Len(entries)
    <3>1. /\ scan[p] <= Len(snapshot[p]) + 1 /\ Len(snapshot[p]) <= Len(entries)
          /\ \A i \in 1..Len(idx) : idx[i] < scan[p]
      BY <2>1 DEF IInv, PollOK
    <3>2. Len(snapshot[p]) \in Nat /\ Len(entries) \in Nat /\ \A i \in 1..Len(idx) : idx[i] \in Nat \ {0}
      BY <2>2
    <3> HIDE DEF idx
    <3> QED BY <2>2, <3>1, <3>2
  <2>4. moved \in Seq(Entry)
    <3>1. \A i \in 1..Len(idx) : entries[idx[i]] \in Entry
      BY <2>2, <2>3
    <3>2. Len(idx) \in Nat
      BY <2>2
    <3> HIDE DEF idx
    <3> QED BY <3>1, <3>2
  <2>5. entries' \in Seq(Entry)
    BY <2>1, <2>2, EraseFacts
  <2> HIDE DEF moved
  <2>6. ready' \in [Pollers -> Seq(Entry)] /\ pollPc' \in [Pollers -> PollPcs]
    BY <1>0, <2>1, <2>4 DEF LoopTyped, PollPcs
  <2> QED BY <1>0, <2>1, <2>5, <2>6 DEF LoopTyped
<1> QED BY <1>1, <1>2, <1>3, <1>4, <1>5 DEF PollStep

-----------------------------------------------------------------------------
(* Steps that only prepare a command or work after its completion *)

\* Semaphores, queues and completions stay; no command in flight changes its
\* phase, and none gets a scheduled handler back.
Calm ==
  /\ UNCHANGED <<loopVars, semVars, completed, gpuQueue, scheduledQueue, spent, serialVars, reader>>
  /\ \A d \in Commands : \/ phase'[d] = phase[d]
                         \/ ~Active(d) /\ ~Active(d)'
  /\ \A d \in Commands : Active(d) /\ scheduledHandlers[d] = 0 => scheduledHandlers'[d] = 0

\* Encoding a command is calm.
LEMMA EncodeCalm == ASSUME TypeOK, NEW c \in Commands, Encode(c) PROVE Calm
<1> USE DEF commandVars, poolVars, semVars, doneVars, serialVars, waitVars
<1>1. UNCHANGED <<loopVars, semVars, completed, gpuQueue, scheduledQueue, spent, serialVars, reader>>
  BY DEF Encode, Create, Discard, NewEncoder, PresentDrawable, AddScheduledHandler, AddCompletedHandler,
         CommitLock
<1>2. /\ phase[c] \in {"none", "open"}
      /\ \/ UNCHANGED phase
         \/ \E x \in {"open", "locked", "discarded"} : phase' = [phase EXCEPT ![c] = x]
  BY DEF Encode, Create, Discard, NewEncoder, PresentDrawable, AddScheduledHandler, AddCompletedHandler,
         CommitLock
<1>3. phase \in [Commands -> Phases] /\ scheduledHandlers \in [Commands -> 0..MaxHandlers]
  BY DEF TypeOK
<1>4. \A d \in Commands : \/ phase'[d] = phase[d]
                          \/ ~Active(d) /\ ~Active(d)'
  BY <1>2, <1>3 DEF Active
<1>5. UNCHANGED scheduledHandlers \/ scheduledHandlers' = [scheduledHandlers EXCEPT ![c] = @ + 1]
  BY DEF Encode, Create, Discard, NewEncoder, PresentDrawable, AddScheduledHandler, AddCompletedHandler,
         CommitLock
<1>6. \A d \in Commands : d # c => scheduledHandlers'[d] = scheduledHandlers[d]
  BY <1>3, <1>5
<1>7. ~Active(c)
  BY <1>2 DEF Active
<1> QED BY <1>1, <1>4, <1>6, <1>7 DEF Calm

\* So are the handlers and the waiting threads.
LEMMA WorkCalm ==
  ASSUME TypeOK, \/ \E c \in Commands : Work(c)
                 \/ RunScheduledHandler
                 \/ \E w \in Waiters : WaitReturn(w) \/ \E c \in Commands : WaitBegin(w, c)
  PROVE  Calm
<1> USE DEF commandVars, poolVars, semVars, doneVars, serialVars, waitVars
<1>1. UNCHANGED <<loopVars, semVars, completed, gpuQueue, scheduledQueue, spent, serialVars, reader, phase>>
  BY DEF Work, ReleaseEncoders, RunCompletedHandler, FinishWork, FinishCompletedHandlers, RunScheduledHandler,
         WaitReturn, WaitBegin
<1>2. CASE RunScheduledHandler
  <2>1. Head(scheduledQueue) \in Commands
    BY <1>2, TailFacts DEF RunScheduledHandler, TypeOK
  <2>2. /\ scheduledHandlers[Head(scheduledQueue)] > 0
        /\ scheduledHandlers' = [scheduledHandlers EXCEPT ![Head(scheduledQueue)] = @ - 1]
        /\ scheduledHandlers \in [Commands -> 0..MaxHandlers]
    BY <1>2 DEF RunScheduledHandler, TypeOK
  <2>3. \A d \in Commands : scheduledHandlers[d] = 0 => d # Head(scheduledQueue)
    BY <2>2
  <2>4. \A d \in Commands : scheduledHandlers[d] = 0 => scheduledHandlers'[d] = 0
    BY <2>2, <2>3
  <2> QED BY <1>1, <2>4 DEF Calm
<1>3. CASE UNCHANGED scheduledHandlers
  BY <1>1, <1>3 DEF Calm
<1> QED BY <1>2, <1>3 DEF Work, ReleaseEncoders, RunCompletedHandler, FinishWork, WaitReturn, WaitBegin

\* What does not depend on the flags of a command survives calm steps.
LEMMA CalmKeeps ==
  ASSUME IInv, Calm
  PROVE  /\ LoopTyped' /\ ScheduledOK' /\ EntriesOK' /\ ReadyOK' /\ SpentOK' /\ PollOK'
         /\ OwnersOK' /\ TenantOK' /\ ReadersOK' /\ GpuOK' /\ PooledOK' /\ SerialsOK'
<1> USE DEF loopVars, sharedVars, localVars, semVars, serialVars
<1>1. LoopTyped' /\ SpentOK' /\ TenantOK' /\ GpuOK' /\ PooledOK' /\ SerialsOK'
  <2>1. LoopTyped' /\ SpentOK' /\ PooledOK'
    BY DEF Calm, IInv, LoopTyped, SpentOK, PooledOK
  <2>2. TenantOK' /\ GpuOK'
    BY DEF Calm, IInv, TenantOK, Of, GpuOK, InGpu
  <2>3. SerialsOK'
    BY DEF Calm, IInv, SerialsOK, SerialsInExecutionOrder
  <2> QED BY <2>1, <2>2, <2>3
<1>2. PollOK'
  BY DEF Calm, IInv, PollOK, HoldsPolling, InGpu
<1>3. \A c \in Commands : /\ Active(c)' <=> Active(c)
                          /\ Published(c)' <=> Published(c)
                          /\ Waits(c)' <=> Waits(c)
                          /\ phase'[c] \in {"submitted", "presenting"} <=> phase[c] \in {"submitted", "presenting"}
  BY DEF Calm, Active, Published, Waits
<1>4. scheduledQueue \in Seq(Commands) /\ entries \in Seq(Entry) /\ ready \in [Pollers -> Seq(Entry)]
  BY DEF IInv, TypeOK, LoopTyped
<1>5. \A i \in 1..Len(scheduledQueue) : scheduledQueue[i] \in Commands
  BY <1>4
<1>6. ScheduledOK'
  BY <1>3, <1>5 DEF Calm, IInv, ScheduledOK
<1>7. ASSUME NEW e \in Entry, Armed(e) PROVE Armed(e)'
  BY <1>3, <1>7 DEF Calm, Armed, Entry, Commands, Waits, Published, Active
<1>8. \A i \in 1..Len(entries) : entries[i] \in Entry
  BY <1>4
<1>9. EntriesOK'
  BY <1>7, <1>8 DEF Calm, IInv, EntriesOK, InScheduled
<1>10. \A p \in Pollers : \A i \in 1..Len(ready[p]) : ready[p][i] \in Entry
  BY <1>4
<1>11. ReadyOK'
  BY <1>7, <1>10 DEF Calm, IInv, ReadyOK, InScheduled, InEntries, InGpu
<1>12. OwnersOK'
  BY <1>3 DEF Calm, IInv, OwnersOK, InSpent
<1>13. ReadersOK'
  <2>1. \A r \in Readers : reader[r] # None => reader[r].cmd \in Commands
    BY DEF IInv, TypeOK, Handle, Read
  <2> QED BY <1>3, <2>1 DEF Calm, IInv, ReadersOK
<1> QED BY <1>1, <1>2, <1>6, <1>9, <1>11, <1>12, <1>13

\* A command pool that leaves its command is idle or destroyed, and one that a
\* command takes was idle or is new.
LEMMA RecycleKeeps ==
  ASSUME TypeOK, CommandPoolsOK, NEW c \in Commands, RecycleCommandPool(c)
  PROVE  CommandPoolsOK'
<1>1. pool \in [Commands -> Handle(Pools)] /\ recycledCommands \in Seq(Pools)
  BY DEF TypeOK
<1>2. pool' = [pool EXCEPT ![c] = None] /\ pool'[c] = None /\ \A d \in Commands : d # c => pool'[d] = pool[d]
  BY <1>1 DEF RecycleCommandPool
<1>3. \A d, x \in Commands : pool'[d] # None /\ pool'[d] = pool'[x] => d = x
  BY <1>2 DEF CommandPoolsOK
<1>4. \A i \in 1..Len(recycledCommands) : recycledCommands[i] \in Pools /\ recycledCommands[i] # None
  BY <1>1, CommandBufferAssumption
<1>5. CASE pool[c] # None /\ Len(recycledCommands) < PoolCapacity
  <2>1. pool[c] \in Pools /\ recycledCommands' = Append(recycledCommands, pool[c])
    BY <1>1, <1>5 DEF RecycleCommandPool, Handle
  <2>2. /\ Len(recycledCommands') = Len(recycledCommands) + 1 /\ Len(recycledCommands) \in Nat
        /\ \A i \in 1..Len(recycledCommands) : recycledCommands'[i] = recycledCommands[i]
        /\ recycledCommands'[Len(recycledCommands) + 1] = pool[c]
        /\ \A i \in 1..(Len(recycledCommands) + 1) :
             i \in 1..Len(recycledCommands) \/ i = Len(recycledCommands) + 1
    BY <1>1, <2>1, AppendFacts
  <2>3. \A i \in 1..Len(recycledCommands) : recycledCommands[i] # pool[c]
    BY DEF CommandPoolsOK
  <2>4. \A i \in 1..Len(recycledCommands') : \A d \in Commands : pool'[d] # recycledCommands'[i]
    BY <1>2, <1>4, <1>5, <2>2 DEF CommandPoolsOK
  <2>5. \A i, j \in 1..Len(recycledCommands') : recycledCommands'[j] = recycledCommands'[i] => j = i
    BY <2>2, <2>3 DEF CommandPoolsOK
  <2> QED BY <1>3, <2>4, <2>5 DEF CommandPoolsOK
<1>6. CASE UNCHANGED recycledCommands
  BY <1>2, <1>3, <1>4, <1>6 DEF CommandPoolsOK
<1> QED BY <1>5, <1>6 DEF RecycleCommandPool

LEMMA AcquireKeeps ==
  ASSUME TypeOK, CommandPoolsOK, NEW c \in Commands, AcquirePool(c), pool[c] = None
  PROVE  CommandPoolsOK' /\ pool'[c] # None /\ \A d \in Commands : d # c => pool'[d] = pool[d]
<1>1. pool \in [Commands -> Handle(Pools)] /\ recycledCommands \in Seq(Pools)
  BY DEF TypeOK
<1>2. CASE recycledCommands # <<>>
  <2>1. /\ pool' = [pool EXCEPT ![c] = recycledCommands[Len(recycledCommands)]]
        /\ recycledCommands' = SubSeq(recycledCommands, 1, Len(recycledCommands) - 1)
    BY <1>2 DEF AcquirePool
  <2>2. /\ \A i \in 1..Len(recycledCommands') :
             i \in 1..Len(recycledCommands) /\ i # Len(recycledCommands) /\ recycledCommands'[i] = recycledCommands[i]
        /\ recycledCommands[Len(recycledCommands)] \in Pools /\ Len(recycledCommands) \in 1..Len(recycledCommands)
    BY <1>1, <1>2, <2>1, FrontFacts
  <2>3. /\ pool'[c] = recycledCommands[Len(recycledCommands)] /\ pool'[c] # None
        /\ \A d \in Commands : d # c => pool'[d] = pool[d]
    BY <1>1, <2>1, <2>2, CommandBufferAssumption
  <2>4. \A d, x \in Commands : pool'[d] # None /\ pool'[d] = pool'[x] => d = x
    BY <2>2, <2>3 DEF CommandPoolsOK
  <2>5. \A i \in 1..Len(recycledCommands') :
          /\ \A d \in Commands : pool'[d] # recycledCommands'[i]
          /\ \A j \in 1..Len(recycledCommands') : recycledCommands'[j] = recycledCommands'[i] => j = i
    BY <2>2, <2>3 DEF CommandPoolsOK
  <2> QED BY <2>3, <2>4, <2>5 DEF CommandPoolsOK
<1>3. CASE recycledCommands = <<>>
  <2>1. PICK k \in Pools : (\A d \in Commands : pool[d] # k) /\ pool' = [pool EXCEPT ![c] = k]
    BY <1>3 DEF AcquirePool
  <2>2. pool'[c] = k /\ k # None /\ \A d \in Commands : d # c => pool'[d] = pool[d]
    BY <1>1, <2>1, CommandBufferAssumption
  <2>3. recycledCommands' = recycledCommands /\ Len(recycledCommands) = 0
    BY <1>3 DEF AcquirePool
  <2> QED BY <2>1, <2>2, <2>3 DEF CommandPoolsOK
<1> QED BY <1>2, <1>3

\* The flags of a command keep agreeing while it is encoded.
LEMMA EncodeInv == ASSUME IInv, NEW c \in Commands, Encode(c) PROVE PhasesOK' /\ CommandPoolsOK'
<1> USE DEF commandVars, poolVars, semVars, doneVars, serialVars, waitVars
<1>1. TypeOK /\ PhaseOK(c) /\ PhasesOK /\ CommandPoolsOK /\ Calm
  BY EncodeCalm DEF IInv, PhasesOK
<1>2. phase[c] \in {"none", "open"} /\ ~Active(c) /\ ~completed[c] /\ ~InGpu(c) /\ c \notin completionWork
      /\ ~handlersCompleted[c] /\ timeline[c] = None
  <2>1. phase[c] \in {"none", "open"}
    BY DEF Encode, Create, Discard, NewEncoder, PresentDrawable, AddScheduledHandler, AddCompletedHandler,
           CommitLock
  <2> QED BY <1>1, <2>1 DEF PhaseOK, Active, Published
<1>3. /\ UNCHANGED <<timeline, completed, gpuQueue, completionWork, handlersCompleted>>
      /\ phase'[c] \in {"open", "locked", "discarded"}
      /\ phase'[c] # "discarded" <=> pool'[c] # None
      /\ CommandPoolsOK'
      /\ \A d \in Commands : d # c => /\ phase'[d] = phase[d] /\ pool'[d] = pool[d] /\ encoders'[d] = encoders[d]
                                      /\ scheduledHandlers'[d] = scheduledHandlers[d]
                                      /\ completedHandlers'[d] = completedHandlers[d]
  <2>1. UNCHANGED <<timeline, completed, gpuQueue, completionWork, handlersCompleted>>
    BY DEF Encode, Create, Discard, NewEncoder, PresentDrawable, AddScheduledHandler, AddCompletedHandler,
         CommitLock
  <2>2. /\ phase \in [Commands -> Phases] /\ encoders \in [Commands -> {"none", "held", "work"}]
        /\ scheduledHandlers \in [Commands -> 0..MaxHandlers] /\ completedHandlers \in [Commands -> 0..MaxHandlers]
        /\ pool \in [Commands -> Handle(Pools)]
    BY <1>1 DEF TypeOK
  <2>3. phase[c] = "open" <=> pool[c] # None
    BY <1>1, <1>2 DEF PhaseOK
  <2>4. CASE Create(c)
    <3>1. CommandPoolsOK' /\ pool'[c] # None /\ \A d \in Commands : d # c => pool'[d] = pool[d]
      BY <1>1, <2>3, <2>4, AcquireKeeps DEF Create
    <3> QED BY <2>1, <2>2, <2>4, <3>1 DEF Create
  <2>5. CASE Discard(c)
    <3>1. CommandPoolsOK' /\ pool'[c] = None /\ \A d \in Commands : d # c => pool'[d] = pool[d]
      BY <1>1, <2>2, <2>5, RecycleKeeps DEF Discard, RecycleCommandPool
    <3> QED BY <2>1, <2>2, <2>5, <3>1 DEF Discard
  <2>6. CASE CommitLock(c) \/ NewEncoder(c) \/ PresentDrawable(c) \/ AddScheduledHandler(c) \/ AddCompletedHandler(c)
    <3>1. UNCHANGED <<pool, recycledCommands>> /\ phase[c] = "open" /\ phase'[c] \in {"open", "locked"}
          /\ \A d \in Commands : d # c => phase'[d] = phase[d]
      BY <2>2, <2>6 DEF NewEncoder, PresentDrawable, AddScheduledHandler, AddCompletedHandler, CommitLock
    <3>2. CommandPoolsOK'
      BY <1>1, <3>1 DEF CommandPoolsOK
    <3>3. \A d \in Commands : d # c => /\ encoders'[d] = encoders[d]
                                       /\ scheduledHandlers'[d] = scheduledHandlers[d]
                                       /\ completedHandlers'[d] = completedHandlers[d]
      BY <2>2, <2>6 DEF NewEncoder, PresentDrawable, AddScheduledHandler, AddCompletedHandler, CommitLock
    <3> QED BY <2>1, <2>3, <3>1, <3>2, <3>3
  <2> QED BY <2>4, <2>5, <2>6 DEF Encode
<1>4. PhaseOK(c)'
  BY <1>2, <1>3 DEF PhaseOK, Active, Published, InGpu
<1>5. ASSUME NEW d \in Commands, d # c PROVE PhaseOK(d)'
  BY <1>1, <1>3, <1>5 DEF PhasesOK, PhaseOK, Active, Published, InGpu
<1> QED BY <1>3, <1>4, <1>5 DEF PhasesOK

\* And while its handlers run.
LEMMA WorkInv ==
  ASSUME IInv, \/ \E c \in Commands : Work(c)
               \/ RunScheduledHandler
               \/ \E w \in Waiters : WaitReturn(w) \/ \E c \in Commands : WaitBegin(w, c)
  PROVE  PhasesOK' /\ CommandPoolsOK'
<1> USE DEF commandVars, poolVars, semVars, doneVars, serialVars, waitVars
<1>1. TypeOK /\ PhasesOK /\ CommandPoolsOK /\ Calm
  BY WorkCalm DEF IInv
<1>2. UNCHANGED <<phase, pool, recycledCommands, timeline, completed, gpuQueue>>
  BY DEF Work, ReleaseEncoders, RunCompletedHandler, FinishWork, RunScheduledHandler, WaitReturn, WaitBegin
<1>3. CommandPoolsOK'
  BY <1>1, <1>2 DEF CommandPoolsOK
<1>4. ASSUME NEW d \in Commands PROVE PhaseOK(d)'
  <2>1. completed[d] /\ scheduledHandlers[d] = 0 => scheduledHandlers'[d] = 0
    BY <1>1 DEF Calm, PhasesOK, PhaseOK, Active, Published
  <2>2. d \in completionWork' => d \in completionWork
    BY DEF Work, ReleaseEncoders, RunCompletedHandler, FinishWork, RunScheduledHandler, WaitReturn, WaitBegin
  <2>3. handlersCompleted'[d] /\ ~handlersCompleted[d] =>
          d \in completionWork /\ encoders'[d] = "none" /\ completedHandlers'[d] = 0
    <3>1. CASE UNCHANGED handlersCompleted
      BY <3>1
    <3>2. ASSUME NEW c \in Commands, FinishWork(c)
          PROVE  handlersCompleted'[d] /\ ~handlersCompleted[d] =>
                   d \in completionWork /\ encoders'[d] = "none" /\ completedHandlers'[d] = 0
      BY <1>1, <3>2 DEF FinishWork, FinishCompletedHandlers, TypeOK
    <3> QED BY <3>1, <3>2 DEF Work, ReleaseEncoders, RunCompletedHandler, RunScheduledHandler, WaitReturn, WaitBegin
  <2>4. encoders[d] = "none" => encoders'[d] = "none"
    BY <1>1 DEF TypeOK, Work, ReleaseEncoders, RunCompletedHandler, FinishWork, RunScheduledHandler, WaitReturn,
                WaitBegin
  <2>5. completedHandlers[d] = 0 => completedHandlers'[d] = 0
    <3>1. CASE UNCHANGED completedHandlers
      BY <3>1
    <3>2. ASSUME NEW c \in Commands, RunCompletedHandler(c)
          PROVE  completedHandlers[d] = 0 => completedHandlers'[d] = 0
      BY <1>1, <3>2 DEF RunCompletedHandler, TypeOK
    <3> QED BY <3>1, <3>2 DEF Work, ReleaseEncoders, FinishWork, RunScheduledHandler, WaitReturn, WaitBegin
  <2>6. PhaseOK(d)
    BY <1>1 DEF PhasesOK
  <2>7. handlersCompleted[d] \in BOOLEAN /\ handlersCompleted'[d] \in BOOLEAN
    BY <1>1, WorkTyped DEF TypeOK
  <2>8. handlersCompleted'[d] => completed[d] /\ encoders'[d] = "none" /\ completedHandlers'[d] = 0
    BY <2>3, <2>4, <2>5, <2>6, <2>7 DEF PhaseOK
  <2> QED BY <1>2, <2>1, <2>2, <2>6, <2>8 DEF PhaseOK, Active, Published, InGpu
<1> QED BY <1>3, <1>4 DEF PhasesOK

-----------------------------------------------------------------------------
(* The owners of a semaphore *)

\* Every owner acts for a command in flight that holds this semaphore.
LEMMA OwnerFacts ==
  ASSUME TypeOK, PhasesOK, OwnersOK, ReadersOK, NEW s \in Semaphores, NEW o \in owners[s]
  PROVE  Of(o) \in Commands /\ Active(Of(o)) /\ timeline[Of(o)] = s
<1>1. o \in Owner
  BY DEF TypeOK
<1>2. s # None
  BY CommandBufferAssumption
<1>3. ASSUME NEW k \in {"command", "commit", "closure"}, NEW c \in Commands, o = <<k, c>>
      PROVE  Of(o) \in Commands /\ Active(Of(o)) /\ timeline[Of(o)] = s
  <2>1. Of(o) = c
    BY <1>3 DEF Of
  <2>2. timeline[c] = s
    BY <1>3 DEF OwnersOK
  <2> QED BY <1>2, <2>1, <2>2 DEF PhasesOK, PhaseOK
<1>4. ASSUME NEW r \in Readers, o = <<"reader", r>>
      PROVE  Of(o) \in Commands /\ Active(Of(o)) /\ timeline[Of(o)] = s
  <2>1. Of(o) = reader[r].cmd
    BY <1>4 DEF Of
  <2>2. reader[r] # None /\ reader[r].sem = s
    BY <1>4 DEF OwnersOK
  <2>3. reader[r] \in Read
    BY <2>2 DEF TypeOK, Handle
  <2> QED BY <2>1, <2>2, <2>3 DEF ReadersOK, Published, Active, Read
<1> QED BY <1>1, <1>3, <1>4 DEF Owner

\* A command that has not completed owns the semaphore of its submission.
LEMMA InFlightOwned ==
  ASSUME TypeOK, PhasesOK, OwnersOK, NEW c \in Commands, Active(c), ~completed[c]
  PROVE  /\ timeline[c] \in Semaphores /\ <<"command", c>> \in owners[timeline[c]]
         /\ <<"closure", c>> \in owners[timeline[c]] /\ Of(<<"command", c>>) = c
<1>1. timeline[c] \in Semaphores
  BY TimelineTyped
<1> QED BY <1>1 DEF OwnersOK, Of

\* What is registered, moved out, submitted or read refers to an owned semaphore.
LEMMA ReferencesOwned ==
  ASSUME IInv
  PROVE  /\ \A i \in 1..Len(entries) : owners[entries[i].sem] # {}
         /\ \A p \in Pollers : \A i \in 1..Len(ready[p]) : owners[ready[p][i].sem] # {}
         /\ \A i \in 1..Len(gpuQueue) : owners[gpuQueue[i].sem] # {}
         /\ \A r \in Readers : reader[r] # None => owners[reader[r].sem] # {}
<1>1. TypeOK /\ LoopTyped /\ PhasesOK /\ OwnersOK
  BY DEF IInv
<1>2. ASSUME NEW e \in Entry, Armed(e) PROVE owners[e.sem] # {}
  BY <1>1, <1>2, InFlightOwned DEF Armed, Waits, Published, Active, Entry, Commands
<1>3. (\A i \in 1..Len(entries) : entries[i] \in Entry)
      /\ (\A p \in Pollers : \A i \in 1..Len(ready[p]) : ready[p][i] \in Entry)
  BY <1>1, ElementFacts DEF LoopTyped
<1>4. \A i \in 1..Len(entries) : owners[entries[i].sem] # {}
  BY <1>2, <1>3 DEF IInv, EntriesOK
<1>5. \A p \in Pollers : \A i \in 1..Len(ready[p]) : owners[ready[p][i].sem] # {}
  BY <1>2, <1>3 DEF IInv, ReadyOK
<1>6. ASSUME NEW i \in 1..Len(gpuQueue) PROVE owners[gpuQueue[i].sem] # {}
  <2>1. gpuQueue[i].cmd \in Commands
    <3>1. gpuQueue \in Seq(Submission)
      BY <1>1 DEF TypeOK, Submission
    <3>2. gpuQueue[i] \in Submission
      BY <3>1, ElementFacts
    <3> QED BY <3>2 DEF Submission
  <2>2. InGpu(gpuQueue[i].cmd)
    BY DEF InGpu
  <2>3. Active(gpuQueue[i].cmd) /\ ~completed[gpuQueue[i].cmd]
    BY <1>1, <2>1, <2>2 DEF PhasesOK, PhaseOK
  <2> QED BY <1>1, <2>1, <2>3, InFlightOwned DEF IInv, GpuOK
<1>7. ASSUME NEW r \in Readers, reader[r] # None PROVE owners[reader[r].sem] # {}
  <2>1. reader[r].sem \in Semaphores
    BY <1>1, <1>7 DEF TypeOK, Handle, Read
  <2> QED BY <1>1, <1>7, <2>1 DEF OwnersOK
<1> QED BY <1>4, <1>5, <1>6, <1>7

-----------------------------------------------------------------------------
(* A submission *)

\* It takes a semaphore that nobody owns and gives it a value not yet signalled.
LEMMA SubmitEffect ==
  ASSUME IInv, NEW c \in Commands, CommitSubmit(c)
  PROVE  \E s \in Semaphores :
           /\ owners[s] = {} /\ owners'[s] = {"command", "commit", "closure"} \X {c}
           /\ counter'[s] < count'[s] /\ count'[s] <= MaxCount
           /\ \A x \in Semaphores : x # s => /\ owners'[x] = owners[x] /\ count'[x] = count[x]
                                             /\ counter'[x] = counter[x]
           /\ timeline[c] = None /\ timeline'[c] = s /\ phase[c] = "locked" /\ phase'[c] = "submitted"
           /\ \A d \in Commands : d # c => timeline'[d] = timeline[d] /\ phase'[d] = phase[d]
           /\ gpuQueue' = Append(gpuQueue, [cmd |-> c, sem |-> s, value |-> count'[s]])
           /\ \A i \in 1..Len(recycledSems') : /\ i \in 1..Len(recycledSems) /\ recycledSems[i] # s
                                               /\ recycledSems'[i] = recycledSems[i]
<1>1. PICK s \in Semaphores : AcquireSemaphore(c, s)
             /\ gpuQueue' = Append(gpuQueue, [cmd |-> c, sem |-> s, value |-> count'[s]])
  BY DEF CommitSubmit
<1>2. /\ phase \in [Commands -> Phases] /\ timeline \in [Commands -> Handle(Semaphores)]
      /\ count \in [Semaphores -> Nat] /\ counter \in [Semaphores -> Nat]
      /\ owners \in [Semaphores -> SUBSET Owner] /\ recycledSems \in Seq(Semaphores)
      /\ MaxCount \in Nat /\ MaxCount # 0
  BY CommandBufferAssumption DEF IInv, TypeOK, LoopTyped
<1>3. /\ phase[c] = "locked" /\ phase'[c] = "submitted" /\ timeline'[c] = s
      /\ \A d \in Commands : d # c => timeline'[d] = timeline[d] /\ phase'[d] = phase[d]
  BY <1>1, <1>2 DEF CommitSubmit, AcquireSemaphore
<1>4. timeline[c] = None
  BY <1>3 DEF IInv, PhasesOK, PhaseOK, Active
<1>5. /\ owners'[s] = {"command", "commit", "closure"} \X {c}
      /\ \A x \in Semaphores : x # s => owners'[x] = owners[x]
  BY <1>1, <1>2 DEF AcquireSemaphore
<1>6. CASE recycledSems # <<>>
  <2>1. /\ s = recycledSems[Len(recycledSems)] /\ recycledSems' = SubSeq(recycledSems, 1, Len(recycledSems) - 1)
        /\ count' = [count EXCEPT ![s] = @ + 1] /\ counter' = counter
    BY <1>1, <1>6 DEF AcquireSemaphore
  <2>2. /\ \A i \in 1..Len(recycledSems') :
             i \in 1..Len(recycledSems) /\ i # Len(recycledSems) /\ recycledSems'[i] = recycledSems[i]
        /\ Len(recycledSems) \in 1..Len(recycledSems)
    BY <1>2, <1>6, <2>1, FrontFacts, SMTT(30)
  <2>3. owners[s] = {} /\ counter[s] = count[s] /\ count[s] < MaxCount
        /\ \A j \in 1..Len(recycledSems) : recycledSems[j] = s => j = Len(recycledSems)
    <3>1. PICK n \in 1..Len(recycledSems) : n = Len(recycledSems)
      BY <2>2
    <3>2. /\ owners[recycledSems[n]] = {} /\ counter[recycledSems[n]] = count[recycledSems[n]]
          /\ count[recycledSems[n]] < MaxCount
          /\ \A j \in 1..Len(recycledSems) : recycledSems[j] = recycledSems[n] => j = n
      BY DEF IInv, PooledOK
    <3>3. s = recycledSems[n]
      BY <2>1, <3>1
    <3> QED BY <3>1, <3>2, <3>3
  <2>4. count'[s] = count[s] + 1 /\ \A x \in Semaphores : x # s => count'[x] = count[x] /\ counter'[x] = counter[x]
    BY <1>2, <2>1
  <2>5. counter'[s] < count'[s] /\ count'[s] <= MaxCount
    BY <1>2, <2>1, <2>3, <2>4
  <2> QED BY <1>1, <1>3, <1>4, <1>5, <2>2, <2>3, <2>4, <2>5
<1>7. CASE recycledSems = <<>>
  <2>1. /\ owners[s] = {} /\ recycledSems' = recycledSems
        /\ count' = [count EXCEPT ![s] = 1] /\ counter' = [counter EXCEPT ![s] = 0]
    BY <1>1, <1>7 DEF AcquireSemaphore, FreshSemaphore
  <2>2. \A i \in 1..Len(recycledSems') : FALSE
    BY <1>7, <2>1
  <2>3. /\ count'[s] = 1 /\ counter'[s] = 0
        /\ \A x \in Semaphores : x # s => count'[x] = count[x] /\ counter'[x] = counter[x]
    BY <1>2, <2>1
  <2>4. counter'[s] < count'[s] /\ count'[s] <= MaxCount
    BY <1>2, <2>3
  <2> QED BY <1>1, <1>3, <1>4, <1>5, <2>1, <2>2, <2>3, <2>4
<1> QED BY <1>6, <1>7

\* After it everything that was in flight is as before, and the new submission
\* has the semaphore for itself.
LEMMA SubmitInv == ASSUME IInv, NEW c \in Commands, CommitSubmit(c) PROVE IInv'
<1>1. PICK s \in Semaphores :
           /\ owners[s] = {} /\ owners'[s] = {"command", "commit", "closure"} \X {c}
           /\ counter'[s] < count'[s] /\ count'[s] <= MaxCount
           /\ \A x \in Semaphores : x # s => /\ owners'[x] = owners[x] /\ count'[x] = count[x]
                                             /\ counter'[x] = counter[x]
           /\ timeline[c] = None /\ timeline'[c] = s /\ phase[c] = "locked" /\ phase'[c] = "submitted"
           /\ \A d \in Commands : d # c => timeline'[d] = timeline[d] /\ phase'[d] = phase[d]
           /\ gpuQueue' = Append(gpuQueue, [cmd |-> c, sem |-> s, value |-> count'[s]])
           /\ \A i \in 1..Len(recycledSems') : /\ i \in 1..Len(recycledSems) /\ recycledSems[i] # s
                                               /\ recycledSems'[i] = recycledSems[i]
  BY SubmitEffect
<1>2. /\ TypeOK /\ LoopTyped /\ PhasesOK /\ PhaseOK(c) /\ OwnersOK /\ TenantOK /\ ReadersOK /\ GpuOK
      /\ TypeOK' /\ LoopTyped'
  BY SubmitTyped DEF IInv, PhasesOK
<1>3. /\ UNCHANGED <<entries, pollPc, snapshot, scan, readyIndices, ready>>
      /\ UNCHANGED <<scheduledHandlers, completedHandlers, encoders, drawables, pool, recycledCommands>>
      /\ UNCHANGED <<completed, handlersCompleted, completionWork, scheduledQueue, spent, reader>>
  BY DEF CommitSubmit, sharedVars, localVars, poolVars, doneVars, waitVars
<1>4. /\ ~Active(c) /\ ~Published(c) /\ ~completed[c] /\ ~InGpu(c) /\ c \notin completionWork
      /\ ~handlersCompleted[c] /\ pool[c] # None /\ s # None
  BY <1>1, <1>2, CommandBufferAssumption DEF PhaseOK, Active, Published
<1>5. /\ Len(gpuQueue) \in Nat /\ Len(gpuQueue') = Len(gpuQueue) + 1
      /\ \A i \in 1..Len(gpuQueue) : gpuQueue'[i] = gpuQueue[i] /\ gpuQueue[i] \in Submission
      /\ gpuQueue'[Len(gpuQueue) + 1] = [cmd |-> c, sem |-> s, value |-> count'[s]]
      /\ \A i \in 1..(Len(gpuQueue) + 1) : i \in 1..Len(gpuQueue) \/ i = Len(gpuQueue) + 1
      /\ \A i \in 1..Len(gpuQueue) : i \in 1..(Len(gpuQueue) + 1)
  <2>1. gpuQueue \in Seq(Submission)
    BY <1>2 DEF TypeOK, Submission
  <2>2. [cmd |-> c, sem |-> s, value |-> count'[s]] \in Submission
    <3>1. count' \in [Semaphores -> Nat]
      BY <1>2 DEF TypeOK
    <3> QED BY <3>1 DEF Submission
  <2> QED BY <1>1, <2>1, <2>2, AppendFacts, ElementFacts
<1>6. InGpu(c)' /\ \A d \in Commands : d # c => (InGpu(d)' <=> InGpu(d))
  <2>1. InGpu(c)'
    <3>1. Len(gpuQueue) + 1 \in 1..Len(gpuQueue')
      BY <1>5
    <3> QED BY <1>5, <3>1 DEF InGpu
  <2>2. ASSUME NEW d \in Commands, d # c PROVE InGpu(d)' <=> InGpu(d)
    BY <1>5, <2>2 DEF InGpu
  <2> QED BY <2>1, <2>2
<1>7. \A d \in Commands : /\ Published(d)' <=> Published(d)
                          /\ Waits(d)' <=> Waits(d)
  BY <1>1, <1>3, <1>4 DEF Published, Waits
<1>8. PhasesOK'
  <2>1. PhaseOK(c)'
    BY <1>1, <1>3, <1>4, <1>6 DEF PhaseOK, Active, Published
  <2>2. ASSUME NEW d \in Commands, d # c PROVE PhaseOK(d)'
    <3>1. PhaseOK(d) /\ (InGpu(d)' <=> InGpu(d)) /\ timeline'[d] = timeline[d] /\ phase'[d] = phase[d]
      BY <1>1, <1>2, <1>6, <2>2 DEF PhasesOK
    <3> QED BY <1>3, <3>1 DEF PhaseOK, Active, Published
  <2> QED BY <2>1, <2>2 DEF PhasesOK
<1>9. ASSUME NEW e \in Entry, Armed(e) PROVE Armed(e)'
  <2>1. e.cb \in Commands /\ e.cb # c /\ Active(e.cb) /\ ~completed[e.cb]
    BY <1>4, <1>9 DEF Entry, Commands, Armed, Waits, Published, Active
  <2>2. e.sem \in Semaphores /\ e.sem # s
    <3>1. e.sem = timeline[e.cb]
      BY <1>9 DEF Armed
    <3>2. timeline[e.cb] \in Semaphores /\ <<"command", e.cb>> \in owners[timeline[e.cb]]
      BY <1>2, <2>1, InFlightOwned
    <3> QED BY <1>1, <3>1, <3>2
  <2> QED BY <1>1, <1>3, <1>7, <1>9, <2>1, <2>2 DEF Armed
<1>10. /\ \A i \in 1..Len(entries) : entries[i] \in Entry
       /\ \A p \in Pollers : \A i \in 1..Len(ready[p]) : ready[p][i] \in Entry /\ ready[p][i].cb \in Commands
       /\ \A i \in 1..Len(scheduledQueue) : scheduledQueue[i] \in Commands
  <2>1. entries \in Seq(Entry) /\ (\A p \in Pollers : ready[p] \in Seq(Entry)) /\ scheduledQueue \in Seq(Commands)
    BY <1>2 DEF TypeOK, LoopTyped
  <2>2. \A p \in Pollers : \A i \in 1..Len(ready[p]) : ready[p][i] \in Entry
    BY <2>1, ElementFacts
  <2>3. \A e \in Entry : e.cb \in Commands
    BY DEF Entry, Commands
  <2>4. (\A i \in 1..Len(entries) : entries[i] \in Entry)
        /\ \A i \in 1..Len(scheduledQueue) : scheduledQueue[i] \in Commands
    BY <2>1, ElementFacts
  <2> QED BY <2>2, <2>3, <2>4
<1>11. ScheduledOK'
  BY <1>3, <1>7, <1>10 DEF IInv, ScheduledOK
<1>12. EntriesOK'
  BY <1>3, <1>9, <1>10 DEF IInv, EntriesOK, InScheduled
<1>13. ReadyOK'
  <2>1. \A p \in Pollers : \A i \in 1..Len(ready[p]) :
          Armed(ready[p][i]) /\ ~InGpu(ready[p][i].cb) /\ ready[p][i].cb # c
    BY <1>4 DEF IInv, ReadyOK, Armed, Waits
  <2> QED BY <1>3, <1>6, <1>9, <1>10, <2>1 DEF IInv, ReadyOK, InScheduled, InEntries
<1>14. SpentOK'
  BY <1>3 DEF IInv, SpentOK
<1>15. PollOK'
  <2>1. ASSUME NEW p \in Pollers, pollPc[p] = "scan", NEW i \in 1..Len(readyIndices[p])
        PROVE  ~InGpu(entries[readyIndices[p][i]].cb)'
    <3>1. readyIndices[p][i] \in 1..Len(entries)
      <4>1. /\ readyIndices[p][i] < scan[p] /\ scan[p] <= Len(snapshot[p]) + 1
            /\ Len(snapshot[p]) <= Len(entries)
        BY <2>1 DEF IInv, PollOK
      <4>2. readyIndices[p] \in Seq(Nat \ {0}) /\ scan[p] \in Nat /\ snapshot[p] \in Seq(Entry) /\ entries \in Seq(Entry)
        BY <1>2 DEF LoopTyped
      <4>3. readyIndices[p][i] \in Nat \ {0} /\ Len(snapshot[p]) \in Nat /\ Len(entries) \in Nat
        BY <4>2
      <4> QED BY <4>1, <4>2, <4>3
    <3>2. ~InGpu(entries[readyIndices[p][i]].cb)
      BY <2>1 DEF IInv, PollOK
    <3>3. entries[readyIndices[p][i]].cb \in Commands /\ entries[readyIndices[p][i]].cb # c
      BY <1>4, <1>10, <3>1 DEF IInv, EntriesOK, Armed, Waits, Entry, Commands
    <3> QED BY <1>3, <1>6, <3>2, <3>3
  <2> QED BY <1>3, <2>1 DEF IInv, PollOK, HoldsPolling
<1>16. OwnersOK'
  <2>1. ASSUME NEW x \in Semaphores, NEW d \in Commands
        PROVE  /\ <<"commit", d>> \in owners'[x] <=> timeline'[d] = x /\ phase'[d] \in {"submitted", "presenting"}
               /\ <<"command", d>> \in owners'[x] <=> timeline'[d] = x /\ ~completed'[d]
               /\ <<"closure", d>> \in owners'[x] <=> timeline'[d] = x /\ (~completed'[d] \/ InSpent(d)')
    <3>1. InSpent(d)' <=> InSpent(d)
      BY <1>3 DEF InSpent
    <3>2. /\ <<"commit", d>> \in owners[x] <=> timeline[d] = x /\ phase[d] \in {"submitted", "presenting"}
          /\ <<"command", d>> \in owners[x] <=> timeline[d] = x /\ ~completed[d]
          /\ <<"closure", d>> \in owners[x] <=> timeline[d] = x /\ (~completed[d] \/ InSpent(d))
      BY <1>2 DEF OwnersOK
    <3>3. CASE d = c
      <4>1. CASE x = s
        BY <1>1, <1>3, <1>4, <3>3, <4>1
      <4>2. CASE x # s
        BY <1>1, <3>2, <3>3, <4>2, CommandBufferAssumption
      <4> QED BY <4>1, <4>2
    <3>4. CASE d # c
      <4>1. CASE x = s
        BY <1>1, <1>3, <3>1, <3>2, <3>4, <4>1
      <4>2. CASE x # s
        BY <1>1, <1>3, <3>1, <3>2, <3>4, <4>2
      <4> QED BY <4>1, <4>2
    <3> QED BY <3>3, <3>4
  <2>2. ASSUME NEW x \in Semaphores, NEW r \in Readers
        PROVE  <<"reader", r>> \in owners'[x] <=> reader'[r] # None /\ reader'[r].sem = x
    <3>1. <<"reader", r>> \in owners[x] <=> reader[r] # None /\ reader[r].sem = x
      BY <1>2 DEF OwnersOK
    <3> QED BY <1>1, <1>3, <3>1
  <2> QED BY <2>1, <2>2 DEF OwnersOK
<1>17. /\ \A o \in owners'[s] : Of(o)' = c
       /\ \A x \in Semaphores : x # s => \A o \in owners'[x] :
            o \in owners[x] /\ Of(o)' = Of(o) /\ Of(o) \in Commands /\ Of(o) # c
  <2>1. \A o \in owners'[s] : Of(o)' = c
    BY <1>1 DEF Of
  <2>2. \A o : Of(o)' = Of(o)
    BY <1>3 DEF Of
  <2> QED BY <1>1, <1>2, <1>4, <2>1, <2>2, OwnerFacts
<1>18. TenantOK'
  BY <1>2, <1>17 DEF TenantOK
<1>19. ReadersOK'
  <2>1. ASSUME NEW r \in Readers, reader[r] # None
        PROVE  reader[r].cmd \in Commands /\ reader[r].cmd # c /\ reader[r].sem \in Semaphores /\ reader[r].sem # s
    <3>1. reader[r] \in Read
      BY <1>2, <2>1 DEF TypeOK, Handle
    <3> QED BY <1>1, <1>2, <1>4, <2>1, <3>1, ReferencesOwned DEF Read, ReadersOK
  <2> QED BY <1>1, <1>2, <1>3, <1>7, <2>1 DEF ReadersOK
<1>20. GpuOK'
  <2>1. ASSUME NEW i \in 1..Len(gpuQueue')
        PROVE  gpuQueue'[i].sem = timeline'[gpuQueue'[i].cmd] /\ gpuQueue'[i].value = count'[gpuQueue'[i].sem]
    <3>1. CASE i = Len(gpuQueue) + 1
      BY <1>1, <1>5, <3>1
    <3>2. CASE i \in 1..Len(gpuQueue)
      <4>1. gpuQueue[i] \in Submission /\ gpuQueue'[i] = gpuQueue[i] /\ gpuQueue[i].cmd # c /\ gpuQueue[i].sem # s
        BY <1>1, <1>4, <1>5, <3>2, ReferencesOwned DEF InGpu
      <4> QED BY <1>1, <1>2, <3>2, <4>1 DEF GpuOK, Submission
    <3> QED BY <1>5, <3>1, <3>2
  <2>2. \A i, j \in 1..Len(gpuQueue') : gpuQueue'[j].cmd = gpuQueue'[i].cmd => j = i
    <3>1. \A i \in 1..Len(gpuQueue) : gpuQueue[i].cmd # c
      BY <1>4 DEF InGpu
    <3>2. \A i, j \in 1..Len(gpuQueue) : gpuQueue[j].cmd = gpuQueue[i].cmd => j = i
      BY <1>2 DEF GpuOK
    <3> QED BY <1>5, <3>1, <3>2
  <2>3. ASSUME NEW x \in Semaphores, NEW o \in owners'[x]
        PROVE  IF InGpu(Of(o))' THEN counter'[x] < count'[x] ELSE counter'[x] = count'[x]
    <3>1. CASE x = s
      <4>1. Of(o)' = c
        BY <1>17, <3>1
      <4>2. InGpu(Of(o))'
        BY <1>6, <4>1 DEF InGpu
      <4> QED BY <1>1, <3>1, <4>2
    <3>2. CASE x # s
      <4>1. o \in owners[x] /\ Of(o)' = Of(o) /\ Of(o) \in Commands /\ Of(o) # c
        BY <1>17, <3>2
      <4>2. InGpu(Of(o))' <=> InGpu(Of(o))
        <5>1. \A d \in Commands : d # c => (InGpu(d)' <=> InGpu(d))
          BY <1>6
        <5> QED BY <4>1, <5>1 DEF InGpu
      <4>3. IF InGpu(Of(o)) THEN counter[x] < count[x] ELSE counter[x] = count[x]
        BY <1>2, <4>1 DEF GpuOK
      <4> QED BY <1>1, <3>2, <4>2, <4>3
    <3> QED BY <3>1, <3>2
  <2>4. \A x \in Semaphores : count'[x] <= MaxCount
    BY <1>1, <1>2 DEF GpuOK
  <2> QED BY <2>1, <2>2, <2>3, <2>4 DEF GpuOK
<1>21. PooledOK'
  <2>1. recycledSems \in Seq(Semaphores)
    BY <1>2 DEF TypeOK
  <2>2. \A i \in 1..Len(recycledSems) : recycledSems[i] \in Semaphores
    BY <2>1
  <2>3. PooledOK
    BY DEF IInv
  <2>4. ASSUME NEW i \in 1..Len(recycledSems')
        PROVE  /\ owners'[recycledSems'[i]] = {}
               /\ counter'[recycledSems'[i]] = count'[recycledSems'[i]] /\ count'[recycledSems'[i]] < MaxCount
    <3>1. /\ i \in 1..Len(recycledSems) /\ recycledSems'[i] = recycledSems[i]
          /\ recycledSems[i] \in Semaphores /\ recycledSems[i] # s
      BY <1>1, <2>2
    <3>2. /\ owners[recycledSems[i]] = {}
          /\ counter[recycledSems[i]] = count[recycledSems[i]] /\ count[recycledSems[i]] < MaxCount
      BY <2>3, <3>1 DEF PooledOK
    <3> QED BY <1>1, <3>1, <3>2
  <2>5. \A i, j \in 1..Len(recycledSems') : recycledSems'[j] = recycledSems'[i] => j = i
    BY <1>1, <2>3 DEF PooledOK
  <2> QED BY <2>4, <2>5 DEF PooledOK
<1>22. CommandPoolsOK'
  BY <1>3 DEF IInv, CommandPoolsOK
<1>23. SerialsOK'
  <2>1. /\ nextSerial \in Nat /\ serial \in [Commands -> Nat]
        /\ nextSerial' = IF drawables[c] THEN nextSerial + 1 ELSE nextSerial
        /\ serial' = [serial EXCEPT ![c] = IF drawables[c] THEN nextSerial ELSE 0]
    BY <1>2 DEF CommitSubmit, TypeOK
  <2>2. /\ \A d \in Commands : serial[d] < nextSerial /\ serial[d] \in Nat
        /\ \A d \in Commands : d # c => serial'[d] = serial[d]
        /\ serial'[c] = IF drawables[c] THEN nextSerial ELSE 0
    BY <2>1 DEF IInv, SerialsOK
  <2>3. \A d \in Commands : serial'[d] < nextSerial'
    BY <2>1, <2>2
  <2>4. ASSUME NEW i \in 1..Len(gpuQueue'), NEW j \in 1..Len(gpuQueue'), i < j,
               serial'[gpuQueue'[i].cmd] # 0, serial'[gpuQueue'[j].cmd] # 0
        PROVE  serial'[gpuQueue'[i].cmd] < serial'[gpuQueue'[j].cmd]
    <3>1. i \in 1..Len(gpuQueue)
      BY <1>5, <2>4
    <3>2. gpuQueue[i].cmd \in Commands /\ gpuQueue[i].cmd # c /\ gpuQueue'[i] = gpuQueue[i]
      BY <1>4, <1>5, <3>1 DEF InGpu, Submission
    <3>3. CASE j \in 1..Len(gpuQueue)
      <4>1. gpuQueue[j].cmd \in Commands /\ gpuQueue[j].cmd # c /\ gpuQueue'[j] = gpuQueue[j]
        BY <1>4, <1>5, <3>3 DEF InGpu, Submission
      <4> QED BY <2>2, <2>4, <3>1, <3>2, <3>3, <4>1 DEF IInv, SerialsOK, SerialsInExecutionOrder
    <3>4. CASE j = Len(gpuQueue) + 1
      <4>1. gpuQueue'[j].cmd = c
        BY <1>5, <3>4
      <4> QED BY <2>2, <2>4, <3>2, <4>1
    <3> QED BY <1>5, <3>3, <3>4
  <2> QED BY <2>3, <2>4 DEF SerialsOK, SerialsInExecutionOrder
<1> QED BY <1>2, <1>8, <1>11, <1>12, <1>13, <1>14, <1>15, <1>16, <1>18, <1>19, <1>20, <1>21, <1>22, <1>23 DEF IInv

-----------------------------------------------------------------------------
(* Arming the completion *)

\* Steps that leave the semaphores and the GPU alone.
LEMMA SemaphoresKept ==
  ASSUME IInv, UNCHANGED <<semVars, counter, gpuQueue, reader, serialVars, poolVars>>
  PROVE  TenantOK' /\ GpuOK' /\ PooledOK' /\ SerialsOK' /\ CommandPoolsOK'
<1> USE DEF semVars, serialVars, poolVars
<1>1. TenantOK' /\ GpuOK'
  BY DEF IInv, TenantOK, Of, GpuOK, InGpu
<1>2. SerialsOK'
  BY DEF IInv, SerialsOK, SerialsInExecutionOrder
<1>3. PooledOK' /\ CommandPoolsOK'
  BY DEF IInv, PooledOK, CommandPoolsOK
<1> QED BY <1>1, <1>2, <1>3

\* Positions a poll has collected are slots of the vectors.
LEMMA CollectedInRange ==
  ASSUME LoopTyped, PollOK, NEW p \in Pollers, pollPc[p] = "scan", NEW i \in 1..Len(readyIndices[p])
  PROVE  readyIndices[p][i] \in 1..Len(entries)
<1>1. /\ readyIndices[p][i] < scan[p] /\ scan[p] <= Len(snapshot[p]) + 1
      /\ Len(snapshot[p]) <= Len(entries)
  BY DEF PollOK
<1>2. readyIndices[p] \in Seq(Nat \ {0}) /\ scan[p] \in Nat /\ snapshot[p] \in Seq(Entry) /\ entries \in Seq(Entry)
  BY DEF LoopTyped
<1>3. readyIndices[p][i] \in Nat \ {0} /\ Len(snapshot[p]) \in Nat /\ Len(entries) \in Nat
  BY <1>2
<1> QED BY <1>1, <1>2, <1>3, SMTT(30)

\* The commands that the event loop and the serial queue refer to.
LEMMA QueuedCommands ==
  ASSUME TypeOK, LoopTyped
  PROVE  /\ \A i \in 1..Len(entries) : entries[i] \in Entry
         /\ \A p \in Pollers : \A i \in 1..Len(ready[p]) : ready[p][i] \in Entry
         /\ \A i \in 1..Len(scheduledQueue) : scheduledQueue[i] \in Commands
         /\ \A p \in Pollers : \A i \in 1..Len(spent[p]) : spent[p][i] \in Commands
         /\ \A i \in 1..Len(gpuQueue) : gpuQueue[i] \in Submission
         /\ \A e \in Entry : e.cb \in Commands /\ e.sem \in Semaphores /\ e.value \in Nat
         /\ \A e \in Submission : e.cmd \in Commands /\ e.sem \in Semaphores /\ e.value \in Nat
<1>1. /\ entries \in Seq(Entry) /\ (\A p \in Pollers : ready[p] \in Seq(Entry)) /\ scheduledQueue \in Seq(Commands)
      /\ (\A p \in Pollers : spent[p] \in Seq(Commands)) /\ gpuQueue \in Seq(Submission)
  BY DEF TypeOK, LoopTyped, Submission
<1>2. \A e \in Entry : e.cb \in Commands /\ e.sem \in Semaphores /\ e.value \in Nat
  BY DEF Entry, Commands
<1>3. \A e \in Submission : e.cmd \in Commands /\ e.sem \in Semaphores /\ e.value \in Nat
  BY DEF Submission
<1> QED BY <1>1, <1>2, <1>3, ElementFacts

\* The completion of a command that has no scheduled handler left joins the
\* registered waits, where it was not before.
LEMMA ArmKeeps ==
  ASSUME TypeOK, LoopTyped, PhasesOK, EntriesOK, ReadyOK, PollOK,
         NEW c \in Commands, Active(c), ~completed[c], scheduledHandlers[c] = 0,
         WaitForSemaphore(timeline[c], count[timeline[c]], c),
         UNCHANGED <<counter, gpuQueue, timeline, count, completed, scheduledHandlers, spent>>,
         \A d \in Commands : d # c => phase'[d] = phase[d],
         Published(c)', ~InEntries(c), ~InScheduled(c)',
         \A p \in Pollers : \A i \in 1..Len(ready[p]) : ready[p][i].cb # c,
         \A d \in Commands : InScheduled(d)' => InScheduled(d)
  PROVE  LoopTyped' /\ EntriesOK' /\ ReadyOK' /\ PollOK'
<1>1. timeline[c] \in Semaphores /\ count[timeline[c]] \in Nat
  BY TimelineTyped DEF TypeOK
<1>2. PICK e \in Entry : /\ e = [sem |-> timeline[c], value |-> count[timeline[c]], cb |-> c]
                         /\ e.cb = c /\ e.sem = timeline[c] /\ e.value = count[timeline[c]]
  <2>1. [sem |-> timeline[c], value |-> count[timeline[c]], cb |-> c] \in Entry
    BY <1>1 DEF Entry, Commands
  <2> QED BY <2>1
<1>3. LoopTyped'
  BY <1>1, ArmTyped
<1>4. /\ entries' = Append(entries, e) /\ UNCHANGED <<snapshot, scan, readyIndices, ready>>
      /\ \/ UNCHANGED pollPc
         \/ pollPc' = [p \in Pollers |-> IF pollPc[p] = "asleep" THEN "notified" ELSE pollPc[p]]
  BY <1>2 DEF WaitForSemaphore, NotifyIdle, localVars
<1>5. /\ Len(entries) \in Nat /\ Len(entries') = Len(entries) + 1
      /\ \A i \in 1..Len(entries) : entries'[i] = entries[i] /\ entries[i] \in Entry
      /\ entries'[Len(entries) + 1] = e
      /\ \A i \in 1..(Len(entries) + 1) : i \in 1..Len(entries) \/ i = Len(entries) + 1
  <2>1. entries \in Seq(Entry)
    BY DEF LoopTyped
  <2> QED BY <1>2, <1>4, <2>1, AppendFacts, ElementFacts
<1>6. \A p \in Pollers : \/ pollPc'[p] = pollPc[p]
                         \/ pollPc[p] = "asleep" /\ pollPc'[p] = "notified"
  BY <1>4
<1>7. Armed(e)'
  BY <1>2 DEF Armed, Waits
<1>8. ASSUME NEW x \in Entry, Armed(x), x.cb # c PROVE Armed(x)'
  BY <1>8, QueuedCommands DEF Armed, Waits, Published
<1>9. \A i \in 1..Len(entries) : entries[i].cb # c /\ entries[i].cb \in Commands
  BY <1>5, QueuedCommands DEF InEntries
<1>10. EntriesOK'
  <2>1. ASSUME NEW i \in 1..Len(entries') PROVE Armed(entries[i])' /\ ~InScheduled(entries[i].cb)'
    <3>1. CASE i = Len(entries) + 1
      <4>1. Armed(e)' /\ ~InScheduled(e.cb)' /\ entries'[i] = e
        BY <1>2, <1>5, <1>7, <3>1
      <4> QED BY <4>1 DEF Armed, Waits, Published, InScheduled
    <3>2. CASE i \in 1..Len(entries)
      <4>1. PICK x \in Entry : x = entries[i] /\ x = entries'[i]
        BY <1>5, <3>2
      <4>2. Armed(x) /\ ~InScheduled(x.cb) /\ x.cb # c /\ x.cb \in Commands
        BY <1>9, <3>2, <4>1 DEF EntriesOK
      <4>3. Armed(x)' /\ ~InScheduled(x.cb)'
        BY <1>8, <4>2
      <4> QED BY <4>1, <4>3 DEF Armed, Waits, Published, InScheduled
    <3> QED BY <1>5, <3>1, <3>2
  <2>2. \A i, j \in 1..Len(entries') : entries'[j].cb = entries'[i].cb => j = i
    <3>1. \A i, j \in 1..Len(entries) : entries[j].cb = entries[i].cb => j = i
      BY DEF EntriesOK
    <3> QED BY <1>2, <1>5, <1>9, <3>1
  <2> QED BY <2>1, <2>2 DEF EntriesOK
<1>11. \A d \in Commands : d # c => (InEntries(d)' <=> InEntries(d))
  BY <1>2, <1>5 DEF InEntries
<1>12. ReadyOK'
  <2>1. ASSUME NEW p \in Pollers, NEW i \in 1..Len(ready[p])
        PROVE  /\ Armed(ready[p][i])' /\ ~InGpu(ready[p][i].cb)'
               /\ ~InScheduled(ready[p][i].cb)' /\ ~InEntries(ready[p][i].cb)'
               /\ ready'[p] = ready[p]
               /\ \A j \in 1..Len(ready[p]) : ready[p][j].cb = ready[p][i].cb => j = i
    <3>1. PICK x \in Entry : x = ready[p][i]
      BY QueuedCommands
    <3>2. /\ Armed(x) /\ ~InGpu(x.cb) /\ ~InScheduled(x.cb) /\ ~InEntries(x.cb) /\ x.cb # c /\ x.cb \in Commands
          /\ \A j \in 1..Len(ready[p]) : ready[p][j].cb = ready[p][i].cb => j = i
      BY <3>1, QueuedCommands DEF ReadyOK
    <3>3. Armed(x)' /\ ~InGpu(x.cb)' /\ ~InScheduled(x.cb)' /\ ~InEntries(x.cb)'
      BY <1>8, <1>11, <3>2 DEF InGpu
    <3>4. ready' = ready
      BY <1>4
    <3> QED BY <3>1, <3>2, <3>3, <3>4 DEF Armed, InGpu, InScheduled, InEntries
  <2>2. ready' = ready
    BY <1>4
  <2> QED BY <2>1, <2>2 DEF ReadyOK, Armed, InGpu, InScheduled, InEntries
<1>13. PollOK'
  <2>1. \A p, q \in Pollers : HoldsPolling(p)' /\ HoldsPolling(q)' => p = q
    BY <1>6 DEF PollOK, HoldsPolling
  <2>2. ASSUME NEW p \in Pollers, pollPc'[p] # "run" PROVE ready'[p] = <<>> /\ spent'[p] = <<>>
    BY <1>4, <1>6, <2>2 DEF PollOK
  <2>3. ASSUME NEW p \in Pollers, pollPc'[p] \in {"gpuWait", "scan"}
        PROVE  Len(snapshot'[p]) <= Len(entries') /\ \A i \in 1..Len(snapshot'[p]) : snapshot'[p][i] = entries'[i]
    <3>1. /\ Len(snapshot[p]) <= Len(entries)
          /\ \A i \in 1..Len(snapshot[p]) : snapshot[p][i] = entries[i]
      BY <1>6, <2>3 DEF PollOK
    <3>2. Len(snapshot[p]) \in Nat
      BY ElementFacts DEF LoopTyped
    <3> QED BY <1>4, <1>5, <3>1, <3>2
  <2>4. ASSUME NEW p \in Pollers, pollPc'[p] = "scan"
        PROVE  /\ scan'[p] <= Len(snapshot'[p]) + 1
               /\ \A i \in 1..Len(readyIndices'[p]) :
                    /\ readyIndices'[p][i] < scan'[p]
                    /\ ~InGpu(entries[readyIndices[p][i]].cb)'
                    /\ \A j \in 1..Len(readyIndices'[p]) : readyIndices'[p][j] = readyIndices'[p][i] => j = i
    <3>1. pollPc[p] = "scan"
      BY <1>6, <2>4
    <3>2. \A i \in 1..Len(readyIndices[p]) : entries'[readyIndices[p][i]] = entries[readyIndices[p][i]]
      BY <1>5, <3>1, CollectedInRange
    <3>3. /\ scan[p] <= Len(snapshot[p]) + 1
          /\ \A i \in 1..Len(readyIndices[p]) :
               /\ readyIndices[p][i] < scan[p] /\ ~InGpu(entries[readyIndices[p][i]].cb)
               /\ \A j \in 1..Len(readyIndices[p]) : readyIndices[p][j] = readyIndices[p][i] => j = i
      BY <3>1 DEF PollOK
    <3>4. scan' = scan /\ snapshot' = snapshot /\ readyIndices' = readyIndices /\ gpuQueue' = gpuQueue
      BY <1>4
    <3>5. \A i \in 1..Len(readyIndices[p]) : ~InGpu(entries[readyIndices[p][i]].cb)'
      BY <3>2, <3>3, <3>4 DEF InGpu
    <3> QED BY <3>3, <3>4, <3>5
  <2> QED BY <2>1, <2>2, <2>3, <2>4 DEF PollOK, InGpu
<1> QED BY <1>3, <1>10, <1>12, <1>13

\* commit arms the completion or hands it to the serial queue.
LEMMA CommitArmInv == ASSUME IInv, NEW c \in Commands, CommitArm(c) PROVE IInv'
<1> USE DEF commandVars, poolVars, semVars, doneVars, serialVars, waitVars
<1>1. TypeOK /\ LoopTyped /\ PhasesOK /\ ScheduledOK /\ EntriesOK /\ ReadyOK /\ PollOK /\ OwnersOK /\ ReadersOK
  BY DEF IInv
<1>2. /\ UNCHANGED <<counter, scheduledHandlers, completedHandlers, encoders, drawables, poolVars, semVars>>
      /\ UNCHANGED <<doneVars, gpuQueue, spent, serialVars, waitVars>>
      /\ phase[c] = "submitted" /\ phase' = [phase EXCEPT ![c] = "presenting"]
  BY DEF CommitArm
<1>3. phase'[c] = "presenting" /\ \A d \in Commands : d # c => phase'[d] = phase[d]
  BY <1>1, <1>2 DEF TypeOK
<1>4. Active(c) /\ Active(c)' /\ Published(c)' /\ ~Published(c) /\ ~completed[c]
  BY <1>1, <1>2, <1>3 DEF Active, Published, PhasesOK, PhaseOK
<1>5. /\ \A d \in Commands : /\ Active(d)' <=> Active(d)
                             /\ d # c => (Waits(d)' <=> Waits(d))
                             /\ Published(d) => Published(d)'
                             /\ phase'[d] \in {"submitted", "presenting"} <=> phase[d] \in {"submitted", "presenting"}
      /\ Waits(c)'
  BY <1>2, <1>3, <1>4 DEF Active, Published, Waits
<1>6. ~InEntries(c) /\ ~InScheduled(c) /\ \A p \in Pollers : \A i \in 1..Len(ready[p]) : ready[p][i].cb # c
  BY <1>1, <1>4 DEF InEntries, InScheduled, EntriesOK, ScheduledOK, ReadyOK, Armed, Waits
<1>7. TenantOK' /\ GpuOK' /\ PooledOK' /\ SerialsOK' /\ CommandPoolsOK'
  BY <1>2, SemaphoresKept
<1>8. OwnersOK'
  BY <1>1, <1>2, <1>5 DEF OwnersOK, InSpent
<1>9. ReadersOK'
  <2>1. \A r \in Readers : reader[r] # None => reader[r].cmd \in Commands
    BY <1>1 DEF TypeOK, Handle, Read
  <2> QED BY <1>1, <1>2, <1>5, <2>1 DEF ReadersOK
<1>10. SpentOK'
  BY <1>2 DEF IInv, SpentOK
<1>11. PhasesOK'
  <2>1. ASSUME NEW d \in Commands PROVE PhaseOK(d)'
    <3>1. PhaseOK(d) /\ (Active(d)' <=> Active(d)) /\ (Published(d) => Published(d)')
      BY <1>1, <1>5 DEF PhasesOK
    <3>2. phase'[d] \in {"open", "locked"} <=> phase[d] \in {"open", "locked"}
      BY <1>2, <1>3
    <3>3. InGpu(d)' <=> InGpu(d)
      BY <1>2 DEF InGpu
    <3> QED BY <1>2, <3>1, <3>2, <3>3 DEF PhaseOK
  <2> QED BY <2>1 DEF PhasesOK
<1>12. phase' \in [Commands -> Phases]
  BY <1>1, <1>2 DEF TypeOK, Phases
<1>13. CASE scheduledHandlers[c] = 0
  <2>1. WaitForSemaphore(timeline[c], count[timeline[c]], c) /\ UNCHANGED scheduledQueue
    BY <1>13 DEF CommitArm
  <2>2. TypeOK'
    BY <1>1, <1>2, <1>12, <2>1 DEF TypeOK
  <2>3. \A d \in Commands : InScheduled(d)' <=> InScheduled(d)
    BY <2>1 DEF InScheduled
  <2>4. UNCHANGED <<counter, gpuQueue, timeline, count, completed, scheduledHandlers, spent>>
    BY <1>2
  <2>5. LoopTyped' /\ EntriesOK' /\ ReadyOK' /\ PollOK'
    BY <1>1, <1>3, <1>4, <1>6, <1>13, <2>1, <2>3, <2>4, ArmKeeps
  <2>6. ScheduledOK'
    <3>1. \A i \in 1..Len(scheduledQueue) : scheduledQueue[i] \in Commands /\ scheduledQueue[i] # c
      BY <1>1, <1>6, QueuedCommands DEF InScheduled
    <3> QED BY <1>1, <1>5, <2>1, <3>1 DEF ScheduledOK
  <2> QED BY <1>7, <1>8, <1>9, <1>10, <1>11, <2>2, <2>5, <2>6 DEF IInv
<1>14. CASE scheduledHandlers[c] # 0
  <2>1. scheduledQueue' = Append(scheduledQueue, c) /\ UNCHANGED <<sharedVars, pollPc, localVars>>
    BY <1>14 DEF CommitArm
  <2>2. /\ scheduledQueue' \in Seq(Commands) /\ Len(scheduledQueue') = Len(scheduledQueue) + 1
        /\ Len(scheduledQueue) \in Nat
        /\ \A i \in 1..Len(scheduledQueue) : /\ scheduledQueue'[i] = scheduledQueue[i]
                                             /\ scheduledQueue[i] \in Commands /\ scheduledQueue[i] # c
        /\ scheduledQueue'[Len(scheduledQueue) + 1] = c
        /\ \A i \in 1..(Len(scheduledQueue) + 1) : i \in 1..Len(scheduledQueue) \/ i = Len(scheduledQueue) + 1
    <3>1. scheduledQueue \in Seq(Commands)
      BY <1>1 DEF TypeOK
    <3>2. \A i \in 1..Len(scheduledQueue) : scheduledQueue[i] # c
      BY <1>6 DEF InScheduled
    <3> QED BY <2>1, <3>1, <3>2, AppendFacts, ElementFacts
  <2>3. TypeOK'
    BY <1>1, <1>2, <1>12, <2>2 DEF TypeOK
  <2>4. LoopTyped'
    BY <1>1, <1>2, <2>1 DEF LoopTyped, sharedVars, localVars
  <2>5. ScheduledOK'
    <3>1. \A i \in 1..Len(scheduledQueue') : Waits(scheduledQueue[i])'
      <4>1. \A i \in 1..Len(scheduledQueue) : Waits(scheduledQueue[i])
        BY <1>1 DEF ScheduledOK
      <4>2. ASSUME NEW i \in 1..Len(scheduledQueue') PROVE Waits(scheduledQueue[i])'
        <5>1. PICK d \in Commands : d = scheduledQueue'[i]
          BY <2>2
        <5>2. Waits(d)'
          BY <1>5, <2>2, <4>1, <5>1
        <5> QED BY <5>1, <5>2 DEF Waits, Published
      <4> QED BY <4>2
    <3>2. \A i, j \in 1..Len(scheduledQueue') : scheduledQueue'[j] = scheduledQueue'[i] => j = i
      <4>1. \A i, j \in 1..Len(scheduledQueue) : scheduledQueue[j] = scheduledQueue[i] => j = i
        BY <1>1 DEF ScheduledOK
      <4> QED BY <2>2, <4>1
    <3> QED BY <3>1, <3>2 DEF ScheduledOK
  <2>6. \A d \in Commands : d # c => (InScheduled(d)' <=> InScheduled(d))
    BY <2>2 DEF InScheduled
  <2>7. ASSUME NEW e \in Entry, Armed(e), ~InScheduled(e.cb), e.cb # c PROVE Armed(e)' /\ ~InScheduled(e.cb)'
    BY <1>1, <1>2, <1>5, <2>6, <2>7, QueuedCommands DEF Armed
  <2>8. entries' = entries /\ ready' = ready /\ gpuQueue' = gpuQueue
    BY <1>2, <2>1 DEF sharedVars, localVars
  <2>9. EntriesOK'
    <3>1. \A i \in 1..Len(entries) : entries[i] \in Entry /\ entries[i].cb # c
      BY <1>1, <1>6, QueuedCommands DEF InEntries
    <3>2. \A i \in 1..Len(entries) : Armed(entries[i])' /\ ~InScheduled(entries[i].cb)'
      BY <1>1, <2>7, <2>8, <3>1 DEF EntriesOK
    <3> QED BY <1>1, <2>8, <3>2 DEF EntriesOK
  <2>10. ReadyOK'
    <3>1. \A p \in Pollers : \A i \in 1..Len(ready[p]) : ready[p][i] \in Entry /\ ready[p][i].cb # c
      BY <1>1, <1>6, QueuedCommands
    <3>2. \A p \in Pollers : \A i \in 1..Len(ready[p]) : Armed(ready[p][i])' /\ ~InScheduled(ready[p][i].cb)'
      BY <1>1, <2>7, <2>8, <3>1 DEF ReadyOK
    <3> QED BY <1>1, <2>8, <3>2 DEF ReadyOK, InGpu, InEntries
  <2>11. PollOK'
    BY <1>1, <1>2, <2>1 DEF PollOK, HoldsPolling, InGpu, sharedVars, localVars
  <2> QED BY <1>7, <1>8, <1>9, <1>10, <1>11, <2>3, <2>4, <2>5, <2>9, <2>10, <2>11 DEF IInv
<1> QED BY <1>13, <1>14

\* The serial queue arms it after the last scheduled handler.
LEMMA ArmScheduledInv == ASSUME IInv, ArmScheduled PROVE IInv'
<1> USE DEF commandVars, poolVars, semVars, doneVars, serialVars, waitVars
<1>1. TypeOK /\ LoopTyped /\ PhasesOK /\ ScheduledOK /\ EntriesOK /\ ReadyOK /\ PollOK /\ OwnersOK /\ ReadersOK
  BY DEF IInv
<1>2. /\ UNCHANGED <<counter, commandVars, poolVars, semVars, doneVars, gpuQueue, spent, serialVars, waitVars>>
      /\ scheduledQueue # <<>> /\ scheduledQueue' = Tail(scheduledQueue)
  BY DEF ArmScheduled
<1>3. TypeOK'
  BY WorkTyped, <1>1
<1>4. PICK c \in Commands : c = Head(scheduledQueue) /\ c = scheduledQueue[1]
  BY <1>1, <1>2, TailFacts DEF TypeOK
<1>5. /\ \A i \in 1..Len(scheduledQueue') :
           i \in Nat /\ i + 1 \in 1..Len(scheduledQueue) /\ i + 1 # 1 /\ scheduledQueue'[i] = scheduledQueue[i + 1]
      /\ 1 \in 1..Len(scheduledQueue) /\ \A i \in 1..Len(scheduledQueue) : scheduledQueue[i] \in Commands
  <2>1. scheduledQueue \in Seq(Commands)
    BY <1>1 DEF TypeOK
  <2> QED BY <1>2, <2>1, TailFacts, ElementFacts
<1>6. scheduledHandlers[c] = 0 /\ WaitForSemaphore(timeline[c], count[timeline[c]], c)
  BY <1>4 DEF ArmScheduled
<1>7. Waits(c) /\ InScheduled(c) /\ Active(c) /\ ~completed[c] /\ Published(c)'
  BY <1>1, <1>2, <1>4, <1>5 DEF ScheduledOK, InScheduled, Waits, Published, Active
<1>8. ~InEntries(c) /\ \A p \in Pollers : \A i \in 1..Len(ready[p]) : ready[p][i].cb # c
  BY <1>1, <1>7 DEF InEntries, EntriesOK, ReadyOK
<1>9. ~InScheduled(c)' /\ \A d \in Commands : InScheduled(d)' => InScheduled(d)
  BY <1>1, <1>4, <1>5 DEF InScheduled, ScheduledOK
<1>10. LoopTyped' /\ EntriesOK' /\ ReadyOK' /\ PollOK'
  <2>1. UNCHANGED <<counter, gpuQueue, timeline, count, completed, scheduledHandlers, spent>> /\ UNCHANGED phase
    BY <1>2
  <2> QED BY <1>1, <1>6, <1>7, <1>8, <1>9, <2>1, ArmKeeps
<1>11. TenantOK' /\ GpuOK' /\ PooledOK' /\ SerialsOK' /\ CommandPoolsOK'
  BY <1>2, SemaphoresKept
<1>12. PhasesOK' /\ SpentOK' /\ ReadersOK'
  BY <1>2 DEF IInv, PhasesOK, PhaseOK, Active, Published, InGpu, SpentOK, ReadersOK
<1>13. OwnersOK'
  BY <1>2 DEF IInv, OwnersOK, InSpent
<1>14. ScheduledOK'
  <2>1. \A i \in 1..Len(scheduledQueue) : Waits(scheduledQueue[i])
    BY <1>1 DEF ScheduledOK
  <2>2. \A i \in 1..Len(scheduledQueue') : Waits(scheduledQueue[i])'
    BY <1>2, <1>5, <2>1 DEF Waits, Published
  <2>3. \A i, j \in 1..Len(scheduledQueue) : scheduledQueue[j] = scheduledQueue[i] => j = i
    BY <1>1 DEF ScheduledOK
  <2>4. \A i, j \in 1..Len(scheduledQueue') : scheduledQueue'[j] = scheduledQueue'[i] => j = i
    BY <1>5, <2>3
  <2> QED BY <2>2, <2>4 DEF ScheduledOK
<1> QED BY <1>3, <1>10, <1>11, <1>12, <1>13, <1>14 DEF IInv

-----------------------------------------------------------------------------
(* The GPU finishes the oldest submission *)

LEMMA GpuInv == ASSUME IInv, GpuExecute PROVE IInv'
<1> USE DEF commandVars, poolVars, semVars, doneVars, serialVars, waitVars
<1>1. /\ TypeOK /\ LoopTyped /\ PhasesOK /\ EntriesOK /\ ReadyOK /\ PollOK /\ OwnersOK /\ TenantOK /\ ReadersOK
      /\ GpuOK /\ PooledOK /\ SerialsOK
  BY DEF IInv
<1>2. /\ gpuQueue # <<>> /\ gpuQueue' = Tail(gpuQueue)
      /\ counter' = [counter EXCEPT ![Head(gpuQueue).sem] = Head(gpuQueue).value]
      /\ UNCHANGED <<sharedVars, pollPc, localVars, commandVars, poolVars, semVars, doneVars>>
      /\ UNCHANGED <<scheduledQueue, spent, serialVars, waitVars>>
  BY DEF GpuExecute
<1>3. gpuQueue \in Seq(Submission)
  BY <1>1 DEF TypeOK, Submission
<1>4. /\ gpuQueue' \in Seq(Submission) /\ 1 \in 1..Len(gpuQueue) /\ Head(gpuQueue) = gpuQueue[1]
      /\ gpuQueue[1] \in Submission
      /\ \A i \in 1..Len(gpuQueue') :
           i \in Nat /\ i + 1 \in 1..Len(gpuQueue) /\ i + 1 # 1 /\ gpuQueue'[i] = gpuQueue[i + 1]
      /\ \A i \in 1..Len(gpuQueue) : i # 1 => \E j \in 1..Len(gpuQueue') : gpuQueue'[j] = gpuQueue[i]
  <2>1. ASSUME NEW i \in 1..Len(gpuQueue), i # 1 PROVE \E j \in 1..Len(gpuQueue') : gpuQueue'[j] = gpuQueue[i]
    <3>1. Len(gpuQueue') = Len(gpuQueue) - 1 /\ Len(gpuQueue) \in Nat
      BY <1>2, <1>3, TailFacts
    <3>2. i - 1 \in 1..Len(gpuQueue') /\ (i - 1) + 1 = i
      BY <2>1, <3>1
    <3>3. gpuQueue'[i - 1] = gpuQueue[(i - 1) + 1]
      BY <1>2, <1>3, <3>2, TailFacts
    <3> QED BY <3>2, <3>3
  <2> QED BY <1>2, <1>3, <2>1, TailFacts
<1>5. PICK c \in Commands, s \in Semaphores, n \in Nat :
        /\ c = gpuQueue[1].cmd /\ s = gpuQueue[1].sem /\ n = gpuQueue[1].value
        /\ s = timeline[c] /\ n = count[s] /\ counter' = [counter EXCEPT ![s] = n]
  <2>1. gpuQueue[1].cmd \in Commands /\ gpuQueue[1].sem \in Semaphores /\ gpuQueue[1].value \in Nat
    BY <1>4 DEF Submission
  <2>2. /\ gpuQueue[1].sem = timeline[gpuQueue[1].cmd] /\ gpuQueue[1].value = count[gpuQueue[1].sem]
        /\ counter' = [counter EXCEPT ![gpuQueue[1].sem] = gpuQueue[1].value]
    BY <1>1, <1>2, <1>4 DEF GpuOK
  <2> QED BY <2>1, <2>2
<1>6. InGpu(c) /\ Active(c) /\ ~completed[c]
  BY <1>1, <1>4, <1>5 DEF InGpu, PhasesOK, PhaseOK
<1>21. /\ \A i \in 1..Len(gpuQueue') : \E k \in 1..Len(gpuQueue) : k # 1 /\ k = i + 1 /\ gpuQueue'[i] = gpuQueue[k]
       /\ \A i \in 1..Len(gpuQueue) : i # 1 => \E j \in 1..Len(gpuQueue') : gpuQueue'[j] = gpuQueue[i]
       /\ \A i, j \in 1..Len(gpuQueue) : gpuQueue[j].cmd = gpuQueue[i].cmd => j = i
  <2>1. \A i \in 1..Len(gpuQueue') : \E k \in 1..Len(gpuQueue) : k # 1 /\ k = i + 1 /\ gpuQueue'[i] = gpuQueue[k]
    BY <1>4
  <2>2. \A i, j \in 1..Len(gpuQueue) : gpuQueue[j].cmd = gpuQueue[i].cmd => j = i
    BY <1>1 DEF GpuOK
  <2> QED BY <1>4, <2>1, <2>2
<1>22. 1 \in 1..Len(gpuQueue)
  BY <1>4
<1>7. ~InGpu(c)' /\ \A d \in Commands : d # c => (InGpu(d)' <=> InGpu(d))
  <2>1. ~InGpu(c)'
    <3> SUFFICES ASSUME NEW i \in 1..Len(gpuQueue'), gpuQueue'[i].cmd = c PROVE FALSE
      BY DEF InGpu
    <3>1. PICK k \in 1..Len(gpuQueue) : k # 1 /\ gpuQueue'[i] = gpuQueue[k]
      BY <1>21
    <3>2. gpuQueue[k].cmd = gpuQueue[1].cmd
      BY <1>5, <3>1
    <3> QED BY <1>21, <1>22, <3>1, <3>2
  <2>2. ASSUME NEW d \in Commands, d # c PROVE InGpu(d)' <=> InGpu(d)
    <3>1. ASSUME InGpu(d)' PROVE InGpu(d)
      <4>1. PICK i \in 1..Len(gpuQueue') : gpuQueue'[i].cmd = d
        BY <3>1 DEF InGpu
      <4>2. PICK k \in 1..Len(gpuQueue) : gpuQueue'[i] = gpuQueue[k]
        BY <1>21
      <4> QED BY <4>1, <4>2 DEF InGpu
    <3>2. ASSUME InGpu(d) PROVE InGpu(d)'
      <4>1. PICK i \in 1..Len(gpuQueue) : gpuQueue[i].cmd = d
        BY <3>2 DEF InGpu
      <4>2. i # 1
        BY <1>5, <2>2, <4>1
      <4> QED BY <1>21, <4>1, <4>2 DEF InGpu
    <3> QED BY <3>1, <3>2
  <2> QED BY <2>1, <2>2
<1>8. /\ counter' \in [Semaphores -> Nat] /\ counter'[s] = count[s]
      /\ \A x \in Semaphores : x # s => counter'[x] = counter[x]
  BY <1>1, <1>5 DEF LoopTyped
<1>9. TypeOK' /\ LoopTyped'
  BY <1>1, <1>2, <1>4, <1>8 DEF TypeOK, LoopTyped, Submission, sharedVars, localVars
<1>10. PhasesOK'
  <2>1. ASSUME NEW d \in Commands PROVE PhaseOK(d)'
    <3>1. PhaseOK(d) /\ (InGpu(d)' => InGpu(d))
      BY <1>1, <1>7 DEF PhasesOK
    <3> QED BY <1>2, <3>1 DEF PhaseOK, Active, Published
  <2> QED BY <2>1 DEF PhasesOK
<1>11. UNCHANGED <<entries, ready, pollPc, snapshot, scan, readyIndices>>
  BY <1>2 DEF sharedVars, localVars
<1>12. ScheduledOK' /\ EntriesOK' /\ SpentOK' /\ ReadersOK'
  <2>1. ScheduledOK' /\ EntriesOK'
    BY <1>2, <1>11 DEF IInv, ScheduledOK, EntriesOK, Armed, Waits, Published, InScheduled
  <2>2. SpentOK' /\ ReadersOK'
    BY <1>2 DEF IInv, SpentOK, ReadersOK, Published
  <2> QED BY <2>1, <2>2
<1>13. ReadyOK'
  <2>1. \A p \in Pollers : \A i \in 1..Len(ready[p]) : ready[p][i].cb \in Commands
    BY <1>1, QueuedCommands
  <2>2. \A p \in Pollers : \A i \in 1..Len(ready[p]) : ~InGpu(ready[p][i].cb)'
    BY <1>1, <1>7, <1>11, <2>1 DEF ReadyOK
  <2> QED BY <1>1, <1>2, <1>11, <2>2 DEF ReadyOK, Armed, Waits, Published, InScheduled, InEntries
<1>14. PollOK'
  <2>1. ASSUME NEW p \in Pollers, pollPc[p] = "scan", NEW i \in 1..Len(readyIndices[p])
        PROVE  ~InGpu(entries[readyIndices[p][i]].cb)'
    <3>1. PICK d \in Commands : d = entries[readyIndices[p][i]].cb
      BY <1>1, <2>1, CollectedInRange, QueuedCommands
    <3>2. ~InGpu(d)
      BY <1>1, <2>1, <3>1 DEF PollOK
    <3>3. ~InGpu(d)'
      BY <1>7, <3>2
    <3> QED BY <1>11, <3>1, <3>3 DEF InGpu
  <2> QED BY <1>1, <1>2, <1>11, <2>1 DEF PollOK, HoldsPolling
<1>15. OwnersOK' /\ TenantOK'
  <2>1. OwnersOK'
    BY <1>1, <1>2 DEF OwnersOK, InSpent
  <2>2. TenantOK'
    BY <1>1, <1>2 DEF TenantOK, Of
  <2> QED BY <2>1, <2>2
<1>16. <<"command", c>> \in owners[s] /\ Of(<<"command", c>>) = c
  BY <1>1, <1>5, <1>6, InFlightOwned
<1>17. GpuOK'
  <2>1. \A i \in 1..Len(gpuQueue') :
          /\ gpuQueue'[i].sem = timeline'[gpuQueue'[i].cmd] /\ gpuQueue'[i].value = count'[gpuQueue'[i].sem]
          /\ \A j \in 1..Len(gpuQueue') : gpuQueue'[j].cmd = gpuQueue'[i].cmd => j = i
    <3>1. \A i \in 1..Len(gpuQueue) :
            /\ gpuQueue[i].sem = timeline[gpuQueue[i].cmd] /\ gpuQueue[i].value = count[gpuQueue[i].sem]
            /\ \A j \in 1..Len(gpuQueue) : gpuQueue[j].cmd = gpuQueue[i].cmd => j = i
      BY <1>1 DEF GpuOK
    <3>2. timeline' = timeline /\ count' = count
      BY <1>2
    <3>3. ASSUME NEW i \in 1..Len(gpuQueue'), NEW j \in 1..Len(gpuQueue'), gpuQueue'[j].cmd = gpuQueue'[i].cmd
          PROVE  j = i
      <4>1. PICK k \in 1..Len(gpuQueue) : k = i + 1 /\ gpuQueue'[i] = gpuQueue[k]
        BY <1>21
      <4>2. PICK l \in 1..Len(gpuQueue) : l = j + 1 /\ gpuQueue'[j] = gpuQueue[l]
        BY <1>21
      <4>3. k = l
        BY <3>1, <3>3, <4>1, <4>2
      <4>4. i \in Nat /\ j \in Nat
        BY <1>4
      <4> QED BY <4>1, <4>2, <4>3, <4>4
    <3>4. \A i \in 1..Len(gpuQueue') :
            gpuQueue'[i].sem = timeline'[gpuQueue'[i].cmd] /\ gpuQueue'[i].value = count'[gpuQueue'[i].sem]
      <4>1. ASSUME NEW i \in 1..Len(gpuQueue')
            PROVE  gpuQueue'[i].sem = timeline'[gpuQueue'[i].cmd] /\ gpuQueue'[i].value = count'[gpuQueue'[i].sem]
        <5>1. PICK k \in 1..Len(gpuQueue) : gpuQueue'[i] = gpuQueue[k]
          BY <1>21
        <5> QED BY <3>1, <3>2, <5>1
      <4> QED BY <4>1
    <3> QED BY <3>3, <3>4
  <2>2. ASSUME NEW x \in Semaphores, NEW o \in owners'[x]
        PROVE  IF InGpu(Of(o))' THEN counter'[x] < count'[x] ELSE counter'[x] = count'[x]
    <3>1. PICK d \in Commands : d = Of(o) /\ d = Of(o)' /\ timeline[d] = x
      BY <1>1, <1>2, OwnerFacts DEF Of
    <3>2. InGpu(Of(o))' <=> InGpu(d)'
      BY <3>1 DEF InGpu
    <3>3. CASE x = s
      <4>1. d = c
        BY <1>1, <1>2, <1>16, <3>1, <3>3 DEF TenantOK
      <4> QED BY <1>2, <1>7, <1>8, <3>2, <3>3, <4>1
    <3>4. CASE x # s
      <4>1. d # c
        BY <1>5, <3>1, <3>4
      <4>2. InGpu(d)' <=> InGpu(d)
        BY <1>7, <4>1
      <4>3. IF InGpu(d) THEN counter[x] < count[x] ELSE counter[x] = count[x]
        BY <1>1, <1>2, <3>1 DEF GpuOK
      <4> QED BY <1>2, <1>8, <3>2, <3>4, <4>2, <4>3
    <3> QED BY <3>3, <3>4
  <2> QED BY <1>1, <1>2, <2>1, <2>2 DEF GpuOK
<1>18. PooledOK'
  <2>1. recycledSems \in Seq(Semaphores)
    BY <1>1 DEF TypeOK
  <2>2. \A i \in 1..Len(recycledSems) : recycledSems[i] \in Semaphores
    BY <2>1
  <2>3. \A i \in 1..Len(recycledSems) : counter'[recycledSems[i]] = counter[recycledSems[i]]
    BY <1>1, <1>8, <1>16, <2>2 DEF PooledOK
  <2> QED BY <1>1, <1>2, <2>3 DEF PooledOK
<1>19. CommandPoolsOK'
  BY <1>2 DEF IInv, CommandPoolsOK
<1>20. SerialsOK'
  <2>1. \A i, j \in 1..Len(gpuQueue) :
          i < j /\ serial[gpuQueue[i].cmd] # 0 /\ serial[gpuQueue[j].cmd] # 0 =>
            serial[gpuQueue[i].cmd] < serial[gpuQueue[j].cmd]
    BY <1>1 DEF SerialsOK, SerialsInExecutionOrder
  <2>2. \A i, j \in 1..Len(gpuQueue') :
          i < j /\ serial[gpuQueue'[i].cmd] # 0 /\ serial[gpuQueue'[j].cmd] # 0 =>
            serial[gpuQueue'[i].cmd] < serial[gpuQueue'[j].cmd]
    <3>1. ASSUME NEW i \in 1..Len(gpuQueue'), NEW j \in 1..Len(gpuQueue'), i < j,
                 serial[gpuQueue'[i].cmd] # 0, serial[gpuQueue'[j].cmd] # 0
          PROVE  serial[gpuQueue'[i].cmd] < serial[gpuQueue'[j].cmd]
      <4>1. PICK k \in 1..Len(gpuQueue) : k = i + 1 /\ gpuQueue'[i] = gpuQueue[k]
        BY <1>21
      <4>2. PICK l \in 1..Len(gpuQueue) : l = j + 1 /\ gpuQueue'[j] = gpuQueue[l]
        BY <1>21
      <4>3. i \in Nat /\ j \in Nat
        BY <1>4
      <4>4. k < l
        BY <3>1, <4>1, <4>2, <4>3
      <4> QED BY <2>1, <3>1, <4>1, <4>2, <4>4
    <3> QED BY <3>1
  <2> QED BY <1>1, <1>2, <2>2 DEF SerialsOK, SerialsInExecutionOrder
<1> QED BY <1>9, <1>10, <1>12, <1>13, <1>14, <1>15, <1>17, <1>18, <1>19, <1>20 DEF IInv

-----------------------------------------------------------------------------
(* pollEvents *)

\* A wait whose value is reached belongs to a command that was executed.
LEMMA SignalledMeansDone == ASSUME IInv, NEW e \in Entry, Armed(e), Signalled(e) PROVE ~InGpu(e.cb)
<1>1. TypeOK /\ LoopTyped /\ PhasesOK /\ OwnersOK /\ GpuOK
  BY DEF IInv
<1>2. e.cb \in Commands /\ e.sem \in Semaphores /\ Active(e.cb) /\ ~completed[e.cb]
  BY <1>1, QueuedCommands DEF Armed, Waits, Published, Active
<1>3. e.sem = timeline[e.cb] /\ e.value = count[e.sem] /\ counter[e.sem] >= e.value
  BY DEF Armed, Signalled
<1>4. <<"command", e.cb>> \in owners[e.sem] /\ Of(<<"command", e.cb>>) = e.cb
  BY <1>1, <1>2, <1>3, InFlightOwned
<1>5. IF InGpu(e.cb) THEN counter[e.sem] < count[e.sem] ELSE counter[e.sem] = count[e.sem]
  BY <1>1, <1>2, <1>4 DEF GpuOK
<1>6. counter[e.sem] \in Nat /\ count[e.sem] \in Nat
  BY <1>1, <1>2 DEF TypeOK, LoopTyped
<1> QED BY <1>3, <1>5, <1>6

\* The bookkeeping of the poll itself.
LEMMA PollKeeps == ASSUME IInv, NEW p \in Pollers, PollStep(p) PROVE PollOK'
<1> USE DEF sharedVars, localVars
<1>1. TypeOK /\ LoopTyped /\ EntriesOK /\ PollOK
  BY DEF IInv
<1>2. spent' = spent /\ gpuQueue' = gpuQueue
  BY DEF PollStep, cbVars
<1>3. /\ pollPc \in [Pollers -> PollPcs] /\ snapshot \in [Pollers -> Seq(Entry)]
      /\ scan \in [Pollers -> Nat \ {0}] /\ readyIndices \in [Pollers -> Seq(Nat \ {0})]
      /\ ready \in [Pollers -> Seq(Entry)]
  BY <1>1 DEF LoopTyped
<1>4. \A d : InGpu(d)' <=> InGpu(d)
  BY <1>2 DEF InGpu
<1>5. CASE PollSleep(p) \/ PollAwake(p) \/ PollTimeout(p) \/ (spent[p] = <<>> /\ PollReturn(p))
  <2>1. \E x \in {"asleep", "outside"} : pollPc' = [pollPc EXCEPT ![p] = x]
    BY <1>5 DEF PollSleep, PollAwake, PollTimeout, PollReturn
  <2>2. UNCHANGED <<entries, snapshot, scan, readyIndices, ready>>
    BY <1>5 DEF PollSleep, PollAwake, PollTimeout, PollReturn
  <2>3. pollPc'[p] \in {"asleep", "outside"} /\ \A q \in Pollers : q # p => pollPc'[q] = pollPc[q]
    BY <1>3, <2>1
  <2>4. ready[p] = <<>> /\ spent[p] = <<>>
    BY <1>1, <1>5 DEF PollOK, PollSleep, PollAwake, PollTimeout, PollReturn, PollingMutexFree, HoldsPolling
  <2>5. \A q \in Pollers : HoldsPolling(q)' => HoldsPolling(q) \/ (q = p /\ PollingMutexFree)
    BY <1>3, <1>5, <2>3 DEF HoldsPolling, PollSleep, PollAwake, PollTimeout, PollReturn
  <2>6. \A q, r \in Pollers : HoldsPolling(q)' /\ HoldsPolling(r)' => q = r
    BY <1>1, <2>5 DEF PollOK, PollingMutexFree
  <2>7. \A q \in Pollers : pollPc'[q] # "run" => ready'[q] = <<>> /\ spent'[q] = <<>>
    BY <1>1, <1>2, <2>2, <2>3, <2>4 DEF PollOK
  <2>8. \A q \in Pollers : pollPc'[q] \in {"gpuWait", "scan"} => pollPc[q] = pollPc'[q]
    BY <2>3
  <2> QED BY <1>1, <1>4, <2>2, <2>6, <2>7, <2>8 DEF PollOK
<1>6. CASE PollSnapshot(p)
  <2>1. /\ \A q \in Pollers : pollPc[q] = "outside"
        /\ pollPc' = [pollPc EXCEPT ![p] = "gpuWait"] /\ snapshot' = [snapshot EXCEPT ![p] = entries]
        /\ UNCHANGED <<entries, ready>>
    BY <1>6 DEF PollSnapshot, PollingMutexFree, HoldsPolling
  <2>2. /\ pollPc'[p] = "gpuWait" /\ snapshot'[p] = entries
        /\ \A q \in Pollers : q # p => pollPc'[q] = "outside"
    BY <1>3, <2>1
  <2>3. \A q \in Pollers : ready'[q] = <<>> /\ spent'[q] = <<>>
    BY <1>1, <1>2, <2>1 DEF PollOK
  <2>4. Len(entries) <= Len(entries)
    BY <1>1 DEF LoopTyped
  <2> QED BY <2>1, <2>2, <2>3, <2>4 DEF PollOK, HoldsPolling
<1>7. CASE PollSignalled(p)
  <2>1. /\ pollPc[p] = "gpuWait" /\ pollPc' = [pollPc EXCEPT ![p] = "scan"]
        /\ scan' = [scan EXCEPT ![p] = 1] /\ readyIndices' = [readyIndices EXCEPT ![p] = <<>>]
        /\ UNCHANGED <<entries, snapshot, ready>>
    BY <1>7 DEF PollSignalled
  <2>2. \A q \in Pollers : q # p => pollPc[q] = "outside" /\ pollPc'[q] = "outside"
    BY <1>1, <1>3, <2>1 DEF PollOK, HoldsPolling
  <2>3. pollPc'[p] = "scan" /\ scan'[p] = 1 /\ readyIndices'[p] = <<>>
    BY <1>3, <2>1
  <2>4. \A q \in Pollers : ready'[q] = <<>> /\ spent'[q] = <<>>
    BY <1>1, <1>2, <2>1, <2>2 DEF PollOK
  <2>5. /\ Len(snapshot[p]) <= Len(entries) /\ \A i \in 1..Len(snapshot[p]) : snapshot[p][i] = entries[i]
        /\ Len(snapshot[p]) \in Nat /\ 1 <= Len(snapshot[p]) + 1
    <3>1. Len(snapshot[p]) \in Nat
      BY <1>3
    <3> QED BY <1>1, <2>1, <3>1 DEF PollOK
  <2>6. \A i \in 1..Len(readyIndices'[p]) : FALSE
    BY <2>3
  <2> QED BY <2>1, <2>2, <2>3, <2>4, <2>5, <2>6 DEF PollOK, HoldsPolling
<1>8. CASE PollScan(p)
  <2> DEFINE i0 == scan[p]
             got == Signalled(snapshot[p][i0])
             idx == readyIndices[p]
  <2>1. /\ pollPc[p] = "scan" /\ i0 <= Len(snapshot[p]) /\ scan' = [scan EXCEPT ![p] = i0 + 1]
        /\ readyIndices' = [readyIndices EXCEPT ![p] = IF got THEN Append(idx, i0) ELSE idx]
        /\ UNCHANGED <<entries, pollPc, snapshot, ready>>
    BY <1>8 DEF PollScan
  <2>2. /\ i0 \in Nat \ {0} /\ idx \in Seq(Nat \ {0}) /\ Len(snapshot[p]) \in Nat /\ i0 \in 1..Len(snapshot[p])
        /\ scan'[p] = i0 + 1 /\ \A q \in Pollers : q # p => scan'[q] = scan[q] /\ readyIndices'[q] = readyIndices[q]
    <3>1. i0 \in Nat \ {0} /\ Len(snapshot[p]) \in Nat /\ idx \in Seq(Nat \ {0})
      BY <1>3
    <3> QED BY <1>3, <2>1, <3>1
  <2>3. /\ \A i \in 1..Len(idx) : /\ idx[i] < i0 /\ ~InGpu(entries[idx[i]].cb) /\ idx[i] \in Nat
                                  /\ \A j \in 1..Len(idx) : idx[j] = idx[i] => j = i
        /\ Len(snapshot[p]) <= Len(entries) /\ snapshot[p][i0] = entries[i0]
    <3>1. \A i \in 1..Len(idx) : idx[i] \in Nat
      BY <2>2
    <3>2. /\ \A i \in 1..Len(idx) : /\ idx[i] < i0 /\ ~InGpu(entries[idx[i]].cb)
                                    /\ \A j \in 1..Len(idx) : idx[j] = idx[i] => j = i
          /\ Len(snapshot[p]) <= Len(entries) /\ \A i \in 1..Len(snapshot[p]) : snapshot[p][i] = entries[i]
      BY <1>1, <2>1 DEF PollOK
    <3> HIDE DEF i0, idx
    <3> QED BY <2>2, <3>1, <3>2
  <2>4. got => ~InGpu(entries[i0].cb)
    <3>1. i0 \in 1..Len(entries)
      <4>1. Len(entries) \in Nat
        BY <1>1, ElementFacts DEF LoopTyped
      <4> QED BY <2>2, <2>3, <4>1
    <3>2. entries[i0] \in Entry /\ Armed(entries[i0])
      BY <1>1, <3>1, QueuedCommands DEF EntriesOK
    <3> QED BY <2>3, <3>2, SignalledMeansDone
  <2> HIDE DEF i0, got, idx
  <2>5. \A i \in 1..Len(readyIndices'[p]) :
          /\ readyIndices'[p][i] < i0 + 1 /\ ~InGpu(entries[readyIndices'[p][i]].cb)
          /\ \A j \in 1..Len(readyIndices'[p]) : readyIndices'[p][j] = readyIndices'[p][i] => j = i
    <3>1. CASE got
      <4>1. PICK q \in Seq(Nat \ {0}) : q = Append(idx, i0) /\ readyIndices'[p] = q
        BY <1>3, <2>1, <2>2, <3>1, AppendFacts
      <4>2. /\ Len(q) = Len(idx) + 1 /\ Len(idx) \in Nat /\ q[Len(idx) + 1] = i0
            /\ \A i \in 1..Len(idx) : q[i] = idx[i]
            /\ \A i \in 1..(Len(idx) + 1) : i \in 1..Len(idx) \/ i = Len(idx) + 1
        BY <2>2, <4>1, AppendFacts
      <4>3. \A i \in 1..Len(q) : q[i] < i0 + 1 /\ ~InGpu(entries[q[i]].cb)
        <5>1. ASSUME NEW i \in 1..Len(q) PROVE q[i] < i0 + 1 /\ ~InGpu(entries[q[i]].cb)
          <6>1. CASE i \in 1..Len(idx)
            <7>1. q[i] = idx[i] /\ idx[i] \in Nat /\ idx[i] < i0 /\ i0 \in Nat /\ ~InGpu(entries[idx[i]].cb)
              BY <2>2, <2>3, <4>2, <6>1
            <7> QED BY <7>1
          <6>2. CASE i = Len(idx) + 1
            BY <2>2, <2>4, <3>1, <4>2, <6>2
          <6> QED BY <4>2, <6>1, <6>2
        <5> QED BY <5>1
      <4>4. \A i, j \in 1..Len(q) : q[j] = q[i] => j = i
        <5>1. ASSUME NEW i \in 1..Len(idx) PROVE q[i] # i0
          <6>1. q[i] = idx[i] /\ idx[i] \in Nat /\ idx[i] < i0 /\ i0 \in Nat
            BY <2>2, <2>3, <4>2
          <6> QED BY <6>1
        <5>2. \A i, j \in 1..Len(idx) : idx[j] = idx[i] => j = i
          BY <2>3
        <5> QED BY <4>2, <5>1, <5>2
      <4> QED BY <4>1, <4>3, <4>4
    <3>2. CASE ~got
      <4>1. readyIndices'[p] = idx
        BY <1>3, <2>1, <3>2
      <4>2. ASSUME NEW i \in 1..Len(idx)
            PROVE  /\ idx[i] < i0 + 1 /\ ~InGpu(entries[idx[i]].cb)
                   /\ \A j \in 1..Len(idx) : idx[j] = idx[i] => j = i
        <5>1. idx[i] \in Nat /\ idx[i] < i0 /\ i0 \in Nat
          BY <2>2, <2>3
        <5>2. idx[i] < i0 + 1
          BY <5>1
        <5> QED BY <2>3, <5>2
      <4> QED BY <4>1, <4>2
    <3> QED BY <3>1, <3>2
  <2>6. \A q \in Pollers : q # p => pollPc[q] = "outside"
    BY <1>1, <2>1 DEF PollOK, HoldsPolling
  <2>7. scan'[p] <= Len(snapshot[p]) + 1
    BY <2>1, <2>2
  <2>8. \A i \in 1..Len(readyIndices'[p]) :
          /\ readyIndices'[p][i] < scan'[p] /\ ~InGpu(entries[readyIndices[p][i]].cb)'
          /\ \A j \in 1..Len(readyIndices'[p]) : readyIndices'[p][j] = readyIndices'[p][i] => j = i
    BY <1>2, <2>1, <2>2, <2>5 DEF InGpu
  <2>9. \A q, r \in Pollers : HoldsPolling(q)' /\ HoldsPolling(r)' => q = r
    BY <1>1, <2>1 DEF PollOK, HoldsPolling
  <2>10. \A q \in Pollers : /\ pollPc'[q] # "run" => ready'[q] = <<>> /\ spent'[q] = <<>>
                            /\ pollPc'[q] \in {"gpuWait", "scan"} =>
                                 /\ Len(snapshot'[q]) <= Len(entries')
                                 /\ \A i \in 1..Len(snapshot'[q]) : snapshot'[q][i] = entries'[i]
    BY <1>1, <1>2, <2>1 DEF PollOK
  <2>11. ASSUME NEW q \in Pollers, pollPc'[q] = "scan"
         PROVE  /\ scan'[q] <= Len(snapshot'[q]) + 1
                /\ \A i \in 1..Len(readyIndices'[q]) :
                     /\ readyIndices'[q][i] < scan'[q] /\ ~InGpu(entries[readyIndices[q][i]].cb)'
                     /\ \A j \in 1..Len(readyIndices'[q]) : readyIndices'[q][j] = readyIndices'[q][i] => j = i
    <3>1. q = p
      BY <2>1, <2>6, <2>11
    <3> QED BY <2>1, <2>7, <2>8, <3>1
  <2> QED BY <2>9, <2>10, <2>11 DEF PollOK
<1>9. CASE PollRemove(p)
  <2>1. pollPc[p] = "scan" /\ pollPc' = [pollPc EXCEPT ![p] = "run"] /\ \A q \in Pollers : q # p => ready'[q] = ready[q]
    BY <1>3, <1>9 DEF PollRemove
  <2>2. pollPc'[p] = "run" /\ \A q \in Pollers : q # p => pollPc[q] = "outside" /\ pollPc'[q] = "outside"
    BY <1>1, <1>3, <2>1 DEF PollOK, HoldsPolling
  <2>3. \A q \in Pollers : q # p => ready'[q] = <<>> /\ spent'[q] = <<>>
    BY <1>1, <1>2, <2>1, <2>2 DEF PollOK
  <2> QED BY <2>2, <2>3 DEF PollOK, HoldsPolling
<1> QED BY <1>5, <1>6, <1>7, <1>8, <1>9 DEF PollStep

\* A poll moves the executed commands' callbacks out of the vectors, each once.
LEMMA PollInv == ASSUME IInv, NEW p \in Pollers, PollStep(p) PROVE IInv'
<1> USE DEF commandVars, poolVars, semVars, doneVars, serialVars, waitVars
<1>1. TypeOK /\ LoopTyped /\ EntriesOK /\ ReadyOK /\ PollOK
  BY DEF IInv
<1>2. UNCHANGED cbVars /\ UNCHANGED counter
  BY DEF PollStep, PollSleep, PollAwake, PollSnapshot, PollTimeout, PollSignalled, PollScan, PollRemove, PollReturn
<1>3. /\ UNCHANGED <<phase, scheduledHandlers, completedHandlers, encoders, drawables, completed, handlersCompleted>>
      /\ UNCHANGED <<completionWork, poolVars, semVars, gpuQueue, scheduledQueue, spent, serialVars, waitVars>>
  BY <1>2 DEF cbVars
<1>4. TypeOK'
  BY <1>1, <1>3 DEF TypeOK
<1>5. LoopTyped' /\ PollOK'
  BY PollTyped, PollKeeps
<1>6. TenantOK' /\ GpuOK' /\ PooledOK' /\ SerialsOK' /\ CommandPoolsOK'
  BY <1>2, <1>3, SemaphoresKept
<1>7. PhasesOK' /\ SpentOK' /\ ReadersOK'
  BY <1>3 DEF IInv, PhasesOK, PhaseOK, Active, Published, InGpu, SpentOK, ReadersOK
<1>8. OwnersOK' /\ ScheduledOK'
  <2>1. OwnersOK'
    BY <1>3 DEF IInv, OwnersOK, InSpent
  <2>2. ScheduledOK'
    BY <1>3 DEF IInv, ScheduledOK, Waits, Published
  <2> QED BY <2>1, <2>2
<1>9. EntriesOK' /\ ReadyOK'
  <2>1. CASE UNCHANGED <<entries, ready>>
    BY <1>1, <1>3, <2>1 DEF EntriesOK, ReadyOK, Armed, Waits, Published, InScheduled, InEntries, InGpu
  <2>2. CASE PollRemove(p)
    <3>1. PICK idx \in Seq(Nat \ {0}) : idx = readyIndices[p]
      BY <1>1 DEF LoopTyped
    <3>2. /\ pollPc[p] = "scan" /\ ready' = [ready EXCEPT ![p] = [i \in 1..Len(idx) |-> entries[idx[i]]]]
          /\ EraseEntries({idx[i] : i \in 1..Len(idx)})
      BY <2>2, <3>1 DEF PollRemove
    <3>3. PICK kept \in [1..Len(entries') -> (1..Len(entries)) \ {idx[i] : i \in 1..Len(idx)}] :
            /\ \A j \in 1..Len(entries') : entries'[j] = entries[kept[j]]
            /\ \A i, j \in 1..Len(entries') : i < j => kept[i] < kept[j]
      BY <1>1, <3>2, EraseFacts DEF LoopTyped
    <3>4. \A j \in 1..Len(entries') : kept[j] \in 1..Len(entries) /\ \A i \in 1..Len(idx) : kept[j] # idx[i]
      BY <3>3
    <3>5. \A i, j \in 1..Len(entries') : kept[i] = kept[j] => i = j
      <4>1. ASSUME NEW i \in 1..Len(entries'), NEW j \in 1..Len(entries'), kept[i] = kept[j], i # j PROVE FALSE
        <5>1. i \in Int /\ j \in Int /\ kept[i] \in Int /\ kept[j] \in Int
          BY <3>4
        <5>2. (i < j => kept[i] < kept[j]) /\ (j < i => kept[j] < kept[i])
          BY <3>3
        <5> QED BY <4>1, <5>1, <5>2
      <4> QED BY <4>1
    <3>6. /\ \A i \in 1..Len(idx) : idx[i] \in 1..Len(entries) /\ ~InGpu(entries[idx[i]].cb)
          /\ \A i, j \in 1..Len(idx) : idx[j] = idx[i] => j = i
      BY <1>1, <3>1, <3>2, CollectedInRange DEF PollOK
    <3>7. \A i, j \in 1..Len(entries) : entries[j].cb = entries[i].cb => j = i
      BY <1>1 DEF EntriesOK
    <3>8. ASSUME NEW e, Armed(e), ~InScheduled(e.cb) PROVE Armed(e)' /\ ~InScheduled(e.cb)'
      BY <1>3, <3>8 DEF Armed, Waits, Published, InScheduled
    <3>9. \A i \in 1..Len(entries) : Armed(entries[i]) /\ ~InScheduled(entries[i].cb)
      BY <1>1 DEF EntriesOK
    <3>10. EntriesOK'
      <4>1. ASSUME NEW i \in 1..Len(entries') PROVE Armed(entries[i])' /\ ~InScheduled(entries[i].cb)'
        <5>1. PICK e : e = entries[kept[i]] /\ e = entries'[i]
          BY <3>3
        <5>2. Armed(e)' /\ ~InScheduled(e.cb)'
          BY <3>4, <3>8, <3>9, <5>1
        <5> QED BY <5>1, <5>2 DEF Armed, Waits, Published, InScheduled
      <4>2. \A i, j \in 1..Len(entries') : entries'[j].cb = entries'[i].cb => j = i
        <5>1. ASSUME NEW i \in 1..Len(entries'), NEW j \in 1..Len(entries'), entries'[j].cb = entries'[i].cb
              PROVE  j = i
          <6>1. /\ kept[i] \in 1..Len(entries) /\ kept[j] \in 1..Len(entries)
                /\ entries[kept[j]].cb = entries[kept[i]].cb
            BY <3>3, <3>4, <5>1
          <6>2. kept[j] = kept[i]
            BY <3>7, <6>1
          <6> QED BY <3>5, <6>2
        <5> QED BY <5>1
      <4> QED BY <4>1, <4>2 DEF EntriesOK
    <3>11. PICK moved : moved = [i \in 1..Len(idx) |-> entries[idx[i]]] /\ ready'[p] = moved
           /\ \A q \in Pollers : q # p => ready'[q] = ready[q]
      BY <1>1, <3>2 DEF LoopTyped
    <3>12. Len(moved) = Len(idx) /\ \A i \in 1..Len(idx) : moved[i] = entries[idx[i]]
      <4>1. Len(idx) \in Nat
        OBVIOUS
      <4> QED BY <3>11, <4>1
    <3>13. \A q \in Pollers : q # p => ready'[q] = <<>>
      BY <1>1, <3>2, <3>11 DEF PollOK, HoldsPolling
    <3>14. ASSUME NEW i \in 1..Len(idx)
           PROVE  /\ Armed(moved[i])' /\ ~InGpu(moved[i].cb)' /\ ~InScheduled(moved[i].cb)'
                  /\ ~InEntries(moved[i].cb)'
                  /\ \A j \in 1..Len(idx) : moved[j].cb = moved[i].cb => j = i
      <4>1. moved[i] = entries[idx[i]] /\ idx[i] \in 1..Len(entries) /\ ~InGpu(moved[i].cb)
        BY <3>6, <3>12
      <4>2. Armed(moved[i])' /\ ~InScheduled(moved[i].cb)'
        BY <3>8, <3>9, <4>1
      <4>3. ~InGpu(moved[i].cb)'
        BY <1>3, <4>1 DEF InGpu
      <4>4. ~InEntries(moved[i].cb)'
        <5> SUFFICES ASSUME NEW j \in 1..Len(entries'), entries'[j].cb = moved[i].cb PROVE FALSE
          BY DEF InEntries
        <5>1. kept[j] \in 1..Len(entries) /\ entries[kept[j]].cb = entries[idx[i]].cb
          BY <3>3, <3>4, <4>1
        <5>2. kept[j] = idx[i]
          BY <3>7, <4>1, <5>1
        <5> QED BY <3>4, <5>2
      <4>5. \A j \in 1..Len(idx) : moved[j].cb = moved[i].cb => j = i
        BY <3>6, <3>7, <3>12
      <4> QED BY <4>2, <4>3, <4>4, <4>5
    <3>15. ReadyOK'
      <4>1. ASSUME NEW q \in Pollers, NEW i \in 1..Len(ready'[q])
            PROVE  /\ Armed(ready[q][i])' /\ ~InGpu(ready[q][i].cb)' /\ ~InScheduled(ready[q][i].cb)'
                   /\ ~InEntries(ready[q][i].cb)'
                   /\ \A j \in 1..Len(ready'[q]) : ready'[q][j].cb = ready'[q][i].cb => j = i
        <5>1. q = p
          BY <3>13, <4>1
        <5>2. ready'[q] = moved /\ i \in 1..Len(idx)
          BY <3>11, <3>12, <4>1, <5>1
        <5> QED BY <3>12, <3>14, <5>2 DEF Armed, Waits, Published, InGpu, InScheduled, InEntries
      <4> QED BY <4>1 DEF ReadyOK
    <3> QED BY <3>10, <3>15
  <2> QED BY <2>1, <2>2 DEF PollStep, PollSleep, PollAwake, PollSnapshot, PollTimeout, PollSignalled, PollScan,
                            PollReturn, sharedVars, localVars
<1> QED BY <1>4, <1>5, <1>6, <1>7, <1>8, <1>9 DEF IInv

-----------------------------------------------------------------------------
(* An owner drops the semaphore *)

\* With the last owner gone, and its command executed, the semaphore is idle.
LEMMA DropKeeps ==
  ASSUME IInv, NEW s \in Semaphores, NEW o \in owners[s], Drop(s, o), UNCHANGED <<count, counter>>,
         owners[s] = {o} => ~InGpu(Of(o))
  PROVE  /\ PooledOK' /\ owners'[s] = owners[s] \ {o}
         /\ \A x \in Semaphores : x # s => owners'[x] = owners[x]
<1>1. TypeOK /\ LoopTyped /\ GpuOK /\ PooledOK
  BY DEF IInv
<1>2. owners'[s] = owners[s] \ {o} /\ \A x \in Semaphores : x # s => owners'[x] = owners[x]
  BY <1>1 DEF TypeOK, Drop
<1>3. recycledSems \in Seq(Semaphores)
  BY <1>1 DEF TypeOK
<1>4. \A i \in 1..Len(recycledSems) : recycledSems[i] \in Semaphores /\ recycledSems[i] # s
  <2>1. \A i \in 1..Len(recycledSems) : recycledSems[i] \in Semaphores
    BY <1>3
  <2> QED BY <1>1, <2>1 DEF PooledOK
<1>5. \A i \in 1..Len(recycledSems) :
        /\ owners'[recycledSems[i]] = {}
        /\ counter'[recycledSems[i]] = count'[recycledSems[i]] /\ count'[recycledSems[i]] < MaxCount
        /\ \A j \in 1..Len(recycledSems) : recycledSems[j] = recycledSems[i] => j = i
  BY <1>1, <1>2, <1>4 DEF PooledOK
<1>6. CASE owners[s] = {o} /\ Len(recycledSems) < SemCapacity /\ count[s] # MaxCount
  <2>1. recycledSems' = Append(recycledSems, s)
    BY <1>6 DEF Drop
  <2>2. /\ Len(recycledSems') = Len(recycledSems) + 1 /\ Len(recycledSems) \in Nat
        /\ \A i \in 1..Len(recycledSems) : recycledSems'[i] = recycledSems[i]
        /\ recycledSems'[Len(recycledSems) + 1] = s
        /\ \A i \in 1..(Len(recycledSems) + 1) : i \in 1..Len(recycledSems) \/ i = Len(recycledSems) + 1
    BY <1>3, <2>1, AppendFacts
  <2>3. owners'[s] = {} /\ counter'[s] = count'[s] /\ count'[s] < MaxCount
    <3>1. counter[s] = count[s] /\ count[s] <= MaxCount
      BY <1>1, <1>6 DEF GpuOK
    <3>2. count[s] \in Nat /\ MaxCount \in Nat
      BY <1>1, CommandBufferAssumption DEF TypeOK
    <3> QED BY <1>2, <1>6, <3>1, <3>2
  <2>4. \A i, j \in 1..Len(recycledSems') : recycledSems'[j] = recycledSems'[i] => j = i
    BY <1>4, <1>5, <2>2
  <2>5. ASSUME NEW i \in 1..Len(recycledSems')
        PROVE  /\ owners'[recycledSems'[i]] = {}
               /\ counter'[recycledSems'[i]] = count'[recycledSems'[i]] /\ count'[recycledSems'[i]] < MaxCount
    <3>1. CASE i \in 1..Len(recycledSems)
      BY <1>5, <2>2, <3>1
    <3>2. CASE i = Len(recycledSems) + 1
      BY <2>2, <2>3, <3>2
    <3> QED BY <2>2, <3>1, <3>2
  <2>6. PooledOK'
    BY <2>4, <2>5 DEF PooledOK
  <2> QED BY <1>2, <2>6
<1>7. CASE UNCHANGED recycledSems
  <2>1. PooledOK'
    BY <1>5, <1>7 DEF PooledOK
  <2> QED BY <1>2, <2>1
<1> QED BY <1>6, <1>7 DEF Drop

\* The owners that stay still act for the same command.
LEMMA TenantsKept ==
  ASSUME IInv, \A x \in Semaphores : \A o \in owners'[x] : o \in owners[x] /\ Of(o)' = Of(o),
         UNCHANGED <<gpuQueue, timeline, count, counter>>
  PROVE  TenantOK' /\ GpuOK'
<1>1. TenantOK /\ GpuOK
  BY DEF IInv
<1>2. TenantOK'
  BY <1>1 DEF TenantOK
<1>3. ASSUME NEW x \in Semaphores, NEW o \in owners'[x]
      PROVE  IF InGpu(Of(o))' THEN counter'[x] < count'[x] ELSE counter'[x] = count'[x]
  <2>1. PICK d : d = Of(o) /\ d = Of(o)' /\ o \in owners[x]
    OBVIOUS
  <2>2. IF InGpu(d) THEN counter[x] < count[x] ELSE counter[x] = count[x]
    BY <1>1, <2>1 DEF GpuOK
  <2>3. InGpu(Of(o))' <=> InGpu(d)
    BY <2>1 DEF InGpu
  <2> QED BY <2>2, <2>3
<1>4. GpuOK'
  BY <1>1, <1>3 DEF GpuOK
<1> QED BY <1>2, <1>4

\* Completions do not move.
LEMMA FlightKept ==
  ASSUME IInv, UNCHANGED <<loopVars, timeline, count, completed, scheduledHandlers, gpuQueue, scheduledQueue>>,
         \A d \in Commands : Published(d) => Published(d)'
  PROVE  LoopTyped' /\ ScheduledOK' /\ EntriesOK' /\ ReadyOK'
<1> USE DEF loopVars, sharedVars, localVars
<1>1. TypeOK /\ LoopTyped /\ ScheduledOK /\ EntriesOK /\ ReadyOK
  BY DEF IInv
<1>2. LoopTyped'
  BY <1>1 DEF LoopTyped
<1>3. \A d \in Commands : Waits(d) => Waits(d)'
  BY DEF Waits
<1>4. ScheduledOK'
  BY <1>1, <1>3, QueuedCommands DEF ScheduledOK
<1>5. ASSUME NEW e \in Entry, Armed(e) PROVE Armed(e)'
  BY <1>1, <1>3, <1>5, QueuedCommands DEF Armed
<1>6. EntriesOK'
  BY <1>1, <1>5, QueuedCommands DEF EntriesOK, InScheduled
<1>7. ReadyOK'
  BY <1>1, <1>5, QueuedCommands DEF ReadyOK, InScheduled, InEntries, InGpu
<1> QED BY <1>2, <1>4, <1>6, <1>7

\* commit returns.
LEMMA CommitReturnInv == ASSUME IInv, NEW c \in Commands, CommitReturn(c) PROVE IInv'
<1> USE DEF commandVars, poolVars, semVars, doneVars, serialVars, waitVars
<1>1. TypeOK /\ LoopTyped /\ PhasesOK /\ OwnersOK /\ ReadersOK
  BY DEF IInv
<1>2. /\ UNCHANGED <<loopVars, scheduledHandlers, completedHandlers, encoders, drawables, poolVars, timeline, count>>
      /\ UNCHANGED <<doneVars, gpuQueue, scheduledQueue, spent, serialVars, waitVars>>
      /\ phase[c] = "presenting" /\ phase' = [phase EXCEPT ![c] = "returned"]
      /\ Drop(timeline[c], <<"commit", c>>)
  BY DEF CommitReturn
<1>3. phase'[c] = "returned" /\ \A d \in Commands : d # c => phase'[d] = phase[d]
  BY <1>1, <1>2 DEF TypeOK
<1>4. PICK s \in Semaphores : s = timeline[c] /\ <<"commit", c>> \in owners[s]
  <2>1. timeline[c] \in Semaphores
    BY <1>1, <1>2, TimelineTyped DEF Active
  <2> QED BY <1>1, <1>2, <2>1 DEF OwnersOK
<1>5. owners[s] = {<<"commit", c>>} => ~InGpu(Of(<<"commit", c>>))
  <2>1. owners[s] = {<<"commit", c>>} => completed[c]
    <3>1. <<"command", c>> \in owners[s] <=> ~completed[c]
      BY <1>1, <1>4 DEF OwnersOK
    <3>2. completed[c] \in BOOLEAN
      BY <1>1 DEF TypeOK
    <3> QED BY <3>1, <3>2
  <2>2. Of(<<"commit", c>>) = c
    BY DEF Of
  <2> QED BY <1>1, <2>1, <2>2 DEF PhasesOK, PhaseOK
<1>6. UNCHANGED <<count, counter>> /\ Drop(s, <<"commit", c>>)
  BY <1>2, <1>4 DEF loopVars
<1>7. /\ PooledOK' /\ owners'[s] = owners[s] \ {<<"commit", c>>}
      /\ \A x \in Semaphores : x # s => owners'[x] = owners[x]
  BY <1>4, <1>5, <1>6, DropKeeps
<1>8. TypeOK'
  <2>1. owners' \in [Semaphores -> SUBSET Owner] /\ recycledSems' \in Seq(Semaphores)
    BY <1>1, <1>6, DropTyped
  <2>2. phase' \in [Commands -> Phases]
    BY <1>1, <1>2 DEF TypeOK, Phases
  <2> QED BY <1>1, <1>2, <2>1, <2>2 DEF TypeOK
<1>9. TenantOK' /\ GpuOK'
  <2>1. \A x \in Semaphores : \A o \in owners'[x] : o \in owners[x] /\ Of(o)' = Of(o)
    BY <1>2, <1>7 DEF Of
  <2> QED BY <1>2, <1>6, <2>1, TenantsKept
<1>10. \A d \in Commands : (Active(d)' <=> Active(d)) /\ (Published(d)' <=> Published(d))
  BY <1>2, <1>3 DEF Active, Published
<1>11. LoopTyped' /\ ScheduledOK' /\ EntriesOK' /\ ReadyOK'
  BY <1>2, <1>10, FlightKept
<1>12. PhasesOK'
  <2>1. ASSUME NEW d \in Commands PROVE PhaseOK(d)'
    <3>1. PhaseOK(d) /\ (InGpu(d)' <=> InGpu(d)) /\ (phase'[d] \in {"open", "locked"} <=> phase[d] \in {"open", "locked"})
      BY <1>1, <1>2, <1>3 DEF PhasesOK, InGpu
    <3> QED BY <1>2, <1>10, <3>1 DEF PhaseOK
  <2> QED BY <2>1 DEF PhasesOK
<1>13. SpentOK' /\ CommandPoolsOK' /\ SerialsOK'
  BY <1>2 DEF IInv, SpentOK, CommandPoolsOK, SerialsOK, SerialsInExecutionOrder
<1>14. PollOK'
  BY <1>2 DEF IInv, PollOK, HoldsPolling, InGpu, loopVars, sharedVars, localVars
<1>15. ReadersOK'
  <2>1. \A r \in Readers : reader[r] # None => reader[r].cmd \in Commands
    BY <1>1 DEF TypeOK, Handle, Read
  <2> QED BY <1>1, <1>2, <1>10, <2>1 DEF ReadersOK
<1>16. OwnersOK'
  <2>1. ASSUME NEW x \in Semaphores, NEW d \in Commands
        PROVE  /\ <<"commit", d>> \in owners'[x] <=> timeline'[d] = x /\ phase'[d] \in {"submitted", "presenting"}
               /\ <<"command", d>> \in owners'[x] <=> timeline'[d] = x /\ ~completed'[d]
               /\ <<"closure", d>> \in owners'[x] <=> timeline'[d] = x /\ (~completed'[d] \/ InSpent(d)')
    <3>1. InSpent(d)' <=> InSpent(d)
      BY <1>2 DEF InSpent
    <3>2. /\ <<"commit", d>> \in owners[x] <=> timeline[d] = x /\ phase[d] \in {"submitted", "presenting"}
          /\ <<"command", d>> \in owners[x] <=> timeline[d] = x /\ ~completed[d]
          /\ <<"closure", d>> \in owners[x] <=> timeline[d] = x /\ (~completed[d] \/ InSpent(d))
      BY <1>1 DEF OwnersOK
    <3>3. /\ <<"command", d>> \in owners'[x] <=> <<"command", d>> \in owners[x]
          /\ <<"closure", d>> \in owners'[x] <=> <<"closure", d>> \in owners[x]
          /\ <<"commit", d>> \in owners'[x] <=> <<"commit", d>> \in owners[x] /\ ~(x = s /\ d = c)
      BY <1>7
    <3>4. <<"commit", d>> \in owners'[x] <=> timeline'[d] = x /\ phase'[d] \in {"submitted", "presenting"}
      BY <1>2, <1>3, <1>4, <3>2, <3>3
    <3> QED BY <1>2, <3>1, <3>2, <3>3, <3>4
  <2>2. ASSUME NEW x \in Semaphores, NEW r \in Readers
        PROVE  <<"reader", r>> \in owners'[x] <=> reader'[r] # None /\ reader'[r].sem = x
    <3>1. <<"reader", r>> \in owners[x] <=> reader[r] # None /\ reader[r].sem = x
      BY <1>1 DEF OwnersOK
    <3> QED BY <1>2, <1>7, <3>1
  <2> QED BY <2>1, <2>2 DEF OwnersOK
<1> QED BY <1>7, <1>8, <1>9, <1>11, <1>12, <1>13, <1>14, <1>15, <1>16 DEF IInv

\* A poll that returns destroys its closures.
LEMMA DestroyInv == ASSUME IInv, NEW p \in Pollers, DestroyClosure(p) PROVE IInv'
<1> USE DEF commandVars, poolVars, semVars, doneVars, serialVars, waitVars
<1>1. TypeOK /\ LoopTyped /\ PhasesOK /\ OwnersOK /\ ReadersOK /\ SpentOK /\ PollOK
  BY DEF IInv
<1>2. /\ UNCHANGED <<loopVars, commandVars, poolVars, timeline, count, doneVars, gpuQueue, scheduledQueue>>
      /\ UNCHANGED <<serialVars, waitVars>>
      /\ pollPc[p] = "run" /\ spent[p] # <<>> /\ spent' = [spent EXCEPT ![p] = Tail(@)]
      /\ Drop(timeline[Head(spent[p])], <<"closure", Head(spent[p])>>)
  BY DEF DestroyClosure
<1>3. spent \in [Pollers -> Seq(Commands)] /\ spent[p] \in Seq(Commands)
  BY <1>1 DEF TypeOK
<1>4. PICK c \in Commands : c = Head(spent[p]) /\ c = spent[p][1]
  BY <1>2, <1>3, TailFacts
<1>5. /\ spent'[p] = Tail(spent[p]) /\ Tail(spent[p]) \in Seq(Commands) /\ 1 \in 1..Len(spent[p])
      /\ \A i \in 1..Len(spent'[p]) :
           \E k \in 1..Len(spent[p]) : k # 1 /\ k = i + 1 /\ i \in Nat /\ spent'[p][i] = spent[p][k]
      /\ \A i \in 1..Len(spent[p]) : i # 1 => \E j \in 1..Len(spent'[p]) : spent'[p][j] = spent[p][i]
      /\ \A q \in Pollers : q # p => spent[q] = <<>> /\ spent'[q] = <<>>
  <2>1. spent'[p] = Tail(spent[p]) /\ \A q \in Pollers : q # p => spent'[q] = spent[q]
    BY <1>2, <1>3
  <2>2. \A q \in Pollers : q # p => spent[q] = <<>>
    BY <1>1, <1>2 DEF PollOK, HoldsPolling
  <2>3. /\ Tail(spent[p]) \in Seq(Commands) /\ Len(Tail(spent[p])) = Len(spent[p]) - 1 /\ Len(spent[p]) \in Nat
        /\ 1 \in 1..Len(spent[p])
        /\ \A i \in 1..Len(Tail(spent[p])) :
             i \in Nat /\ i + 1 \in 1..Len(spent[p]) /\ i + 1 # 1 /\ Tail(spent[p])[i] = spent[p][i + 1]
    BY <1>2, <1>3, TailFacts
  <2>4. ASSUME NEW i \in 1..Len(spent[p]), i # 1 PROVE \E j \in 1..Len(spent'[p]) : spent'[p][j] = spent[p][i]
    <3>1. i - 1 \in 1..Len(spent'[p]) /\ (i - 1) + 1 = i
      BY <2>1, <2>3, <2>4
    <3>2. spent'[p][i - 1] = spent[p][(i - 1) + 1]
      BY <2>1, <2>3, <3>1
    <3> QED BY <3>1, <3>2
  <2> QED BY <2>1, <2>2, <2>3, <2>4
<1>6. \A i, j \in 1..Len(spent[p]) : spent[p][j] = spent[p][i] => j = i
  BY <1>1 DEF SpentOK
<1>7. completed[c] /\ InSpent(c) /\ Active(c) /\ ~InGpu(c)
  BY <1>1, <1>4, <1>5 DEF SpentOK, InSpent, PhasesOK, PhaseOK, Published, Active
<1>8. ~InSpent(c)' /\ \A d \in Commands : d # c => (InSpent(d)' <=> InSpent(d))
  <2>1. ~InSpent(c)'
    <3> SUFFICES ASSUME NEW q \in Pollers, NEW i \in 1..Len(spent'[q]), spent'[q][i] = c PROVE FALSE
      BY DEF InSpent
    <3>1. q = p
      BY <1>5
    <3>2. PICK k \in 1..Len(spent[p]) : k # 1 /\ spent'[p][i] = spent[p][k]
      BY <1>5, <3>1
    <3> QED BY <1>4, <1>5, <1>6, <3>1, <3>2
  <2>2. ASSUME NEW d \in Commands, d # c, InSpent(d) PROVE InSpent(d)'
    <3>0. PICK q \in Pollers : \E i \in 1..Len(spent[q]) : spent[q][i] = d
      BY <2>2 DEF InSpent
    <3>1. PICK i \in 1..Len(spent[q]) : spent[q][i] = d
      BY <3>0
    <3>2. q = p /\ i # 1
      BY <1>4, <1>5, <2>2, <3>1
    <3>3. \E j \in 1..Len(spent'[p]) : spent'[p][j] = spent[p][i]
      BY <1>5, <3>1, <3>2
    <3> QED BY <3>1, <3>2, <3>3 DEF InSpent
  <2>3. ASSUME NEW d \in Commands, InSpent(d)' PROVE InSpent(d)
    <3>0. PICK q \in Pollers : \E i \in 1..Len(spent'[q]) : spent'[q][i] = d
      BY <2>3 DEF InSpent
    <3>1. PICK i \in 1..Len(spent'[q]) : spent'[q][i] = d
      BY <3>0
    <3>2. q = p
      BY <1>5, <3>1
    <3>3. PICK k \in 1..Len(spent[p]) : spent'[p][i] = spent[p][k]
      BY <1>5, <3>1, <3>2
    <3> QED BY <3>1, <3>2, <3>3 DEF InSpent
  <2> QED BY <2>1, <2>2, <2>3
<1>9. PICK s \in Semaphores : s = timeline[c] /\ <<"closure", c>> \in owners[s]
  BY <1>1, <1>7, TimelineTyped DEF OwnersOK
<1>10. Drop(s, <<"closure", c>>) /\ UNCHANGED <<count, counter>> /\ Of(<<"closure", c>>) = c
  BY <1>2, <1>4, <1>9 DEF loopVars, Of
<1>11. /\ PooledOK' /\ owners'[s] = owners[s] \ {<<"closure", c>>}
       /\ \A x \in Semaphores : x # s => owners'[x] = owners[x]
  BY <1>7, <1>9, <1>10, DropKeeps
<1>12. TypeOK'
  <2>1. owners' \in [Semaphores -> SUBSET Owner] /\ recycledSems' \in Seq(Semaphores)
    BY <1>1, <1>10, DropTyped
  <2>2. spent' \in [Pollers -> Seq(Commands)]
    BY <1>2, <1>3, <1>5
  <2> QED BY <1>1, <1>2, <2>1, <2>2 DEF TypeOK
<1>13. TenantOK' /\ GpuOK'
  <2>1. \A x \in Semaphores : \A o \in owners'[x] : o \in owners[x] /\ Of(o)' = Of(o)
    BY <1>2, <1>11 DEF Of
  <2> QED BY <1>2, <1>10, <2>1, TenantsKept
<1>14. LoopTyped' /\ ScheduledOK' /\ EntriesOK' /\ ReadyOK'
  BY <1>2, FlightKept DEF Published
<1>15. PhasesOK' /\ ReadersOK' /\ CommandPoolsOK' /\ SerialsOK'
  <2>1. PhasesOK'
    BY <1>1, <1>2 DEF PhasesOK, PhaseOK, Active, Published, InGpu
  <2>2. ReadersOK' /\ CommandPoolsOK'
    BY <1>2 DEF IInv, ReadersOK, Published, CommandPoolsOK
  <2>3. SerialsOK'
    BY <1>2 DEF IInv, SerialsOK, SerialsInExecutionOrder
  <2> QED BY <2>1, <2>2, <2>3
<1>16. SpentOK'
  <2>1. ASSUME NEW q \in Pollers, NEW i \in 1..Len(spent'[q])
        PROVE  completed'[spent'[q][i]] /\ \A j \in 1..Len(spent'[q]) : spent'[q][j] = spent'[q][i] => j = i
    <3>1. q = p
      BY <1>5
    <3>2. PICK k \in 1..Len(spent[p]) : k = i + 1 /\ i \in Nat /\ spent'[p][i] = spent[p][k]
      BY <1>5, <3>1
    <3>3. completed'[spent'[q][i]]
      BY <1>1, <1>2, <3>1, <3>2 DEF SpentOK
    <3>4. ASSUME NEW j \in 1..Len(spent'[q]), spent'[q][j] = spent'[q][i] PROVE j = i
      <4>1. PICK l \in 1..Len(spent[p]) : l = j + 1 /\ j \in Nat /\ spent'[p][j] = spent[p][l]
        BY <1>5, <3>1
      <4>2. k = l
        BY <1>6, <3>1, <3>2, <3>4, <4>1
      <4> QED BY <3>2, <4>1, <4>2
    <3> QED BY <3>3, <3>4
  <2> QED BY <2>1 DEF SpentOK
<1>17. PollOK'
  <2>1. UNCHANGED <<entries, pollPc, snapshot, scan, readyIndices, ready, gpuQueue>>
    BY <1>2 DEF loopVars, sharedVars, localVars
  <2>2. \A q \in Pollers : pollPc[q] # "run" => ready[q] = <<>> /\ spent'[q] = <<>>
    BY <1>1, <1>2, <1>5 DEF PollOK
  <2> QED BY <1>1, <2>1, <2>2 DEF PollOK, HoldsPolling, InGpu
<1>18. OwnersOK'
  <2>1. ASSUME NEW x \in Semaphores, NEW d \in Commands
        PROVE  /\ <<"commit", d>> \in owners'[x] <=> timeline'[d] = x /\ phase'[d] \in {"submitted", "presenting"}
               /\ <<"command", d>> \in owners'[x] <=> timeline'[d] = x /\ ~completed'[d]
               /\ <<"closure", d>> \in owners'[x] <=> timeline'[d] = x /\ (~completed'[d] \/ InSpent(d)')
    <3>1. /\ <<"commit", d>> \in owners[x] <=> timeline[d] = x /\ phase[d] \in {"submitted", "presenting"}
          /\ <<"command", d>> \in owners[x] <=> timeline[d] = x /\ ~completed[d]
          /\ <<"closure", d>> \in owners[x] <=> timeline[d] = x /\ (~completed[d] \/ InSpent(d))
      BY <1>1 DEF OwnersOK
    <3>2. /\ <<"command", d>> \in owners'[x] <=> <<"command", d>> \in owners[x]
          /\ <<"commit", d>> \in owners'[x] <=> <<"commit", d>> \in owners[x]
          /\ <<"closure", d>> \in owners'[x] <=> <<"closure", d>> \in owners[x] /\ ~(x = s /\ d = c)
      BY <1>11
    <3>3. <<"closure", d>> \in owners'[x] <=> timeline'[d] = x /\ (~completed'[d] \/ InSpent(d)')
      <4>1. CASE d = c
        BY <1>2, <1>7, <1>8, <1>9, <3>1, <3>2, <4>1
      <4>2. CASE d # c
        BY <1>2, <1>8, <3>1, <3>2, <4>2
      <4> QED BY <4>1, <4>2
    <3> QED BY <1>2, <3>1, <3>2, <3>3
  <2>2. ASSUME NEW x \in Semaphores, NEW r \in Readers
        PROVE  <<"reader", r>> \in owners'[x] <=> reader'[r] # None /\ reader'[r].sem = x
    <3>1. <<"reader", r>> \in owners[x] <=> reader[r] # None /\ reader[r].sem = x
      BY <1>1 DEF OwnersOK
    <3> QED BY <1>2, <1>11, <3>1
  <2> QED BY <2>1, <2>2 DEF OwnersOK
<1> QED BY <1>11, <1>12, <1>13, <1>14, <1>15, <1>16, <1>17, <1>18 DEF IInv

\* Everything else stays when only the readers and the owners change.
LEMMA ReaderFrame ==
  ASSUME IInv,
         UNCHANGED <<loopVars, commandVars, poolVars, timeline, count, doneVars, gpuQueue, scheduledQueue, spent>>,
         UNCHANGED <<serialVars, waitOn, asleep>>
  PROVE  /\ LoopTyped' /\ ScheduledOK' /\ EntriesOK' /\ ReadyOK' /\ PhasesOK' /\ CommandPoolsOK' /\ SerialsOK'
         /\ SpentOK' /\ PollOK'
         /\ \A x \in Semaphores, d \in Commands :
              /\ <<"commit", d>> \in owners[x] <=> timeline'[d] = x /\ phase'[d] \in {"submitted", "presenting"}
              /\ <<"command", d>> \in owners[x] <=> timeline'[d] = x /\ ~completed'[d]
              /\ <<"closure", d>> \in owners[x] <=> timeline'[d] = x /\ (~completed'[d] \/ InSpent(d)')
<1> USE DEF commandVars, poolVars, semVars, doneVars, serialVars
<1>1. LoopTyped' /\ ScheduledOK' /\ EntriesOK' /\ ReadyOK'
  BY FlightKept DEF Published
<1>2. PhasesOK'
  BY DEF IInv, PhasesOK, PhaseOK, Active, Published, InGpu
<1>3. CommandPoolsOK' /\ SerialsOK' /\ SpentOK'
  BY DEF IInv, CommandPoolsOK, SerialsOK, SerialsInExecutionOrder, SpentOK
<1>4. PollOK'
  BY DEF IInv, PollOK, HoldsPolling, InGpu, loopVars, sharedVars, localVars
<1>5. \A x \in Semaphores, d \in Commands :
        /\ <<"commit", d>> \in owners[x] <=> timeline'[d] = x /\ phase'[d] \in {"submitted", "presenting"}
        /\ <<"command", d>> \in owners[x] <=> timeline'[d] = x /\ ~completed'[d]
        /\ <<"closure", d>> \in owners[x] <=> timeline'[d] = x /\ (~completed'[d] \/ InSpent(d)')
  <2>1. timeline' = timeline /\ phase' = phase /\ completed' = completed
    OBVIOUS
  <2>2. \A d \in Commands : InSpent(d)' <=> InSpent(d)
    BY DEF InSpent
  <2>3. OwnersOK
    BY DEF IInv
  <2>4. \A x \in Semaphores, d \in Commands :
          /\ <<"commit", d>> \in owners[x] <=> timeline[d] = x /\ phase[d] \in {"submitted", "presenting"}
          /\ <<"command", d>> \in owners[x] <=> timeline[d] = x /\ ~completed[d]
          /\ <<"closure", d>> \in owners[x] <=> timeline[d] = x /\ (~completed[d] \/ InSpent(d))
    BY <2>3 DEF OwnersOK
  <2>5. ASSUME NEW x \in Semaphores, NEW d \in Commands
        PROVE  /\ <<"commit", d>> \in owners[x] <=> timeline'[d] = x /\ phase'[d] \in {"submitted", "presenting"}
               /\ <<"command", d>> \in owners[x] <=> timeline'[d] = x /\ ~completed'[d]
               /\ <<"closure", d>> \in owners[x] <=> timeline'[d] = x /\ (~completed'[d] \/ InSpent(d)')
    <3>1. InSpent(d)' <=> InSpent(d)
      BY <2>2
    <3> QED BY <2>1, <2>4, <3>1
  <2> QED BY <2>5
<1> QED BY <1>1, <1>2, <1>3, <1>4, <1>5

\* waitForGPU returns.
LEMMA ReadReturnInv == ASSUME IInv, NEW r \in Readers, ReadReturn(r) PROVE IInv'
<1> USE DEF commandVars, poolVars, semVars, doneVars, serialVars
<1>1. TypeOK /\ LoopTyped /\ PhasesOK /\ OwnersOK /\ ReadersOK /\ GpuOK
  BY DEF IInv
<1>2. /\ UNCHANGED <<loopVars, commandVars, poolVars, timeline, count, doneVars, gpuQueue, scheduledQueue, spent>>
      /\ UNCHANGED <<serialVars, waitOn, asleep>>
      /\ reader[r] # None /\ counter[reader[r].sem] >= reader[r].value
      /\ Drop(reader[r].sem, <<"reader", r>>) /\ reader' = [reader EXCEPT ![r] = None]
  BY DEF ReadReturn
<1>3. reader[r] \in Read /\ reader'[r] = None /\ \A q \in Readers : q # r => reader'[q] = reader[q]
  BY <1>1, <1>2 DEF TypeOK, Handle
<1>4. PICK s \in Semaphores : s = reader[r].sem /\ <<"reader", r>> \in owners[s]
  BY <1>1, <1>2, <1>3 DEF OwnersOK, Read
<1>5. ~InGpu(Of(<<"reader", r>>))
  <2>1. IF InGpu(Of(<<"reader", r>>)) THEN counter[s] < count[s] ELSE counter[s] = count[s]
    BY <1>1, <1>4 DEF GpuOK
  <2>2. counter[s] >= count[s]
    BY <1>1, <1>2, <1>4 DEF ReadersOK
  <2>3. counter[s] \in Nat /\ count[s] \in Nat
    BY <1>1 DEF TypeOK, LoopTyped
  <2> QED BY <2>1, <2>2, <2>3
<1>6. Drop(s, <<"reader", r>>) /\ UNCHANGED <<count, counter>>
  BY <1>2, <1>4 DEF loopVars
<1>7. /\ PooledOK' /\ owners'[s] = owners[s] \ {<<"reader", r>>}
      /\ \A x \in Semaphores : x # s => owners'[x] = owners[x]
  BY <1>4, <1>5, <1>6, DropKeeps
<1>8. TypeOK'
  <2>1. owners' \in [Semaphores -> SUBSET Owner] /\ recycledSems' \in Seq(Semaphores)
    BY <1>1, <1>6, DropTyped
  <2>2. reader' \in [Readers -> Handle(Read)]
    BY <1>1, <1>2 DEF TypeOK, Handle
  <2> QED BY <1>1, <1>2, <2>1, <2>2 DEF TypeOK
<1>9. TenantOK' /\ GpuOK'
  <2>1. \A x \in Semaphores : x # s => <<"reader", r>> \notin owners[x]
    BY <1>1, <1>4 DEF OwnersOK
  <2>2. ASSUME NEW x \in Semaphores, NEW o \in owners'[x] PROVE o \in owners[x] /\ Of(o)' = Of(o)
    <3>1. o \in owners[x] /\ o # <<"reader", r>>
      BY <1>7, <2>1
    <3>2. o \in Owner
      BY <1>1, <3>1 DEF TypeOK
    <3>3. ASSUME NEW q \in Readers, o = <<"reader", q>> PROVE Of(o)' = Of(o)
      BY <1>3, <3>1, <3>3 DEF Of
    <3>4. ASSUME NEW k \in {"command", "commit", "closure"}, NEW d \in Commands, o = <<k, d>> PROVE Of(o)' = Of(o)
      BY <3>4 DEF Of
    <3> QED BY <3>1, <3>2, <3>3, <3>4 DEF Owner
  <2> QED BY <1>2, <1>6, <2>2, TenantsKept
<1>10. ReadersOK'
  BY <1>1, <1>2, <1>3 DEF ReadersOK, Published
<1>11. OwnersOK'
  <2>1. ASSUME NEW x \in Semaphores, NEW d \in Commands
        PROVE  /\ <<"commit", d>> \in owners'[x] <=> timeline'[d] = x /\ phase'[d] \in {"submitted", "presenting"}
               /\ <<"command", d>> \in owners'[x] <=> timeline'[d] = x /\ ~completed'[d]
               /\ <<"closure", d>> \in owners'[x] <=> timeline'[d] = x /\ (~completed'[d] \/ InSpent(d)')
    <3>1. \A k \in {"command", "commit", "closure"} : <<k, d>> \in owners'[x] <=> <<k, d>> \in owners[x]
      BY <1>7
    <3> QED BY <1>2, <3>1, ReaderFrame
  <2>2. ASSUME NEW x \in Semaphores, NEW q \in Readers
        PROVE  <<"reader", q>> \in owners'[x] <=> reader'[q] # None /\ reader'[q].sem = x
    <3>1. <<"reader", q>> \in owners[x] <=> reader[q] # None /\ reader[q].sem = x
      BY <1>1 DEF OwnersOK
    <3> QED BY <1>3, <1>4, <1>7, <3>1
  <2> QED BY <2>1, <2>2 DEF OwnersOK
<1> QED BY <1>2, <1>7, <1>8, <1>9, <1>10, <1>11, ReaderFrame DEF IInv

\* waitForGPU shares the semaphore of a command that has not completed.
LEMMA ReadBeginInv == ASSUME IInv, NEW r \in Readers, NEW c \in Commands, ReadBegin(r, c) PROVE IInv'
<1> USE DEF commandVars, poolVars, semVars, doneVars, serialVars
<1>1. TypeOK /\ LoopTyped /\ PhasesOK /\ OwnersOK /\ TenantOK /\ ReadersOK /\ GpuOK /\ PooledOK
  BY DEF IInv
<1>2. /\ UNCHANGED <<loopVars, commandVars, poolVars, timeline, count, doneVars, gpuQueue, scheduledQueue, spent>>
      /\ UNCHANGED <<serialVars, waitOn, asleep, recycledSems>>
      /\ reader[r] = None /\ Published(c) /\ ~completed[c]
      /\ owners' = [owners EXCEPT ![timeline[c]] = @ \cup {<<"reader", r>>}]
      /\ reader' = [reader EXCEPT ![r] = [cmd |-> c, sem |-> timeline[c], value |-> count[timeline[c]]]]
  BY DEF ReadBegin, Committed, MutexFree, Published
<1>3. PICK s \in Semaphores : s = timeline[c] /\ <<"command", c>> \in owners[s] /\ Of(<<"command", c>>) = c
  BY <1>1, <1>2, InFlightOwned DEF Published, Active
<1>4. PICK n \in Nat : n = count[s]
  BY <1>1 DEF TypeOK
<1>5. PICK v \in Read : v = [cmd |-> c, sem |-> s, value |-> n]
  <2>1. [cmd |-> c, sem |-> s, value |-> n] \in Read
    BY DEF Read
  <2> QED BY <2>1
<1>6. /\ reader'[r] = v /\ v.cmd = c /\ v.sem = s /\ v.value = n /\ v # None
      /\ \A q \in Readers : q # r => reader'[q] = reader[q]
      /\ owners'[s] = owners[s] \cup {<<"reader", r>>} /\ \A x \in Semaphores : x # s => owners'[x] = owners[x]
  BY <1>1, <1>2, <1>3, <1>4, <1>5, CommandBufferAssumption DEF TypeOK
<1>7. TypeOK'
  <2>1. owners' \in [Semaphores -> SUBSET Owner]
    <3>1. <<"reader", r>> \in Owner /\ owners \in [Semaphores -> SUBSET Owner]
      BY <1>1 DEF Owner, TypeOK
    <3> HIDE DEF Owner
    <3> QED BY <1>2, <1>3, <3>1
  <2>2. reader' \in [Readers -> Handle(Read)]
    <3>1. reader' = [reader EXCEPT ![r] = v] /\ reader \in [Readers -> Handle(Read)] /\ v \in Handle(Read)
      BY <1>1, <1>2, <1>3, <1>4, <1>5 DEF TypeOK, Handle
    <3> QED BY <3>1
  <2> QED BY <1>1, <1>2, <2>1, <2>2 DEF TypeOK
<1>8. \A x \in Semaphores : <<"reader", r>> \notin owners[x]
  BY <1>1, <1>2 DEF OwnersOK
<1>9. ASSUME NEW x \in Semaphores, NEW o \in owners[x] PROVE Of(o)' = Of(o)
  <2>1. o \in Owner /\ o # <<"reader", r>>
    BY <1>1, <1>8 DEF TypeOK
  <2>2. ASSUME NEW q \in Readers, o = <<"reader", q>> PROVE Of(o)' = Of(o)
    BY <1>6, <2>1, <2>2 DEF Of
  <2>3. ASSUME NEW k \in {"command", "commit", "closure"}, NEW d \in Commands, o = <<k, d>> PROVE Of(o)' = Of(o)
    BY <2>3 DEF Of
  <2> QED BY <2>1, <2>2, <2>3 DEF Owner
<1>10. \A o \in owners'[s] : Of(o)' = c
  <2>1. Of(<<"reader", r>>)' = c
    BY <1>6 DEF Of
  <2>2. \A o \in owners[s] : Of(o) = c
    BY <1>1, <1>3 DEF TenantOK
  <2> QED BY <1>6, <1>9, <2>1, <2>2
<1>11. TenantOK'
  <2>1. ASSUME NEW x \in Semaphores, NEW o \in owners'[x], NEW y \in owners'[x] PROVE Of(o)' = Of(y)'
    <3>1. CASE x = s
      BY <1>10, <3>1
    <3>2. CASE x # s
      BY <1>1, <1>6, <1>9, <3>2 DEF TenantOK
    <3> QED BY <3>1, <3>2
  <2> QED BY <2>1 DEF TenantOK
<1>12. GpuOK'
  <2>1. UNCHANGED <<gpuQueue, timeline, count, counter>>
    BY <1>2 DEF loopVars
  <2>2. ASSUME NEW x \in Semaphores, NEW o \in owners'[x]
        PROVE  IF InGpu(Of(o))' THEN counter'[x] < count'[x] ELSE counter'[x] = count'[x]
    <3>1. PICK y \in owners[x] : Of(o)' = Of(y)
      BY <1>3, <1>6, <1>9, <1>10
    <3>2. PICK d : d = Of(y) /\ d = Of(o)'
      BY <3>1
    <3>3. IF InGpu(d) THEN counter[x] < count[x] ELSE counter[x] = count[x]
      BY <1>1, <3>2 DEF GpuOK
    <3>4. InGpu(Of(o))' <=> InGpu(d)
      BY <2>1, <3>2 DEF InGpu
    <3> QED BY <2>1, <3>3, <3>4
  <2> QED BY <1>1, <2>1, <2>2 DEF GpuOK
<1>13. ReadersOK'
  <2>1. ASSUME NEW q \in Readers, reader'[q] # None
        PROVE  /\ Published(reader[q].cmd)'
               /\ reader'[q].sem = timeline'[reader'[q].cmd] /\ reader'[q].value = count'[reader'[q].sem]
    <3>1. CASE q = r
      BY <1>2, <1>3, <1>4, <1>6, <3>1 DEF Published
    <3>2. CASE q # r
      BY <1>1, <1>2, <1>6, <2>1, <3>2 DEF ReadersOK, Published
    <3> QED BY <3>1, <3>2
  <2> QED BY <2>1 DEF ReadersOK
<1>14. PooledOK'
  <2>1. recycledSems \in Seq(Semaphores) /\ count' = count /\ counter' = counter
    BY <1>1, <1>2 DEF TypeOK, loopVars
  <2>2. \A i \in 1..Len(recycledSems) : recycledSems[i] \in Semaphores
    BY <2>1
  <2>3. \A i \in 1..Len(recycledSems) : owners'[recycledSems[i]] = {}
    BY <1>1, <1>3, <1>6, <2>2 DEF PooledOK
  <2> QED BY <1>1, <1>2, <2>1, <2>3 DEF PooledOK
<1>15. OwnersOK'
  <2>1. ASSUME NEW x \in Semaphores, NEW d \in Commands
        PROVE  /\ <<"commit", d>> \in owners'[x] <=> timeline'[d] = x /\ phase'[d] \in {"submitted", "presenting"}
               /\ <<"command", d>> \in owners'[x] <=> timeline'[d] = x /\ ~completed'[d]
               /\ <<"closure", d>> \in owners'[x] <=> timeline'[d] = x /\ (~completed'[d] \/ InSpent(d)')
    <3>1. \A k \in {"command", "commit", "closure"} : <<k, d>> \in owners'[x] <=> <<k, d>> \in owners[x]
      BY <1>6
    <3> QED BY <1>2, <3>1, ReaderFrame
  <2>2. ASSUME NEW x \in Semaphores, NEW q \in Readers
        PROVE  <<"reader", q>> \in owners'[x] <=> reader'[q] # None /\ reader'[q].sem = x
    <3>1. <<"reader", q>> \in owners[x] <=> reader[q] # None /\ reader[q].sem = x
      BY <1>1 DEF OwnersOK
    <3> QED BY <1>2, <1>6, <3>1
  <2> QED BY <2>1, <2>2 DEF OwnersOK
<1> QED BY <1>2, <1>7, <1>11, <1>12, <1>13, <1>14, <1>15, ReaderFrame DEF IInv

-----------------------------------------------------------------------------
(* The completion closure runs *)

LEMMA CompletedInv == ASSUME IInv, NEW p \in Pollers, CompletedCallback(p) PROVE IInv'
<1> USE DEF commandVars, poolVars, semVars, doneVars, serialVars, waitVars
<1>1. /\ TypeOK /\ LoopTyped /\ PhasesOK /\ ScheduledOK /\ EntriesOK /\ ReadyOK /\ SpentOK /\ PollOK /\ OwnersOK
      /\ ReadersOK /\ CommandPoolsOK
  BY DEF IInv
<1>2. /\ pollPc[p] = "run" /\ ready[p] # <<>> /\ ready' = [ready EXCEPT ![p] = Tail(@)]
      /\ UNCHANGED <<sharedVars, pollPc, snapshot, snapWake, scan, readyIndices, counter>>
      /\ UNCHANGED <<phase, scheduledHandlers, completedHandlers, drawables, timeline, count, gpuQueue>>
      /\ UNCHANGED <<scheduledQueue, serialVars, waitOn, reader>>
      /\ spent' = [spent EXCEPT ![p] = Append(@, Head(ready[p]).cb)]
  BY DEF CompletedCallback, PollCallback
<1>3. ready \in [Pollers -> Seq(Entry)] /\ ready[p] \in Seq(Entry) /\ spent \in [Pollers -> Seq(Commands)]
      /\ spent[p] \in Seq(Commands)
  BY <1>1 DEF LoopTyped, TypeOK
<1>4. /\ ready'[p] \in Seq(Entry) /\ 1 \in 1..Len(ready[p]) /\ Head(ready[p]) = ready[p][1] /\ ready[p][1] \in Entry
      /\ \A i \in 1..Len(ready'[p]) :
           \E k \in 1..Len(ready[p]) : k # 1 /\ k = i + 1 /\ i \in Nat /\ ready'[p][i] = ready[p][k]
      /\ \A q \in Pollers : q # p => ready[q] = <<>> /\ ready'[q] = <<>>
  <2>1. ready'[p] = Tail(ready[p]) /\ \A q \in Pollers : q # p => ready'[q] = ready[q]
    BY <1>2, <1>3
  <2>2. \A q \in Pollers : q # p => ready[q] = <<>>
    BY <1>1, <1>2 DEF PollOK, HoldsPolling
  <2>3. /\ Tail(ready[p]) \in Seq(Entry) /\ 1 \in 1..Len(ready[p]) /\ Head(ready[p]) = ready[p][1]
        /\ Head(ready[p]) \in Entry
        /\ \A i \in 1..Len(Tail(ready[p])) :
             i \in Nat /\ i + 1 \in 1..Len(ready[p]) /\ i + 1 # 1 /\ Tail(ready[p])[i] = ready[p][i + 1]
    BY <1>2, <1>3, TailFacts
  <2>4. \A i \in 1..Len(ready'[p]) :
          \E k \in 1..Len(ready[p]) : k # 1 /\ k = i + 1 /\ i \in Nat /\ ready'[p][i] = ready[p][k]
    BY <2>1, <2>3
  <2> QED BY <2>1, <2>2, <2>3, <2>4
<1>5. PICK e \in Entry : e = Head(ready[p]) /\ e = ready[p][1]
  BY <1>4
<1>6. PICK c \in Commands : c = Head(ready[p]).cb /\ c = e.cb
  BY <1>1, <1>5, QueuedCommands
<1>7. /\ MutexFree(c) /\ RecycleCommandPool(c) /\ completed' = [completed EXCEPT ![c] = TRUE]
      /\ Drop(timeline[c], <<"command", c>>)
      /\ encoders' = [encoders EXCEPT ![c] = IF @ = "held" THEN "work" ELSE @]
      /\ IF completedHandlers[c] = 0 /\ encoders[c] = "none"
         THEN FinishCompletedHandlers(c) /\ UNCHANGED completionWork
         ELSE completionWork' = completionWork \cup {c} /\ UNCHANGED <<handlersCompleted, asleep>>
  BY <1>6 DEF CompletedCallback
<1>8. /\ Armed(e) /\ Waits(c) /\ Published(c) /\ Active(c) /\ ~completed[c] /\ scheduledHandlers[c] = 0 /\ ~InGpu(c)
      /\ ~InScheduled(c) /\ ~InEntries(c)
  BY <1>1, <1>4, <1>5, <1>6 DEF ReadyOK, Armed, Waits, Published, Active
<1>9. /\ completed'[c] = TRUE /\ \A d \in Commands : d # c => completed'[d] = completed[d]
  BY <1>1, <1>7 DEF TypeOK
<1>10. PICK s \in Semaphores : s = timeline[c] /\ <<"command", c>> \in owners[s] /\ <<"closure", c>> \in owners[s]
                               /\ Of(<<"command", c>>) = c
  BY <1>1, <1>8, InFlightOwned
<1>11. /\ PooledOK' /\ owners'[s] = owners[s] \ {<<"command", c>>}
       /\ \A x \in Semaphores : x # s => owners'[x] = owners[x]
  <2>1. Drop(s, <<"command", c>>) /\ UNCHANGED <<count, counter>>
    BY <1>2, <1>7, <1>10
  <2> QED BY <1>8, <1>10, <2>1, DropKeeps
<1>12. TenantOK' /\ GpuOK'
  <2>1. \A x \in Semaphores : \A o \in owners'[x] : o \in owners[x] /\ Of(o)' = Of(o)
    BY <1>2, <1>11 DEF Of
  <2> QED BY <1>2, <2>1, TenantsKept
<1>13. /\ spent' \in [Pollers -> Seq(Commands)] /\ Len(spent[p]) \in Nat /\ Len(spent'[p]) = Len(spent[p]) + 1
       /\ \A i \in 1..Len(spent[p]) : spent'[p][i] = spent[p][i]
       /\ spent'[p][Len(spent[p]) + 1] = c
       /\ \A i \in 1..(Len(spent[p]) + 1) : i \in 1..Len(spent[p]) \/ i = Len(spent[p]) + 1
       /\ Len(spent[p]) + 1 \in 1..Len(spent'[p])
       /\ \A i \in 1..Len(spent[p]) : i \in 1..Len(spent'[p])
       /\ \A q \in Pollers : q # p => spent[q] = <<>> /\ spent'[q] = <<>>
  <2>1. spent'[p] = Append(spent[p], c) /\ \A q \in Pollers : q # p => spent'[q] = spent[q]
    BY <1>2, <1>3, <1>6
  <2>2. \A q \in Pollers : q # p => spent[q] = <<>>
    BY <1>1, <1>2 DEF PollOK, HoldsPolling
  <2>3. /\ Append(spent[p], c) \in Seq(Commands) /\ Len(spent[p]) \in Nat /\ Len(spent'[p]) = Len(spent[p]) + 1
        /\ \A i \in 1..Len(spent[p]) : spent'[p][i] = spent[p][i]
        /\ spent'[p][Len(spent[p]) + 1] = c
        /\ \A i \in 1..(Len(spent[p]) + 1) : i \in 1..Len(spent[p]) \/ i = Len(spent[p]) + 1
    BY <1>3, <2>1, AppendFacts
  <2>4. Len(spent[p]) + 1 \in 1..Len(spent'[p]) /\ \A i \in 1..Len(spent[p]) : i \in 1..Len(spent'[p])
    BY <2>3
  <2>5. spent' \in [Pollers -> Seq(Commands)]
    BY <1>2, <1>3, <1>6, <2>3
  <2> QED BY <2>1, <2>2, <2>3, <2>4, <2>5
<1>14. InSpent(c)' /\ \A d \in Commands : d # c => (InSpent(d)' <=> InSpent(d))
  <2>1. InSpent(c)'
    BY <1>13 DEF InSpent
  <2>2. ASSUME NEW d \in Commands, d # c, InSpent(d) PROVE InSpent(d)'
    <3>1. PICK q \in Pollers : \E i \in 1..Len(spent[q]) : spent[q][i] = d
      BY <2>2 DEF InSpent
    <3>2. q = p
      BY <1>13, <3>1
    <3>3. \E i \in 1..Len(spent'[p]) : spent'[p][i] = d
      BY <1>13, <3>1, <3>2
    <3> QED BY <3>3 DEF InSpent
  <2>3. ASSUME NEW d \in Commands, d # c, InSpent(d)' PROVE InSpent(d)
    <3>1. PICK q \in Pollers : \E i \in 1..Len(spent'[q]) : spent'[q][i] = d
      BY <2>3 DEF InSpent
    <3>2. q = p
      BY <1>13, <3>1
    <3>3. \E i \in 1..Len(spent[p]) : spent[p][i] = d
      BY <1>13, <2>3, <3>1, <3>2
    <3> QED BY <3>3 DEF InSpent
  <2> QED BY <2>1, <2>2, <2>3
<1>15. /\ completionWork' \subseteq completionWork \cup {c} /\ asleep' \subseteq asleep
       /\ handlersCompleted' \in [Commands -> BOOLEAN]
       /\ \A d \in Commands : d # c => handlersCompleted'[d] = handlersCompleted[d] /\ encoders'[d] = encoders[d]
       /\ handlersCompleted'[c] => handlersCompleted[c] \/ (completedHandlers[c] = 0 /\ encoders[c] = "none")
       /\ encoders' \in [Commands -> {"none", "held", "work"}] /\ (encoders[c] = "none" => encoders'[c] = "none")
  BY <1>1, <1>7 DEF FinishCompletedHandlers, TypeOK
<1>16. TypeOK'
  <2>1. owners' \in [Semaphores -> SUBSET Owner] /\ recycledSems' \in Seq(Semaphores)
    BY <1>1, <1>7, <1>10, DropTyped
  <2>2. pool' \in [Commands -> Handle(Pools)] /\ recycledCommands' \in Seq(Pools)
    BY <1>1, <1>7, RecycleTyped
  <2>3. completed' \in [Commands -> BOOLEAN] /\ completionWork' \subseteq Commands /\ asleep' \subseteq Waiters
    BY <1>1, <1>7, <1>15 DEF TypeOK
  <2> QED BY <1>1, <1>2, <1>13, <1>15, <2>1, <2>2, <2>3 DEF TypeOK
<1>17. LoopTyped'
  <2>1. ready' \in [Pollers -> Seq(Entry)]
    BY <1>2, <1>3, <1>4
  <2> QED BY <1>1, <1>2, <2>1 DEF LoopTyped, sharedVars
<1>18. /\ \A d \in Commands : d # c => (Waits(d)' <=> Waits(d))
       /\ \A d \in Commands : /\ Published(d)' <=> Published(d) 
                              /\ Active(d)' <=> Active(d)
                              /\ InGpu(d)' <=> InGpu(d)
                              /\ InScheduled(d)' <=> InScheduled(d)
                              /\ InEntries(d)' <=> InEntries(d)
  BY <1>2, <1>9 DEF Waits, Published, Active, InGpu, InScheduled, InEntries, sharedVars
<1>19. PhasesOK'
  <2>1. pool'[c] = None /\ \A d \in Commands : d # c => pool'[d] = pool[d]
    BY <1>1, <1>7 DEF RecycleCommandPool, TypeOK
  <2>2. PhaseOK(c)'
    <3>1. PhaseOK(c) /\ ~handlersCompleted[c] /\ phase[c] \notin {"open", "locked"}
      BY <1>1, <1>8 DEF PhasesOK, PhaseOK, Published
    <3> QED BY <1>2, <1>8, <1>9, <1>15, <1>18, <2>1, <3>1 DEF PhaseOK
  <2>3. ASSUME NEW d \in Commands, d # c PROVE PhaseOK(d)'
    <3>1. PhaseOK(d) /\ (d \in completionWork' => d \in completionWork)
      BY <1>1, <1>15, <2>3 DEF PhasesOK
    <3> QED BY <1>2, <1>9, <1>15, <1>18, <2>1, <2>3, <3>1 DEF PhaseOK
  <2> QED BY <2>2, <2>3 DEF PhasesOK
<1>20. ScheduledOK'
  <2>1. \A i \in 1..Len(scheduledQueue) : scheduledQueue[i] \in Commands /\ scheduledQueue[i] # c
    BY <1>1, <1>8, QueuedCommands DEF InScheduled
  <2> QED BY <1>1, <1>2, <1>18, <2>1 DEF ScheduledOK
<1>21. ASSUME NEW x \in Entry, Armed(x), x.cb # c PROVE Armed(x)'
  BY <1>1, <1>2, <1>18, <1>21, QueuedCommands DEF Armed
<1>22. EntriesOK'
  <2>1. \A i \in 1..Len(entries) : entries[i] \in Entry /\ entries[i].cb \in Commands /\ entries[i].cb # c
    BY <1>1, <1>8, QueuedCommands DEF InEntries
  <2>2. entries' = entries
    BY <1>2 DEF sharedVars
  <2>3. \A i \in 1..Len(entries) : Armed(entries[i])' /\ ~InScheduled(entries[i].cb)'
    BY <1>1, <1>18, <1>21, <2>1, <2>2 DEF EntriesOK
  <2> QED BY <1>1, <2>2, <2>3 DEF EntriesOK
<1>23. ReadyOK'
  <2>1. \A i, j \in 1..Len(ready[p]) : ready[p][j].cb = ready[p][i].cb => j = i
    BY <1>1 DEF ReadyOK
  <2>2. ASSUME NEW q \in Pollers, NEW i \in 1..Len(ready'[q])
        PROVE  /\ Armed(ready[q][i])' /\ ~InGpu(ready[q][i].cb)'
               /\ ~InScheduled(ready[q][i].cb)' /\ ~InEntries(ready[q][i].cb)'
               /\ \A j \in 1..Len(ready'[q]) : ready'[q][j].cb = ready'[q][i].cb => j = i
    <3>1. q = p
      BY <1>4
    <3>2. PICK k \in 1..Len(ready[p]) : k # 1 /\ k = i + 1 /\ i \in Nat /\ ready'[p][i] = ready[p][k]
      BY <1>4, <3>1
    <3>3. PICK x \in Entry : x = ready[p][k] /\ x = ready'[q][i]
      BY <1>1, <3>1, <3>2, QueuedCommands
    <3>4. x.cb \in Commands /\ x.cb # c
      BY <1>1, <1>4, <1>5, <1>6, <2>1, <3>2, <3>3, QueuedCommands, SMTT(30)
    <3>5. Armed(x) /\ ~InGpu(x.cb) /\ ~InScheduled(x.cb) /\ ~InEntries(x.cb)
      BY <1>1, <3>3 DEF ReadyOK
    <3>6. Armed(x)' /\ ~InGpu(x.cb)' /\ ~InScheduled(x.cb)' /\ ~InEntries(x.cb)'
      BY <1>18, <1>21, <3>4, <3>5
    <3>7. ASSUME NEW j \in 1..Len(ready'[q]), ready'[q][j].cb = ready'[q][i].cb PROVE j = i
      <4>1. PICK l \in 1..Len(ready[p]) : l = j + 1 /\ j \in Nat /\ ready'[p][j] = ready[p][l]
        BY <1>4, <3>1
      <4>2. l = k
        BY <2>1, <3>1, <3>2, <3>7, <4>1
      <4> QED BY <3>2, <4>1, <4>2
    <3> QED BY <3>3, <3>6, <3>7 DEF Armed, Waits, Published, InGpu, InScheduled, InEntries
  <2> QED BY <2>2 DEF ReadyOK
<1>24. SpentOK'
  <2>1. \A i \in 1..Len(spent[p]) : completed[spent[p][i]] /\ spent[p][i] \in Commands /\ spent[p][i] # c
    BY <1>1, <1>8, QueuedCommands DEF SpentOK
  <2>2. \A i, j \in 1..Len(spent[p]) : spent[p][j] = spent[p][i] => j = i
    BY <1>1 DEF SpentOK
  <2>3. \A i \in 1..Len(spent'[p]) : completed'[spent'[p][i]]
    BY <1>9, <1>13, <2>1
  <2>4. \A i, j \in 1..Len(spent'[p]) : spent'[p][j] = spent'[p][i] => j = i
    BY <1>13, <2>1, <2>2
  <2>5. \A q \in Pollers : q # p => \A i \in 1..Len(spent'[q]) : FALSE
    BY <1>13
  <2> QED BY <2>3, <2>4, <2>5 DEF SpentOK
<1>25. PollOK'
  <2>1. UNCHANGED <<entries, pollPc, snapshot, scan, readyIndices, gpuQueue>>
    BY <1>2 DEF sharedVars
  <2>2. \A q \in Pollers : pollPc[q] # "run" => ready'[q] = <<>> /\ spent'[q] = <<>>
    BY <1>2, <1>4, <1>13
  <2> QED BY <1>1, <2>1, <2>2 DEF PollOK, HoldsPolling, InGpu
<1>26. OwnersOK'
  <2>1. ASSUME NEW x \in Semaphores, NEW d \in Commands
        PROVE  /\ <<"commit", d>> \in owners'[x] <=> timeline'[d] = x /\ phase'[d] \in {"submitted", "presenting"}
               /\ <<"command", d>> \in owners'[x] <=> timeline'[d] = x /\ ~completed'[d]
               /\ <<"closure", d>> \in owners'[x] <=> timeline'[d] = x /\ (~completed'[d] \/ InSpent(d)')
    <3>1. /\ <<"commit", d>> \in owners[x] <=> timeline[d] = x /\ phase[d] \in {"submitted", "presenting"}
          /\ <<"command", d>> \in owners[x] <=> timeline[d] = x /\ ~completed[d]
          /\ <<"closure", d>> \in owners[x] <=> timeline[d] = x /\ (~completed[d] \/ InSpent(d))
      BY <1>1 DEF OwnersOK
    <3>2. /\ <<"closure", d>> \in owners'[x] <=> <<"closure", d>> \in owners[x]
          /\ <<"commit", d>> \in owners'[x] <=> <<"commit", d>> \in owners[x]
          /\ <<"command", d>> \in owners'[x] <=> <<"command", d>> \in owners[x] /\ ~(x = s /\ d = c)
      BY <1>11
    <3>3. CASE d = c
      BY <1>2, <1>8, <1>9, <1>10, <1>14, <3>1, <3>2, <3>3
    <3>4. CASE d # c
      BY <1>2, <1>9, <1>14, <3>1, <3>2, <3>4
    <3> QED BY <3>3, <3>4
  <2>2. ASSUME NEW x \in Semaphores, NEW r \in Readers
        PROVE  <<"reader", r>> \in owners'[x] <=> reader'[r] # None /\ reader'[r].sem = x
    <3>1. <<"reader", r>> \in owners[x] <=> reader[r] # None /\ reader[r].sem = x
      BY <1>1 DEF OwnersOK
    <3> QED BY <1>2, <1>11, <3>1
  <2> QED BY <2>1, <2>2 DEF OwnersOK
<1>27. ReadersOK'
  BY <1>1, <1>2 DEF ReadersOK, Published
<1>28. CommandPoolsOK'
  BY <1>1, <1>7, RecycleKeeps
<1>29. SerialsOK'
  BY <1>2 DEF IInv, SerialsOK, SerialsInExecutionOrder
<1> QED BY <1>11, <1>12, <1>16, <1>17, <1>19, <1>20, <1>22, <1>23, <1>24, <1>25, <1>26, <1>27, <1>28, <1>29 DEF IInv

-----------------------------------------------------------------------------
(* The theorems *)

\* Initially the reserve is idle and nothing is in flight.
LEMMA InitInv == Init => IInv
<1> SUFFICES ASSUME Init PROVE IInv
  OBVIOUS
<1>1. LoopTyped
  <2>1. <<>> \in Seq(Entry) /\ <<>> \in Seq(Nat \ {0}) /\ 1 \in Nat \ {0}
    OBVIOUS
  <2> QED BY <2>1 DEF Init, LoopInit, LoopTyped, PollPcs
<1>2. /\ recycledSems \in Seq(Semaphores) /\ Len(recycledSems) = SemCapacity
      /\ \A i \in 1..Len(recycledSems) : recycledSems[i] \in Semaphores
      /\ \A i, j \in 1..Len(recycledSems) : recycledSems[j] = recycledSems[i] => j = i
  <2>1. recycledSems \in [1..SemCapacity -> Semaphores] /\ SemCapacity \in Nat
    BY CommandBufferAssumption DEF Init
  <2>2. recycledSems \in Seq(Semaphores) /\ Len(recycledSems) = SemCapacity
    BY <2>1
  <2>3. \A i, j \in 1..Len(recycledSems) : i # j => recycledSems[i] # recycledSems[j]
    BY DEF Init, InitialReserve
  <2> QED BY <2>1, <2>2, <2>3
<1>3. TypeOK
  <2>1. 0 \in 0..MaxHandlers
    BY CommandBufferAssumption
  <2>2. <<>> \in Seq(Pools) /\ <<>> \in Seq(Submission) /\ <<>> \in Seq(Commands)
    OBVIOUS
  <2>3. /\ phase \in [Commands -> Phases] /\ encoders \in [Commands -> {"none", "held", "work"}]
        /\ scheduledHandlers \in [Commands -> 0..MaxHandlers] /\ completedHandlers \in [Commands -> 0..MaxHandlers]
        /\ drawables \in [Commands -> BOOLEAN] /\ completed \in [Commands -> BOOLEAN]
        /\ handlersCompleted \in [Commands -> BOOLEAN]
    BY <2>1 DEF Init, Phases
  <2>4. /\ pool \in [Commands -> Handle(Pools)] /\ recycledCommands \in Seq(Pools)
        /\ timeline \in [Commands -> Handle(Semaphores)]
        /\ waitOn \in [Waiters -> Handle(Commands)] /\ asleep \subseteq Waiters
        /\ reader \in [Readers -> Handle(Read)]
    BY <2>2 DEF Init, Handle
  <2>5. /\ count \in [Semaphores -> Nat] /\ owners \in [Semaphores -> SUBSET Owner]
        /\ gpuQueue \in Seq(Submission) /\ scheduledQueue \in Seq(Commands)
        /\ completionWork \subseteq Commands /\ spent \in [Pollers -> Seq(Commands)]
        /\ nextSerial \in Nat /\ serial \in [Commands -> Nat]
    BY <2>2 DEF Init
  <2> QED BY <1>2, <2>3, <2>4, <2>5 DEF TypeOK, Submission
<1>4. /\ \A i \in 1..Len(gpuQueue) : FALSE
      /\ \A i \in 1..Len(scheduledQueue) : FALSE
      /\ \A i \in 1..Len(entries) : FALSE
      /\ \A i \in 1..Len(recycledCommands) : FALSE
      /\ \A p \in Pollers : ready[p] = <<>> /\ spent[p] = <<>> /\ pollPc[p] = "outside"
  BY DEF Init, LoopInit
<1>5. \A c \in Commands : ~InGpu(c) /\ ~InScheduled(c) /\ ~InEntries(c) /\ ~InSpent(c)
  BY <1>4 DEF InGpu, InScheduled, InEntries, InSpent
<1>6. PhasesOK
  BY <1>5 DEF Init, PhasesOK, PhaseOK, Active, Published
<1>7. ScheduledOK /\ EntriesOK /\ ReadyOK /\ SpentOK
  <2>1. \A p \in Pollers : \A i \in 1..Len(ready[p]) : FALSE
    BY <1>4
  <2>2. \A p \in Pollers : \A i \in 1..Len(spent[p]) : FALSE
    BY <1>4
  <2> QED BY <1>4, <2>1, <2>2 DEF ScheduledOK, EntriesOK, ReadyOK, SpentOK
<1>8. PollOK
  BY <1>4 DEF PollOK, HoldsPolling
<1>9. \A s \in Semaphores : owners[s] = {} /\ count[s] = 0 /\ counter[s] = 0 /\ s # None
  BY CommandBufferAssumption DEF Init, LoopInit
<1>10. OwnersOK
  BY <1>9 DEF Init, OwnersOK
<1>11. TenantOK /\ ReadersOK
  BY <1>9 DEF Init, TenantOK, ReadersOK
<1>12. GpuOK
  <2>1. \A s \in Semaphores : count[s] <= MaxCount
    BY <1>9, CommandBufferAssumption
  <2> QED BY <1>4, <1>9, <2>1 DEF GpuOK
<1>13. PooledOK
  <2>1. 0 < MaxCount
    BY CommandBufferAssumption
  <2> QED BY <1>2, <1>9, <2>1 DEF PooledOK
<1>14. CommandPoolsOK
  BY <1>4 DEF Init, CommandPoolsOK
<1>15. SerialsOK
  BY <1>4 DEF Init, SerialsOK, SerialsInExecutionOrder
<1> QED BY <1>1, <1>3, <1>6, <1>7, <1>8, <1>10, <1>11, <1>12, <1>13, <1>14, <1>15 DEF IInv

\* Every step keeps the invariant.
LEMMA NextInv == IInv /\ [Next]_vars => IInv'
<1> SUFFICES ASSUME IInv, [Next]_vars PROVE IInv'
  OBVIOUS
<1>1. ASSUME NEW c \in Commands, Encode(c) PROVE IInv'
  <2>1. TypeOK
    BY DEF IInv
  <2> QED BY <1>1, <2>1, EncodeTyped, EncodeCalm, CalmKeeps, EncodeInv DEF IInv
<1>2. CASE \/ \E c \in Commands : Work(c)
           \/ RunScheduledHandler
           \/ \E w \in Waiters : WaitReturn(w) \/ \E c \in Commands : WaitBegin(w, c)
  <2>1. TypeOK
    BY DEF IInv
  <2> QED BY <1>2, <2>1, WorkTyped, WorkCalm, CalmKeeps, WorkInv DEF IInv
<1>3. ASSUME NEW c \in Commands, Commit(c) PROVE IInv'
  BY <1>3, SubmitInv, CommitArmInv, CommitReturnInv DEF Commit
<1>4. CASE GpuExecute \/ ArmScheduled
  BY <1>4, GpuInv, ArmScheduledInv
<1>5. ASSUME NEW p \in Pollers, Poll(p) PROVE IInv'
  BY <1>5, PollInv, CompletedInv, DestroyInv DEF Poll
<1>6. ASSUME NEW r \in Readers, ReadReturn(r) \/ \E c \in Commands : ReadBegin(r, c) PROVE IInv'
  BY <1>6, ReadReturnInv, ReadBeginInv
<1>7. CASE UNCHANGED vars
  <2>1. UNCHANGED <<loopVars, commandVars, poolVars, semVars, doneVars, gpuQueue, scheduledQueue, spent,
                    serialVars, waitVars>>
    BY <1>7 DEF vars, cbVars
  <2>2. Calm
    BY <2>1 DEF Calm, commandVars, doneVars, waitVars
  <2>3. TypeOK' /\ PhasesOK' /\ CommandPoolsOK'
    <3>1. TypeOK /\ PhasesOK /\ CommandPoolsOK
      BY DEF IInv
    <3>2. TypeOK'
      BY <2>1, <3>1 DEF TypeOK, commandVars, poolVars, semVars, doneVars, serialVars, waitVars
    <3>3. PhasesOK' /\ CommandPoolsOK'
      BY <2>1, <3>1 DEF PhasesOK, PhaseOK, Active, Published, InGpu, CommandPoolsOK,
                        commandVars, poolVars, semVars, doneVars
    <3> QED BY <3>2, <3>3
  <2> QED BY <2>2, <2>3, CalmKeeps DEF IInv
<1> QED BY <1>1, <1>2, <1>3, <1>4, <1>5, <1>6, <1>7 DEF Next, Dispatch

\* The inductive invariant holds in every behaviour of the command buffers.
THEOREM Invariance == Spec => []IInv
<1>1. Init => IInv
  BY InitInv
<1>2. IInv /\ [Next]_vars => IInv'
  BY NextInv
<1> QED BY <1>1, <1>2, PTL DEF Spec

\* The invariant implies that idle semaphores and command pools really are idle.
LEMMA InvRecycling == IInv => RecyclingSafe
<1> SUFFICES ASSUME IInv PROVE RecyclingSafe
  OBVIOUS
<1>1. TypeOK /\ LoopTyped /\ PhasesOK /\ OwnersOK /\ TenantOK /\ ReadersOK /\ GpuOK /\ PooledOK /\ CommandPoolsOK
  BY DEF IInv
<1>2. PooledSemaphoreIdle
  <2>1. ASSUME NEW i \in 1..Len(recycledSems)
        PROVE  /\ \A j \in 1..Len(gpuQueue) : gpuQueue[j].sem # recycledSems[i]
               /\ \A j \in 1..Len(entries) : entries[j].sem # recycledSems[i]
               /\ \A r \in Readers : reader[r] # None => reader[r].sem # recycledSems[i]
    <3>1. owners[recycledSems[i]] = {}
      BY <1>1 DEF PooledOK
    <3> QED BY <3>1, ReferencesOwned
  <2> QED BY <1>1, <2>1 DEF PooledSemaphoreIdle, PooledOK
<1>3. SignalsIncrease
  <2>1. ASSUME NEW i \in 1..Len(gpuQueue)
        PROVE  /\ counter[gpuQueue[i].sem] < gpuQueue[i].value /\ gpuQueue[i].value <= MaxCount
               /\ \A j \in 1..Len(gpuQueue) : gpuQueue[j].sem = gpuQueue[i].sem => j = i
    <3>1. PICK c \in Commands, s \in Semaphores :
            c = gpuQueue[i].cmd /\ s = gpuQueue[i].sem /\ s = timeline[c] /\ gpuQueue[i].value = count[s]
      BY <1>1, QueuedCommands DEF GpuOK
    <3>2. InGpu(c)
      BY <3>1 DEF InGpu
    <3>3. Active(c) /\ ~completed[c]
      BY <1>1, <3>2 DEF PhasesOK, PhaseOK
    <3>4. <<"command", c>> \in owners[s] /\ Of(<<"command", c>>) = c
      BY <1>1, <3>1, <3>3, InFlightOwned
    <3>5. counter[s] < count[s] /\ count[s] <= MaxCount
      BY <1>1, <3>2, <3>4 DEF GpuOK
    <3>6. ASSUME NEW j \in 1..Len(gpuQueue), gpuQueue[j].sem = gpuQueue[i].sem PROVE j = i
      <4>1. PICK d \in Commands : d = gpuQueue[j].cmd /\ s = timeline[d]
        BY <1>1, <3>1, <3>6, QueuedCommands DEF GpuOK
      <4>2. InGpu(d)
        BY <4>1 DEF InGpu
      <4>3. Active(d) /\ ~completed[d]
        BY <1>1, <4>2 DEF PhasesOK, PhaseOK
      <4>4. <<"command", d>> \in owners[s] /\ Of(<<"command", d>>) = d
        BY <1>1, <4>1, <4>3, InFlightOwned
      <4>5. d = c
        BY <1>1, <3>4, <4>4 DEF TenantOK
      <4> QED BY <1>1, <3>1, <4>1, <4>5 DEF GpuOK
    <3> QED BY <3>1, <3>5, <3>6
  <2> QED BY <2>1 DEF SignalsIncrease
<1>4. PendingPoolExclusive
  <2>1. ASSUME NEW c \in Commands, InGpu(c) \/ phase[c] \in {"open", "locked"} PROVE pool[c] # None
    BY <1>1, <2>1 DEF PhasesOK, PhaseOK
  <2> QED BY <1>1, <2>1 DEF PendingPoolExclusive, CommandPoolsOK
<1> QED BY <1>1, <1>2, <1>3, <1>4 DEF RecyclingSafe

\* A semaphore or a command pool is reused only when nothing refers to it, and
\* every signal of a timeline exceeds the last (getCompletionSemaphore's deleter,
\* recycleCommandPool), for any capacities and any number of commands.
THEOREM RecyclingStaysSafe == Spec => []RecyclingSafe
<1>1. IInv => RecyclingSafe
  BY InvRecycling
<1> QED BY <1>1, Invariance, PTL

\* The invariant implies what a reader outside _mutex relies on.
LEMMA InvReads == IInv => ReadsAndSerialsInOrder
<1> SUFFICES ASSUME IInv PROVE ReadsAndSerialsInOrder
  OBVIOUS
<1>1. TypeOK /\ LoopTyped /\ OwnersOK /\ ReadersOK /\ GpuOK /\ SerialsOK
  BY DEF IInv
<1>2. ASSUME NEW r \in Readers, reader[r] # None
      PROVE  /\ reader[r].sem = timeline[reader[r].cmd] /\ <<"reader", r>> \in owners[reader[r].sem]
             /\ count[reader[r].sem] = reader[r].value
             /\ InGpu(reader[r].cmd) <=> counter[reader[r].sem] < reader[r].value
  <2>1. reader[r] \in Read
    BY <1>1, <1>2 DEF TypeOK, Handle
  <2>2. PICK s \in Semaphores : s = reader[r].sem
    BY <2>1 DEF Read
  <2>3. reader[r].sem = timeline[reader[r].cmd] /\ reader[r].value = count[s]
    BY <1>1, <1>2, <2>2 DEF ReadersOK
  <2>4. <<"reader", r>> \in owners[s] /\ Of(<<"reader", r>>) = reader[r].cmd
    BY <1>1, <1>2, <2>2 DEF OwnersOK, Of
  <2>5. IF InGpu(reader[r].cmd) THEN counter[s] < count[s] ELSE counter[s] = count[s]
    BY <1>1, <2>4 DEF GpuOK
  <2>6. counter[s] \in Nat /\ count[s] \in Nat
    BY <1>1 DEF TypeOK, LoopTyped
  <2>7. InGpu(reader[r].cmd) <=> counter[s] < count[s]
    BY <2>5, <2>6
  <2> QED BY <2>2, <2>3, <2>4, <2>7
<1>3. ReadWaitsForItsCommand
  BY <1>2 DEF ReadWaitsForItsCommand
<1> QED BY <1>1, <1>3 DEF ReadsAndSerialsInOrder, SerialsOK

\* waitForGPU waits for its command, no more and no less, on a wrapper that is
\* alive, and presentation serials follow the order of execution.
THEOREM ReadsAndSerialsStayInOrder == Spec => []ReadsAndSerialsInOrder
<1>1. IInv => ReadsAndSerialsInOrder
  BY InvReads
<1> QED BY <1>1, Invariance, PTL

\* Only the release of an uncommitted command and the completion closure take
\* the encoders away, and only the last finished handler lets a waiter return.
LEMMA StepHolds == ASSUME IInv, Next PROVE ResourcesOutliveExecution /\ WaitCoversHandlers
<1> USE DEF commandVars, poolVars, semVars, doneVars, serialVars, waitVars
<1>1. TypeOK /\ LoopTyped /\ PhasesOK /\ ReadyOK /\ PollOK
  BY DEF IInv
<1>2. ASSUME NEW c \in Commands, encoders[c] = "held", encoders'[c] # "held"
      PROVE  phase[c] = "open" \/ (Committed(c) /\ ~InGpu(c))
  <2>1. encoders \in [Commands -> {"none", "held", "work"}]
    BY <1>1 DEF TypeOK
  <2>2. ~UNCHANGED encoders
    BY <1>2
  <2>3. ASSUME NEW d \in Commands, Encode(d) PROVE phase[c] = "open"
    BY <1>2, <2>1, <2>3 DEF Encode, Create, Discard, NewEncoder, PresentDrawable, AddScheduledHandler,
       AddCompletedHandler, CommitLock
  <2>4. ASSUME NEW d \in Commands, Work(d) PROVE FALSE
    BY <1>2, <2>1, <2>4 DEF Work, ReleaseEncoders, RunCompletedHandler, FinishWork
  <2>5. ASSUME NEW p \in Pollers, CompletedCallback(p) PROVE Committed(c) /\ ~InGpu(c)
    <3>1. ready[p] # <<>> /\ ready[p] \in Seq(Entry)
      BY <1>1, <2>5 DEF CompletedCallback, PollCallback, LoopTyped
    <3>2. 1 \in 1..Len(ready[p]) /\ Head(ready[p]) = ready[p][1] /\ ready[p][1] \in Entry
      BY <3>1, TailFacts
    <3>3. PICK d \in Commands : d = Head(ready[p]).cb /\ d = ready[p][1].cb
      BY <1>1, <3>2, QueuedCommands
    <3>4. encoders' = [encoders EXCEPT ![d] = IF @ = "held" THEN "work" ELSE @]
      BY <2>5, <3>3 DEF CompletedCallback
    <3>5. c = d
      BY <1>2, <2>1, <3>4
    <3> QED BY <1>1, <3>2, <3>3, <3>5 DEF ReadyOK, Armed, Waits, Published, Committed
  <2>6. ASSUME NEW d \in Commands, Commit(d) PROVE FALSE
    BY <2>2, <2>6 DEF Commit, CommitSubmit, CommitArm, CommitReturn
  <2>7. ASSUME GpuExecute \/ Dispatch PROVE FALSE
    BY <2>2, <2>7 DEF GpuExecute, Dispatch, RunScheduledHandler, ArmScheduled
  <2>8. ASSUME NEW p \in Pollers, PollStep(p) \/ DestroyClosure(p) PROVE FALSE
    BY <2>2, <2>8 DEF PollStep, DestroyClosure, cbVars
  <2>9. ASSUME \/ \E w \in Waiters : WaitReturn(w) \/ \E d \in Commands : WaitBegin(w, d)
               \/ \E r \in Readers : ReadReturn(r) \/ \E d \in Commands : ReadBegin(r, d)
        PROVE  FALSE
    BY <2>2, <2>9 DEF WaitReturn, WaitBegin, ReadReturn, ReadBegin
  <2> QED BY <2>3, <2>4, <2>5, <2>6, <2>7, <2>8, <2>9 DEF Next, Poll
<1>3. ASSUME NEW w \in Waiters, waitOn[w] # None, waitOn'[w] = None
      PROVE  /\ ~InGpu(waitOn[w]) /\ completed[waitOn[w]] /\ encoders[waitOn[w]] = "none"
             /\ scheduledHandlers[waitOn[w]] = 0 /\ completedHandlers[waitOn[w]] = 0
  <2>1. waitOn \in [Waiters -> Handle(Commands)]
    BY <1>1 DEF TypeOK
  <2>2. ~UNCHANGED waitOn
    BY <1>3
  <2>3. \E x \in Waiters : WaitReturn(x) \/ \E d \in Commands : WaitBegin(x, d)
    <3>1. ASSUME NEW d \in Commands, Encode(d) \/ Work(d) PROVE UNCHANGED waitOn
      BY <3>1 DEF Encode, Create, Discard, NewEncoder, PresentDrawable, AddScheduledHandler,
         AddCompletedHandler, CommitLock, Work, ReleaseEncoders, RunCompletedHandler, FinishWork
    <3>2. ASSUME NEW d \in Commands, Commit(d) PROVE UNCHANGED waitOn
      BY <3>2 DEF Commit, CommitSubmit, CommitArm, CommitReturn
    <3>3. ASSUME GpuExecute \/ Dispatch PROVE UNCHANGED waitOn
      BY <3>3 DEF GpuExecute, Dispatch, RunScheduledHandler, ArmScheduled
    <3>4. ASSUME NEW p \in Pollers, Poll(p) PROVE UNCHANGED waitOn
      BY <3>4 DEF Poll, PollStep, CompletedCallback, DestroyClosure, cbVars
    <3>5. ASSUME \E r \in Readers : ReadReturn(r) \/ \E d \in Commands : ReadBegin(r, d) PROVE UNCHANGED waitOn
      BY <3>5 DEF ReadReturn, ReadBegin
    <3> QED BY <2>2, <3>1, <3>2, <3>3, <3>4, <3>5 DEF Next
  <2>4. handlersCompleted[waitOn[w]]
    <3>1. ASSUME NEW x \in Waiters, NEW d \in Commands, WaitBegin(x, d) PROVE FALSE
      <4>1. waitOn[x] = None /\ waitOn' = [waitOn EXCEPT ![x] = d] /\ d # None
        BY <3>1, CommandBufferAssumption DEF WaitBegin
      <4> QED BY <1>3, <2>1, <4>1
    <3>2. ASSUME NEW x \in Waiters, WaitReturn(x) PROVE handlersCompleted[waitOn[w]]
      <4>1. waitOn' = [waitOn EXCEPT ![x] = None] /\ handlersCompleted[waitOn[x]]
        BY <3>2 DEF WaitReturn
      <4>2. x = w
        BY <1>3, <2>1, <4>1
      <4> QED BY <4>1, <4>2
    <3> QED BY <2>3, <3>1, <3>2
  <2>5. waitOn[w] \in Commands
    BY <1>3, <2>1 DEF Handle
  <2> QED BY <1>1, <2>4, <2>5 DEF PhasesOK, PhaseOK
<1> QED BY <1>2, <1>3 DEF ResourcesOutliveExecution, WaitCoversHandlers

\* A command keeps its resources until the GPU has finished with them, and
\* waitUntilCompleted covers every handler, for any number of commands.
THEOREM ResourcesHeldUntilDone == Spec => HeldUntilDone
<1>1. IInv /\ [Next]_vars => [ResourcesOutliveExecution /\ WaitCoversHandlers]_vars
  BY StepHolds
<1> QED BY <1>1, Invariance, PTL DEF Spec, HeldUntilDone

-----------------------------------------------------------------------------
(***************************************************************************)
(* CommandBuffer implements CommandLifecycle: the proof of the refinement, *)
(* step by step.  Every step of the implementation is the one step of the  *)
(* life cycle that its name suggests, or leaves the life cycle alone.      *)
(***************************************************************************)

(* The life cycle's variables, as the implementation's state *)

stageBar == [c \in Commands |-> StageOf(c)]
pendingBar == [i \in 1..Len(gpuQueue) |-> gpuQueue[i].cmd]
scheduledBar == {c \in Commands : /\ phase[c] \in {"presenting", "returned"}
                                  /\ scheduledHandlers[c] = 0
                                  /\ \A i \in 1..Len(scheduledQueue) : scheduledQueue[i] # c}
executedBar == {c \in Commands : /\ phase[c] \in {"submitted", "presenting", "returned"}
                                 /\ ~InGpu(c)}

Bars == <<stageBar, pendingBar, scheduledBar, executedBar, waitOn>>

\* The sets and the stages, one command at a time.
BarsRead ==
  /\ \A c \in Commands : stageBar[c] = StageOf(c)
  /\ \A c \in Commands : c \in scheduledBar <=> Published(c) /\ scheduledHandlers[c] = 0 /\ ~InScheduled(c)
  /\ \A c \in Commands : c \in executedBar <=> Active(c) /\ ~InGpu(c)
  /\ scheduledBar \subseteq Commands /\ executedBar \subseteq Commands

\* It reads so before and after a step.
LEMMA BarFacts == BarsRead /\ BarsRead'
<1>1. BarsRead
  BY DEF BarsRead, stageBar, scheduledBar, executedBar, Published, Active, InScheduled
<1>2. BarsRead'
  BY DEF BarsRead, stageBar, scheduledBar, executedBar, Published, Active, InScheduled
<1> QED BY <1>1, <1>2

\* The pending commands are the commands of the GPU's queue, in its order.
LEMMA PendingFacts ==
  ASSUME TypeOK
  PROVE  /\ pendingBar \in Seq(Commands) /\ Len(pendingBar) = Len(gpuQueue)
         /\ \A i \in 1..Len(gpuQueue) : pendingBar[i] = gpuQueue[i].cmd
<1>1. gpuQueue \in Seq(Submission)
  BY DEF TypeOK, Submission
<1>2. Len(gpuQueue) \in Nat /\ \A i \in 1..Len(gpuQueue) : gpuQueue[i].cmd \in Commands
  <2>1. Len(gpuQueue) \in Nat /\ \A i \in 1..Len(gpuQueue) : gpuQueue[i] \in Submission
    BY <1>1, ElementFacts
  <2> QED BY <2>1 DEF Submission
<1> QED BY <1>2 DEF pendingBar

\* After a step, too.
LEMMA PendingNext ==
  ASSUME TypeOK'
  PROVE  /\ pendingBar' \in Seq(Commands) /\ Len(pendingBar') = Len(gpuQueue')
         /\ \A i \in 1..Len(gpuQueue') : pendingBar'[i] = gpuQueue'[i].cmd
<1>1. gpuQueue' \in Seq(Submission)
  BY DEF TypeOK, Submission
<1>2. Len(gpuQueue') \in Nat /\ \A i \in 1..Len(gpuQueue') : gpuQueue'[i].cmd \in Commands
  <2>1. Len(gpuQueue') \in Nat /\ \A i \in 1..Len(gpuQueue') : gpuQueue'[i] \in Submission
    BY <1>1, ElementFacts
  <2> QED BY <2>1 DEF Submission
<1> QED BY <1>2 DEF pendingBar

\* Steps that leave each command where it is.
LEMMA Stutter ==
  ASSUME UNCHANGED <<gpuQueue, waitOn>>,
         \A c \in Commands : StageOf(c)' = StageOf(c),
         scheduledBar' = scheduledBar,
         \A c \in Commands : Active(c)' <=> Active(c)
  PROVE  UNCHANGED Bars
<1>1. stageBar' = stageBar
  BY DEF stageBar
<1>2. pendingBar' = pendingBar
  BY DEF pendingBar
<1>4. executedBar' = executedBar
  BY DEF executedBar, Active, InGpu
<1> QED BY <1>1, <1>2, <1>4 DEF Bars

\* Nothing of it changes when the flags and queues that are mapped do not.
LEMMA SameState ==
  ASSUME UNCHANGED <<phase, completed, handlersCompleted, scheduledHandlers, scheduledQueue, gpuQueue, waitOn>>
  PROVE  UNCHANGED Bars
<1>1. \A c \in Commands : StageOf(c)' = StageOf(c)
  BY DEF StageOf, Committed
<1>2. scheduledBar' = scheduledBar
  BY DEF scheduledBar
<1> QED BY <1>1, <1>2, Stutter DEF Active

\* Where a command is in its life cycle.
StageReads(c) ==
  /\ phase[c] \in {"none", "open"} => StageOf(c) = "new"
  /\ phase[c] = "discarded" => StageOf(c) = "dropped"
  /\ Committed(c) =>
       /\ handlersCompleted[c] => StageOf(c) = "done"
       /\ completed[c] /\ ~handlersCompleted[c] => StageOf(c) = "completed"
       /\ ~completed[c] /\ ~handlersCompleted[c] => StageOf(c) = "committed"

LEMMA StageFacts ==
  ASSUME NEW c \in Commands, phase[c] \in Phases, phase'[c] \in Phases
  PROVE  StageReads(c) /\ StageReads(c)'
<1>1. StageReads(c)
  <2>1. CASE phase[c] \in {"none", "open"}
    BY <2>1 DEF StageReads, StageOf, Committed
  <2>2. CASE phase[c] = "discarded"
    BY <2>2 DEF StageReads, StageOf, Committed
  <2>3. CASE Committed(c)
    BY <2>3 DEF StageReads, StageOf, Committed
  <2> QED BY <2>1, <2>2, <2>3 DEF Phases, Committed
<1>2. StageReads(c)'
  <2>1. CASE phase'[c] \in {"none", "open"}
    BY <2>1 DEF StageReads, StageOf, Committed
  <2>2. CASE phase'[c] = "discarded"
    BY <2>2 DEF StageReads, StageOf, Committed
  <2>3. CASE Committed(c)'
    BY <2>3 DEF StageReads, StageOf, Committed
  <2> QED BY <2>1, <2>2, <2>3 DEF Phases, Committed
<1> QED BY <1>1, <1>2

\* A command that moves on while the others stay.
LEMMA StageMoves ==
  ASSUME NEW c \in Commands, NEW x, StageOf(c)' = x, \A d \in Commands : d # c => StageOf(d)' = StageOf(d)
  PROVE  stageBar' = [stageBar EXCEPT ![c] = x]
BY DEF stageBar

-----------------------------------------------------------------------------
(* The steps *)

\* Encoding a command: it is new until it is committed or dropped.
LEMMA EncodeRefines ==
  ASSUME IInv, NEW c \in Commands, Encode(c)
  PROVE  Lifecycle!Abandon(c) \/ Lifecycle!Enqueue(c) \/ UNCHANGED Bars
<1> USE DEF commandVars, poolVars, semVars, doneVars, serialVars, waitVars
<1>1. TypeOK /\ PhasesOK /\ PhaseOK(c)
  BY DEF IInv, PhasesOK
<1>2. phase[c] \in {"none", "open"} /\ UNCHANGED <<completed, handlersCompleted, gpuQueue, scheduledQueue, waitOn>>
  BY DEF Encode, Create, Discard, NewEncoder, PresentDrawable, AddScheduledHandler, AddCompletedHandler, CommitLock
<1>12. phase \in [Commands -> Phases] /\ phase' \in [Commands -> Phases]
  <2>1. TypeOK'
    BY <1>1, EncodeTyped
  <2> QED BY <1>1, <2>1 DEF TypeOK
<1>3. ~completed[c] /\ ~handlersCompleted[c] /\ ~Active(c) /\ ~Published(c) /\ StageOf(c) = "new"
  BY <1>1, <1>2, <1>12, StageFacts DEF StageReads, PhaseOK, Active, Published
<1>4. /\ phase'[c] \in {"open", "locked", "discarded"} /\ \A d \in Commands : d # c => phase'[d] = phase[d]
      /\ \A d \in Commands : d # c => scheduledHandlers'[d] = scheduledHandlers[d]
  <2>1. phase \in [Commands -> Phases] /\ scheduledHandlers \in [Commands -> 0..MaxHandlers]
    BY <1>1 DEF TypeOK
  <2> QED BY <2>1 DEF Encode, Create, Discard, NewEncoder, PresentDrawable, AddScheduledHandler,
                      AddCompletedHandler, CommitLock
<1>5. \A d \in Commands : (Active(d)' <=> Active(d)) /\ (Published(d)' <=> Published(d))
  BY <1>3, <1>4 DEF Active, Published
<1>6. scheduledBar' = scheduledBar
  <2>1. \A d \in Commands : InScheduled(d)' <=> InScheduled(d)
    BY <1>2 DEF InScheduled
  <2>2. \A d \in Commands : d \in scheduledBar' <=> d \in scheduledBar
    BY <1>3, <1>4, <1>5, <2>1, BarFacts DEF BarsRead
  <2> QED BY <2>2, BarFacts DEF BarsRead
<1>7. \A d \in Commands : d # c => StageOf(d)' = StageOf(d)
  BY <1>2, <1>4 DEF StageOf, Committed
<1>8. CASE phase'[c] = "open"
  <2>1. StageOf(c)' = StageOf(c)
    BY <1>3, <1>8, <1>12, StageFacts DEF StageReads
  <2> QED BY <1>2, <1>5, <1>6, <1>7, <2>1, Stutter
<1>9. ASSUME NEW x \in {"dropped", "committed"}, StageOf(c)' = x
      PROVE  /\ stageBar[c] = "new" /\ stageBar' = [stageBar EXCEPT ![c] = x]
             /\ UNCHANGED <<pendingBar, scheduledBar, executedBar, waitOn>>
  <2>1. stageBar' = [stageBar EXCEPT ![c] = x]
    BY <1>7, <1>9, StageMoves
  <2>2. pendingBar' = pendingBar
    BY <1>2 DEF pendingBar
  <2>3. executedBar' = executedBar
    BY <1>2, <1>5 DEF executedBar, Active, InGpu
  <2>4. stageBar[c] = "new"
    BY <1>3, BarFacts DEF BarsRead
  <2> QED BY <1>2, <1>6, <2>1, <2>2, <2>3, <2>4
<1>10. CASE phase'[c] = "discarded"
  <2>1. StageOf(c)' = "dropped"
    BY <1>10, <1>12, StageFacts DEF StageReads
  <2> QED BY <1>9, <2>1 DEF Lifecycle!Abandon, stageBar, pendingBar, scheduledBar, executedBar
<1>11. CASE phase'[c] = "locked"
  <2>1. StageOf(c)' = "committed"
    BY <1>2, <1>3, <1>11, <1>12, StageFacts DEF StageReads, Committed
  <2> QED BY <1>9, <2>1 DEF Lifecycle!Enqueue, stageBar, pendingBar, scheduledBar, executedBar
<1> QED BY <1>4, <1>8, <1>10, <1>11

\* Being submitted, for the life cycle and for the implementation.
LEMMA SubmittedFacts ==
  ASSUME TypeOK, PhasesOK, NEW c \in Commands
  PROVE  Lifecycle!Submitted(c) <=> Active(c)
<1>1. /\ Len(pendingBar) = Len(gpuQueue)
      /\ \A i \in 1..Len(gpuQueue) : pendingBar[i] = gpuQueue[i].cmd
  BY PendingFacts
<1>2. Lifecycle!Submitted(c) <=> c \in executedBar \/ \E i \in 1..Len(pendingBar) : pendingBar[i] = c
  BY DEF Lifecycle!Submitted, pendingBar, executedBar
<1>3. (\E i \in 1..Len(pendingBar) : pendingBar[i] = c) <=> InGpu(c)
  BY <1>1 DEF InGpu
<1>4. InGpu(c) => Active(c)
  BY DEF PhasesOK, PhaseOK
<1> QED BY <1>2, <1>3, <1>4, BarFacts DEF BarsRead

\* vkQueueSubmit2 submits the command, behind the ones already submitted.
LEMMA SubmitRefines ==
  ASSUME IInv, NEW c \in Commands, CommitSubmit(c)
  PROVE  Lifecycle!SubmitCommand(c)
<1> USE DEF commandVars, poolVars, semVars, doneVars, serialVars, waitVars
<1>1. TypeOK /\ PhasesOK /\ PhaseOK(c) /\ phase \in [Commands -> Phases] /\ gpuQueue \in Seq(Submission)
  BY DEF IInv, PhasesOK, TypeOK, Submission
<1>2. PICK s \in Semaphores : gpuQueue' = Append(gpuQueue, [cmd |-> c, sem |-> s, value |-> count'[s]])
  BY DEF CommitSubmit
<1>3. /\ phase[c] = "locked" /\ phase'[c] = "submitted" /\ \A d \in Commands : d # c => phase'[d] = phase[d]
      /\ UNCHANGED <<completed, handlersCompleted, scheduledHandlers, scheduledQueue, waitOn>>
  BY <1>1 DEF CommitSubmit
<1>4. TypeOK'
  BY SubmitInv DEF IInv
<1>5. phase'[c] \in Phases /\ phase[c] \in Phases
  BY <1>3 DEF Phases
<1>6. ~Active(c) /\ ~completed[c] /\ ~handlersCompleted[c] /\ ~Published(c) /\ ~Published(c)' /\ Active(c)'
  BY <1>1, <1>3 DEF PhaseOK, Active, Published
<1>7. StageOf(c) = "committed" /\ StageOf(c)' = "committed"
  BY <1>3, <1>5, <1>6, StageFacts DEF StageReads, Committed
<1>8. stageBar' = stageBar /\ stageBar[c] = "committed"
  <2>1. \A d \in Commands : StageOf(d)' = StageOf(d)
    BY <1>3, <1>7 DEF StageOf, Committed
  <2> QED BY <1>7, <2>1 DEF stageBar
<1>9. scheduledBar' = scheduledBar
  <2>1. \A d \in Commands : (Published(d)' <=> Published(d)) /\ (InScheduled(d)' <=> InScheduled(d))
    BY <1>3 DEF Published, InScheduled
  <2>2. \A d \in Commands : d \in scheduledBar' <=> d \in scheduledBar
    BY <1>3, <2>1, BarFacts DEF BarsRead
  <2> QED BY <2>2, BarFacts DEF BarsRead
<1>10. PICK e \in Submission : e = [cmd |-> c, sem |-> s, value |-> count'[s]] /\ e.cmd = c
  <2>1. count'[s] \in Nat
    BY <1>4 DEF TypeOK
  <2>2. [cmd |-> c, sem |-> s, value |-> count'[s]] \in Submission
    BY <2>1 DEF Submission
  <2> QED BY <2>2
<1>11. /\ Len(gpuQueue) \in Nat /\ Len(gpuQueue') = Len(gpuQueue) + 1
       /\ \A i \in 1..Len(gpuQueue) : gpuQueue'[i] = gpuQueue[i]
       /\ gpuQueue'[Len(gpuQueue) + 1] = e
       /\ \A i \in 1..(Len(gpuQueue) + 1) : i \in 1..Len(gpuQueue) \/ i = Len(gpuQueue) + 1
  BY <1>1, <1>2, <1>10, AppendFacts
<1>12. pendingBar' = Append(pendingBar, c)
  <2>1. /\ pendingBar \in Seq(Commands) /\ Len(pendingBar) = Len(gpuQueue)
        /\ \A i \in 1..Len(gpuQueue) : pendingBar[i] = gpuQueue[i].cmd
    BY <1>1, PendingFacts
  <2>2. /\ pendingBar' \in Seq(Commands) /\ Len(pendingBar') = Len(gpuQueue')
        /\ \A i \in 1..Len(gpuQueue') : pendingBar'[i] = gpuQueue'[i].cmd
    BY <1>4, PendingNext
  <2>3. /\ Append(pendingBar, c) \in Seq(Commands) /\ Len(Append(pendingBar, c)) = Len(pendingBar) + 1
        /\ \A i \in 1..Len(pendingBar) : Append(pendingBar, c)[i] = pendingBar[i]
        /\ Append(pendingBar, c)[Len(pendingBar) + 1] = c
    BY <2>1, AppendFacts
  <2>4. ASSUME NEW i \in 1..Len(pendingBar') PROVE pendingBar'[i] = Append(pendingBar, c)[i]
    <3>1. CASE i \in 1..Len(gpuQueue)
      BY <1>11, <2>1, <2>2, <2>3, <3>1
    <3>2. CASE i = Len(gpuQueue) + 1
      BY <1>10, <1>11, <2>1, <2>2, <2>3, <3>2
    <3> QED BY <1>11, <2>2, <3>1, <3>2
  <2>5. Len(pendingBar') = Len(Append(pendingBar, c))
    BY <1>11, <2>1, <2>2, <2>3
  <2> QED BY <2>2, <2>3, <2>4, <2>5, SeqEqual
<1>13. executedBar' = executedBar
  <2>1. \A d \in Commands : d # c => (InGpu(d)' <=> InGpu(d)) /\ (Active(d)' <=> Active(d))
    <3>1. ASSUME NEW d \in Commands, d # c PROVE InGpu(d)' <=> InGpu(d)
      <4>1. ASSUME InGpu(d) PROVE InGpu(d)'
        BY <1>11, <4>1 DEF InGpu
      <4>2. ASSUME InGpu(d)' PROVE InGpu(d)
        BY <1>10, <1>11, <3>1, <4>2 DEF InGpu
      <4> QED BY <4>1, <4>2
    <3> QED BY <1>3, <3>1 DEF Active
  <2>2. InGpu(c)'
    <3>1. Len(gpuQueue) + 1 \in 1..Len(gpuQueue')
      BY <1>11
    <3> QED BY <1>10, <1>11, <3>1 DEF InGpu
  <2>3. \A d \in Commands : d \in executedBar' <=> d \in executedBar
    BY <1>6, <2>1, <2>2, BarFacts DEF BarsRead
  <2> QED BY <2>3, BarFacts DEF BarsRead
<1>14. ~Lifecycle!Submitted(c)
  BY <1>1, <1>6, SubmittedFacts
<1> QED BY <1>3, <1>8, <1>9, <1>12, <1>13, <1>14
        DEF Lifecycle!SubmitCommand, stageBar, pendingBar, scheduledBar, executedBar

\* A command's completion is armed: the command is scheduled, nothing else moves.
LEMMA ScheduleRefines ==
  ASSUME TypeOK, PhasesOK, NEW c \in Commands, phase'[c] = phase[c] \/ (phase[c] = "submitted" /\ phase'[c] = "presenting"),
         \A d \in Commands : d # c => phase'[d] = phase[d],
         UNCHANGED <<completed, handlersCompleted, scheduledHandlers, gpuQueue, waitOn>>,
         Active(c), Published(c)', ~completed[c], scheduledHandlers[c] = 0, ~InScheduled(c)',
         ~Published(c) \/ InScheduled(c),
         \A d \in Commands : d # c => (InScheduled(d)' <=> InScheduled(d))
  PROVE  Lifecycle!Schedule(c)
<1>1. ~handlersCompleted[c] /\ phase[c] \in Phases /\ phase'[c] \in Phases
  BY DEF PhasesOK, PhaseOK, TypeOK, Phases
<1>2. StageOf(c) = "committed" /\ StageOf(c)' = "committed"
  BY <1>1, StageFacts DEF StageReads, Committed, Active, Published
<1>3. stageBar' = stageBar /\ stageBar[c] = "committed"
  <2>1. \A d \in Commands : StageOf(d)' = StageOf(d)
    BY <1>2 DEF StageOf, Committed
  <2> QED BY <1>2, <2>1 DEF stageBar
<1>4. pendingBar' = pendingBar
  BY DEF pendingBar
<1>5. executedBar' = executedBar
  <2>1. \A d \in Commands : Active(d)' <=> Active(d)
    BY DEF Active, Published
  <2> QED BY <2>1 DEF executedBar, Active, InGpu
<1>6. c \notin scheduledBar /\ scheduledBar' = scheduledBar \cup {c}
  <2>1. \A d \in Commands : d # c => (Published(d)' <=> Published(d))
    BY DEF Published
  <2>2. c \notin scheduledBar /\ c \in scheduledBar'
    BY BarFacts DEF BarsRead
  <2>3. \A d \in Commands : d # c => (d \in scheduledBar' <=> d \in scheduledBar)
    BY <2>1, BarFacts DEF BarsRead
  <2> QED BY <2>2, <2>3, BarFacts DEF BarsRead
<1>7. Lifecycle!Submitted(c)
  BY SubmittedFacts
<1> QED BY <1>3, <1>4, <1>5, <1>6, <1>7
        DEF Lifecycle!Schedule, stageBar, pendingBar, scheduledBar, executedBar

\* commit arms the completion itself when there is no scheduled handler.
LEMMA CommitArmRefines ==
  ASSUME IInv, NEW c \in Commands, CommitArm(c)
  PROVE  Lifecycle!Schedule(c) \/ UNCHANGED Bars
<1> USE DEF commandVars, poolVars, semVars, doneVars, serialVars, waitVars
<1>1. TypeOK /\ PhasesOK /\ PhaseOK(c) /\ phase \in [Commands -> Phases] /\ scheduledQueue \in Seq(Commands)
  BY DEF IInv, PhasesOK, TypeOK
<1>2. /\ phase[c] = "submitted" /\ phase'[c] = "presenting" /\ \A d \in Commands : d # c => phase'[d] = phase[d]
      /\ UNCHANGED <<completed, handlersCompleted, scheduledHandlers, gpuQueue, waitOn>>
  BY <1>1 DEF CommitArm
<1>3. Active(c) /\ Active(c)' /\ Published(c)' /\ ~Published(c) /\ ~completed[c] /\ ~handlersCompleted[c]
  BY <1>1, <1>2 DEF Active, Published, PhaseOK
<1>4. ~InScheduled(c)
  BY <1>3 DEF IInv, ScheduledOK, Waits, InScheduled
<1>5. CASE scheduledHandlers[c] = 0
  <2>1. scheduledQueue' = scheduledQueue
    BY <1>5 DEF CommitArm
  <2>2. \A d \in Commands : InScheduled(d)' <=> InScheduled(d)
    BY <2>1 DEF InScheduled
  <2> QED BY <1>1, <1>2, <1>3, <1>4, <1>5, <2>2, ScheduleRefines
<1>6. CASE scheduledHandlers[c] # 0
  <2>1. scheduledQueue' = Append(scheduledQueue, c)
    BY <1>6 DEF CommitArm
  <2>2. /\ Len(scheduledQueue) \in Nat /\ Len(scheduledQueue') = Len(scheduledQueue) + 1
        /\ \A i \in 1..Len(scheduledQueue) : scheduledQueue'[i] = scheduledQueue[i]
        /\ scheduledQueue'[Len(scheduledQueue) + 1] = c
        /\ \A i \in 1..(Len(scheduledQueue) + 1) : i \in 1..Len(scheduledQueue) \/ i = Len(scheduledQueue) + 1
    BY <1>1, <2>1, AppendFacts
  <2>3. ASSUME NEW d \in Commands, d # c PROVE InScheduled(d)' <=> InScheduled(d)
    <3>1. ASSUME InScheduled(d) PROVE InScheduled(d)'
      BY <2>2, <3>1 DEF InScheduled
    <3>2. ASSUME InScheduled(d)' PROVE InScheduled(d)
      BY <2>2, <2>3, <3>2 DEF InScheduled
    <3> QED BY <3>1, <3>2
  <2>4. scheduledBar' = scheduledBar
    <3>1. \A d \in Commands : d # c => (Published(d)' <=> Published(d))
      BY <1>2 DEF Published
    <3>2. \A d \in Commands : d \in scheduledBar' <=> d \in scheduledBar
      BY <1>2, <1>6, <2>3, <3>1, BarFacts DEF BarsRead
    <3> QED BY <3>2, BarFacts DEF BarsRead
  <2>5. \A d \in Commands : StageOf(d)' = StageOf(d)
    <3>1. phase[c] \in Phases /\ phase'[c] \in Phases
      BY <1>2 DEF Phases
    <3>2. StageOf(c)' = StageOf(c)
      BY <1>2, <1>3, <3>1, StageFacts DEF StageReads, Committed
    <3> QED BY <1>2, <3>2 DEF StageOf, Committed
  <2>6. \A d \in Commands : Active(d)' <=> Active(d)
    BY <1>2, <1>3 DEF Active
  <2> QED BY <1>2, <2>4, <2>5, <2>6, Stutter
<1> QED BY <1>5, <1>6

\* The serial queue arms it after the last one.
LEMMA ArmScheduledRefines ==
  ASSUME IInv, ArmScheduled
  PROVE  \E c \in Commands : Lifecycle!Schedule(c)
<1> USE DEF commandVars, poolVars, semVars, doneVars, serialVars, waitVars
<1>1. TypeOK /\ PhasesOK /\ scheduledQueue \in Seq(Commands) /\ scheduledQueue # <<>>
  BY DEF IInv, TypeOK, ArmScheduled
<1>2. /\ Len(scheduledQueue') = Len(scheduledQueue) - 1 /\ Len(scheduledQueue) \in Nat /\ Len(scheduledQueue) >= 1
      /\ \A i \in 1..Len(scheduledQueue') :
           i \in Nat /\ i + 1 \in 1..Len(scheduledQueue) /\ i + 1 # 1 /\ scheduledQueue'[i] = scheduledQueue[i + 1]
      /\ Head(scheduledQueue) = scheduledQueue[1] /\ Head(scheduledQueue) \in Commands /\ 1 \in 1..Len(scheduledQueue)
  BY <1>1, TailFacts DEF ArmScheduled
<1>3. PICK c \in Commands : c = Head(scheduledQueue)
  BY <1>2
<1>4. /\ scheduledHandlers[c] = 0
      /\ UNCHANGED <<phase, completed, handlersCompleted, scheduledHandlers, gpuQueue, waitOn>>
  BY <1>3 DEF ArmScheduled
<1>5. InScheduled(c) /\ Published(c) /\ Published(c)' /\ ~completed[c] /\ Active(c)
  BY <1>2, <1>3, <1>4 DEF IInv, ScheduledOK, Waits, InScheduled, Published, Active
<1>6. ~InScheduled(c)'
  <2> SUFFICES ASSUME NEW i \in 1..Len(scheduledQueue'), scheduledQueue'[i] = c PROVE FALSE
    BY DEF InScheduled
  <2>1. i + 1 \in 1..Len(scheduledQueue) /\ i + 1 # 1 /\ scheduledQueue[i + 1] = scheduledQueue[1]
    BY <1>2, <1>3
  <2> QED BY <1>2, <2>1 DEF IInv, ScheduledOK
<1>7. ASSUME NEW d \in Commands, d # c PROVE InScheduled(d)' <=> InScheduled(d)
  <2>1. ASSUME InScheduled(d) PROVE InScheduled(d)'
    <3>1. PICK i \in 1..Len(scheduledQueue) : scheduledQueue[i] = d
      BY <2>1 DEF InScheduled
    <3>2. i # 1
      BY <1>2, <1>3, <1>7, <3>1
    <3>3. i - 1 \in 1..Len(scheduledQueue') /\ (i - 1) + 1 = i
      BY <1>2, <3>2
    <3>4. scheduledQueue'[i - 1] = d
      BY <1>2, <3>1, <3>3
    <3> QED BY <3>3, <3>4 DEF InScheduled
  <2>2. ASSUME InScheduled(d)' PROVE InScheduled(d)
    BY <1>2, <2>2 DEF InScheduled
  <2> QED BY <2>1, <2>2
<1>8. Lifecycle!Schedule(c)
  BY <1>1, <1>4, <1>5, <1>6, <1>7, ScheduleRefines
<1> QED BY <1>8

\* Returning from commit and running a scheduled handler are no steps of the
\* life cycle: the command stays submitted, and is not scheduled before its
\* completion is armed.
LEMMA ReturnRefines ==
  ASSUME IInv, NEW c \in Commands, CommitReturn(c)
  PROVE  UNCHANGED Bars
<1> USE DEF commandVars, poolVars, semVars, doneVars, serialVars, waitVars
<1>1. phase \in [Commands -> Phases]
  BY DEF IInv, TypeOK
<1>2. /\ phase[c] = "presenting" /\ phase'[c] = "returned" /\ \A d \in Commands : d # c => phase'[d] = phase[d]
      /\ UNCHANGED <<completed, handlersCompleted, scheduledHandlers, scheduledQueue, gpuQueue, waitOn>>
  BY <1>1 DEF CommitReturn
<1>3. \A d \in Commands : (Active(d)' <=> Active(d)) /\ (Published(d)' <=> Published(d))
                          /\ (InScheduled(d)' <=> InScheduled(d))
  BY <1>2 DEF Active, Published, InScheduled
<1>4. scheduledBar' = scheduledBar
  <2>1. \A d \in Commands : d \in scheduledBar' <=> d \in scheduledBar
    BY <1>2, <1>3, BarFacts DEF BarsRead
  <2> QED BY <2>1, BarFacts DEF BarsRead
<1>5. \A d \in Commands : StageOf(d)' = StageOf(d)
  BY <1>2 DEF StageOf, Committed
<1> QED BY <1>2, <1>3, <1>4, <1>5, Stutter

LEMMA HandlerRefines ==
  ASSUME IInv, RunScheduledHandler
  PROVE  UNCHANGED Bars
<1> USE DEF commandVars, poolVars, semVars, doneVars, serialVars, waitVars
<1>1. scheduledHandlers \in [Commands -> 0..MaxHandlers] /\ scheduledQueue \in Seq(Commands) /\ scheduledQueue # <<>>
  BY DEF IInv, TypeOK, RunScheduledHandler
<1>2. PICK c \in Commands : c = Head(scheduledQueue) /\ InScheduled(c)
  BY <1>1, TailFacts DEF InScheduled
<1>3. /\ \A d \in Commands : d # c => scheduledHandlers'[d] = scheduledHandlers[d]
      /\ UNCHANGED <<phase, completed, handlersCompleted, scheduledQueue, gpuQueue, waitOn>>
  BY <1>1, <1>2 DEF RunScheduledHandler
<1>4. \A d \in Commands : (Published(d)' <=> Published(d)) /\ (InScheduled(d)' <=> InScheduled(d))
  BY <1>3 DEF Published, InScheduled
<1>5. scheduledBar' = scheduledBar
  <2>1. \A d \in Commands : d \in scheduledBar' <=> d \in scheduledBar
    BY <1>2, <1>3, <1>4, BarFacts DEF BarsRead
  <2> QED BY <2>1, BarFacts DEF BarsRead
<1>6. \A d \in Commands : StageOf(d)' = StageOf(d) /\ (Active(d)' <=> Active(d))
  BY <1>3 DEF StageOf, Committed, Active
<1> QED BY <1>3, <1>5, <1>6, Stutter

\* The GPU executes the oldest pending command.
LEMMA GpuRefines ==
  ASSUME IInv, GpuExecute
  PROVE  Lifecycle!Execute
<1> USE DEF commandVars, poolVars, semVars, doneVars, serialVars, waitVars
<1>1. TypeOK /\ PhasesOK /\ gpuQueue \in Seq(Submission) /\ gpuQueue # <<>> /\ TypeOK'
  BY GpuInv DEF IInv, TypeOK, Submission, GpuExecute
<1>2. /\ gpuQueue' = Tail(gpuQueue)
      /\ UNCHANGED <<phase, completed, handlersCompleted, scheduledHandlers, scheduledQueue, waitOn>>
  BY DEF GpuExecute
<1>3. /\ Len(gpuQueue') = Len(gpuQueue) - 1 /\ Len(gpuQueue) \in Nat /\ Len(gpuQueue) >= 1
      /\ \A i \in 1..Len(gpuQueue') :
           i \in Nat /\ i + 1 \in 1..Len(gpuQueue) /\ i + 1 # 1 /\ gpuQueue'[i] = gpuQueue[i + 1]
      /\ 1 \in 1..Len(gpuQueue)
  BY <1>1, <1>2, TailFacts
<1>4. /\ pendingBar \in Seq(Commands) /\ Len(pendingBar) = Len(gpuQueue)
      /\ \A i \in 1..Len(gpuQueue) : pendingBar[i] = gpuQueue[i].cmd
  BY <1>1, PendingFacts
<1>5. pendingBar # <<>>
  BY <1>3, <1>4
<1>6. /\ Tail(pendingBar) \in Seq(Commands) /\ Len(Tail(pendingBar)) = Len(pendingBar) - 1
      /\ \A i \in 1..Len(Tail(pendingBar)) : Tail(pendingBar)[i] = pendingBar[i + 1]
      /\ Head(pendingBar) = pendingBar[1] /\ Head(pendingBar) \in Commands
  BY <1>4, <1>5, TailFacts
<1>7. /\ pendingBar' \in Seq(Commands) /\ Len(pendingBar') = Len(gpuQueue')
      /\ \A i \in 1..Len(gpuQueue') : pendingBar'[i] = gpuQueue'[i].cmd
  BY <1>1, PendingNext
<1>8. pendingBar' = Tail(pendingBar)
  <2>1. Len(pendingBar') = Len(Tail(pendingBar))
    BY <1>3, <1>4, <1>6, <1>7
  <2>2. ASSUME NEW i \in 1..Len(pendingBar') PROVE pendingBar'[i] = Tail(pendingBar)[i]
    <3>1. pendingBar'[i] = gpuQueue[i + 1].cmd /\ i + 1 \in 1..Len(gpuQueue)
      BY <1>3, <1>7
    <3>2. pendingBar[i + 1] = gpuQueue[i + 1].cmd
      BY <1>4, <3>1
    <3> QED BY <1>6, <2>1, <3>1, <3>2
  <2> QED BY <1>6, <1>7, <2>1, <2>2, SeqEqual
<1>9. stageBar' = stageBar /\ scheduledBar' = scheduledBar
  <2>1. \A d \in Commands : StageOf(d)' = StageOf(d)
    BY <1>2 DEF StageOf, Committed
  <2> QED BY <1>2, <2>1 DEF stageBar, scheduledBar
<1>10. PICK c \in Commands : c = Head(pendingBar) /\ c = gpuQueue[1].cmd
  BY <1>3, <1>4, <1>6
<1>11. executedBar' = executedBar \cup {c}
  <2>1. InGpu(c) /\ Active(c)
    BY <1>1, <1>3, <1>10 DEF InGpu, PhasesOK, PhaseOK
  <2>2. ~InGpu(c)'
    <3> SUFFICES ASSUME NEW i \in 1..Len(gpuQueue'), gpuQueue'[i].cmd = c PROVE FALSE
      BY DEF InGpu
    <3>1. i + 1 \in 1..Len(gpuQueue) /\ i + 1 # 1 /\ gpuQueue[i + 1].cmd = gpuQueue[1].cmd
      BY <1>3, <1>10
    <3> QED BY <1>3, <3>1 DEF IInv, GpuOK
  <2>3. ASSUME NEW d \in Commands, d # c PROVE InGpu(d)' <=> InGpu(d)
    <3>1. ASSUME InGpu(d) PROVE InGpu(d)'
      <4>1. PICK i \in 1..Len(gpuQueue) : gpuQueue[i].cmd = d
        BY <3>1 DEF InGpu
      <4>2. i # 1
        BY <1>10, <2>3, <4>1
      <4>3. i - 1 \in 1..Len(gpuQueue') /\ (i - 1) + 1 = i
        BY <1>3, <4>2
      <4>4. gpuQueue'[i - 1].cmd = d
        BY <1>3, <4>1, <4>3
      <4> QED BY <4>3, <4>4 DEF InGpu
    <3>2. ASSUME InGpu(d)' PROVE InGpu(d)
      BY <1>3, <3>2 DEF InGpu
    <3> QED BY <3>1, <3>2
  <2>4. \A d \in Commands : Active(d)' <=> Active(d)
    BY <1>2 DEF Active
  <2>5. c \in executedBar' /\ \A d \in Commands : d # c => (d \in executedBar' <=> d \in executedBar)
    BY <2>1, <2>2, <2>3, <2>4, BarFacts DEF BarsRead
  <2> QED BY <2>5, BarFacts DEF BarsRead
<1> QED BY <1>2, <1>5, <1>8, <1>9, <1>10, <1>11
        DEF Lifecycle!Execute, stageBar, pendingBar, scheduledBar, executedBar

\* The polling thread runs the completion of a command that is scheduled and
\* executed; without encoders and handlers this also finishes it.
LEMMA CompletedRefines ==
  ASSUME IInv, NEW p \in Pollers, CompletedCallback(p)
  PROVE  \E c \in Commands : Lifecycle!Complete(c)
<1> USE DEF commandVars, poolVars, semVars, doneVars, serialVars, waitVars
<1>1. TypeOK /\ LoopTyped /\ PhasesOK /\ ready[p] \in Seq(Entry) /\ ready[p] # <<>>
      /\ completed \in [Commands -> BOOLEAN] /\ handlersCompleted \in [Commands -> BOOLEAN]
      /\ phase \in [Commands -> Phases]
  BY DEF IInv, TypeOK, LoopTyped, CompletedCallback, PollCallback
<1>2. Head(ready[p]) = ready[p][1] /\ Head(ready[p]) \in Entry /\ 1 \in 1..Len(ready[p])
  BY <1>1, TailFacts
<1>3. PICK c \in Commands : c = Head(ready[p]).cb
  BY <1>1, <1>2, QueuedCommands
<1>4. Published(c) /\ ~completed[c] /\ scheduledHandlers[c] = 0 /\ ~InGpu(c) /\ ~InScheduled(c)
  <2>1. Armed(ready[p][1]) /\ ~InGpu(ready[p][1].cb) /\ ~InScheduled(ready[p][1].cb)
    BY <1>2 DEF IInv, ReadyOK
  <2> QED BY <1>2, <1>3, <2>1 DEF Armed, Waits
<1>5. Active(c) /\ ~handlersCompleted[c] /\ c \in scheduledBar /\ c \in executedBar
  <2>1. Active(c) /\ ~handlersCompleted[c]
    BY <1>1, <1>4 DEF Published, Active, PhasesOK, PhaseOK
  <2> QED BY <1>4, <2>1, BarFacts DEF BarsRead
<1>6. /\ completed'[c] = TRUE /\ \A d \in Commands : d # c => completed'[d] = completed[d]
      /\ \A d \in Commands : d # c => handlersCompleted'[d] = handlersCompleted[d]
      /\ UNCHANGED <<phase, scheduledHandlers, scheduledQueue, gpuQueue, waitOn>>
  BY <1>1, <1>3 DEF CompletedCallback, FinishCompletedHandlers
<1>7. StageOf(c) = "committed" /\ StageOf(c)' \in {"completed", "done"}
  BY <1>1, <1>4, <1>5, <1>6, StageFacts DEF StageReads, Committed, Published
<1>8. \A d \in Commands : d # c => StageOf(d)' = StageOf(d)
  BY <1>6 DEF StageOf, Committed
<1>9. stageBar[c] = "committed" /\ \E s \in {"completed", "done"} : stageBar' = [stageBar EXCEPT ![c] = s]
  <2>1. PICK s \in {"completed", "done"} : StageOf(c)' = s
    BY <1>7
  <2>2. stageBar' = [stageBar EXCEPT ![c] = s]
    BY <1>8, <2>1, StageMoves
  <2> QED BY <1>7, <2>2, BarFacts DEF BarsRead
<1>10. UNCHANGED <<pendingBar, scheduledBar, executedBar>>
  BY <1>6 DEF pendingBar, scheduledBar, executedBar, InGpu
<1>11. Lifecycle!Complete(c)
  BY <1>5, <1>6, <1>9, <1>10 DEF Lifecycle!Complete, stageBar, pendingBar, scheduledBar, executedBar
<1> QED BY <1>11

\* The work on the concurrent queue ends: the command is done.
LEMMA FinishRefines ==
  ASSUME IInv, NEW c \in Commands, FinishWork(c)
  PROVE  Lifecycle!Finish(c) \/ UNCHANGED Bars
<1> USE DEF commandVars, poolVars, semVars, doneVars, serialVars, waitVars
<1>1. /\ PhaseOK(c) /\ handlersCompleted \in [Commands -> BOOLEAN] /\ phase \in [Commands -> Phases]
      /\ c \in completionWork
  BY DEF IInv, TypeOK, PhasesOK, FinishWork
<1>2. completed[c] /\ Published(c)
  BY <1>1 DEF PhaseOK
<1>3. /\ handlersCompleted'[c] = TRUE /\ \A d \in Commands : d # c => handlersCompleted'[d] = handlersCompleted[d]
      /\ UNCHANGED <<phase, completed, scheduledHandlers, scheduledQueue, gpuQueue, waitOn>>
  BY <1>1 DEF FinishWork, FinishCompletedHandlers
<1>4. UNCHANGED <<pendingBar, scheduledBar, executedBar>>
  BY <1>3 DEF pendingBar, scheduledBar, executedBar, InGpu
<1>5. StageOf(c)' = "done" /\ Committed(c)
  BY <1>1, <1>2, <1>3, StageFacts DEF StageReads, Committed, Published
<1>6. \A d \in Commands : d # c => StageOf(d)' = StageOf(d)
  BY <1>3 DEF StageOf, Committed
<1>7. CASE handlersCompleted[c]
  <2>1. StageOf(c) = "done"
    BY <1>1, <1>3, <1>5, <1>7, StageFacts DEF StageReads
  <2>2. stageBar' = stageBar
    BY <1>5, <1>6, <2>1 DEF stageBar
  <2> QED BY <1>3, <1>4, <2>2 DEF Bars
<1>8. CASE ~handlersCompleted[c]
  <2>1. stageBar[c] = "completed"
    <3>1. StageOf(c) = "completed"
      BY <1>1, <1>2, <1>3, <1>5, <1>8, StageFacts DEF StageReads
    <3> QED BY <3>1, BarFacts DEF BarsRead
  <2>2. stageBar' = [stageBar EXCEPT ![c] = "done"]
    BY <1>5, <1>6, StageMoves
  <2> QED BY <1>3, <1>4, <2>1, <2>2 DEF Lifecycle!Finish, stageBar, pendingBar, scheduledBar, executedBar
<1> QED BY <1>7, <1>8

\* waitUntilCompleted waits for a command that is not done and returns when it is.
LEMMA WaitRefines ==
  ASSUME IInv, NEW w \in Waiters, NEW c \in Commands, WaitBegin(w, c)
  PROVE  Lifecycle!Wait(w, c)
<1> USE DEF commandVars, poolVars, semVars, doneVars, serialVars, waitVars
<1>1. /\ UNCHANGED <<phase, completed, handlersCompleted, scheduledHandlers, scheduledQueue, gpuQueue>>
      /\ waitOn[w] = None /\ waitOn' = [waitOn EXCEPT ![w] = c] /\ ~handlersCompleted[c]
      /\ phase[c] \in Phases
  BY DEF WaitBegin, IInv, TypeOK
<1>2. UNCHANGED <<stageBar, pendingBar, scheduledBar, executedBar>>
  BY <1>1 DEF stageBar, StageOf, Committed, pendingBar, scheduledBar, executedBar, InGpu
<1>3. stageBar[c] # "done"
  <2>1. StageOf(c) # "done"
    BY <1>1 DEF StageOf, Committed, Phases, IInv, TypeOK
  <2> QED BY <2>1, BarFacts DEF BarsRead
<1> QED BY <1>1, <1>2, <1>3 DEF Lifecycle!Wait, stageBar, pendingBar, scheduledBar, executedBar

LEMMA WaitReturnRefines ==
  ASSUME IInv, NEW w \in Waiters, WaitReturn(w)
  PROVE  Lifecycle!Return(w)
<1> USE DEF commandVars, poolVars, semVars, doneVars, serialVars, waitVars
<1>1. /\ UNCHANGED <<phase, completed, handlersCompleted, scheduledHandlers, scheduledQueue, gpuQueue>>
      /\ waitOn[w] # None /\ waitOn' = [waitOn EXCEPT ![w] = None] /\ handlersCompleted[waitOn[w]]
      /\ waitOn \in [Waiters -> Handle(Commands)] /\ phase \in [Commands -> Phases]
  BY DEF WaitReturn, IInv, TypeOK
<1>2. PICK c \in Commands : c = waitOn[w]
  BY <1>1 DEF Handle
<1>3. Published(c) /\ handlersCompleted[c]
  BY <1>1, <1>2 DEF IInv, PhasesOK, PhaseOK
<1>4. stageBar[c] = "done"
  <2>1. StageOf(c) = "done"
    BY <1>1, <1>3, StageFacts DEF StageReads, Committed, Published
  <2> QED BY <2>1, BarFacts DEF BarsRead
<1>5. UNCHANGED <<stageBar, pendingBar, scheduledBar, executedBar>>
  BY <1>1 DEF stageBar, StageOf, Committed, pendingBar, scheduledBar, executedBar, InGpu
<1> QED BY <1>1, <1>2, <1>4, <1>5 DEF Lifecycle!Return, stageBar, pendingBar, scheduledBar, executedBar

-----------------------------------------------------------------------------
(* The refinement *)

\* Nothing is created or submitted at first.
LEMMA InitRefines == Init => Lifecycle!LifecycleInit
<1> SUFFICES ASSUME Init PROVE Lifecycle!LifecycleInit
  OBVIOUS
<1>1. /\ phase = [c \in Commands |-> "none"] /\ gpuQueue = <<>> /\ waitOn = [w \in Waiters |-> None]
  BY DEF Init
<1>2. stageBar = [c \in Commands |-> "new"]
  BY <1>1 DEF stageBar, StageOf, Committed
<1>3. pendingBar = <<>>
  BY <1>1 DEF pendingBar
<1>4. scheduledBar = {} /\ executedBar = {}
  BY <1>1 DEF scheduledBar, executedBar
<1> QED BY <1>1, <1>2, <1>3, <1>4 DEF Lifecycle!LifecycleInit, stageBar, pendingBar, scheduledBar, executedBar

\* Every step is a step of the life cycle or none.
LEMMA StepRefines ==
  IInv /\ [Next]_vars => [Lifecycle!LifecycleNext]_(Lifecycle!LifecycleVars)
<1> SUFFICES ASSUME IInv, [Next]_vars PROVE Lifecycle!LifecycleNext \/ UNCHANGED Lifecycle!LifecycleVars
  OBVIOUS
<1> USE DEF commandVars, poolVars, semVars, doneVars, serialVars, waitVars
<1>1. UNCHANGED Bars => UNCHANGED Lifecycle!LifecycleVars
  BY DEF Bars, Lifecycle!LifecycleVars, stageBar, pendingBar, scheduledBar, executedBar
<1>2. CASE \E c \in Commands : Encode(c)
  BY <1>1, <1>2, EncodeRefines DEF Lifecycle!LifecycleNext
<1>3. CASE \E c \in Commands : Commit(c)
  BY <1>1, <1>3, SubmitRefines, CommitArmRefines, ReturnRefines DEF Commit, Lifecycle!LifecycleNext
<1>4. CASE \E c \in Commands : Work(c)
  <2>1. PICK c \in Commands : Work(c)
    BY <1>4
  <2>2. ReleaseEncoders(c) \/ RunCompletedHandler(c) => UNCHANGED Bars
    <3>1. ReleaseEncoders(c) \/ RunCompletedHandler(c) =>
            UNCHANGED <<phase, completed, handlersCompleted, scheduledHandlers, scheduledQueue, gpuQueue, waitOn>>
      BY DEF ReleaseEncoders, RunCompletedHandler
    <3> QED BY <3>1, SameState
  <2> QED BY <1>1, <2>1, <2>2, FinishRefines DEF Work, Lifecycle!LifecycleNext
<1>5. CASE GpuExecute
  BY <1>5, GpuRefines DEF Lifecycle!LifecycleNext
<1>6. CASE Dispatch
  BY <1>1, <1>6, HandlerRefines, ArmScheduledRefines DEF Dispatch, Lifecycle!LifecycleNext
<1>7. CASE \E p \in Pollers : Poll(p)
  <2>1. PICK p \in Pollers : Poll(p)
    BY <1>7
  <2>2. PollStep(p) \/ DestroyClosure(p) => UNCHANGED Bars
    <3>1. PollStep(p) \/ DestroyClosure(p) =>
            UNCHANGED <<phase, completed, handlersCompleted, scheduledHandlers, scheduledQueue, gpuQueue, waitOn>>
      BY DEF PollStep, DestroyClosure, cbVars
    <3> QED BY <3>1, SameState
  <2> QED BY <1>1, <2>1, <2>2, CompletedRefines DEF Poll, Lifecycle!LifecycleNext
<1>8. CASE \E w \in Waiters : WaitReturn(w) \/ \E c \in Commands : WaitBegin(w, c)
  BY <1>8, WaitRefines, WaitReturnRefines DEF Lifecycle!LifecycleNext
<1>9. CASE \E r \in Readers : ReadReturn(r) \/ \E c \in Commands : ReadBegin(r, c)
  <2>1. UNCHANGED <<phase, completed, handlersCompleted, scheduledHandlers, scheduledQueue, gpuQueue, waitOn>>
    BY <1>9 DEF ReadReturn, ReadBegin
  <2> QED BY <1>1, <2>1, SameState
<1>10. CASE UNCHANGED vars
  <2>1. UNCHANGED <<phase, completed, handlersCompleted, scheduledHandlers, scheduledQueue, gpuQueue, waitOn>>
    BY <1>10 DEF vars, cbVars
  <2> QED BY <1>1, <2>1, SameState
<1> QED BY <1>2, <1>3, <1>4, <1>5, <1>6, <1>7, <1>8, <1>9, <1>10 DEF Next

\* command-buffer.cpp keeps Metal's promise, whatever the number of commands,
\* semaphores, pools and threads: commands execute in the order of their
\* submission, a command completes after its scheduled handlers ran and the GPU
\* executed it, and waitUntilCompleted returns only when it is done.
THEOREM CommandsImplementLifecycle == Spec => ImplementsLifecycle
<1>1. Init => Lifecycle!LifecycleInit
  BY InitRefines
<1>2. IInv /\ [Next]_vars => [Lifecycle!LifecycleNext]_(Lifecycle!LifecycleVars)
  BY StepRefines
<1> QED BY <1>1, <1>2, Invariance, PTL DEF Spec, ImplementsLifecycle, Lifecycle!LifecycleSpec
=============================================================================
