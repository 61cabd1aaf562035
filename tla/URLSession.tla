------------------------------ MODULE URLSession ------------------------------
(***************************************************************************)
(* Data tasks of NSURLSession (runtime/shims/cfnet/session.m).             *)
(*                                                                         *)
(* The application creates, resumes and cancels tasks from any thread.     *)
(* Starting, cancelling, the timeout and the transport's callbacks run on  *)
(* the main queue, completion handlers on the session's operation queue.   *)
(* @synchronized makes each of them one step.  Time is relative: how long  *)
(* a task has been idle, how old it is and when its timer fires.           *)
(***************************************************************************)
EXTENDS Naturals, Sequences, FiniteSets, FiniteSetsExt

CONSTANTS
    Tasks,
    Origins, Home,  \* scheme, host and port; where the application sends requests
    Methods,        \* methods it uses
    Timeout, Resource, \* the two timeouts of a task
    MaxArm,         \* 3600: the timer is never set to more
    MaxHops, MaxChunks, \* bounds: redirects, pieces of data of a task
    None

VARIABLES
    invalidated,    \* _invalidated
    tasks,          \* _tasks
    task,           \* the task objects; timer: when it fires, None when it will not
    mainQueue,      \* blocks dispatched to the main queue
    operations,     \* _queue: tasks whose handler is to run
    handling,       \* the task whose handler runs, or None
    answers,        \* history: how often each task's handler ran
    stopping        \* tasks invalidateAndCancel has still to cancel

vars == <<invalidated, tasks, task, mainQueue, operations, handling, answers, stopping>>

\* "content" is any header about a body, "auth" any other.
Request(m) == [origin |-> Home, method |-> m, body |-> m = "POST",
               headers |-> IF m = "POST" THEN {"auth", "content"} ELSE {"auth"}]
NewTask(m) ==
    [state |-> "new", conn |-> "none", timer |-> None, idle |-> 0, age |-> 0, error |-> None,
     current |-> Request(m), sent |-> {}, hops |-> 0,
     response |-> 0, data |-> 0, served |-> 0, chunks |-> 0, accepted |-> FALSE]

Init ==
    /\ invalidated = FALSE /\ tasks = {} /\ mainQueue = <<>> /\ operations = <<>>
    /\ handling = None /\ stopping = {}
    /\ task \in [Tasks -> {NewTask(m) : m \in Methods}]
    /\ answers = [t \in Tasks |-> 0]

Set(t, r) == task' = [task EXCEPT ![t] = r]

-----------------------------------------------------------------------------
(* Calls of the application *)

dataTaskWithRequest(t) ==
    /\ task[t].state = "new" /\ ~invalidated
    /\ Set(t, [task[t] EXCEPT !.state = "suspended"])
    /\ tasks' = tasks \cup {t}
    /\ UNCHANGED <<invalidated, mainQueue, operations, handling, answers, stopping>>

resume(t) ==
    /\ task[t].state = "suspended"
    /\ Set(t, [task[t] EXCEPT !.state = "running"])
    /\ mainQueue' = Append(mainQueue, <<"start", t>>)
    /\ UNCHANGED <<invalidated, tasks, operations, handling, answers, stopping>>

Cancel(t) ==
    IF task[t].state \in {"completed", "canceling"}
    THEN UNCHANGED <<task, mainQueue>>
    ELSE /\ Set(t, [task[t] EXCEPT !.state = "canceling", !.accepted = TRUE])
         /\ mainQueue' = Append(mainQueue, <<"cancel", t>>)

cancel(t) ==
    /\ task[t].state \in {"suspended", "running"} /\ Cancel(t)
    /\ UNCHANGED <<invalidated, tasks, operations, handling, answers, stopping>>

\* Never the shared session, which both calls leave alone.
invalidateAndCancel ==
    /\ ~invalidated /\ invalidated' = TRUE /\ stopping' = tasks
    /\ UNCHANGED <<tasks, task, mainQueue, operations, handling, answers>>

CancelListed(t) ==
    /\ t \in stopping /\ stopping' = stopping \ {t} /\ Cancel(t)
    /\ UNCHANGED <<invalidated, tasks, operations, handling, answers>>

finishTasksAndInvalidate ==
    /\ ~invalidated /\ invalidated' = TRUE
    /\ UNCHANGED <<tasks, task, mainQueue, operations, handling, answers, stopping>>

-----------------------------------------------------------------------------
(* The main queue *)

armTimeout(r) ==
    IF r.timer = None THEN r
    ELSE [r EXCEPT !.timer = Min({MaxArm, Timeout - r.idle, Resource - r.age})]

Active(r) == armTimeout([r EXCEPT !.idle = 0])

\* Mutant: a finish that comes first wins over the cancellation under way.
FinishFirstWins(t, r, error) ==
    IF r.state = "completed" THEN Set(t, r) /\ UNCHANGED operations
    ELSE /\ Set(t, [r EXCEPT !.state = "completed", !.timer = None, !.error = error])
         /\ operations' = Append(operations, t)

\* finish: the first end of a task counts, and a cancellation accepted before
\* it replaces it.
Finish(t, r, error) ==
    IF r.state = "completed" THEN Set(t, r) /\ UNCHANGED operations
    ELSE /\ Set(t, [r EXCEPT !.state = "completed", !.timer = None,
                             !.error = IF r.state = "canceling" THEN "cancelled" ELSE error])
         /\ operations' = Append(operations, t)

\* The block of resume: the connection may fail to be made.
StartBlock(t) ==
    LET r == task[t]
        on == [r EXCEPT !.idle = 0, !.age = 0, !.timer = Min({MaxArm, Timeout, Resource})] IN
    IF r.state # "running" THEN UNCHANGED <<task, operations>>
    ELSE \/ Set(t, [on EXCEPT !.conn = "open", !.sent = {r.current}]) /\ UNCHANGED operations
         \/ Finish(t, on, "unknown")

CancelBlock(t) == Finish(t, [task[t] EXCEPT !.conn = "closed"], "cancelled")

RunBlock ==
    /\ mainQueue # <<>> /\ mainQueue' = Tail(mainQueue)
    /\ LET b == Head(mainQueue) IN IF b[1] = "start" THEN StartBlock(b[2]) ELSE CancelBlock(b[2])
    /\ UNCHANGED <<invalidated, tasks, handling, answers, stopping>>

\* The handler of the timer: a one-shot that arms itself again when something
\* was received meanwhile.
TimerBody(t) ==
    LET r == task[t] IN
    IF r.state # "running" THEN Set(t, [r EXCEPT !.timer = None]) /\ UNCHANGED operations
    ELSE IF r.idle < Timeout /\ r.age < Resource THEN Set(t, armTimeout(r)) /\ UNCHANGED operations
    ELSE Finish(t, [r EXCEPT !.conn = "closed"], "timedOut")
TimerFires(t) ==
    /\ task[t].timer = 0 /\ TimerBody(t)
    /\ UNCHANGED <<invalidated, tasks, mainQueue, handling, answers, stopping>>

-----------------------------------------------------------------------------
(* The transport: callbacks of an open connection *)

Callback(t) == /\ task[t].conn = "open"
               /\ UNCHANGED <<invalidated, tasks, mainQueue, handling, answers, stopping>>

\* What a redirect makes of the request: the transport proposes a GET without
\* headers to the new origin.
Redirected(cur, o, status) ==
    LET method == IF status = 307 \/ cur.method = "HEAD" THEN cur.method ELSE "GET"
        kept == IF o # cur.origin THEN {}
                ELSE IF method # cur.method THEN cur.headers \ {"content"} ELSE cur.headers
    IN [origin |-> o, method |-> method, body |-> status = 307 /\ cur.body, headers |-> kept]

\* The answer nil, when the task no longer runs, makes the redirect the response.
willSendRequest(t, o, status) ==
    LET r == task[t]
        next == Redirected(r.current, o, status) IN
    /\ Callback(t) /\ r.response = 0 /\ r.hops < MaxHops
    /\ IF r.state # "running" THEN Set(t, [r EXCEPT !.hops = MaxHops])
       ELSE Set(t, Active([r EXCEPT !.current = next, !.sent = @ \cup {next}, !.hops = @ + 1]))
    /\ UNCHANGED operations

\* A connection may deliver more than one response (multipart content).
didReceiveResponse(t) ==
    LET r == task[t]
        came == [r EXCEPT !.served = 0] IN
    /\ Callback(t) /\ r.response < 2
    /\ Set(t, IF r.state # "running" THEN [came EXCEPT !.response = 2]
              ELSE Active([came EXCEPT !.response = @ + 1, !.data = 0]))
    /\ UNCHANGED operations

didReceiveData(t) ==
    LET r == task[t]
        came == [r EXCEPT !.served = @ + 1, !.chunks = @ + 1] IN
    /\ Callback(t) /\ r.response > 0 /\ r.chunks < MaxChunks
    /\ Set(t, IF r.state = "running" THEN Active([came EXCEPT !.data = @ + 1]) ELSE came)
    /\ UNCHANGED operations

didFailWithError(t) == Callback(t) /\ Finish(t, [task[t] EXCEPT !.conn = "closed"], "failed")
connectionDidFinishLoading(t) ==
    Callback(t) /\ task[t].response > 0 /\ Finish(t, [task[t] EXCEPT !.conn = "closed"], None)

-----------------------------------------------------------------------------
(* The operation queue, and time *)

HandlerBegins ==
    /\ handling = None /\ operations # <<>>
    /\ handling' = Head(operations) /\ operations' = Tail(operations)
    /\ answers' = [answers EXCEPT ![Head(operations)] = @ + 1]
    /\ UNCHANGED <<invalidated, tasks, task, mainQueue, stopping>>
completed ==
    /\ handling # None /\ handling' = None /\ tasks' = tasks \ {handling}
    /\ UNCHANGED <<invalidated, task, mainQueue, operations, answers, stopping>>

Older(r) == IF r.timer = None THEN r
            ELSE [r EXCEPT !.idle = Min({@ + 1, Timeout}), !.age = Min({@ + 1, Resource}),
                           !.timer = IF @ = 0 THEN 0 ELSE @ - 1]
Tick == /\ task' = [t \in Tasks |-> Older(task[t])] /\ task' # task
        /\ UNCHANGED <<invalidated, tasks, mainQueue, operations, handling, answers, stopping>>

Application(t) == dataTaskWithRequest(t) \/ resume(t) \/ cancel(t)
Transport(t) ==
    \/ \E o \in Origins, s \in {302, 307} : willSendRequest(t, o, s)
    \/ didReceiveResponse(t) \/ didReceiveData(t)
    \/ didFailWithError(t) \/ connectionDidFinishLoading(t)
Next ==
    \/ \E t \in Tasks : Application(t) \/ CancelListed(t) \/ TimerFires(t) \/ Transport(t)
    \/ invalidateAndCancel \/ finishTasksAndInvalidate
    \/ RunBlock \/ HandlerBegins \/ completed \/ Tick

Spec == Init /\ [][Next]_vars

-----------------------------------------------------------------------------
\* The records of tasks stay in their ranges.
TypeOK ==
    /\ tasks \subseteq Tasks /\ stopping \subseteq Tasks /\ handling \in Tasks \cup {None}
    /\ \A t \in Tasks :
         /\ task[t].state \in {"new", "suspended", "running", "canceling", "completed"}
         /\ task[t].conn \in {"none", "open", "closed"}
         /\ task[t].timer \in (0 .. Max({Timeout, Resource})) \cup {None}
         /\ task[t].idle \in 0..Timeout /\ task[t].age \in 0..Resource

\* A task's handler runs at most once, and a task is listed from its creation
\* until its handler has returned (finish and completed:).
AnsweredOnce ==
    \A t \in Tasks :
      LET due == Cardinality({i \in DOMAIN operations : operations[i] = t}) IN
      /\ (due + answers[t] = 1) = (task[t].state = "completed") /\ due + answers[t] <= 1
      /\ (t \in tasks) = (task[t].state # "new" /\ (answers[t] = 0 \/ handling = t))

\* "A cancellation racing transport completion wins if cancel was accepted
\* first", and no task is cancelled that nobody asked to cancel.
CancelWins ==
    \A t \in Tasks : task[t].state = "completed" => (task[t].error = "cancelled") = task[t].accepted

\* A handler without an error gets all the data of the last response and of no
\* earlier one.
WholeData ==
    \A t \in Tasks : task[t].state = "completed" /\ task[t].error = None => task[t].data = task[t].served

\* A task times out only after an idle interval or at the end of its resource
\* interval, and while it runs its timer fires no later than that.
TimeoutExact ==
    \A t \in Tasks : LET r == task[t] IN
      /\ r.error = "timedOut" => r.idle = Timeout \/ r.age = Resource
      /\ r.state = "running" /\ r.conn = "open"
           => r.timer # None /\ r.timer <= Timeout - r.idle /\ r.timer <= Resource - r.age

\* No header of the application reaches another origin over any chain of
\* redirects ("never reattach credentials cross-origin"), and a header about a
\* body is sent with one.
HeadersStayHome ==
    \A t \in Tasks : \A q \in task[t].sent :
      (q.headers # {} => q.origin = Home) /\ ("content" \in q.headers => q.body)

\* A task that ended holds neither timer nor connection.
EndedIsQuiet ==
    \A t \in Tasks : task[t].state = "completed" => task[t].timer = None /\ task[t].conn # "open"

Safety == /\ TypeOK /\ AnsweredOnce /\ CancelWins /\ WholeData /\ TimeoutExact
          /\ HeadersStayHome /\ EndedIsQuiet
=============================================================================
