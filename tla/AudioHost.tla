------------------------------ MODULE AudioHost ------------------------------
(***************************************************************************)
(* The registry of audio devices: HostDevices.h and AudioHardware.cpp of   *)
(* runtime/optimized/audio/CoreAudio.                                      *)
(*                                                                         *)
(* Every CoreAudio call first refreshes the registry from the PulseAudio   *)
(* server, at most once a second, under g_objectsMutex.  The refreshing    *)
(* thread then tells the property listeners what changed, under            *)
(* g_listenerMutex.  A listener reads the registry and may add and remove  *)
(* listeners.                                                              *)
(***************************************************************************)
EXTENDS Naturals, FiniteSets

CONSTANTS Endpoints,   \* the server's sinks and sources
          Sources,     \* the ones that record
          Threads, Listeners,
          MaxChanges,  \* bound: changes on the server
          None

Props == {"devices", "in", "out"}

VARIABLES host,        \* the server: its endpoints and default names
          changesLeft, \* bound
          due,         \* now >= g_refresh
          objects,     \* g_objects: id of each endpoint's HostDevice, or None
          alive,       \* HostDevice::alive
          current,     \* g_hostIDs, g_defaultInput, g_defaultOutput
          listeners,   \* g_listeners
          pc,          \* the refresh each thread is in
          told,        \* what each listener read last
          removed,     \* history: removed by the callback that runs
          query        \* a caller's buffer for the device list: its capacity and the answer

vars == <<host, changesLeft, due, objects, alive, current, listeners, pc, told, removed, query>>

Idle == [at |-> "idle"]

NoDevices == [devices |-> {}, in |-> None, out |-> None]

Init ==
  /\ host \in [eps : SUBSET Endpoints, in : {None}, out : {None}]
  /\ changesLeft = MaxChanges
  /\ due = TRUE
  /\ objects = [e \in Endpoints |-> None]
  /\ alive = {}
  /\ current = NoDevices
  /\ listeners = {}
  /\ pc = [t \in Threads |-> Idle]
  /\ told = [l \in Listeners |-> NoDevices]
  /\ removed = {}
  /\ query = None

\* Endpoints come and go, and the user chooses defaults.
HostChange ==
  /\ changesLeft > 0
  /\ changesLeft' = changesLeft - 1
  /\ host' \in [eps : SUBSET Endpoints, in : Sources \cup {None}, out : (Endpoints \ Sources) \cup {None}]
  /\ UNCHANGED <<due, objects, alive, current, listeners, pc, told, removed, query>>

\* A second passes.
Tick ==
  /\ ~due
  /\ due' = TRUE
  /\ UNCHANGED <<host, changesLeft, objects, alive, current, listeners, pc, told, removed, query>>

-----------------------------------------------------------------------------
(* refreshHostDevices. *)

ObjectsFree == \A t \in Threads : pc[t].at # "snapshot"

ListenersFree(t) == \A u \in Threads \ {t} : pc[u].at \notin {"notify", "callback"}

\* hostSnapshot begins: the server's default names are read first.
RefreshBegin(t) ==
  /\ pc[t] = Idle /\ due /\ ObjectsFree
  /\ due' = FALSE
  /\ pc' = [pc EXCEPT ![t] = [at |-> "snapshot", in |-> host.in, out |-> host.out]]
  /\ UNCHANGED <<host, changesLeft, objects, alive, current, listeners, told, removed, query>>

\* No server, or it does not answer within two seconds: all is left as it was.
RefreshFails(t) ==
  /\ pc[t].at = "snapshot"
  /\ pc' = [pc EXCEPT ![t] = Idle]
  /\ UNCHANGED <<host, changesLeft, due, objects, alive, current, listeners, told, removed, query>>

\* 16 + g_objects.size(): four built-in objects and two for each device.
IdFor(o, known) == 16 + 4 + 2 * Cardinality(known)

\* The endpoints that have a HostDevice, present or not.
Known(o) == {e \in Endpoints : o[e] # None}

\* The objects after new endpoints got theirs, in any order the server lists.
Registered(o) ==
  LET known == Known(o)
      new == host.eps \ known
  IN  {f \in [Endpoints -> {o[e] : e \in known} \cup {None}
                           \cup {IdFor(o, known \cup m) : m \in SUBSET new}] :
         /\ \A e \in Endpoints \ new : f[e] = o[e]
         /\ {f[e] : e \in new} = {IdFor(o, known \cup m) : m \in SUBSET new \ {new}}}

Differs(p, a, b) == a[p] # b[p]

\* Mutant: the default is looked up among all objects.
DefaultOfKnown(name, objs) == IF name = None THEN None ELSE objs[name]

\* The default device: the listed endpoint of that name.
DefaultOf(name, objs) == IF name \in host.eps THEN objs[name] ELSE None

\* The lists are read, and the registry is updated under g_objectsMutex.
RefreshUpdate(t) ==
  /\ pc[t].at = "snapshot"
  /\ objects' \in Registered(objects)
  /\ alive' = host.eps
  /\ current' = [devices |-> {objects'[e] : e \in host.eps},
                 in |-> DefaultOf(pc[t].in, objects'), out |-> DefaultOf(pc[t].out, objects')]
  /\ pc' = [pc EXCEPT ![t] = [at |-> "changed", props |-> {p \in Props : Differs(p, current, current')}]]
  /\ UNCHANGED <<host, changesLeft, due, listeners, told, removed, query>>

\* g_listenerMutex is taken and the list copied.
NotifyBegin(t) ==
  /\ pc[t].at = "changed" /\ ListenersFree(t)
  /\ pc' = [pc EXCEPT ![t] = IF pc[t].props = {} THEN Idle
                             ELSE [at |-> "notify", todo |-> pc[t].props \X listeners]]
  /\ UNCHANGED <<host, changesLeft, due, objects, alive, current, listeners, told, removed, query>>

\* A listener of the copy that is still registered.
StillThere(l) == l \in listeners

\* The next listener is called; it reads the registry.
NotifyCall(t, p, l) ==
  /\ pc[t].at = "notify" /\ <<p, l>> \in pc[t].todo
  /\ LET left == [pc[t] EXCEPT !.todo = @ \ {<<p, l>>}]
     IN  IF StillThere(l)
         THEN /\ pc' = [pc EXCEPT ![t] = [at |-> "callback", l |-> l, todo |-> left.todo]]
              /\ told' = [told EXCEPT ![l] = current]
         ELSE /\ pc' = [pc EXCEPT ![t] = left]
              /\ UNCHANGED told
  /\ UNCHANGED <<host, changesLeft, due, objects, alive, current, listeners, removed, query>>

CallbackReturn(t) ==
  /\ pc[t].at = "callback"
  /\ pc' = [pc EXCEPT ![t] = [at |-> "notify", todo |-> pc[t].todo]]
  /\ removed' = {}
  /\ UNCHANGED <<host, changesLeft, due, objects, alive, current, listeners, told, query>>

NotifyEnd(t) ==
  /\ pc[t].at = "notify" /\ pc[t].todo = {}
  /\ pc' = [pc EXCEPT ![t] = Idle]
  /\ UNCHANGED <<host, changesLeft, due, objects, alive, current, listeners, told, removed, query>>

-----------------------------------------------------------------------------
(* Calls of the application, on its own thread or in a callback. *)

InApp(t) == pc[t].at \in {"idle", "callback"}

\* AudioObjectAddPropertyListener; the application then reads the registry.
AddListener(t, l) ==
  /\ InApp(t) /\ ListenersFree(t) /\ l \notin listeners /\ l \notin removed
  /\ listeners' = listeners \cup {l}
  /\ told' = [told EXCEPT ![l] = current]
  /\ UNCHANGED <<host, changesLeft, due, objects, alive, current, pc, removed, query>>

\* AudioObjectRemovePropertyListener.
RemoveListener(t, l) ==
  /\ InApp(t) /\ ListenersFree(t) /\ l \in listeners
  /\ listeners' = listeners \ {l}
  /\ removed' = IF pc[t].at = "callback" THEN removed \cup {l} ELSE removed
  /\ UNCHANGED <<host, changesLeft, due, objects, alive, current, pc, told, query>>

\* AudioObjectGetPropertyDataSize of the device list ...
QuerySize ==
  /\ ObjectsFree /\ query = None
  /\ query' = [capacity |-> Cardinality(current.devices), got |-> None]
  /\ UNCHANGED <<host, changesLeft, due, objects, alive, current, listeners, pc, told, removed>>

\* hostCopy: a buffer that is too small gets nothing but an error.
HostCopy(capacity) == IF capacity < Cardinality(current.devices) THEN None ELSE current.devices

\* ... and AudioObjectGetPropertyData into a buffer of that size.
QueryData ==
  /\ ObjectsFree /\ query # None
  /\ query' = IF query.got = None THEN [query EXCEPT !.got = HostCopy(query.capacity)] ELSE None
  /\ UNCHANGED <<host, changesLeft, due, objects, alive, current, listeners, pc, told, removed>>

Next ==
  \/ HostChange \/ Tick \/ QuerySize \/ QueryData
  \/ \E t \in Threads :
       \/ RefreshBegin(t) \/ RefreshFails(t) \/ RefreshUpdate(t) \/ NotifyBegin(t)
       \/ CallbackReturn(t) \/ NotifyEnd(t)
       \/ \E p \in Props, l \in Listeners : NotifyCall(t, p, l)
       \/ \E l \in Listeners : AddListener(t, l) \/ RemoveListener(t, l)

Spec == Init /\ [][Next]_vars

-----------------------------------------------------------------------------
(* Properties. *)

\* Types.
TypeOK ==
  /\ objects \in [Endpoints -> Nat \cup {None}] /\ alive \subseteq Endpoints
  /\ current.devices \subseteq Nat /\ listeners \subseteq Listeners
  /\ \A t \in Threads : pc[t].at \in {"idle", "snapshot", "changed", "notify", "callback"}
  /\ due \in BOOLEAN /\ changesLeft \in 0..MaxChanges /\ removed \subseteq Listeners

\* Object ids are unique: no two endpoints share one, and none is the id of
\* another device's stream object (id + 1), however often devices come and go.
IdsUnique ==
  \A e, f \in Endpoints : e # f /\ objects[e] # None /\ objects[f] # None =>
    objects[e] # objects[f] /\ objects[e] # objects[f] + 1

\* The default devices are among the listed ones, although names and lists
\* are read from the server at different times.
DefaultsListed == \A p \in {"in", "out"} : current[p] # None => current[p] \in current.devices

\* No listener is called once its removal has returned; only a callback that
\* removes itself is still running (HostDevices.h:192).
NoCallAfterRemoval ==
  \A t \in Threads : pc[t].at = "callback" => pc[t].l \in listeners \cup removed

\* When no refresh is under way, every listener has read the current devices
\* and defaults: no change between two refreshes, or seen by another thread,
\* stays unreported.
ListenersUpToDate ==
  (\A t \in Threads : pc[t] = Idle) => \A l \in listeners : told[l] = current

\* A list that grew between the two calls does not overrun the buffer.
CopyFits ==
  query # None /\ query.got # None => Cardinality(query.got) <= query.capacity

Safety ==
  TypeOK /\ IdsUnique /\ DefaultsListed /\ NoCallAfterRemoval /\ ListenersUpToDate /\ CopyFits
=============================================================================
