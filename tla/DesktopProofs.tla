---------------------------- MODULE DesktopProofs ----------------------------
(***************************************************************************)
(* Proofs about the updater in the specification of the run `desktop`, for *)
(* any updaters and versions and wherever the scripts fail, are killed or  *)
(* race with a launch: the installed client is whole, is not lost, and is  *)
(* not moved away while it runs.                                           *)
(***************************************************************************)
EXTENDS MCDesktop, TLAPS

\* The variables, by their names in ClientUpdate.
live == v1
offered == v2
up == v3
orphans == v4
lost == v5
launch == v6
had == v7
bounds == v8
USE DEF live, offered, up, orphans, lost, launch, had, bounds

-----------------------------------------------------------------------------
(* The inductive invariant *)

Parts == Versions \cup {None}
Stages == [app : Parts, cache : Parts, version : Parts]
Places == {"idle", "version", "download", "shaders", "stage", "away", "install", "cleanup", "remove"}
UpdaterStates == [at : Places, wants : Parts, stage : Stages, next : Stages \cup {None}, previous : Stages \cup {None}]

\* What is moved into place, and out of it, is a whole client or none.
Good(c) == c \in {None, Update!Nothing} \/ Update!Whole(c)

TypeOK ==
  /\ up \in [Updaters -> UpdaterStates] /\ offered \in Versions /\ live \in Stages \cup {None}
  /\ orphans \subseteq Updaters /\ had \in BOOLEAN

\* The staged client grows whole before it is moved next to the installed one.
UpdaterOK(r) ==
  /\ r.at = "shaders" => r.stage.app \in Versions /\ r.stage.version = r.stage.app
  /\ r.at = "stage" => Update!Whole(r.stage)
  /\ r.at \in {"away", "install"} => Update!Whole(r.next)
  /\ Good(r.previous)
  /\ r.at \notin {"install", "cleanup", "remove"} => r.previous = None
  /\ r.at = "remove" /\ r.previous # None => live # None
UpdatersOK == \A u \in Updaters : UpdaterOK(up[u])

\* One updater, one orphaned command or one running client holds the locks.
LocksOK ==
  /\ \A u, v \in Updaters : up[u].at # "idle" /\ up[v].at # "idle" => u = v
  /\ orphans # {} => \A u \in Updaters : up[u].at = "idle"
  /\ launch.at = "running" => orphans = {} /\ \A u \in Updaters : up[u].at = "idle"

IInv == TypeOK /\ UpdatersOK /\ LocksOK /\ Update!Safety

-----------------------------------------------------------------------------
(* Lemmas *)

\* An updater's step that leaves the installed client alone.
LEMMA UpdaterStep ==
  ASSUME IInv, NEW u \in Updaters, NEW r \in UpdaterStates, up' = [up EXCEPT ![u] = r],
         UNCHANGED <<live, launch, had>>, offered' \in Versions,
         UpdaterOK(r), lost \subseteq lost',
         up[u].previous = r.previous \/ lost' # {} \/ live # None,
         \/ up[u].at # "idle" /\ orphans' = orphans
         \/ ~Update!Locked /\ orphans' = orphans
         \/ up[u].at # "idle" /\ r.at = "idle" /\ orphans' \subseteq orphans \cup {u}
  PROVE  IInv'
<1>1. TypeOK /\ UpdatersOK /\ LocksOK /\ Update!InstalledWhole /\ Update!ClientKept /\ Update!RunsInstalled
  BY DEF IInv, Update!Safety
<1>2. up' \in [Updaters -> UpdaterStates] /\ up'[u] = r /\ \A v \in Updaters \ {u} : up'[v] = up[v]
  BY <1>1 DEF TypeOK
<1>3. TypeOK'
  BY <1>1, <1>2 DEF TypeOK
<1>4. UpdatersOK'
  <2>1. ASSUME NEW v \in Updaters PROVE UpdaterOK(up'[v])
    BY <1>1, <1>2 DEF UpdatersOK
  <2> QED BY <2>1 DEF UpdatersOK, UpdaterOK
<1>5. LocksOK'
  <2>1. \A v \in Updaters \ {u} : up[v].at = "idle"
    BY <1>1 DEF LocksOK, Update!Locked
  <2>2. \A v \in Updaters \ {u} : up'[v].at = "idle"
    BY <1>2, <2>1
  <2>3. launch.at # "running"
    BY <1>1 DEF LocksOK, Update!Locked
  <2>4. orphans' # {} => r.at = "idle"
    BY <1>1 DEF LocksOK, Update!Locked
  <2> QED BY <1>2, <2>2, <2>3, <2>4 DEF LocksOK
<1>6. Update!Safety'
  <2>1. Update!InstalledWhole' /\ Update!RunsInstalled'
    BY <1>1 DEF Update!InstalledWhole, Update!RunsInstalled, Update!Whole, Update!Nothing
  <2>2. Update!ClientKept'
    BY <1>1, <1>2 DEF Update!ClientKept
  <2> QED BY <2>1, <2>2 DEF Update!Safety
<1> QED BY <1>3, <1>4, <1>5, <1>6 DEF IInv

\* Steps of an updater that end or prepare the new client.
LEMMA PreparingSteps ==
  ASSUME IInv, NEW u \in Updaters,
         \/ Update!begin(u) \/ Update!upToDate(u) \/ Update!makeTemp(u)
         \/ Update!downloadClient(u) \/ Update!prepareShaders(u) \/ Update!moveNext(u)
  PROVE  IInv'
<1>1. TypeOK /\ UpdatersOK /\ up[u] \in UpdaterStates /\ UpdaterOK(up[u]) /\ offered \in Versions
  BY DEF IInv, TypeOK, UpdatersOK
<1>2. Update!Nothing \in Stages /\ Update!Idle \in UpdaterStates
  BY DEF Update!Nothing, Stages, Parts, Update!Idle, UpdaterStates, Places
<1>3. CASE Update!begin(u)
  <2>1. PICK r : r = [Update!Idle EXCEPT !.at = "version", !.wants = offered]
    OBVIOUS
  <2>2. r \in UpdaterStates /\ UpdaterOK(r) /\ r.previous = None
    BY <1>1, <1>2, <2>1 DEF Update!Idle, UpdaterStates, Places, Parts, UpdaterOK, Good
  <2>3. up' = [up EXCEPT ![u] = r] /\ up[u].at = "idle" /\ ~Update!Locked /\ UNCHANGED <<live, launch, had, lost, orphans, offered>>
    BY <1>3, <2>1 DEF Update!begin, Update!At
  <2>4. up[u].previous = None
    BY <1>1, <2>3 DEF UpdaterOK
  <2> QED BY <1>1, <2>2, <2>3, <2>4, UpdaterStep
<1>4. CASE Update!upToDate(u)
  <2>1. UpdaterOK(Update!Idle) /\ Update!Idle.previous = None
    BY DEF Update!Idle, UpdaterOK, Good
  <2>2. up' = [up EXCEPT ![u] = Update!Idle] /\ up[u].at = "version" /\ UNCHANGED <<live, launch, had, lost, orphans, offered>>
    BY <1>4 DEF Update!upToDate, Update!At
  <2>3. up[u].previous = None
    BY <1>1, <2>2 DEF UpdaterOK
  <2> QED BY <1>1, <1>2, <2>1, <2>2, <2>3, UpdaterStep
<1>5. CASE Update!makeTemp(u)
  <2>1. PICK r : r = [up[u] EXCEPT !.at = "download"]
    OBVIOUS
  <2>2. up' = [up EXCEPT ![u] = r] /\ up[u].at = "version" /\ UNCHANGED <<live, launch, had, lost, orphans, offered>>
    BY <1>5, <2>1 DEF Update!makeTemp, Update!At, Update!Goto
  <2>3. r \in UpdaterStates /\ UpdaterOK(r) /\ r.previous = up[u].previous
    BY <1>1, <2>1, <2>2 DEF UpdaterStates, Places, UpdaterOK
  <2> QED BY <1>1, <2>2, <2>3, UpdaterStep
<1>6. CASE Update!downloadClient(u)
  <2>1. PICK r : r = [up[u] EXCEPT !.at = "shaders", !.stage = [up[u].stage EXCEPT !.app = offered, !.version = offered]]
    OBVIOUS
  <2>2. up' = [up EXCEPT ![u] = r] /\ up[u].at = "download" /\ UNCHANGED <<live, launch, had, lost, orphans, offered>>
    BY <1>1, <1>6, <2>1 DEF Update!downloadClient, Update!At, TypeOK, UpdaterStates
  <2>3. r \in UpdaterStates /\ UpdaterOK(r) /\ r.previous = up[u].previous
    BY <1>1, <2>1, <2>2 DEF UpdaterStates, Stages, Parts, Places, UpdaterOK
  <2> QED BY <1>1, <2>2, <2>3, UpdaterStep
<1>7. CASE Update!prepareShaders(u)
  <2>1. PICK r : r = [up[u] EXCEPT !.at = "stage", !.stage = [up[u].stage EXCEPT !.cache = up[u].stage.app]]
    OBVIOUS
  <2>2. up' = [up EXCEPT ![u] = r] /\ up[u].at = "shaders" /\ UNCHANGED <<live, launch, had, lost, orphans, offered>>
    BY <1>1, <1>7, <2>1 DEF Update!prepareShaders, Update!At, TypeOK, UpdaterStates
  <2>3. r \in UpdaterStates /\ UpdaterOK(r) /\ r.previous = up[u].previous
    BY <1>1, <2>1, <2>2 DEF UpdaterStates, Stages, Parts, Places, UpdaterOK, Update!Whole, Update!Clients
  <2> QED BY <1>1, <2>2, <2>3, UpdaterStep
<1>8. CASE Update!moveNext(u)
  <2>1. PICK r : r = [up[u] EXCEPT !.at = "away", !.next = up[u].stage, !.stage = Update!Nothing]
    OBVIOUS
  <2>2. up' = [up EXCEPT ![u] = r] /\ up[u].at = "stage" /\ UNCHANGED <<live, launch, had, lost, orphans, offered>>
    BY <1>1, <1>8, <2>1 DEF Update!moveNext, Update!At, TypeOK, UpdaterStates
  <2>3. r \in UpdaterStates /\ UpdaterOK(r) /\ r.previous = up[u].previous
    BY <1>1, <1>2, <2>1, <2>2 DEF UpdaterStates, Places, UpdaterOK
  <2> QED BY <1>1, <2>2, <2>3, UpdaterStep
<1> QED BY <1>3, <1>4, <1>5, <1>6, <1>7, <1>8

\* The EXIT trap, a kill, and a cleanup that fails.
LEMMA EndingSteps ==
  ASSUME IInv, NEW u \in Updaters,
         \/ Update!ends(u) \/ (Update!cleanup(u) /\ ~Update!Restores(u)) \/ Update!cleanupFails(u)
         \/ Update!remove(u) \/ Update!kill(u)
  PROVE  IInv'
<1>1. TypeOK /\ UpdatersOK /\ up[u] \in UpdaterStates /\ UpdaterOK(up[u]) /\ offered \in Versions
  BY DEF IInv, TypeOK, UpdatersOK
<1>2. Update!Idle \in UpdaterStates /\ UpdaterOK(Update!Idle) /\ Update!Idle.previous = None /\ Update!Idle.at = "idle"
  BY DEF Update!Nothing, Stages, Parts, Update!Idle, UpdaterStates, Places, UpdaterOK, Good
<1>3. CASE up' = [up EXCEPT ![u] = Update!Idle] /\ up[u].at = "version" /\ UNCHANGED <<live, offered, orphans, lost, launch, had>>
  <2>1. up[u].previous = None
    BY <1>1, <1>3 DEF UpdaterOK
  <2> QED BY <1>1, <1>2, <1>3, <2>1, UpdaterStep
<1>4. CASE /\ up[u].at \in {"download", "shaders", "stage", "away", "install"} /\ Update!Goto(u, "cleanup")
           /\ UNCHANGED <<live, offered, orphans, lost, launch, had>>
  <2>1. PICK r : r = [up[u] EXCEPT !.at = "cleanup"]
    OBVIOUS
  <2>2. up' = [up EXCEPT ![u] = r]
    BY <1>4, <2>1 DEF Update!Goto
  <2>3. r \in UpdaterStates /\ UpdaterOK(r) /\ r.previous = up[u].previous
    BY <1>1, <2>1 DEF UpdaterStates, Places, UpdaterOK
  <2> QED BY <1>1, <1>4, <2>2, <2>3, UpdaterStep
<1>5. CASE Update!cleanup(u) /\ ~Update!Restores(u)
  <2>1. PICK r : r = [up[u] EXCEPT !.at = "remove"]
    OBVIOUS
  <2>2. up' = [up EXCEPT ![u] = r] /\ up[u].at = "cleanup" /\ UNCHANGED <<live, offered, orphans, lost, launch, had>>
    BY <1>5, <2>1 DEF Update!cleanup, Update!At, Update!Goto
  <2>3. r \in UpdaterStates /\ UpdaterOK(r) /\ r.previous = up[u].previous
    BY <1>1, <1>5, <2>1 DEF UpdaterStates, Places, UpdaterOK, Update!Restores
  <2> QED BY <1>1, <2>2, <2>3, UpdaterStep
<1>6. CASE Update!cleanupFails(u)
  <2>1. /\ up' = [up EXCEPT ![u] = Update!Idle] /\ up[u].at = "cleanup" /\ lost' = lost \cup {up[u].previous}
        /\ UNCHANGED <<live, offered, orphans, launch, had>>
    BY <1>6 DEF Update!cleanupFails, Update!At
  <2> QED BY <1>1, <1>2, <2>1, UpdaterStep
<1>7. CASE Update!remove(u)
  <2>1. /\ up' = [up EXCEPT ![u] = Update!Idle] /\ up[u].at = "remove" /\ UNCHANGED <<live, offered, orphans, lost, launch, had>>
    BY <1>7 DEF Update!remove, Update!At
  <2>2. up[u].previous = None \/ live # None
    BY <1>1, <2>1 DEF UpdaterOK
  <2> QED BY <1>1, <1>2, <2>1, <2>2, UpdaterStep
<1>8. CASE Update!kill(u)
  <2>1. /\ up' = [up EXCEPT ![u] = Update!Idle] /\ up[u].at # "idle" /\ lost' = lost \cup ({up[u].previous} \ {None})
        /\ orphans' \subseteq orphans \cup {u} /\ UNCHANGED <<live, offered, launch, had>>
    BY <1>8 DEF Update!kill, Update!At
  <2>2. up[u].previous = None \/ lost' # {}
    BY <2>1
  <2> QED BY <1>1, <1>2, <2>1, <2>2, UpdaterStep
<1> QED BY <1>3, <1>4, <1>5, <1>6, <1>7, <1>8 DEF Update!ends, Update!At

\* The two renames and the one that undoes the first.
LEMMA MovingSteps ==
  ASSUME None \notin Stages, IInv, NEW u \in Updaters,
         Update!movePrevious(u) \/ Update!install(u) \/ (Update!cleanup(u) /\ Update!Restores(u))
  PROVE  IInv'
<1>1. TypeOK /\ UpdatersOK /\ LocksOK /\ Update!InstalledWhole /\ Update!ClientKept /\ Update!RunsInstalled
      /\ up[u] \in UpdaterStates /\ UpdaterOK(up[u])
  BY DEF IInv, Update!Safety, TypeOK, UpdatersOK
<1>2. up[u].at # "idle" /\ UNCHANGED <<offered, orphans, launch, lost>> /\ (had' = had \/ live' = up[u].next)
  BY DEF Update!movePrevious, Update!install, Update!cleanup, Update!At
<1>3. launch.at # "running" /\ orphans = {} /\ \A v \in Updaters \ {u} : up[v].at = "idle" /\ up[v].previous = None
  BY <1>1, <1>2 DEF LocksOK, UpdatersOK, UpdaterOK
<1>4. Update!Clients \subseteq Stages
  BY DEF Update!Clients, Stages, Parts
<1>5. PICK r \in UpdaterStates :
        /\ up' = [up EXCEPT ![u] = r] /\ r.at # "idle" /\ r.at \notin {"shaders", "stage", "away"}
        /\ \/ /\ live' = None /\ r.previous = live /\ r.at = "install" /\ r.next = up[u].next /\ up[u].at = "away"
              /\ had' = had
           \/ /\ up[u].at = "install" /\ live' = up[u].next /\ r.at = "cleanup" /\ r.previous = up[u].previous
              /\ had' = TRUE
           \/ /\ live' = up[u].previous /\ up[u].previous # None /\ r.previous = None /\ r.at = "remove"
              /\ had' = had
  <2>1. CASE Update!movePrevious(u)
    <3>1. PICK r : r = [up[u] EXCEPT !.at = "install", !.previous = live]
      OBVIOUS
    <3>2. up' = [up EXCEPT ![u] = r] /\ live' = None /\ had' = had /\ up[u].at = "away"
      BY <1>1, <2>1, <3>1 DEF Update!movePrevious, Update!At, TypeOK, UpdaterStates
    <3>3. r \in UpdaterStates /\ r.at = "install" /\ r.previous = live /\ r.next = up[u].next
      BY <1>1, <3>1 DEF TypeOK, UpdaterStates, Places
    <3> QED BY <3>2, <3>3
  <2>2. CASE Update!install(u)
    <3>1. PICK r : r = [up[u] EXCEPT !.at = "cleanup", !.next = None]
      OBVIOUS
    <3>2. up' = [up EXCEPT ![u] = r] /\ up[u].at = "install" /\ live' = up[u].next /\ had' = TRUE
      BY <1>1, <2>2, <3>1 DEF Update!install, Update!At, TypeOK, UpdaterStates
    <3>3. r \in UpdaterStates /\ r.at = "cleanup" /\ r.previous = up[u].previous
      BY <1>1, <3>1 DEF UpdaterStates, Places
    <3> QED BY <3>2, <3>3
  <2>3. CASE Update!cleanup(u) /\ Update!Restores(u)
    <3>1. PICK r : r = [up[u] EXCEPT !.at = "remove", !.previous = None]
      OBVIOUS
    <3>2. up' = [up EXCEPT ![u] = r] /\ live' = up[u].previous /\ up[u].previous # None /\ had' = had
      BY <1>1, <2>3, <3>1 DEF Update!cleanup, Update!Restores, TypeOK, UpdaterStates
    <3>3. r \in UpdaterStates /\ r.at = "remove" /\ r.previous = None
      BY <1>1, <3>1 DEF UpdaterStates, Places
    <3> QED BY <3>2, <3>3
  <2> QED BY <2>1, <2>2, <2>3
<1>6. up' \in [Updaters -> UpdaterStates] /\ up'[u] = r /\ \A v \in Updaters \ {u} : up'[v] = up[v]
  BY <1>1, <1>5 DEF TypeOK
<1>7. up[u].at \in {"away", "install"} => Update!Whole(up[u].next) /\ up[u].next \in Stages /\ up[u].next # None
  BY <1>1, <1>4 DEF UpdaterOK, Update!Whole
<1>8. Good(live) /\ Good(up[u].previous)
  BY <1>1 DEF Update!InstalledWhole, Good, UpdaterOK
<1>9. live' \in Stages \cup {None} /\ Good(live')
  BY <1>1, <1>5, <1>7, <1>8 DEF UpdaterStates, Good
<1>10. TypeOK'
  BY <1>1, <1>2, <1>5, <1>6, <1>9 DEF TypeOK
<1>11. ASSUME NEW v \in Updaters PROVE UpdaterOK(up[v])'
  <2>1. CASE v = u
    <3>1. Good(r.previous)
      BY <1>5, <1>8 DEF Good
    <3>2. (r.at \in {"away", "install"} => Update!Whole(r.next)) /\ (r.at = "remove" /\ r.previous # None => live' # None)
      BY <1>5, <1>7
    <3>3. r.at \notin {"install", "cleanup", "remove"} => r.previous = None
      BY <1>5
    <3> QED BY <1>5, <1>6, <2>1, <3>1, <3>2, <3>3 DEF UpdaterOK
  <2>2. CASE v # u
    <3>1. UpdaterOK(up[v]) /\ up'[v] = up[v] /\ up[v].at = "idle"
      BY <1>1, <1>3, <1>6, <2>2 DEF UpdatersOK
    <3> QED BY <3>1 DEF UpdaterOK
  <2> QED BY <2>1, <2>2
<1>12. LocksOK'
  BY <1>2, <1>3, <1>6 DEF LocksOK
<1>13. Update!InstalledWhole' /\ Update!RunsInstalled'
  BY <1>2, <1>3, <1>9 DEF Update!InstalledWhole, Update!RunsInstalled, Good, Update!Whole, Update!Nothing
<1>14. Update!ClientKept'
  <2>1. CASE live' # None
    BY <2>1 DEF Update!ClientKept
  <2>2. CASE live' = None
    <3>1. r.previous = live /\ up[u].at = "away" /\ had' = had
      BY <1>5, <1>7, <2>2
    <3>2. up[u].previous = None
      BY <1>1, <3>1 DEF UpdaterOK
    <3>3. \A v \in Updaters : up[v].previous = None
      BY <1>3, <3>2
    <3>4. had /\ lost = {} => live # None
      BY <1>1, <3>3 DEF Update!ClientKept
    <3> QED BY <1>2, <1>6, <3>1, <3>4 DEF Update!ClientKept
  <2> QED BY <2>1, <2>2
<1> QED BY <1>10, <1>11, <1>12, <1>13, <1>14 DEF IInv, UpdatersOK, Update!Safety

\* The server, the end of an orphaned command, and launches.
LEMMA OtherSteps ==
  ASSUME None \notin Stages, IInv,
         \/ (\E v \in Versions : Update!serverChanges(v)) \/ (\E u \in Updaters : Update!orphanEnds(u))
         \/ Update!launchChecks \/ Update!launchLocks \/ Update!launchEnds \/ UNCHANGED Update!vars
  PROVE  IInv'
<1>1. TypeOK /\ UpdatersOK /\ LocksOK /\ Update!InstalledWhole /\ Update!ClientKept /\ Update!RunsInstalled
  BY DEF IInv, Update!Safety
<1>2. UNCHANGED <<up, lost, had>> /\ orphans' \subseteq orphans /\ offered' \in Versions
  BY <1>1 DEF Update!serverChanges, Update!orphanEnds, Update!launchChecks, Update!launchLocks, Update!launchEnds,
             Update!vars, TypeOK
<1>3. Update!Nothing \in Stages
  BY DEF Update!Nothing, Stages, Parts
<1>4. live' = live \/ (live = None /\ live' = Update!Nothing /\ ~Update!Locked)
  BY DEF Update!serverChanges, Update!orphanEnds, Update!launchChecks, Update!launchLocks, Update!launchEnds, Update!vars
<1>5. TypeOK'
  BY <1>1, <1>2, <1>3, <1>4 DEF TypeOK
<1>6. UpdatersOK'
  BY <1>1, <1>2, <1>3, <1>4 DEF UpdatersOK, UpdaterOK, Good, Update!Whole, Update!Nothing
<1>7. \/ launch'.at # "running"
      \/ launch'.at = "running" /\ launch' = launch /\ live' = live
      \/ launch'.at = "running" /\ launch'.client = live /\ live' = live /\ ~Update!Locked /\ orphans' = orphans
  <2>1. CASE Update!launchChecks
    BY <2>1 DEF Update!launchChecks
  <2>2. CASE Update!launchLocks
    BY <2>2 DEF Update!launchLocks
  <2>3. CASE Update!launchEnds
    BY <2>3 DEF Update!launchEnds
  <2>4. CASE UNCHANGED <<live, launch>>
    BY <2>4
  <2> QED BY <2>1, <2>2, <2>3, <2>4 DEF Update!serverChanges, Update!orphanEnds, Update!vars
<1>8. LocksOK'
  BY <1>1, <1>2, <1>7 DEF LocksOK, Update!Locked
<1>9. Update!InstalledWhole' /\ Update!RunsInstalled'
  BY <1>1, <1>4, <1>7 DEF Update!InstalledWhole, Update!RunsInstalled, Update!Whole, Update!Nothing
<1>10. Update!ClientKept'
  BY <1>1, <1>2, <1>3, <1>4 DEF Update!ClientKept
<1> QED BY <1>5, <1>6, <1>8, <1>9, <1>10 DEF IInv, Update!Safety

-----------------------------------------------------------------------------
(* The theorem *)

\* Nothing runs and the installed client, if any, is whole.
LEMMA InitHolds == ASSUME Update!Init PROVE IInv
<1>1. Update!Idle \in UpdaterStates /\ Update!Idle.previous = None /\ Update!Idle.at = "idle"
  BY DEF Update!Nothing, Stages, Parts, Update!Idle, UpdaterStates, Places
<1>2. live = None \/ (Update!Whole(live) /\ live \in Stages)
  BY DEF Update!Init, Update!Whole, Update!Clients, Stages, Parts
<1>3. TypeOK
  BY <1>1, <1>2 DEF Update!Init, TypeOK
<1>4. UpdatersOK
  BY <1>1 DEF Update!Init, UpdatersOK, UpdaterOK, Good
<1>5. LocksOK
  BY <1>1 DEF Update!Init, LocksOK
<1>6. Update!Safety
  BY <1>2 DEF Update!Init, Update!Safety, Update!InstalledWhole, Update!ClientKept, Update!RunsInstalled
<1> QED BY <1>3, <1>4, <1>5, <1>6 DEF IInv

\* Every step of an updater, a launch or the server keeps it so.
LEMMA NextKeeps == ASSUME None \notin Stages, IInv, [Update!Next]_(Update!vars) PROVE IInv'
<1>1. CASE \E u \in Updaters : \/ Update!begin(u) \/ Update!upToDate(u) \/ Update!makeTemp(u)
                               \/ Update!downloadClient(u) \/ Update!prepareShaders(u) \/ Update!moveNext(u)
  BY <1>1, PreparingSteps
<1>2. CASE \E u \in Updaters : \/ Update!ends(u) \/ (Update!cleanup(u) /\ ~Update!Restores(u)) \/ Update!cleanupFails(u)
                               \/ Update!remove(u) \/ Update!kill(u)
  BY <1>2, EndingSteps
<1>3. CASE \E u \in Updaters : Update!movePrevious(u) \/ Update!install(u) \/ (Update!cleanup(u) /\ Update!Restores(u))
  BY <1>3, MovingSteps
<1>4. CASE \/ (\E v \in Versions : Update!serverChanges(v)) \/ (\E u \in Updaters : Update!orphanEnds(u))
           \/ Update!launchChecks \/ Update!launchLocks \/ Update!launchEnds \/ UNCHANGED Update!vars
  BY <1>4, OtherSteps
<1> QED BY <1>1, <1>2, <1>3, <1>4 DEF Update!Next, Update!Update

\* A step of a behaviour is a step of its part.
LEMMA DesktopStep ==
  ASSUME [Next]_vv
  PROVE  part' = part /\ (part = "update" => [Update!Next]_(Update!vars))
<1>1. CASE Next
  <2>1. part' = part
    BY <1>1 DEF Next, SemStep, PollsStep, ReuseStep, ForkStep, ProfStep, ExportStep, SamplesStep, BridgeStep, ScriptsStep,
             PointerStep, WindowStep, DeliveryStep, HttpStep, RedirectStep, VideoStep, UpdateStep
  <2>2. part = "update" => UpdateStep
    BY <1>1 DEF Next, SemStep, PollsStep, ReuseStep, ForkStep, ProfStep, ExportStep, SamplesStep, BridgeStep, ScriptsStep,
             PointerStep, WindowStep, DeliveryStep, HttpStep, RedirectStep, VideoStep
  <2> QED BY <2>1, <2>2 DEF UpdateStep
<1>2. CASE UNCHANGED vv
  <2>1. UNCHANGED <<part, v1, v2, v3, v4, v5, v6, v7, v8, v9>>
    BY <1>2 DEF vv
  <2> QED BY <2>1 DEF Update!vars
<1> QED BY <1>1, <1>2

\* ClientKeptWhole, which the run `desktop` checks.  However updates and
\* launches race, fail or are killed: the installed client is whole, it is kept
\* or can be put back unless a kill or a failing cleanup hit between the
\* renames, and no update moves away a client that runs (update-roblox.sh).
\* The one assumption: "no client" is not a client.
THEOREM ClientStaysSafe ==
  ASSUME None \notin Stages
  PROVE  Spec => []ClientKeptWhole
<1> DEFINE Inv == part = "update" => IInv
<1>1. Init => Inv
  BY InitHolds DEF Init
<1>2. Inv /\ [Next]_vv => Inv'
  BY DesktopStep, NextKeeps
<1>3. Inv => ClientKeptWhole
  BY DEF IInv, ClientKeptWhole
<1> QED BY <1>1, <1>2, <1>3, PTL DEF Spec
=============================================================================
