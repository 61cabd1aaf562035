----------------------------- MODULE ClientUpdate -----------------------------
(***************************************************************************)
(* Updating the installed client (runtime/package/update-roblox.sh with    *)
(* scripts/fetch-client.sh) and launching it (runtime/bin/roblox-mac).     *)
(*                                                                         *)
(* A client is its application, its shader cache and its .version file; a  *)
(* part is the version it was made from, or None.  Directories are moved   *)
(* by renames.  Every command may fail, a handled signal ends the script   *)
(* at its next command, and kill -9 or a power cut ends it anywhere; the   *)
(* command it was running goes on with the locks it inherited.             *)
(***************************************************************************)
EXTENDS Naturals, FiniteSets

CONSTANTS
    Updaters,
    Versions,   \* what the server may offer
    MaxRuns,    \* bound: updates and launches
    MaxKills,   \* bound: kills
    None

VARIABLES
    live,       \* $HERE/RobloxVersion: a client, or None
    offered,    \* the server's current version
    up,         \* per updater [at, wants, stage, next, previous]: tmp's content
    orphans,    \* updaters that were killed while a command of theirs runs
    lost,       \* what killed updaters left in their directories
    launch,     \* [at, client]: a launch, and what it runs
    had,        \* history: whether a client was ever installed
    bounds      \* [runs, kills]
vars == <<live, offered, up, orphans, lost, launch, had, bounds>>

Nothing == [app |-> None, cache |-> None, version |-> None]
Idle == [at |-> "idle", wants |-> None, stage |-> Nothing, next |-> None, previous |-> None]
Clients == [app : Versions, cache : Versions, version : Versions]
Whole(c) == c \in Clients /\ c.app = c.cache /\ c.app = c.version

Init ==
    /\ \E v \in Versions : offered = v
    /\ live \in {None} \cup {[app |-> v, cache |-> v, version |-> v] : v \in Versions}
    /\ up = [u \in Updaters |-> Idle] /\ orphans = {} /\ lost = {} /\ launch = [at |-> "idle", client |-> None]
    /\ had = (live # None)
    /\ bounds = [runs |-> 0, kills |-> 0]

At(u, at) == up[u].at = at
Goto(u, at) == up' = [up EXCEPT ![u].at = at]
\* Both locks are taken together: nobody takes the second without the first.
Locked == (\E u \in Updaters : up[u].at # "idle") \/ orphans # {} \/ launch.at = "running"

serverChanges(v) == offered # v /\ offered' = v /\ UNCHANGED <<live, up, orphans, lost, launch, had, bounds>>

-----------------------------------------------------------------------------
(* update-roblox.sh *)

begin(u) ==
    /\ At(u, "idle") /\ ~Locked /\ bounds.runs < MaxRuns
    /\ up' = [up EXCEPT ![u] = [Idle EXCEPT !.at = "version", !.wants = offered]]
    /\ bounds' = [bounds EXCEPT !.runs = @ + 1] /\ UNCHANGED <<live, offered, orphans, lost, launch, had>>

UpToDate(u) == live # None /\ live.version = up[u].wants /\ live.app # None /\ live.cache # None
upToDate(u) ==
    /\ At(u, "version") /\ UpToDate(u) /\ up' = [up EXCEPT ![u] = Idle]
    /\ UNCHANGED <<live, offered, orphans, lost, launch, had, bounds>>
makeTemp(u) ==
    /\ At(u, "version") /\ ~UpToDate(u) /\ Goto(u, "download")
    /\ UNCHANGED <<live, offered, orphans, lost, launch, had, bounds>>

\* fetch-client.sh asks for the version again; it moves the application out of
\* its own temporary directory and writes .version last.
downloadClient(u) ==
    /\ At(u, "download")
    /\ up' = [up EXCEPT ![u].at = "shaders", ![u].stage = [@ EXCEPT !.app = offered, !.version = offered]]
    /\ UNCHANGED <<live, offered, orphans, lost, launch, had, bounds>>
\* prepare-cache.py writes report.json last.
prepareShaders(u) ==
    /\ At(u, "shaders")
    /\ up' = [up EXCEPT ![u].at = "stage", ![u].stage.cache = up[u].stage.app]
    /\ UNCHANGED <<live, offered, orphans, lost, launch, had, bounds>>
moveNext(u) ==
    /\ At(u, "stage") /\ up' = [up EXCEPT ![u].at = "away", ![u].next = up[u].stage, ![u].stage = Nothing]
    /\ UNCHANGED <<live, offered, orphans, lost, launch, had, bounds>>
movePrevious(u) ==
    /\ At(u, "away") /\ up' = [up EXCEPT ![u].at = "install", ![u].previous = live] /\ live' = None
    /\ UNCHANGED <<offered, orphans, lost, launch, had, bounds>>
install(u) ==
    /\ At(u, "install") /\ live' = up[u].next /\ had' = TRUE
    /\ up' = [up EXCEPT ![u].at = "cleanup", ![u].next = None]
    /\ UNCHANGED <<offered, orphans, lost, launch, bounds>>

\* Mutant: cleanup only removes.
RestoreNothing(u) == FALSE
\* The EXIT trap, after success, failure or a signal.  Before mktemp there is
\* nothing to clean up; a cleanup that fails leaves the directory.
Restores(u) == up[u].previous # None /\ live = None
ends(u) ==
    /\ \/ At(u, "version") /\ up' = [up EXCEPT ![u] = Idle]
       \/ up[u].at \in {"download", "shaders", "stage", "away", "install"} /\ Goto(u, "cleanup")
    /\ UNCHANGED <<live, offered, orphans, lost, launch, had, bounds>>
cleanup(u) ==
    /\ At(u, "cleanup")
    /\ IF Restores(u) THEN live' = up[u].previous /\ up' = [up EXCEPT ![u].at = "remove", ![u].previous = None]
       ELSE Goto(u, "remove") /\ UNCHANGED live
    /\ UNCHANGED <<offered, orphans, lost, launch, had, bounds>>
cleanupFails(u) ==
    /\ At(u, "cleanup") /\ Restores(u) /\ lost' = lost \cup {up[u].previous}
    /\ up' = [up EXCEPT ![u] = Idle]
    /\ UNCHANGED <<live, offered, orphans, launch, had, bounds>>
remove(u) ==
    /\ At(u, "remove") /\ up' = [up EXCEPT ![u] = Idle]
    /\ UNCHANGED <<live, offered, orphans, lost, launch, had, bounds>>

\* A killed script leaves its directory; a running download keeps the locks.
kill(u) ==
    /\ ~At(u, "idle") /\ bounds.kills < MaxKills /\ bounds' = [bounds EXCEPT !.kills = @ + 1]
    /\ orphans' = IF up[u].at \in {"version", "download", "shaders"} THEN orphans \cup {u} ELSE orphans
    /\ lost' = lost \cup ({up[u].previous} \ {None}) /\ up' = [up EXCEPT ![u] = Idle]
    /\ UNCHANGED <<live, offered, launch, had>>
orphanEnds(u) == u \in orphans /\ orphans' = orphans \ {u} /\ UNCHANGED <<live, offered, up, lost, launch, had, bounds>>

-----------------------------------------------------------------------------
(* roblox-mac: it looks for the client, then takes the instance lock *)

launchChecks ==
    /\ launch.at = "idle" /\ bounds.runs < MaxRuns /\ live # None /\ live.app # None /\ live.cache # None
    /\ launch' = [launch EXCEPT !.at = "checked"] /\ bounds' = [bounds EXCEPT !.runs = @ + 1]
    /\ UNCHANGED <<live, offered, up, orphans, lost, had>>
\* Settings are written into the client; when it is gone that makes an empty
\* directory, and the launch fails.
launchLocks ==
    /\ launch.at = "checked"
    /\ launch' = IF Locked \/ live = None THEN [at |-> "idle", client |-> None] ELSE [at |-> "running", client |-> live]
    /\ live' = IF ~Locked /\ live = None THEN Nothing ELSE live
    /\ UNCHANGED <<offered, up, orphans, lost, had, bounds>>
launchEnds ==
    /\ launch.at = "running" /\ launch' = [at |-> "idle", client |-> None]
    /\ UNCHANGED <<live, offered, up, orphans, lost, had, bounds>>

Update(u) ==
    \/ begin(u) \/ upToDate(u) \/ makeTemp(u) \/ downloadClient(u) \/ prepareShaders(u) \/ moveNext(u)
    \/ movePrevious(u) \/ install(u) \/ ends(u) \/ cleanup(u) \/ cleanupFails(u) \/ remove(u) \/ kill(u) \/ orphanEnds(u)
Next ==
    \/ \E v \in Versions : serverChanges(v)
    \/ \E u \in Updaters : Update(u)
    \/ launchChecks \/ launchLocks \/ launchEnds

Spec == Init /\ [][Next]_vars

-----------------------------------------------------------------------------
\* The installed client is whole whatever fails, is killed or changes at the
\* server between two commands: application, cache and .version belong together.
InstalledWhole == live \in {None, Nothing} \/ Whole(live)

\* A client is never lost ("a failed download must preserve the installed
\* client"): it is installed or its updater can still put it back, unless a
\* kill or a failing cleanup between the two renames left it behind.
ClientKept == had /\ lost = {} => live # None \/ \E u \in Updaters : up[u].previous # None

\* No update moves away a client that runs.
RunsInstalled == launch.at = "running" => launch.client = live

Safety == InstalledWhole /\ ClientKept /\ RunsInstalled
=============================================================================
