---------------------------- MODULE PipelineCache ----------------------------
(***************************************************************************)
(* The Vulkan pipeline cache on disk (native/renderer/device.cpp): loaded  *)
(* when the device is created, saved by compiling threads and by the       *)
(* device's destructor.  A cache image is the driver that wrote it, the    *)
(* pipelines in it and whether all of its bytes are there.                 *)
(***************************************************************************)
EXTENDS Naturals, FiniteSets

CONSTANTS Threads, Drivers, Pipelines,
    None,       \* no file, no thread
    MaxStarts,  \* bound: sessions
    MaxTicks    \* bound: times the save interval runs out

VARIABLES
    up,         \* "up", "down" or "closing": the process and its device
    drv,        \* the installed driver
    mem,        \* pipelines in the driver's cache
    recent,     \* the last save is less than ten seconds old
    holder,     \* owner of _pipelineCacheMutex
    pc, image,  \* what each thread does, and the data it saves
    file, tmp,  \* the two files
    kept,       \* pipelines of a session that ended in good order, or None
    used        \* [starts, ticks]: bounds

vars == <<up, drv, mem, recent, holder, pc, image, file, tmp, kept, used>>

Init ==
    /\ up = "down" /\ drv \in Drivers /\ mem = {} /\ recent = FALSE /\ holder = None
    /\ pc = [t \in Threads |-> "idle"] /\ image = [t \in Threads |-> {}]
    /\ file = None /\ tmp = None /\ kept = None /\ used = [starts |-> 0, ticks |-> 0]

\* Only an image of this very device and driver is used.
Accepts(f) == f # None /\ f.drv = drv
loadPipelineCache ==
    /\ up = "down" /\ used.starts < MaxStarts /\ used' = [used EXCEPT !.starts = @ + 1]
    /\ up' = "up" /\ recent' = FALSE /\ mem' = IF Accepts(file) THEN file.ents ELSE {}
    /\ kept' = None /\ UNCHANGED <<drv, holder, pc, image, file, tmp>>

\* A thread compiles a pipeline and calls savePipelineCache.
compilePipeline(t, p) ==
    /\ up = "up" /\ pc[t] = "idle" /\ p \notin mem /\ mem' = mem \cup {p} /\ pc' = [pc EXCEPT ![t] = "save"]
    /\ UNCHANGED <<up, drv, recent, holder, image, file, tmp, kept, used>>

Force == up = "closing"
Returned == IF up = "closing" THEN "done" ELSE "idle"
Mut_TryLock == TRUE
TryLock == holder = None
\* Without force: not while another thread saves, and not within ten seconds.
enterSave(t) ==
    /\ pc[t] = "save" /\ (Force => TryLock)
    /\ IF TryLock /\ (Force \/ ~recent)
       THEN holder' = t /\ recent' = TRUE /\ pc' = [pc EXCEPT ![t] = "sized"] /\ image' = [image EXCEPT ![t] = mem]
       ELSE UNCHANGED <<holder, recent, image>> /\ pc' = [pc EXCEPT ![t] = Returned]
    /\ UNCHANGED <<up, drv, mem, file, tmp, kept, used>>

Leave(t) == holder' = None /\ pc' = [pc EXCEPT ![t] = Returned]
\* The data is fetched after its size: VK_INCOMPLETE when the cache has grown.
fetch(t) ==
    /\ pc[t] = "sized"
    /\ IF image[t] = mem THEN pc' = [pc EXCEPT ![t] = "fetched"] /\ UNCHANGED holder ELSE Leave(t)
    /\ UNCHANGED <<up, drv, mem, recent, image, file, tmp, kept, used>>
openTemporary(t) ==
    /\ pc[t] = "fetched"
    /\ \/ /\ tmp' = [drv |-> drv, ents |-> image[t], whole |-> FALSE]
          /\ pc' = [pc EXCEPT ![t] = "open"] /\ UNCHANGED <<holder, kept>>
       \/ Leave(t) /\ kept' = None /\ UNCHANGED tmp       \* fopen fails
    /\ UNCHANGED <<up, drv, mem, recent, image, file, used>>
\* fwrite and fclose succeed together or the temporary file is removed.
Written(ok) == ok
writeTemporary(t) ==
    /\ pc[t] = "open"
    /\ \E ok \in BOOLEAN :
         /\ tmp' = [drv |-> drv, ents |-> image[t], whole |-> ok]
         /\ pc' = [pc EXCEPT ![t] = IF Written(ok) THEN "rename" ELSE "remove"]
         /\ kept' = IF ok THEN kept ELSE None
    /\ UNCHANGED <<up, drv, mem, recent, holder, image, file, used>>
replace(t) ==
    /\ pc[t] \in {"rename", "remove"} /\ Leave(t) /\ tmp' = None
    /\ file' = IF pc[t] = "rename" THEN tmp ELSE file
    /\ UNCHANGED <<up, drv, mem, recent, image, kept, used>>

\* ~PrivateDevice: no compile runs any more; its save is forced.
close(t) ==
    /\ up = "up" /\ \A u \in Threads : pc[u] = "idle"
    /\ up' = "closing" /\ pc' = [pc EXCEPT ![t] = "save"] /\ kept' = mem
    /\ UNCHANGED <<drv, mem, recent, holder, image, file, tmp, used>>

\* The process ends, after the destructor or at any other moment; a driver may
\* be installed before the next session.
exit ==
    /\ up # "down" /\ up' = "down" /\ drv' \in Drivers /\ mem' = {} /\ recent' = FALSE /\ holder' = None
    /\ pc' = [t \in Threads |-> "idle"] /\ image' = [t \in Threads |-> {}]
    /\ kept' = IF drv' = drv /\ \E t \in Threads : pc[t] = "done" THEN kept ELSE None
    /\ UNCHANGED <<file, tmp, used>>
tick ==
    /\ recent /\ used.ticks < MaxTicks /\ recent' = FALSE /\ used' = [used EXCEPT !.ticks = @ + 1]
    /\ UNCHANGED <<up, drv, mem, holder, pc, image, file, tmp, kept>>

Next ==
    \/ loadPipelineCache \/ exit \/ tick
    \/ \E t \in Threads : enterSave(t) \/ fetch(t) \/ openTemporary(t) \/ writeTemporary(t) \/ replace(t) \/ close(t)
    \/ \E t \in Threads, p \in Pipelines : compilePipeline(t, p)
Spec == Init /\ [][Next]_vars

-----------------------------------------------------------------------------
\* A step never leaves half a cache for a reader, wherever it is interrupted.
FileWhole == file' # None => file'.whole

\* A session of the same driver starts with every pipeline that the session
\* before it, closed in good order, had.
WarmStart == (loadPipelineCache /\ kept # None) => mem' = kept

\* A save never drops a pipeline from a file of the same driver, whichever
\* threads save, and whatever they fetched before.
SavedNeverLost ==
    (file # None /\ file' # None /\ file'.drv = file.drv) => file.ents \subseteq file'.ents

SafeStep == FileWhole /\ WarmStart /\ SavedNeverLost
=============================================================================
