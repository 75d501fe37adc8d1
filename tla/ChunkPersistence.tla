-------------------------- MODULE ChunkPersistence --------------------------
(***************************************************************************)
(* The life of a chunk holder between memory and storage: it is loaded,    *)
(* changed by the game thread, by generation steps and by light            *)
(* propagation, moved to `unloading_chunks`, revived from there, saved by  *)
(* asynchronous tasks, and finally dropped (steel-core/src/chunk:          *)
(* chunk_holder.rs, chunk_map/persistence.rs, generation_readiness.rs and  *)
(* light_updates.rs).                                                      *)
(*                                                                         *)
(* Threads.  One game thread per world runs the chunk-source phase, block  *)
(* changes and process_unloads.  Save tasks and the producers of           *)
(* generation steps run on the chunk runtime.  Light propagation runs on   *)
(* the game thread or on the save task of any chunk in the window, so a    *)
(* light writer is a process of its own here.                              *)
(*                                                                         *)
(* The content of a chunk is a function from its sections to version       *)
(* numbers: every write stamps a section with a version never used before, *)
(* so two contents are equal only if they are the same data.  Storage      *)
(* keeps one content per chunk and a save replaces it in one step; the     *)
(* region file behind it is module RegionFile.                             *)
(*                                                                         *)
(* mem[c] keeps the last content of a chunk after its holder is dropped;   *)
(* there it is a history variable, which no action reads.                  *)
(***************************************************************************)
EXTENDS Naturals, FiniteSets

CONSTANTS
    Chunks,      \* chunk positions
    Sections,    \* independently locked parts of a chunk
    SaveTasks,   \* identities of save tasks
    MaxVersion,  \* bound on the number of writes to one chunk
    MaxReleases  \* bound on the release tasks of one chunk under way at once

ASSUME MaxVersionAssumption == MaxVersion \in Nat \ {0}
ASSUME MaxReleasesAssumption == MaxReleases \in Nat \ {0}

VARIABLES
    map,        \* where the holder is: absent, active, unloading, or in transit
    lifecycle,  \* save_lifecycle of the holder
    status,     \* none, low (below StructureStarts) or saveable
    mem,        \* content of each section in memory
    version,    \* last version used by a write to the chunk
    dirty,      \* the dirty flag of the chunk data
    light,      \* progress of a light update whose window covers the chunk
    producer,   \* progress of the generation step that holds the chunk
    pc,         \* progress of each save task
    target,     \* the chunk it saves
    snap,       \* what it has copied of each section
    torn,       \* history: the game thread changed the chunk between two copies
    disk,       \* content in storage
    handles,    \* acquire_chunk minus release_chunk calls for the chunk
    releases,   \* release tasks spawned and not finished
    missed,     \* history: a light change found the holder in neither map
    phase,      \* running, draining, saving, closed
    tosave      \* holders save_all_chunks has not visited yet

vars == <<map, lifecycle, status, mem, version, dirty, light, producer, pc, target,
          snap, torn, disk, handles, releases, missed, phase, tosave>>

holderVars == <<map, lifecycle, status>>
dataVars == <<mem, version, dirty, missed>>
taskVars == <<pc, target, snap, torn>>
storeVars == <<disk, handles, releases>>
runVars == <<phase, tosave>>

Version == 0..MaxVersion
Content == [Sections -> Version]
NoData == [s \in Sections |-> 0]
Unread == MaxVersion + 1

MapState == {"absent", "active", "leaving", "unloading", "returning"}
Lifecycle == {"ACTIVE", "UNLOADING", "PREPARING"}
LightState == {"idle", "queued", "writing", "written", "lookup", "marked"}
ProducerState == {"none", "acquiring", "loading", "creating", "working"}
TaskState == {"idle", "flush", "prepare", "began", "copying", "writing"}

NothingRead == [s \in Sections |-> Unread]

-----------------------------------------------------------------------------
(* Reference counts.  A save task clones the holder's Arc, and so does the *)
(* producer of a generation step (directly and through its save            *)
(* dependency) and a light workset; the map holds one reference.           *)

TasksOf(c) == {t \in SaveTasks : pc[t] # "idle" /\ target[t] = c}

\* Mutant: the references of save tasks are not counted.
StrongCountIgnoringTasks(c) ==
    /\ producer[c] = "none"
    /\ light[c] \notin {"writing", "written", "lookup"}

StrongCountIsOne(c) ==
    /\ TasksOf(c) = {}
    /\ producer[c] = "none"
    /\ light[c] \notin {"writing", "written", "lookup"}

\* LightUpdateState::touches_chunk: a queued or in-flight update covers c.
TouchesChunk(c) == light[c] # "idle"

HasHolder(c) == map[c] # "absent"

\* The maps change only on the game thread, which does nothing else while a
\* holder is between them.
GameThreadFree ==
    /\ phase = "running"
    /\ \A c \in Chunks : map[c] \notin {"leaving", "returning"}

-----------------------------------------------------------------------------
Init ==
    /\ map = [c \in Chunks |-> "absent"]
    /\ lifecycle = [c \in Chunks |-> "ACTIVE"]
    /\ status = [c \in Chunks |-> "none"]
    /\ mem = [c \in Chunks |-> NoData]
    /\ version = [c \in Chunks |-> 0]
    /\ dirty = [c \in Chunks |-> FALSE]
    /\ light = [c \in Chunks |-> "idle"]
    /\ producer = [c \in Chunks |-> "none"]
    /\ pc = [t \in SaveTasks |-> "idle"]
    /\ target \in [SaveTasks -> Chunks]
    /\ snap = [t \in SaveTasks |-> NothingRead]
    /\ torn = [t \in SaveTasks |-> FALSE]
    /\ disk = [c \in Chunks |-> NoData]
    /\ handles = [c \in Chunks |-> 0]
    /\ releases = [c \in Chunks |-> 0]
    /\ missed = [c \in Chunks |-> FALSE]
    /\ phase = "running"
    /\ tosave = {}

-----------------------------------------------------------------------------
(* Game thread: the maps.                                                  *)

\* update_chunk_level, no holder in either map: a new one is inserted.
CreateHolder(c) ==
    /\ GameThreadFree
    /\ map[c] = "absent"
    /\ map' = [map EXCEPT ![c] = "active"]
    /\ lifecycle' = [lifecycle EXCEPT ![c] = "ACTIVE"]
    /\ status' = [status EXCEPT ![c] = "none"]
    /\ dirty' = [dirty EXCEPT ![c] = FALSE]
    /\ UNCHANGED <<mem, version, missed, light, producer, taskVars, storeVars, runVars>>

\* begin_chunk_unload up to the removal from `chunks`.
BeginChunkUnload(c) ==
    /\ GameThreadFree
    /\ map[c] = "active"
    /\ map' = [map EXCEPT ![c] = "leaving"]
    /\ lifecycle' = [lifecycle EXCEPT ![c] = "UNLOADING"]
    /\ UNCHANGED <<status, dataVars, light, producer, taskVars, storeVars, runVars>>

\* ... and the insertion into `unloading_chunks`.
EnterUnloadingMap(c) ==
    /\ map[c] = "leaving"
    /\ map' = [map EXCEPT ![c] = "unloading"]
    /\ UNCHANGED <<lifecycle, status, dataVars, light, producer, taskVars, storeVars, runVars>>

\* update_chunk_level, holder found in `unloading_chunks`: removed from it
\* and revived (revive_from_unloading: any lifecycle but ACTIVE becomes ACTIVE).
ReviveFromUnloading(c) ==
    /\ GameThreadFree
    /\ map[c] = "unloading"
    /\ map' = [map EXCEPT ![c] = "returning"]
    /\ lifecycle' = [lifecycle EXCEPT ![c] = "ACTIVE"]
    /\ UNCHANGED <<status, dataVars, light, producer, taskVars, storeVars, runVars>>

\* ... and inserted into `chunks`.
EnterActiveMap(c) ==
    /\ map[c] = "returning"
    /\ map' = [map EXCEPT ![c] = "active"]
    /\ UNCHANGED <<lifecycle, status, dataVars, light, producer, taskVars, storeVars, runVars>>

-----------------------------------------------------------------------------
(* Writes.                                                                 *)

\* A block change of the game thread: the sections, then the dirty flag.
ModifyActive(c) ==
    /\ GameThreadFree
    /\ map[c] = "active" /\ status[c] = "saveable"
    /\ version[c] < MaxVersion
    /\ \E S \in (SUBSET Sections) \ {{}} :
          mem' = [mem EXCEPT ![c] = [s \in Sections |->
                     IF s \in S THEN version[c] + 1 ELSE mem[c][s]]]
    /\ version' = [version EXCEPT ![c] = @ + 1]
    /\ dirty' = [dirty EXCEPT ![c] = TRUE]
    /\ torn' = [t \in SaveTasks |->
                  \/ torn[t]
                  \/ t \in TasksOf(c) /\ pc[t] = "copying" /\ snap[t] # NothingRead]
    /\ UNCHANGED <<holderVars, light, producer, pc, target, snap, storeVars, missed, runVars>>

WriteSection(c, s) ==
    /\ version[c] < MaxVersion
    /\ mem' = [mem EXCEPT ![c][s] = version[c] + 1]
    /\ version' = [version EXCEPT ![c] = @ + 1]

\* queue_light_change: only for a center whose holder has reached Light.
QueueLightChange(c) ==
    /\ GameThreadFree
    /\ HasHolder(c) /\ status[c] = "saveable"
    /\ light[c] = "idle" /\ version[c] < MaxVersion
    /\ light' = [light EXCEPT ![c] = "queued"]
    /\ UNCHANGED <<holderVars, dataVars, producer, taskVars, storeVars, runVars>>

\* propagate_queued_light_change: the workset clones the holders it finds in
\* either map; without them the update is dropped with a warning.
LightSetup(c) ==
    /\ light[c] = "queued"
    /\ light' = [light EXCEPT ![c] =
                    IF map[c] \in {"active", "unloading"} THEN "writing" ELSE "marked"]
    /\ UNCHANGED <<holderVars, dataVars, producer, taskVars, storeVars, runVars>>

LightWrite(c, s) ==
    /\ light[c] \in {"writing", "written"}
    /\ WriteSection(c, s)
    /\ light' = [light EXCEPT ![c] = "written"]
    /\ UNCHANGED <<holderVars, dirty, missed, producer, taskVars, storeVars, runVars>>

\* No section of c changed: light_changed is not called for it.
LightUnchanged(c) ==
    /\ light[c] = "writing"
    /\ light' = [light EXCEPT ![c] = "marked"]
    /\ UNCHANGED <<holderVars, dataVars, producer, taskVars, storeVars, runVars>>

\* ChunkMap::light_changed, the lookup in `chunks`.
LightChangedActive(c) ==
    /\ light[c] = "written"
    /\ light' = [light EXCEPT ![c] = IF map[c] = "active" THEN "marked" ELSE "lookup"]
    /\ dirty' = [dirty EXCEPT ![c] = @ \/ map[c] = "active"]
    /\ UNCHANGED <<holderVars, mem, version, missed, producer, taskVars, storeVars, runVars>>

\* ... and, when that found nothing, the lookup in `unloading_chunks`.
LightChangedUnloading(c) ==
    /\ light[c] = "lookup"
    /\ light' = [light EXCEPT ![c] = "marked"]
    /\ dirty' = [dirty EXCEPT ![c] = @ \/ map[c] = "unloading"]
    /\ missed' = [missed EXCEPT ![c] = @ \/ map[c] # "unloading"]
    /\ UNCHANGED <<holderVars, mem, version, producer, taskVars, storeVars, runVars>>

\* Drop of InFlightLightUpdates: finish_in_flight and notify_waiters.
FinishInFlight(c) ==
    /\ light[c] = "marked"
    /\ light' = [light EXCEPT ![c] = "idle"]
    /\ UNCHANGED <<holderVars, dataVars, producer, taskVars, storeVars, runVars>>

-----------------------------------------------------------------------------
(* Producers of generation steps (apply_step and what it spawns).  The     *)
(* status of a chunk is disallowed exactly while its holder is not active. *)

Disallowed(c) == map[c] # "active"

\* The step is spawned: claim, Arc and save dependency.
StartStep(c) ==
    /\ phase = "running"
    /\ map[c] = "active" /\ producer[c] = "none"
    /\ version[c] < MaxVersion
    /\ producer' = [producer EXCEPT ![c] =
                       IF status[c] = "none" THEN "acquiring" ELSE "working"]
    /\ UNCHANGED <<holderVars, dataVars, light, taskVars, storeVars, runVars>>

\* apply_empty_step: acquire_chunk fails, or the status is disallowed after
\* it and the handle is released again.
AcquireGivesUp(c) ==
    /\ producer[c] = "acquiring"
    /\ producer' = [producer EXCEPT ![c] = "none"]
    /\ UNCHANGED <<holderVars, dataVars, light, taskVars, storeVars, runVars>>

\* acquire_chunk succeeds: load what exists, else create an Empty chunk.
AcquireChunk(c) ==
    /\ producer[c] = "acquiring" /\ ~Disallowed(c)
    /\ handles' = [handles EXCEPT ![c] = @ + 1]
    /\ producer' = [producer EXCEPT ![c] =
                       IF disk[c] # NoData THEN "loading" ELSE "creating"]
    /\ UNCHANGED <<holderVars, dataVars, light, taskVars, disk, releases, runVars>>

\* load_chunk fails, or the status became disallowed: the handle is released.
GiveUpAcquired(c) ==
    /\ producer[c] \in {"loading", "creating"}
    /\ producer[c] = "loading" \/ Disallowed(c)
    /\ handles' = [handles EXCEPT ![c] = @ - 1]
    /\ producer' = [producer EXCEPT ![c] = "none"]
    /\ UNCHANGED <<holderVars, dataVars, light, taskVars, disk, releases, runVars>>

\* apply_existing_empty_step: the stored content is published, clean.
PublishLoaded(c) ==
    /\ producer[c] = "loading"
    /\ mem' = [mem EXCEPT ![c] = disk[c]]
    /\ dirty' = [dirty EXCEPT ![c] = FALSE]
    /\ status' = [status EXCEPT ![c] = "saveable"]
    /\ producer' = [producer EXCEPT ![c] = "none"]
    /\ UNCHANGED <<map, lifecycle, version, missed, light, taskVars, storeVars, runVars>>

\* The Empty step creates a chunk, dirty from birth.
PublishCreated(c) ==
    /\ producer[c] = "creating"
    /\ dirty' = [dirty EXCEPT ![c] = TRUE]
    /\ status' = [status EXCEPT ![c] = "low"]
    /\ producer' = [producer EXCEPT ![c] = "none"]
    /\ UNCHANGED <<map, lifecycle, mem, version, missed, light, taskVars, storeVars, runVars>>

\* A later step writes the chunk ...
StepWrite(c, s) ==
    /\ producer[c] = "working"
    /\ WriteSection(c, s)
    /\ UNCHANGED <<holderVars, dirty, missed, light, producer, taskVars, storeVars, runVars>>

\* ... and finish_generation_status marks it dirty before publishing.
FinishStep(c) ==
    /\ producer[c] = "working"
    /\ mem[c] # NoData
    /\ dirty' = [dirty EXCEPT ![c] = TRUE]
    /\ status' = [status EXCEPT ![c] = "saveable"]
    /\ producer' = [producer EXCEPT ![c] = "none"]
    /\ UNCHANGED <<map, lifecycle, mem, version, missed, light, taskVars, storeVars, runVars>>

-----------------------------------------------------------------------------
(* process_unloads, the closure for one entry of `unloading_chunks`.       *)

MayLeaveUnloading(c) ==
    /\ GameThreadFree
    /\ map[c] = "unloading"
    /\ ~TouchesChunk(c)
    /\ StrongCountIsOne(c)

IsDirty(c) == status[c] = "saveable" /\ dirty[c]

SpawnSave(c, t) ==
    /\ MayLeaveUnloading(c)
    /\ IsDirty(c)
    /\ pc[t] = "idle"
    /\ pc' = [pc EXCEPT ![t] = "flush"]
    /\ target' = [target EXCEPT ![t] = c]
    /\ UNCHANGED <<holderVars, dataVars, light, producer, snap, torn, storeVars, runVars>>

\* The holder is dropped; a release task is spawned if it had a chunk.
FinalizeUnload(c) ==
    /\ MayLeaveUnloading(c)
    /\ ~IsDirty(c)
    /\ releases[c] < MaxReleases
    /\ map' = [map EXCEPT ![c] = "absent"]
    /\ releases' = [releases EXCEPT ![c] = @ + IF status[c] # "none" THEN 1 ELSE 0]
    /\ UNCHANGED <<lifecycle, status, dataVars, light, producer, taskVars, disk, handles, runVars>>

\* The spawned release_chunk call.
ReleaseChunk(c) ==
    /\ releases[c] > 0
    /\ releases' = [releases EXCEPT ![c] = @ - 1]
    /\ handles' = [handles EXCEPT ![c] = IF @ = 0 THEN 0 ELSE @ - 1]
    /\ UNCHANGED <<holderVars, dataVars, light, producer, taskVars, disk, runVars>>

-----------------------------------------------------------------------------
(* save_chunk and prepare_chunk_save_on_pool.                              *)

EndTask(t) ==
    /\ pc' = [pc EXCEPT ![t] = "idle"]
    /\ snap' = [snap EXCEPT ![t] = NothingRead]
    /\ torn' = [torn EXCEPT ![t] = FALSE]
    /\ UNCHANGED target

GoTo(t, next) ==
    /\ pc' = [pc EXCEPT ![t] = next]
    /\ UNCHANGED <<target, snap, torn>>

\* flush_queued_light_changes_touching_chunk_for_save returns.
FlushLight(t) ==
    /\ pc[t] = "flush"
    /\ ~TouchesChunk(target[t])
    /\ GoTo(t, "prepare")
    /\ UNCHANGED <<holderVars, dataVars, light, producer, storeVars, runVars>>

\* try_begin_save_preparation: UNLOADING -> PREPARING, else the task ends.
TryBeginSavePreparation(t) ==
    LET c == target[t] IN
    /\ pc[t] = "prepare"
    /\ IF lifecycle[c] = "UNLOADING"
         THEN /\ lifecycle' = [lifecycle EXCEPT ![c] = "PREPARING"]
              /\ GoTo(t, "began")
         ELSE /\ EndTask(t)
              /\ UNCHANGED lifecycle
    /\ UNCHANGED <<map, status, dataVars, light, producer, storeVars, runVars>>

\* Mutant: the guard leaves the lifecycle in PREPARING.
EndWithoutReset(c) == UNCHANGED lifecycle

\* end_save_preparation: PREPARING -> UNLOADING, unless revival won.
EndSavePreparation(c) ==
    lifecycle' = [lifecycle EXCEPT ![c] = IF @ = "PREPARING" THEN "UNLOADING" ELSE @]

\* take_dirty.  A clean chunk is not prepared and the task ends.
TakeDirty(t) ==
    LET c == target[t] IN
    /\ pc[t] = "began"
    /\ IF dirty[c]
         THEN /\ GoTo(t, "copying")
              /\ dirty' = [dirty EXCEPT ![c] = FALSE]
              /\ UNCHANGED lifecycle
         ELSE /\ EndTask(t)
              /\ EndSavePreparation(c)
              /\ UNCHANGED dirty
    /\ UNCHANGED <<map, status, mem, version, missed, light, producer, storeVars, runVars>>

\* prepare_chunk_save reads one section at a time.
CopySection(t, s) ==
    /\ pc[t] = "copying"
    /\ snap[t][s] = Unread
    /\ snap' = [snap EXCEPT ![t][s] = mem[target[t]][s]]
    /\ UNCHANGED <<pc, target, torn, holderVars, dataVars, light, producer, storeVars, runVars>>

\* Mutants: the snapshot is handed on whatever the lifecycle became, or it is
\* discarded without putting the dirty flag back.
FinishUnchecked(t) ==
    /\ pc[t] = "copying"
    /\ \A s \in Sections : snap[t][s] # Unread
    /\ EndSavePreparation(target[t])
    /\ GoTo(t, "writing")
    /\ UNCHANGED <<map, status, dataVars, light, producer, storeVars, runVars>>

FinishForgettingDirty(t) ==
    LET c == target[t] IN
    /\ pc[t] = "copying"
    /\ \A s \in Sections : snap[t][s] # Unread
    /\ EndSavePreparation(c)
    /\ IF lifecycle[c] = "PREPARING"
         THEN GoTo(t, "writing")
         ELSE EndTask(t)
    /\ UNCHANGED <<map, status, dataVars, light, producer, storeVars, runVars>>

\* ChunkSavePreparationGuard::finish hands the snapshot on only if the
\* lifecycle is still PREPARING; otherwise the taken dirty flag is put back.
FinishPreparation(t) ==
    LET c == target[t] IN
    /\ pc[t] = "copying"
    /\ \A s \in Sections : snap[t][s] # Unread
    /\ EndSavePreparation(c)
    /\ IF lifecycle[c] = "PREPARING"
         THEN /\ GoTo(t, "writing")
              /\ UNCHANGED dirty
         ELSE /\ EndTask(t)
              /\ dirty' = [dirty EXCEPT ![c] = TRUE]
    /\ UNCHANGED <<map, status, mem, version, missed, light, producer, storeVars, runVars>>

\* prepare_chunk_save abandons a chunk that is being promoted to Full.
AbandonPreparation(t) ==
    LET c == target[t] IN
    /\ pc[t] = "copying"
    /\ producer[c] = "working"
    /\ EndSavePreparation(c)
    /\ EndTask(t)
    /\ dirty' = [dirty EXCEPT ![c] = TRUE]
    /\ UNCHANGED <<map, status, mem, version, missed, light, producer, storeVars, runVars>>

\* save_chunk_data returns Ok(true).
SaveSucceeds(t) ==
    /\ pc[t] = "writing"
    /\ disk' = [disk EXCEPT ![target[t]] = snap[t]]
    /\ EndTask(t)
    /\ UNCHANGED <<holderVars, dataVars, light, producer, handles, releases, runVars>>

\* Mutant: the taken dirty flag is not put back.
SaveFailsForgettingDirty(t) ==
    /\ pc[t] = "writing"
    /\ EndTask(t)
    /\ UNCHANGED <<holderVars, dataVars, light, producer, storeVars, runVars>>

\* save_chunk_data fails: mark_chunk_dirty_for_save_retry.
SaveFails(t) ==
    /\ pc[t] = "writing"
    /\ dirty' = [dirty EXCEPT ![target[t]] = TRUE]
    /\ EndTask(t)
    /\ UNCHANGED <<holderVars, mem, version, missed, light, producer, storeVars, runVars>>

-----------------------------------------------------------------------------
(* Shutdown: save_and_shutdown waits for the tracked tasks, then           *)
(* save_all_chunks flushes light, saves every dirty holder and closes.     *)

Shutdown ==
    /\ GameThreadFree
    /\ phase' = "draining"
    /\ UNCHANGED <<holderVars, dataVars, light, producer, taskVars, storeVars, tosave>>

TasksDrained ==
    /\ \A t \in SaveTasks : pc[t] = "idle"
    /\ \A c \in Chunks : producer[c] = "none" /\ releases[c] = 0

LightFlushed == \A c \in Chunks : ~TouchesChunk(c)

StartSaveAll ==
    /\ phase = "draining"
    /\ TasksDrained /\ LightFlushed
    /\ phase' = "saving"
    /\ tosave' = {c \in Chunks : HasHolder(c)}
    /\ UNCHANGED <<holderVars, dataVars, light, producer, taskVars, storeVars>>

\* One holder of save_all_chunks.  A failed save puts the dirty flag back
\* and the loop goes on.
SaveAllOne(c) ==
    /\ phase = "saving" /\ c \in tosave
    /\ tosave' = tosave \ {c}
    /\ \/ /\ IsDirty(c)
          /\ dirty' = [dirty EXCEPT ![c] = FALSE]
          /\ disk' = [disk EXCEPT ![c] = mem[c]]
       \/ UNCHANGED <<dirty, disk>>
    /\ UNCHANGED <<holderVars, mem, version, missed, light, producer, taskVars,
                   handles, releases, phase>>

\* close_all, after the loop over the holders.
CloseAll ==
    /\ phase = "saving" /\ tosave = {}
    /\ handles' = [c \in Chunks |-> 0]
    /\ phase' = "closed"
    /\ UNCHANGED <<holderVars, dataVars, light, producer, taskVars, disk, releases, tosave>>

-----------------------------------------------------------------------------
GameThread(c) ==
    \/ CreateHolder(c) \/ BeginChunkUnload(c) \/ EnterUnloadingMap(c)
    \/ ReviveFromUnloading(c) \/ EnterActiveMap(c)
    \/ ModifyActive(c) \/ QueueLightChange(c)
    \/ \E t \in SaveTasks : SpawnSave(c, t)
    \/ FinalizeUnload(c)

LightWriter(c) ==
    \/ LightSetup(c)
    \/ \E s \in Sections : LightWrite(c, s)
    \/ LightUnchanged(c)
    \/ LightChangedActive(c) \/ LightChangedUnloading(c)
    \/ FinishInFlight(c)

Producer(c) ==
    \/ StartStep(c) \/ AcquireGivesUp(c) \/ AcquireChunk(c) \/ GiveUpAcquired(c)
    \/ PublishLoaded(c) \/ PublishCreated(c)
    \/ \E s \in Sections : StepWrite(c, s)
    \/ FinishStep(c)

SaveTask(t) ==
    \/ FlushLight(t) \/ TryBeginSavePreparation(t) \/ TakeDirty(t)
    \/ \E s \in Sections : CopySection(t, s)
    \/ FinishPreparation(t) \/ AbandonPreparation(t)
    \/ SaveSucceeds(t) \/ SaveFails(t)

Next ==
    \/ \E c \in Chunks : GameThread(c) \/ LightWriter(c) \/ Producer(c)
                            \/ ReleaseChunk(c) \/ SaveAllOne(c)
    \/ \E t \in SaveTasks : SaveTask(t)
    \/ Shutdown \/ StartSaveAll \/ CloseAll

Spec == Init /\ [][Next]_vars

-----------------------------------------------------------------------------
(* Type invariant.                                                         *)

HolderTypeOK ==
    /\ map \in [Chunks -> MapState]
    /\ lifecycle \in [Chunks -> Lifecycle]
    /\ status \in [Chunks -> {"none", "low", "saveable"}]
    /\ light \in [Chunks -> LightState]
    /\ producer \in [Chunks -> ProducerState]

DataTypeOK ==
    /\ mem \in [Chunks -> Content]
    /\ version \in [Chunks -> Version]
    /\ disk \in [Chunks -> Content]

FlagTypeOK ==
    /\ dirty \in [Chunks -> BOOLEAN]
    /\ missed \in [Chunks -> BOOLEAN]

TaskTypeOK ==
    /\ pc \in [SaveTasks -> TaskState]
    /\ target \in [SaveTasks -> Chunks]
    /\ snap \in [SaveTasks -> [Sections -> Version \cup {Unread}]]
    /\ torn \in [SaveTasks -> BOOLEAN]

RunTypeOK ==
    /\ handles \in [Chunks -> Nat]
    /\ releases \in [Chunks -> Nat]
    /\ phase \in {"running", "draining", "saving", "closed"}
    /\ tosave \in SUBSET Chunks

\* Every variable holds a value the code can store in it; in particular no
\* region handle is released that was not acquired.
TypeOK == HolderTypeOK /\ DataTypeOK /\ FlagTypeOK /\ TaskTypeOK /\ RunTypeOK

-----------------------------------------------------------------------------
(* Safety.                                                                 *)

\* process_unloads drops a holder only when storage has its last content, so
\* the next load of the chunk sees it: no interleaving of unload, revival,
\* change, snapshot and failed write loses an update.  (A chunk whose light
\* change found the holder in neither map is exempt, see NoLostLight.)
NoLostUpdate ==
    \A c \in Chunks :
        (map[c] = "absent" \/ status[c] = "none") /\ ~missed[c] => disk[c] = mem[c]

\* The same without the exemption: light_changed "marks saved light data
\* dirty", so a dropped holder never takes changed light with it.
NoLostLight ==
    \A c \in Chunks : map[c] = "absent" => disk[c] = mem[c]

\* A snapshot that reaches the storage write was not overlapped by a change of
\* the game thread: a revival during preparation makes `finish` discard it,
\* even when the holder is back in UNLOADING by then.
NoTornSnapshot ==
    \A t \in SaveTasks : pc[t] = "writing" => ~torn[t]

\* At most one save task works on a holder: ChunkSavePreparationGuard relies on
\* the strong count to prevent a second preparation.
OneSavePerHolder ==
    \A t, u \in SaveTasks :
        pc[t] # "idle" /\ pc[u] # "idle" /\ target[t] = target[u]
            => t = u

\* Until the regions are closed, the handles of a chunk are those of its loaded
\* data, of the producer that is loading it and of the releases under way:
\* none leaks and release_chunk's saturating subtraction never saturates.
HandlesBalanced ==
    phase # "closed" =>
        \A c \in Chunks :
            handles[c] = releases[c]
                + (IF map[c] # "absent" /\ status[c] # "none" THEN 1 ELSE 0)
                + (IF producer[c] \in {"loading", "creating"} THEN 1 ELSE 0)

\* After a clean shutdown every saveable chunk is in storage, except one whose
\* save failed and which is still dirty.
ShutdownSavesAll ==
    phase = "closed" =>
        \A c \in Chunks :
            HasHolder(c) /\ status[c] = "saveable" /\ ~dirty[c] /\ ~missed[c]
                => disk[c] = mem[c]

\* Storage never goes back to an older content of a section: saves of one chunk
\* reach it in the order of their snapshots.
StorageMovesForward ==
    [][\A c \in Chunks : \A s \in Sections : disk'[c][s] >= disk[c][s]]_vars

-----------------------------------------------------------------------------
(* The inductive invariant behind the safety properties.                   *)

\* Something will still mark c dirty, or already has.
Pending(c) ==
    \/ dirty[c] \/ missed[c]
    \/ light[c] \in {"written", "lookup"}
    \/ producer[c] = "working"

\* Who may refer to a holder, and in which status.
ReferencesInv ==
    /\ \A t \in SaveTasks :
          pc[t] # "idle" => HasHolder(target[t]) /\ status[target[t]] = "saveable"
    /\ \A c \in Chunks :
          /\ light[c] # "idle" => HasHolder(c) /\ status[c] = "saveable"
          /\ producer[c] # "none" => HasHolder(c)
          /\ producer[c] # "none" => (status[c] = "none" <=> producer[c] # "working")

\* save_all_chunks starts when nothing else is under way, and nothing starts later.
QuietInv == phase \in {"saving", "closed"} => TasksDrained /\ LightFlushed

\* A holder in `chunks` is ACTIVE, so a snapshot the game thread tore is not
\* PREPARING any more.
LifecycleInv ==
    /\ \A c \in Chunks : map[c] \in {"active", "returning"} => lifecycle[c] = "ACTIVE"
    /\ \A t \in SaveTasks :
          torn[t] => pc[t] = "copying" /\ lifecycle[target[t]] # "PREPARING"

\* What a snapshot has read is what memory still holds, unless c is Pending.
ReadsMatch(t) == \A s \in Sections : snap[t][s] \in {Unread, mem[target[t]][s]}

SnapshotOf(t) ==
    /\ pc[t] \in {"idle", "flush", "prepare", "began"} => snap[t] = NothingRead
    /\ pc[t] \in {"copying", "writing"} => Pending(target[t]) \/ ReadsMatch(t)
    /\ pc[t] = "writing" => \A s \in Sections : snap[t][s] # Unread

SnapshotInv == \A t \in SaveTasks : SnapshotOf(t)

\* A clean chunk is in storage or on its way there.
CleanChunk(c) ==
    /\ HasHolder(c) /\ status[c] = "saveable" =>
          \/ Pending(c)
          \/ \E t \in TasksOf(c) : pc[t] \in {"copying", "writing"}
          \/ disk[c] = mem[c]
    /\ status[c] = "low" => missed[c] \/ producer[c] = "working" \/ disk[c] = mem[c]

CleanInv == \A c \in Chunks : CleanChunk(c)

\* Versions only grow on their way from storage to snapshot to memory.
ChunkOrder(c) == \A s \in Sections : disk[c][s] <= mem[c][s] /\ mem[c][s] <= version[c]

TaskOrder(t) ==
    pc[t] # "idle" =>
        \A s \in Sections :
            snap[t][s] # Unread =>
                disk[target[t]][s] <= snap[t][s] /\ snap[t][s] <= mem[target[t]][s]

OrderInv ==
    /\ \A c \in Chunks : ChunkOrder(c)
    /\ \A t \in SaveTasks : TaskOrder(t)

\* A clean chunk is in storage or on its way there, whoever refers to its
\* holder: the invariant that every step of the code preserves.
IInv ==
    /\ TypeOK /\ OneSavePerHolder /\ HandlesBalanced /\ NoLostUpdate
    /\ ReferencesInv /\ QuietInv /\ LifecycleInv
    /\ SnapshotInv /\ CleanInv /\ OrderInv

-----------------------------------------------------------------------------
(* Liveness.  The game loop ticks for ever, the chunk runtime runs every   *)
(* ready task, and storage does not fail for ever.                         *)

Fairness ==
    /\ \A c \in Chunks :
          /\ WF_vars(EnterUnloadingMap(c) \/ EnterActiveMap(c))
          /\ WF_vars(FinalizeUnload(c) \/ \E t \in SaveTasks : SpawnSave(c, t))
          /\ WF_vars(LightSetup(c) \/ LightUnchanged(c) \/ LightChangedActive(c)
                        \/ LightChangedUnloading(c) \/ FinishInFlight(c))
          /\ WF_vars(AcquireGivesUp(c) \/ AcquireChunk(c) \/ GiveUpAcquired(c)
                        \/ PublishLoaded(c) \/ PublishCreated(c) \/ FinishStep(c)
                        \/ \E s \in Sections : StepWrite(c, s))
          /\ WF_vars(ReleaseChunk(c))
    /\ \A t \in SaveTasks :
          /\ WF_vars(FlushLight(t) \/ TryBeginSavePreparation(t) \/ TakeDirty(t)
                        \/ (\E s \in Sections : CopySection(t, s))
                        \/ FinishPreparation(t) \/ AbandonPreparation(t)
                        \/ SaveSucceeds(t) \/ SaveFails(t))
          /\ SF_vars(SaveSucceeds(t))

LiveSpec == Spec /\ Fairness

\* A holder in `unloading_chunks` does not stay there: once light updates leave
\* the chunk alone, process_unloads saves and drops it, unless it is revived or
\* the server shuts down.
UnloadingResolves ==
    \A c \in Chunks :
        <>[]~TouchesChunk(c) =>
            (map[c] = "unloading" ~> (map[c] # "unloading" \/ phase # "running"))
=============================================================================
