# A verification of SteelMC's chunk, packet and player machinery

SteelMC is a Minecraft server in Rust. Most of its 420 000 lines are the rules of
the game: blocks, items, mobs, commands, world generation, generated registries.
Those are large but sequential. What is hard to get right, and hard to test, is
the small part where threads and asynchronous tasks meet: chunks that are loaded,
generated, lit, changed, saved and unloaded at the same time, packets that are
handled between game ticks, and players that log in, switch domains, respawn and
leave while their data is on its way to storage. That part is modelled here.

Contents: [parts](#the-parts-and-how-they-interact) ·
[modules](#the-modules) · [runs](#the-runs-and-what-they-show) ·
[bounds](#bounds) · [fairness](#fairness) · [proofs](#the-proofs) ·
[only model-checked](#what-is-only-model-checked) · [findings](#findings) ·
[not modelled](#not-modelled) · [running it](#running-the-project)

## The parts and how they interact

* **Tickets** say which chunks are needed and how much. Players, chunk requests
  and timed tickets (portals, ender pearls) put them into a ticket storage under
  one lock. Once per tick the *chunk-source phase* takes a batch, and two
  **trackers** (loading and simulation) spread the ticket levels to neighbours.
  The levels are committed to chunk holders and a *receipt* tells requesters that
  their tickets are in force.
* A committed level makes the holder schedule a **generation task**, which raises
  the chunk and the chunks around it through the statuses, layer by layer. Several
  tasks share the holders; a status is produced by whoever claims it.
* The Light step of generation and the light changes of block updates use cache
  windows that overlap; the **light work gate** keeps them apart.
* When the level goes, the holder moves to `unloading_chunks`. **Save tasks** write
  it through the **region file**, and it is dropped when nothing needs it, or
  revived when a ticket returns.
* **Packets** of players are handled by worker threads between ticks. The game loop
  drains the queue at each tick boundary. A player that is being replaced
  (respawn) has its lane paused.
* **Player admission** decides who owns a profile: a join, a domain switch, a
  disconnect save, or the player that is online. The same game loop runs these in
  the phases of a tick and, at the end, shuts all of it down.

The modules meet where the code does. `TicketScheduling` uses in place of the two
trackers the function that `ChunkTracker` is *proved* to compute. `ChunkPersistence`
treats a save as one step on storage, which `RegionFile` refines into sectors and
tables. `ChunkGeneration` starts from committed levels, `LightWork` provides the
gate its Light step waits for, and `PacketQueue` and `PlayerAdmission` model two
sides of the loop in `server/run_loop.rs`.

## The modules

In every module a variable is a field of the code's structures (the comment beside
it says which) or the place a thread has reached; an action is an operation, a lock
region, or the stretch between two `await`s. Definitions keep the names of the
functions they come from. `PROJECT.json` maps each of them to its lines.

| module | models | state | main actions |
|---|---|---|---|
| `ChunkTracker` | `chunk/chunk_tracker/mod.rs` | levels, sources, bucket queue, changes of a run | `ApplySourceUpdate`, `StartRun`, `CheckSource`, `LowerLevel`, `RaiseLevel`, `SkipStale`, `FinishRun` |
| `TicketScheduling` | `chunk_scheduler.rs`, `chunk_ticket_storage.rs`, `player_ticket_tracker.rs`, `chunk_request.rs`, the chunk-source phase | tickets, leases, player coverage, batch, committed levels, polls | `Acquire`, `Release`, `MovePlayer`, `PlaceTimed`, `SnapshotTimed`, `TickTimed`, `RunUpdates`, `CommitLevel`, `Publish`, `PollChunk`, `CleanRestart`, `Crash` |
| `ChunkGeneration` | `chunk_generation_task.rs`, `chunk_holder.rs` (claims, publications, waiters), `chunk_map/generation_readiness.rs` | load levels, tasks with layers and futures, claims, permits, storage loads | `CommitLevel`, `CheckPublished`, `TrustTask`, `QueueTask`, `InstallTask`, `RunGenerationTasks`, `StartLayer`, `StepClaims`, `StepAwaits`, `AcquireStorage`, `LoadStorage`, `GiveUp`, `FinishGeneration`, `FinishTask`, `StopRefill` |
| `LightWork` | `light/work_gate.rs`, `chunk_map/light_updates.rs`, `light_update_state.rs` | reserved windows, pending tasks, in-flight counts, places of game thread, savers, workers | `QueueChange`, `TryTask`, `DrainCenter`, `BeginMove`, `EndMove`, `ProcessUnloads`, `StartFlush`, `StartLight` and the steps between |
| `ChunkPersistence` | `chunk_holder.rs` (save lifecycle), `chunk_map/persistence.rs`, `generation_readiness.rs`, `light_updates.rs` | the holder's map, lifecycle word, dirty flag, section versions, save tasks, storage, handles | `BeginChunkUnload`, `ReviveFromUnloading`, `SpawnSave`, `TakeDirty`, `CopySection`, `FinishPreparation`, `SaveSucceeds`, `SaveFails`, `FinalizeUnload`, light and producer steps, shutdown |
| `RegionFile` | `chunk_saver/region_manager.rs`, `format.rs` | chunk table in memory and in the file, sectors, open count, faults | acquire, load and decode, save, release, flush, close, clear a corrupt entry, failed writes, failed creation, crash |
| `PacketQueue` | `server/packet_processor.rs`, packet phases of `run_loop.rs` | lanes, ready and order heaps, pauses, workers, condition variable, phases | `Submit`, `Start`, `FinishOne`, `PauseLane`, `FinishTransition`, `Discard`, `BeginTickDrain`, `CheckDrain`, `OpenAfterTick`, `Stop` |
| `PacketOrder` | what `PacketQueue` promises (abstract) | one line of packets, those held back, those running | `Submit`, `Start`, `Finish`, `Hold`, `Release`, `Drop`, `Boundary`, `Tick` |
| `PlayerAdmission` | `server/player_admission.rs`, `jobs/domain_switch.rs`, `world_changes.rs`, `player/lifecycle/respawn.rs`, `player/session.rs`, `run_loop.rs`, login and configuration handlers | admissions, online table, sessions, world membership, jobs, saves under way, stored versions, game phase, handlers at work after the stop | `CheckDuplicate`, `Reserve`, `AdmitJoin`, `Disconnect`, `StartSwitch`, `CommitSwitch`, `LeaveSwitch`, `FinishRespawn`, `SaveDomain`, `SaveGlobal`, `Play`, `PlayLate`, `FinishHandler`, shutdown |

`MC*` modules hold the instances for TLC. `ChunkTrackerProofs`, `TicketSchedulingProofs`,
`ChunkPersistenceProofs`, `RegionFileProofs`, `PacketQueueSteps`, `PacketQueueProofs`,
`PlayerAdmissionOwners` and `PlayerAdmissionProofs` hold the proofs. Definitions introduced with
"Mutant:" are wrong variants of the definition that follows; no specification uses
them. Each shows that the property it belongs to can fail.

How data is abstracted:

* *ChunkPersistence*: a section's content is the number of the write that produced
  it, so equal contents are the same data; torn copies show as mixed numbers.
* *RegionFile*: the file is a set of parts of payloads in sectors; an entry is an
  offset and a size, and a payload decodes when its sectors hold all parts of one
  save of that size.
* *TicketScheduling*, *ChunkTracker*: levels are the integers of the code, with
  smaller maxima; absent is one above the maximum, as in the code.
* *LightWork*: a change is a number; a chunk's emptiness is the last change applied.
* *PacketQueue*: a packet is its execution class and a number; heaps are sets.
* *PlayerAdmission*: player data is a version; `latest` and `home` are auxiliary
  variables that remember the newest data of a profile in each domain and where it
  was last played.

## The runs and what they show

| run | question | properties |
|---|---|---|
| `tracker` | Is incremental propagation exact on a grid with several shortest paths? | `LevelsExact` equal to propagation from nothing; `QueueCovers` no correction without its queue entry; `ChangesExact` a run reports exactly what it changed; `RunEnds` |
| `tickets` | Do trackers, holders, leases and coverage agree with the tickets over any sequence of requests, players, timed tickets, restarts? | `TablesAgree`; `CommittedHolds` what a receipt says is true; `ReadyStaysReady` a Ready answer holds until the lease is dropped; `LastsTimeout` no timed ticket ends early; `RequestsReady` a kept request becomes ready unless generation leaves its chunk unfinished; `TimedEnds` |
| `generation` | Do overlapping tasks keep claims, permits and dependencies consistent? | `Bookkeeping` claims, permits and current tasks match what runs; `NoPanic` no panic of claim_status_work and complete task caches; `DependenciesPublished` no step reads an unpublished neighbour |
| `generation_live` | Is every chunk under a lasting ticket finished? | `EventuallyFull` yes, but for the two strandings under Not modelled and Findings; `EventuallyQuiet` |
| `generation_repromoted` | (violation, see Findings) | `RestMeansFull` |
| `light` | Can light work overlap, forget or reorder changes, or hang a save? | `Coherent` windows that are held are disjoint and the queue matches its index; `NothingForgotten` a waiting change is queued or in flight and its chunk stays; `WindowsKept` no chunk of a waiting window is finalized; `SectionsInOrder` an older change never overwrites a newer; `ShutdownFlushes`; `WorkReturns` every flush and every Light step ends |
| `chunk_persistence` | Does any interleaving lose or tear a chunk? | `IInv` the inductive invariant; `NoLostUpdate`; `NoTornSnapshot`; `StorageMovesForward`; `UnloadingResolves` |
| `light_lookup_race` | (violation, see Findings) | `NoLostLight` |
| `region_file` | Do failed writes, crashes and reuse of sectors damage other chunks? | `TablesValid`; `LastSaveReadable` every acknowledged save no fault reached is readable; `CountMatches`; `FreeSectorsAgree` the allocator against the loop of the code; `OnlySpoiledCleared` |
| `packet_queue` | Does the queue keep the promised order, and never hang a tick? | `Implements` the refinement of `PacketOrder`, and no token ends a later pause; `IInv` indexes and counters exact, so no assertion fails; `TicksGoOn`; `Quiesces` |
| `admission` | Can a profile have two owners, or its data be lost or come back stale? | `OneOwner`; `NothingLost`; `ShutdownSaves` also with handlers that are still at work at the stop |
| `admission_live` | Can a login wait for ever, a closed player stay, a shutdown hang? | `LoginProceeds`; `ClosedLeaves` |

`Implements` is the refinement: `PacketQueue` instantiates `PacketOrder` with the
queued packets as the line, sequence numbers as its order, deferred packets as held
ones and the workers' packets as running ones. Every step of the queue is a step of
the line or a stutter: two packets of a session never overlap or overtake, serialized
ones neither, an exclusive one bars and waits for all, none starts in a tick, and
the tick starts when all that was due is done. The order alone would let a job that
ends late resume a lane that another job has paused since, so `Implements` also says
`OwnPause`: a transition whose pause was replaced puts no packet back.

## Bounds

Most modules take a constant `Limits`, a set of scenarios. The initial state chooses
one; the guards count against it. This lets one run combine several small situations
without the product of all of them. The limits are on what the *environment* does
(changes, requests, faults, stops), never on what the code does in answer.

* `tracker`: a 4 × 3 grid, two neighbouring sources, levels to 2, any number of
  source changes. A removed source between a kept one and the edge makes levels rise
  in several rounds; diagonals give several shortest paths.
* `tickets`: two positions, levels 0–3, two requesters, two players, portal and
  pearl. Six scenarios: two requests that overlap, two players on one chunk, a portal
  refreshed while it ages, portal and pearl over a restart, a request beside a portal
  or a player.
* `generation`: four chunks in a row, three statuses, the top one needs its
  neighbours. Three scenarios: two overlapping tickets, two tasks at a
  time with shutdown, a failed storage call. `generation_live` uses
  two statuses and lets a ticket come, go and return, alone or beside one that stays.
  There are three to five task identities, used again once a task is dropped: they bound
  the tasks that exist at one time, not those of a behaviour, and the game thread waits for
  a free one.
* `light`: four chunks in a row and radius 1 (2 in the code), so windows two
  apart overlap and windows three apart do not. Two changes, two savers, one Light
  step, in six scenarios; in two of them a holder moves between the maps.
* `chunk_persistence`: one chunk of two sections, two save tasks, two writes. One
  chunk suffices for the safety properties because no action couples two chunks
  (and they are proved for any number); two sections are needed to tear a copy, two
  save tasks for a second save, two writes for an old save after a new one.
* `region_file`: two chunks, sizes of 1 to 3 bytes with 2-byte sectors (one sector,
  exactly one, two), two saves each, two faults (a write, the creation of the file, or
  the process fails).
* `packet_queue`: three sessions, two workers. Each scenario is a script of two to four
  packets: classes that hide, overtake or bar each other in and across
  lanes; lanes that are paused, closed, discarded and paused again; a stop.
* `admission`: two profiles, two connections of the first and one of the second, two
  domains, two incarnations per connection. Six scenarios: two switches and a respawn
  with a second login; two failures; credits, respawn and a stop; three
  connections; two players at work when the server stops; two players for one slot, with
  failures and a stop. The liveness run uses three
  smaller ones.

Deadlock is not checked where the system may really stop: the bounded environment
of a scenario ends, or the server goes down. Where something must go on, a liveness
property says so.

## Fairness

* Threads and tasks that can run do run: weak fairness of the game loop, of
  every spawned task, of packet workers (OS threads) and of timers of the loop. Clients
  owe nothing, and neither does what happens by chance (faults, stops, closes).
* `ChunkGeneration`: weak fairness of the whole machinery, as one action. It is the
  weakest that makes progress: some thread or task that can run does.
* `ChunkPersistence`: strong fairness of `SaveSucceeds`. Storage that fails for ever
  keeps the holder, which is what the code intends; the property is about storage
  that works now and then.
* `LightWork`: strong fairness of `TakeTask` and `DrainCenter`. A saver and the game
  thread can undo each other's work: the saver takes a window just between the
  drain and the try of the game thread, which puts the task back. The game thread is
  in that moment once or twice in 50 ms, so it cannot be there each time.
* `TicketScheduling`: strong fairness of `SnapshotTimed({})`. Timed tickets of a
  holder on which a save or generation task depends do not age; no such task lasts for
  ever. Generation itself owes nothing, because it can leave a chunk unfinished (Findings):
  `RequestsReady` blames the scheduler only for requests whose chunks generation finished.
* `PacketQueue`: handlers return, and jobs end the pauses they own.
* `PlayerAdmission`: storage tasks answer, with success or an error, and handlers that are
  at work when the server stops return; the shutdown waits for them.

## The proofs

TLAPS checks the following for every value of the constants.

**ChunkPersistence** (any number of chunks, sections, save tasks, versions).
`Invariance: Spec => []IInv`, and from it `NothingLost` (`NoLostUpdate`),
`SavesExclusive`, `HandlesMatch`, `SnapshotsWhole`, `ShutdownComplete` and
`StorageMonotonic` (an action property). `NoLostUpdate` alone is not inductive: that a
dropped holder is in storage depends on *how it became clean*. `IInv` says that a
chunk with a holder is (1) in storage, or (2) `Pending`: dirty, or some writer is
about to mark it dirty, or (3) on its way, in a save task whose snapshot agrees with
memory wherever it has read (`CleanInv`, `SnapshotInv`). Further pieces say who may hold a
reference (`ReferencesInv`), that an active holder's lifecycle word is ACTIVE, so a
snapshot torn by a revival cannot finish (`LifecycleInv`), that nothing else runs while
shutdown saves (`QuietInv`), and that versions only grow from storage to snapshot to
memory (`OrderInv`, for the action property). Each lemma `XStep` of `ChunkPersistenceProofs`
shows that a step keeps piece X, one case per action that touches it. Assumptions: `MaxVersion` and `MaxReleases` are positive.

**ChunkTracker** (any finite geodesic metric, any level bound, any sources).
`PropagationExact: Spec => []LevelsExact`: after each run every position has the
least of source level plus distance. The inductive invariant is that at *every* step the
level a position is about to have is the least its neighbours and its own
source justify (`JustifiedAll`), that a pending correction has a queue entry
(`QueueCovers`), and that the records of a run match (`RecordsMatch`). That no two
positions can hold each other up without a source is then the argument of
`LevelHasSource` and `LevelIsLeast`: a level that is the least of its neighbours plus one leads
down to a source along a path of that length. The assumption `DistanceAssumption` states the
metric: symmetric, triangle inequality, and every position is reached by unit steps; the chessboard
distance of the code has it. `ChangesReported`, `QueueComplete`, `AlwaysJustified`
and `TypeCorrect` come from the same invariant.

**TicketScheduling** (any finite sets of positions, requesters and players, any levels,
timed types, limits). `Invariance: Spec => []IInv`, and from it `TablesStayAgreed`
(`TablesAgree`), `CommittedMeansLoaded` (`CommittedHolds`), `ReadyIsStable`
(`ReadyStaysReady`) and `TimeoutsRespected` (`LastsTimeout`, an action property). The chain
behind a receipt is: a request holds a lease, so its ticket is in the storage
(`LeasesMatch`); a position whose tickets changed is dirty (`SourcesSynced`), so
`RunUpdates` gives the trackers the strongest ticket of *every* position and the level of a
requested one is at least as strong as the requested; the batch carries the newest receipt at
that moment (`ReceiptsMatch`); when its changes are applied, holders have the levels of the trackers
(`HoldersMatch`), which is when the receipt is published. `ReadyStaysReady` needs the same chain for
a later batch: the lease is still held, so no commit takes the holder away, and a holder that is in
`chunks` is not one that `FinishUnload` resets. `CoverageMatches` counts occupied centers, not
players: a player counts exactly when it is alone in its center, which is when the
code adds or removes the square. For the timeout, `TimedMatch` says that
the ticks left and the passes since the refresh add up to the timeout, and that an
entry of a snapshot is either the ticket in the storage or older than a refresh.
The assumptions are the types of the constants and that a position is at distance 0 of itself.

**RegionFile** (any finite set of chunks, any sizes, sector size, number of saves and
faults). `Invariance: Spec => []IInv`, and from it `TablesStayValid` (`TablesValid`),
`SavesStayReadable` (`LastSaveReadable`), `CountExact` (`CountMatches`) and `GoodDataKept`
(`OnlySpoiledCleared`, an action property). The three invariants are inductive only
together: that a save does not write over another chunk needs the allocations of the
table in memory to be disjoint; that the data of a chunk is still there after the process dies needs the
table in the file to be the one in memory, or the chunk to be one that a lost or failed header
write reaches (`TablesMatch`). A table is read only from a file whose creation was completed:
an incomplete one has no saves. The lemmas on the allocator (the first gap that is
large enough overlaps nothing) and on counting finite sets are proved by least
counterexample. The assumption that there are finitely many chunks is that of a region.

**PacketQueue** (any sessions, finitely many workers, any scripts of packets).
`Invariance: Spec => []IInv` and `Implementation: Spec => Implements`, the refinement of
`PacketOrder`. `IInv` says that ready and order heaps hold the packets that the lanes
say they hold, and nothing else; beyond the types it needs that sequence numbers are
below the next one and those at a boundary below it too, that identities of running packets differ, and that
a pause and the transition that owns it have the same generation, which is never 0. It is
proved in the form `Points` (`PacketQueueSteps`), which says of one lane, packet or heap
entry at a time what `IInv` says of sets and heaps; `PacketQueueProofs` shows that the two forms
are the same. In the refinement, a packet that starts must not overtake: the start of a
packet looks at the heads of three heaps, and the invariant turns that into a statement about all
queued packets. That no token ends a later pause (`NextOwnPause`) is the one thing the line does not
show; it follows from the generation of a pause. The assumptions are that workers are finitely many, that no session is
the value for none, and the types of the limits.

**PlayerAdmission** (any number of profiles, connections, domains, lives and faults).
`Invariance: Spec => []IInv`, and from it `OwnersExclusive` (`OneOwner`), `DataKept`
(`NothingLost`) and `ShutdownKeeps` (`ShutdownSaves`). None of the three is inductive: that the
storage is up to date when a login finds nobody online depends on what every earlier owner
did. `IInv` has three parts.

* `OwnersInv`: the entry in `player_admissions` and the state of the task it stands for
  agree, and no second task stands for it. One piece per owner: joins (`JoinInv`), players
  that are online (`OnlineInv`, `MemberInv`), detached switches (`SwitchInv`), disconnect
  saves (`LeaveInv`); and what has ended when the loop ends (`PhaseInv`).
* `WorkInv`: handlers and world ticks that outlive the stop. They work on players that are
  online or that a disconnect took away since, and none is left when the final save begins.
  Without it a change could come after that save.
* `DataInv`: for each owner, where the newest data is. Nobody: all in the storage
  (`RestInv`). A player: its own domain in the object, the others in the storage
  (`PlayInv`). A switch: the carried source data is the newest, and once it is stored and the target
  is read both domains are safe (`CarryInv`). A disconnect save: the data it was
  handed (`FinalInv`). `GlobalsInv` says that the save of a disconnect is the last call
  that waits for the global file; without it a late save of an earlier switch could
  overwrite the active domain after the profile was released.

`PlayerAdmissionOwners` proves that every step keeps the first part (`OwnersStep`, one lemma
per action or process) and the second (`WorkStep`), `PlayerAdmissionProofs` the third
(`DataStep`) and the theorems. An action that hands a profile on is first reduced to what it
does to each profile and connection; the pieces follow from that. The only assumption is
`AdmissionAssumption`, the types of the constants. The proofs need no fairness: they are about
`Spec`, to which `LiveSpec` adds it.

## What is only model-checked

Liveness and fairness are out of this prover's reach, so `EventuallyFull`,
`EventuallyQuiet`, `WorkReturns`, `ShutdownFlushes`, `UnloadingResolves`, `RunEnds`, `RequestsReady`,
`TimedEnds`, `TicksGoOn`, `Quiesces`, `LoginProceeds` and `ClosedLeaves` stay with TLC. So does
`FreeSectorsAgree`, which compares with a recursive definition, and so do the invariants and
action properties of `ChunkGeneration` and `LightWork`, for which no inductive proof has been
written.

## Findings

* **A re-promoted chunk may stay unfinished** (`generation_repromoted`). A holder
  is demoted while its generation task runs; the task is doomed but still registered.
  Promoted again before the task ends, the holder finds a task with a sufficient
  target and schedules nothing (`chunk_holder.rs:575`). When the task ends, the chunk
  is below Full with a level that asks for Full, until its level changes again. `EventuallyFull`
  exempts the chunks for which this happened (`stranded`), and says that nothing else
  leaves one behind but the give-up named under Not modelled.
* **A light change may be lost** (`light_lookup_race`). `light_changed` looks for the
  holder in `chunks` and then in `unloading_chunks`, while the game thread moves it
  from one to the other in two steps. Found in neither, the holder is not marked
  dirty, and the new light is dropped with it. `NoLostUpdate` exempts exactly this
  case (`missed`). The same lookup of a saver that flushes a queued change may miss the center:
  the change is then dropped with a warning, and `NothingForgotten` exempts it (`dropped`).

## Not modelled

Within the modelled parts:

* *RegionFile*: a header is written in one step and a crash is the death of the
  process, not of the machine. Backups of files of another version and the byte layout are left out.
  Known limits that follow from the code and that the properties respect: a header write that
  fails or never comes leaves the file's table stale while freed sectors may be reused;
  an overwrite in place that fails destroys the old version; `close_all` gives up at the first
  header error; a save that fails right after opening leaves a handle of count 0; a file whose
  creation failed half-way is rejected by every later `open_region`.
* *ChunkPersistence*: the forced save of `save_pending`, entities that wait for a save, corrupt
  entries that are discarded, save futures that are cancelled, steps that panic.
* *ChunkGeneration*: what a step computes; the light window (`LightWork` has it);
  `can_load_without_generation`, which nothing calls with effect because `needs_generation`
  never becomes false. A storage error leaves the chunk ungenerated until its level
  changes, by design. Two limits that the model shows and the properties respect: a producer that
  finds its status disallowed gives its claim up although the level may have been granted again
  meanwhile, and the task that waits for it fails (`stranded`); a task that the refill loop
  finishes before it is installed stays registered until the chunk unloads or gets a higher target.
* *TicketScheduling*: other ticket types, which the code does not place; changes of view and
  simulation distance, which it does not make; tickets are saved only at a clean
  shutdown, as in the code.
* *LightWork*: light values; neighbours that are missing from a window, which the code skips;
  errors of the light engine, which it logs. Releasing a window and notifying is one step.
* *PacketQueue*: byte counts (any submission may be rejected for size), handlers, a
  panicking worker (the release profile aborts). Notifications sent after the unlock are part of
  the region; a later one only makes its receiver look again.
* *PlayerAdmission*: one world per domain, so world changes inside a domain, portals and residence
  tokens are left out; the login deadline and the permission to bypass the player limit;
  health and menus, so a switch or respawn may be given up at any time. The three files of a domain are saved
  as one. An aborted storage task is assumed to have no file operation left in flight when
  the next save of that file begins, and calls of `save_global` are assumed to reach the
  file lock in the order in which they start. A save that fails is logged by the code and
  its data is gone: the auxiliary variables then follow the storage. `packet_processor.stop()` does
  not wait for active handlers, so a handler may change a player that the last disconnects have
  captured: that change is not saved, and `ShutdownSaves` says that this is the only way. The
  assertion that menus are removed at the packet-processing safe point (`world_entities.rs:211`) is
  not modelled.

Whole parts, with the reason for each in `PROJECT.json`: game rules (blocks, items, fluids,
entities, AI, physics, inventories), commands and permissions, world generation, registries,
protocol encoding and encryption, level data, scheduled ticks and block events, the server binary and the
test harness. They are sequential within a tick, or functions of their input, or tables of
data: a model would restate them, and the properties worth stating would be those a
unit test states. By lines they are most of the repository, so the mapped lines
are a small share of it.

## Running the project

    tlc -workers 2 -config PlayerAdmission.cfg MCPlayerAdmission
    tlapm ChunkTrackerProofs.tla

`PROJECT.json` names the module and the configuration of every run. The longest runs
take one to three minutes on two cores, the longest proof modules
(`PacketQueueProofs`, `PlayerAdmissionProofs`) ten to fifteen.
