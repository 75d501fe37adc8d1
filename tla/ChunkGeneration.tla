--------------------------- MODULE ChunkGeneration ---------------------------
(***************************************************************************)
(* Chunk generation: load levels committed by the game thread, the queue   *)
(* of generation tasks with its refill loop and running-task permits, the  *)
(* layers of one task, and the status-work claims, publications and        *)
(* waiters of a chunk holder.                                              *)
(*                                                                         *)
(* Statuses are 0 .. Top (Empty is 0, Full is Top) and -1 stands for       *)
(* STATUS_NONE, UNPUBLISHED_STATUS and the usize::MAX of started_work.     *)
(* Chunks lie on a line, so the square of radius r around p is p-r .. p+r. *)
(***************************************************************************)
EXTENDS Integers, FiniteSets, FiniteSetsExt

CONSTANTS
    Positions,      \* the chunk positions, a set of consecutive integers
    Sources,        \* positions at which a ticket for a full chunk may be put
    Top,            \* the status Full
    Accumulated,    \* Accumulated[t][s]: radius of layer s of a task to status t
    Direct,         \* Direct[s][d]: status a step to s needs at distance d
    Tasks,          \* identities of generation tasks, reused once dropped
    Stored,         \* positions whose chunk is in storage at the start
    Limits          \* what may happen in one behaviour, the bounds of an instance

Statuses == 0 .. Top
None == -1
NoTask == "no task"

ASSUME PyramidAssumption ==
    /\ Top \in Nat
    /\ Accumulated \in [Statuses -> [Statuses -> Nat]]
    /\ \A t \in Statuses : Accumulated[t][t] = 0
ASSUME PlaceAssumption ==
    /\ Positions \subseteq Int /\ IsFiniteSet(Positions) /\ Sources \subseteq Positions
    /\ \A p \in Sources : (p - Accumulated[Top][0]) .. (p + Accumulated[Top][0]) \subseteq Positions
ASSUME BoundsAssumption ==
    /\ NoTask \notin Tasks /\ Stored \subseteq Positions
    /\ \A l \in Limits :
        /\ l.tasks \subseteq Tasks  \* identities: tasks not dropped at one time
        /\ l.slots \in Nat \ {0}     \* max_running_generation_tasks
        /\ l.tickets \subseteq SUBSET Sources \* the sets of tickets
        /\ l.changes \in Nat         \* how often the set of tickets changes
        /\ l.faults \in Nat          \* how many storage calls fail
        /\ l.stops \in BOOLEAN       \* whether the world may shut down

VARIABLES
    tickets,        \* positions that have a full-chunk ticket
    level,          \* level committed to each position: distance to a ticket, or None
    where,          \* "none", "active" (in chunks) or "unloading" (in unloading_chunks)
    started,        \* ChunkHolder::started_work
    published,      \* ChunkHolder::published_status
    disk,           \* status of the chunk in storage
    current,        \* ChunkHolder::generation_task
    producer,       \* what the producer task of a holder's claim is doing
    claimant,       \* the generation task that awaits the producer
    held,           \* the holders in the cache the producer works with
    center, target, \* ChunkGenerationTask::pos and target_status
    phase,          \* "free", "pending", "running", "releasing"; "overtaken" and "ended"
                    \* are those of a task that was done before it became a
                    \* holder's task, with its permit and without
    cancelled,      \* ChunkGenerationTask::cancelled
    layer,          \* ChunkGenerationTask::scheduled_status
    todo,           \* positions of the layer schedule_layer has not reached
    future,         \* what the task awaits at each position (neighbor_ready)
    running,        \* ChunkMap::running_generation_tasks
    notified,       \* a permit of generation_refill_notify
    stopped,        \* generation_refill_stopped
    game,           \* "idle", "commit", "schedule", "look", "install", "over" (no tick
                    \* will follow)
    toCommit, toSchedule,
    fresh,          \* the task the game thread has queued and not yet put into its holder
    stranded,       \* history: positions left without a task, see Stranding
    changes, faults,
    limits          \* those of this behaviour

holderVars == <<where, started, published, disk>>
workVars == <<producer, claimant, held>>
taskVars == <<center, target, phase, cancelled, layer, todo, future>>
queueVars == <<running, notified, stopped>>
gameVars == <<tickets, level, game, toCommit, toSchedule, fresh, changes>>
vars == <<holderVars, workVars, taskVars, queueVars, gameVars, current, stranded, faults,
          limits>>

-----------------------------------------------------------------------------
(* Levels and squares. *)

Square(p, r) == Positions \cap ((p - r) .. (p + r))

Distance(p, q) == IF p >= q THEN p - q ELSE q - p

\* The outermost level that keeps a chunk: MAX_LEVEL_RAW - FULL_CHUNK_LEVEL_RAW.
MaxLevel == Accumulated[Top][0]

\* What ticket propagation gives a position.
LevelFrom(set, p) ==
    LET near == {Distance(p, q) : q \in set} \cap (0 .. MaxLevel)
    IN  IF near = {} THEN None ELSE Min(near)

\* generation_status: the highest status the level permits.
Allowed(lv) ==
    IF lv = None THEN None
    ELSE Max({s \in Statuses : Accumulated[Top][s] >= lv})

Disallowed(p, s) == s > Allowed(level[p])

\* The holders in the cache of a task; they are pinned while the task or a
\* producer it spawned lives.
Cache(t) == Square(center[t], Accumulated[target[t]][0])

Pinned(p) ==
    \/ \E t \in Tasks : phase[t] # "free" /\ p \in Cache(t)
    \/ \E q \in Positions : p \in held[q]

SomePosition == Min(Positions)

\* ChunkStatus::StructureStarts, the first status that is persisted.
FirstSaved == 1

-----------------------------------------------------------------------------

Init ==
    /\ tickets = {} /\ level = [p \in Positions |-> None]
    /\ where = [p \in Positions |-> "none"]
    /\ started = [p \in Positions |-> None] /\ published = [p \in Positions |-> None]
    /\ disk = [p \in Positions |-> IF p \in Stored THEN Top ELSE None]
    /\ current = [p \in Positions |-> NoTask]
    /\ producer = [p \in Positions |-> "none"] /\ claimant = [p \in Positions |-> NoTask]
    /\ held = [p \in Positions |-> {}]
    /\ center = [t \in Tasks |-> SomePosition] /\ target = [t \in Tasks |-> 0]
    /\ phase = [t \in Tasks |-> "free"] /\ cancelled = [t \in Tasks |-> FALSE]
    /\ layer = [t \in Tasks |-> None] /\ todo = [t \in Tasks |-> {}]
    /\ future = [t \in Tasks |-> [p \in Positions |-> "none"]]
    /\ running = 0 /\ notified = FALSE /\ stopped = FALSE
    /\ game = "idle" /\ toCommit = {} /\ toSchedule = {} /\ fresh = NoTask /\ stranded = {}
    /\ changes = 0 /\ faults = 0 /\ limits \in Limits

\* The tasks of a set are dropped and those of another cancelled; what a dropped
\* task was is forgotten.
Dropped(set, cancel) ==
    /\ center' = [t \in Tasks |-> IF t \in set THEN SomePosition ELSE center[t]]
    /\ target' = [t \in Tasks |-> IF t \in set THEN 0 ELSE target[t]]
    /\ layer' = [t \in Tasks |-> IF t \in set THEN None ELSE layer[t]]
    /\ cancelled' = [t \in Tasks |-> t \notin set /\ (cancelled[t] \/ t \in cancel)]

\* The generation_task of the holder at p loses the task it has: an ended one is dropped.
TaskTaken(p) ==
    LET ended == {t \in Tasks : current[p] = t /\ phase[t] = "ended"}
    IN  /\ phase' = [t \in Tasks |-> IF t \in ended THEN "free" ELSE phase[t]]
        /\ Dropped(ended, {current[p]})

-----------------------------------------------------------------------------
(* The game thread: one chunk-source phase commits the changed levels one  *)
(* position after the other, then schedules generation for the holders     *)
(* that kept a level, then wakes the refill loop.                          *)

ChangeTickets(set) ==
    /\ game = "idle" /\ changes < limits.changes
    /\ set # tickets /\ set \in limits.tickets
    /\ tickets' = set /\ changes' = changes + 1
    /\ toCommit' = {p \in Positions : LevelFrom(set, p) # level[p]}
    /\ toSchedule' = {} /\ game' = "commit"
    /\ UNCHANGED <<level, fresh, holderVars, workVars, taskVars, queueVars, current, stranded,
                   faults, limits>>

\* A waiter woken by status_changed checks its condition again.
WokenAt(p) ==
    [t \in Tasks |-> [q \in Positions |->
        IF q = p /\ future[t][q] = "asleep" THEN "awake" ELSE future[t][q]]]

\* update_chunk_level for a position that keeps, gains or changes a level: a
\* lower level neither cancels the task of the holder nor wakes its waiters.
GrantLevel(p) ==
    /\ where' = [where EXCEPT ![p] = "active"]
    /\ toSchedule' = toSchedule \cup {p}
    /\ UNCHANGED <<current, center, target, phase, cancelled, layer, future, stranded>>

\* begin_chunk_unload.
BeginUnload(p) ==
    /\ where' = [where EXCEPT ![p] = "unloading"]
    /\ TaskTaken(p)
    /\ current' = [current EXCEPT ![p] = NoTask]
    /\ future' = WokenAt(p)
    /\ stranded' = stranded \ {p}
    /\ UNCHANGED toSchedule

\* update_chunk_level.
CommitLevel(p) ==
    /\ game = "commit" /\ toCommit # {} /\ p = Min(toCommit)
    /\ toCommit' = toCommit \ {p}
    /\ level' = [level EXCEPT ![p] = LevelFrom(tickets, p)]
    /\ IF LevelFrom(tickets, p) = None THEN BeginUnload(p) ELSE GrantLevel(p)
    /\ UNCHANGED <<started, published, disk, workVars, todo, queueVars, tickets, game, fresh,
                   changes, faults, limits>>

CommitDone ==
    /\ game = "commit" /\ toCommit = {}
    /\ game' = "schedule"
    /\ UNCHANGED <<tickets, level, toCommit, toSchedule, fresh, changes, holderVars, workVars,
                   taskVars, queueVars, current, stranded, faults, limits>>

\* The check of generation_task_target and generation_task.
HasTask(p, s) == current[p] # NoTask /\ s <= target[current[p]]

(* Stranding.  Two ways are known in which a chunk is left without a task      *)
(* below its level: schedule_chunk_generation_task_b trusts a task that has    *)
(* met a lower level and is going to end, and a task fails because a claim is  *)
(* given up for a level that has been granted again since.                     *)
Doomed(t) == cancelled[t] \/ \E p \in Positions : future[t][p] = "failed"

\* The task fails although the level of the position permits the status.
FailsAt(t, p, s) ==
    IF t \in Tasks /\ ~Disallowed(p, s) /\ (t = fresh \/ current[center[t]] = t)
    THEN {center[t]} ELSE {}

NextToSchedule(p) == toSchedule # {} /\ p = Min(toSchedule)

\* schedule_chunk_generation_task_b reads the published status first.
CheckPublished(p) ==
    /\ game = "schedule" /\ NextToSchedule(p)
    /\ IF published[p] >= Allowed(level[p])
       THEN toSchedule' = toSchedule \ {p} /\ UNCHANGED game
       ELSE game' = "look" /\ UNCHANGED toSchedule
    /\ UNCHANGED <<tickets, level, toCommit, fresh, changes, holderVars, workVars, taskVars,
                   queueVars, current, stranded, faults, limits>>

\* The holder has a task for the status, or a higher one.
TrustTask(p) ==
    /\ game = "look" /\ NextToSchedule(p)
    /\ HasTask(p, Allowed(level[p]))
    /\ game' = "schedule" /\ toSchedule' = toSchedule \ {p}
    /\ stranded' = IF Doomed(current[p]) THEN stranded \cup {p} ELSE stranded
    /\ UNCHANGED <<tickets, level, toCommit, fresh, changes, holderVars, workVars, taskVars,
                   queueVars, current, faults, limits>>

\* Which free identity a new task gets makes no difference.
NextTask ==
    CHOOSE t \in limits.tasks : phase[t] = "free" \/ \A u \in limits.tasks : phase[u] # "free"

\* schedule_generation_task_b: the new task is in the queue, where the refill loop
\* may take it, before its holder knows it.
QueueTask(p, t) ==
    /\ game = "look" /\ NextToSchedule(p)
    /\ ~HasTask(p, Allowed(level[p]))
    /\ phase[t] = "free" /\ t = NextTask
    /\ game' = "install" /\ fresh' = t /\ toSchedule' = toSchedule \ {p}
    /\ center' = [center EXCEPT ![t] = p]
    /\ target' = [target EXCEPT ![t] = Allowed(level[p])]
    /\ phase' = [phase EXCEPT ![t] = "pending"]
    /\ stranded' = stranded \ {p}
    /\ UNCHANGED <<tickets, level, toCommit, changes, holderVars, workVars, cancelled, layer,
                   todo, future, queueVars, current, faults, limits>>

\* The rest of reschedule_chunk_task_b: the new task, which may be done by now,
\* replaces the old one, which is cancelled.
InstallTask ==
    /\ game = "install"
    /\ LET p == center[fresh]
       IN  TaskTaken(p) /\ current' = [current EXCEPT ![p] = fresh]
    /\ game' = "schedule" /\ fresh' = NoTask
    /\ notified' = TRUE
    /\ UNCHANGED <<tickets, level, toCommit, toSchedule, changes, holderVars, workVars, todo,
                   future, running, stopped, stranded, faults, limits>>

\* run_or_notify_generation_refill, after the refill loop was started.
ScheduleDone ==
    /\ game = "schedule" /\ toSchedule = {}
    /\ game' = "idle" /\ notified' = TRUE
    /\ UNCHANGED <<tickets, level, toCommit, toSchedule, fresh, changes, holderVars, workVars,
                   taskVars, running, stopped, current, stranded, faults, limits>>

\* process_unloads, once the holder is saved and nothing else refers to it. A
\* holder created for the position later starts from nothing.
FinishUnload(p) ==
    /\ game = "idle" /\ where[p] = "unloading" /\ ~Pinned(p)
    /\ where' = [where EXCEPT ![p] = "none"]
    /\ disk' = [disk EXCEPT ![p] = IF published[p] < FirstSaved THEN disk[p] ELSE published[p]]
    /\ published' = [published EXCEPT ![p] = None]
    /\ started' = [started EXCEPT ![p] = None]
    /\ UNCHANGED <<workVars, taskVars, queueVars, gameVars, current, stranded, faults, limits>>

-----------------------------------------------------------------------------
(* The refill loop. *)

Pending == {t \in Tasks : phase[t] = "pending"}

FreeSlots == limits.slots - running

\* The load level of a task's center, the key by which a full queue is sorted
\* (GenerationTaskPriority, for chunks without a simulation level).
Priority(t) == IF level[center[t]] = None THEN MaxLevel ELSE level[center[t]]

\* run_generation_tasks_b: cancelled tasks leave the queue, and as many of the
\* others as there are free slots start, those of the strongest level first.
RunGenerationTasks(set) ==
    /\ notified
    /\ notified' = FALSE
    /\ IF stopped
       THEN set = {} /\ UNCHANGED <<phase, running, center, target, cancelled, layer>>
       ELSE LET waiting == {t \in Pending : ~cancelled[t]}
            IN  /\ set \subseteq waiting
                /\ Cardinality(set) = Min({Cardinality(waiting), FreeSlots})
                /\ \A t \in set, u \in waiting \ set : Priority(t) <= Priority(u)
                /\ phase' = [t \in Tasks |-> IF t \in set THEN "running"
                                             ELSE IF t \in Pending \ waiting THEN "free"
                                             ELSE phase[t]]
                /\ Dropped(Pending \ waiting, {})
                /\ running' = running + Cardinality(set)
    /\ UNCHANGED <<stopped, todo, future, holderVars, workVars,
                   gameVars, current, stranded, faults, limits>>

\* stop_generation_refill_loop, when the world shuts down after its last tick.
StopRefill ==
    /\ limits.stops /\ game = "idle"
    /\ game' = "over" /\ stopped' = TRUE
    /\ phase' = [t \in Tasks |-> IF phase[t] = "pending" THEN "free" ELSE phase[t]]
    /\ Dropped(Pending, {})
    /\ current' = [p \in Positions |-> IF current[p] \in Pending THEN NoTask ELSE current[p]]
    /\ UNCHANGED <<todo, future, running, notified, holderVars, workVars,
                   tickets, level, toCommit, toSchedule, fresh, changes, stranded, faults, limits>>

-----------------------------------------------------------------------------
(* A running task: layers of statuses from Empty to the target, each one   *)
(* scheduled position by position and then awaited.                        *)

Settled(t) == todo[t] = {} /\ \A p \in Positions : future[t][p] \in {"none", "ok", "failed"}

NoFutures == [p \in Positions |-> "none"]

\* Mutant: a failed dependency does not cancel the task.
StartLayerDespiteFailure(t) ==
    /\ phase[t] = "running" /\ ~cancelled[t] /\ Settled(t) /\ layer[t] # target[t]
    /\ layer' = [layer EXCEPT ![t] = @ + 1]
    /\ todo' = [todo EXCEPT ![t] = Square(center[t], Accumulated[target[t]][layer[t] + 1])]
    /\ future' = [future EXCEPT ![t] = NoFutures]
    /\ UNCHANGED <<center, target, phase, cancelled, holderVars, workVars, queueVars, gameVars,
                   current, stranded, faults, limits>>

\* Mutant: the next layer is scheduled without waiting for the futures of the last.
StartLayerUnsettled(t) ==
    /\ phase[t] = "running" /\ ~cancelled[t] /\ todo[t] = {} /\ layer[t] # target[t]
    /\ layer' = [layer EXCEPT ![t] = @ + 1]
    /\ todo' = [todo EXCEPT ![t] = Square(center[t], Accumulated[target[t]][layer[t] + 1])]
    /\ future' = [future EXCEPT ![t] = NoFutures]
    /\ UNCHANGED <<center, target, phase, cancelled, holderVars, workVars, queueVars, gameVars,
                   current, stranded, faults, limits>>

\* schedule_next_layer, after wait_for_scheduled_layers.
StartLayer(t) ==
    /\ phase[t] = "running" /\ ~cancelled[t] /\ Settled(t) /\ layer[t] # target[t]
    /\ \A p \in Positions : future[t][p] # "failed"
    /\ layer' = [layer EXCEPT ![t] = @ + 1]
    /\ todo' = [todo EXCEPT ![t] = Square(center[t], Accumulated[target[t]][layer[t] + 1])]
    /\ future' = [future EXCEPT ![t] = NoFutures]
    /\ UNCHANGED <<center, target, phase, cancelled, holderVars, workVars, queueVars, gameVars,
                   current, stranded, faults, limits>>

\* The run loop breaks: the target layer is done, a future of the layer failed
\* (wait_for_scheduled_layers then cancels the task), or the task was cancelled,
\* which drops the futures it still waits for. Dropping the permit begins with
\* clear_generation_task_if_current.
FinishTask(t) ==
    /\ phase[t] = "running" /\ todo[t] = {}
    /\ \/ cancelled[t] /\ UNCHANGED cancelled
       \/ /\ ~cancelled[t] /\ Settled(t) /\ \E p \in Positions : future[t][p] = "failed"
          /\ cancelled' = [cancelled EXCEPT ![t] = TRUE]
       \/ /\ ~cancelled[t] /\ Settled(t) /\ layer[t] = target[t]
          /\ \A p \in Positions : future[t][p] # "failed"
          /\ UNCHANGED cancelled
    /\ phase' = [phase EXCEPT ![t] = IF t = fresh THEN "overtaken" ELSE "releasing"]
    /\ future' = [future EXCEPT ![t] = NoFutures]
    /\ claimant' = [p \in Positions |-> IF claimant[p] = t THEN NoTask ELSE claimant[p]]
    /\ current' = [current EXCEPT ![center[t]] = IF @ = t THEN NoTask ELSE @]
    /\ UNCHANGED <<center, target, layer, todo, holderVars, producer, held, queueVars, gameVars,
                   stranded, faults, limits>>

\* The permit's task is still referred to by its holder, or will be.
Registered(t) == t = fresh \/ \E p \in Positions : current[p] = t

\* Mutant: the freed slot is not announced to the refill loop.
PermitFreesSlotSilently(t) ==
    /\ phase[t] \in {"releasing", "overtaken"}
    /\ phase' = [phase EXCEPT ![t] = IF Registered(t) THEN "ended" ELSE "free"]
    /\ Dropped({t} \ {u \in Tasks : Registered(u)}, {})
    /\ running' = running - 1 /\ UNCHANGED notified
    /\ UNCHANGED <<todo, future, stopped, holderVars, workVars, gameVars, current, stranded,
                   faults, limits>>

\* The rest of the permit's drop: the decrement of running_generation_tasks and
\* notify_generation_refill.
PermitFreesSlot(t) ==
    /\ phase[t] \in {"releasing", "overtaken"}
    /\ phase' = [phase EXCEPT ![t] = IF Registered(t) THEN "ended" ELSE "free"]
    /\ Dropped({t} \ {u \in Tasks : Registered(u)}, {})
    /\ running' = running - 1 /\ notified' = TRUE
    /\ UNCHANGED <<todo, future, stopped, holderVars, workVars, gameVars, current, stranded,
                   faults, limits>>

\* schedule_layer stops at a cancelled task.
AbandonLayer(t) ==
    /\ phase[t] = "running" /\ todo[t] # {} /\ cancelled[t]
    /\ todo' = [todo EXCEPT ![t] = {}]
    /\ UNCHANGED <<center, target, phase, cancelled, layer, future, holderVars, workVars, queueVars,
                   gameVars, current, stranded, faults, limits>>

\* The next position of the layer.
At(t) == Min(todo[t])

Reaches(t) == phase[t] = "running" /\ todo[t] # {} /\ ~cancelled[t]

\* apply_step: the level of the holder does not permit the status.
StepDisallowed(t) ==
    /\ Reaches(t) /\ Disallowed(At(t), layer[t])
    /\ todo' = [todo EXCEPT ![t] = @ \ {At(t)}]
    /\ cancelled' = [cancelled EXCEPT ![t] = TRUE]
    /\ UNCHANGED <<center, target, phase, layer, future, holderVars, workVars, queueVars, gameVars,
                   current, stranded, faults, limits>>

\* apply_step claims the work (claim_status_work) and spawns its producer.
StepClaims(t) ==
    /\ Reaches(t) /\ ~Disallowed(At(t), layer[t])
    /\ started[At(t)] = layer[t] - 1
    /\ started' = [started EXCEPT ![At(t)] = layer[t]]
    /\ producer' = [producer EXCEPT ![At(t)] = IF layer[t] = 0 THEN "acquire" ELSE "generate"]
    /\ claimant' = [claimant EXCEPT ![At(t)] = t]
    /\ held' = [held EXCEPT ![At(t)] = Cache(t)]
    /\ todo' = [todo EXCEPT ![t] = @ \ {At(t)}]
    /\ future' = [future EXCEPT ![t][At(t)] = "producer"]
    /\ UNCHANGED <<where, published, disk, center, target, phase, cancelled, layer, queueVars,
                   gameVars, current, stranded, faults, limits>>

\* The work was claimed or done before: wait for it.
StepAwaits(t) ==
    /\ Reaches(t) /\ ~Disallowed(At(t), layer[t])
    /\ started[At(t)] >= layer[t]
    /\ todo' = [todo EXCEPT ![t] = @ \ {At(t)}]
    /\ future' = [future EXCEPT ![t][At(t)] = "awake"]
    /\ UNCHANGED <<center, target, phase, cancelled, layer, holderVars, workVars, queueVars,
                   gameVars, current, stranded, faults, limits>>

\* One turn of await_claimed_chunk_status. The notification is requested before
\* the state is read, so a wake-up between the two is not lost.
AwaitClaimed(t, p) ==
    /\ phase[t] = "running" /\ todo[t] = {} /\ future[t][p] = "awake"
    /\ future' = [future EXCEPT ![t][p] =
                    IF published[p] >= layer[t] THEN "ok"
                    ELSE IF Disallowed(p, layer[t]) \/ started[p] < layer[t] THEN "failed"
                    ELSE "asleep"]
    /\ stranded' = stranded \cup
                     IF future'[t][p] = "failed" THEN FailsAt(t, p, layer[t]) ELSE {}
    /\ UNCHANGED <<center, target, phase, cancelled, layer, todo, holderVars, workVars, queueVars,
                   gameVars, current, faults, limits>>

-----------------------------------------------------------------------------
(* The producer of a claim: started[p] is the status it works on.          *)

\* The futures after a result of the producer at p: its own claimant resolves,
\* if it still waits, and waiters are woken.
Resolved(p, result) ==
    [t \in Tasks |-> [q \in Positions |->
        IF q # p THEN future[t][q]
        ELSE IF t = claimant[p] /\ future[t][q] = "producer" THEN result
        ELSE IF future[t][q] = "asleep" THEN "awake"
        ELSE future[t][q]]]

ProducerEnds(p) ==
    /\ producer' = [producer EXCEPT ![p] = "none"]
    /\ claimant' = [claimant EXCEPT ![p] = NoTask]
    /\ held' = [held EXCEPT ![p] = {}]

\* Mutant: a publication does not wake the waiters.
PublishSilently(p, s) ==
    /\ started' = [started EXCEPT ![p] = Max({@, s})]
    /\ published' = [published EXCEPT ![p] = Max({@, s})]
    /\ ProducerEnds(p)
    /\ future' = [t \in Tasks |-> IF t = claimant[p] /\ future[t][p] = "producer"
                                   THEN [future[t] EXCEPT ![p] = "ok"] ELSE future[t]]
    /\ UNCHANGED <<where, disk, center, target, phase, cancelled, layer, todo, queueVars,
                   gameVars, current, stranded>>

\* mark_status_work_published, then publication and notify_waiters.
Publish(p, s) ==
    /\ started' = [started EXCEPT ![p] = Max({@, s})]
    /\ published' = [published EXCEPT ![p] = Max({@, s})]
    /\ ProducerEnds(p)
    /\ future' = Resolved(p, "ok")
    /\ UNCHANGED <<where, disk, center, target, phase, cancelled, layer, todo, queueVars,
                   gameVars, current, stranded>>

\* Mutant: the claim of abandoned work is not rolled back.
AbandonKeepingClaim(p) ==
    /\ ProducerEnds(p)
    /\ future' = Resolved(p, "failed")
    /\ stranded' = stranded \cup FailsAt(claimant[p], p, started[p])
    /\ UNCHANGED <<holderVars, center, target, phase, cancelled, layer, todo,
                   queueVars, gameVars, current>>

\* The producer gives up; dropping the claim rolls started_work back to the
\* published status and wakes the waiters (release_status_work_claim).
Abandon(p) ==
    /\ started' = [started EXCEPT ![p] = published[p]]
    /\ ProducerEnds(p)
    /\ future' = Resolved(p, "failed")
    /\ stranded' = stranded \cup FailsAt(claimant[p], p, started[p])
    /\ UNCHANGED <<where, published, disk, center, target, phase, cancelled, layer, todo,
                   queueVars, gameVars, current>>

Storage(p, step) ==
    /\ producer' = [producer EXCEPT ![p] = step]
    /\ UNCHANGED <<claimant, held, holderVars, taskVars, queueVars, gameVars, current, stranded>>

Fault == faults < limits.faults /\ faults' = faults + 1 /\ UNCHANGED limits

Faultless == UNCHANGED <<faults, limits>>

\* apply_empty_step after acquire_chunk returned.
AcquireStorage(p) ==
    /\ producer[p] = "acquire"
    /\ \/ Fault /\ Abandon(p)
       \/ Disallowed(p, 0) /\ Storage(p, "giveup") /\ Faultless
       \/ /\ ~Disallowed(p, 0) /\ Faultless
          /\ Storage(p, IF disk[p] = None THEN "generate" ELSE "load")

\* apply_existing_empty_step after load_chunk returned: an error, a corrupt entry
\* that is generated again unless the status became disallowed, or a chunk.
LoadStorage(p) ==
    /\ producer[p] = "load"
    /\ \/ Fault /\ Storage(p, "giveup")
       \/ Disallowed(p, 0) /\ Storage(p, "giveup") /\ Faultless
       \/ ~Disallowed(p, 0) /\ Storage(p, "generate") /\ Fault
       \/ ~Disallowed(p, 0) /\ Publish(p, disk[p]) /\ Faultless

\* release_chunk returned, with an error or without: the claim is dropped, whatever
\* level the holder has by now.
GiveUp(p) ==
    /\ producer[p] = "giveup"
    /\ Abandon(p)
    /\ Faultless

\* run_step_task returned: finish_generation_status.
FinishGeneration(p) ==
    /\ producer[p] = "generate"
    /\ Publish(p, started[p])
    /\ Faultless

-----------------------------------------------------------------------------

GameStep ==
    \/ \E p \in Positions : CommitLevel(p) \/ CheckPublished(p) \/ TrustTask(p)
    \/ \E p \in Positions, t \in Tasks : QueueTask(p, t)
    \/ CommitDone \/ InstallTask \/ ScheduleDone

TaskStep(t) ==
    \/ StartLayer(t) \/ FinishTask(t) \/ PermitFreesSlot(t)
    \/ AbandonLayer(t) \/ StepDisallowed(t) \/ StepClaims(t) \/ StepAwaits(t)
    \/ \E p \in Positions : AwaitClaimed(t, p)

ProducerStep(p) == AcquireStorage(p) \/ LoadStorage(p) \/ GiveUp(p) \/ FinishGeneration(p)

\* The game loop ticks, the runtime polls every woken task and every spawned
\* producer, and the refill loop polls its notification.  That some step of the
\* machinery is taken while one is possible is enough: none can repeat for ever.
MachineStep ==
    \/ GameStep
    \/ \E set \in SUBSET Tasks : RunGenerationTasks(set)
    \/ \E t \in Tasks : TaskStep(t)
    \/ \E p \in Positions : ProducerStep(p)

Next ==
    \/ \E set \in SUBSET Sources : ChangeTickets(set)
    \/ MachineStep
    \/ \E p \in Positions : FinishUnload(p)
    \/ StopRefill

Spec == Init /\ [][Next]_vars

LiveSpec == Spec /\ WF_vars(MachineStep)

-----------------------------------------------------------------------------
(* Properties. *)

\* Every variable holds a value the code can store in it.
TypeOK ==
    /\ tickets \subseteq Sources /\ level \in [Positions -> None .. MaxLevel]
    /\ where \in [Positions -> {"none", "active", "unloading"}]
    /\ started \in [Positions -> None .. Top] /\ published \in [Positions -> None .. Top]
    /\ disk \in [Positions -> None .. Top]
    /\ current \in [Positions -> Tasks \cup {NoTask}]
    /\ producer \in [Positions -> {"none", "acquire", "load", "giveup", "generate"}]
    /\ claimant \in [Positions -> Tasks \cup {NoTask}]
    /\ held \in [Positions -> SUBSET Positions]
    /\ center \in [Tasks -> Positions] /\ target \in [Tasks -> Statuses]
    /\ phase \in [Tasks -> {"free", "pending", "running", "releasing", "overtaken", "ended"}]
    /\ cancelled \in [Tasks -> BOOLEAN] /\ layer \in [Tasks -> None .. Top]
    /\ todo \in [Tasks -> SUBSET Positions]
    /\ future \in [Tasks -> [Positions ->
                    {"none", "producer", "awake", "asleep", "ok", "failed"}]]
    /\ running \in 0 .. limits.slots /\ notified \in BOOLEAN /\ stopped \in BOOLEAN
    /\ game \in {"idle", "commit", "schedule", "look", "install", "over"}
    /\ fresh \in Tasks \cup {NoTask} /\ (fresh # NoTask <=> game = "install")
    /\ stranded \subseteq Positions
    /\ toCommit \subseteq Positions /\ toSchedule \subseteq Positions
    /\ changes \in 0 .. limits.changes /\ faults \in 0 .. limits.faults

\* A claim is held exactly while its producer works: started_work runs ahead of
\* the published status by the one status being produced, so a failed or
\* disallowed step never leaves a claim behind that nobody will fulfil.
ClaimsMatch ==
    \A p \in Positions :
        /\ started[p] >= published[p]
        /\ producer[p] # "none" <=> started[p] > published[p]
        /\ producer[p] # "none" => started[p] = published[p] + 1

\* A task that reaches a position of its layer finds the work of the previous
\* status done there: claim_status_work never meets its panic.
NoClaimPanic ==
    \A t \in Tasks : Reaches(t) =>
        \A p \in todo[t] : published[p] >= layer[t] - 1

\* A step is generated only while everything it reads is published: the chunk
\* itself at the parent status (the assertion of apply_generated_step) and its
\* neighbours at the statuses of the step's direct dependencies.
DependenciesPublished ==
    \A p \in Positions : producer[p] = "generate" =>
        /\ published[p] = started[p] - 1
        /\ \A q \in Positions :
            Distance(p, q) \in DOMAIN Direct[started[p]] =>
                published[q] >= Direct[started[p]][Distance(p, q)]

\* When a task is scheduled, chunks has a holder for every position of its cache:
\* the expect in ChunkGenerationTask::new is never met.
CacheComplete ==
    \A p \in toSchedule : game \in {"schedule", "look"} =>
        \A q \in Square(p, Accumulated[Allowed(level[p])][0]) : where[q] = "active"

\* running_generation_tasks counts the tasks that have not dropped their permit,
\* and never exceeds the cap.
PermitsMatch ==
    /\ running = Cardinality({t \in Tasks : phase[t] \in {"running", "releasing", "overtaken"}})
    /\ running <= limits.slots

\* The task of a holder is one that will still run or end by itself: a task that
\* was thrown out of the queue is never left in generation_task, where it would
\* keep new tasks from being scheduled.  The one exception is a task that the
\* refill loop took and finished before reschedule_chunk_task_b installed it.
CurrentTaskLive ==
    \A p \in Positions : current[p] # NoTask =>
        /\ where[p] = "active" /\ center[current[p]] = p
        /\ phase[current[p]] \in {"pending", "running", "overtaken", "ended"}
        /\ phase[current[p]] = "pending" => ~cancelled[current[p]]

\* A task outlives its permit only as the task of one holder, or on the way there.
EndedRegistered ==
    \A t \in Tasks : phase[t] = "ended" =>
        t = fresh \/ \E p \in Positions : current[p] = t

\* What the holders, the tasks and the counter of permits say about each other:
\* no claim, permit or task is left behind by a task that failed, was cancelled
\* or lost its holder.
Bookkeeping == TypeOK /\ ClaimsMatch /\ PermitsMatch /\ CurrentTaskLive /\ EndedRegistered

\* Neither of the two panics of scheduling is met: claim_status_work finds the
\* status below claimed, and ChunkGenerationTask::new finds every holder.
NoPanic == NoClaimPanic /\ CacheComplete

\* Once tickets stop changing, the machinery comes to rest, whatever tasks were
\* cancelled, replaced or left without their holders on the way: every queued task
\* is started or dropped and every started one ends, so no tasks wait for each
\* other forever, no waiter misses its wake-up, and every freed slot reaches the
\* refill loop.
Quiet == \A t \in Tasks : phase[t] \in {"free", "ended"}
EventuallyQuiet == <>[]Quiet

\* A chunk does not stay below Full for ever while its level permits Full, unless
\* the world shuts down, a storage access failed on the way, or it is stranded in
\* one of the two ways above; that there is no third one is what this says.
EventuallyFull ==
    \A p \in Sources :
        []<>(level[p] = 0 /\ game = "idle" /\ faults = 0 /\ p \notin stranded
                => published[p] = Top)

\* When every task, producer and notification of the generation machinery is
\* spent, a chunk whose level permits Full is at Full: a holder for which
\* schedule_chunk_generation_task_b schedules nothing really has "a suitable
\* task or is already at the target status".
RestMeansFull ==
    /\ game = "idle" /\ ~notified
    /\ Quiet
    /\ \A p \in Positions : producer[p] = "none"
    => \A p \in Positions : level[p] = 0 => published[p] = Top

=============================================================================
