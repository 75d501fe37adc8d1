----------------------------- MODULE LightWork -----------------------------
(***************************************************************************)
(* Light work: the gate that keeps light-engine cache windows apart        *)
(* (LightWorkWindowGate), the queue of light changes of block updates      *)
(* (PendingLightUpdates, LightUpdateState), and the three kinds of actors  *)
(* that use them:                                                          *)
(*   - the game thread, which queues changes, propagates the queue in      *)
(*     broadcast_changed_chunks and process_unloads, and finalizes         *)
(*     unloading chunks no update touches; it also moves chunks between    *)
(*     the maps of active and unloading chunks;                            *)
(*   - savers, which flush the updates touching a chunk before they save   *)
(*     it, and, when the game loop has stopped, flush all of them;         *)
(*   - workers, the Light steps of chunk generation.                       *)
(* A lock region is one step.  A change is a number: later changes have    *)
(* larger ones.  A chunk stands for one section, whose emptiness is the    *)
(* number of the change that set it.                                       *)
(***************************************************************************)
EXTENDS Integers, Sequences, FiniteSets, SequencesExt

CONSTANTS
    Positions,      \* chunk positions
    Distance,       \* Distance[p][q], the chessboard distance
    Radius,         \* LIGHT_CACHE_RADIUS
    Savers,         \* concurrent save tasks
    Workers,        \* concurrent Light steps
    Game,           \* the game thread
    NoPos,          \* no position
    MaxChanges,     \* bound: light changes queued
    Limits          \* who acts in one behaviour and how often, the bounds of an instance

ASSUME RadiusAssumption ==
    /\ Radius \in Nat
    /\ Distance \in [Positions -> [Positions -> Nat]]
    /\ NoPos \notin Positions
ASSUME LimitsAssumption ==
    \A l \in Limits :
        /\ l.lit \subseteq Positions      \* the chunks that have Light at the start
        /\ l.saved \subseteq Positions    \* the chunks that are saved
        /\ l.savers \subseteq Savers
        /\ l.changes \in 0 .. MaxChanges  \* light changes queued
        /\ l.steps \in Nat               \* Light steps started
        /\ l.moves \in Nat               \* chunks moved from map to map

VARIABLES
    lit,        \* positions whose holder, active or unloading, has Light
    task,       \* pending.chunks: the queued task of a center, or NoTask
    queued,     \* pending.queued_chunks
    inFlight,   \* in_flight_centers
    held,       \* active_centers, by the actor that reserved
    pc,
    at,         \* the center a saver or a worker is busy with
    woken,      \* the Notified future of an actor has been notified
    drained,    \* a saver's drained task
    target,     \* the chunk a saver flushes for, NoPos for all
    tasks,      \* the game thread's drained tasks, in order
    blocked,    \* those whose window was taken
    tracked,    \* the centers of its InFlightLightUpdates guard
    moving,     \* the chunk that is in neither map, or NoPos
    moves,      \* chunks moved
    steps,      \* Light steps started
    changes,    \* light changes queued
    blocks,     \* per center, block changes queued and not propagated
    newest,     \* per center, the last emptiness change queued
    seen,       \* per center, the last emptiness change propagated
    dropped,    \* the changes of tasks whose center was not found
    limits      \* those of this behaviour

pending == <<task, queued>>
game == <<tasks, blocked, tracked>>
maps == <<moving, moves>>
light == <<blocks, newest, seen, dropped>>
vars == <<lit, task, queued, inFlight, held, pc, at, woken, drained, target,
          tasks, blocked, tracked, moving, moves, steps, changes, blocks, newest, seen,
          dropped, limits>>

Actors == {Game} \cup Savers \cup Workers
NoTask == [positions |-> {}, section |-> 0]
Changes == 1 .. MaxChanges
Task == [positions : SUBSET Changes, section : 0 .. MaxChanges]

\* light_update_window_contains, the filter of a flush, and windows_overlap.
WindowContains(center, p) == Distance[center][p] <= Radius
Touches(center, t) == t = NoPos \/ WindowContains(center, t)
\* Mutant: centers one radius apart pass for disjoint.
OverlapByRadius(c, d) == Distance[c][d] <= Radius
WindowsOverlap(c, d) == Distance[c][d] <= 2 * Radius

Pending(c) == task[c] # NoTask
InFlight(c) == inFlight[c] > 0

Init ==
    /\ limits \in Limits
    /\ lit = limits.lit
    /\ task = [c \in Positions |-> NoTask]
    /\ queued = <<>>
    /\ inFlight = [c \in Positions |-> 0]
    /\ held = [a \in Actors |-> NoPos]
    /\ pc = [a \in Actors |-> "idle"]
    /\ at = [a \in Actors |-> NoPos]
    /\ woken = [a \in Actors |-> FALSE]
    /\ drained = [s \in Savers |-> NoTask]
    /\ target = [s \in Savers |-> NoPos]
    /\ tasks = <<>>
    /\ blocked = <<>>
    /\ tracked = {}
    /\ moving = NoPos
    /\ moves = 0
    /\ steps = 0
    /\ changes = 0
    /\ blocks = [c \in Positions |-> {}]
    /\ newest = [c \in Positions |-> 0]
    /\ seen = [c \in Positions |-> 0]
    /\ dropped = {}

Goto(a, l) == pc' = [pc EXCEPT ![a] = l]

(***************************************************************************)
(* The gate.  reserve_centered creates its Notified future first and tries *)
(* then, so a release after the future exists wakes it.  A release removes *)
(* the center under the lock and notifies after it; a future created in    *)
(* between is woken once too often and no more.                            *)
(***************************************************************************)
Free(c) == \A a \in Actors : held[a] = NoPos \/ ~WindowsOverlap(c, held[a])
GateWaiters == {a \in Actors : pc[a] \in {"try", "gated"}}

Register(a) ==
    /\ pc[a] = "reserve"
    /\ Goto(a, "try")
    /\ woken' = [woken EXCEPT ![a] = FALSE]
    /\ UNCHANGED <<lit, pending, inFlight, held, at, drained, target, game,
                   steps, changes, light, maps, limits>>

TryReserve(a) ==
    /\ pc[a] = "try"
    /\ IF Free(at[a])
         THEN /\ held' = [held EXCEPT ![a] = at[a]]
              /\ Goto(a, "held")
              /\ woken' = [woken EXCEPT ![a] = FALSE]
         ELSE /\ Goto(a, "gated")
              /\ UNCHANGED <<held, woken>>
    /\ UNCHANGED <<lit, pending, inFlight, at, drained, target, game,
                   steps, changes, light, maps, limits>>

WakeGated(a) ==
    /\ pc[a] = "gated"
    /\ woken[a]
    /\ Goto(a, "reserve")
    /\ woken' = [woken EXCEPT ![a] = FALSE]
    /\ UNCHANGED <<lit, pending, inFlight, held, at, drained, target,
                   game, steps, changes, light, maps, limits>>

\* Dropping a reservation.
DropReservation(a) ==
    /\ held' = [held EXCEPT ![a] = NoPos]
    /\ woken' = [b \in Actors |-> woken[b] \/ b \in GateWaiters]

(***************************************************************************)
(* The queue.                                                              *)
(***************************************************************************)
\* queue_light_change of the game thread: only a center with Light takes a
\* change, and a change is a block to check, a section, or both.
QueueChange(c, block, section) ==
    /\ pc[Game] = "idle"
    /\ changes < limits.changes
    /\ c \in lit
    /\ block \/ section
    /\ LET n == changes + 1 IN
       /\ changes' = n
       /\ queued' = IF Pending(c) THEN queued ELSE Append(queued, c)
       /\ task' = [task EXCEPT
            ![c].positions = IF block THEN @ \cup {n} ELSE @,
            ![c].section = IF section THEN n ELSE @]
       /\ blocks' = [blocks EXCEPT ![c] = IF block THEN @ \cup {n} ELSE @]
       /\ newest' = [newest EXCEPT ![c] = IF section THEN n ELSE @]
    /\ UNCHANGED <<lit, inFlight, held, pc, at, woken, drained, target, game,
                   steps, seen, dropped, maps, limits>>

\* merge_older: the emptiness of the newer task stays.
MergeOlder(newer, older) ==
    [positions |-> newer.positions \cup older.positions,
     section |-> IF newer.section # 0 THEN newer.section ELSE older.section]

\* propagate_queued_light_change of a task that has been drained: when no map
\* holds the center there is no workset, and the task is gone.
Propagated(c, t) ==
    IF c = moving
    THEN /\ dropped' = dropped \cup t.positions \cup ({t.section} \ {0})
         /\ UNCHANGED <<blocks, newest, seen>>
    ELSE /\ blocks' = [blocks EXCEPT ![c] = @ \ t.positions]
         /\ seen' = [seen EXCEPT ![c] = IF t.section # 0 THEN t.section ELSE @]
         /\ UNCHANGED <<newest, dropped>>

\* An InFlightLightUpdates guard of these centers is dropped.
ProgressWaiters == {s \in Savers : pc[s] \in {"recheck", "asleep"}}
FinishInFlight(centers) ==
    /\ inFlight' = [c \in Positions |-> inFlight[c] - IF c \in centers THEN 1 ELSE 0]
    /\ woken' = [a \in Actors |-> woken[a] \/ a \in ProgressWaiters]

(***************************************************************************)
(* The game thread: propagate_queued_light_changes, and the retain of      *)
(* process_unloads after it.                                               *)
(***************************************************************************)
\* Mutant: the drained centers are not tracked.
DrainPendingUntracked ==
    /\ pc[Game] = "idle"
    /\ IF queued = <<>>
         THEN /\ Goto(Game, "unload")
              /\ UNCHANGED <<pending, inFlight, tasks, tracked>>
         ELSE /\ Goto(Game, "tasks")
              /\ tasks' = [i \in DOMAIN queued |->
                             [center |-> queued[i], task |-> task[queued[i]]]]
              /\ tracked' = ToSet(queued)
              /\ UNCHANGED inFlight
              /\ task' = [c \in Positions |-> NoTask]
              /\ queued' = <<>>
    /\ UNCHANGED <<lit, held, at, woken, drained, target, blocked, steps,
                   changes, light, maps, limits>>

DrainPending ==
    /\ pc[Game] = "idle"
    /\ IF queued = <<>>
         THEN /\ Goto(Game, "unload")
              /\ UNCHANGED <<pending, inFlight, tasks, tracked>>
         ELSE /\ Goto(Game, "tasks")
              /\ tasks' = [i \in DOMAIN queued |->
                             [center |-> queued[i], task |-> task[queued[i]]]]
              /\ tracked' = ToSet(queued)
              /\ inFlight' = [c \in Positions |->
                                inFlight[c] + IF c \in ToSet(queued) THEN 1 ELSE 0]
              /\ task' = [c \in Positions |-> NoTask]
              /\ queued' = <<>>
    /\ UNCHANGED <<lit, held, at, woken, drained, target, blocked, steps,
                   changes, light, maps, limits>>

\* Mutant: a task runs without its window.
TryTaskUngated ==
    /\ pc[Game] = "tasks"
    /\ tasks # <<>>
    /\ LET c == Head(tasks).center IN
       IF TRUE
         THEN /\ held' = [held EXCEPT ![Game] = c]
              /\ Goto(Game, "run")
              /\ UNCHANGED <<tasks, blocked>>
         ELSE /\ blocked' = Append(blocked, Head(tasks))
              /\ tasks' = Tail(tasks)
              /\ UNCHANGED <<held, pc>>
    /\ UNCHANGED <<lit, pending, inFlight, at, woken, drained, target, tracked,
                   steps, changes, light, maps, limits>>

TryTask ==
    /\ pc[Game] = "tasks"
    /\ tasks # <<>>
    /\ LET c == Head(tasks).center IN
       IF Free(c)
         THEN /\ held' = [held EXCEPT ![Game] = c]
              /\ Goto(Game, "run")
              /\ UNCHANGED <<tasks, blocked>>
         ELSE /\ blocked' = Append(blocked, Head(tasks))
              /\ tasks' = Tail(tasks)
              /\ UNCHANGED <<held, pc>>
    /\ UNCHANGED <<lit, pending, inFlight, at, woken, drained, target, tracked,
                   steps, changes, light, maps, limits>>

RunTask ==
    /\ pc[Game] = "run"
    /\ Propagated(Head(tasks).center, Head(tasks).task)
    /\ DropReservation(Game)
    /\ tasks' = Tail(tasks)
    /\ Goto(Game, "tasks")
    /\ UNCHANGED <<lit, pending, inFlight, at, drained, target, blocked, tracked,
                   steps, changes, maps, limits>>

\* prepend_drained, before the in-flight guard is dropped.
BlockedCenters == [i \in DOMAIN blocked |-> blocked[i].center]
Prepended ==
    /\ task' = [c \in Positions |->
          IF \E i \in DOMAIN blocked : blocked[i].center = c
          THEN MergeOlder(task[c],
                          blocked[CHOOSE i \in DOMAIN blocked : blocked[i].center = c].task)
          ELSE task[c]]
    /\ queued' = BlockedCenters
                    \o SelectSeq(queued, LAMBDA c : c \notin ToSet(BlockedCenters))

PrependBlocked ==
    /\ pc[Game] = "tasks"
    /\ tasks = <<>>
    /\ Prepended
    /\ blocked' = <<>>
    /\ Goto(Game, "finish")
    /\ UNCHANGED <<lit, inFlight, held, at, woken, drained, target, tasks, tracked,
                   steps, changes, light, maps, limits>>

FinishPass ==
    /\ pc[Game] = "finish"
    /\ FinishInFlight(tracked)
    /\ tracked' = {}
    /\ Goto(Game, "unload")
    /\ UNCHANGED <<lit, pending, held, at, drained, target, tasks, blocked, steps,
                   changes, light, maps, limits>>

\* touches_chunk.
\* Mutant: only queued updates count.
TouchesPending(p) == \E c \in Positions : Pending(c) /\ WindowContains(c, p)
TouchesChunk(p) == \E c \in Positions : (Pending(c) \/ InFlight(c)) /\ WindowContains(c, p)

\* The retain of process_unloads, under the lock of the light updates: any
\* chunks that no update touches may be unloading, clean and unshared.  The
\* pass of broadcast_changed_chunks removes none.
ProcessUnloads(gone) ==
    /\ pc[Game] = "unload"
    /\ \A p \in gone : ~TouchesChunk(p)
    /\ lit' = lit \ gone
    /\ Goto(Game, "idle")
    /\ UNCHANGED <<pending, inFlight, held, at, woken, drained, target, game, steps,
                   changes, light, maps, limits>>

\* begin_chunk_unload and the revival in update_chunk_level take a holder out of
\* one map and put it into the other; in between light_update_holder finds none.
\* A lookup that reads one map before and the other after such a move misses it
\* the same way.
BeginMove(p) ==
    /\ pc[Game] = "idle"
    /\ moves < limits.moves
    /\ p \in lit
    /\ moving' = p
    /\ moves' = moves + 1
    /\ Goto(Game, "moving")
    /\ UNCHANGED <<lit, pending, inFlight, held, at, woken, drained, target, game,
                   steps, changes, light, limits>>

EndMove ==
    /\ pc[Game] = "moving"
    /\ moving' = NoPos
    /\ Goto(Game, "idle")
    /\ UNCHANGED <<lit, pending, inFlight, held, at, woken, drained, target, game,
                   moves, steps, changes, light, limits>>

\* The game loop ends before save_all_chunks.
StopGame ==
    /\ pc[Game] = "idle"
    /\ Goto(Game, "stopped")
    /\ UNCHANGED <<lit, pending, inFlight, held, at, woken, drained, target, game,
                   steps, changes, light, maps, limits>>

(***************************************************************************)
(* A saver: flush_queued_light_changes_touching_chunk_for_save(t), and     *)
(* flush_queued_light_changes_for_save (t = NoPos) once the game loop has  *)
(* ended.                                                                  *)
(***************************************************************************)
StartFlush(s, t) ==
    /\ pc[s] = "idle" /\ s \in limits.savers /\ t \in limits.saved \cup {NoPos}
    /\ (t = NoPos) <=> (pc[Game] = "stopped")
    /\ target' = [target EXCEPT ![s] = t]
    /\ Goto(s, "next")
    /\ UNCHANGED <<lit, pending, inFlight, held, at, woken, drained, game, steps,
                   changes, light, maps, limits>>

\* next_center, next_center_touching_chunk: the first queued one.
Candidates(t) == {i \in DOMAIN queued : Touches(queued[i], t)}
NextCenter(s) ==
    /\ pc[s] = "next"
    /\ IF Candidates(target[s]) = {}
         THEN /\ Goto(s, "check")
              /\ UNCHANGED at
         ELSE /\ at' = [at EXCEPT ![s] = queued[CHOOSE i \in Candidates(target[s]) :
                                     \A j \in Candidates(target[s]) : i <= j]]
              /\ Goto(s, "reserve")
    /\ UNCHANGED <<lit, pending, inFlight, held, woken, drained, target, game, steps,
                   changes, light, maps, limits>>

InFlightTouching(t) == \E c \in Positions : InFlight(c) /\ Touches(c, t)

\* Mutant: the flush does not look at updates in flight.
ReturnAtOnce(s) ==
    /\ pc[s] = "check"
    /\ Goto(s, "idle")
    /\ target' = [target EXCEPT ![s] = NoPos]
    /\ UNCHANGED <<lit, pending, inFlight, held, at, woken, drained, game,
                   steps, changes, light, maps, limits>>
\* Mutant: the check is inverted.
CheckInverted(s) ==
    /\ pc[s] = "check"
    /\ Goto(s, IF InFlightTouching(target[s]) THEN "idle" ELSE "watch")
    /\ target' = [target EXCEPT ![s] = IF InFlightTouching(@) THEN NoPos ELSE @]
    /\ UNCHANGED <<lit, pending, inFlight, held, at, woken, drained, game,
                   steps, changes, light, maps, limits>>
\* Nothing pending: return when nothing is in flight either, else wait.
CheckInFlight(s) ==
    /\ pc[s] = "check"
    /\ Goto(s, IF InFlightTouching(target[s]) THEN "watch" ELSE "idle")
    /\ target' = [target EXCEPT ![s] = IF InFlightTouching(@) THEN @ ELSE NoPos]
    /\ UNCHANGED <<lit, pending, inFlight, held, at, woken, drained, game,
                   steps, changes, light, maps, limits>>

\* wait_for_in_flight_light_updates: check, create the future, check, await.
Watch(s) ==
    /\ pc[s] = "watch"
    /\ Goto(s, IF InFlightTouching(target[s]) THEN "recheck" ELSE "next")
    /\ woken' = [woken EXCEPT ![s] = FALSE]
    /\ UNCHANGED <<lit, pending, inFlight, held, at, drained, target, game, steps,
                   changes, light, maps, limits>>

Recheck(s) ==
    /\ pc[s] = "recheck"
    /\ Goto(s, IF InFlightTouching(target[s]) THEN "asleep" ELSE "next")
    /\ woken' = [woken EXCEPT ![s] = @ /\ InFlightTouching(target[s])]
    /\ UNCHANGED <<lit, pending, inFlight, held, at, drained, target, game,
                   steps, changes, light, maps, limits>>

WakeWatching(s) ==
    /\ pc[s] = "asleep"
    /\ woken[s]
    /\ Goto(s, "watch")
    /\ woken' = [woken EXCEPT ![s] = FALSE]
    /\ UNCHANGED <<lit, pending, inFlight, held, at, drained, target, game,
                   steps, changes, light, maps, limits>>

\* drain_pending_light_update_for_center, with the window reserved: the task
\* may be gone.
DrainCenter(s) ==
    /\ pc[s] = "held"
    /\ s \in Savers
    /\ Pending(at[s])
    /\ drained' = [drained EXCEPT ![s] = task[at[s]]]
    /\ task' = [task EXCEPT ![at[s]] = NoTask]
    /\ queued' = SelectSeq(queued, LAMBDA c : c # at[s])
    /\ inFlight' = [inFlight EXCEPT ![at[s]] = @ + 1]
    /\ Goto(s, "run")
    /\ UNCHANGED <<lit, held, at, woken, target, game, steps, changes, light, maps, limits>>

DrainNothing(s) ==
    /\ pc[s] = "held"
    /\ s \in Savers
    /\ ~Pending(at[s])
    /\ DropReservation(s)
    /\ Goto(s, "next")
    /\ at' = [at EXCEPT ![s] = NoPos]
    /\ UNCHANGED <<lit, pending, inFlight, drained, target, game, steps, changes,
                   light, maps, limits>>

RunDrained(s) ==
    /\ pc[s] = "run"
    /\ s \in Savers
    /\ Propagated(at[s], drained[s])
    /\ DropReservation(s)
    /\ drained' = [drained EXCEPT ![s] = NoTask]
    /\ Goto(s, "finish")
    /\ UNCHANGED <<lit, pending, inFlight, at, target, game, steps, changes, maps, limits>>

FinishFlushed(s) ==
    /\ pc[s] = "finish"
    /\ s \in Savers
    /\ FinishInFlight({at[s]})
    /\ Goto(s, "next")
    /\ at' = [at EXCEPT ![s] = NoPos]
    /\ UNCHANGED <<lit, pending, held, drained, target, game, steps, changes,
                   light, maps, limits>>

(***************************************************************************)
(* A worker: apply_step of the Light status of a chunk.                    *)
(***************************************************************************)
StartLight(w, c) ==
    /\ pc[w] = "idle"
    /\ steps < limits.steps
    /\ steps' = steps + 1
    /\ c \notin lit
    /\ at' = [at EXCEPT ![w] = c]
    /\ IF Free(c)
         THEN /\ held' = [held EXCEPT ![w] = c]
              /\ Goto(w, "held")
         ELSE /\ Goto(w, "reserve")
              /\ UNCHANGED held
    /\ UNCHANGED <<lit, pending, inFlight, woken, drained, target, game, changes,
                   light, maps, limits>>

\* The step is claimed, or is disallowed or claimed by another task.
ClaimLight(w) ==
    /\ pc[w] = "held"
    /\ w \in Workers
    /\ \/ /\ at[w] \notin lit
          /\ Goto(w, "run")
          /\ UNCHANGED <<held, at, woken>>
       \/ /\ DropReservation(w)
          /\ at' = [at EXCEPT ![w] = NoPos]
          /\ Goto(w, "idle")
    /\ UNCHANGED <<lit, pending, inFlight, drained, target, game, steps, changes,
                   light, maps, limits>>

\* The step publishes Light and drops the reservation then; one that
\* panics drops it without.
FinishLight(w) ==
    /\ pc[w] = "run"
    /\ w \in Workers
    /\ lit' \in {lit, lit \cup {at[w]}}
    /\ DropReservation(w)
    /\ Goto(w, "idle")
    /\ at' = [at EXCEPT ![w] = NoPos]
    /\ UNCHANGED <<pending, inFlight, drained, target, game, steps, changes,
                   light, maps, limits>>

\* A cancelled generation task drops the future that waits for the window.
CancelLight(w) ==
    /\ w \in Workers
    /\ pc[w] \in {"reserve", "try", "gated"}
    /\ Goto(w, "idle")
    /\ at' = [at EXCEPT ![w] = NoPos]
    /\ woken' = [woken EXCEPT ![w] = FALSE]
    /\ UNCHANGED <<lit, pending, inFlight, held, drained, target, game,
                   steps, changes, light, maps, limits>>

Reserve(a) == Register(a) \/ TryReserve(a) \/ WakeGated(a)
GamePass ==
    DrainPending \/ TryTask \/ RunTask \/ PrependBlocked \/ FinishPass \/ EndMove
        \/ \E gone \in SUBSET lit : ProcessUnloads(gone)
FlushStep(s) ==
    \/ Reserve(s) \/ NextCenter(s) \/ CheckInFlight(s) \/ Watch(s) \/ Recheck(s)
    \/ WakeWatching(s) \/ DrainCenter(s) \/ DrainNothing(s) \/ RunDrained(s)
    \/ FinishFlushed(s)
LightStep(w) == Reserve(w) \/ ClaimLight(w) \/ FinishLight(w)

Next ==
    \/ \E c \in Positions, block, section \in BOOLEAN : QueueChange(c, block, section)
    \/ GamePass
    \/ \E p \in Positions : BeginMove(p)
    \/ StopGame
    \/ \E s \in Savers : FlushStep(s) \/ \E t \in Positions \cup {NoPos} : StartFlush(s, t)
    \/ \E w \in Workers :
          LightStep(w) \/ CancelLight(w) \/ \E c \in Positions : StartLight(w, c)

Spec == Init /\ [][Next]_vars

\* Every thread takes its next step.  A saver and the game thread may undo each
\* other's work: the saver takes the window in the moment between the drain
\* and the try of the game thread, which puts the task back.  The game
\* thread is in that moment once or twice in a tick of 50 ms; that it is there
\* each time the saver comes by is excluded by strong fairness of the steps
\* that get through.
TakeTask == TryTask /\ pc'[Game] = "run"
LiveSpec ==
    /\ Spec
    /\ WF_vars(GamePass) /\ SF_vars(TakeTask)
    /\ \A s \in Savers : WF_vars(FlushStep(s)) /\ SF_vars(DrainCenter(s))
    /\ \A w \in Workers : WF_vars(LightStep(w))

-----------------------------------------------------------------------------
\* Every variable keeps its type; the in-flight counters never underflow
\* (the debug_assert of finish_in_flight).
TypeOK ==
    /\ lit \subseteq Positions
    /\ task \in [Positions -> Task]
    /\ queued \in Seq(Positions)
    /\ inFlight \in [Positions -> Nat]
    /\ held \in [Actors -> Positions \cup {NoPos}]
    /\ at \in [Actors -> Positions \cup {NoPos}]
    /\ woken \in [Actors -> BOOLEAN]
    /\ drained \in [Savers -> Task]
    /\ target \in [Savers -> Positions \cup {NoPos}]
    /\ tracked \subseteq Positions
    /\ blocks \in [Positions -> SUBSET Changes]
    /\ newest \in [Positions -> 0 .. MaxChanges]
    /\ seen \in [Positions -> 0 .. MaxChanges]
    /\ moving \in lit \cup {NoPos}
    /\ dropped \subseteq Changes

Running == {a \in Actors : pc[a] = "run"}

\* Two worksets that run at the same time share no chunk: light of a chunk is
\* written by one of them, and a Light step publishes before an overlapping
\* workset is built (the contract of LightWorkWindowGate).
WindowsDisjoint ==
    \A a, b \in Running : a # b =>
        \A p \in Positions : ~(WindowContains(held[a], p) /\ WindowContains(held[b], p))

\* The order of the queue and its map agree: drain and next_center reach every
\* pending task, and each once.
QueueMatches ==
    /\ IsInjective(queued)
    /\ ToSet(queued) = {c \in Positions : Pending(c)}

\* The gate and the queue, whoever reserves, drains, puts back or releases.
Coherent == TypeOK /\ WindowsDisjoint /\ QueueMatches

\* A change waits: it is neither propagated nor dropped by a saver that did not
\* find the center, the loss that propagate_queued_light_change only logs.
Unpropagated(c) ==
    blocks[c] \ dropped # {} \/ (seen[c] # newest[c] /\ newest[c] \notin dropped)

\* A change that waits is in the queue or in flight, also while blocked tasks go
\* back to the queue; and its center keeps its chunk.  This is what
\* process_unloads asks of touches_chunk.  So a change is lost in that one way.
NothingForgotten ==
    \A c \in Positions :
        Unpropagated(c) => (Pending(c) \/ InFlight(c)) /\ c \in lit

\* No chunk is finalized while a change whose window contains it waits: the
\* retain of process_unloads sees the changes of every actor.
WindowsKept ==
    [][\A p \in lit \ lit', c \in Positions : WindowContains(c, p) => ~Unpropagated(c)]_vars

\* The emptiness of a section is propagated in the order it changed, whoever
\* propagates: a saver drains only inside the window.
SectionsInOrder == [][\A c \in Positions : seen'[c] >= seen[c]]_vars

\* When a flush of all changes has returned after the game loop ended, every
\* change that no saver dropped before is propagated: save_all_chunks saves no
\* light that waits for a change.
ShutdownFlushes ==
    [][\A s \in Savers :
          pc[s] = "check" /\ pc'[s] = "idle" /\ target[s] = NoPos
              => \A c \in Positions : ~Unpropagated(c)]_vars

\* Every flush returns, so that no chunk save hangs, and every Light step gets its
\* window: no wake-up of the gate or of the in-flight updates is lost.
WorkReturns == \A a \in Savers \cup Workers : (pc[a] # "idle") ~> (pc[a] = "idle")
=============================================================================
