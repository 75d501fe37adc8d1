---------------------------- MODULE ChunkTracker ----------------------------
(***************************************************************************)
(* Incremental propagation of ticket levels: ChunkTracker, shared by the   *)
(* loading and the simulation domain. A source gives its chunk a level,    *)
(* every neighbour gets at most one more, and levels beyond MaxLevel are    *)
(* absent. A run applies the netted source changes and corrects only what  *)
(* they can affect, in the order of a bucket queue.                        *)
(*                                                                         *)
(* The hash maps of the code are functions on Positions; NoLevel marks a   *)
(* missing key of pending_source_levels, pending_levels, original_levels.  *)
(* The queue is a set of entries <<level, position>>: a second copy of an  *)
(* entry is skipped by run_all_updates, so buckets need no multiplicity,   *)
(* and hash order makes any entry of the lowest bucket the next one.       *)
(***************************************************************************)
EXTENDS Integers, FiniteSets, FiniteSetsExt

CONSTANTS
    Positions,      \* the chunk positions levels can reach
    Distance,       \* Distance[p][q]: the Chebyshev distance
    MaxLevel,       \* MAX_LEVEL of the domain
    Sources,        \* positions at which tickets are put
    SourceLevels    \* the levels of tickets

Absent == MaxLevel + 1
NoLevel == -1
Levels == 0 .. Absent

ASSUME DistanceAssumption ==
    /\ IsFiniteSet(Positions) /\ Distance \in [Positions -> [Positions -> Nat]]
    /\ \A p, q \in Positions : Distance[p][q] = 0 <=> p = q
    /\ \A p, q \in Positions : Distance[p][q] = Distance[q][p]
    /\ \A p, q, r \in Positions : Distance[p][q] <= Distance[p][r] + Distance[r][q]
    /\ \A p, q \in Positions : Distance[p][q] # 0 =>
        \E n \in Positions : Distance[p][n] = 1 /\ Distance[n][q] = Distance[p][q] - 1
ASSUME LevelAssumption ==
    /\ MaxLevel \in Nat /\ SourceLevels \subseteq 0 .. MaxLevel /\ Sources \subseteq Positions

VARIABLES
    source,         \* source_levels
    pendingSource,  \* pending_source_levels: the level before the first change
    level,          \* levels
    pending,        \* pending_levels
    queue,          \* propagation_queue
    original,       \* original_levels of the run
    changes,        \* the positions in changes
    toCheck,        \* source_changes the run has not looked at
    phase,          \* "idle" or "running" (inside run_all_updates)
    before          \* history: the levels when the run started

vars == <<source, pendingSource, level, pending, queue, original, changes, toCheck, phase, before>>

\* ChunkPos::neighbors, the eight positions around a position.
Neighbors == [p \in Positions |-> {q \in Positions : Distance[p][q] = 1}]

Nowhere == [p \in Positions |-> NoLevel]

Init ==
    /\ source = [p \in Positions |-> Absent] /\ level = [p \in Positions |-> Absent]
    /\ pendingSource = Nowhere /\ pending = Nowhere /\ original = Nowhere /\ toCheck = Nowhere
    /\ queue = {} /\ changes = {} /\ phase = "idle" /\ before = Nowhere

Least(a, b) == IF a <= b THEN a ELSE b

-----------------------------------------------------------------------------
(* Source updates between runs. *)

\* apply_source_update: changes at one position are netted against the level the
\* position had before the first of them.
ApplySourceUpdate(p, new) ==
    /\ phase = "idle" /\ source[p] # new
    /\ source' = [source EXCEPT ![p] = new]
    /\ LET old == IF pendingSource[p] = NoLevel THEN source[p] ELSE pendingSource[p]
       IN  pendingSource' = [pendingSource EXCEPT ![p] = IF old = new THEN NoLevel ELSE old]
    /\ UNCHANGED <<level, pending, queue, original, changes, toCheck, phase, before>>

-----------------------------------------------------------------------------
(* One run. *)

\* level(q) + 1 for every neighbour, the source of p itself, and ABSENT_LEVEL:
\* compute_level. A known parent whose level is passed separately is Absent.
ComputeLevel(p, lv, fromParent) ==
    Min({Absent, fromParent, source[p]} \cup {lv[q] + 1 : q \in Neighbors[p]})

\* The level p is about to get.
Computed(p) == IF pending[p] = NoLevel THEN level[p] ELSE pending[p]

\* replace_pending_level for every position of DOMAIN new, with new[p] its computed level
\* and lv the current levels; pd and qu are the pending levels and the queue before.
Replaced(lv, pd, new) ==
    [p \in Positions |-> IF p \notin DOMAIN new THEN pd[p]
                         ELSE IF new[p] = lv[p] THEN NoLevel ELSE new[p]]

\* Mutant: an entry is queued at the computed level even when it is the higher one.
EnqueuedAtComputed(lv, qu, new) ==
    qu \cup {<<new[p], p>> : p \in {x \in DOMAIN new : new[x] # lv[x]}}

Enqueued(lv, qu, new) ==
    qu \cup {<<Least(lv[p], new[p]), p>> : p \in {x \in DOMAIN new : new[x] # lv[x]}}

\* run_all_updates without a source change.
RunNothing ==
    /\ phase = "idle" /\ pendingSource = Nowhere /\ changes # {}
    /\ changes' = {}
    /\ UNCHANGED <<source, pendingSource, level, pending, queue, original, toCheck, phase, before>>

StartRun ==
    /\ phase = "idle" /\ pendingSource # Nowhere
    /\ phase' = "running" /\ changes' = {} /\ before' = level
    /\ toCheck' = pendingSource /\ pendingSource' = Nowhere
    /\ UNCHANGED <<source, level, pending, queue, original>>

\* check_edge from no parent: a source that got stronger can only lower the level,
\* one that got weaker needs the level computed again.
CheckNew(p) ==
    [q \in {p} |-> IF source[p] < toCheck[p] THEN Least(Computed(p), source[p])
                   ELSE ComputeLevel(p, level, source[p])]

CheckSource(p) ==
    /\ phase = "running" /\ toCheck[p] # NoLevel
    /\ toCheck' = [toCheck EXCEPT ![p] = NoLevel]
    /\ pending' = Replaced(level, pending, CheckNew(p))
    /\ queue' = Enqueued(level, queue, CheckNew(p))
    /\ UNCHANGED <<source, pendingSource, level, original, changes, phase, before>>

\* The entries pop may return.
FirstQueued == {e \in queue : \A f \in queue : e[1] <= f[1]}

Current(e) == pending[e[2]] # NoLevel /\ Least(level[e[2]], pending[e[2]]) = e[1]

Popping(e) == phase = "running" /\ toCheck = Nowhere /\ e \in FirstQueued

\* Mutant: a stale entry is looked at but stays in its bucket.
SkipStalePeeks(e) ==
    /\ Popping(e) /\ ~Current(e)
    /\ UNCHANGED vars

SkipStale(e) ==
    /\ Popping(e) /\ ~Current(e)
    /\ queue' = queue \ {e}
    /\ UNCHANGED <<source, pendingSource, level, pending, original, changes, toCheck, phase, before>>

\* Mutant: a position without a level counts as one that is recorded already.
RecordedIfPresent(p) ==
    original' = [original EXCEPT ![p] = IF @ = NoLevel /\ level[p] # Absent THEN level[p] ELSE @]

Recorded(p) ==
    original' = [original EXCEPT ![p] = IF @ = NoLevel THEN level[p] ELSE @]

\* apply_pending_level with a lower level: neighbours can only be lowered.
LowerNew(p) ==
    [q \in IF pending[p] >= MaxLevel THEN {} ELSE Neighbors[p] |->
        Least(Computed(q), Least(pending[p] + 1, Absent))]

LowerLevel(e) ==
    LET p == e[2]
        lv == [level EXCEPT ![p] = pending[p]]
        pd == [pending EXCEPT ![p] = NoLevel]
    IN  /\ Popping(e) /\ Current(e) /\ pending[p] < level[p]
        /\ level' = lv
        /\ pending' = Replaced(lv, pd, LowerNew(p))
        /\ queue' = Enqueued(lv, queue \ {e}, LowerNew(p))
        /\ Recorded(p)
        /\ UNCHANGED <<source, pendingSource, changes, toCheck, phase, before>>

\* Mutant: only neighbours that have the same level are computed again.
RaiseNewShort(p) ==
    [q \in {x \in Neighbors[p] : Computed(x) = level[p]} |->
        ComputeLevel(q, [level EXCEPT ![p] = Absent], Absent)]

\* apply_pending_level with a higher level: the level is forgotten first, the new
\* one waits in the queue, and neighbours whose level came from p are computed
\* again without it.
RaiseNew(p) ==
    [q \in {x \in Neighbors[p] : Computed(x) = Least(level[p] + 1, Absent)} |->
        ComputeLevel(q, [level EXCEPT ![p] = Absent], Absent)]

RaiseLevel(e) ==
    LET p == e[2]
        lv == [level EXCEPT ![p] = Absent]
        pd == [pending EXCEPT ![p] = IF pending[p] = Absent THEN NoLevel ELSE pending[p]]
        qu == (queue \ {e}) \cup
                (IF pending[p] = Absent THEN {} ELSE {<<pending[p], p>>})
    IN  /\ Popping(e) /\ Current(e) /\ pending[p] > level[p]
        /\ level' = lv
        /\ pending' = Replaced(lv, pd, RaiseNew(p))
        /\ queue' = Enqueued(lv, qu, RaiseNew(p))
        /\ Recorded(p)
        /\ UNCHANGED <<source, pendingSource, changes, toCheck, phase, before>>

\* The changes of the run.
FinishRun ==
    /\ phase = "running" /\ toCheck = Nowhere /\ queue = {}
    /\ changes' = {p \in Positions : original[p] # NoLevel /\ original[p] # level[p]}
    /\ original' = Nowhere /\ phase' = "idle" /\ before' = Nowhere
    /\ UNCHANGED <<source, pendingSource, level, pending, queue, toCheck>>

-----------------------------------------------------------------------------

Entries == Levels \X Positions

RunStep ==
    \/ \E p \in Positions : CheckSource(p)
    \/ \E e \in queue : SkipStale(e) \/ LowerLevel(e) \/ RaiseLevel(e)
    \/ FinishRun

Next ==
    \/ \E p \in Sources, l \in SourceLevels \cup {Absent} : ApplySourceUpdate(p, l)
    \/ RunNothing \/ StartRun
    \/ RunStep

Spec == Init /\ [][Next]_vars

\* run_all_updates is a loop of the game thread.
LiveSpec == Spec /\ WF_vars(RunStep)

-----------------------------------------------------------------------------
(* Properties. *)

\* Every variable holds a level, a marker or a set of positions.
TypeOK ==
    /\ source \in [Positions -> Levels] /\ level \in [Positions -> Levels]
    /\ pendingSource \in [Positions -> Levels \cup {NoLevel}]
    /\ pending \in [Positions -> Levels \cup {NoLevel}]
    /\ original \in [Positions -> Levels \cup {NoLevel}]
    /\ toCheck \in [Positions -> Levels \cup {NoLevel}]
    /\ before \in [Positions -> Levels \cup {NoLevel}]
    /\ queue \subseteq Entries /\ changes \subseteq Positions
    /\ phase \in {"idle", "running"}

\* The source levels the last run used: changes since then are netted.
UsedSource(p) == IF pendingSource[p] = NoLevel THEN source[p] ELSE pendingSource[p]

\* Between runs every level is the smallest source level plus distance, or absent
\* beyond MaxLevel: what the incremental corrections of run_all_updates leave is
\* what a propagation from nothing would give.
LevelsExact ==
    phase = "idle" =>
        \A p \in Positions :
            level[p] = Min({Absent} \cup {UsedSource(q) + Distance[p][q] : q \in Positions})

\* A run reports exactly the positions whose level differs from the one before it.
ChangesExact ==
    [][phase = "running" /\ phase' = "idle" =>
        changes' = {p \in Positions : before[p] # level[p]}]_vars

\* A pending position always has an entry for its present priority, and between
\* runs nothing is pending (the assertions of run_all_updates): no correction is
\* forgotten and none is left for the next run.
QueueCovers ==
    /\ \A p \in Positions : pending[p] # NoLevel =>
        /\ pending[p] # level[p] /\ <<Least(level[p], pending[p]), p>> \in queue
    /\ phase = "idle" => queue = {} /\ pending = Nowhere

\* What a source that still has to be looked at may hide: the source p had.
SeenSource(p) ==
    IF phase = "idle" THEN UsedSource(p)
    ELSE IF toCheck[p] = NoLevel THEN source[p] ELSE toCheck[p]

\* The level a position is about to get is the one its neighbours and its source
\* justify.
PendingJustified ==
    \A p \in Positions :
        Computed(p) = Min({Absent, SeenSource(p)} \cup {level[q] + 1 : q \in Neighbors[p]})

\* A run ends: corrections do not chase each other around the graph.
RunEnds == phase = "running" ~> phase = "idle"
=============================================================================
