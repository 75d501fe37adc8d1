-------------------------- MODULE TicketScheduling --------------------------
(***************************************************************************)
(* Tickets and the chunk-source phase: the ingress lock with its ticket    *)
(* storage, request leases and player coverage (TicketOperationIngress),   *)
(* the two level trackers, the commit of levels to chunk holders at the    *)
(* tick boundary, the receipts that tell a requester that its tickets are  *)
(* committed, and the polls of requesters on other threads.                *)
(*                                                                         *)
(* Every operation under the ingress lock is one action. The trackers are  *)
(* replaced by what ChunkTracker is proved to compute (Propagated). The    *)
(* commit is one action per position: polls come between.                  *)
(*                                                                         *)
(* A generation status is represented by the weakest level that allows it: *)
(* Full is FullLevel, a lower status a greater level, none is Absent.      *)
(***************************************************************************)
EXTENDS Integers, FiniteSets, FiniteSetsExt

CONSTANTS
    Positions, Distance,    \* chunk positions and their Chebyshev distance
    EntityTicking,          \* ENTITY_TICKING_CHUNK, the level of a loading ticket
    MaxLevel,               \* MAX, the last level of the loading domain
    Requesters,             \* owners of a ChunkRequestHandle
    RequestSets,            \* the sets of positions they ask for
    RequestLevels,          \* the levels of the statuses they ask for
    Players, ViewDistance, SimulationDistance,
    Timed,                  \* timed ticket types: PORTAL and ENDER_PEARL
    TimedLevel, Timeout,    \* their level and timeout
    Persistent,             \* the ones with the persist flag
    NoPos,                  \* a player that is in no world
    Limits                  \* who acts in one behaviour and how often, the bounds of an instance

BlockTicking == EntityTicking + 1
FullLevel == EntityTicking + 2
Absent == MaxLevel + 1
Levels == 0 .. Absent

ASSUME PositionAssumption ==
    /\ IsFiniteSet(Positions) /\ Distance \in [Positions -> [Positions -> Nat]]
    /\ \A p \in Positions : Distance[p][p] = 0
ASSUME TicketAssumption ==
    /\ EntityTicking \in Nat /\ MaxLevel \in Nat /\ FullLevel <= MaxLevel
    /\ IsFiniteSet(Requesters) /\ RequestLevels \subseteq 0 .. MaxLevel
    /\ RequestSets \subseteq (SUBSET Positions) \ {{}}
    /\ IsFiniteSet(Players) /\ NoPos \notin Positions
    /\ ViewDistance \in Nat /\ SimulationDistance \in 0 .. EntityTicking
    /\ Timed \cap {"request", "loading", "simulation"} = {}
    /\ TimedLevel \in [Timed -> 0 .. MaxLevel] /\ Timeout \in [Timed -> Nat \ {0}]
    /\ Persistent \subseteq Timed
ASSUME LimitsAssumption ==
    \A l \in Limits :
        /\ l.actors \subseteq Requesters \cup Players \cup Timed
        /\ l.submissions \in Nat /\ l.refreshes \in Nat /\ l.restarts \in Nat

Types == {"request", "loading", "simulation"} \cup Timed
Tickets == Types \X (0 .. MaxLevel)

VARIABLES
    tickets,        \* ChunkTicketStorage::tickets: <<type, level>> by position
    left,           \* ticks_left of the timed tickets
    gen,            \* their timed_generation, 0 without a ticket
    generations,    \* the counter timed_generation
    leases,         \* chunk_request_leases: a count by position and level
    coverage,       \* loading_coverage
    playerPos,      \* player_positions
    latest,         \* latest_receipt
    dirtyLoad, dirtySim,
    loadSource, simSource, loadLevel, simLevel,    \* the two trackers
    committed,      \* committed_receipt
    holderLoad, holderSim,  \* levels of the holders in `chunks`; Absent: no holder
    reached,        \* the status a holder has published, as a level
    unloading,      \* positions with a holder in unloading_chunks
    pc,             \* the game thread: "idle", "aging", "aged", "updated", "committing"
    expirations,    \* the timed entries of this tick's pass
    loadChanges, simChanges, through,   \* the update batch
    wants, wantLevel, receipt,          \* the lease of a request
    poll, seen,     \* where its poll is and what it found
    saved,          \* the saved timed tickets: ticks left, or -1
    restarts,
    fresh, passes,  \* history: refreshed since the snapshot; complete passes since the refresh
    limits          \* those of this behaviour

storage == <<tickets, left, gen, generations>>
ingress == <<leases, coverage, playerPos, latest, dirtyLoad, dirtySim>>
trackers == <<loadSource, simSource, loadLevel, simLevel>>
holders == <<holderLoad, holderSim, reached, unloading>>
batch == <<loadChanges, simChanges, through>>
requests == <<wants, wantLevel, receipt, poll, seen>>
persisted == <<saved, restarts, limits>>
history == <<fresh, passes>>
vars == <<storage, ingress, trackers, committed, holders, pc, expirations, batch, requests,
          persisted, history>>

-----------------------------------------------------------------------------
(* Ticket storage. *)

Loads(type) == type # "simulation"
Simulates(type) == type \notin {"request", "loading"}

\* load_source_level: the strongest loading ticket at p.
LoadSource(tk, p) == Min({Absent} \cup {t[2] : t \in {u \in tk[p] : Loads(u[1])}})

\* simulation_source_level: the strongest simulation ticket that reaches block ticking.
SimSource(tk, p) ==
    Min({Absent} \cup
        {t[2] : t \in {u \in tk[p] : Simulates(u[1]) /\ u[2] <= BlockTicking}})

\* What a tracker with limit max computes from its sources (theorem PropagationExact of
\* ChunkTrackerProofs). Absent stands for the absent level of both domains.
Propagated(source, max) ==
    [p \in Positions |->
        LET least == Min({Absent} \cup {source[q] + Distance[p][q] : q \in Positions})
        IN  IF least <= max THEN least ELSE Absent]

\* The positions whose set of tickets of type ty changes become dirty: record_changes.
Dirtied(ty, changed) ==
    /\ dirtyLoad' = IF Loads(ty) THEN dirtyLoad \cup changed ELSE dirtyLoad
    /\ dirtySim' = IF Simulates(ty) THEN dirtySim \cup changed ELSE dirtySim

-----------------------------------------------------------------------------
(* Start of a world: tickets that were saved are restored, the trackers are *)
(* seeded with them and propagate in the first source phase.                *)

Nowhere == [p \in Positions |-> Absent]

\* from_persistent.
Restored(sv) ==
    [p \in Positions |-> {<<t, TimedLevel[t]>> : t \in {u \in Timed : sv[p][u] >= 0}}]

\* Each loaded ticket gets its own generation; their order is irrelevant.
RestoredGen(sv) == [p \in Positions |-> [t \in Timed |-> IF sv[p][t] >= 0 THEN 1 ELSE 0]]

NothingSaved == [p \in Positions |-> [t \in Timed |-> -1]]

NoLeases == [p \in Positions |-> [l \in 0 .. MaxLevel |-> 0]]
Uncounted == [p \in Positions |-> 0]

Init ==
    /\ saved = NothingSaved /\ restarts = 0
    /\ tickets = Restored(NothingSaved) /\ left = NothingSaved /\ gen = RestoredGen(NothingSaved)
    /\ generations = 1 /\ leases = NoLeases /\ coverage = Uncounted
    /\ playerPos = [pl \in Players |-> NoPos]
    /\ latest = 0 /\ committed = 0 /\ dirtyLoad = {} /\ dirtySim = {}
    /\ loadSource = Nowhere /\ simSource = Nowhere /\ loadLevel = Nowhere /\ simLevel = Nowhere
    /\ holderLoad = Nowhere /\ holderSim = Nowhere /\ reached = Nowhere /\ unloading = {}
    /\ pc = "idle" /\ expirations = {} /\ loadChanges = {} /\ simChanges = {} /\ through = 0
    /\ wants = [r \in Requesters |-> {}] /\ wantLevel = [r \in Requesters |-> MaxLevel]
    /\ receipt = [r \in Requesters |-> 0] /\ poll = [r \in Requesters |-> "none"]
    /\ seen = [r \in Requesters |-> {}]
    /\ limits \in Limits
    /\ fresh = {} /\ passes = [p \in Positions |-> [t \in Timed |-> 0]]

\* to_persistent: the remaining ticks of the tickets whose type persists.
ToPersistent ==
    [p \in Positions |->
        [t \in Timed |-> IF t \in Persistent /\ gen[p][t] # 0 THEN left[p][t] ELSE -1]]

\* The world stops after its last tick, with its tickets saved (cleanup) or, when the
\* process dies or the save fails, with those of an earlier stop, and starts again.
\* The trackers are seeded with the restored sources and propagate in the first phase.
Restart(sv) ==
    /\ restarts < limits.restarts
    /\ saved' = sv /\ restarts' = restarts + 1 /\ UNCHANGED limits
    /\ tickets' = Restored(sv) /\ left' = sv /\ gen' = RestoredGen(sv)
    /\ generations' = 1 /\ leases' = NoLeases /\ coverage' = Uncounted
    /\ playerPos' = [pl \in Players |-> NoPos]
    /\ latest' = 0 /\ committed' = 0 /\ dirtyLoad' = {} /\ dirtySim' = {}
    /\ loadSource' = [p \in Positions |-> LoadSource(Restored(sv), p)]
    /\ simSource' = [p \in Positions |-> SimSource(Restored(sv), p)]
    /\ loadLevel' = Nowhere /\ simLevel' = Nowhere
    /\ holderLoad' = Nowhere /\ holderSim' = Nowhere /\ reached' = Nowhere /\ unloading' = {}
    /\ pc' = "idle" /\ expirations' = {} /\ loadChanges' = {} /\ simChanges' = {} /\ through' = 0
    /\ wants' = [r \in Requesters |-> {}] /\ wantLevel' = [r \in Requesters |-> MaxLevel]
    /\ receipt' = [r \in Requesters |-> 0] /\ poll' = [r \in Requesters |-> "none"]
    /\ seen' = [r \in Requesters |-> {}]
    /\ fresh' = {}
    /\ passes' = [p \in Positions |-> [t \in Timed |-> IF sv[p][t] >= 0 THEN Timeout[t] - sv[p][t] ELSE 0]]

CleanRestart == pc = "idle" /\ Restart(ToPersistent)

Crash == Restart(saved)

-----------------------------------------------------------------------------
(* Requests: acquire_chunk_request_leases and release_chunk_request_leases  *)
(* under the ingress lock, polls without it.                                *)

RequestTicket(l) == <<"request", l>>

\* acquire_chunk_request_leases: the first lease at a position and level adds the ticket.
Acquire(r, ps, l) ==
    /\ wants[r] = {} /\ r \in limits.actors /\ latest < limits.submissions
    /\ leases' = [p \in Positions |->
                    IF p \in ps THEN [leases[p] EXCEPT ![l] = @ + 1] ELSE leases[p]]
    /\ LET need == {p \in ps : leases[p][l] = 0}
       IN  /\ tickets' = [p \in Positions |->
                            IF p \in need THEN tickets[p] \cup {RequestTicket(l)} ELSE tickets[p]]
           /\ Dirtied("request", {p \in need : RequestTicket(l) \notin tickets[p]})
    /\ latest' = latest + 1
    /\ wants' = [wants EXCEPT ![r] = ps] /\ wantLevel' = [wantLevel EXCEPT ![r] = l]
    /\ receipt' = [receipt EXCEPT ![r] = latest + 1]
    /\ UNCHANGED <<left, gen, generations, coverage, playerPos, trackers, committed, holders, pc,
                   expirations, batch, poll, seen, persisted, history>>

\* Drop of the lease: the last one at a position and level removes the ticket.
Release(r) ==
    LET l == wantLevel[r]
        last == {p \in wants[r] : leases[p][l] = 1}
    IN  /\ wants[r] # {} /\ poll[r] # "scanning" /\ latest < limits.submissions
        /\ leases' = [p \in Positions |->
                        IF p \in wants[r] THEN [leases[p] EXCEPT ![l] = @ - 1] ELSE leases[p]]
        /\ tickets' = [p \in Positions |->
                        IF p \in last THEN tickets[p] \ {RequestTicket(l)} ELSE tickets[p]]
        /\ Dirtied("request", {p \in last : RequestTicket(l) \in tickets[p]})
        /\ latest' = latest + 1
        /\ wants' = [wants EXCEPT ![r] = {}]
        /\ poll' = [poll EXCEPT ![r] = "none"] /\ seen' = [seen EXCEPT ![r] = {}]
        /\ UNCHANGED <<left, gen, generations, coverage, playerPos, trackers, committed, holders, pc,
                       expirations, batch, wantLevel, receipt, persisted, history>>

\* try_chunk(status) on the holder in `chunks`.
HasStatus(p, l) == holderLoad[p] # Absent /\ reached[p] <= Max({l, FullLevel})

\* Mutant: a poll looks at the chunks whatever the receipt.
PollCommittedUnread(r) ==
    /\ wants[r] # {} /\ poll[r] = "none"
    /\ poll' = [poll EXCEPT ![r] = "scanning"]
    /\ UNCHANGED <<storage, ingress, trackers, committed, holders, pc, expirations, batch, wants,
                   wantLevel, receipt, seen, persisted, history>>

\* A poll reads the committed receipt before it looks at the chunks; without it the answer
\* is Pending whatever they are.
PollCommitted(r) ==
    /\ wants[r] # {} /\ poll[r] = "none" /\ receipt[r] <= committed
    /\ poll' = [poll EXCEPT ![r] = "scanning"]
    /\ UNCHANGED <<storage, ingress, trackers, committed, holders, pc, expirations, batch, wants,
                   wantLevel, receipt, seen, persisted, history>>

\* It looks at the chunks one by one. The answer is Ready when it saw all of them.
PollChunk(r, p) ==
    /\ poll[r] = "scanning" /\ p \in wants[r] \ seen[r]
    /\ IF HasStatus(p, wantLevel[r])
       THEN /\ seen' = [seen EXCEPT ![r] = @ \cup {p}]
            /\ poll' = IF seen[r] \cup {p} = wants[r] THEN [poll EXCEPT ![r] = "ready"] ELSE poll
       ELSE /\ seen' = [seen EXCEPT ![r] = {}]
            /\ poll' = [poll EXCEPT ![r] = "none"]
    /\ UNCHANGED <<storage, ingress, trackers, committed, holders, pc, expirations, batch, wants,
                   wantLevel, receipt, persisted, history>>

-----------------------------------------------------------------------------
(* Players: update_player_status and remove_player submit a removal from the *)
(* old center and an addition at the new one in one batch.                   *)

LoadingTicket == <<"loading", EntityTicking>>
SimulationTicket == <<"simulation", EntityTicking - SimulationDistance>>

Alone(pl, c) == \A other \in Players \ {pl} : playerPos[other] # c

Square(c) == {p \in Positions : Distance[p][c] <= ViewDistance}

\* remove_player_from_center: the coverage once pl has left its center.
Uncovered(pl) ==
    LET c == playerPos[pl]
    IN  IF c \in Positions /\ Alone(pl, c)
        THEN [p \in Positions |-> IF p \in Square(c) THEN coverage[p] - 1 ELSE coverage[p]]
        ELSE coverage

\* add_player: a center counts once, for the first player in it.
Covered(pl, c, cov) ==
    IF c \in Positions /\ Alone(pl, c)
    THEN [p \in Positions |-> IF p \in Square(c) THEN cov[p] + 1 ELSE cov[p]]
    ELSE cov

MovePlayer(pl, c) ==
    LET old == playerPos[pl]
        without == Uncovered(pl)
        with == Covered(pl, c, without)
        emptied == {old} \cap {p \in Positions : Alone(pl, p)}
        filled == {c} \cap {p \in Positions : Alone(pl, p)}
    IN  /\ c # old /\ pl \in limits.actors /\ latest < limits.submissions
        /\ playerPos' = [playerPos EXCEPT ![pl] = c] /\ coverage' = with
        /\ tickets' = [p \in Positions |->
                        (tickets[p] \ ((IF p \in emptied THEN {SimulationTicket} ELSE {})
                                       \cup (IF with[p] = 0 THEN {LoadingTicket} ELSE {})))
                        \cup (IF p \in filled THEN {SimulationTicket} ELSE {})
                        \cup (IF with[p] > 0 THEN {LoadingTicket} ELSE {})]
        /\ dirtyLoad' = dirtyLoad \cup {p \in Positions : coverage[p] > 0 /\ without[p] = 0}
                                  \cup {p \in Positions : without[p] = 0 /\ with[p] > 0}
        /\ dirtySim' = dirtySim \cup emptied \cup filled
        /\ latest' = latest + 1
        /\ UNCHANGED <<left, gen, generations, leases, trackers, committed, holders, pc, expirations,
                       batch, requests, persisted, history>>

-----------------------------------------------------------------------------
(* Timed tickets. *)

\* add_or_refresh_portal_ticket, add_or_refresh_ender_pearl_ticket.
PlaceTimed(p, t) ==
    /\ t \in limits.actors /\ generations <= limits.refreshes
    /\ tickets' = [tickets EXCEPT ![p] = @ \cup {<<t, TimedLevel[t]>>}]
    /\ Dirtied(t, IF gen[p][t] = 0 THEN {p} ELSE {})
    /\ generations' = generations + 1
    /\ gen' = [gen EXCEPT ![p][t] = generations + 1]
    /\ left' = [left EXCEPT ![p][t] = Timeout[t]]
    /\ fresh' = fresh \cup {<<p, t>>} /\ passes' = [passes EXCEPT ![p][t] = 0]
    /\ UNCHANGED <<leases, coverage, playerPos, latest, trackers, committed, holders, pc,
                   expirations, batch, requests, persisted>>

TimedEntries ==
    {<<x[1], x[2], gen[x[1]][x[2]]>> : x \in {y \in Positions \X Timed : gen[y[1]][y[2]] # 0}}

\* eligible_timed_ticket_expirations: a snapshot of the timed tickets, without the lock
\* afterwards. Those of a holder that a save or a generation task depends on are left out
\* (busy); the rest of them age. Only a normal tick does this.
SnapshotTimed(busy) ==
    /\ pc = "idle" /\ TimedEntries # {}
    /\ busy \subseteq {p \in Positions : holderLoad[p] # Absent}
    /\ expirations' = {e \in TimedEntries : e[1] \notin busy}
    /\ pc' = "aging" /\ fresh' = {}
    /\ UNCHANGED <<storage, ingress, trackers, committed, holders, batch, requests, persisted,
                   passes>>

\* Mutant: a ticket refreshed since the snapshot is aged with the others.
AgedWhateverGeneration(p, t) == gen[p][t] # 0 /\ \E e \in expirations : e[1] = p /\ e[2] = t

\* The entry is still the one of the snapshot.
Aged(p, t) == gen[p][t] # 0 /\ <<p, t, gen[p][t]>> \in expirations

\* tick_timed_tickets: expired when ticks_left falls below zero.
TickTimed ==
    LET expired == {x \in Positions \X Timed : Aged(x[1], x[2]) /\ left[x[1]][x[2]] = 0}
        gone == {x[1] : x \in expired}
    IN  /\ pc = "aging" /\ pc' = "aged" /\ expirations' = {}
        /\ left' = [p \in Positions |-> [t \in Timed |->
                        IF Aged(p, t) THEN left[p][t] - 1 ELSE left[p][t]]]
        /\ gen' = [p \in Positions |-> [t \in Timed |->
                        IF <<p, t>> \in expired THEN 0 ELSE gen[p][t]]]
        /\ tickets' = [p \in Positions |->
                        tickets[p] \ {<<t, TimedLevel[t]>> : t \in {u \in Timed : <<p, u>> \in expired}}]
        /\ dirtyLoad' = dirtyLoad \cup gone /\ dirtySim' = dirtySim \cup gone
        /\ passes' = [p \in Positions |-> [t \in Timed |->
                        IF <<p, t>> \notin fresh /\ \E e \in expirations : e[1] = p /\ e[2] = t
                        THEN passes[p][t] + 1 ELSE passes[p][t]]]
        /\ UNCHANGED <<generations, leases, coverage, playerPos, latest, trackers, committed, holders,
                       batch, requests, persisted, fresh>>

-----------------------------------------------------------------------------
(* The chunk-source phase: run_chunk_source_updates. *)

\* Mutant: a position that lost its last ticket keeps its source.
ProjectedPresent(source, dirty, now) ==
    [p \in Positions |-> IF p \in dirty /\ now[p] # Absent THEN now[p] ELSE source[p]]

ProjectedOf(source, dirty, now) == [p \in Positions |-> IF p \in dirty THEN now[p] ELSE source[p]]

\* ChunkSchedulingCoordinator::run_all_updates: the levels of dirty positions are read under
\* the ingress lock, together with the receipt, and both trackers propagate them.
RunUpdates ==
    LET load == ProjectedOf(loadSource, dirtyLoad, [p \in Positions |-> LoadSource(tickets, p)])
        sim == ProjectedOf(simSource, dirtySim, [p \in Positions |-> SimSource(tickets, p)])
        newLoad == Propagated(load, MaxLevel)
        newSim == Propagated(sim, BlockTicking)
    IN  /\ pc \in {"idle", "aged"} /\ pc' = "updated"
        /\ loadSource' = load /\ simSource' = sim /\ loadLevel' = newLoad /\ simLevel' = newSim
        /\ dirtyLoad' = {} /\ dirtySim' = {}
        /\ loadChanges' = {p \in Positions : newLoad[p] # loadLevel[p]}
        /\ simChanges' = {p \in Positions : newSim[p] # simLevel[p]}
        /\ through' = latest
        /\ UNCHANGED <<storage, leases, coverage, playerPos, latest, committed, holders, expirations,
                       requests, persisted, history>>

\* apply_simulation_changes: holders in `chunks` only.
ApplySimulation ==
    /\ pc = "updated" /\ pc' = "committing" /\ simChanges' = {}
    /\ holderSim' = [p \in Positions |->
                        IF p \in simChanges /\ holderLoad[p] # Absent THEN simLevel[p] ELSE holderSim[p]]
    /\ UNCHANGED <<storage, ingress, trackers, committed, holderLoad, reached, unloading, expirations,
                   loadChanges, through, requests, persisted, history>>

\* Mutant: a revived or new holder starts without a simulation level.
CommitLevelUnsimulated(p) ==
    /\ pc = "committing" /\ p \in loadChanges /\ loadChanges' = loadChanges \ {p}
    /\ holderLoad' = [holderLoad EXCEPT ![p] = loadLevel[p]]
    /\ holderSim' = [holderSim EXCEPT ![p] = IF loadLevel[p] = Absent THEN Absent ELSE @]
    /\ unloading' = IF loadLevel[p] # Absent THEN unloading \ {p}
                    ELSE IF holderLoad[p] # Absent THEN unloading \cup {p}
                    ELSE unloading
    /\ UNCHANGED <<storage, ingress, trackers, committed, reached, pc, expirations, simChanges, through,
                   requests, persisted, history>>

\* update_chunk_level: a holder is revived from unloading_chunks or created and takes the
\* simulation level of the tracker; one that lost its level moves to unloading_chunks.
CommitLevel(p) ==
    /\ pc = "committing" /\ p \in loadChanges /\ loadChanges' = loadChanges \ {p}
    /\ holderLoad' = [holderLoad EXCEPT ![p] = loadLevel[p]]
    /\ holderSim' = [holderSim EXCEPT ![p] = IF loadLevel[p] = Absent THEN Absent
                                             ELSE IF holderLoad[p] = Absent THEN simLevel[p]
                                             ELSE @]
    /\ unloading' = IF loadLevel[p] # Absent THEN unloading \ {p}
                    ELSE IF holderLoad[p] # Absent THEN unloading \cup {p}
                    ELSE unloading
    /\ UNCHANGED <<storage, ingress, trackers, committed, reached, pc, expirations, simChanges, through,
                   requests, persisted, history>>

\* Mutant: the receipt of the newest submission is published, not that of the batch.
PublishLatest ==
    /\ pc = "committing" /\ loadChanges = {} /\ pc' = "idle"
    /\ committed' = Max({committed, latest})
    /\ UNCHANGED <<storage, ingress, trackers, holders, expirations, batch, requests, persisted,
                   history>>

\* Mutant: the last receipt of the batch is not counted in.
PublishEarlier ==
    /\ pc = "committing" /\ loadChanges = {} /\ pc' = "idle"
    /\ committed' = Max({committed, through - 1})
    /\ UNCHANGED <<storage, ingress, trackers, holders, expirations, batch, requests, persisted,
                   history>>

\* publish_committed, after the levels of the batch are in the holders.
Publish ==
    /\ pc = "committing" /\ loadChanges = {} /\ pc' = "idle"
    /\ committed' = Max({committed, through})
    /\ UNCHANGED <<storage, ingress, trackers, holders, expirations, batch, requests, persisted,
                   history>>

-----------------------------------------------------------------------------
(* Holders: what ChunkGeneration and ChunkPersistence model in detail. *)

\* A holder publishes a further status; a step that was running when the level fell may
\* still publish.
Generate(p, s) ==
    /\ holderLoad[p] # Absent \/ p \in unloading
    /\ s \in FullLevel .. MaxLevel /\ s < reached[p]
    /\ reached' = [reached EXCEPT ![p] = s]
    /\ UNCHANGED <<storage, ingress, trackers, committed, holderLoad, holderSim, unloading, pc,
                   expirations, batch, requests, persisted, history>>

\* A saved holder leaves unloading_chunks.
FinishUnload(p) ==
    /\ p \in unloading
    /\ unloading' = unloading \ {p} /\ reached' = [reached EXCEPT ![p] = Absent]
    /\ UNCHANGED <<storage, ingress, trackers, committed, holderLoad, holderSim, pc, expirations, batch,
                   requests, persisted, history>>

-----------------------------------------------------------------------------

GameStep ==
    \/ TickTimed \/ RunUpdates \/ ApplySimulation \/ Publish
    \/ \E p \in Positions : CommitLevel(p)

PollStep(r) == PollCommitted(r) \/ \E p \in Positions : PollChunk(r, p)

Next ==
    \/ \E r \in Requesters :
        \/ \E ps \in RequestSets, l \in RequestLevels : Acquire(r, ps, l)
        \/ Release(r)
        \/ PollStep(r)
    \/ \E pl \in Players, c \in Positions \cup {NoPos} : MovePlayer(pl, c)
    \/ \E p \in Positions, t \in Timed : PlaceTimed(p, t)
    \/ \E busy \in SUBSET Positions : SnapshotTimed(busy)
    \/ GameStep
    \/ \E p \in Positions, s \in Levels : Generate(p, s)
    \/ \E p \in Positions : FinishUnload(p)
    \/ CleanRestart \/ Crash

Spec == Init /\ [][Next]_vars

\* The game loop runs normal ticks, no save or generation task depends on a holder forever,
\* and the owner of a request polls it. Generation owes nothing: a chunk may stay unfinished.
LiveSpec ==
    /\ Spec /\ WF_vars(GameStep) /\ SF_vars(SnapshotTimed({}))
    /\ \A r \in Requesters : WF_vars(PollStep(r))

-----------------------------------------------------------------------------
(* Properties. *)

\* Every variable holds tickets, levels, counters and phases of its kind.
StorageTypeOK ==
    /\ tickets \in [Positions -> SUBSET Tickets]
    /\ left \in [Positions -> [Timed -> Int]] /\ gen \in [Positions -> [Timed -> Nat]]
    /\ generations \in Nat
    /\ expirations \subseteq Positions \X Timed \X Nat
    /\ saved \in [Positions -> [Timed -> Int]] /\ restarts \in Nat
    /\ fresh \subseteq Positions \X Timed /\ passes \in [Positions -> [Timed -> Int]]

IngressTypeOK ==
    /\ leases \in [Positions -> [0 .. MaxLevel -> Nat]] /\ coverage \in [Positions -> Nat]
    /\ playerPos \in [Players -> Positions \cup {NoPos}]
    /\ latest \in Nat /\ committed \in Nat /\ through \in Nat
    /\ dirtyLoad \subseteq Positions /\ dirtySim \subseteq Positions

LevelTypeOK ==
    /\ loadSource \in [Positions -> Levels] /\ simSource \in [Positions -> Levels]
    /\ loadLevel \in [Positions -> Levels] /\ simLevel \in [Positions -> Levels]
    /\ holderLoad \in [Positions -> Levels] /\ holderSim \in [Positions -> Levels]
    /\ reached \in [Positions -> Levels] /\ unloading \subseteq Positions
    /\ pc \in {"idle", "aging", "aged", "updated", "committing"}
    /\ loadChanges \subseteq Positions /\ simChanges \subseteq Positions

RequestTypeOK ==
    /\ wants \in [Requesters -> SUBSET Positions] /\ wantLevel \in [Requesters -> 0 .. MaxLevel]
    /\ receipt \in [Requesters -> Nat] /\ poll \in [Requesters -> {"none", "scanning", "ready"}]
    /\ seen \in [Requesters -> SUBSET Positions]

TypeOK == StorageTypeOK /\ IngressTypeOK /\ LevelTypeOK /\ RequestTypeOK

\* A position whose source in a tracker is not the strongest of its tickets is dirty: no
\* change of the storage is lost between record_changes and take_source_projections.
SourcesSynced ==
    \A p \in Positions :
        /\ p \in dirtyLoad \/ loadSource[p] = LoadSource(tickets, p)
        /\ p \in dirtySim \/ simSource[p] = SimSource(tickets, p)

\* A request whose receipt is committed has all its positions loaded at its level or
\* stronger, whatever else is submitted, propagated or committed at the same time.
CommittedHolds ==
    \A r \in Requesters : wants[r] # {} /\ receipt[r] <= committed =>
        \A p \in wants[r] : holderLoad[p] <= wantLevel[r]

\* "Chunks seen ready afterwards stay held by the committed tickets" (poll): a chunk that a
\* poll saw stays in the map at its status while the poll goes on, and once it answers
\* Ready every chunk does until the lease is dropped.
ReadyStaysReady ==
    \A r \in Requesters :
        /\ poll[r] # "none" => wants[r] # {} /\ receipt[r] <= committed
        /\ seen[r] \subseteq wants[r] /\ (poll[r] = "ready" => seen[r] = wants[r])
        /\ \A p \in seen[r] : poll[r] # "none" /\ HasStatus(p, wantLevel[r])

\* The count of a lease is the number of requests that hold it, and its ticket is in the
\* storage exactly while one does.
LeasesMatch ==
    \A p \in Positions, l \in 0 .. MaxLevel :
        /\ leases[p][l] = Cardinality({r \in Requesters : p \in wants[r] /\ wantLevel[r] = l})
        /\ RequestTicket(l) \in tickets[p] <=> leases[p][l] > 0

\* The coverage of a position is the number of occupied centers that see it; it has a
\* loading ticket exactly while it is covered, and a center its simulation ticket exactly
\* while it is occupied.
Centers(p) == {c \in Positions : p \in Square(c) /\ \E pl \in Players : playerPos[pl] = c}

CoverageMatches ==
    \A p \in Positions :
        /\ coverage[p] = Cardinality(Centers(p))
        /\ LoadingTicket \in tickets[p] <=> coverage[p] > 0
        /\ SimulationTicket \in tickets[p] <=> \E pl \in Players : playerPos[pl] = p

\* A holder has both levels of the trackers, and there is a holder in `chunks` exactly
\* where the loading tracker has a level, except for what the batch still has to apply:
\* new and revived holders miss no simulation change, unloaded ones keep none.
HoldersMatch ==
    \A p \in Positions :
        /\ holderLoad[p] = loadLevel[p] \/ (pc \in {"updated", "committing"} /\ p \in loadChanges)
        /\ IF holderLoad[p] = Absent THEN holderSim[p] = Absent
           ELSE holderSim[p] = simLevel[p] \/ (pc = "updated" /\ p \in simChanges)
        /\ p \in unloading => holderLoad[p] = Absent

\* A timed ticket is in the storage exactly while it has a generation, and has aged once
\* for each pass since it was placed. The entries of a pass are those of the storage or,
\* where a ticket was refreshed since the snapshot, older ones.
TimedMatch ==
    /\ \A p \in Positions, t \in Timed :
        /\ gen[p][t] <= generations
        /\ <<t, TimedLevel[t]>> \in tickets[p] <=> gen[p][t] # 0
        /\ gen[p][t] # 0 => left[p][t] + passes[p][t] = Timeout[t]
    /\ pc # "aging" => expirations = {}
    /\ \A e \in expirations :
        IF <<e[1], e[2]>> \in fresh THEN e[3] < gen[e[1]][e[2]] ELSE e[3] = gen[e[1]][e[2]]

\* Receipts are committed in the order they are given out, and the levels of the trackers
\* hold every request up to the receipt of the batch.
ReceiptsMatch ==
    /\ committed <= through /\ through <= latest
    /\ \A r \in Requesters : wants[r] # {} =>
        /\ receipt[r] <= latest
        /\ receipt[r] <= through => \A p \in wants[r] : loadLevel[p] <= wantLevel[r]

\* The tables agree: tickets with the requests and players that hold them, tracker
\* sources with tickets, holders with trackers.  Each is updated by its own counters and
\* dirty sets, never recomputed.
TablesAgree ==
    /\ TypeOK /\ SourcesSynced /\ LeasesMatch /\ CoverageMatches /\ HoldersMatch /\ TimedMatch
    /\ ReceiptsMatch

\* All of it together is preserved by every step.
IInv == TablesAgree /\ CommittedHolds /\ ReadyStaysReady

\* A timed ticket that is not refreshed is aged once by each pass that begins after it was
\* placed, and expires only when those were more than its timeout: a pass in flight does
\* not shorten a ticket that is refreshed meanwhile.
LastsTimeout ==
    [][\A p \in Positions, t \in Timed :
        gen[p][t] # 0 /\ gen'[p][t] = 0 /\ restarts' = restarts => passes[p][t] >= Timeout[t]]_vars

\* A chunk of the request has a holder whose level permits the requested status, and
\* generation has not brought it there.
Unfinished(r) ==
    \E p \in wants[r] : holderLoad[p] <= wantLevel[r] /\ ~HasStatus(p, wantLevel[r])

\* A request that is kept does not stay pending by the fault of the scheduler: its levels
\* are committed, its receipt is published and its poll sees the chunks, so that it
\* becomes ready unless generation leaves one of its chunks unfinished for ever
\* (ChunkGeneration says when that happens).
RequestsReady ==
    \A r \in Requesters : []<>(poll[r] = "ready" \/ wants[r] = {} \/ Unfinished(r))

\* When no more portal or pearl tickets are placed the last one expires, also one restored
\* after a restart, and chunks that nothing else holds leave the map.
TimedEnds ==
    <>[](\A p \in Positions :
            /\ \A t \in Timed : gen[p][t] = 0
            /\ (\A q \in Positions : tickets[q] = {}) => holderLoad[p] = Absent)
=============================================================================
