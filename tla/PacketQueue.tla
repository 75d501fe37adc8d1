---------------------------- MODULE PacketQueue ----------------------------
(***************************************************************************)
(* The queue of gameplay packets between game ticks                        *)
(* (steel-core/src/server/packet_processor.rs) with the threads that use   *)
(* it: connection readers that submit, packet workers that wait on a       *)
(* condition variable, jobs that pause, resume and discard the lane of a   *)
(* session, and the game loop (server/run_loop.rs), which drains the queue *)
(* at each tick boundary, opens it after the tick and, when it is late,    *)
(* waits for at least one packet.                                          *)
(*                                                                         *)
(* One step is one region of the queue's mutex, with the notifications the *)
(* code sends right after it.  A tokio Notify with one waiter is a permit. *)
(* A heap is the set of its entries.  A packet is its execution class and  *)
(* a number that tells packets apart (in the order of submission); byte    *)
(* accounting follows packet accounting statement by statement and is left *)
(* out, except that any submission may exceed the byte limit.              *)
(***************************************************************************)
EXTENDS Naturals, Sequences, FiniteSets, FiniteSetsExt

CONSTANTS Sessions,          \* player sessions, the keys of the lanes
          NoKey,             \* the lane of a worker that has no packet
          Workers,           \* packet workers
          MaxOutstanding,    \* MAX_OUTSTANDING_PACKETS_PER_PLAYER
          Limits             \* bounds of the scenarios, one record each

VARIABLES
  phase, cutoff,             \* PacketPhase; cutoff is the argument of Draining
  lanes,                     \* keys with a lane in the map
  queued, deferred,          \* lane.queued and lane.deferred
  busy,                      \* lane.active
  pauseGen,                  \* lane.pause_generation, 0 for None
  outstanding,               \* lane.outstanding_packets
  ready,                     \* the three ready heaps, entries <<sequence, key>>
  order,                     \* the heaps serialized and exclusive
  nextSequence, nextPause,   \* next_sequence; next_pause_generation + 1
  active, serializedActive, exclusiveActive, completed,
  wpc, wkey, wpkt,           \* packet workers: place, and the PacketWork held
  game, base,                \* game loop: place, and the progress baseline
  idlePermit, progressPermit,\* Notify idle and progress
  closed,                    \* sessions whose connection is closed
  transitions,               \* pauses that have an owner, <<key, generation>>
  submitted,                 \* packets admitted so far
  limits                     \* the scenario

laneVars == <<lanes, queued, deferred, busy, pauseGen, outstanding>>
heapVars == <<ready, order, nextSequence>>
countVars == <<active, serializedActive, exclusiveActive, completed>>
workerVars == <<wpc, wkey, wpkt>>
gameVars == <<game, base>>
envVars == <<closed, transitions, submitted, limits>>
vars == <<phase, cutoff, laneVars, heapVars, nextPause, countVars, workerVars,
          gameVars, idlePermit, progressPermit, envVars>>

Execution == {"local", "serialized", "exclusive"}
NoPacket == [seq |-> 0, exec |-> "local", id |-> 0]
Elements(line) == {line[i] : i \in DOMAIN line}
SequencesOf(line) == {line[i].seq : i \in DOMAIN line}

ASSUME ThreadsAssumption == IsFiniteSet(Workers) /\ NoKey \notin Sessions

ASSUME LimitsAssumption ==
  \A l \in Limits : /\ l.script \in Seq(Sessions \X Execution)
                    /\ l.pauses \in Nat
                    /\ l.replaced \subseteq Sessions /\ l.closes \subseteq Sessions
                    /\ l.stops \in BOOLEAN

Init ==
  /\ phase = "closed" /\ cutoff = 0
  /\ lanes = {}
  /\ queued = [s \in Sessions |-> <<>>]
  /\ deferred = [s \in Sessions |-> <<>>]
  /\ busy = [s \in Sessions |-> FALSE]
  /\ pauseGen = [s \in Sessions |-> 0]
  /\ outstanding = [s \in Sessions |-> 0]
  /\ ready = [e \in Execution |-> {}]
  /\ order = [e \in Execution |-> {}]
  /\ nextSequence = 0 /\ nextPause = 1
  /\ active = 0 /\ serializedActive = FALSE /\ exclusiveActive = FALSE
  /\ completed = 0
  /\ limits \in Limits
  /\ wpc = [w \in Workers |-> "next"]
  /\ wkey = [w \in Workers |-> NoKey]
  /\ wpkt = [w \in Workers |-> NoPacket]
  /\ game = "tick" /\ base = 0
  /\ idlePermit = FALSE /\ progressPermit = FALSE
  /\ closed = {} /\ transitions = {} /\ submitted = 0

-----------------------------------------------------------------------------
(* Helpers of the queue.  Their arguments are the fields they read, so that *)
(* a step can apply them to the fields it has just computed.                *)

Peek(heap) == CHOOSE x \in heap : \A y \in heap : x[1] <= y[1]

\* A packet that starts may have any sequence in the open phase and one below
\* the boundary while the queue drains.
Admissible(seq, ph, cut) == ph = "open" \/ (ph = "draining" /\ seq < cut)

\* Mutant: an exclusive packet that is not ready yet is no barrier.
CandidatesUnbarred(rdy, ord, act, serial, excl, ph, cut) ==
  {e \in Execution :
     /\ ~excl
     /\ rdy[e] # {}
     /\ LET seq == Peek(rdy[e])[1]
        IN  /\ Admissible(seq, ph, cut)
            /\ e = "serialized" => ~serial /\ seq = Min(ord["serialized"])
            /\ e = "exclusive" => act = 0 /\ seq = Min(ord["exclusive"])}

\* select_next: the ready packets that may start, by class ...
Candidates(rdy, ord, act, serial, excl, ph, cut) ==
  {e \in Execution :
     /\ ~excl
     /\ rdy[e] # {}
     /\ LET seq == Peek(rdy[e])[1]
        IN  /\ Admissible(seq, ph, cut)
            /\ \A x \in ord["exclusive"] : seq <= x
            /\ e = "serialized" => ~serial /\ seq = Min(ord["serialized"])
            /\ e = "exclusive" => act = 0 /\ seq = Min(ord["exclusive"])}

\* ... and the first of them.
Selected(rdy, cands) ==
  CHOOSE e \in cands : \A f \in cands : Peek(rdy[e])[1] <= Peek(rdy[f])[1]

HasReady(rdy) == \E e \in Execution : rdy[e] # {}
Runs(ph) == ph \in {"open", "draining"}

\* mark_ready and mark_global_order
MarkReady(rdy, seq, s, e) == [rdy EXCEPT ![e] = @ \cup {<<seq, s>>}]
MarkGlobalOrder(ord, seq, e) ==
  IF e = "local" THEN ord ELSE [ord EXCEPT ![e] = @ \cup {seq}]

\* The retain calls of pause_lane and discard_lane.
\* Mutant: the withdrawn packets stay in the global order.
OrderKept(s) == order
ReadyWithout(s) == [e \in Execution |-> {x \in ready[e] : x[2] # s}]
OrderWithout(s) == [e \in Execution |-> order[e] \ SequencesOf(queued[s])]

\* has_work
HasWork == active # 0 \/ \E s \in lanes : pauseGen[s] = 0 /\ queued[s] # <<>>

\* Notify: a permit for the game loop when no packet is active any more.
\* Mutant: the loop is not told.
NotifyIdleNever(act) == UNCHANGED idlePermit
NotifyIdle(act) == idlePermit' = (idlePermit \/ act = 0)

\* Condvar: notify_one and notify_all, or neither.
Waiting == {w \in Workers : wpc[w] = "waiting"}
NotifyAll(should) ==
  wpc' = [w \in Workers |-> IF should /\ w \in Waiting THEN "next" ELSE wpc[w]]
NotifyOne(should) ==
  IF should /\ Waiting # {}
    THEN \E w \in Waiting : wpc' = [wpc EXCEPT ![w] = "next"]
    ELSE wpc' = wpc

-----------------------------------------------------------------------------
(* Connection readers: PacketProcessor::schedule.                           *)

\* try_submit to a paused lane: the packet waits without a sequence number.
SubmitDeferred(s, e) ==
  /\ s \in lanes /\ pauseGen[s] # 0
  /\ outstanding' = [outstanding EXCEPT ![s] = @ + 1]
  /\ deferred' = [deferred EXCEPT ![s] = Append(@, [exec |-> e, id |-> submitted])]
  /\ UNCHANGED <<lanes, queued, busy, pauseGen, heapVars, wpc>>

\* try_submit to any other lane: the packet gets the next sequence number, and
\* a worker is woken when it is the first of an inactive lane of an open queue.
SubmitQueued(s, e) ==
  LET becameReady == ~busy[s] /\ queued[s] = <<>>
      packet == [seq |-> nextSequence, exec |-> e, id |-> submitted]
  IN  /\ pauseGen[s] = 0
      /\ nextSequence' = nextSequence + 1
      /\ lanes' = lanes \cup {s}
      /\ outstanding' = [outstanding EXCEPT ![s] = @ + 1]
      /\ queued' = [queued EXCEPT ![s] = Append(@, packet)]
      /\ ready' = IF becameReady THEN MarkReady(ready, nextSequence, s, e) ELSE ready
      /\ order' = MarkGlobalOrder(order, nextSequence, e)
      /\ NotifyOne(becameReady /\ phase = "open")
      /\ UNCHANGED <<deferred, busy, pauseGen>>

\* A packet is admitted.  The connection is looked at before the lock is taken:
\* it may be closed by now.
Submit(s, e) ==
  /\ submitted < Len(limits.script) /\ limits.script[submitted + 1] = <<s, e>>
  /\ phase # "stopped"
  /\ outstanding[s] < MaxOutstanding
  /\ SubmitDeferred(s, e) \/ SubmitQueued(s, e)
  /\ submitted' = submitted + 1
  /\ UNCHANGED <<phase, cutoff, nextPause, countVars, wkey, wpkt, gameVars,
                 idlePermit, progressPermit, closed, transitions, limits>>

\* A packet exceeds the count or the byte limit and the player is disconnected,
\* or the connection closes for another reason.  The lane is discarded in the
\* next region (Discard).
Reject(s) ==
  /\ phase # "stopped"
  /\ s \in limits.closes \ closed
  /\ closed' = closed \cup {s}
  /\ UNCHANGED <<phase, cutoff, laneVars, heapVars, nextPause, countVars,
                 workerVars, gameVars, idlePermit, progressPermit,
                 transitions, submitted, limits>>

-----------------------------------------------------------------------------
(* Lanes: pause_lane, resume_lane and discard_lane.                         *)

\* The notifications of the three: progress always, workers when something is
\* ready in a phase that runs packets, and idle (not in resume_lane) when no
\* packet is active.
NotifyChange(rdy, idle) ==
  /\ progressPermit' = TRUE
  /\ NotifyAll(Runs(phase) /\ HasReady(rdy))
  /\ IF idle THEN NotifyIdle(active) ELSE UNCHANGED idlePermit

\* Server::begin_player_packet_transition.  The connection is looked at before
\* the lock is taken: it may be closed by now.
PauseLane(s) ==
  /\ phase # "stopped" /\ pauseGen[s] = 0
  /\ s \in limits.replaced /\ nextPause <= limits.pauses
  /\ nextPause' = nextPause + 1
  /\ lanes' = lanes \cup {s}
  /\ pauseGen' = [pauseGen EXCEPT ![s] = nextPause]
  /\ queued' = [queued EXCEPT ![s] = <<>>]
  /\ deferred' = [deferred EXCEPT ![s] =
       @ \o [i \in DOMAIN queued[s] |->
               [exec |-> queued[s][i].exec, id |-> queued[s][i].id]]]
  /\ ready' = ReadyWithout(s)
  /\ order' = OrderWithout(s)
  /\ transitions' = transitions \cup {<<s, nextPause>>}
  /\ NotifyChange(ReadyWithout(s), TRUE)
  /\ UNCHANGED <<phase, cutoff, busy, outstanding, nextSequence, countVars,
                 wkey, wpkt, gameVars, closed, submitted, limits>>

\* Deferred packets get fresh sequence numbers, in their order.
Readmitted(s) ==
  [i \in DOMAIN deferred[s] |->
     [seq |-> nextSequence + i - 1, exec |-> deferred[s][i].exec,
      id |-> deferred[s][i].id]]

ResumeLane(s) ==
  LET line == Readmitted(s)
      rdy == IF ~busy[s] /\ line # <<>>
               THEN MarkReady(ready, line[1].seq, s, line[1].exec) ELSE ready
  IN  /\ pauseGen' = [pauseGen EXCEPT ![s] = 0]
      /\ deferred' = [deferred EXCEPT ![s] = <<>>]
      /\ nextSequence' = nextSequence + Len(line)
      /\ queued' = [queued EXCEPT ![s] = @ \o line]
      /\ order' = [e \in Execution |->
           IF e = "local" THEN order[e]
             ELSE order[e] \cup {x.seq : x \in {y \in Elements(line) : y.exec = e}}]
      /\ ready' = rdy
      /\ lanes' = IF ~busy[s] /\ line = <<>> THEN lanes \ {s} ELSE lanes
      /\ NotifyChange(rdy, FALSE)
      /\ UNCHANGED <<busy, outstanding>>

\* The early returns of resume_lane: the queue stopped, or this pause is over.
ResumeFails(s, generation) ==
  /\ phase = "stopped" \/ s \notin lanes \/ pauseGen[s] # generation
  /\ UNCHANGED <<laneVars, heapVars, wpc, idlePermit, progressPermit>>

DiscardLane(s) ==
  /\ s \in lanes
  /\ outstanding' = [outstanding EXCEPT ![s] = @ - (Len(queued[s]) + Len(deferred[s]))]
  /\ queued' = [queued EXCEPT ![s] = <<>>]
  /\ deferred' = [deferred EXCEPT ![s] = <<>>]
  /\ pauseGen' = [pauseGen EXCEPT ![s] = 0]
  /\ ready' = ReadyWithout(s)
  /\ order' = OrderWithout(s)
  /\ lanes' = IF busy[s] THEN lanes ELSE lanes \ {s}
  /\ NotifyChange(ReadyWithout(s), TRUE)
  /\ UNCHANGED <<busy, nextSequence>>

\* A closed connection: schedule, and remove_online_player_sync, discard what
\* its session left behind.
Discard(s) ==
  /\ s \in closed
  /\ DiscardLane(s)
  /\ UNCHANGED <<phase, cutoff, nextPause, countVars, wkey, wpkt, gameVars, envVars>>

\* Mutant: the generation of the pause is not compared.
FinishAnyTransition(t) ==
  /\ t \in transitions
  /\ transitions' = transitions \ {t}
  /\ \/ /\ phase # "stopped" /\ t[1] \in lanes /\ pauseGen[t[1]] # 0
        /\ ResumeLane(t[1])
     \/ ResumeFails(t[1], t[2])
     \/ t[1] \in closed /\ DiscardLane(t[1])
  /\ UNCHANGED <<phase, cutoff, nextPause, countVars, wkey, wpkt, gameVars,
                 closed, submitted, limits>>

\* PlayerRespawnJob::finish_packet_transition: the job that owns a pause ends
\* it, or discards the lane of a connection that closed meanwhile.
FinishTransition(t) ==
  /\ t \in transitions
  /\ transitions' = transitions \ {t}
  /\ \/ /\ phase # "stopped" /\ t[1] \in lanes /\ pauseGen[t[1]] = t[2]
        /\ ResumeLane(t[1])
     \/ ResumeFails(t[1], t[2])
     \/ t[1] \in closed /\ DiscardLane(t[1])
  /\ UNCHANGED <<phase, cutoff, nextPause, countVars, wkey, wpkt, gameVars,
                 closed, submitted, limits>>

-----------------------------------------------------------------------------
(* Packet workers: PacketProcessor::run.                                    *)

CandidatesNow ==
  Candidates(ready, order, active, serializedActive, exclusiveActive, phase, cutoff)

\* next, with start_next: the first packet that may start leaves its lane.
Start(w) ==
  /\ wpc[w] = "next" /\ Runs(phase) /\ CandidatesNow # {}
  /\ LET e == Selected(ready, CandidatesNow)
         entry == Peek(ready[e])
         s == entry[2]
     IN  /\ ready' = [ready EXCEPT ![e] = @ \ {entry}]
         /\ order' = IF e = "local" THEN order
                       ELSE [order EXCEPT ![e] = @ \ {entry[1]}]
         /\ serializedActive' = (serializedActive \/ e = "serialized")
         /\ exclusiveActive' = (exclusiveActive \/ e = "exclusive")
         /\ wkey' = [wkey EXCEPT ![w] = s]
         /\ wpkt' = [wpkt EXCEPT ![w] = Head(queued[s])]
         /\ queued' = [queued EXCEPT ![s] = Tail(@)]
         /\ busy' = [busy EXCEPT ![s] = TRUE]
  /\ active' = active + 1
  /\ wpc' = [wpc EXCEPT ![w] = "handling"]
  /\ UNCHANGED <<phase, cutoff, lanes, deferred, pauseGen, outstanding, nextSequence,
                 nextPause, completed, gameVars, idlePermit, progressPermit, envVars>>

\* Mutant: a worker that finds nothing to start waits, stopped or not.
ParkAlways(w) ==
  /\ wpc[w] = "next" /\ CandidatesNow = {}
  /\ wpc' = [wpc EXCEPT ![w] = "waiting"]
  /\ UNCHANGED <<phase, cutoff, laneVars, heapVars, nextPause, countVars, wkey, wpkt,
                 gameVars, idlePermit, progressPermit, envVars>>

\* next: nothing to start, the worker waits; or the queue stopped, it returns.
Park(w) ==
  /\ wpc[w] = "next" /\ phase # "stopped" /\ CandidatesNow = {}
  /\ wpc' = [wpc EXCEPT ![w] = "waiting"]
  /\ UNCHANGED <<phase, cutoff, laneVars, heapVars, nextPause, countVars, wkey, wpkt,
                 gameVars, idlePermit, progressPermit, envVars>>

Exit(w) ==
  /\ wpc[w] = "next" /\ phase = "stopped"
  /\ wpc' = [wpc EXCEPT ![w] = "exited"]
  /\ UNCHANGED <<phase, cutoff, laneVars, heapVars, nextPause, countVars, wkey, wpkt,
                 gameVars, idlePermit, progressPermit, envVars>>

\* The handler has returned or was skipped; PacketWork is dropped: finish_one.
FinishOne(w) ==
  LET s == wkey[w]
      e == wpkt[w].exec
      rdy == IF queued[s] # <<>> /\ pauseGen[s] = 0
               THEN MarkReady(ready, Head(queued[s]).seq, s, Head(queued[s]).exec)
               ELSE ready
      others == Waiting
      wakes == IF ~(Runs(phase) /\ HasReady(rdy)) \/ others = {} THEN {{}}
               ELSE IF e = "exclusive" THEN {others}
               ELSE {{v} : v \in others}
  IN  /\ wpc[w] = "handling"
      /\ active' = active - 1
      /\ completed' = completed + 1
      /\ serializedActive' = (serializedActive /\ e # "serialized")
      /\ exclusiveActive' = (exclusiveActive /\ e # "exclusive")
      /\ busy' = [busy EXCEPT ![s] = FALSE]
      /\ outstanding' = [outstanding EXCEPT ![s] = @ - 1]
      /\ ready' = rdy
      /\ lanes' = IF queued[s] = <<>> /\ pauseGen[s] = 0 THEN lanes \ {s} ELSE lanes
      /\ \E woken \in wakes :
           wpc' = [v \in Workers |-> IF v = w \/ v \in woken THEN "next" ELSE wpc[v]]
      /\ wkey' = [wkey EXCEPT ![w] = NoKey]
      /\ wpkt' = [wpkt EXCEPT ![w] = NoPacket]
      /\ progressPermit' = TRUE
      /\ NotifyIdle(active - 1)
      /\ UNCHANGED <<phase, cutoff, queued, deferred, pauseGen, order, nextSequence,
                     nextPause, gameVars, envVars>>

-----------------------------------------------------------------------------
(* The game loop: Server::run and run_game_tick.  It is the only caller of  *)
(* open, drain_for_tick, wait_for_progress_since and stop.                  *)

GameStep(from, to) == game = from /\ game' = to

\* open_after_tick; a late or sprinting tick then waits for packets.
OpenAfterTick ==
  /\ \E to \in {"idle", "overload"} : GameStep("tick", to)
  /\ phase' = "open"
  /\ NotifyAll(Candidates(ready, order, active, serializedActive, exclusiveActive,
                          "open", cutoff) # {})
  /\ UNCHANGED <<cutoff, laneVars, heapVars, nextPause, countVars, wkey, wpkt, base,
                 idlePermit, progressPermit, envVars>>

\* wait_for_overload_progress: progress_baseline ...
ProgressBaseline ==
  /\ GameStep("overload", IF HasWork THEN "progress" ELSE "idle")
  /\ base' = IF HasWork THEN completed ELSE 0
  /\ UNCHANGED <<phase, cutoff, laneVars, heapVars, nextPause, countVars, workerVars,
                 idlePermit, progressPermit, envVars>>

\* ... and the loop of wait_for_progress_since.
ProgressMade == completed # base \/ ~HasWork \/ phase = "stopped"

CheckProgress ==
  /\ GameStep("progress", IF ProgressMade THEN "idle" ELSE "await_progress")
  /\ base' = IF ProgressMade THEN 0 ELSE base
  /\ UNCHANGED <<phase, cutoff, laneVars, heapVars, nextPause, countVars, workerVars,
                 idlePermit, progressPermit, envVars>>

WakeProgress ==
  /\ GameStep("await_progress", "progress")
  /\ progressPermit /\ progressPermit' = FALSE
  /\ UNCHANGED <<phase, cutoff, laneVars, heapVars, nextPause, countVars, workerVars,
                 base, idlePermit, envVars>>

\* drain_for_tick: begin_tick_drain ...
BeginTickDrain ==
  /\ GameStep("idle", "drain")
  /\ phase' = "draining" /\ cutoff' = nextSequence
  /\ NotifyAll(Candidates(ready, order, active, serializedActive, exclusiveActive,
                          "draining", nextSequence) # {})
  /\ UNCHANGED <<laneVars, heapVars, nextPause, countVars, wkey, wpkt, base,
                 idlePermit, progressPermit, envVars>>

\* ... tick_drain_complete ...
TickDrainComplete ==
  \/ phase = "stopped"
  \/ active = 0 /\ \A e \in Execution : \A x \in ready[e] : x[1] >= cutoff

CheckDrain ==
  /\ GameStep("drain", IF TickDrainComplete THEN "drained" ELSE "await_idle")
  /\ UNCHANGED <<phase, cutoff, laneVars, heapVars, nextPause, countVars, workerVars,
                 base, idlePermit, progressPermit, envVars>>

WakeIdle ==
  /\ GameStep("await_idle", "drain")
  /\ idlePermit /\ idlePermit' = FALSE
  /\ UNCHANGED <<phase, cutoff, laneVars, heapVars, nextPause, countVars, workerVars,
                 base, progressPermit, envVars>>

\* ... and finish_tick_drain.  The work of the tick follows.
FinishTickDrain ==
  /\ GameStep("drained", "tick")
  /\ phase' = "closed" /\ cutoff' = 0
  /\ UNCHANGED <<laneVars, heapVars, nextPause, countVars, workerVars, base,
                 idlePermit, progressPermit, envVars>>

\* The server is cancelled between ticks, or a world tick fails: stop.
Stop ==
  /\ limits.stops
  /\ \E from \in {"idle", "tick"} : GameStep(from, "ended")
  /\ phase' = "stopped"
  /\ ready' = [e \in Execution |-> {}]
  /\ order' = [e \in Execution |-> {}]
  /\ queued' = [s \in Sessions |-> <<>>]
  /\ deferred' = [s \in Sessions |-> <<>>]
  /\ pauseGen' = [s \in Sessions |-> 0]
  /\ outstanding' = [s \in Sessions |->
       outstanding[s] - (Len(queued[s]) + Len(deferred[s]))]
  /\ lanes' = {s \in lanes : busy[s]}
  /\ NotifyAll(TRUE)
  /\ NotifyIdle(active)
  /\ UNCHANGED <<cutoff, busy, nextSequence, nextPause, countVars, wkey, wpkt, base,
                 progressPermit, envVars>>

-----------------------------------------------------------------------------
WorkerStep(w) == Start(w) \/ Park(w) \/ Exit(w) \/ FinishOne(w)
GameLoop == \/ OpenAfterTick \/ ProgressBaseline \/ CheckProgress \/ WakeProgress
            \/ BeginTickDrain \/ CheckDrain \/ WakeIdle \/ FinishTickDrain

Next ==
  \/ \E s \in Sessions : (\E e \in Execution : Submit(s, e)) \/ Reject(s)
                         \/ PauseLane(s) \/ Discard(s)
  \/ \E t \in transitions : FinishTransition(t)
  \/ \E w \in Workers : WorkerStep(w)
  \/ GameLoop \/ Stop

Spec == Init /\ [][Next]_vars

\* Workers and the game loop are threads that run, handlers return (external),
\* jobs end the pauses they own and closed sessions are removed.
Fairness ==
  /\ \A w \in Workers : WF_vars(WorkerStep(w))
  /\ WF_vars(GameLoop)
  /\ \A s \in Sessions : WF_vars(Discard(s))
  /\ WF_vars(\E t \in transitions : FinishTransition(t))

LiveSpec == Spec /\ Fairness

-----------------------------------------------------------------------------
(* The order of packets that the queue implements.                          *)

Handling == {w \in Workers : wpc[w] = "handling"}
Named(s, x) == [id |-> x.id, key |-> s, exec |-> x.exec]
AllQueued == UNION {Elements(queued[s]) : s \in Sessions}

Pending == UNION {{Named(s, x) : x \in Elements(queued[s])} : s \in Sessions}
Ahead == {<<z[1].id, z[2].id>> :
            z \in {y \in AllQueued \X AllQueued : y[1].seq < y[2].seq}}
Held == UNION {{Named(s, x) : x \in Elements(deferred[s])} : s \in Sessions}
Holding == {s \in Sessions : pauseGen[s] # 0}
Running == {Named(wkey[w], wpkt[w]) : w \in Handling}
Stage == CASE phase = "closed" -> "ticking" [] phase = "stopped" -> "halted"
           [] OTHER -> phase
Due == IF phase = "draining"
         THEN {x.id : x \in {y \in AllQueued : y.seq < cutoff}}
                \cup {wpkt[w].id : w \in Handling}
         ELSE {}

Order == INSTANCE PacketOrder WITH
  pending <- Pending, ahead <- Ahead, held <- Held, holding <- Holding,
  running <- Running, stage <- Stage, due <- Due, arrived <- submitted

OwnPause ==
  \A t \in transitions \ transitions' :
    pauseGen[t[1]] # t[2] => queued'[t[1]] \in {queued[t[1]], <<>>}

\* Packets of a session run one by one in the order of their submission, across
\* pauses; serialized packets run one by one in global order, exclusive ones alone
\* and as barriers; at a tick boundary every packet submitted before it and not
\* paused or discarded is done before the tick, and none runs during the tick.  A
\* job whose pause is over gives no packets of a later pause back to the line.
Implements == Order!Spec /\ [][OwnPause]_vars

-----------------------------------------------------------------------------
(* Invariants.                                                              *)

LaneTypeOK ==
  /\ lanes \subseteq Sessions
  /\ queued \in [Sessions -> Seq([seq : Nat, exec : Execution, id : Nat])]
  /\ deferred \in [Sessions -> Seq([exec : Execution, id : Nat])]
  /\ busy \in [Sessions -> BOOLEAN]
  /\ pauseGen \in [Sessions -> Nat]
  /\ outstanding \in [Sessions -> Nat]

QueueTypeOK ==
  /\ phase \in {"closed", "open", "draining", "stopped"} /\ cutoff \in Nat
  /\ ready \in [Execution -> SUBSET (Nat \X Sessions)]
  /\ order \in [Execution -> SUBSET Nat]
  /\ nextSequence \in Nat /\ nextPause \in Nat \ {0} /\ submitted \in Nat
  /\ active \in Nat /\ completed \in Nat /\ base \in Nat
  /\ serializedActive \in BOOLEAN /\ exclusiveActive \in BOOLEAN

ActorTypeOK ==
  /\ wpc \in [Workers -> {"next", "waiting", "handling", "exited"}]
  /\ wkey \in [Workers -> Sessions \cup {NoKey}]
  /\ wpkt \in [Workers -> [seq : Nat, exec : Execution, id : Nat]]
  /\ game \in {"tick", "overload", "progress", "await_progress", "idle",
               "drain", "await_idle", "drained", "ended"}
  /\ idlePermit \in BOOLEAN /\ progressPermit \in BOOLEAN
  /\ closed \subseteq Sessions
  /\ transitions \subseteq Sessions \X (Nat \ {0})

\* Every variable holds a value the code can store in it; no count underflows.
TypeOK == LaneTypeOK /\ QueueTypeOK /\ ActorTypeOK

\* The lanes: which are in the map, which packets a paused one may hold, and
\* what it counts as outstanding.
LanesInv ==
  \A s \in Sessions :
    /\ s \in lanes <=> queued[s] # <<>> \/ busy[s] \/ pauseGen[s] # 0
    /\ pauseGen[s] # 0 => queued[s] = <<>>
    /\ pauseGen[s] = 0 => deferred[s] = <<>>
    /\ outstanding[s] = Len(queued[s]) + Len(deferred[s]) + (IF busy[s] THEN 1 ELSE 0)

\* The heaps hold what the lanes hold: a ready entry for the first packet of
\* every inactive lane, an order entry for every queued packet of its class.
HeapsInv ==
  \A e \in Execution :
    /\ ready[e] = {<<Head(queued[s]).seq, s>> : s \in
          {r \in Sessions : queued[r] # <<>> /\ ~busy[r] /\ Head(queued[r]).exec = e}}
    /\ order[e] = IF e = "local" THEN {}
                    ELSE {x.seq : x \in {y \in AllQueued : y.exec = e}}

\* The workers and the counters: each active lane has one worker, exclusive and
\* serialized packets run as their flags say, and never two of them.
ActiveInv ==
  /\ active = Cardinality(Handling)
  /\ \A w \in Workers : w \in Handling <=> wkey[w] # NoKey
  /\ \A s \in Sessions : busy[s] <=> \E w \in Handling : wkey[w] = s
  /\ \A v, w \in Handling : v # w =>
        ~Order!Conflict(Named(wkey[v], wpkt[v]), Named(wkey[w], wpkt[w]))
  /\ serializedActive <=> \E w \in Handling : wpkt[w].exec = "serialized"
  /\ exclusiveActive <=> \E w \in Handling : wpkt[w].exec = "exclusive"

\* Sequence numbers follow the submission order of a session, and are new.
SequenceInv ==
  /\ \A s \in Sessions : \A i, j \in DOMAIN queued[s] : i < j =>
        queued[s][i].seq < queued[s][j].seq /\ queued[s][i].id < queued[s][j].id
  /\ \A s \in Sessions : \A i, j \in DOMAIN deferred[s] : i < j =>
        deferred[s][i].id < deferred[s][j].id
  /\ \A x \in AllQueued : x.seq < nextSequence

\* No packet is in two places.
PlacesInv ==
  /\ \A s \in Sessions : \A x \in Elements(queued[s]) \cup Elements(deferred[s]) :
        x.id < submitted
  /\ \A w \in Handling : wpkt[w].id < submitted
  /\ \A r, s \in Sessions : r # s =>
        \A x \in Elements(queued[r]) \cup Elements(deferred[r]) :
        \A y \in Elements(queued[s]) \cup Elements(deferred[s]) : x.id # y.id
  /\ \A r, s \in Sessions : r # s =>
        \A x \in Elements(queued[r]) : \A y \in Elements(queued[s]) : x.seq # y.seq
  /\ \A w \in Handling, s \in Sessions :
        \A x \in Elements(queued[s]) \cup Elements(deferred[s]) : x.id # wpkt[w].id
  /\ \A v, w \in Handling : v # w => wpkt[v].id # wpkt[w].id

\* The game loop and the phase: nothing runs or can start once the drain is
\* complete, and nothing runs during the tick.
PhaseInv ==
  /\ phase = "closed" <=> game = "tick"
  /\ phase = "draining" <=> game \in {"drain", "await_idle", "drained"}
  /\ phase = "stopped" <=> game = "ended"
  /\ phase = "stopped" => \A s \in Sessions : queued[s] = <<>> /\ pauseGen[s] = 0
  /\ phase = "draining" => cutoff <= nextSequence
  /\ game \in {"tick", "drained"} => active = 0
  /\ game = "drained" => \A x \in AllQueued : x.seq >= cutoff

\* The indexes, counters and flags of the queue say what its lanes hold, so that
\* none of the assertions and panics of start_next, finish_one, pause_lane,
\* resume_lane, discard_lane and stop is met.
IInv == /\ TypeOK /\ LanesInv /\ HeapsInv /\ ActiveInv /\ SequenceInv
        /\ PlacesInv /\ PhaseInv

-----------------------------------------------------------------------------
(* Liveness.                                                                *)

\* The game loop never hangs in a drain or in the wait for progress: no wake-up
\* of a worker or of the loop is lost.
TicksGoOn == []<>(game \in {"tick", "ended"})

\* Every packet is handled or discarded in the end, also those of paused lanes,
\* no lane outlives its packets, and the workers return after a stop.
Quiesces == <>[](/\ lanes = {} /\ active = 0
                 /\ phase = "stopped" => \A w \in Workers : wpc[w] = "exited")
=============================================================================
