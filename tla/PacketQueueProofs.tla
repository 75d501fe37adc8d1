-------------------------- MODULE PacketQueueProofs -------------------------
(***************************************************************************)
(* Proofs about PacketQueue, for every value of the constants: its         *)
(* invariant, and that it implements PacketOrder.                          *)
(***************************************************************************)
EXTENDS PacketQueueSteps, FiniteSetTheorems, WellFoundedInduction

\* Once nothing is active and every ready packet is behind the boundary, so is
\* every queued one.
LEMMA DrainFacts ==
  ASSUME Points, active = 0, phase # "stopped", TickDrainComplete,
         NEW s \in Sessions, NEW x \in Elements(queued[s])
  PROVE  x.seq >= cutoff
<1>1. Handling = {}
  <2>1. IsFiniteSet(Handling)
    BY ThreadsAssumption, FS_Subset, Zenon DEF Handling
  <2> QED
    BY <2>1, FS_EmptySet, ZenonT(30) DEF Points, ActiveInv
<1>2. ~busy[s]
  BY <1>1, Zenon DEF Points, ActiveInv
<1>3. queued[s] \in Seq(Packets) /\ queued[s] # <<>> /\ queued[s][1] \in Packets /\ Rising(queued[s])
  BY LaneTypes, LineFacts, Zenon DEF Points, LinesAt
<1>4. <<queued[s][1].seq, s>> \in ready[queued[s][1].exec] /\ queued[s][1].exec \in Execution
  BY <1>2, <1>3 DEF Points, ReadyAt, Packets
<1>5. queued[s][1].seq >= cutoff
  BY <1>4, Zenon DEF TickDrainComplete
<1>6. queued[s][1].seq <= x.seq /\ x.seq \in Nat /\ queued[s][1].seq \in Nat /\ cutoff \in Nat
  BY <1>3, TailFacts, LaneTypes, ZenonT(30) DEF Points, Packets, QueueTypeOK
<1> QED
  BY <1>5, <1>6

\* The game loop preserves the invariant: a drain is complete only when nothing runs
\* and no packet is below the boundary (tick_drain_complete).
LEMMA GameStepHolds ==
  ASSUME Points, GameLoop
  PROVE  Points'
<1>1. SameHandlers /\ UNCHANGED laneVars /\ UNCHANGED heapVars
      /\ UNCHANGED <<submitted, active, serializedActive, exclusiveActive, nextPause, completed,
                     closed, transitions>>
  <2>1. wpc' \in [Workers -> {"next", "waiting", "handling", "exited"}] /\ Handling' = Handling
    <3>1. CASE OpenAfterTick
      BY <3>1, WakesAll, Zenon DEF OpenAfterTick, Points
    <3>2. CASE BeginTickDrain
      BY <3>2, WakesAll, Zenon DEF BeginTickDrain, Points
    <3>3. CASE ProgressBaseline \/ CheckProgress \/ WakeProgress \/ CheckDrain \/ WakeIdle \/ FinishTickDrain
      BY <3>3, Zenon DEF ProgressBaseline, CheckProgress, WakeProgress, CheckDrain, WakeIdle,
         FinishTickDrain, workerVars, Handling, Points, ActorTypeOK
    <3> QED
      BY <3>1, <3>2, <3>3, Zenon DEF GameLoop
  <2> QED
    BY <2>1, Zenon DEF GameLoop, OpenAfterTick, BeginTickDrain, ProgressBaseline, CheckProgress,
       WakeProgress,
       CheckDrain, WakeIdle, FinishTickDrain, workerVars, SameHandlers, countVars, envVars
<1>2. LaneTypeOK' /\ LanesInv' /\ ReadyAt' /\ OrderAt' /\ LinesAt' /\ PlacesAt' /\ ActiveInv'
  BY <1>1, FrameAll, Zenon
<1>3. QueueTypeOK'
  <2>1. phase' \in {"closed", "open", "draining", "stopped"} /\ cutoff' \in Nat /\ base' \in Nat
    BY DEF GameLoop, OpenAfterTick, BeginTickDrain, ProgressBaseline, CheckProgress, WakeProgress,
       CheckDrain, WakeIdle, FinishTickDrain, Points, QueueTypeOK
  <2> QED
    BY <1>1, <2>1, Zenon DEF Points, QueueTypeOK, heapVars
<1>4. ActorTypeOK'
  <2>1. game' \in {"tick", "overload", "progress", "await_progress", "idle",
               "drain", "await_idle", "drained", "ended"}
    BY Zenon DEF GameLoop, OpenAfterTick, BeginTickDrain, ProgressBaseline, CheckProgress, WakeProgress,
       CheckDrain, WakeIdle, FinishTickDrain, GameStep
  <2>2. idlePermit' \in BOOLEAN /\ progressPermit' \in BOOLEAN
    BY ZenonT(30) DEF GameLoop, OpenAfterTick, BeginTickDrain, ProgressBaseline, CheckProgress,
       WakeProgress,
       CheckDrain, WakeIdle, FinishTickDrain, Points, ActorTypeOK
  <2> QED
    BY <1>1, <2>1, <2>2, Zenon DEF Points, ActorTypeOK, SameHandlers
<1>5. PhaseAt'
  <2> USE <1>1 DEF Points, PhaseAt, GameStep, laneVars, heapVars
  <2>1. CASE OpenAfterTick
    BY <2>1, Zenon DEF OpenAfterTick
  <2>2. CASE ProgressBaseline
    BY <2>2, ZenonT(30) DEF ProgressBaseline
  <2>3. CASE CheckProgress
    BY <2>3, Zenon DEF CheckProgress
  <2>4. CASE WakeProgress
    BY <2>4, Zenon DEF WakeProgress
  <2>5. CASE BeginTickDrain
    BY <2>5 DEF BeginTickDrain, QueueTypeOK
  <2>6. CASE CheckDrain
    <3>1. CASE TickDrainComplete
      <4>1. active = 0 /\ phase = "draining"
        BY <2>6, <3>1, Zenon DEF CheckDrain, TickDrainComplete
      <4>2. \A s \in Sessions : \A x \in Elements(queued[s]) : x.seq >= cutoff
        BY <4>1, <3>1, DrainFacts, Zenon
      <4> QED
        BY <2>6, <3>1, <4>1, <4>2, Zenon DEF CheckDrain
    <3>2. CASE ~TickDrainComplete
      BY <2>6, <3>2, Zenon DEF CheckDrain
    <3> QED
      BY <3>1, <3>2, Zenon
  <2>7. CASE WakeIdle
    BY <2>7, Zenon DEF WakeIdle
  <2>8. CASE FinishTickDrain
    BY <2>8, Zenon DEF FinishTickDrain
  <2> QED
    BY <2>1, <2>2, <2>3, <2>4, <2>5, <2>6, <2>7, <2>8, Zenon DEF GameLoop
<1> QED
  BY <1>2, <1>3, <1>4, <1>5, Zenon DEF Points

-----------------------------------------------------------------------------
(* select_next.                                                             *)

\* A set of natural numbers has a least element.
LEMMA LeastNat ==
  ASSUME NEW S, S \subseteq Nat, S # {}
  PROVE  \E m \in S : \A y \in S : m <= y
<1>1. PICK m \in S : \A y \in S : ~(<<y, m>> \in OpToRel(<, Nat))
  BY WFMin, NatLessThanWellFounded, Zenon
<1>2. \A y \in S : ~(y < m)
  BY <1>1, ZenonT(30) DEF OpToRel
<1> QED
  BY <1>2

\* The least element of a set of sequence numbers.
LEMMA MinFacts ==
  ASSUME NEW S, S \subseteq Nat, S # {}
  PROVE  Min(S) \in S /\ \A y \in S : Min(S) <= y
BY LeastNat, ZenonT(30) DEF Min

\* The top of a heap.
LEMMA PeekFacts ==
  ASSUME NEW heap, heap \subseteq Nat \X Sessions, heap # {}
  PROVE  Peek(heap) \in heap /\ \A y \in heap : Peek(heap)[1] <= y[1]
<1> DEFINE S == {x[1] : x \in heap}
<1>1. S \subseteq Nat /\ S # {}
  OBVIOUS
<1>2. PICK m \in S : \A y \in S : m <= y
  BY <1>1, LeastNat, ZenonT(30)
<1>3. \E x \in heap : \A y \in heap : x[1] <= y[1]
  BY <1>2, Zenon
<1> QED
  BY <1>3, Zenon DEF Peek

\* select_next takes the first of the packets that may start.
LEMMA SelectedFacts ==
  ASSUME QueueTypeOK, CandidatesNow # {}
  PROVE  /\ Selected(ready, CandidatesNow) \in CandidatesNow
         /\ \A f \in CandidatesNow : Peek(ready[Selected(ready, CandidatesNow)])[1] <= Peek(ready[f])[1]
<1> DEFINE S == {Peek(ready[f])[1] : f \in CandidatesNow}
<1>1. \A f \in CandidatesNow : f \in Execution /\ ready[f] # {} /\ ready[f] \subseteq Nat \X Sessions
  BY Zenon DEF CandidatesNow, Candidates, QueueTypeOK
<1>2. \A f \in CandidatesNow : Peek(ready[f])[1] \in Nat
  BY <1>1, PeekFacts
<1>3. S \subseteq Nat /\ S # {}
  BY <1>2, Zenon
<1>4. PICK m \in S : \A y \in S : m <= y
  BY <1>3, LeastNat, ZenonT(30)
<1>5. \E e \in CandidatesNow : \A f \in CandidatesNow : Peek(ready[e])[1] <= Peek(ready[f])[1]
  BY <1>4, Zenon
<1> QED
  BY <1>5, Zenon DEF Selected

\* start_next takes the head of an inactive lane.
LEMMA StartFacts ==
  ASSUME Points, NEW w \in Workers, Start(w)
  PROVE  \E s \in Sessions, e \in Execution, x \in Packets : Takes(w, s, e, x)
<1> DEFINE e == Selected(ready, CandidatesNow)
           entry == Peek(ready[e])
           s == entry[2]
           x == queued[s][1]
<1> USE DEF Points
<1>2. e \in CandidatesNow
  BY SelectedFacts, Zenon DEF Start
<1>3. e \in Execution /\ ready[e] # {} /\ ready[e] \subseteq Nat \X Sessions
  BY <1>2, ZenonT(30) DEF CandidatesNow, Candidates, QueueTypeOK
<1> HIDE DEF e
<1>4. entry \in ready[e] /\ s \in Sessions /\ entry[1] \in Nat /\ entry = <<entry[1], s>>
  BY <1>3, PeekFacts
<1>5. /\ ~exclusiveActive /\ Admissible(entry[1], phase, cutoff)
      /\ \A n \in order["exclusive"] : entry[1] <= n
      /\ e = "serialized" => ~serializedActive /\ entry[1] = Min(order["serialized"])
      /\ e = "exclusive" => active = 0
  BY <1>2, Zenon DEF CandidatesNow, Candidates
<1>6. /\ ready' = [ready EXCEPT ![e] = @ \ {entry}]
      /\ order' = IF e = "local" THEN order ELSE [order EXCEPT ![e] = @ \ {entry[1]}]
      /\ serializedActive' = (serializedActive \/ e = "serialized")
      /\ exclusiveActive' = (exclusiveActive \/ e = "exclusive")
      /\ wkey' = [wkey EXCEPT ![w] = s]
      /\ wpkt' = [wpkt EXCEPT ![w] = Head(queued[s])]
      /\ queued' = [queued EXCEPT ![s] = Tail(@)]
      /\ busy' = [busy EXCEPT ![s] = TRUE]
  BY Zenon DEF Start, e
<1> HIDE DEF entry, s
<1>7. queued[s] # <<>> /\ ~busy[s] /\ x.exec = e /\ x.seq = entry[1]
  BY <1>3, <1>4 DEF ReadyAt
<1>8. x \in Packets /\ Head(queued[s]) = x
  BY <1>4, <1>7, LaneTypes, LineFacts, Zenon
<1>9. e = "serialized" => \A n \in order["serialized"] : x.seq <= n
  <2>1. order["serialized"] \subseteq Nat
    BY Zenon DEF QueueTypeOK, Execution
  <2>2. order["serialized"] # {} => \A n \in order["serialized"] : Min(order["serialized"]) <= n
    BY <2>1, MinFacts, Zenon
  <2> QED
    BY <1>5, <1>7, <2>2, Zenon
<1>10. x.seq = Peek(ready[Selected(ready, CandidatesNow)])[1]
  BY <1>7, Zenon DEF entry, e
<1>11. Takes(w, s, e, x)
  BY <1>4, <1>5, <1>6, <1>7, <1>8, <1>9, <1>10, ZenonT(30) DEF Takes
<1> QED
  BY <1>3, <1>4, <1>8, <1>11, Zenon

\* Finitely many workers have a packet.
LEMMA HandlingFinite == IsFiniteSet(Handling)
BY ThreadsAssumption, FS_Subset, Zenon DEF Handling

-----------------------------------------------------------------------------
(* start_next and finish_one.                                               *)

\* start_next preserves the invariant: the packet is in the way of none that runs.
LEMMA StartStep ==
  ASSUME Points, NEW w \in Workers, Start(w)
  PROVE  Points'
<1> USE DEF Points
<1>2. PICK s \in Sessions, e \in Execution, x \in Packets : Takes(w, s, e, x)
  BY StartFacts, Zenon
<1>3. /\ wpc[w] = "next" /\ Runs(phase) /\ active' = active + 1
      /\ wpc' = [wpc EXCEPT ![w] = "handling"]
      /\ UNCHANGED <<phase, cutoff, lanes, deferred, pauseGen, outstanding, nextSequence,
                     nextPause, completed, game, base, idlePermit, progressPermit,
                     closed, transitions, submitted>>
  BY Zenon DEF Start, gameVars, envVars
<1>4. /\ queued[s] \in Seq(Packets) /\ queued[s] # <<>> /\ x = queued[s][1] /\ ~busy[s]
      /\ Rising(queued[s]) /\ x.exec = e /\ x.seq \in Nat /\ x.id \in Nat /\ x \in Elements(queued[s])
  BY <1>2, LaneTypes, ZenonT(30) DEF Takes, LinesAt, Packets
<1>5. /\ Tail(queued[s]) \in Seq(Packets) /\ Len(Tail(queued[s])) = Len(queued[s]) - 1
      /\ Rising(Tail(queued[s]))
      /\ Elements(Tail(queued[s])) = Elements(queued[s]) \ {x}
      /\ \A y \in Elements(Tail(queued[s])) : x.seq < y.seq /\ x.id < y.id
  BY <1>4, TailFacts, Zenon
<1>6. /\ queued' = [queued EXCEPT ![s] = Tail(@)] /\ busy' = [busy EXCEPT ![s] = TRUE]
      /\ ready' = [ready EXCEPT ![e] = @ \ {<<x.seq, s>>}]
      /\ order' = IF e = "local" THEN order ELSE [order EXCEPT ![e] = @ \ {x.seq}]
      /\ wkey' = [wkey EXCEPT ![w] = s] /\ wpkt' = [wpkt EXCEPT ![w] = x]
  BY <1>2, Zenon DEF Takes
<1>7. /\ queued'[s] = Tail(queued[s]) /\ busy'[s] = TRUE
      /\ \A r \in Sessions : r # s => queued'[r] = queued[r] /\ busy'[r] = busy[r]
  BY <1>6, Zenon DEF LaneTypeOK
<1>8. LaneAt(s) /\ QueuedLen(s) \in Nat /\ DeferredLen(s) \in Nat /\ outstanding[s] \in Nat
  BY LanesPointwise, LaneTypes, Zenon
<1>9. pauseGen[s] = 0 /\ deferred[s] = <<>> /\ s \in lanes
  BY <1>4, <1>8, Zenon DEF LaneAt
<1>10. LaneTypeOK'
  <2>1. queued \in [Sessions -> Seq(Packets)]
    BY ZenonT(30) DEF LaneTypeOK, Packets
  <2>2. queued' \in [Sessions -> Seq(Packets)]
    BY <1>5, <1>6, <1>7, <2>1, Zenon
  <2>3. busy' \in [Sessions -> BOOLEAN]
    BY <1>6, Zenon DEF LaneTypeOK
  <2> QED
    BY <1>3, <2>2, <2>3, ZenonT(30) DEF LaneTypeOK, Packets
<1>11. QueueTypeOK'
  <2>1. ready' \in [Execution -> SUBSET (Nat \X Sessions)] /\ order' \in [Execution -> SUBSET Nat]
    BY <1>6, Zenon DEF QueueTypeOK
  <2>2. serializedActive' \in BOOLEAN /\ exclusiveActive' \in BOOLEAN
    BY <1>2, Zenon DEF Takes
  <2>3. active' \in Nat
    BY <1>3 DEF QueueTypeOK
  <2> QED
    BY <1>3, <2>1, <2>2, <2>3, Zenon DEF QueueTypeOK
<1>12. ActorTypeOK'
  <2>1. wkey' \in [Workers -> Sessions \cup {NoKey}]
    BY <1>6, Zenon DEF ActorTypeOK
  <2>2. wpkt' \in [Workers -> [seq : Nat, exec : Execution, id : Nat]]
    BY <1>6, Zenon DEF ActorTypeOK, Packets
  <2>3. wpc' \in [Workers -> {"next", "waiting", "handling", "exited"}]
    BY <1>3, Zenon DEF ActorTypeOK
  <2> QED
    BY <1>3, <2>1, <2>2, <2>3, Zenon DEF ActorTypeOK
<1>13. OthersStay(s)
  BY <1>3, <1>7, Zenon DEF OthersStay
<1>14. LanesInv'
  <2>1. Load(s) = 0 /\ Load(s)' = 1 /\ DeferredLen(s)' = DeferredLen(s)
    BY <1>3, <1>4, <1>7, Zenon DEF Load, DeferredLen
  <2>2. QueuedLen(s)' = QueuedLen(s) - 1
    BY <1>5, <1>7, Zenon DEF QueuedLen
  <2>3. outstanding'[s] = QueuedLen(s)' + DeferredLen(s)' + Load(s)'
    BY <1>3, <1>8, <2>1, <2>2 DEF LaneAt
  <2>4. LaneAt(s)'
    BY <1>3, <1>7, <1>9, <2>3, Zenon DEF LaneAt
  <2> QED
    BY <1>13, <2>4, LanesChange, Zenon
<1>15. ReadyAt'
  <2>1. \A f \in Execution, n \in Nat, r \in Sessions : r # s =>
           (<<n, r>> \in ready'[f] <=> <<n, r>> \in ready[f])
    BY <1>6, Zenon DEF QueueTypeOK
  <2>2. ASSUME NEW f \in Execution, NEW n \in Nat PROVE <<n, s>> \notin ready'[f]
    <3>1. <<n, s>> \in ready[f] => f = e /\ n = x.seq
      BY <1>4 DEF ReadyAt
    <3> QED
      BY <1>6, <3>1, Zenon DEF QueueTypeOK
  <2>3. \A f \in Execution, n \in Nat :
           <<n, s>> \in ready'[f] <=> /\ queued'[s] # <<>> /\ ~busy'[s]
                                      /\ queued'[s][1].exec = f /\ queued'[s][1].seq = n
    BY <1>7, <2>2, Zenon
  <2> QED
    BY <1>13, <2>1, <2>3, ReadyChange, Zenon
<1>16. OrderAt'
  <2> SUFFICES ASSUME NEW f \in Execution, NEW n \in Nat
               PROVE  n \in order'[f] <=>
                        /\ f # "local"
                        /\ \E r \in Sessions : \E y \in Elements(queued'[r]) : y.exec = f /\ y.seq = n
    BY Zenon DEF OrderAt
  <2>1. n \in order[f] <=>
                        /\ f # "local"
                        /\ \E r \in Sessions : \E y \in Elements(queued[r]) : y.exec = f /\ y.seq = n
    BY ZenonT(30) DEF OrderAt
  <2>2. n \in order'[f] <=> n \in order[f] /\ ~(f = e /\ n = x.seq /\ e # "local")
    BY <1>6, Zenon DEF QueueTypeOK
  <2>3. ASSUME NEW r \in Sessions, NEW y \in Elements(queued[r]), y.seq = x.seq PROVE r = s /\ y = x
    <3>1. r = s
      BY <1>4, <2>3, Zenon DEF PlacesAt
    <3> QED
      BY <1>4, <2>3, <3>1, RisingFacts, Zenon
  <2>4. ASSUME NEW r \in Sessions, NEW y
        PROVE  y \in Elements(queued'[r]) <=> y \in Elements(queued[r]) /\ ~(r = s /\ y = x)
    BY <1>5, <1>7, Zenon
  <2>5. ASSUME f # "local"
        PROVE  (\E r \in Sessions : \E y \in Elements(queued'[r]) : y.exec = f /\ y.seq = n) <=>
                  /\ \E r \in Sessions : \E y \in Elements(queued[r]) : y.exec = f /\ y.seq = n
                  /\ ~(f = e /\ n = x.seq)
    <3>1. ASSUME NEW r \in Sessions, NEW y \in Elements(queued'[r]), y.exec = f, y.seq = n
          PROVE  y \in Elements(queued[r]) /\ ~(f = e /\ n = x.seq)
      BY <2>3, <2>4, <3>1, Zenon
    <3>2. ASSUME NEW r \in Sessions, NEW y \in Elements(queued[r]), y.exec = f, y.seq = n,
                 ~(f = e /\ n = x.seq)
          PROVE  y \in Elements(queued'[r])
      BY <1>4, <2>4, <3>2, Zenon
    <3> QED
      BY <3>1, <3>2, Zenon
  <2> QED
    BY <2>1, <2>2, <2>5, Zenon
<1>17. LinesAt'
  <2>1. RisingIds(deferred'[s]) /\ Rising(queued'[s])
    BY <1>3, <1>5, <1>7, Zenon DEF LinesAt
  <2>2. nextSequence' \in Nat /\ nextSequence <= nextSequence'
    BY <1>3, SMTT(30) DEF QueueTypeOK
  <2>3. \A y \in Elements(queued'[s]) : y.seq < nextSequence'
    BY <1>3, <1>5, <1>7, Zenon DEF LinesAt
  <2> QED
    BY <1>13, <2>1, <2>2, <2>3, LinesChange, Zenon
<1>18. Handling' = Handling \cup {w} /\ w \notin Handling
  BY <1>3, Zenon DEF Handling, ActorTypeOK
<1>19. wpkt'[w] = x /\ wkey'[w] = s /\ \A v \in Handling : wpkt'[v] = wpkt[v] /\ wkey'[v] = wkey[v]
  BY <1>6, <1>18, Zenon DEF ActorTypeOK, Handling
<1>20. PlacesAt'
  <2>1. \A r \in Sessions : r # s => Ids(r)' = Ids(r)
    BY <1>3, <1>7, Zenon DEF Ids
  <2>2. Ids(s)' \subseteq Ids(s) /\ x.id \notin Ids(s)' /\ x.id \in Ids(s)
    <3>1. Elements(deferred[s]) = {} /\ Elements(deferred'[s]) = {}
      BY <1>3, <1>9, EmptyLine, Zenon
    <3>2. \A y \in Elements(queued'[s]) : y \in Elements(queued[s]) /\ x.id < y.id /\ y \in Packets
      BY <1>5, <1>7, LaneTypes, Zenon
    <3> QED
      BY <1>4, <3>1, <3>2, SMTT(30) DEF Ids
  <2>3. \A r \in Sessions : Ids(r)' \subseteq Ids(r)
    BY <2>1, <2>2, Zenon
  <2>4. x.id < submitted /\ \A v \in Handling : wpkt[v].id # x.id
    BY <2>2, Zenon DEF PlacesAt
  <2>5. \A r \in Sessions : x.id \notin Ids(r)'
    BY <2>1, <2>2, ZenonT(30) DEF PlacesAt
  <2>6. \A r \in Sessions : Elements(queued'[r]) \subseteq Elements(queued[r])
    BY <1>5, <1>7, Zenon
  <2>7. \A v \in Handling' : wpkt'[v].id < submitted' /\ \A r \in Sessions : wpkt'[v].id \notin Ids(r)'
    BY <1>3, <1>18, <1>19, <2>3, <2>4, <2>5, SMTT(30) DEF PlacesAt
  <2>8. \A u, v \in Handling' : u # v => wpkt'[u].id # wpkt'[v].id
    BY <1>18, <1>19, <2>4, SMTT(30) DEF PlacesAt
  <2>9. /\ \A r \in Sessions : \A k \in Ids(r)' : k < submitted'
        /\ \A r, q \in Sessions : r # q => Ids(r)' \cap Ids(q)' = {}
        /\ \A r, q \in Sessions : r # q =>
              \A y \in Elements(queued'[r]) : \A z \in Elements(queued'[q]) : y.seq # z.seq
    BY <1>3, <2>3, <2>6, Zenon DEF PlacesAt
  <2> QED
    BY <2>7, <2>8, <2>9, ZenonT(30) DEF PlacesAt
<1>21. ActiveInv'
  <2>1. active' = Cardinality(Handling')
    <3>1. Cardinality(Handling') = Cardinality(Handling) + 1
      BY <1>18, HandlingFinite, FS_AddElement, ZenonT(30)
    <3> QED
      BY <1>3, <3>1, Zenon DEF ActiveInv
  <2>2. \A v \in Workers : v \in Handling' <=> wkey'[v] # NoKey
    BY <1>6, <1>18, <1>19, ThreadsAssumption DEF ActiveInv, ActorTypeOK
  <2>3. \A v \in Handling : wkey[v] # s
    BY <1>4, Zenon DEF ActiveInv
  <2>4. \A r \in Sessions : busy'[r] <=> \E v \in Handling' : wkey'[v] = r
    <3>1. ASSUME NEW r \in Sessions, r # s PROVE busy'[r] <=> \E v \in Handling' : wkey'[v] = r
      <4>1. busy[r] <=> \E v \in Handling : wkey[v] = r
        BY Zenon DEF ActiveInv
      <4>2. (\E v \in Handling' : wkey'[v] = r) <=> \E v \in Handling : wkey[v] = r
        BY <1>18, <1>19, <3>1, Zenon
      <4> QED
        BY <1>7, <3>1, <4>1, <4>2, Zenon
    <3>2. busy'[s] <=> \E v \in Handling' : wkey'[v] = s
      BY <1>7, <1>18, <1>19, Zenon
    <3> QED
      BY <3>1, <3>2, Zenon
  <2>5. \A v \in Handling : wpkt[v].exec # "exclusive"
    BY <1>2, Zenon DEF ActiveInv, Takes
  <2>6. e = "exclusive" => Handling = {}
    BY <1>2, HandlingFinite, FS_EmptySet, Zenon DEF ActiveInv, Takes
  <2>7. e = "serialized" => \A v \in Handling : wpkt[v].exec # "serialized"
    BY <1>2, Zenon DEF ActiveInv, Takes
  <2>8. ASSUME NEW v \in Handling
        PROVE  /\ ~Order!Conflict(Named(wkey[v], wpkt[v]), Named(s, x))
               /\ ~Order!Conflict(Named(s, x), Named(wkey[v], wpkt[v]))
    BY <1>4, <2>3, <2>5, <2>6, <2>7, Zenon DEF Order!Conflict, Named
  <2>9. \A u, v \in Handling' : u # v =>
          ~Order!Conflict(Named(wkey'[u], wpkt'[u]), Named(wkey'[v], wpkt'[v]))
    BY <1>18, <1>19, <2>8, ZenonT(30) DEF ActiveInv
  <2>10. serializedActive' <=> \E v \in Handling' : wpkt'[v].exec = "serialized"
    <3>1. serializedActive <=> \E v \in Handling : wpkt[v].exec = "serialized"
      BY Zenon DEF ActiveInv
    <3>2. serializedActive' <=> serializedActive \/ e = "serialized"
      BY <1>2, ZenonT(30) DEF Takes
    <3>3. (\E v \in Handling' : wpkt'[v].exec = "serialized") <=>
            (\E v \in Handling : wpkt[v].exec = "serialized") \/ e = "serialized"
      BY <1>4, <1>18, <1>19, Zenon
    <3> QED
      BY <3>1, <3>2, <3>3, Zenon
  <2>11. exclusiveActive' <=> \E v \in Handling' : wpkt'[v].exec = "exclusive"
    <3>1. exclusiveActive <=> \E v \in Handling : wpkt[v].exec = "exclusive"
      BY Zenon DEF ActiveInv
    <3>2. exclusiveActive' <=> exclusiveActive \/ e = "exclusive"
      BY <1>2, ZenonT(30) DEF Takes
    <3>3. (\E v \in Handling' : wpkt'[v].exec = "exclusive") <=>
            (\E v \in Handling : wpkt[v].exec = "exclusive") \/ e = "exclusive"
      BY <1>4, <1>18, <1>19, Zenon
    <3> QED
      BY <3>1, <3>2, <3>3, Zenon
  <2> QED
    BY <2>1, <2>2, <2>4, <2>9, <2>10, <2>11, Zenon DEF ActiveInv, Named
<1>22. PhaseAt'
  <2>1. phase \in {"open", "draining"} /\ (phase = "draining" => x.seq < cutoff)
    BY <1>2, <1>3, Zenon DEF Runs, Takes, Admissible
  <2>2. game \notin {"tick", "drained"}
    <3>1. game # "tick"
      BY <2>1, Zenon DEF PhaseAt
    <3>2. ASSUME game = "drained" PROVE FALSE
      <4>1. x.seq >= cutoff /\ phase = "draining"
        BY <1>4, <3>2, Zenon DEF PhaseAt
      <4> QED
        BY <1>4, <2>1, <4>1 DEF QueueTypeOK
    <3> QED
      BY <3>1, <3>2, Zenon
  <2> QED
    BY <1>3, <2>1, <2>2, ZenonT(30) DEF PhaseAt
<1> QED
  BY <1>10, <1>11, <1>12, <1>14, <1>15, <1>16, <1>17, <1>20, <1>21, <1>22, Zenon DEF Points

\* finish_one preserves the invariant, with the lane and the class of the packet named.
LEMMA FinishLaneStep ==
  ASSUME Points, NEW w \in Workers, FinishOne(w), NEW s, s = wkey[w], NEW e, e = wpkt[w].exec
  PROVE  Points'
<1> USE DEF Points
<1>2. w \in Handling
  BY Zenon DEF FinishOne, Handling
<1>3. s \in Sessions /\ e \in Execution
  BY <1>2, Zenon DEF ActiveInv, ActorTypeOK
<1>4. busy[s]
  BY <1>2, <1>3, Zenon DEF ActiveInv
<1>5. /\ active' = active - 1 /\ completed' = completed + 1
      /\ serializedActive' = (serializedActive /\ e # "serialized")
      /\ exclusiveActive' = (exclusiveActive /\ e # "exclusive")
      /\ busy' = [busy EXCEPT ![s] = FALSE]
      /\ outstanding' = [outstanding EXCEPT ![s] = @ - 1]
      /\ lanes' = (IF queued[s] = <<>> /\ pauseGen[s] = 0 THEN lanes \ {s} ELSE lanes)
      /\ wkey' = [wkey EXCEPT ![w] = NoKey] /\ wpkt' = [wpkt EXCEPT ![w] = NoPacket]
      /\ progressPermit' = TRUE
      /\ UNCHANGED <<phase, cutoff, queued, deferred, pauseGen, order, nextSequence,
                     nextPause, game, base, closed, transitions, submitted>>
  BY Zenon DEF FinishOne, gameVars, envVars
<1>6. ready' = IF queued[s] # <<>> /\ pauseGen[s] = 0
                 THEN MarkReady(ready, Head(queued[s]).seq, s, Head(queued[s]).exec) ELSE ready
  BY Zenon DEF FinishOne
<1>7. idlePermit' \in BOOLEAN
  BY Zenon DEF FinishOne, NotifyIdle, ActorTypeOK
<1>8. PICK woken \in SUBSET Waiting :
         wpc' = [v \in Workers |-> IF v = w \/ v \in woken THEN "next" ELSE wpc[v]]
  BY ZenonT(30) DEF FinishOne
<1>9. /\ wpc' \in [Workers -> {"next", "waiting", "handling", "exited"}]
      /\ Handling' = Handling \ {w}
  <2>1. wpc' \in [Workers -> {"next", "waiting", "handling", "exited"}]
    BY <1>8, Zenon DEF ActorTypeOK
  <2>2. \A v \in Workers : wpc'[v] = "handling" <=> wpc[v] = "handling" /\ v # w
    BY <1>8, Zenon DEF Waiting
  <2> QED
    BY <2>1, <2>2, Zenon DEF Handling
<1>10. /\ busy'[s] = FALSE /\ outstanding'[s] = outstanding[s] - 1
       /\ \A r \in Sessions : r # s => busy'[r] = busy[r] /\ outstanding'[r] = outstanding[r]
  BY <1>3, <1>5, Zenon DEF LaneTypeOK
<1>11. /\ LaneAt(s) /\ QueuedLen(s) \in Nat /\ DeferredLen(s) \in Nat /\ Load(s) = 1
       /\ outstanding[s] \in Nat /\ queued[s] \in Seq(Packets)
  BY <1>3, <1>4, LanesPointwise, LaneTypes, Zenon DEF Load
<1>12. queued[s] # <<>> => /\ pauseGen[s] = 0 /\ Head(queued[s]) = queued[s][1]
                           /\ queued[s][1].seq \in Nat /\ queued[s][1].exec \in Execution
  <2>1. queued[s] # <<>> => pauseGen[s] = 0
    BY <1>11, Zenon DEF LaneAt
  <2>2. queued[s] # <<>> => Head(queued[s]) = queued[s][1] /\ queued[s][1] \in Packets
    BY <1>3, <1>11, LaneTypes, LineFacts, Zenon
  <2> QED
    BY <2>1, <2>2, Zenon DEF Packets
<1>13. ready' = IF queued[s] # <<>> THEN MarkReady(ready, queued[s][1].seq, s, queued[s][1].exec) ELSE ready
  BY <1>6, <1>12, Zenon
<1>14. s \in lanes
  BY <1>4, <1>11, Zenon DEF LaneAt
<1>15. Load(s)' = 0 /\ QueuedLen(s)' = QueuedLen(s) /\ DeferredLen(s)' = DeferredLen(s)
  BY <1>5, <1>10, Zenon DEF Load, QueuedLen, DeferredLen
<1>16. outstanding'[s] = QueuedLen(s)' + DeferredLen(s)' + Load(s)' /\ outstanding'[s] \in Nat
  BY <1>10, <1>11, <1>15 DEF LaneAt
<1>17. LaneTypeOK'
  <2>1. busy' \in [Sessions -> BOOLEAN] /\ lanes' \subseteq Sessions
    BY <1>5, ZenonT(30) DEF LaneTypeOK
  <2>2. outstanding' \in [Sessions -> Nat]
    BY <1>5, <1>10, <1>16, Zenon DEF LaneTypeOK
  <2> QED
    BY <1>5, <2>1, <2>2, ZenonT(30) DEF LaneTypeOK
<1>18. Handling # {} /\ active \in Nat /\ active # 0 /\ active' = Cardinality(Handling')
  <2>1. /\ Cardinality(Handling \ {w}) = Cardinality(Handling) - 1 /\ Cardinality(Handling) \in Nat
        /\ Cardinality(Handling) # 0
    BY <1>2, HandlingFinite, FS_RemoveElement, FS_CardinalityType, FS_EmptySet, ZenonT(30)
  <2> QED
    BY <1>2, <1>5, <1>9, <2>1, Zenon DEF ActiveInv
<1>19. QueueTypeOK'
  <2>1. ready' \in [Execution -> SUBSET (Nat \X Sessions)]
    BY <1>3, <1>12, <1>13 DEF QueueTypeOK, MarkReady
  <2>2. active' \in Nat /\ completed' \in Nat
    BY <1>5, <1>18 DEF QueueTypeOK
  <2>3. serializedActive' \in BOOLEAN /\ exclusiveActive' \in BOOLEAN
    BY <1>5, Zenon
  <2> QED
    BY <1>5, <2>1, <2>2, <2>3, Zenon DEF QueueTypeOK
<1>20. ActorTypeOK'
  <2>1. wkey' \in [Workers -> Sessions \cup {NoKey}]
    BY <1>5, Zenon DEF ActorTypeOK
  <2>2. wpkt' \in [Workers -> [seq : Nat, exec : Execution, id : Nat]]
    <3>1. NoPacket \in [seq : Nat, exec : Execution, id : Nat]
      BY Zenon DEF NoPacket, Execution
    <3> QED
      BY <1>5, <3>1, Zenon DEF ActorTypeOK
  <2> QED
    BY <1>5, <1>7, <1>9, <2>1, <2>2, Zenon DEF ActorTypeOK
<1>21. OthersStay(s)
  BY <1>5, <1>10, Zenon DEF OthersStay
<1>22. LanesInv'
  <2>1. s \in lanes' <=> queued'[s] # <<>> \/ busy'[s] \/ pauseGen'[s] # 0
    BY <1>5, <1>10, <1>14, Zenon
  <2>2. LaneAt(s)'
    <3>1. queued'[s] = queued[s] /\ deferred'[s] = deferred[s] /\ pauseGen'[s] = pauseGen[s]
      BY <1>5, Zenon
    <3> QED
      BY <1>11, <1>16, <2>1, <3>1, Zenon DEF LaneAt
  <2> QED
    BY <1>3, <1>21, <2>2, LanesChange, Zenon
<1>23. ReadyAt'
  <2>1. ASSUME NEW f \in Execution, NEW n \in Nat, NEW r \in Sessions, r # s
        PROVE  <<n, r>> \in ready'[f] <=> <<n, r>> \in ready[f]
    BY <1>13, <2>1, Zenon DEF MarkReady, QueueTypeOK
  <2>2. ASSUME NEW f \in Execution, NEW n \in Nat
        PROVE  <<n, s>> \in ready'[f] <=> /\ queued'[s] # <<>> /\ ~busy'[s]
                                          /\ queued'[s][1].exec = f /\ queued'[s][1].seq = n
    <3>1. <<n, s>> \notin ready[f]
      BY <1>3, <1>4, Zenon DEF ReadyAt
    <3>2. queued'[s] = queued[s]
      BY <1>5, Zenon
    <3>3. CASE queued[s] # <<>>
      <4>1. <<n, s>> \in ready'[f] <=> (f = queued[s][1].exec /\ n = queued[s][1].seq)
        BY <1>13, <3>1, <3>3, Zenon DEF MarkReady, QueueTypeOK
      <4> QED
        BY <1>10, <3>2, <3>3, <4>1, ZenonT(30)
    <3>4. CASE queued[s] = <<>>
      BY <1>13, <3>1, <3>2, <3>4, Zenon
    <3> QED
      BY <3>3, <3>4, ZenonT(30)
  <2> QED
    BY <1>3, <1>21, <2>1, <2>2, ReadyChange, Zenon
<1>24. OrderAt'
  BY <1>5 DEF OrderAt
<1>25. LinesAt'
  BY <1>5, Zenon DEF LinesAt
<1>26. \A v \in Handling' : v \in Handling /\ v # w /\ wpkt'[v] = wpkt[v] /\ wkey'[v] = wkey[v]
  BY <1>5, <1>9, Zenon DEF ActorTypeOK, Handling
<1>27. PlacesAt'
  <2>1. \A r \in Sessions : Ids(r)' = Ids(r)
    BY <1>5, Zenon DEF Ids
  <2> QED
    BY <1>5, <1>26, <2>1, SMTT(30) DEF PlacesAt
<1>28. ActiveInv'
  <2>1. \A v \in Workers : v \in Handling' <=> wkey'[v] # NoKey
    BY <1>5, <1>9, Zenon DEF ActiveInv, ActorTypeOK
  <2>2. \A v \in Handling : v # w => wkey[v] # s /\ ~(e = "serialized" /\ wpkt[v].exec = "serialized")
                                     /\ ~(e = "exclusive" \/ wpkt[v].exec = "exclusive")
    BY <1>2, Zenon DEF ActiveInv, Order!Conflict, Named
  <2>3. \A r \in Sessions : busy'[r] <=> \E v \in Handling' : wkey'[v] = r
    <3>1. ASSUME NEW r \in Sessions, r # s PROVE busy'[r] <=> \E v \in Handling' : wkey'[v] = r
      <4>1. busy[r] <=> \E v \in Handling : wkey[v] = r
        BY Zenon DEF ActiveInv
      <4>2. (\E v \in Handling' : wkey'[v] = r) <=> \E v \in Handling : wkey[v] = r
        BY <1>9, <1>26, <3>1, Zenon
      <4> QED
        BY <1>10, <3>1, <4>1, <4>2, Zenon
    <3>2. busy'[s] <=> \E v \in Handling' : wkey'[v] = s
      BY <1>10, <1>26, <2>2, Zenon
    <3> QED
      BY <3>1, <3>2, Zenon
  <2>4. \A u, v \in Handling' : u # v =>
          ~Order!Conflict(Named(wkey'[u], wpkt'[u]), Named(wkey'[v], wpkt'[v]))
    BY <1>26, Zenon DEF ActiveInv
  <2>5. serializedActive' <=> \E v \in Handling' : wpkt'[v].exec = "serialized"
    <3>1. serializedActive <=> \E v \in Handling : wpkt[v].exec = "serialized"
      BY Zenon DEF ActiveInv
    <3>2. serializedActive' <=> serializedActive /\ e # "serialized"
      BY <1>5, ZenonT(30)
    <3>3. (\E v \in Handling' : wpkt'[v].exec = "serialized") <=>
            (\E v \in Handling : wpkt[v].exec = "serialized") /\ e # "serialized"
      BY <1>2, <1>9, <1>26, <2>2, ZenonT(30)
    <3> QED
      BY <3>1, <3>2, <3>3, Zenon
  <2>6. exclusiveActive' <=> \E v \in Handling' : wpkt'[v].exec = "exclusive"
    <3>1. exclusiveActive <=> \E v \in Handling : wpkt[v].exec = "exclusive"
      BY Zenon DEF ActiveInv
    <3>2. exclusiveActive' <=> exclusiveActive /\ e # "exclusive"
      BY <1>5, ZenonT(30)
    <3>3. (\E v \in Handling' : wpkt'[v].exec = "exclusive") <=>
            (\E v \in Handling : wpkt[v].exec = "exclusive") /\ e # "exclusive"
      BY <1>2, <1>9, <1>26, <2>2, ZenonT(30)
    <3> QED
      BY <3>1, <3>2, <3>3, Zenon
  <2> QED
    BY <1>18, <2>1, <2>3, <2>4, <2>5, <2>6, Zenon DEF ActiveInv, Named
<1>29. PhaseAt'
  <2>1. game \notin {"tick", "drained"}
    BY <1>18, ZenonT(30) DEF PhaseAt
  <2> QED
    BY <1>5, <2>1, Zenon DEF PhaseAt
<1> QED
  BY <1>17, <1>19, <1>20, <1>22, <1>23, <1>24, <1>25, <1>27, <1>28, <1>29, Zenon DEF Points

\* finish_one preserves the invariant.
LEMMA FinishOneStep ==
  ASSUME Points, NEW w \in Workers, FinishOne(w)
  PROVE  Points'
BY FinishLaneStep, ZenonT(30)

-----------------------------------------------------------------------------
(* The whole.                                                               *)

\* The new queue satisfies the invariant.
LEMMA InitPoints == Init => Points
<1> SUFFICES ASSUME Init PROVE Points
  OBVIOUS
<1> USE DEF Init
<1>1. LaneTypeOK
  BY EmptyLine, Zenon DEF LaneTypeOK
<1>2. QueueTypeOK
  <2>1. ready \in [Execution -> SUBSET (Nat \X Sessions)] /\ order \in [Execution -> SUBSET Nat]
    OBVIOUS
  <2>2. /\ nextSequence \in Nat /\ nextPause \in Nat \ {0} /\ submitted \in Nat
        /\ active \in Nat /\ completed \in Nat /\ base \in Nat /\ cutoff \in Nat
    OBVIOUS
  <2>3. /\ phase \in {"closed", "open", "draining", "stopped"}
        /\ serializedActive \in BOOLEAN /\ exclusiveActive \in BOOLEAN
    BY ZenonT(30)
  <2> HIDE DEF Init
  <2> QED
    BY <2>1, <2>2, <2>3, Zenon DEF QueueTypeOK
<1>3. ActorTypeOK
  BY ZenonT(30) DEF ActorTypeOK, NoPacket, Execution
<1>4. Handling = {} /\ Cardinality(Handling) = 0
  BY FS_EmptySet, ZenonT(30) DEF Handling
<1>5. \A s \in Sessions : /\ Elements(queued[s]) = {} /\ Elements(deferred[s]) = {} /\ queued[s] = <<>>
                          /\ Rising(queued[s]) /\ RisingIds(deferred[s])
                          /\ Len(queued[s]) = 0 /\ Len(deferred[s]) = 0
  BY EmptyLine, Zenon
<1>6. LanesInv
  BY <1>5 DEF LanesInv
<1>7. ReadyAt
  BY <1>5, Zenon DEF ReadyAt
<1>8. OrderAt
  BY <1>5, Zenon DEF OrderAt
<1>9. ActiveInv
  BY <1>4, Zenon DEF ActiveInv
<1>10. LinesAt
  BY <1>5, Zenon DEF LinesAt
<1>11. PlacesAt
  BY <1>4, <1>5, Zenon DEF PlacesAt, Ids
<1>12. PhaseAt
  BY Zenon DEF PhaseAt
<1> QED
  BY <1>1, <1>2, <1>3, <1>6, <1>7, <1>8, <1>9, <1>10, <1>11, <1>12, Zenon DEF Points

\* A step of no thread preserves the invariant.
LEMMA StutterStep ==
  ASSUME Points, UNCHANGED vars
  PROVE  Points'
<1> USE DEF vars
<1>1. SameHandlers
  BY Zenon DEF SameHandlers, Points, ActorTypeOK, Handling, workerVars
<1>2. LaneTypeOK' /\ LanesInv' /\ ReadyAt' /\ OrderAt' /\ LinesAt' /\ PlacesAt' /\ ActiveInv'
  BY <1>1, FrameAll, Zenon DEF countVars, envVars
<1>3. QueueTypeOK'
  BY Zenon DEF Points, QueueTypeOK, heapVars, countVars, gameVars, envVars
<1>4. ActorTypeOK'
  BY Zenon DEF Points, ActorTypeOK, workerVars, gameVars, envVars
<1>5. PhaseAt'
  BY Zenon DEF Points, PhaseAt, laneVars, heapVars, gameVars, countVars
<1> QED
  BY <1>2, <1>3, <1>4, <1>5, Zenon DEF Points

\* Every step preserves the invariant.
LEMMA NextPoints ==
  ASSUME Points, [Next]_vars
  PROVE  Points'
<1>1. ASSUME NEW s \in Sessions, (\E e \in Execution : Submit(s, e)) \/ Reject(s) \/ PauseLane(s) \/ Discard(s)
      PROVE  Points'
  BY <1>1, SubmitStep, RejectStep, PauseStep, DiscardStep, ZenonT(30)
<1>2. ASSUME NEW t \in transitions, FinishTransition(t) PROVE Points'
  BY <1>2, FinishTransitionStep, ZenonT(30)
<1>3. ASSUME NEW w \in Workers, WorkerStep(w) PROVE Points'
  BY <1>3, StartStep, WaitStep, FinishOneStep, Zenon DEF WorkerStep
<1>4. CASE GameLoop
  BY <1>4, GameStepHolds, ZenonT(30)
<1>5. CASE Stop
  BY <1>5, StopStep, Zenon
<1>6. CASE UNCHANGED vars
  BY <1>6, StutterStep, Zenon
<1> QED
  BY <1>1, <1>2, <1>3, <1>4, <1>5, <1>6, Zenon DEF Next

\* The indexes, counters and flags of the queue always say what its lanes hold, for
\* any number of sessions and workers: no assertion of packet_processor.rs is met.
THEOREM Invariance == Spec => []IInv
<1>1. Init => IInv
  BY InitPoints, InvIsPoints, Zenon
<1>2. IInv /\ [Next]_vars => IInv'
  BY NextPoints, InvIsPoints, InvIsPointsNext, Zenon
<1> QED
  BY <1>1, <1>2, PTL DEF Spec

\* Packets join the end of the line.
LEMMA JoinView ==
  ASSUME Points, NEW s \in Sessions, NEW B, B \subseteq Packets,
         \A r \in Sessions : r # s => queued'[r] = queued[r],
         Elements(queued'[s]) = Elements(queued[s]) \cup B,
         \A x \in B : nextSequence <= x.seq,
         \A x, y \in B : x.seq < y.seq <=> x.id < y.id,
         UNCHANGED <<phase, cutoff>>, SameHandlers
  PROVE  /\ Pending' = Pending \cup {Named(s, x) : x \in B}
         /\ Ahead' = Ahead \cup (Order!IdsOf(Pending) \X IdsIn(B))
                       \cup {x \in IdsIn(B) \X IdsIn(B) : x[1] < x[2]}
         /\ Due' = Due /\ Running' = Running /\ Stage' = Stage
<1>1. ASSUME NEW p PROVE p \in Pending' <=> p \in Pending \/ p \in {Named(s, x) : x \in B}
  <2>1. p \in Pending' <=> \E r \in Sessions : \E x \in Elements(queued'[r]) : p = Named(r, x)
    BY DEF Pending, Named
  <2> QED
    BY <2>1, PendingIs, Zenon
<1>2. AllQueued' = AllQueued \cup B
  BY Zenon DEF AllQueued
<1>3. QueueTypeOK /\ nextSequence \in Nat
  BY Zenon DEF Points, QueueTypeOK
<1>4. \A x \in AllQueued : \A y \in B : x.seq < y.seq /\ ~(y.seq < x.seq)
  BY <1>3, UniquePackets DEF Packets
<1>5. LineOf(AllQueued \cup B) = LineOf(AllQueued) \cup (IdsIn(AllQueued) \X IdsIn(B))
                              \cup {x \in IdsIn(B) \X IdsIn(B) : x[1] < x[2]}
  BY <1>4, LineJoin, ZenonT(30)
<1>6. Ahead' = LineOf(AllQueued') /\ Ahead = LineOf(AllQueued)
  BY Zenon DEF Ahead, LineOf
<1>7. Ahead' = Ahead \cup (Order!IdsOf(Pending) \X IdsIn(B)) \cup {x \in IdsIn(B) \X IdsIn(B) : x[1] < x[2]}
  BY <1>2, <1>5, <1>6, PendingIds, ZenonT(30)
<1>8. Due' = Due
  <2>1. CASE phase # "draining"
    BY <2>1, Zenon DEF Due
  <2>2. CASE phase = "draining"
    <3>1. \A x \in B : ~(x.seq < cutoff)
      BY <1>3, <2>2 DEF Points, PhaseAt, QueueTypeOK, Packets
    <3>2. {y \in AllQueued' : y.seq < cutoff} = {y \in AllQueued : y.seq < cutoff}
      BY <1>2, <3>1, Zenon
    <3> QED
      BY <2>2, <3>2, Zenon DEF Due, SameHandlers
  <2> QED
    BY <2>1, <2>2, Zenon
<1> QED
  BY <1>1, <1>7, <1>8, SameRunning, ZenonT(30)

\* try_submit puts a packet at the end of the line.
LEMMA SubmitQueuedView ==
  ASSUME Points, NEW s \in Sessions, NEW e \in Execution, Submit(s, e), SubmitQueued(s, e)
  PROVE  Order!Submit(s, e)
<1> DEFINE x == [seq |-> nextSequence, exec |-> e, id |-> submitted]
<1> USE DEF Points
<1>2. x \in Packets /\ x.id = submitted /\ x.seq = nextSequence /\ x.exec = e /\ nextSequence \in Nat /\ submitted \in Nat
  BY Zenon DEF QueueTypeOK, Packets
<1>3. /\ deferred' = deferred /\ pauseGen' = pauseGen /\ pauseGen[s] = 0
      /\ queued' = [queued EXCEPT ![s] = Append(@, x)]
  BY Zenon DEF SubmitQueued
<1>4. SameHandlers
  BY WakesOne, Zenon DEF SubmitQueued, Submit, SameHandlers
<1>5. submitted' = submitted + 1 /\ UNCHANGED <<phase, cutoff>> /\ phase # "stopped"
  BY Zenon DEF Submit
<1> HIDE DEF x
<1>6. queued'[s] = Append(queued[s], x) /\ \A r \in Sessions : r # s => queued'[r] = queued[r]
  BY <1>3, Zenon DEF LaneTypeOK
<1>7. Elements(queued'[s]) = Elements(queued[s]) \cup {x}
  BY <1>2, <1>6, AppendFacts, LaneTypes
<1>8. /\ Pending' = Pending \cup {Named(s, y) : y \in {x}}
      /\ Ahead' = Ahead \cup (Order!IdsOf(Pending) \X IdsIn({x}))
                       \cup {z \in IdsIn({x}) \X IdsIn({x}) : z[1] < z[2]}
      /\ Due' = Due /\ Running' = Running /\ Stage' = Stage
  <2>1. \A y \in {x} : nextSequence <= y.seq
    BY <1>2
  <2>2. \A y, z \in {x} : y.seq < z.seq <=> y.id < z.id
    BY <1>2
  <2> HIDE DEF IdsIn
  <2> QED
    BY <1>2, <1>4, <1>5, <1>6, <1>7, <2>1, <2>2, JoinView, ZenonT(30)
<1>9. IdsIn({x}) = {submitted} /\ {z \in {submitted} \X {submitted} : z[1] < z[2]} = {}
  BY <1>2 DEF IdsIn
<1>10. Named(s, x) = Order!Packet(submitted, s, e) /\ Order!Packet(submitted, s, e).id = submitted
  BY <1>2, Zenon DEF Named, Order!Packet
<1>11. Held' = Held /\ Holding' = Holding /\ s \notin Holding
  BY <1>3 DEF Held, Holding, Named
<1>12. Stage # "halted"
  BY <1>5, Zenon DEF Stage, QueueTypeOK
<1>13. Pending' = Pending \cup {Order!Packet(submitted, s, e)}
  BY <1>8, <1>10, Zenon
<1>14. Ahead' = Ahead \cup (Order!IdsOf(Pending) \X {Order!Packet(submitted, s, e).id})
  BY <1>8, <1>9, <1>10, Zenon
<1> QED
  BY <1>5, <1>8, <1>11, <1>12, <1>13, <1>14, Zenon DEF Order!Submit

\* try_submit to a paused lane holds the packet.
LEMMA SubmitDeferredView ==
  ASSUME Points, NEW s \in Sessions, NEW e \in Execution, Submit(s, e), SubmitDeferred(s, e)
  PROVE  Order!Submit(s, e)
<1> DEFINE x == [exec |-> e, id |-> submitted]
<1> USE DEF Points
<1>2. x \in Deferrals /\ x.id = submitted /\ x.exec = e
  BY Zenon DEF QueueTypeOK, Deferrals
<1>3. /\ queued' = queued /\ pauseGen' = pauseGen /\ pauseGen[s] # 0 /\ wpc' = wpc
      /\ deferred' = [deferred EXCEPT ![s] = Append(@, x)]
  BY Zenon DEF SubmitDeferred
<1>4. SameHandlers
  BY <1>3, Zenon DEF SameHandlers, Submit, Handling, ActorTypeOK
<1>5. submitted' = submitted + 1 /\ UNCHANGED <<phase, cutoff>> /\ phase # "stopped"
  BY Zenon DEF Submit
<1> HIDE DEF x
<1>6. deferred'[s] = Append(deferred[s], x) /\ \A r \in Sessions : r # s => deferred'[r] = deferred[r]
  BY <1>3, Zenon DEF LaneTypeOK
<1>7. Elements(deferred'[s]) = Elements(deferred[s]) \cup {x}
  BY <1>2, <1>6, AppendFacts, LaneTypes
<1>8. Named(s, x) = Order!Packet(submitted, s, e)
  BY <1>2, Zenon DEF Named, Order!Packet
<1>9. Held' = Held \cup {Order!Packet(submitted, s, e)}
  <2>1. ASSUME NEW p PROVE p \in Held' <=> \E r \in Sessions : \E y \in Elements(deferred'[r]) : p = Named(r, y)
    BY DEF Held, Named
  <2>2. ASSUME NEW p PROVE p \in Held' <=> p \in Held \/ p = Named(s, x)
    BY <1>6, <1>7, <2>1, HeldIs, ZenonT(30)
  <2> QED
    BY <1>8, <2>2, Zenon
<1>10. /\ Pending' = Pending /\ Ahead' = Ahead /\ Due' = Due /\ Holding' = Holding /\ s \in Holding
       /\ Running' = Running /\ Stage' = Stage
  BY <1>3, <1>4, <1>5 DEF Pending, Ahead, Due, Holding, AllQueued, Running, Stage, SameHandlers, Named
<1>11. Stage # "halted"
  BY <1>5 DEF Stage, QueueTypeOK
<1> QED
  BY <1>5, <1>9, <1>10, <1>11, Zenon DEF Order!Submit

\* resume_lane puts held packets at the end of the line, in their order.
LEMMA ResumeView ==
  ASSUME Points, NEW s \in Sessions, ResumeLane(s), OnlyLanes, phase # "stopped", pauseGen[s] # 0
  PROVE  Order!Release(s)
<1> DEFINE line == Renumbered(deferred[s], nextSequence)
           B == Elements(line)
<1> USE DEF Points
<1>2. /\ deferred[s] \in Seq(Deferrals) /\ RisingIds(deferred[s]) /\ queued[s] = <<>> /\ nextSequence \in Nat
  BY LanesPointwise, LaneTypes, Zenon DEF LaneAt, LinesAt, QueueTypeOK
<1>3. /\ line \in Seq(Packets) /\ Rising(line)
      /\ \A x \in B : nextSequence <= x.seq
      /\ \A x \in B : \E y \in Elements(deferred[s]) : y.id = x.id /\ y.exec = x.exec
      /\ \A y \in Elements(deferred[s]) : \E x \in B : x.id = y.id /\ x.exec = y.exec
  BY <1>2, RenumberedFacts, Zenon
<1>4. /\ queued' = [queued EXCEPT ![s] = @ \o line] /\ deferred' = [deferred EXCEPT ![s] = <<>>]
      /\ pauseGen' = [pauseGen EXCEPT ![s] = 0] /\ UNCHANGED <<phase, cutoff, submitted>>
  BY ZenonT(30) DEF ResumeLane, Readmitted, Renumbered, OnlyLanes
<1>5. SameHandlers
  BY NotifyFacts, ZenonT(30) DEF ResumeLane, SameHandlers, OnlyLanes
<1> HIDE DEF line
<1>6. /\ queued'[s] = line /\ deferred'[s] = <<>> /\ pauseGen'[s] = 0
      /\ \A r \in Sessions : r # s =>
            queued'[r] = queued[r] /\ deferred'[r] = deferred[r] /\ pauseGen'[r] = pauseGen[r]
  <2>1. <<>> \o line = line
    BY <1>3, EmptyConcat, Zenon
  <2> QED
    BY <1>2, <1>4, <2>1, Zenon DEF LaneTypeOK
<1>7. B \subseteq Packets /\ Elements(queued[s]) = {} /\ Elements(deferred'[s]) = {}
  BY <1>2, <1>3, <1>6, LineFacts, EmptyLine, ZenonT(30)
<1>8. \A x, y \in B : x.seq < y.seq <=> x.id < y.id
  BY <1>3, RisingFacts, Zenon
<1> HIDE DEF B
<1>9. /\ Pending' = Pending \cup {Named(s, x) : x \in B}
      /\ Ahead' = Ahead \cup (Order!IdsOf(Pending) \X IdsIn(B)) \cup {x \in IdsIn(B) \X IdsIn(B) : x[1] < x[2]}
      /\ Due' = Due /\ Running' = Running /\ Stage' = Stage
  <2>1. Elements(queued'[s]) = Elements(queued[s]) \cup B
    BY <1>6, <1>7, Zenon DEF B
  <2> QED
    BY <1>3, <1>4, <1>5, <1>6, <1>7, <1>8, <2>1, JoinView, ZenonT(30)
<1>10. ASSUME NEW p PROVE p \in Order!Of(s, Held) <=> p \in {Named(s, x) : x \in B}
  <2>1. p \in Order!Of(s, Held) <=> \E y \in Elements(deferred[s]) : p = Named(s, y)
    BY HeldIs, NamedFacts DEF Order!Of
  <2>2. ASSUME NEW y \in Elements(deferred[s]), p = Named(s, y) PROVE \E x \in B : p = Named(s, x)
    BY <1>3, <2>2, Zenon DEF Named
  <2>3. ASSUME NEW x \in B, p = Named(s, x) PROVE \E y \in Elements(deferred[s]) : p = Named(s, y)
    BY <1>3, <2>3, Zenon DEF Named
  <2> QED
    BY <2>1, <2>2, <2>3, Zenon
<1>11. Order!Of(s, Held) = {Named(s, x) : x \in B}
  BY <1>10, Zenon
<1>12. Order!IdsOf(Order!Of(s, Held)) = IdsIn(B)
  BY <1>11, NamedFacts DEF Order!IdsOf, IdsIn
<1>13. Held' = Order!Others(s, Held)
  <2>1. ASSUME NEW p PROVE p \in Held' <=> \E r \in Sessions : \E x \in Elements(deferred'[r]) : p = Named(r, x)
    BY DEF Held, Named
  <2>2. ASSUME NEW p PROVE p \in Held' <=> p \in Held /\ p.key # s
    BY <1>6, <1>7, <2>1, HeldIs, NamedFacts, SMTT(30)
  <2> QED
    BY <2>2, Zenon DEF Order!Others
<1>14. Holding' = Holding \ {s} /\ s \in Holding
  BY <1>6, Zenon DEF Holding
<1>15. Stage # "halted"
  BY Zenon DEF Stage, QueueTypeOK
<1> QED
  BY <1>4, <1>9, <1>11, <1>12, <1>13, <1>14, <1>15, ZenonT(30) DEF Order!Release

\* When the counter of active packets is zero, no handler runs and no lane is active.
LEMMA IdleHandlers ==
  ASSUME Points, active = 0
  PROVE  Handling = {} /\ ~serializedActive /\ ~exclusiveActive /\ \A s \in Sessions : ~busy[s]
<1>1. Handling = {}
  BY HandlingFinite, FS_EmptySet, ZenonT(30) DEF Points, ActiveInv
<1> QED
  BY <1>1, Zenon DEF Points, ActiveInv

\* An exclusive packet that starts is the first of all: the first of all would be
\* a candidate itself, because nothing runs.
LEMMA ExclusiveFirst ==
  ASSUME Points, CandidatesNow # {}, active = 0, NEW y \in AllQueued
  PROVE  Peek(ready[Selected(ready, CandidatesNow)])[1] <= y.seq
<1> DEFINE first == Peek(ready[Selected(ready, CandidatesNow)])[1]
           S == {x.seq : x \in AllQueued}
<1> USE DEF Points
<1>2. AllQueued \subseteq Packets
  BY UniquePackets, Zenon
<1>3. PICK m \in S : \A n \in S : m <= n
  <2>1. S \subseteq Nat /\ S # {}
    BY <1>2, Zenon DEF Packets
  <2> QED
    BY <2>1, LeastNat, ZenonT(30)
<1>4. PICK s \in Sessions : \E x \in Elements(queued[s]) : x.seq = m
  BY <1>3, Zenon DEF AllQueued
<1>5. /\ queued[s] \in Seq(Packets) /\ queued[s] # <<>> /\ Rising(queued[s])
      /\ queued[s][1] \in Elements(queued[s]) /\ queued[s][1] \in Packets
  BY <1>4, LaneTypes, LineFacts, Zenon DEF LinesAt
<1> DEFINE h == queued[s][1]
           e == h.exec
<1>6. h.seq = m /\ m \in Nat /\ e \in Execution
  <2>1. h \in AllQueued /\ h.seq \in Nat /\ e \in Execution
    BY <1>5, Zenon DEF AllQueued, Packets
  <2>2. m <= h.seq
    BY <1>3, <2>1, Zenon
  <2>3. PICK x \in Elements(queued[s]) : x.seq = m
    BY <1>4, Zenon
  <2>4. h.seq <= x.seq
    BY <1>5, TailFacts, Zenon
  <2>5. m \in Nat
    BY <1>2, <1>3, ZenonT(30) DEF Packets
  <2> QED
    BY <2>1, <2>2, <2>3, <2>4, <2>5
<1>7. ~serializedActive /\ ~exclusiveActive /\ ~busy[s]
  BY IdleHandlers, Zenon
<1>8. <<m, s>> \in ready[e]
  BY <1>5, <1>6, <1>7 DEF ReadyAt
<1> HIDE DEF h, e, S
<1>9. ASSUME NEW f \in Execution, NEW n \in order[f] PROVE n \in S /\ n \in Nat
  <2>1. n \in Nat
    BY <1>9, Zenon DEF QueueTypeOK
  <2> QED
    BY <1>9, <2>1 DEF OrderAt, S, AllQueued
<1>10. ASSUME NEW f \in Execution, ready[f] # {}
       PROVE  /\ Peek(ready[f]) \in ready[f] /\ Peek(ready[f])[1] \in S /\ Peek(ready[f])[1] \in Nat
              /\ \A z \in ready[f] : Peek(ready[f])[1] <= z[1]
  <2>1. ready[f] \subseteq Nat \X Sessions
    BY <1>10, Zenon DEF QueueTypeOK
  <2>2. Peek(ready[f]) \in ready[f] /\ \A z \in ready[f] : Peek(ready[f])[1] <= z[1]
    BY <1>10, <2>1, PeekFacts, Zenon
  <2>3. PICK n \in Nat, r \in Sessions : Peek(ready[f]) = <<n, r>>
    BY <2>1, <2>2
  <2>4. queued[r] # <<>> /\ queued[r][1].seq = n
    BY <1>10, <2>2, <2>3 DEF ReadyAt
  <2>5. queued[r][1] \in AllQueued
    BY <2>4, LaneTypes, Zenon DEF AllQueued
  <2> QED
    BY <2>2, <2>3, <2>4, <2>5 DEF S
<1>11. Peek(ready[e])[1] = m
  <2>1. ready[e] # {}
    BY <1>8, Zenon
  <2>2. Peek(ready[e])[1] <= <<m, s>>[1] /\ m <= Peek(ready[e])[1] /\ Peek(ready[e])[1] \in Nat
    BY <1>3, <1>6, <1>8, <1>10, <2>1, Zenon
  <2> QED
    BY <1>6, <2>2
<1>12. \A f \in Execution : \A n \in order[f] : m <= n
  BY <1>3, <1>9, Zenon
<1>13. e # "local" => m \in order[e]
  BY <1>5, <1>6, Zenon DEF OrderAt, h, e
<1>14. e # "local" => m = Min(order[e])
  <2> SUFFICES ASSUME e # "local" PROVE m = Min(order[e])
    OBVIOUS
  <2>1. order[e] \subseteq Nat /\ order[e] # {} /\ m \in order[e]
    BY <1>6, <1>9, <1>13, Zenon
  <2>2. Min(order[e]) \in order[e] /\ \A n \in order[e] : Min(order[e]) <= n
    BY <2>1, MinFacts, Zenon
  <2>3. Min(order[e]) <= m /\ m <= Min(order[e]) /\ Min(order[e]) \in Nat
    BY <1>6, <1>12, <2>1, <2>2, Zenon
  <2> QED
    BY <1>6, <2>3
<1>15. Selected(ready, CandidatesNow) \in CandidatesNow
       /\ \A f \in CandidatesNow : first <= Peek(ready[f])[1]
  BY SelectedFacts, ZenonT(30)
<1>16. first \in S /\ Admissible(first, phase, cutoff) /\ first \in Nat
  BY <1>10, <1>15, ZenonT(30) DEF CandidatesNow, Candidates
<1> HIDE DEF first
<1>17. Admissible(m, phase, cutoff)
  <2>1. m <= first
    BY <1>3, <1>16, ZenonT(30)
  <2> QED
    BY <1>6, <1>16, <2>1 DEF Admissible, QueueTypeOK
<1>18. e \in CandidatesNow
  <2>1. ready[e] # {} /\ "exclusive" \in Execution
    BY <1>8, ZenonT(30) DEF Execution
  <2> QED
    BY <1>6, <1>7, <1>11, <1>12, <1>14, <1>17, <2>1, Zenon DEF CandidatesNow, Candidates
<1>19. first <= m
  BY <1>11, <1>15, <1>18, Zenon
<1>20. m <= y.seq /\ y.seq \in Nat
  BY <1>2, <1>3, Zenon DEF S, Packets
<1>21. first <= y.seq
  BY <1>6, <1>16, <1>19, <1>20
<1> QED
  BY <1>21, Zenon DEF first

\* start_next starts a packet that no running packet and none ahead of it is in the
\* way of, and only one that is due while the queue drains.
LEMMA StartView ==
  ASSUME Points, NEW w \in Workers, Start(w)
  PROVE  \E p \in Pending : Order!Start(p)
<1> USE DEF Points
<1>2. PICK s \in Sessions, e \in Execution, x \in Packets : Takes(w, s, e, x)
  BY StartFacts
<1>3. /\ Runs(phase) /\ CandidatesNow # {} /\ wpc[w] = "next" /\ wpc' = [wpc EXCEPT ![w] = "handling"]
      /\ UNCHANGED <<phase, cutoff, deferred, pauseGen, submitted>>
  BY Zenon DEF Start, envVars
<1>4. /\ queued[s] \in Seq(Packets) /\ queued[s] # <<>> /\ x = queued[s][1]
      /\ Rising(queued[s]) /\ x.exec = e /\ x.seq \in Nat /\ x.id \in Nat /\ x \in Elements(queued[s])
  BY <1>2, LaneTypes, ZenonT(30) DEF Takes, LinesAt, Packets
<1>5. /\ Elements(Tail(queued[s])) = Elements(queued[s]) \ {x}
      /\ \A y \in Elements(queued[s]) : x.seq <= y.seq
  BY <1>4, TailFacts, Zenon
<1>6. queued'[s] = Tail(queued[s]) /\ \A r \in Sessions : r # s => queued'[r] = queued[r]
  BY <1>2, Zenon DEF LaneTypeOK, Takes
<1>7. wkey' = [wkey EXCEPT ![w] = s] /\ wpkt' = [wpkt EXCEPT ![w] = x]
  BY <1>2, Zenon DEF Takes
<1>8. Handling' = Handling \cup {w} /\ w \notin Handling
  BY <1>3, Zenon DEF Handling, ActorTypeOK
<1>9. wpkt'[w] = x /\ wkey'[w] = s /\ \A v \in Handling : wpkt'[v] = wpkt[v] /\ wkey'[v] = wkey[v]
  BY <1>7, <1>8, ZenonT(30) DEF ActorTypeOK, Handling
<1> DEFINE p == Named(s, x)
<1>10. p \in Pending /\ p.id = x.id /\ p.key = s /\ p.exec = e
  BY <1>4, PendingIs, NamedFacts
<1>11. x \in AllQueued
  BY <1>4, Zenon DEF AllQueued
<1>12. Stage = "open" \/ (Stage = "draining" /\ p.id \in Due)
  <2>1. phase = "open" \/ (phase = "draining" /\ x.seq < cutoff)
    BY <1>2, Zenon DEF Takes, Admissible
  <2>2. CASE phase = "open"
    BY <2>2, Zenon DEF Stage
  <2>3. CASE phase = "draining" /\ x.seq < cutoff
    BY <1>10, <1>11, <2>3, DueIs, Zenon DEF Stage
  <2> QED
    BY <2>1, <2>2, <2>3, Zenon
<1>13. \A q \in Running : ~Order!Conflict(p, q)
  <2>1. ActiveInv'
    BY StartStep, Zenon DEF Points
  <2>2. ASSUME NEW v \in Handling PROVE ~Order!Conflict(Named(s, x), Named(wkey[v], wpkt[v]))
    <3>1. \A u, q \in Handling' : u # q =>
            ~Order!Conflict(Named(wkey'[u], wpkt'[u]), Named(wkey'[q], wpkt'[q]))
      BY <2>1, Zenon DEF ActiveInv, Named
    <3> QED
      BY <1>8, <1>9, <3>1, Zenon
  <2> QED
    BY <2>2, Zenon DEF Running
<1>14. \A q \in Pending : <<q.id, p.id>> \in Ahead => ~Order!Conflict(p, q)
  <2> SUFFICES ASSUME NEW r \in Sessions, NEW y \in Elements(queued[r]), <<y.id, x.id>> \in Ahead
               PROVE  ~Order!Conflict(p, Named(r, y))
    BY <1>10, PendingIs, NamedFacts
  <2>1. y \in AllQueued /\ y \in Packets /\ y.seq \in Nat
    BY UniquePackets DEF AllQueued, Packets
  <2>2. y.seq < x.seq
    <3>1. PICK a \in AllQueued, b \in AllQueued : a.seq < b.seq /\ <<y.id, x.id>> = <<a.id, b.id>>
      BY AheadIs, LineMember, Zenon
    <3>2. a = y /\ b = x
      BY <1>11, <2>1, <3>1, UniquePackets, Zenon
    <3> QED
      BY <3>1, <3>2, Zenon
  <2>3. r # s
    BY <1>4, <1>5, <2>1, <2>2, SMTT(30)
  <2>4. y.exec # "exclusive" /\ (e = "serialized" => y.exec # "serialized")
    <3>1. y.exec \in Execution /\ (y.exec # "local" => y.seq \in order[y.exec])
      BY <2>1, Zenon DEF OrderAt, Packets
    <3> QED
      BY <1>2, <1>4, <2>1, <2>2, <3>1 DEF Takes
  <2>5. e # "exclusive"
    <3> SUFFICES ASSUME e = "exclusive" PROVE FALSE
      OBVIOUS
    <3>1. active = 0 /\ x.seq = Peek(ready[Selected(ready, CandidatesNow)])[1]
      BY <1>2, Zenon DEF Takes
    <3>2. x.seq <= y.seq
      BY <1>3, <2>1, <3>1, ExclusiveFirst, Zenon
    <3> QED
      BY <1>4, <2>1, <2>2, <3>2
  <2> QED
    BY <1>10, <2>3, <2>4, <2>5, NamedFacts, Zenon DEF Order!Conflict
<1>15. Pending' = Pending \ {p}
  <2>1. ASSUME NEW q PROVE q \in Pending' <=> \E r \in Sessions : \E y \in Elements(queued'[r]) : q = Named(r, y)
    BY DEF Pending, Named
  <2>2. ASSUME NEW r \in Sessions, NEW y
        PROVE  y \in Elements(queued'[r]) <=> y \in Elements(queued[r]) /\ ~(r = s /\ y = x)
    BY <1>5, <1>6, Zenon
  <2>3. ASSUME NEW r \in Sessions, NEW y \in Elements(queued[r]), Named(r, y) = p PROVE r = s /\ y = x
    <3>1. r = s /\ y.id = x.id
      BY <2>3, NamedFacts
    <3>2. y \in AllQueued
      BY Zenon DEF AllQueued
    <3> QED
      BY <1>11, <3>1, <3>2, UniquePackets, ZenonT(30)
  <2> HIDE DEF p
  <2>4. ASSUME NEW q \in Pending' PROVE q \in Pending /\ q # p
    <3>1. PICK r \in Sessions : \E y \in Elements(queued'[r]) : q = Named(r, y)
      BY <2>1, <2>4, Zenon
    <3>2. PICK y \in Elements(queued'[r]) : q = Named(r, y)
      BY <3>1, Zenon
    <3>3. y \in Elements(queued[r]) /\ ~(r = s /\ y = x)
      BY <2>2, <3>2, Zenon
    <3> QED
      BY <2>3, <3>2, <3>3, PendingIs, Zenon
  <2>5. ASSUME NEW q \in Pending, q # p PROVE q \in Pending'
    <3>1. PICK r \in Sessions : \E y \in Elements(queued[r]) : q = Named(r, y)
      BY <2>5, PendingIs, Zenon
    <3>2. PICK y \in Elements(queued[r]) : q = Named(r, y)
      BY <3>1, Zenon
    <3>3. ~(r = s /\ y = x)
      BY <2>5, <3>2, Zenon DEF p
    <3>4. y \in Elements(queued'[r])
      BY <2>2, <3>2, <3>3, ZenonT(30)
    <3> QED
      BY <2>1, <3>2, <3>4, Zenon
  <2> QED
    BY <2>4, <2>5, Zenon
<1>16. AllQueued' \subseteq AllQueued
  BY <1>5, <1>6, Zenon DEF AllQueued
<1>17. Ahead' = Order!Line(Pending \ {p})
  BY <1>15, <1>16, ShrinkView, ZenonT(30)
<1>18. Running' = Running \cup {p}
  <2>1. Running' = {Named(wkey'[v], wpkt'[v]) : v \in Handling'}
    BY Zenon DEF Running, Named
  <2> QED
    BY <1>8, <1>9, <2>1, Zenon DEF Running
<1>19. Held' = Held /\ Holding' = Holding /\ Stage' = Stage
  BY <1>3 DEF Held, Holding, Stage, Named
<1>20. Due' = Due
  <2>1. CASE phase # "draining"
    BY <1>3, <2>1, Zenon DEF Due
  <2>2. CASE phase = "draining"
    <3>1. x.seq < cutoff
      BY <1>2, <2>2, Zenon DEF Takes, Admissible
    <3>2. ASSUME NEW k
          PROVE  k \in Due' <=> \/ \E y \in AllQueued' : y.seq < cutoff /\ y.id = k
                                \/ \E v \in Handling' : wpkt'[v].id = k
      BY <1>3, <2>2, Zenon DEF Due
    <3>3. ASSUME NEW y PROVE y \in AllQueued' \/ y = x <=> y \in AllQueued
      <4>1. Elements(queued'[s]) \cup {x} = Elements(queued[s])
        BY <1>4, <1>5, <1>6, Zenon
      <4>2. y \in AllQueued' <=> \E r \in Sessions : y \in Elements(queued'[r])
        BY ZenonT(30) DEF AllQueued
      <4> QED
        BY <1>6, <4>1, <4>2, AllQueuedIs, Zenon
    <3>4. ASSUME NEW k PROVE k \in Due' <=> k \in Due
      BY <1>8, <1>9, <2>2, <3>1, <3>2, <3>3, DueIs, ZenonT(30)
    <3> QED
      BY <3>4, Zenon
  <2> QED
    BY <2>1, <2>2, ZenonT(30)
<1> HIDE DEF p
<1>21. Order!Start(p)
  BY <1>3, <1>10, <1>12, <1>13, <1>14, <1>15, <1>17, <1>18, <1>19, <1>20, Zenon DEF Order!Start
<1> QED
  BY <1>10, <1>21, Zenon

\* finish_one ends the packet of its worker and no other.
LEMMA FinishView ==
  ASSUME Points, NEW w \in Workers, FinishOne(w)
  PROVE  \E p \in Running : Order!Finish(p)
<1> USE DEF Points
<1>2. /\ wpc[w] = "handling" /\ wkey' = [wkey EXCEPT ![w] = NoKey] /\ wpkt' = [wpkt EXCEPT ![w] = NoPacket]
      /\ UNCHANGED <<phase, cutoff, queued, deferred, pauseGen, submitted>>
  BY Zenon DEF FinishOne, envVars
<1>3. PICK woken \in SUBSET Waiting :
        wpc' = [v \in Workers |-> IF v = w \/ v \in woken THEN "next" ELSE wpc[v]]
  BY ZenonT(30) DEF FinishOne
<1>4. Handling' = Handling \ {w} /\ w \in Handling
  BY <1>2, <1>3, Zenon DEF Handling, Waiting
<1>5. \A v \in Handling : v # w => wkey'[v] = wkey[v] /\ wpkt'[v] = wpkt[v]
  BY <1>2, Zenon DEF ActorTypeOK, Handling
<1>6. PICK p : p = Named(wkey[w], wpkt[w])
  OBVIOUS
<1>7. p \in Running /\ p.id = wpkt[w].id
  BY <1>4, <1>6, NamedFacts, ZenonT(30) DEF Running
<1>8. \A v \in Handling : v # w => wpkt[v].id # p.id /\ Named(wkey[v], wpkt[v]) # p
  BY <1>4, <1>7, NamedFacts DEF PlacesAt
<1>9. Running' = Running \ {p}
  <2>1. Running' = {Named(wkey'[v], wpkt'[v]) : v \in Handling'}
    BY Zenon DEF Running, Named
  <2> QED
    BY <1>4, <1>5, <1>6, <1>8, <2>1, Zenon DEF Running
<1>10. Pending' = Pending /\ Ahead' = Ahead /\ Held' = Held /\ Holding' = Holding /\ Stage' = Stage
  BY <1>2 DEF Pending, Ahead, Held, Holding, Stage, AllQueued, Named
<1>11. Due' = Due \ {p.id}
  <2>1. CASE phase # "draining"
    BY <1>2, <2>1, Zenon DEF Due
  <2>2. CASE phase = "draining"
    <3>1. ASSUME NEW k
          PROVE  k \in Due' <=> \/ \E x \in AllQueued : x.seq < cutoff /\ x.id = k
                                \/ \E v \in Handling' : wpkt'[v].id = k
      BY <1>2, <2>2, Zenon DEF Due, AllQueued
    <3>2. p.id \notin IdsIn(AllQueued)
      BY <1>4, <1>7, UniquePackets, Zenon
    <3>3. \A x \in AllQueued : x.id # p.id
      BY <3>2, Zenon DEF IdsIn
    <3>4. ASSUME NEW k PROVE k \in Due' <=> k \in Due /\ k # p.id
      BY <1>4, <1>5, <1>7, <1>8, <2>2, <3>1, <3>3, DueIs, SMTT(30)
    <3> QED
      BY <3>4, Zenon
  <2> QED
    BY <2>1, <2>2, Zenon
<1>12. Order!Finish(p)
  BY <1>2, <1>7, <1>9, <1>10, <1>11, Zenon DEF Order!Finish
<1> QED
  BY <1>7, <1>12, Zenon

\* stop drops every packet that has not started.
LEMMA StopView ==
  ASSUME Points, Stop
  PROVE  Order!Halt
<1>1. /\ queued' = [s \in Sessions |-> <<>>] /\ deferred' = [s \in Sessions |-> <<>>]
      /\ pauseGen' = [s \in Sessions |-> 0] /\ phase' = "stopped"
      /\ UNCHANGED <<submitted, wkey, wpkt>>
  BY Zenon DEF Stop, envVars
<1>2. Handling' = Handling
  BY WakesAll, ZenonT(30) DEF Stop, Points
<1>3. \A s \in Sessions : Elements(queued'[s]) = {} /\ Elements(deferred'[s]) = {} /\ pauseGen'[s] = 0
  BY <1>1, EmptyLine, Zenon
<1>4. AllQueued' = {} /\ Pending' = {} /\ Held' = {} /\ Holding' = {}
  BY <1>3, Zenon DEF AllQueued, Pending, Held, Holding
<1>5. Ahead' = {}
  BY <1>4, Zenon DEF Ahead
<1>6. Running' = Running
  BY <1>1, <1>2, Zenon DEF Running, Named
<1>7. Stage' = "halted" /\ Due' = {}
  BY <1>1, ZenonT(30) DEF Stage, Due
<1> QED
  BY <1>1, <1>4, <1>5, <1>6, <1>7, Zenon DEF Order!Halt

\* The steps of the game loop leave the packets where they are.
LEMMA LoopKeeps ==
  ASSUME Points, GameLoop
  PROVE  /\ SameHandlers /\ UNCHANGED <<queued, deferred, pauseGen, submitted>>
         /\ Pending' = Pending /\ Ahead' = Ahead /\ Held' = Held /\ Holding' = Holding /\ Running' = Running
<1>1. wpc' \in [Workers -> {"next", "waiting", "handling", "exited"}] /\ Handling' = Handling
  <2>1. CASE OpenAfterTick
    BY <2>1, WakesAll DEF OpenAfterTick, Points
  <2>2. CASE BeginTickDrain
    BY <2>2, WakesAll DEF BeginTickDrain, Points
  <2>3. CASE ProgressBaseline \/ CheckProgress \/ WakeProgress \/ CheckDrain \/ WakeIdle \/ FinishTickDrain
    BY <2>3 DEF ProgressBaseline, CheckProgress, WakeProgress, CheckDrain, WakeIdle,
       FinishTickDrain, workerVars, Handling, Points, ActorTypeOK
  <2> QED
    BY <2>1, <2>2, <2>3 DEF GameLoop
<1>2. SameHandlers /\ UNCHANGED <<queued, deferred, pauseGen, submitted>>
  BY <1>1, Zenon DEF GameLoop, OpenAfterTick, BeginTickDrain, ProgressBaseline, CheckProgress,
     WakeProgress,
     CheckDrain, WakeIdle, FinishTickDrain, workerVars, SameHandlers, laneVars, envVars
<1> QED
  BY <1>2 DEF SameHandlers, Pending, Ahead, Held, Holding, Running, AllQueued, Named

\* begin_tick_drain makes due all that is queued or runs, finish_tick_drain finds none
\* of it left, and open lets packets start again.
LEMMA LoopView ==
  ASSUME Points, GameLoop
  PROVE  Order!Boundary \/ Order!Tick \/ Order!Open \/ UNCHANGED Order!vars
<1>1. /\ SameHandlers /\ UNCHANGED <<queued, deferred, pauseGen, submitted>>
      /\ Pending' = Pending /\ Ahead' = Ahead /\ Held' = Held /\ Holding' = Holding /\ Running' = Running
  BY LoopKeeps, Zenon
<1> USE DEF Points
<1>3. CASE OpenAfterTick
  <2>1. phase = "closed" /\ phase' = "open"
    BY <1>3, Zenon DEF OpenAfterTick, GameStep, PhaseAt
  <2>2. Stage = "ticking" /\ Stage' = "open" /\ Due = {} /\ Due' = {}
    BY <2>1, Zenon DEF Stage, Due
  <2> QED
    BY <1>1, <2>2, Zenon DEF Order!Open
<1>4. CASE BeginTickDrain
  <2>1. phase = "open" /\ phase' = "draining" /\ cutoff' = nextSequence
    BY <1>4, Zenon DEF BeginTickDrain, GameStep, PhaseAt, QueueTypeOK
  <2>2. Stage = "open" /\ Stage' = "draining"
    BY <2>1, Zenon DEF Stage
  <2>3. AllQueued' = AllQueued /\ Handling' = Handling /\ wpkt' = wpkt
    BY <1>1, Zenon DEF AllQueued, SameHandlers
  <2>4. ASSUME NEW k PROVE k \in Due' <=> k \in IdsIn(AllQueued) \/ \E w \in Handling : wpkt[w].id = k
    <3>1. \A x \in AllQueued : x.seq < nextSequence
      BY UniquePackets, Zenon
    <3>2. k \in Due' <=> \/ \E x \in AllQueued : x.seq < nextSequence /\ x.id = k
                         \/ \E w \in Handling : wpkt[w].id = k
      BY <2>1, <2>3, Zenon DEF Due
    <3> QED
      BY <3>1, <3>2, ZenonT(30) DEF IdsIn
  <2>5. ASSUME NEW k
        PROVE  k \in Order!IdsOf(Pending \cup Running) <=>
                 k \in Order!IdsOf(Pending) \/ \E w \in Handling : wpkt[w].id = k
    BY NamedFacts DEF Order!IdsOf, Running
  <2>6. Due' = Order!IdsOf(Pending \cup Running)
    <3>1. \A k : k \in Due' <=> k \in Order!IdsOf(Pending \cup Running)
      BY <2>4, <2>5, PendingIds, ZenonT(30)
    <3>2. Due' = {k \in Due' : TRUE} /\ Order!IdsOf(Pending \cup Running) = {p.id : p \in Pending \cup Running}
      BY Zenon DEF Order!IdsOf
    <3> QED
      BY <3>1, <3>2, Zenon
  <2> QED
    BY <1>1, <2>2, <2>6, Zenon DEF Order!Boundary
<1>5. CASE FinishTickDrain
  <2>1. phase = "draining" /\ phase' = "closed" /\ active = 0 /\ game = "drained"
    BY <1>5, Zenon DEF FinishTickDrain, GameStep, PhaseAt
  <2>2. Handling = {}
    BY <2>1, IdleHandlers, Zenon
  <2>3. \A x \in AllQueued : ~(x.seq < cutoff)
    <3>1. \A x \in AllQueued : x.seq >= cutoff
      BY <2>1, Zenon DEF PhaseAt, AllQueued
    <3>2. \A x \in AllQueued : x.seq \in Nat
      BY UniquePackets, Zenon DEF Packets
    <3> QED
      BY <3>1, <3>2 DEF QueueTypeOK
  <2>4. Due = {} /\ Due' = {} /\ Running = {}
    BY <2>1, <2>2, <2>3, Zenon DEF Due, Running
  <2>5. Stage = "draining" /\ Stage' = "ticking"
    BY <2>1, Zenon DEF Stage
  <2> QED
    BY <1>1, <2>4, <2>5, Zenon DEF Order!Tick
<1>6. CASE ProgressBaseline \/ CheckProgress \/ WakeProgress \/ CheckDrain \/ WakeIdle
  <2>1. UNCHANGED <<phase, cutoff>>
    BY <1>6, Zenon DEF ProgressBaseline, CheckProgress, WakeProgress, CheckDrain, WakeIdle
  <2> QED
    BY <1>1, <2>1, SameView, Zenon
<1> QED
  BY <1>3, <1>4, <1>5, <1>6, Zenon DEF GameLoop

\* The end of a pause releases or drops the packets of the session, or finds the pause
\* over.
LEMMA TransitionView ==
  ASSUME Points, NEW t \in transitions, FinishTransition(t)
  PROVE  (\E s \in Sessions : Order!Release(s) \/ Order!Drop(s)) \/ UNCHANGED Order!vars
<1>1. t[1] \in Sessions /\ t[2] # 0 /\ OnlyLanes
  BY Zenon DEF Points, ActorTypeOK, FinishTransition, OnlyLanes, countVars, gameVars
<1>2. CASE phase # "stopped" /\ t[1] \in lanes /\ pauseGen[t[1]] = t[2] /\ ResumeLane(t[1])
  BY <1>1, <1>2, ResumeView, Zenon
<1>3. CASE ResumeFails(t[1], t[2])
  <2>1. UNCHANGED laneVars /\ wpc' = wpc
    BY <1>3, Zenon DEF ResumeFails
  <2>2. SameHandlers
    BY <1>1, <2>1, Zenon DEF OnlyLanes, SameHandlers, Points, ActorTypeOK, Handling
  <2> QED
    BY <1>1, <2>1, <2>2, SameView, ZenonT(30) DEF OnlyLanes, laneVars
<1>4. CASE DiscardLane(t[1])
  BY <1>1, <1>4, DiscardView, ZenonT(30)
<1> QED
  BY <1>2, <1>3, <1>4, ZenonT(30) DEF FinishTransition

\* The new queue is an empty line during a tick.
LEMMA InitView == Init => Order!Init
<1> SUFFICES ASSUME Init PROVE Order!Init
  OBVIOUS
<1>1. \A s \in Sessions : queued[s] = <<>> /\ deferred[s] = <<>> /\ pauseGen[s] = 0
  BY Zenon DEF Init
<1>2. \A s \in Sessions : Elements(queued[s]) = {} /\ Elements(deferred[s]) = {}
  BY <1>1, EmptyLine, ZenonT(30)
<1>3. AllQueued = {} /\ Pending = {} /\ Held = {} /\ Holding = {}
  BY <1>1, <1>2, ZenonT(30) DEF AllQueued, Pending, Held, Holding
<1>4. Ahead = {}
  BY <1>3, Zenon DEF Ahead
<1>5. Running = {}
  BY ZenonT(30) DEF Running, Handling, Init
<1>6. Stage = "ticking" /\ Due = {} /\ submitted = 0
  BY ZenonT(30) DEF Stage, Due, Init
<1> QED
  BY <1>3, <1>4, <1>5, <1>6, ZenonT(30) DEF Order!Init

\* Every step of the queue is a step of the line or changes nothing of it.
LEMMA NextView ==
  ASSUME Points, [Next]_vars
  PROVE  [Order!Next]_(Order!vars)
<1>1. ASSUME NEW s \in Sessions, NEW e \in Execution, Submit(s, e) PROVE Order!Next
  <2>1. SubmitDeferred(s, e) \/ SubmitQueued(s, e)
    BY <1>1, Zenon DEF Submit
  <2>2. Order!Submit(s, e)
    BY <1>1, <2>1, SubmitDeferredView, SubmitQueuedView, Zenon
  <2>3. e \in Order!Execution
    BY Zenon DEF Execution, Order!Execution
  <2> QED
    BY <2>2, <2>3, Zenon DEF Order!Next
<1>2. ASSUME NEW s \in Sessions, Reject(s) PROVE UNCHANGED Order!vars
  <2>1. SameHandlers
    BY <1>2, Zenon DEF Reject, SameHandlers, workerVars, Points, ActorTypeOK, Handling
  <2> QED
    BY <1>2, <2>1, SameView, Zenon DEF Reject, laneVars
<1>3. ASSUME NEW s \in Sessions, PauseLane(s) PROVE Order!Next
  BY <1>3, PauseView, Zenon DEF Order!Next
<1>4. ASSUME NEW s \in Sessions, Discard(s) PROVE Order!Next
  <2>1. DiscardLane(s) /\ OnlyLanes
    BY <1>4, Zenon DEF Discard, OnlyLanes, countVars, gameVars, envVars
  <2> QED
    BY <2>1, DiscardView, Zenon DEF Order!Next
<1>5. ASSUME NEW t \in transitions, FinishTransition(t) PROVE Order!Next \/ UNCHANGED Order!vars
  BY <1>5, TransitionView, ZenonT(30) DEF Order!Next
<1>6. ASSUME NEW w \in Workers, WorkerStep(w) PROVE Order!Next \/ UNCHANGED Order!vars
  <2>1. CASE Start(w)
    BY <2>1, StartView, Zenon DEF Order!Next
  <2>2. CASE FinishOne(w)
    BY <2>2, FinishView, ZenonT(30) DEF Order!Next
  <2>3. CASE Park(w) \/ Exit(w)
    <3>1. SameHandlers
      BY <2>3, Zenon DEF Park, Exit, SameHandlers, Points, ActorTypeOK, Handling
    <3> QED
      BY <2>3, <3>1, SameView, Zenon DEF Park, Exit, laneVars, envVars
  <2> QED
    BY <1>6, <2>1, <2>2, <2>3, ZenonT(30) DEF WorkerStep
<1>7. CASE GameLoop
  BY <1>7, LoopView, ZenonT(30) DEF Order!Next
<1>8. CASE Stop
  BY <1>8, StopView, Zenon DEF Order!Next
<1>9. CASE UNCHANGED vars
  <2>1. SameHandlers
    BY <1>9, ZenonT(30) DEF vars, SameHandlers, workerVars, Points, ActorTypeOK, Handling
  <2> QED
    BY <1>9, <2>1, SameView, Zenon DEF vars, laneVars, envVars
<1> QED
  BY <1>1, <1>2, <1>3, <1>4, <1>5, <1>6, <1>7, <1>8, <1>9, Zenon DEF Next

\* Only the end of a transition takes one away, and a transition whose pause is over
\* resumes nothing.
LEMMA NextOwnPause ==
  ASSUME Points, [Next]_vars
  PROVE  OwnPause
<1>1. ASSUME NEW t \in transitions, FinishTransition(t) PROVE OwnPause
  <2>1. SUFFICES ASSUME pauseGen[t[1]] # t[2]
                 PROVE  queued'[t[1]] \in {queued[t[1]], <<>>}
    BY <1>1, Zenon DEF FinishTransition, OwnPause
  <2>2. t[1] \in Sessions /\ t \in Sessions \X (Nat \ {0})
    BY <1>1 DEF Points, ActorTypeOK
  <2>3. CASE ResumeFails(t[1], t[2])
    BY <2>3, Zenon DEF ResumeFails, laneVars
  <2>4. CASE DiscardLane(t[1])
    <3>1. DOMAIN queued = Sessions
      BY DEF Points, LaneTypeOK
    <3> QED
      BY <2>2, <2>4, <3>1, Zenon DEF DiscardLane
  <2> QED
    BY <1>1, <2>1, <2>3, <2>4, Zenon DEF FinishTransition
<1>2. CASE transitions \subseteq transitions'
  BY <1>2, Zenon DEF OwnPause
<1>3. ASSUME NEW s \in Sessions, NEW e \in Execution, Submit(s, e)
      PROVE  transitions \subseteq transitions'
  BY <1>3, Zenon DEF Submit, SubmitDeferred, SubmitQueued, envVars
<1>4. ASSUME NEW s \in Sessions, Reject(s) \/ PauseLane(s) \/ Discard(s)
      PROVE  transitions \subseteq transitions'
  BY <1>4, Zenon DEF Reject, PauseLane, Discard, envVars
<1>5. ASSUME NEW w \in Workers, WorkerStep(w) PROVE transitions \subseteq transitions'
  BY <1>5, Zenon DEF WorkerStep, Start, Park, Exit, FinishOne, envVars
<1>6. CASE GameLoop \/ Stop
  BY <1>6, <1>2, ZenonT(30) DEF GameLoop, OpenAfterTick, ProgressBaseline, CheckProgress, WakeProgress,
     BeginTickDrain, CheckDrain, WakeIdle, FinishTickDrain, Stop, envVars
<1>7. CASE UNCHANGED vars
  BY <1>7, <1>2, Zenon DEF vars, envVars
<1> QED
  BY <1>1, <1>2, <1>3, <1>4, <1>5, <1>6, <1>7, Zenon DEF Next

\* The queue implements the order of packets that its comments promise, and a job ends
\* only its own pause, for any number of sessions, workers and packets.
THEOREM Implementation == Spec => Implements
<1>1. Init => Order!Init
  BY InitView, Zenon
<1>2. IInv /\ [Next]_vars => [Order!Next]_(Order!vars)
  BY NextView, InvIsPoints, Zenon
<1>3. IInv /\ [Next]_vars => [OwnPause]_vars
  BY NextOwnPause, InvIsPoints, Zenon
<1> QED
  BY <1>1, <1>2, <1>3, Invariance, PTL DEF Spec, Implements, Order!Spec
=============================================================================
