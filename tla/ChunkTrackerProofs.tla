------------------------- MODULE ChunkTrackerProofs -------------------------
(***************************************************************************)
(* Proofs about ChunkTracker, for every metric space of positions, every   *)
(* set of sources and every MaxLevel: the incremental propagation leaves   *)
(* exactly the levels of a propagation from nothing, and reports exactly    *)
(* the positions it changed.                                               *)
(***************************************************************************)
EXTENDS ChunkTracker, TLAPS, WellFoundedInduction

\* A set of natural numbers has a least element.
LEMMA NatMin ==
    ASSUME NEW S, S \subseteq Nat, S # {}
    PROVE  \E m \in S : \A y \in S : m <= y
<1>1. PICK m \in S : \A y \in S : ~(<<y, m>> \in OpToRel(<, Nat))
  BY WFMin, NatLessThanWellFounded, Zenon
<1>2. \A y \in S : ~(y < m)
  BY <1>1, Zenon DEF OpToRel
<1> QED
  BY <1>2

LEMMA MinIs ==
    ASSUME NEW S, S \subseteq Nat, NEW m \in S, \A y \in S : m <= y
    PROVE  Min(S) = m
<1>1. \A x \in S : (\A y \in S : x <= y) => x = m
  OBVIOUS
<1> QED
  BY <1>1, Zenon DEF Min

\* m is the least of the level s of the source, the neighbours' levels plus one, and
\* Absent: the meaning of compute_level.
Justified(m, s, lv, p) ==
    /\ m <= Absent /\ m <= s /\ \A q \in Neighbors[p] : m <= lv[q] + 1
    /\ m = Absent \/ m = s \/ \E q \in Neighbors[p] : m = lv[q] + 1

LEMMA LevelFacts ==
    /\ Absent \in Nat /\ Absent = MaxLevel + 1 /\ Levels = 0 .. Absent
    /\ NoLevel \notin Levels /\ Absent \in Levels
    /\ SourceLevels \subseteq Levels /\ Sources \subseteq Positions
BY LevelAssumption DEF Absent, Levels, NoLevel

LEMMA NeighborFacts ==
    ASSUME NEW p \in Positions
    PROVE  /\ Neighbors[p] \subseteq Positions /\ p \notin Neighbors[p]
           /\ \A q \in Positions : q \in Neighbors[p] <=> p \in Neighbors[q]
           /\ \A q \in Positions : q \in Neighbors[p] <=> Distance[p][q] = 1
<1>1. \A q \in Positions : q \in Neighbors[p] <=> Distance[p][q] = 1
  BY Zenon DEF Neighbors
<1>2. \A q \in Positions : p \in Neighbors[q] <=> Distance[q][p] = 1
  BY Zenon DEF Neighbors
<1>3. Distance[p][p] = 0 /\ \A q \in Positions : Distance[p][q] = Distance[q][p]
  BY DistanceAssumption, Zenon
<1>4. Neighbors[p] \subseteq Positions
  BY Zenon DEF Neighbors
<1> QED
  BY <1>1, <1>2, <1>3, <1>4

LEMMA JustifiedMin ==
    ASSUME NEW p \in Positions, NEW lv \in [Positions -> Levels], NEW s \in Levels, NEW m
    PROVE  m = Min({Absent, s} \cup {lv[q] + 1 : q \in Neighbors[p]})
           <=> m \in Levels /\ Justified(m, s, lv, p)
<1> DEFINE S == {Absent, s} \cup {lv[q] + 1 : q \in Neighbors[p]}
<1>1. S \subseteq Nat /\ Absent \in S
  BY LevelFacts, NeighborFacts
<1>2. PICK k \in S : \A y \in S : k <= y
  BY <1>1, NatMin, Zenon
<1>3. Min(S) = k
  BY <1>1, <1>2, MinIs, Zenon
<1>4. k \in Levels /\ Justified(k, s, lv, p)
  BY <1>1, <1>2, LevelFacts, NeighborFacts DEF Justified
<1>5. ASSUME m \in Levels, Justified(m, s, lv, p)
      PROVE  m = k
  <2>1. m \in S
    BY <1>5, Zenon DEF Justified
  <2>2. m <= k
    BY <1>5, <1>2, Zenon DEF Justified
  <2>3. k <= m /\ k \in Nat /\ m \in Nat
    BY <2>1, <1>1, <1>2, Zenon
  <2> QED
    BY <2>2, <2>3
<1> QED
  BY <1>3, <1>4, <1>5, Zenon

LEMMA ComputeLevelIs ==
    ASSUME NEW p \in Positions, NEW lv \in [Positions -> Levels], source \in [Positions -> Levels],
           NEW from \in {Absent, source[p]}
    PROVE  ComputeLevel(p, lv, from) \in Levels
           /\ Justified(ComputeLevel(p, lv, from), source[p], lv, p)
<1>1. {Absent, from, source[p]} \cup {lv[q] + 1 : q \in Neighbors[p]}
      = {Absent, source[p]} \cup {lv[q] + 1 : q \in Neighbors[p]}
  OBVIOUS
<1>2. source[p] \in Levels
  OBVIOUS
<1> QED
  BY <1>1, <1>2, JustifiedMin, Zenon DEF ComputeLevel

-----------------------------------------------------------------------------
(* Type correctness.                                                       *)

LEMMA ReplacedType ==
    ASSUME NEW lv \in [Positions -> Levels], NEW pd \in [Positions -> Levels \cup {NoLevel}],
           NEW Dom \in SUBSET Positions, NEW new \in [Dom -> Levels]
    PROVE  Replaced(lv, pd, new) \in [Positions -> Levels \cup {NoLevel}]
BY Zenon DEF Replaced

LEMMA LeastType ==
    ASSUME NEW a \in Levels, NEW b \in Levels
    PROVE  Least(a, b) \in Levels /\ Least(a, b) <= a /\ Least(a, b) <= b
BY LevelFacts DEF Least

LEMMA EnqueuedType ==
    ASSUME NEW lv \in [Positions -> Levels], NEW qu \in SUBSET Entries,
           NEW Dom \in SUBSET Positions, NEW new \in [Dom -> Levels]
    PROVE  Enqueued(lv, qu, new) \subseteq Entries
<1>1. \A p \in Dom : Least(lv[p], new[p]) \in Levels
  BY LeastType, Zenon
<1> QED
  BY <1>1 DEF Enqueued, Entries

LEMMA ComputedType ==
    ASSUME TypeOK, NEW p \in Positions
    PROVE  Computed(p) \in Levels
BY Zenon DEF TypeOK, Computed

LEMMA EntryPosition ==
    ASSUME TypeOK, NEW e \in queue
    PROVE  e[2] \in Positions /\ e[1] \in Levels /\ e = <<e[1], e[2]>>
BY DEF TypeOK, Entries

LEMMA LowerNewType ==
    ASSUME TypeOK, NEW p \in Positions, pending[p] \in Levels
    PROVE  LowerNew(p) \in [(IF pending[p] >= MaxLevel THEN {} ELSE Neighbors[p]) -> Levels]
<1>1. Least(pending[p] + 1, Absent) \in Levels
  BY LevelFacts DEF Least
<1>2. \A q \in Neighbors[p] : Least(Computed(q), Least(pending[p] + 1, Absent)) \in Levels
  BY <1>1, ComputedType, LeastType, NeighborFacts, Zenon
<1> QED
  BY <1>2, Zenon DEF LowerNew

LEMMA RaiseNewType ==
    ASSUME TypeOK, NEW p \in Positions
    PROVE  /\ RaiseNew(p) \in
                [{x \in Neighbors[p] : Computed(x) = Least(level[p] + 1, Absent)} -> Levels]
           /\ \A q \in Neighbors[p] : Computed(q) = Least(level[p] + 1, Absent) =>
                Justified(RaiseNew(p)[q], source[q], [level EXCEPT ![p] = Absent], q)
<1> DEFINE lv == [level EXCEPT ![p] = Absent]
<1>1. lv \in [Positions -> Levels] /\ source \in [Positions -> Levels]
  BY LevelFacts, Zenon DEF TypeOK
<1>2. \A q \in Neighbors[p] : /\ ComputeLevel(q, lv, Absent) \in Levels
                               /\ Justified(ComputeLevel(q, lv, Absent), source[q], lv, q)
  BY <1>1, ComputeLevelIs, NeighborFacts, Zenon
<1> QED
  BY <1>2, Zenon DEF RaiseNew

LEMMA CheckNewType ==
    ASSUME TypeOK, NEW p \in Positions
    PROVE  /\ CheckNew(p) \in [{p} -> Levels]
           /\ ~(source[p] < toCheck[p]) => Justified(CheckNew(p)[p], source[p], level, p)
<1>1. level \in [Positions -> Levels] /\ source \in [Positions -> Levels]
  BY Zenon DEF TypeOK
<1>2. /\ ComputeLevel(p, level, source[p]) \in Levels
      /\ Justified(ComputeLevel(p, level, source[p]), source[p], level, p)
  BY <1>1, ComputeLevelIs, Zenon
<1>3. Least(Computed(p), source[p]) \in Levels
  BY <1>1, ComputedType, LeastType, Zenon
<1> QED
  BY <1>2, <1>3, Zenon DEF CheckNew

-----------------------------------------------------------------------------
(* The inductive invariant.                                                *)

\* The markers of a run are clear outside of it, and no source changes inside.
Resting ==
    /\ phase = "idle" => toCheck = Nowhere /\ original = Nowhere
    /\ phase = "running" => pendingSource = Nowhere

\* original_levels remembers the level a position had before the run.
RecordsMatch ==
    phase = "running" =>
        \A p \in Positions : before[p] = IF original[p] = NoLevel THEN level[p] ELSE original[p]

JustifiedAll ==
    \A p \in Positions : Justified(Computed(p), SeenSource(p), level, p)

IInv == TypeOK /\ QueueCovers /\ Resting /\ RecordsMatch /\ JustifiedAll

LEMMA NowhereType == Nowhere \in [Positions -> Levels \cup {NoLevel}]
BY Zenon DEF Nowhere

LEMMA SeenType ==
    ASSUME TypeOK, NEW p \in Positions
    PROVE  SeenSource(p) \in Levels
BY Zenon DEF TypeOK, SeenSource, UsedSource

\* PendingJustified says the same with Min.
LEMMA JustifiedIsPending ==
    ASSUME TypeOK
    PROVE  JustifiedAll <=> PendingJustified
<1>1. level \in [Positions -> Levels]
  BY Zenon DEF TypeOK
<1>2. ASSUME NEW p \in Positions
      PROVE  Justified(Computed(p), SeenSource(p), level, p)
             <=> Computed(p) = Min({Absent, SeenSource(p)} \cup {level[q] + 1 : q \in Neighbors[p]})
  BY <1>1, JustifiedMin, ComputedType, SeenType, Zenon
<1> QED
  BY <1>2, Zenon DEF JustifiedAll, PendingJustified

\* Initially nothing has a level.
LEMMA InitIInv == Init => IInv
<1> SUFFICES ASSUME Init PROVE IInv
  OBVIOUS
<1>1. TypeOK
  BY NowhereType, LevelFacts, Zenon DEF Init, TypeOK
<1>2. QueueCovers /\ Resting /\ RecordsMatch
  BY Zenon DEF Init, QueueCovers, Resting, RecordsMatch, Nowhere, NoLevel
<1>3. JustifiedAll
  <2> SUFFICES ASSUME NEW p \in Positions
               PROVE  Justified(Computed(p), SeenSource(p), level, p)
    BY Zenon DEF JustifiedAll
  <2>1. Computed(p) = Absent /\ SeenSource(p) = Absent
    BY Zenon DEF Init, Nowhere, Computed, SeenSource, UsedSource
  <2>2. \A q \in Neighbors[p] : level[q] = Absent
    BY NeighborFacts, Zenon DEF Init
  <2> QED
    BY <2>1, <2>2, LevelFacts DEF Justified
<1> QED
  BY <1>1, <1>2, <1>3, Zenon DEF IInv

LEMMA ApplySourceUpdateStep ==
    ASSUME IInv, NEW x \in Sources, NEW l \in SourceLevels \cup {Absent}, ApplySourceUpdate(x, l)
    PROVE  IInv'
<1> USE DEF IInv, ApplySourceUpdate
<1>1. x \in Positions /\ l \in Levels
  BY LevelFacts, Zenon
<1>2. TypeOK'
  BY <1>1, Zenon DEF TypeOK
<1>3. QueueCovers' /\ Resting' /\ RecordsMatch'
  BY Zenon DEF QueueCovers, Resting, RecordsMatch
<1>4. ASSUME NEW p \in Positions
      PROVE  SeenSource(p)' = SeenSource(p) /\ Computed(p)' = Computed(p)
  BY <1>1, LevelFacts DEF SeenSource, UsedSource, Computed, TypeOK
<1>5. JustifiedAll'
  BY <1>4, Zenon DEF JustifiedAll, Justified
<1> QED
  BY <1>2, <1>3, <1>5, Zenon

LEMMA RunNothingStep ==
    ASSUME IInv, RunNothing
    PROVE  IInv'
<1> USE DEF IInv, RunNothing
<1>1. TypeOK' /\ QueueCovers' /\ Resting' /\ RecordsMatch'
  BY Zenon DEF TypeOK, QueueCovers, Resting, RecordsMatch
<1>2. JustifiedAll'
  BY Zenon DEF JustifiedAll, Justified, SeenSource, UsedSource, Computed
<1> QED
  BY <1>1, <1>2, Zenon

LEMMA StartRunStep ==
    ASSUME IInv, StartRun
    PROVE  IInv'
<1> USE DEF IInv, StartRun
<1>1. TypeOK'
  BY NowhereType, Zenon DEF TypeOK
<1>2. QueueCovers' /\ Resting'
  BY Zenon DEF QueueCovers, Resting
<1>3. RecordsMatch'
  BY Zenon DEF RecordsMatch, Resting, Nowhere
<1>4. ASSUME NEW p \in Positions
      PROVE  SeenSource(p)' = SeenSource(p) /\ Computed(p)' = Computed(p)
  BY Zenon DEF SeenSource, UsedSource, Computed
<1>5. JustifiedAll'
  BY <1>4, Zenon DEF JustifiedAll, Justified
<1> QED
  BY <1>1, <1>2, <1>3, <1>5, Zenon

LEMMA SkipStaleStep ==
    ASSUME IInv, NEW e \in queue, SkipStale(e)
    PROVE  IInv'
<1> USE DEF IInv, SkipStale
<1>1. TypeOK' /\ Resting' /\ RecordsMatch'
  BY Zenon DEF TypeOK, Resting, RecordsMatch
<1>2. QueueCovers'
  BY DEF QueueCovers, Current, Popping
<1>3. JustifiedAll'
  BY Zenon DEF JustifiedAll, Justified, SeenSource, UsedSource, Computed
<1> QED
  BY <1>1, <1>2, <1>3, Zenon

LEMMA FinishRunStep ==
    ASSUME IInv, FinishRun
    PROVE  IInv'
<1> USE DEF IInv, FinishRun
<1>1. TypeOK'
  BY NowhereType, Zenon DEF TypeOK
<1>2. pending = Nowhere
  BY Zenon DEF QueueCovers, TypeOK, Nowhere
<1>3. QueueCovers' /\ Resting' /\ RecordsMatch'
  BY <1>2, Zenon DEF QueueCovers, Resting, RecordsMatch
<1>4. ASSUME NEW p \in Positions
      PROVE  SeenSource(p)' = SeenSource(p) /\ Computed(p)' = Computed(p)
  BY Zenon DEF SeenSource, UsedSource, Computed, Resting, Nowhere
<1>5. JustifiedAll'
  BY <1>4, Zenon DEF JustifiedAll, Justified
<1> QED
  BY <1>1, <1>3, <1>5, Zenon

-----------------------------------------------------------------------------
(* The steps that correct levels.                                          *)

\* replace_pending_level keeps the queue complete.
LEMMA ReplacedCovers ==
    ASSUME NEW lv \in [Positions -> Levels], NEW pd \in [Positions -> Levels \cup {NoLevel}],
           NEW qu, NEW Dom \in SUBSET Positions, NEW new \in [Dom -> Levels],
           \A p \in Positions \ Dom : pd[p] # NoLevel =>
                pd[p] # lv[p] /\ <<Least(lv[p], pd[p]), p>> \in qu,
           NEW p \in Positions, Replaced(lv, pd, new)[p] # NoLevel
    PROVE  /\ Replaced(lv, pd, new)[p] # lv[p]
           /\ <<Least(lv[p], Replaced(lv, pd, new)[p]), p>> \in Enqueued(lv, qu, new)
<1>1. CASE p \in Dom
  <2>1. new[p] # lv[p] /\ Replaced(lv, pd, new)[p] = new[p]
    BY <1>1, Zenon DEF Replaced
  <2>2. <<Least(lv[p], new[p]), p>> \in Enqueued(lv, qu, new)
    BY <1>1, <2>1, Zenon DEF Enqueued
  <2> QED
    BY <2>1, <2>2, Zenon
<1>2. CASE p \notin Dom
  <2>1. Replaced(lv, pd, new)[p] = pd[p]
    BY <1>2, Zenon DEF Replaced
  <2> QED
    BY <1>2, <2>1, Zenon DEF Enqueued
<1> QED
  BY <1>1, <1>2, Zenon

\* The level a position is about to get after replace_pending_level.
LEMMA ReplacedComputed ==
    ASSUME NEW lv \in [Positions -> Levels], NEW pd \in [Positions -> Levels \cup {NoLevel}],
           NEW Dom \in SUBSET Positions, NEW new \in [Dom -> Levels], NEW p \in Positions,
           level' = lv, pending' = Replaced(lv, pd, new)
    PROVE  Computed(p)' = IF p \in Dom THEN new[p] ELSE IF pd[p] = NoLevel THEN lv[p] ELSE pd[p]
BY LevelFacts, ZenonT(30) DEF Computed, Replaced

LEMMA CheckSourceStep ==
    ASSUME IInv, NEW x \in Positions, CheckSource(x)
    PROVE  IInv'
<1> USE DEF IInv, CheckSource
<1>0. /\ level \in [Positions -> Levels] /\ pending \in [Positions -> Levels \cup {NoLevel}]
      /\ source \in [Positions -> Levels] /\ queue \in SUBSET Entries
      /\ toCheck[x] \in Levels
  BY Zenon DEF TypeOK
<1>1. CheckNew(x) \in [{x} -> Levels]
  BY CheckNewType, Zenon
<1>2. pending' \in [Positions -> Levels \cup {NoLevel}]
  BY <1>0, <1>1, ReplacedType
<1>3. queue' \subseteq Entries
  BY <1>0, <1>1, EnqueuedType, Zenon
<1>4. TypeOK'
  BY <1>2, <1>3, Zenon DEF TypeOK
<1>5. QueueCovers'
  <2>1. \A p \in Positions \ {x} : pending[p] # NoLevel =>
            pending[p] # level[p] /\ <<Least(level[p], pending[p]), p>> \in queue
    BY Zenon DEF QueueCovers
  <2>2. ASSUME NEW p \in Positions, Replaced(level, pending, CheckNew(x))[p] # NoLevel
        PROVE  /\ Replaced(level, pending, CheckNew(x))[p] # level[p]
               /\ <<Least(level[p], Replaced(level, pending, CheckNew(x))[p]), p>>
                    \in Enqueued(level, queue, CheckNew(x))
    BY <1>0, <1>1, <2>1, <2>2, ReplacedCovers, ZenonT(30)
  <2> QED
    BY <2>2, Zenon DEF QueueCovers
<1>6. Resting' /\ RecordsMatch'
  BY Zenon DEF Resting, RecordsMatch
<1>7. ASSUME NEW p \in Positions
      PROVE  Justified(Computed(p), SeenSource(p), level, p)'
  <2>1. Computed(p)' = IF p = x THEN CheckNew(x)[x] ELSE Computed(p)
    BY <1>0, <1>1, ReplacedComputed DEF Computed
  <2>2. SeenSource(p)' = IF p = x THEN source[x] ELSE SeenSource(p)
    BY Zenon DEF SeenSource, UsedSource, TypeOK
  <2>3. Justified(Computed(p), SeenSource(p), level, p)
    BY Zenon DEF JustifiedAll
  <2>4. CASE p # x
    BY <2>1, <2>2, <2>3, <2>4, Zenon DEF Justified
  <2>5. CASE p = x /\ ~(source[x] < toCheck[x])
    BY <2>1, <2>2, <2>5, CheckNewType, ZenonT(30) DEF Justified
  <2>6. CASE p = x /\ source[x] < toCheck[x]
    <3>1. CheckNew(x)[x] = Least(Computed(x), source[x])
      BY <2>6, Zenon DEF CheckNew
    <3>2. SeenSource(x) = toCheck[x]
      BY <1>0, LevelFacts, Zenon DEF SeenSource
    <3>3. \A q \in Neighbors[x] : level[q] \in Levels
      BY <1>0, NeighborFacts, Zenon
    <3>4. Computed(x) \in Levels /\ source[x] \in Levels
      BY <1>0, ComputedType, Zenon
    <3>5. Justified(Least(Computed(x), source[x]), source[x], level, x)
      BY <2>3, <2>6, <3>2, <3>3, <3>4, <1>0, LevelFacts DEF Justified, Least
    <3> QED
      BY <2>1, <2>2, <2>6, <3>1, <3>5, Zenon DEF Justified
  <2> QED
    BY <2>4, <2>5, <2>6, Zenon
<1>8. JustifiedAll'
  BY <1>7, Zenon DEF JustifiedAll
<1> QED
  BY <1>4, <1>5, <1>6, <1>8, Zenon

LEMMA LowerLevelStep ==
    ASSUME IInv, NEW e \in queue, LowerLevel(e)
    PROVE  IInv'
<1> DEFINE x == e[2]
           lv == [level EXCEPT ![x] = pending[x]]
           pd == [pending EXCEPT ![x] = NoLevel]
           Dom == IF pending[x] >= MaxLevel THEN {} ELSE Neighbors[x]
<1>0. /\ TypeOK /\ QueueCovers /\ Resting /\ RecordsMatch /\ JustifiedAll
      /\ x \in Positions /\ phase = "running" /\ pending[x] \in Levels /\ pending[x] < level[x]
      /\ level' = lv /\ pending' = Replaced(lv, pd, LowerNew(x))
      /\ queue' = Enqueued(lv, queue \ {e}, LowerNew(x))
      /\ original' = [original EXCEPT ![x] = IF @ = NoLevel THEN level[x] ELSE @]
      /\ UNCHANGED <<source, pendingSource, changes, toCheck, phase, before>>
  BY EntryPosition, Zenon DEF IInv, LowerLevel, Popping, Current, Recorded, TypeOK
<1> HIDE DEF x
<1>1. /\ level \in [Positions -> Levels] /\ pending \in [Positions -> Levels \cup {NoLevel}]
      /\ lv \in [Positions -> Levels] /\ pd \in [Positions -> Levels \cup {NoLevel}]
      /\ queue \ {e} \in SUBSET Entries
  BY <1>0, Zenon DEF TypeOK
<1>2. LowerNew(x) \in [Dom -> Levels] /\ Dom \in SUBSET Positions
  BY <1>0, LowerNewType, NeighborFacts, Zenon
<1>3. TypeOK'
  <2>1. pending' \in [Positions -> Levels \cup {NoLevel}] /\ queue' \subseteq Entries
    BY <1>0, <1>1, <1>2, ReplacedType, EnqueuedType, Zenon
  <2> QED
    BY <1>0, <1>1, <2>1, Zenon DEF TypeOK
<1>4. QueueCovers'
  <2>1. \A p \in Positions \ Dom : pd[p] # NoLevel =>
            pd[p] # lv[p] /\ <<Least(lv[p], pd[p]), p>> \in queue \ {e}
    <3> SUFFICES ASSUME NEW p \in Positions, pd[p] # NoLevel
                 PROVE  pd[p] # lv[p] /\ <<Least(lv[p], pd[p]), p>> \in queue \ {e}
      OBVIOUS
    <3>1. p # x /\ pd[p] = pending[p] /\ lv[p] = level[p]
      BY <1>0, <1>1, Zenon
    <3>2. pending[p] # level[p] /\ <<Least(level[p], pending[p]), p>> \in queue
      BY <1>0, <3>1, Zenon DEF QueueCovers
    <3>3. <<Least(level[p], pending[p]), p>> # e
      BY <3>1 DEF x
    <3> QED
      BY <3>1, <3>2, <3>3, Zenon
  <2>2. ASSUME NEW p \in Positions, Replaced(lv, pd, LowerNew(x))[p] # NoLevel
        PROVE  /\ Replaced(lv, pd, LowerNew(x))[p] # lv[p]
               /\ <<Least(lv[p], Replaced(lv, pd, LowerNew(x))[p]), p>>
                    \in Enqueued(lv, queue \ {e}, LowerNew(x))
    <3> HIDE DEF lv, pd, Dom
    <3> QED
      BY <1>1, <1>2, <2>1, <2>2, ReplacedCovers, Zenon
  <2> HIDE DEF lv, pd, Dom
  <2> QED
    BY <1>0, <2>2, Zenon DEF QueueCovers
<1>5. Resting' /\ RecordsMatch'
  BY <1>0, LevelFacts DEF Resting, RecordsMatch, TypeOK
<1>6. ASSUME NEW p \in Positions
      PROVE  Justified(Computed(p), SeenSource(p), level, p)'
  <2>1. SeenSource(p)' = SeenSource(p)
    BY <1>0, Zenon DEF SeenSource, UsedSource
  <2>2. Computed(p)' = IF p \in Dom THEN LowerNew(x)[p]
                       ELSE IF p = x THEN pending[x] ELSE Computed(p)
    <3>1. Computed(p)' = IF p \in Dom THEN LowerNew(x)[p]
                         ELSE IF pd[p] = NoLevel THEN lv[p] ELSE pd[p]
      <4> HIDE DEF lv, pd, Dom
      <4> QED
        BY <1>0, <1>1, <1>2, ReplacedComputed
    <3>2. (IF pd[p] = NoLevel THEN lv[p] ELSE pd[p])
          = IF p = x THEN pending[x] ELSE Computed(p)
      BY <1>0, <1>1, LevelFacts, Zenon DEF Computed
    <3> QED
      BY <3>1, <3>2, Zenon
  <2>3. Justified(Computed(p), SeenSource(p), level, p)
    BY <1>0, Zenon DEF JustifiedAll
  <2>4. /\ Computed(p) \in Levels /\ SeenSource(p) \in Levels
        /\ Neighbors[p] \subseteq Positions /\ \A q \in Neighbors[p] : level[q] \in Levels
    BY <1>0, <1>1, ComputedType, SeenType, NeighborFacts, Zenon
  <2>5. \A q \in Neighbors[p] : lv[q] = IF q = x THEN pending[x] ELSE level[q]
    BY <1>1, <2>4, Zenon
  <2>6. CASE x \notin Neighbors[p]
    <3>1. p \notin Dom
      BY <2>6, <1>0, NeighborFacts, Zenon
    <3>2. Computed(p)' = Computed(p)
      BY <2>2, <3>1, <1>0, LevelFacts, Zenon DEF Computed
    <3>3. \A q \in Neighbors[p] : level'[q] = level[q]
      BY <2>5, <2>6, <1>0, Zenon
    <3> QED
      BY <2>1, <2>3, <3>2, <3>3, Zenon DEF Justified
  <2>7. CASE x \in Neighbors[p]
    <3>1. p # x /\ p \in Neighbors[x]
      BY <2>7, <1>0, NeighborFacts, Zenon
    <3>2. Computed(p)' = Least(Computed(p), Least(pending[x] + 1, Absent))
      <4>1. CASE pending[x] >= MaxLevel
        <5>1. Computed(p)' = Computed(p)
          BY <4>1, <2>2, <3>1, Zenon
        <5>2. Least(pending[x] + 1, Absent) = Absent
          BY <4>1, <1>0, LevelFacts, LevelAssumption DEF Least
        <5>3. Least(Computed(p), Absent) = Computed(p)
          BY <2>4, LevelFacts DEF Least
        <5> QED
          BY <5>1, <5>2, <5>3, Zenon
      <4>2. CASE ~(pending[x] >= MaxLevel)
        BY <4>2, <2>2, <3>1, Zenon DEF LowerNew
      <4> QED
        BY <4>1, <4>2, Zenon
    <3>3. Justified(Least(Computed(p), Least(pending[x] + 1, Absent)), SeenSource(p), lv, p)
      <4>0. level[x] \in Levels
        BY <1>0, <1>1, Zenon
      <4>1. CASE Computed(p) <= pending[x] + 1
        <5>1. Least(Computed(p), Least(pending[x] + 1, Absent)) = Computed(p)
          BY <4>1, <2>3, <2>4, <1>0, LevelFacts, Zenon DEF Justified, Least
        <5>2. Computed(p) # level[x] + 1
          BY <4>0, <4>1, <1>0, <2>4, LevelFacts
        <5> QED
          BY <5>1, <5>2, <4>1, <2>3, <2>5, Zenon DEF Justified
      <4>2. CASE ~(Computed(p) <= pending[x] + 1)
        <5>1. Least(Computed(p), Least(pending[x] + 1, Absent)) = pending[x] + 1
          BY <4>2, <2>3, <2>4, <1>0, LevelFacts DEF Justified, Least
        <5>2. \A q \in Neighbors[p] : pending[x] + 1 <= lv[q] + 1
          BY <4>2, <2>3, <2>4, <2>5, <1>0, LevelFacts DEF Justified
        <5>3. pending[x] + 1 <= Absent /\ pending[x] + 1 <= SeenSource(p)
          BY <4>2, <2>3, <2>4, <1>0, LevelFacts DEF Justified
        <5> QED
          BY <5>1, <5>2, <5>3, <2>5, <2>7, Zenon DEF Justified
      <4> QED
        BY <4>1, <4>2, Zenon
    <3> QED
      BY <2>1, <3>2, <3>3, <1>0, Zenon DEF Justified
  <2> QED
    BY <2>6, <2>7, Zenon
<1>7. JustifiedAll'
  BY <1>6, Zenon DEF JustifiedAll
<1> QED
  BY <1>3, <1>4, <1>5, <1>7, Zenon DEF IInv

LEMMA RaiseLevelStep ==
    ASSUME IInv, NEW e \in queue, RaiseLevel(e)
    PROVE  IInv'
<1> DEFINE x == e[2]
           lv == [level EXCEPT ![x] = Absent]
           pd == [pending EXCEPT ![x] = IF pending[x] = Absent THEN NoLevel ELSE pending[x]]
           qu == (queue \ {e}) \cup (IF pending[x] = Absent THEN {} ELSE {<<pending[x], x>>})
           Dom == {y \in Neighbors[x] : Computed(y) = Least(level[x] + 1, Absent)}
<1>0. /\ TypeOK /\ QueueCovers /\ Resting /\ RecordsMatch /\ JustifiedAll
      /\ x \in Positions /\ phase = "running" /\ toCheck = Nowhere
      /\ pending[x] \in Levels /\ pending[x] > level[x]
      /\ level' = lv /\ pending' = Replaced(lv, pd, RaiseNew(x))
      /\ queue' = Enqueued(lv, qu, RaiseNew(x))
      /\ original' = [original EXCEPT ![x] = IF @ = NoLevel THEN level[x] ELSE @]
      /\ UNCHANGED <<source, pendingSource, changes, toCheck, phase, before>>
  BY EntryPosition, Zenon DEF IInv, RaiseLevel, Popping, Current, Recorded, TypeOK
<1> HIDE DEF x
<1>1. /\ level \in [Positions -> Levels] /\ pending \in [Positions -> Levels \cup {NoLevel}]
      /\ lv \in [Positions -> Levels] /\ pd \in [Positions -> Levels \cup {NoLevel}]
      /\ qu \in SUBSET Entries
  BY <1>0, LevelFacts DEF TypeOK, Entries
<1>2. RaiseNew(x) \in [Dom -> Levels] /\ Dom \in SUBSET Positions
  BY <1>0, RaiseNewType, NeighborFacts, Zenon
<1>3. TypeOK'
  <2>1. pending' \in [Positions -> Levels \cup {NoLevel}] /\ queue' \subseteq Entries
    <3> HIDE DEF lv, pd, Dom, qu
    <3> QED
      BY <1>0, <1>1, <1>2, ReplacedType, EnqueuedType, Zenon
  <2> QED
    BY <1>0, <1>1, <2>1, Zenon DEF TypeOK
<1>4. QueueCovers'
  <2>1. \A p \in Positions \ Dom : pd[p] # NoLevel =>
            pd[p] # lv[p] /\ <<Least(lv[p], pd[p]), p>> \in qu
    <3> SUFFICES ASSUME NEW p \in Positions, pd[p] # NoLevel
                 PROVE  pd[p] # lv[p] /\ <<Least(lv[p], pd[p]), p>> \in qu
      OBVIOUS
    <3>1. CASE p # x
      <4>1. pd[p] = pending[p] /\ lv[p] = level[p]
        BY <3>1, <1>0, <1>1, Zenon
      <4>2. pending[p] # level[p] /\ <<Least(level[p], pending[p]), p>> \in queue
        BY <1>0, <4>1, Zenon DEF QueueCovers
      <4>3. <<Least(level[p], pending[p]), p>> # e
        BY <3>1 DEF x
      <4> QED
        BY <4>1, <4>2, <4>3, Zenon
    <3>2. CASE p = x
      <4>1. pending[x] # Absent /\ pd[x] = pending[x] /\ lv[x] = Absent
        BY <3>2, <1>0, <1>1, Zenon
      <4>2. Least(Absent, pending[x]) = pending[x]
        BY <4>1, <1>0, LevelFacts DEF Least
      <4> QED
        BY <3>2, <4>1, <4>2
    <3> QED
      BY <3>1, <3>2, Zenon
  <2>2. ASSUME NEW p \in Positions, Replaced(lv, pd, RaiseNew(x))[p] # NoLevel
        PROVE  /\ Replaced(lv, pd, RaiseNew(x))[p] # lv[p]
               /\ <<Least(lv[p], Replaced(lv, pd, RaiseNew(x))[p]), p>>
                    \in Enqueued(lv, qu, RaiseNew(x))
    <3> HIDE DEF lv, pd, Dom, qu
    <3> QED
      BY <1>1, <1>2, <2>1, <2>2, ReplacedCovers, Zenon
  <2> HIDE DEF lv, pd, Dom, qu
  <2> QED
    BY <1>0, <2>2, Zenon DEF QueueCovers
<1>5. Resting' /\ RecordsMatch'
  BY <1>0, LevelFacts DEF Resting, RecordsMatch, TypeOK
<1>6. ASSUME NEW p \in Positions
      PROVE  Justified(Computed(p), SeenSource(p), level, p)'
  <2>1. SeenSource(p)' = source[p] /\ SeenSource(p) = source[p]
    BY <1>0, Zenon DEF SeenSource, UsedSource, Nowhere
  <2>2. Computed(p)' = IF p \in Dom THEN RaiseNew(x)[p] ELSE Computed(p)
    <3>1. Computed(p)' = IF p \in Dom THEN RaiseNew(x)[p]
                         ELSE IF pd[p] = NoLevel THEN lv[p] ELSE pd[p]
      <4> HIDE DEF lv, pd, Dom, qu
      <4> QED
        BY <1>0, <1>1, <1>2, ReplacedComputed
    <3>2. (IF pd[p] = NoLevel THEN lv[p] ELSE pd[p]) = Computed(p)
      BY <1>0, <1>1, LevelFacts, Zenon DEF Computed
    <3> QED
      BY <3>1, <3>2, Zenon
  <2>3. Justified(Computed(p), source[p], level, p)
    BY <1>0, <2>1, Zenon DEF JustifiedAll
  <2>4. /\ Computed(p) \in Levels /\ source[p] \in Levels
        /\ Neighbors[p] \subseteq Positions /\ \A q \in Neighbors[p] : level[q] \in Levels
    BY <1>0, <1>1, ComputedType, NeighborFacts, Zenon DEF TypeOK
  <2>5. \A q \in Neighbors[p] : lv[q] = IF q = x THEN Absent ELSE level[q]
    BY <1>1, <2>4, Zenon
  <2>6. CASE p \in Dom
    <3>1. Justified(RaiseNew(x)[p], source[p], lv, p)
      BY <2>6, <1>0, RaiseNewType, Zenon
    <3> QED
      BY <3>1, <2>1, <2>2, <2>6, <1>0, Zenon DEF Justified
  <2>7. CASE p \notin Dom
    <3>1. x \in Neighbors[p] => Computed(p) # level[x] + 1 \/ Computed(p) = Absent
      <4> SUFFICES ASSUME x \in Neighbors[p], Computed(p) = level[x] + 1, Computed(p) # Absent
                   PROVE  FALSE
        OBVIOUS
      <4>1. p \in Neighbors[x]
        BY <1>0, NeighborFacts, Zenon
      <4>2. Least(level[x] + 1, Absent) = level[x] + 1
        BY <2>4, LevelFacts DEF Least
      <4> QED
        BY <4>1, <4>2, <2>7, Zenon
    <3>2. \A q \in Neighbors[p] : Computed(p) <= lv[q] + 1
      BY <2>3, <2>4, <2>5, LevelFacts DEF Justified
    <3>3. Computed(p) = Absent \/ Computed(p) = source[p]
          \/ \E q \in Neighbors[p] : Computed(p) = lv[q] + 1
      BY <2>3, <2>5, <3>1, Zenon DEF Justified
    <3> QED
      BY <2>1, <2>2, <2>3, <2>7, <3>2, <3>3, <1>0, Zenon DEF Justified
  <2> QED
    BY <2>6, <2>7, Zenon
<1>7. JustifiedAll'
  BY <1>6 DEF JustifiedAll
<1> QED
  BY <1>3, <1>4, <1>5, <1>7 DEF IInv

-----------------------------------------------------------------------------
(* The theorems.                                                           *)

LEMMA NextIInv == IInv /\ [Next]_vars => IInv'
<1> SUFFICES ASSUME IInv, [Next]_vars PROVE IInv'
  OBVIOUS
<1>1. CASE \E p \in Sources, l \in SourceLevels \cup {Absent} : ApplySourceUpdate(p, l)
  BY <1>1, ApplySourceUpdateStep, Zenon
<1>2. CASE RunNothing
  BY <1>2, RunNothingStep, Zenon
<1>3. CASE StartRun
  BY <1>3, StartRunStep
<1>4. CASE \E p \in Positions : CheckSource(p)
  BY <1>4, CheckSourceStep, Zenon
<1>5. CASE \E e \in queue : SkipStale(e)
  BY <1>5, SkipStaleStep, Zenon
<1>6. CASE \E e \in queue : LowerLevel(e)
  BY <1>6, LowerLevelStep, Zenon
<1>7. CASE \E e \in queue : RaiseLevel(e)
  BY <1>7, RaiseLevelStep
<1>8. CASE FinishRun
  BY <1>8, FinishRunStep
<1>9. CASE UNCHANGED vars
  BY <1>9, ZenonT(30) DEF vars, IInv, TypeOK, QueueCovers, Resting, RecordsMatch, JustifiedAll, Justified,
     Computed, SeenSource, UsedSource
<1> QED
  BY <1>1, <1>2, <1>3, <1>4, <1>5, <1>6, <1>7, <1>8, <1>9, Zenon DEF Next, RunStep

\* Every state of the tracker satisfies the inductive invariant.
THEOREM Invariance == Spec => []IInv
BY InitIInv, NextIInv, PTL DEF Spec

\* Every variable of the tracker keeps its type: TypeOK.
THEOREM TypeCorrect == Spec => []TypeOK
BY Invariance, PTL DEF IInv

\* No correction is forgotten and none is left for the next run: QueueCovers.
THEOREM QueueComplete == Spec => []QueueCovers
BY Invariance, PTL DEF IInv

\* The level a position is about to get is the one its neighbours and its source
\* justify, at every step of a run: PendingJustified.
THEOREM AlwaysJustified == Spec => []PendingJustified
<1>1. IInv => PendingJustified
  BY JustifiedIsPending, Zenon DEF IInv
<1> QED
  BY <1>1, Invariance, PTL

\* A run reports exactly the positions whose level it changed: ChangesExact.
THEOREM ChangesReported == Spec => ChangesExact
<1>1. IInv /\ [Next]_vars =>
        [phase = "running" /\ phase' = "idle" =>
            changes' = {p \in Positions : before[p] # level[p]}]_vars
  <2> SUFFICES ASSUME IInv, Next, phase = "running", phase' = "idle"
               PROVE  changes' = {p \in Positions : before[p] # level[p]}
    BY Zenon DEF vars
  <2>1. FinishRun
    BY Zenon DEF Next, RunStep, ApplySourceUpdate, RunNothing, StartRun, CheckSource, SkipStale,
       LowerLevel, RaiseLevel
  <2>2. changes' = {p \in Positions : original[p] # NoLevel /\ original[p] # level[p]}
    BY <2>1, Zenon DEF FinishRun
  <2>3. \A p \in Positions : before[p] = IF original[p] = NoLevel THEN level[p] ELSE original[p]
    BY Zenon DEF IInv, RecordsMatch
  <2> QED
    BY <2>2, <2>3, Zenon
<1> QED
  BY <1>1, Invariance, PTL DEF Spec, ChangesExact

-----------------------------------------------------------------------------
(* A function in which every level is justified by the sources is the      *)
(* least distance to a source: both inequalities follow by looking at a    *)
(* least counterexample.                                                   *)

\* A level below Absent comes from a source at the right distance.
LEMMA LevelHasSource ==
    ASSUME NEW lv \in [Positions -> Levels], NEW src \in [Positions -> Levels],
           \A p \in Positions : Justified(lv[p], src[p], lv, p),
           NEW p \in Positions, lv[p] # Absent
    PROVE  \E q \in Positions : src[q] + Distance[p][q] <= lv[p]
<1> DEFINE Bad(x) == /\ x \in Positions /\ lv[x] # Absent
                     /\ \A q \in Positions : ~(src[q] + Distance[x][q] <= lv[x])
           S == {l \in Levels : \E x \in Positions : Bad(x) /\ lv[x] = l}
<1> SUFFICES ASSUME Bad(p) PROVE FALSE
  OBVIOUS
<1>1. S \subseteq Nat /\ S # {}
  BY LevelFacts
<1>2. PICK l \in S : \A y \in S : l <= y
  BY <1>1, NatMin, Zenon
<1>3. PICK x \in Positions : Bad(x) /\ lv[x] = l
  OBVIOUS
<1>4. lv[x] # src[x]
  <2>1. Distance[x][x] = 0
    BY DistanceAssumption, Zenon
  <2>2. src[x] \in Nat
    BY LevelFacts
  <2> QED
    BY <1>3, <2>1, <2>2
<1>5. PICK n \in Neighbors[x] : lv[x] = lv[n] + 1
  BY <1>3, <1>4, Zenon DEF Justified
<1>6. n \in Positions /\ Distance[x][n] = 1 /\ lv[n] \in Nat /\ lv[n] # Absent
  BY <1>3, <1>5, NeighborFacts, LevelFacts
<1>7. ~Bad(n)
  BY <1>2, <1>3, <1>5, <1>6
<1>8. PICK q \in Positions : src[q] + Distance[n][q] <= lv[n]
  BY <1>6, <1>7, Zenon
<1>9. Distance[x][q] <= Distance[x][n] + Distance[n][q]
  BY <1>6, DistanceAssumption, Zenon
<1>10. Distance[x][q] \in Nat /\ Distance[n][q] \in Nat /\ src[q] \in Nat
  BY <1>6, DistanceAssumption, LevelFacts
<1>11. src[q] + Distance[x][q] <= lv[x]
  BY <1>5, <1>6, <1>8, <1>9, <1>10
<1> QED
  BY <1>3, <1>11, Zenon

\* No source is nearer than a level says.
LEMMA LevelIsLeast ==
    ASSUME NEW lv \in [Positions -> Levels], NEW src \in [Positions -> Levels],
           \A p \in Positions : Justified(lv[p], src[p], lv, p),
           NEW p \in Positions, NEW q \in Positions
    PROVE  lv[p] <= src[q] + Distance[p][q]
<1> DEFINE Bad(x) == x \in Positions /\ ~(lv[x] <= src[q] + Distance[x][q])
           S == {d \in Nat : \E x \in Positions : Bad(x) /\ Distance[x][q] = d}
<1> SUFFICES ASSUME Bad(p) PROVE FALSE
  OBVIOUS
<1>0. \A x \in Positions : Distance[x][q] \in Nat /\ lv[x] \in Nat /\ src[x] \in Nat
  BY DistanceAssumption, LevelFacts
<1>1. S \subseteq Nat /\ S # {}
  BY <1>0, Zenon
<1>2. PICK d \in S : \A y \in S : d <= y
  BY <1>1, NatMin, Zenon
<1>3. PICK x \in Positions : Bad(x) /\ Distance[x][q] = d
  OBVIOUS
<1>4. CASE d = 0
  <2>1. x = q
    BY <1>3, <1>4, DistanceAssumption, Zenon
  <2>2. lv[q] <= src[q]
    BY Zenon DEF Justified
  <2> QED
    BY <1>0, <1>3, <1>4, <2>1, <2>2
<1>5. CASE d # 0
  <2>0. PICK n \in Positions : Distance[x][n] = 1 /\ Distance[n][q] = Distance[x][q] - 1
    BY <1>3, <1>5, DistanceAssumption, Zenon
  <2>1. n \in Positions /\ Distance[x][n] = 1 /\ Distance[n][q] = d - 1
    BY <1>3, <2>0, Zenon
  <2>2. ~Bad(n)
    BY <1>0, <1>2, <1>5, <2>1
  <2>3. lv[n] <= src[q] + Distance[n][q]
    BY <2>2, Zenon
  <2>4. lv[x] <= lv[n] + 1
    BY <2>1, NeighborFacts, Zenon DEF Justified
  <2> QED
    BY <1>0, <1>3, <2>1, <2>3, <2>4
<1> QED
  BY <1>4, <1>5, Zenon

\* Outside of a run every level is justified by the levels and sources as they are.
LEMMA IdleJustified ==
    ASSUME IInv, phase = "idle", NEW p \in Positions
    PROVE  Justified(level[p], UsedSource(p), level, p)
<1>1. toCheck = Nowhere /\ pending[p] = NoLevel
  BY Zenon DEF IInv, Resting, TypeOK, QueueCovers
<1>2. SeenSource(p) = UsedSource(p)
  BY <1>1, Zenon DEF SeenSource, Nowhere, UsedSource
<1>3. Computed(p) = level[p]
  BY <1>1, Zenon DEF Computed
<1> QED
  BY <1>2, <1>3, Zenon DEF IInv, JustifiedAll

LEMMA IdleExact == IInv => LevelsExact
<1> SUFFICES ASSUME IInv, phase = "idle", NEW p \in Positions
             PROVE  level[p] = Min({Absent} \cup {UsedSource(q) + Distance[p][q] : q \in Positions})
  BY Zenon DEF LevelsExact
<1> DEFINE src == [q \in Positions |-> UsedSource(q)]
           S == {Absent} \cup {UsedSource(q) + Distance[p][q] : q \in Positions}
<1>1. level \in [Positions -> Levels] /\ src \in [Positions -> Levels]
  BY Zenon DEF IInv, TypeOK, UsedSource
<1>2. \A x \in Positions : Justified(level[x], src[x], level, x)
  BY IdleJustified, Zenon
<1>3. \A q \in Positions : src[q] = UsedSource(q)
  OBVIOUS
<1>4. \A q \in Positions : UsedSource(q) \in Nat /\ Distance[p][q] \in Nat
  BY <1>1, <1>3, LevelFacts, DistanceAssumption
<1>5. S \subseteq Nat
  BY <1>4, LevelFacts
<1> HIDE DEF src
<1>6. \A q \in Positions : level[p] <= src[q] + Distance[p][q]
  BY <1>1, <1>2, LevelIsLeast, Zenon
<1>7. level[p] <= Absent /\ level[p] \in Nat
  BY <1>1, LevelFacts
<1>8. \A y \in S : level[p] <= y
  BY <1>3, <1>6, <1>7, Zenon
<1>9. level[p] \in S
  <2>1. CASE level[p] = Absent
    BY <2>1, Zenon
  <2>2. CASE level[p] # Absent
    <3>1. PICK q \in Positions : src[q] + Distance[p][q] <= level[p]
      BY <1>1, <1>2, <2>2, LevelHasSource, Zenon
    <3>2. level[p] = UsedSource(q) + Distance[p][q]
      BY <1>3, <1>4, <1>6, <1>7, <3>1
    <3> QED
      BY <3>2, Zenon
  <2> QED
    BY <2>1, <2>2, Zenon
<1> HIDE DEF S
<1>10. Min(S) = level[p]
  BY <1>5, <1>8, <1>9, MinIs, Zenon
<1> QED
  BY <1>10, Zenon DEF S

\* The result of every run of run_all_updates: each position has the least of what the
\* sources give it at its distance, for every set of positions, metric and level bound.
THEOREM PropagationExact == Spec => []LevelsExact
BY Invariance, IdleExact, PTL
=============================================================================
