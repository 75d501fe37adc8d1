----------------------- MODULE TicketSchedulingProofs -----------------------
(***************************************************************************)
(* Proofs about TicketScheduling, for all finite sets of positions,        *)
(* requesters and players and all limits: the tables of the ingress, the   *)
(* trackers and the holders agree, a committed receipt means loaded        *)
(* chunks, what a poll saw stays ready and timed tickets last their        *)
(* timeout.  One lemma per action shows that it keeps IInv.                *)
(***************************************************************************)
EXTENDS TicketScheduling, TLAPS, FiniteSetTheorems, WellFoundedInduction

\* The strongest of a nonempty set of levels is one of them and at most each.
LEMMA MinFacts ==
  ASSUME NEW S, S \subseteq Nat, S # {}
  PROVE  Min(S) \in S /\ \A y \in S : Min(S) <= y
<1>1. PICK m \in S : \A y \in S : ~(<<y, m>> \in OpToRel(<, Nat))
  BY WFMin, NatLessThanWellFounded, Zenon
<1>2. \A y \in S : ~(y < m)
  BY <1>1, ZenonT(30) DEF OpToRel
<1>3. \A y \in S : m <= y
  BY <1>2
<1> QED
  BY <1>3, Zenon DEF Min

\* The larger of two numbers.
LEMMA MaxFacts ==
  ASSUME NEW a \in Int, NEW b \in Int
  PROVE  /\ Max({a, b}) = IF a >= b THEN a ELSE b
         /\ Max({a, b}) \in {a, b} /\ Max({a, b}) >= a /\ Max({a, b}) >= b
<1> DEFINE m == IF a >= b THEN a ELSE b
<1>1. m \in {a, b} /\ \A y \in {a, b} : m >= y
  OBVIOUS
<1>2. \A x \in {a, b} : (\A y \in {a, b} : x >= y) => x = m
  OBVIOUS
<1>3. Max({a, b}) \in {a, b} /\ \A y \in {a, b} : Max({a, b}) >= y
  BY <1>1, Zenon DEF Max
<1>4. Max({a, b}) = m
  BY <1>2, <1>3, Zenon
<1> QED
  BY <1>1, <1>4, Zenon

\* Constants.
LEMMA LevelFacts ==
  /\ EntityTicking \in Nat /\ MaxLevel \in Nat /\ BlockTicking \in 0 .. MaxLevel
  /\ FullLevel \in 0 .. MaxLevel /\ Absent \in Nat /\ Absent = MaxLevel + 1
  /\ Levels = 0 .. Absent /\ 0 .. MaxLevel \subseteq Nat /\ 0 .. MaxLevel \subseteq Levels
  /\ Absent \in Levels /\ Absent \notin 0 .. MaxLevel
BY TicketAssumption DEF BlockTicking, FullLevel, Absent, Levels

\* The levels of the tickets of a position are naturals.
LEMMA TicketLevels ==
  ASSUME NEW tk \in SUBSET Tickets
  PROVE  \A t \in tk : t = <<t[1], t[2]>> /\ t[1] \in Types /\ t[2] \in 0 .. MaxLevel
BY DEF Tickets

\* The source of a position is a level, at most that of each of its loading tickets, and
\* depends on these alone.
LEMMA LoadSourceFacts ==
  ASSUME NEW tk, NEW p, tk[p] \in SUBSET Tickets
  PROVE  /\ LoadSource(tk, p) \in Levels
         /\ \A t \in tk[p] : Loads(t[1]) => LoadSource(tk, p) <= t[2]
         /\ \A t \in tk[p] : Loads(t[1]) => LoadSource(tk, p) <= MaxLevel
<1> DEFINE S == {Absent} \cup {t[2] : t \in {u \in tk[p] : Loads(u[1])}}
<1>1. \A t \in tk[p] : t[2] \in 0 .. MaxLevel
  BY TicketLevels, Zenon
<1>2. S \subseteq Levels /\ S \subseteq Nat /\ S # {}
  BY <1>1, LevelFacts, Zenon
<1>3. LoadSource(tk, p) = Min(S)
  BY Zenon DEF LoadSource
<1>4. \A t \in tk[p] : Loads(t[1]) => t[2] \in S
  OBVIOUS
<1> HIDE DEF S
<1>5. Min(S) \in S /\ \A y \in S : Min(S) <= y
  BY <1>2, MinFacts, Zenon
<1>6. \A t \in tk[p] : Loads(t[1]) => LoadSource(tk, p) <= t[2]
  BY <1>3, <1>4, <1>5, Zenon
<1>7. LoadSource(tk, p) \in Levels
  BY <1>2, <1>3, <1>5, Zenon
<1> QED
  BY <1>1, <1>6, <1>7, LevelFacts

\* The simulation source of a position is a level.
LEMMA SimSourceFacts ==
  ASSUME NEW tk, NEW p, tk[p] \in SUBSET Tickets
  PROVE  SimSource(tk, p) \in Levels
<1> DEFINE S == {Absent} \cup
                {t[2] : t \in {u \in tk[p] : Simulates(u[1]) /\ u[2] <= BlockTicking}}
<1>1. \A t \in tk[p] : t[2] \in 0 .. MaxLevel
  BY TicketLevels
<1>2. S \subseteq Levels /\ S \subseteq Nat /\ S # {}
  BY <1>1, LevelFacts, Zenon
<1>3. SimSource(tk, p) = Min(S)
  BY Zenon DEF SimSource
<1> HIDE DEF S
<1>4. Min(S) \in S
  BY <1>2, MinFacts, Zenon
<1> QED
  BY <1>2, <1>3, <1>4, Zenon

\* Sources depend on the tickets that load, or simulate, alone.
LEMMA SameLoadSource ==
  ASSUME NEW tk, NEW tk2, NEW p,
         \A t : Loads(t[1]) => (t \in tk[p] <=> t \in tk2[p])
  PROVE  LoadSource(tk, p) = LoadSource(tk2, p)
<1>1. {u \in tk[p] : Loads(u[1])} = {u \in tk2[p] : Loads(u[1])}
  OBVIOUS
<1> QED
  BY <1>1, Zenon DEF LoadSource

\* It depends on the simulation tickets of the position alone.
LEMMA SameSimSource ==
  ASSUME NEW tk, NEW tk2, NEW p,
         \A t : Simulates(t[1]) => (t \in tk[p] <=> t \in tk2[p])
  PROVE  SimSource(tk, p) = SimSource(tk2, p)
<1>1. {u \in tk[p] : Simulates(u[1]) /\ u[2] <= BlockTicking}
      = {u \in tk2[p] : Simulates(u[1]) /\ u[2] <= BlockTicking}
  OBVIOUS
<1> QED
  BY <1>1, Zenon DEF SimSource

\* A propagated level is a level, and at most the source of its position.
LEMMA PropagatedFacts ==
  ASSUME NEW source \in [Positions -> Levels], NEW max \in Nat
  PROVE  /\ Propagated(source, max) \in [Positions -> Levels]
         /\ \A p \in Positions : source[p] <= max => Propagated(source, max)[p] <= source[p]
<1> SUFFICES ASSUME NEW p \in Positions
             PROVE  /\ Propagated(source, max)[p] \in Levels
                    /\ source[p] <= max => Propagated(source, max)[p] <= source[p]
  BY Zenon DEF Propagated
<1> DEFINE S == {Absent} \cup {source[q] + Distance[p][q] : q \in Positions}
<1>1. \A q \in Positions : source[q] \in Nat /\ Distance[p][q] \in Nat
  BY PositionAssumption, LevelFacts
<1>2. S \subseteq Nat /\ S # {}
  BY <1>1, LevelFacts
<1>3. Absent \in S
  OBVIOUS
<1>4. source[p] \in S
  <2>1. source[p] + Distance[p][p] = source[p]
    BY <1>1, PositionAssumption
  <2> QED
    BY <2>1, Zenon
<1>5. Propagated(source, max)[p] = IF Min(S) <= max THEN Min(S) ELSE Absent
  BY Zenon DEF Propagated
<1> HIDE DEF S
<1>6. Min(S) \in Nat /\ Min(S) <= Absent /\ Min(S) <= source[p]
  BY <1>2, <1>3, <1>4, MinFacts, Zenon
<1> QED
  BY <1>1, <1>5, <1>6, LevelFacts

-----------------------------------------------------------------------------
\* Each part of the invariant depends on some variables alone.

\* A step keeps each conjunct of the invariant while it changes none of its variables: the
\* types of the ticket storage
LEMMA KeepStorageType ==
  ASSUME StorageTypeOK, UNCHANGED <<tickets, left, gen, generations, expirations, saved, restarts,
                                    fresh, passes>>
  PROVE  StorageTypeOK'
BY Zenon DEF StorageTypeOK

\* the types of the ingress tables,
LEMMA KeepIngressType ==
  ASSUME IngressTypeOK, UNCHANGED <<leases, coverage, playerPos, latest, committed, through,
                                    dirtyLoad, dirtySim>>
  PROVE  IngressTypeOK'
BY Zenon DEF IngressTypeOK

\* of the trackers and holders,
LEMMA KeepLevelType ==
  ASSUME LevelTypeOK, UNCHANGED <<trackers, holders, pc, loadChanges, simChanges>>
  PROVE  LevelTypeOK'
BY Zenon DEF LevelTypeOK, trackers, holders

\* of the requests;
LEMMA KeepRequestType ==
  ASSUME RequestTypeOK, UNCHANGED requests
  PROVE  RequestTypeOK'
BY Zenon DEF RequestTypeOK, requests

\* the sources of the trackers,
LEMMA KeepSources ==
  ASSUME SourcesSynced, UNCHANGED <<tickets, dirtyLoad, dirtySim, loadSource, simSource>>
  PROVE  SourcesSynced'
<1>1. \A p : LoadSource(tickets, p)' = LoadSource(tickets, p)
            /\ SimSource(tickets, p)' = SimSource(tickets, p)
  BY Zenon DEF LoadSource, SimSource
<1> QED
  BY <1>1, Zenon DEF SourcesSynced

\* the lease counts,
LEMMA KeepLeases ==
  ASSUME LeasesMatch, UNCHANGED <<tickets, leases, wants, wantLevel>>
  PROVE  LeasesMatch'
BY Zenon DEF LeasesMatch, RequestTicket

\* the coverage of the players,
LEMMA KeepCoverage ==
  ASSUME CoverageMatches, UNCHANGED <<tickets, coverage, playerPos>>
  PROVE  CoverageMatches'
BY DEF CoverageMatches, Centers, Square, LoadingTicket, SimulationTicket

\* the levels of the holders,
LEMMA KeepHolders ==
  ASSUME HoldersMatch, UNCHANGED <<loadLevel, simLevel, holderLoad, holderSim, unloading, pc,
                                   loadChanges, simChanges>>
  PROVE  HoldersMatch'
BY Zenon DEF HoldersMatch

\* the ages of the timed tickets,
LEMMA KeepTimed ==
  ASSUME TimedMatch, UNCHANGED <<tickets, left, gen, generations, pc, expirations, fresh, passes>>
  PROVE  TimedMatch'
BY Zenon DEF TimedMatch

\* the receipts,
LEMMA KeepReceipts ==
  ASSUME ReceiptsMatch, UNCHANGED <<committed, through, latest, wants, wantLevel, receipt, loadLevel>>
  PROVE  ReceiptsMatch'
BY Zenon DEF ReceiptsMatch

\* the levels that committed receipts promise,
LEMMA KeepCommitted ==
  ASSUME CommittedHolds, UNCHANGED <<wants, wantLevel, receipt, committed, holderLoad>>
  PROVE  CommittedHolds'
BY Zenon DEF CommittedHolds

\* what the polls saw.
LEMMA KeepReady ==
  ASSUME ReadyStaysReady, UNCHANGED <<requests, committed, holderLoad, reached>>
  PROVE  ReadyStaysReady'
BY Zenon DEF ReadyStaysReady, requests, HasStatus

-----------------------------------------------------------------------------
\* A change of tickets that leaves the tickets of the other tables alone.

\* What a step that only moves tickets of timed types keeps.
LEMMA TicketTypes ==
  /\ \A t \in Timed : Loads(t) /\ Simulates(t) /\ t \in Types
  /\ Loads("request") /\ ~Simulates("request") /\ "request" \in Types /\ "request" \notin Timed
  /\ Loads("loading") /\ ~Simulates("loading") /\ "loading" \in Types /\ "loading" \notin Timed
  /\ ~Loads("simulation") /\ Simulates("simulation") /\ "simulation" \in Types
  /\ "simulation" \notin Timed
  /\ \A t \in Timed : TimedLevel[t] \in 0 .. MaxLevel /\ Timeout[t] \in Nat
  /\ LoadingTicket \in Tickets /\ SimulationTicket \in Tickets
  /\ \A l \in 0 .. MaxLevel : RequestTicket(l) \in Tickets
  /\ \A t \in Timed : <<t, TimedLevel[t]>> \in Tickets
<1>1. \A t \in Timed : t \notin {"request", "loading", "simulation"}
  BY TicketAssumption, Zenon
<1>2. EntityTicking \in 0 .. MaxLevel /\ EntityTicking - SimulationDistance \in 0 .. MaxLevel
  BY TicketAssumption DEF FullLevel
<1> QED
  BY <1>1, <1>2, TicketAssumption, Zenon DEF Loads, Simulates, Types, Tickets, LoadingTicket,
     SimulationTicket, RequestTicket

\* Where no ticket of a request, of a player or of the other tables changes these still
\* match.
LEMMA OtherLeases ==
  ASSUME LeasesMatch, UNCHANGED <<leases, wants, wantLevel>>,
         \A p \in Positions, l \in 0 .. MaxLevel :
            RequestTicket(l) \in tickets'[p] <=> RequestTicket(l) \in tickets[p]
  PROVE  LeasesMatch'
BY Zenon DEF LeasesMatch, RequestTicket

\* The coverage does not depend on the tickets of other types,
LEMMA OtherCoverage ==
  ASSUME CoverageMatches, UNCHANGED <<coverage, playerPos>>,
         \A p \in Positions : /\ LoadingTicket \in tickets'[p] <=> LoadingTicket \in tickets[p]
                              /\ SimulationTicket \in tickets'[p] <=> SimulationTicket \in tickets[p]
  PROVE  CoverageMatches'
BY DEF CoverageMatches, Centers, Square, LoadingTicket, SimulationTicket

\* nor do the timed tickets.
LEMMA OtherTimed ==
  ASSUME TimedMatch, UNCHANGED <<left, gen, generations, pc, expirations, fresh, passes>>,
         \A p \in Positions, t \in Timed :
            <<t, TimedLevel[t]>> \in tickets'[p] <=> <<t, TimedLevel[t]>> \in tickets[p]
  PROVE  TimedMatch'
BY Zenon DEF TimedMatch

\* The sources stay synchronised when a position is dirty wherever one of its loading, or
\* simulating, tickets changes.
LEMMA DirtySources ==
  ASSUME SourcesSynced, UNCHANGED <<loadSource, simSource>>,
         dirtyLoad \subseteq dirtyLoad', dirtySim \subseteq dirtySim',
         \A p \in Positions : p \in dirtyLoad' \/
            \A t : Loads(t[1]) => (t \in tickets[p] <=> t \in tickets'[p]),
         \A p \in Positions : p \in dirtySim' \/
            \A t : Simulates(t[1]) => (t \in tickets[p] <=> t \in tickets'[p])
  PROVE  SourcesSynced'
<1> SUFFICES ASSUME NEW p \in Positions
             PROVE  /\ p \in dirtyLoad' \/ loadSource[p] = LoadSource(tickets', p)
                    /\ p \in dirtySim' \/ simSource[p] = SimSource(tickets', p)
  BY Zenon DEF SourcesSynced, LoadSource, SimSource
<1>1. p \in dirtyLoad' \/ LoadSource(tickets, p) = LoadSource(tickets', p)
  BY SameLoadSource, Zenon
<1>2. p \in dirtySim' \/ SimSource(tickets, p) = SimSource(tickets', p)
  BY SameSimSource, Zenon
<1> QED
  BY <1>1, <1>2, Zenon DEF SourcesSynced

-----------------------------------------------------------------------------
\* Requests.

\* The requests that hold a lease at p and level l.
Holding(w, wl, p, l) == {r \in Requesters : p \in w[r] /\ wl[r] = l}

\* There are finitely many of them.
LEMMA HoldingFinite ==
  ASSUME NEW w, NEW wl, NEW p, NEW l
  PROVE  IsFiniteSet(Holding(w, wl, p, l)) /\ Cardinality(Holding(w, wl, p, l)) \in Nat
<1>1. Holding(w, wl, p, l) \subseteq Requesters
  BY Zenon DEF Holding
<1>2. IsFiniteSet(Holding(w, wl, p, l))
  BY <1>1, TicketAssumption, FS_Subset, Zenon
<1> QED
  BY <1>2, FS_CardinalityType, Zenon

\* LeasesMatch of one position and level, now and after a step.
LEMMA LeasesAre ==
  LeasesMatch <=> \A p \in Positions, l \in 0 .. MaxLevel :
    /\ leases[p][l] = Cardinality(Holding(wants, wantLevel, p, l))
    /\ RequestTicket(l) \in tickets[p] <=> leases[p][l] > 0
BY Zenon DEF LeasesMatch, Holding

\* The same after a step.
LEMMA LeasesNext ==
  LeasesMatch' <=> \A p \in Positions, l \in 0 .. MaxLevel :
    /\ leases'[p][l] = Cardinality(Holding(wants', wantLevel', p, l))
    /\ RequestTicket(l) \in tickets'[p] <=> leases'[p][l] > 0
BY Zenon DEF LeasesMatch, Holding, RequestTicket

\* acquire_chunk_request_leases.
LEMMA AcquireStep ==
  ASSUME IInv, NEW r \in Requesters, NEW ps \in RequestSets, NEW l \in RequestLevels,
         Acquire(r, ps, l)
  PROVE  IInv'
<1> USE DEF IInv, TablesAgree, TypeOK
<1> DEFINE need == {p \in ps : leases[p][l] = 0}
<1>1. /\ wants[r] = {} /\ l \in 0 .. MaxLevel /\ ps \subseteq Positions /\ ps # {}
  BY TicketAssumption, Zenon DEF Acquire
<1>2. /\ leases' = [p \in Positions |->
                      IF p \in ps THEN [leases[p] EXCEPT ![l] = @ + 1] ELSE leases[p]]
      /\ tickets' = [p \in Positions |->
                      IF p \in need THEN tickets[p] \cup {RequestTicket(l)} ELSE tickets[p]]
      /\ dirtyLoad' = dirtyLoad \cup {p \in need : RequestTicket(l) \notin tickets[p]}
      /\ dirtySim' = dirtySim
  BY TicketTypes, Zenon DEF Acquire, Dirtied
<1>3. /\ latest' = latest + 1 /\ receipt' = [receipt EXCEPT ![r] = latest + 1]
      /\ wants' = [wants EXCEPT ![r] = ps] /\ wantLevel' = [wantLevel EXCEPT ![r] = l]
      /\ UNCHANGED <<left, gen, generations, coverage, playerPos, committed, pc, expirations, through,
                     loadChanges, simChanges, poll, seen, saved, restarts, fresh, passes>>
      /\ UNCHANGED <<trackers, holders>>
  BY Zenon DEF Acquire, batch, persisted, history
<1>4. UNCHANGED <<loadSource, simSource, loadLevel, simLevel, holderLoad, holderSim, reached,
                  unloading>>
  BY <1>3, Zenon DEF trackers, holders
<1> HIDE DEF need
<1>5. \A p \in Positions, k \in 0 .. MaxLevel :
        leases'[p][k] = IF p \in ps /\ k = l THEN leases[p][k] + 1 ELSE leases[p][k]
  BY <1>1, <1>2, Zenon DEF IngressTypeOK
<1>6. \A p \in Positions : \A t : t \in tickets'[p] <=> t \in tickets[p] \/ (t = RequestTicket(l) /\ p \in need)
  BY <1>2, Zenon
<1>7. \A q \in Requesters : wants'[q] = IF q = r THEN ps ELSE wants[q]
  BY <1>3, Zenon DEF RequestTypeOK
<1>8. \A q \in Requesters : /\ wantLevel'[q] = IF q = r THEN l ELSE wantLevel[q]
                            /\ receipt'[q] = IF q = r THEN latest + 1 ELSE receipt[q]
  BY <1>3, Zenon DEF RequestTypeOK
<1>9. committed <= latest /\ through <= latest /\ latest \in Nat /\ committed \in Nat /\ through \in Nat
      /\ ~(latest + 1 <= committed) /\ ~(latest + 1 <= through) /\ latest + 1 \in Nat
  BY DEF ReceiptsMatch, IngressTypeOK
<1>10. StorageTypeOK'
  <2>1. tickets' \in [Positions -> SUBSET Tickets]
    BY <1>1, <1>2, TicketTypes, Zenon DEF StorageTypeOK
  <2> QED
    BY <1>3, <2>1, Zenon DEF StorageTypeOK
<1>11. IngressTypeOK'
  <2>1. leases' \in [Positions -> [0 .. MaxLevel -> Nat]]
    <3>1. \A p \in Positions : leases[p] \in [0 .. MaxLevel -> Nat]
      BY Zenon DEF IngressTypeOK
    <3>2. \A f \in [0 .. MaxLevel -> Nat] : [f EXCEPT ![l] = @ + 1] \in [0 .. MaxLevel -> Nat]
      BY <1>1
    <3> QED
      BY <1>2, <3>1, <3>2, Zenon
  <2>2. dirtyLoad' \subseteq Positions
    BY <1>1, <1>2, Zenon DEF IngressTypeOK, need
  <2> QED
    BY <1>2, <1>3, <1>9, <2>1, <2>2, Zenon DEF IngressTypeOK
<1>12. LevelTypeOK' /\ HoldersMatch'
  BY <1>3, <1>4, KeepLevelType, KeepHolders, Zenon
<1>13. RequestTypeOK'
  <2>1. wants' \in [Requesters -> SUBSET Positions] /\ wantLevel' \in [Requesters -> 0 .. MaxLevel]
    BY <1>1, <1>3, Zenon DEF RequestTypeOK
  <2>2. receipt' \in [Requesters -> Nat]
    BY <1>3, <1>9, Zenon DEF RequestTypeOK
  <2> QED
    BY <1>3, <2>1, <2>2, Zenon DEF RequestTypeOK
<1>14. SourcesSynced'
  <2>1. RequestTicket(l)[1] = "request" /\ dirtyLoad \subseteq dirtyLoad' /\ dirtySim \subseteq dirtySim'
    BY <1>2, Zenon DEF RequestTicket
  <2>2. \A p \in Positions : p \in dirtyLoad' \/
          \A t : Loads(t[1]) => (t \in tickets[p] <=> t \in tickets'[p])
    BY <1>2, <1>6, Zenon
  <2>3. \A p \in Positions : p \in dirtySim' \/
          \A t : Simulates(t[1]) => (t \in tickets[p] <=> t \in tickets'[p])
    BY <1>6, <2>1, TicketTypes, Zenon
  <2> QED
    BY <1>4, <2>1, <2>2, <2>3, DirtySources, Zenon
<1>15. LeasesMatch'
  <2> SUFFICES ASSUME NEW p \in Positions, NEW k \in 0 .. MaxLevel
               PROVE  /\ leases'[p][k] = Cardinality(Holding(wants', wantLevel', p, k))
                      /\ RequestTicket(k) \in tickets'[p] <=> leases'[p][k] > 0
    BY LeasesNext, Zenon
  <2>1. leases[p][k] = Cardinality(Holding(wants, wantLevel, p, k)) /\ leases[p][k] \in Nat
        /\ (RequestTicket(k) \in tickets[p] <=> leases[p][k] > 0)
    BY LeasesAre, HoldingFinite
  <2>2. CASE p \in ps /\ k = l
    <3>1. Holding(wants', wantLevel', p, k) = Holding(wants, wantLevel, p, k) \cup {r}
      BY <1>7, <1>8, <2>2, Zenon DEF Holding
    <3>2. r \notin Holding(wants, wantLevel, p, k)
      BY <1>1, Zenon DEF Holding
    <3>3. Cardinality(Holding(wants', wantLevel', p, k)) = Cardinality(Holding(wants, wantLevel, p, k)) + 1
      BY <3>1, <3>2, HoldingFinite, FS_AddElement, Zenon
    <3>4. leases'[p][k] = leases[p][k] + 1
      BY <1>5, <2>2, Zenon
    <3>5. RequestTicket(k) \in tickets'[p]
      <4>1. CASE leases[p][k] = 0
        BY <1>6, <2>2, <4>1, Zenon DEF need
      <4>2. CASE leases[p][k] > 0
        BY <1>6, <2>1, <4>2, Zenon
      <4> QED
        BY <2>1, <4>1, <4>2
    <3> QED
      BY <2>1, <3>3, <3>4, <3>5
  <2>3. CASE ~(p \in ps /\ k = l)
    <3>1. Holding(wants', wantLevel', p, k) = Holding(wants, wantLevel, p, k)
      BY <1>1, <1>7, <1>8, <2>3, Zenon DEF Holding
    <3>2. RequestTicket(k) \in tickets'[p] <=> RequestTicket(k) \in tickets[p]
      BY <1>6, <2>3 DEF RequestTicket, need
    <3> QED
      BY <1>5, <2>1, <2>3, <3>1, <3>2, Zenon
  <2> QED
    BY <2>2, <2>3, Zenon
<1>16. CoverageMatches' /\ TimedMatch'
  <2>1. \A p \in Positions : \A t : t[1] # "request" => (t \in tickets'[p] <=> t \in tickets[p])
    BY <1>6 DEF RequestTicket
  <2>2. LoadingTicket[1] # "request" /\ SimulationTicket[1] # "request"
        /\ \A t \in Timed : <<t, TimedLevel[t]>>[1] # "request"
    BY TicketTypes, Zenon DEF LoadingTicket, SimulationTicket
  <2> QED
    BY <1>3, <2>1, <2>2, OtherCoverage, OtherTimed, Zenon
<1>17. ReceiptsMatch'
  <2>1. \A q \in Requesters : receipt[q] <= latest => receipt[q] <= latest + 1
    BY DEF RequestTypeOK, IngressTypeOK
  <2>2. latest + 1 <= latest + 1 /\ committed <= through /\ through <= latest + 1
    BY <1>9 DEF ReceiptsMatch
  <2>3. \A q \in Requesters : wants'[q] # {} =>
          /\ receipt'[q] <= latest + 1
          /\ receipt'[q] <= through => \A p \in wants'[q] : loadLevel[p] <= wantLevel'[q]
    <3> SUFFICES ASSUME NEW q \in Requesters, wants'[q] # {}
                 PROVE  /\ receipt'[q] <= latest + 1
                        /\ receipt'[q] <= through => \A p \in wants'[q] : loadLevel[p] <= wantLevel'[q]
      BY Zenon
    <3>1. CASE q = r
      BY <1>8, <1>9, <2>2, <3>1, Zenon
    <3>2. CASE q # r
      BY <1>7, <1>8, <2>1, <3>2, Zenon DEF ReceiptsMatch
    <3> QED
      BY <3>1, <3>2, Zenon
  <2> QED
    BY <1>3, <1>4, <2>2, <2>3, Zenon DEF ReceiptsMatch
<1>18. CommittedHolds'
  BY <1>3, <1>4, <1>7, <1>8, <1>9, Zenon DEF CommittedHolds
<1>19. ReadyStaysReady'
  <2>1. poll[r] = "none" /\ seen[r] = {}
    BY <1>1, Zenon DEF ReadyStaysReady
  <2>2. \A p, k : HasStatus(p, k)' <=> HasStatus(p, k)
    BY <1>4, Zenon DEF HasStatus
  <2> QED
    BY <1>3, <1>7, <1>8, <2>1, <2>2, ZenonT(30) DEF ReadyStaysReady
<1> QED
  BY <1>10, <1>11, <1>12, <1>13, <1>14, <1>15, <1>16, <1>17, <1>18, <1>19, Zenon

\* release_chunk_request_leases.
LEMMA ReleaseStep ==
  ASSUME IInv, NEW r \in Requesters, Release(r)
  PROVE  IInv'
<1> USE DEF IInv, TablesAgree, TypeOK
<1> DEFINE l == wantLevel[r]
           ps == wants[r]
           last == {p \in ps : leases[p][l] = 1}
<1>1. l \in 0 .. MaxLevel /\ ps \subseteq Positions
  BY Zenon DEF RequestTypeOK
<1>2. /\ leases' = [p \in Positions |->
                      IF p \in ps THEN [leases[p] EXCEPT ![l] = @ - 1] ELSE leases[p]]
      /\ tickets' = [p \in Positions |->
                      IF p \in last THEN tickets[p] \ {RequestTicket(l)} ELSE tickets[p]]
      /\ dirtyLoad' = dirtyLoad \cup {p \in last : RequestTicket(l) \in tickets[p]}
      /\ dirtySim' = dirtySim
  BY TicketTypes, Zenon DEF Release, Dirtied
<1>3. /\ latest' = latest + 1 /\ wants' = [wants EXCEPT ![r] = {}]
      /\ poll' = [poll EXCEPT ![r] = "none"] /\ seen' = [seen EXCEPT ![r] = {}]
      /\ UNCHANGED <<left, gen, generations, coverage, playerPos, committed, pc, expirations, through,
                     loadChanges, simChanges, wantLevel, receipt, saved, restarts, fresh, passes>>
      /\ UNCHANGED <<trackers, holders>>
  BY Zenon DEF Release, batch, persisted, history
<1>4. UNCHANGED <<loadSource, simSource, loadLevel, simLevel, holderLoad, holderSim, reached,
                  unloading>>
  BY <1>3, Zenon DEF trackers, holders
<1> HIDE DEF l, last
<1>5. \A p \in Positions, k \in 0 .. MaxLevel :
        leases'[p][k] = IF p \in ps /\ k = l THEN leases[p][k] - 1 ELSE leases[p][k]
  BY <1>1, <1>2, Zenon DEF IngressTypeOK
<1>6. \A p \in Positions : \A t : t \in tickets'[p] <=> t \in tickets[p] /\ ~(t = RequestTicket(l) /\ p \in last)
  BY <1>2, Zenon
<1>7. wants'[r] = {} /\ \A q \in Requesters \ {r} : wants'[q] = wants[q]
  BY <1>3, Zenon DEF RequestTypeOK
<1>20. poll'[r] = "none" /\ seen'[r] = {}
       /\ \A q \in Requesters \ {r} : poll'[q] = poll[q] /\ seen'[q] = seen[q]
  BY <1>3, Zenon DEF RequestTypeOK
<1>8. committed <= latest /\ latest + 1 \in Nat
  BY DEF ReceiptsMatch, IngressTypeOK
<1>9. \A p \in ps : leases[p][l] \in Nat \ {0}
  <2> SUFFICES ASSUME NEW p \in ps PROVE leases[p][l] \in Nat \ {0}
    BY Zenon
  <2>1. r \in Holding(wants, wantLevel, p, l)
    BY Zenon DEF Holding, l
  <2>2. Cardinality(Holding(wants, wantLevel, p, l)) # 0
    BY <2>1, HoldingFinite, FS_EmptySet, Zenon
  <2> QED
    BY <1>1, <2>2, HoldingFinite, LeasesAre
<1>10. StorageTypeOK'
  <2>1. tickets' \in [Positions -> SUBSET Tickets]
    BY <1>1, <1>2, TicketTypes, Zenon DEF StorageTypeOK
  <2> QED
    BY <1>3, <2>1, Zenon DEF StorageTypeOK
<1>11. IngressTypeOK'
  <2>1. leases' \in [Positions -> [0 .. MaxLevel -> Nat]]
    <3>1. \A p \in Positions : leases[p] \in [0 .. MaxLevel -> Nat]
      BY Zenon DEF IngressTypeOK
    <3>2. \A f \in [0 .. MaxLevel -> Nat] : f[l] \in Nat \ {0} => [f EXCEPT ![l] = @ - 1] \in [0 .. MaxLevel -> Nat]
      BY <1>1
    <3> QED
      BY <1>2, <1>9, <3>1, <3>2, Zenon
  <2>2. dirtyLoad' \subseteq Positions
    BY <1>1, <1>2, Zenon DEF IngressTypeOK, last
  <2> QED
    BY <1>2, <1>3, <1>8, <2>1, <2>2, Zenon DEF IngressTypeOK
<1>12. LevelTypeOK' /\ HoldersMatch'
  BY <1>3, <1>4, KeepLevelType, KeepHolders, Zenon
<1>13. RequestTypeOK'
  <2>1. wants' \in [Requesters -> SUBSET Positions]
    BY <1>3, Zenon DEF RequestTypeOK
  <2>2. seen' \in [Requesters -> SUBSET Positions]
    BY <1>3, Zenon DEF RequestTypeOK
  <2>3. poll' \in [Requesters -> {"none", "scanning", "ready"}]
    BY <1>3, Zenon DEF RequestTypeOK
  <2> QED
    BY <1>3, <2>1, <2>2, <2>3, Zenon DEF RequestTypeOK
<1>14. SourcesSynced'
  <2>1. RequestTicket(l)[1] = "request" /\ dirtyLoad \subseteq dirtyLoad' /\ dirtySim \subseteq dirtySim'
    BY <1>2, Zenon DEF RequestTicket
  <2>2. \A p \in Positions : p \in dirtyLoad' \/
          \A t : Loads(t[1]) => (t \in tickets[p] <=> t \in tickets'[p])
    BY <1>2, <1>6, Zenon
  <2>3. \A p \in Positions : p \in dirtySim' \/
          \A t : Simulates(t[1]) => (t \in tickets[p] <=> t \in tickets'[p])
    BY <1>6, <2>1, TicketTypes, Zenon
  <2> QED
    BY <1>4, <2>1, <2>2, <2>3, DirtySources, Zenon
<1>15. LeasesMatch'
  <2> SUFFICES ASSUME NEW p \in Positions, NEW k \in 0 .. MaxLevel
               PROVE  /\ leases'[p][k] = Cardinality(Holding(wants', wantLevel', p, k))
                      /\ RequestTicket(k) \in tickets'[p] <=> leases'[p][k] > 0
    BY LeasesNext, Zenon
  <2>1. leases[p][k] = Cardinality(Holding(wants, wantLevel, p, k)) /\ leases[p][k] \in Nat
        /\ (RequestTicket(k) \in tickets[p] <=> leases[p][k] > 0)
    BY LeasesAre, HoldingFinite
  <2>2. CASE p \in ps /\ k = l
    <3>1. Holding(wants', wantLevel', p, k) = Holding(wants, wantLevel, p, k) \ {r}
      <4>1. \A q \in Requesters : (p \in wants'[q] /\ wantLevel[q] = k) <=> (p \in wants[q] /\ wantLevel[q] = k /\ q # r)
        BY <1>7, Zenon
      <4> QED
        BY <1>3, <4>1, Zenon DEF Holding
    <3>2. r \in Holding(wants, wantLevel, p, k)
      BY <2>2, Zenon DEF Holding, l
    <3>3. Cardinality(Holding(wants', wantLevel', p, k)) = Cardinality(Holding(wants, wantLevel, p, k)) - 1
      BY <3>1, <3>2, HoldingFinite, FS_RemoveElement, Zenon
    <3>4. leases'[p][k] = leases[p][k] - 1
      BY <1>5, <2>2, Zenon
    <3>5. RequestTicket(k) \in tickets'[p] <=> leases[p][k] # 1 /\ leases[p][k] > 0
      BY <1>6, <2>1, <2>2, Zenon DEF last
    <3> QED
      BY <2>1, <3>3, <3>4, <3>5
  <2>3. CASE ~(p \in ps /\ k = l)
    <3>1. Holding(wants', wantLevel', p, k) = Holding(wants, wantLevel, p, k)
      <4>1. \A q \in Requesters : (p \in wants'[q] /\ wantLevel[q] = k) <=> (p \in wants[q] /\ wantLevel[q] = k)
        BY <1>7, <2>3, Zenon DEF l
      <4> QED
        BY <1>3, <4>1, Zenon DEF Holding
    <3>2. RequestTicket(k) \in tickets'[p] <=> RequestTicket(k) \in tickets[p]
      BY <1>6, <2>3, Zenon DEF RequestTicket, last
    <3> QED
      BY <1>5, <2>1, <2>3, <3>1, <3>2, Zenon
  <2> QED
    BY <2>2, <2>3, Zenon
<1>16. CoverageMatches' /\ TimedMatch'
  <2>1. \A p \in Positions : \A t : t[1] # "request" => (t \in tickets'[p] <=> t \in tickets[p])
    BY <1>6 DEF RequestTicket
  <2>2. LoadingTicket[1] # "request" /\ SimulationTicket[1] # "request"
        /\ \A t \in Timed : <<t, TimedLevel[t]>>[1] # "request"
    BY TicketTypes, Zenon DEF LoadingTicket, SimulationTicket
  <2> QED
    BY <1>3, <2>1, <2>2, OtherCoverage, OtherTimed, Zenon
<1>17. ReceiptsMatch'
  <2>1. \A q \in Requesters : receipt[q] <= latest => receipt[q] <= latest + 1
    BY DEF RequestTypeOK, IngressTypeOK
  <2>2. committed <= through /\ through <= latest + 1
    BY <1>8 DEF ReceiptsMatch, IngressTypeOK
  <2>3. \A q \in Requesters : wants'[q] # {} => q # r /\ wants'[q] = wants[q]
    BY <1>7, Zenon
  <2> QED
    BY <1>3, <1>4, <2>1, <2>2, <2>3, Zenon DEF ReceiptsMatch
<1>18. CommittedHolds'
  BY <1>3, <1>4, <1>7, Zenon DEF CommittedHolds
<1>19. ReadyStaysReady'
  <2>1. \A p, k : HasStatus(p, k)' <=> HasStatus(p, k)
    BY <1>4, Zenon DEF HasStatus
  <2>2. "none" # "ready"
    OBVIOUS
  <2> SUFFICES ASSUME NEW q \in Requesters
               PROVE  /\ poll'[q] # "none" => wants'[q] # {} /\ receipt[q] <= committed
                      /\ seen'[q] \subseteq wants'[q] /\ (poll'[q] = "ready" => seen'[q] = wants'[q])
                      /\ \A p \in seen'[q] : poll'[q] # "none" /\ HasStatus(p, wantLevel[q])
    BY <1>3, <2>1, Zenon DEF ReadyStaysReady
  <2>3. CASE q = r
    BY <1>7, <1>20, <2>2, <2>3, Zenon
  <2>4. CASE q # r
    BY <1>7, <1>20, <2>4, Zenon DEF ReadyStaysReady
  <2> QED
    BY <2>3, <2>4, Zenon
<1> QED
  BY <1>10, <1>11, <1>12, <1>13, <1>14, <1>15, <1>16, <1>17, <1>18, <1>19, Zenon

\* A poll that found the receipt committed.
LEMMA PollCommittedStep ==
  ASSUME IInv, NEW r \in Requesters, PollCommitted(r)
  PROVE  IInv'
<1> USE DEF IInv, TablesAgree, TypeOK
<1>1. /\ UNCHANGED <<storage, ingress, trackers, committed, holders, pc, expirations, batch, wants,
                     wantLevel, receipt, seen, persisted, history>>
      /\ poll' = [poll EXCEPT ![r] = "scanning"]
      /\ wants[r] # {} /\ receipt[r] <= committed /\ poll[r] = "none"
  BY Zenon DEF PollCommitted
<1>2. UNCHANGED <<tickets, left, gen, generations, leases, coverage, playerPos, latest, dirtyLoad, dirtySim,
                  loadSource, simSource, loadLevel, simLevel, holderLoad, holderSim, reached, unloading,
                  loadChanges, simChanges, through, saved, restarts, fresh, passes>>
  BY <1>1, Zenon DEF storage, ingress, trackers, holders, batch, persisted, history
<1>3. StorageTypeOK' /\ IngressTypeOK' /\ LevelTypeOK' /\ SourcesSynced' /\ LeasesMatch'
  BY <1>1, <1>2, KeepStorageType, KeepIngressType, KeepLevelType, KeepSources, KeepLeases, Zenon
<1>4. CoverageMatches' /\ HoldersMatch' /\ TimedMatch' /\ ReceiptsMatch' /\ CommittedHolds'
  BY <1>1, <1>2, KeepCoverage, KeepHolders, KeepTimed, KeepReceipts, KeepCommitted, Zenon
<1>5. RequestTypeOK'
  <2>1. poll' \in [Requesters -> {"none", "scanning", "ready"}]
    BY <1>1, Zenon DEF RequestTypeOK
  <2> QED
    BY <1>1, <2>1, Zenon DEF RequestTypeOK
<1>6. ReadyStaysReady'
  <2>1. \A p, k : HasStatus(p, k)' <=> HasStatus(p, k)
    BY <1>2, Zenon DEF HasStatus
  <2>2. "scanning" # "ready" /\ "scanning" # "none"
    OBVIOUS
  <2>3. \A q \in Requesters : poll'[q] = IF q = r THEN "scanning" ELSE poll[q]
    BY <1>1, Zenon DEF RequestTypeOK
  <2> QED
    BY <1>1, <2>1, <2>2, <2>3, ZenonT(30) DEF ReadyStaysReady
<1> QED
  BY <1>3, <1>4, <1>5, <1>6, Zenon

\* A poll that looks at one more chunk.
LEMMA PollChunkStep ==
  ASSUME IInv, NEW r \in Requesters, NEW c \in Positions, PollChunk(r, c)
  PROVE  IInv'
<1> USE DEF IInv, TablesAgree, TypeOK
<1>1. /\ UNCHANGED <<storage, ingress, trackers, committed, holders, pc, expirations, batch, wants,
                     wantLevel, receipt, persisted, history>>
      /\ poll[r] = "scanning" /\ c \in wants[r] /\ c \notin seen[r]
  BY Zenon DEF PollChunk
<1>2. UNCHANGED <<tickets, left, gen, generations, leases, coverage, playerPos, latest, dirtyLoad, dirtySim,
                  loadSource, simSource, loadLevel, simLevel, holderLoad, holderSim, reached, unloading,
                  loadChanges, simChanges, through, saved, restarts, fresh, passes>>
  BY <1>1, Zenon DEF storage, ingress, trackers, holders, batch, persisted, history
<1>3. StorageTypeOK' /\ IngressTypeOK' /\ LevelTypeOK' /\ SourcesSynced' /\ LeasesMatch'
  BY <1>1, <1>2, KeepStorageType, KeepIngressType, KeepLevelType, KeepSources, KeepLeases, Zenon
<1>4. CoverageMatches' /\ HoldersMatch' /\ TimedMatch' /\ ReceiptsMatch' /\ CommittedHolds'
  BY <1>1, <1>2, KeepCoverage, KeepHolders, KeepTimed, KeepReceipts, KeepCommitted, Zenon
<1>5. \A p, k : HasStatus(p, k)' <=> HasStatus(p, k)
  BY <1>2, Zenon DEF HasStatus
<1>6. "scanning" # "ready" /\ "scanning" # "none" /\ "none" # "ready"
  OBVIOUS
<1>7. CASE HasStatus(c, wantLevel[r])
  <2>1. /\ seen' = [seen EXCEPT ![r] = @ \cup {c}]
        /\ poll' = IF seen[r] \cup {c} = wants[r] THEN [poll EXCEPT ![r] = "ready"] ELSE poll
    BY <1>7, Zenon DEF PollChunk
  <2>2. \A q \in Requesters : /\ seen'[q] = IF q = r THEN seen[r] \cup {c} ELSE seen[q]
                              /\ q # r => poll'[q] = poll[q]
                              /\ poll'[r] # "none"
                              /\ poll'[r] = "ready" => seen[r] \cup {c} = wants[r]
    BY <1>1, <1>6, <2>1, Zenon DEF RequestTypeOK
  <2>3. seen' \in [Requesters -> SUBSET Positions]
    BY <2>1, Zenon DEF RequestTypeOK
  <2>4. poll' \in [Requesters -> {"none", "scanning", "ready"}]
    BY <2>1, Zenon DEF RequestTypeOK
  <2>5. RequestTypeOK'
    BY <1>1, <2>3, <2>4, Zenon DEF RequestTypeOK
  <2>6. ReadyStaysReady'
    <3> SUFFICES ASSUME NEW q \in Requesters
                 PROVE  /\ poll'[q] # "none" => wants[q] # {} /\ receipt[q] <= committed
                        /\ seen'[q] \subseteq wants[q] /\ (poll'[q] = "ready" => seen'[q] = wants[q])
                        /\ \A p \in seen'[q] : poll'[q] # "none" /\ HasStatus(p, wantLevel[q])
      BY <1>1, <1>5, Zenon DEF ReadyStaysReady
    <3>1. CASE q = r
      <4>1. wants[r] # {} /\ receipt[r] <= committed /\ seen[r] \subseteq wants[r]
            /\ \A p \in seen[r] : HasStatus(p, wantLevel[r])
        BY <1>1, <1>6, Zenon DEF ReadyStaysReady
      <4> QED
        BY <1>1, <1>7, <2>2, <3>1, <4>1, Zenon
    <3>2. CASE q # r
      BY <2>2, <3>2, Zenon DEF ReadyStaysReady
    <3> QED
      BY <3>1, <3>2, Zenon
  <2> QED
    BY <1>3, <1>4, <2>5, <2>6, Zenon
<1>8. CASE ~HasStatus(c, wantLevel[r])
  <2>1. /\ seen' = [seen EXCEPT ![r] = {}] /\ poll' = [poll EXCEPT ![r] = "none"]
    BY <1>8, Zenon DEF PollChunk
  <2>2. \A q \in Requesters : /\ seen'[q] = IF q = r THEN {} ELSE seen[q]
                              /\ poll'[q] = IF q = r THEN "none" ELSE poll[q]
    BY <2>1, Zenon DEF RequestTypeOK
  <2>3. seen' \in [Requesters -> SUBSET Positions]
    BY <2>1, Zenon DEF RequestTypeOK
  <2>4. poll' \in [Requesters -> {"none", "scanning", "ready"}]
    BY <2>1, Zenon DEF RequestTypeOK
  <2>5. RequestTypeOK'
    BY <1>1, <2>3, <2>4, Zenon DEF RequestTypeOK
  <2>6. ReadyStaysReady'
    BY <1>1, <1>5, <1>6, <2>2, ZenonT(30) DEF ReadyStaysReady
  <2> QED
    BY <1>3, <1>4, <2>5, <2>6, Zenon
<1> QED
  BY <1>7, <1>8, Zenon

-----------------------------------------------------------------------------
\* Holders and the commit of a batch.

\* A poll keeps what it saw while every chunk that it saw keeps its status.
LEMMA StillReady ==
  ASSUME ReadyStaysReady, UNCHANGED requests,
         \A r \in Requesters : receipt[r] <= committed => receipt[r] <= committed',
         \A r \in Requesters : \A p \in seen[r] :
            poll[r] # "none" /\ HasStatus(p, wantLevel[r]) => HasStatus(p, wantLevel[r])'
  PROVE  ReadyStaysReady'
<1> SUFFICES ASSUME NEW r \in Requesters
             PROVE  /\ poll[r] # "none" => wants[r] # {} /\ receipt[r] <= committed'
                    /\ seen[r] \subseteq wants[r] /\ (poll[r] = "ready" => seen[r] = wants[r])
                    /\ \A p \in seen[r] : poll[r] # "none" /\ HasStatus(p, wantLevel[r])'
  BY Zenon DEF ReadyStaysReady, requests, HasStatus
<1> QED
  BY Zenon DEF ReadyStaysReady

\* The status of a chunk after a step that leaves the requests alone.
LEMMA StatusNext ==
  ASSUME UNCHANGED requests, NEW r, NEW p
  PROVE  HasStatus(p, wantLevel[r])' <=> holderLoad'[p] # Absent /\ reached'[p] <= Max({wantLevel[r], FullLevel})
BY Zenon DEF requests, HasStatus

\* A chunk that a poll saw is held by the trackers at the level of the request.
LEMMA SeenHeld ==
  ASSUME IInv, NEW r \in Requesters, NEW p \in seen[r], poll[r] # "none"
  PROVE  /\ wants[r] # {} /\ p \in wants[r] /\ p \in Positions /\ receipt[r] <= committed
         /\ HasStatus(p, wantLevel[r]) /\ loadLevel[p] <= wantLevel[r] /\ loadLevel[p] # Absent
<1> USE DEF IInv, TablesAgree, TypeOK
<1>1. wants[r] # {} /\ p \in wants[r] /\ p \in Positions /\ receipt[r] <= committed /\ HasStatus(p, wantLevel[r])
  BY Zenon DEF ReadyStaysReady, RequestTypeOK
<1>2. receipt[r] <= through
  BY <1>1 DEF ReceiptsMatch, RequestTypeOK, IngressTypeOK
<1>3. loadLevel[p] <= wantLevel[r]
  BY <1>1, <1>2, Zenon DEF ReceiptsMatch
<1>4. loadLevel[p] # Absent
  BY <1>3, LevelFacts DEF RequestTypeOK
<1> QED
  BY <1>1, <1>3, <1>4, Zenon

\* A holder publishes a further status.
LEMMA GenerateStep ==
  ASSUME IInv, NEW c \in Positions, NEW s \in Levels, Generate(c, s)
  PROVE  IInv'
<1> USE DEF IInv, TablesAgree, TypeOK
<1>1. /\ UNCHANGED <<storage, ingress, trackers, committed, holderLoad, holderSim, unloading, pc,
                     expirations, batch, requests, persisted, history>>
      /\ reached' = [reached EXCEPT ![c] = s] /\ s < reached[c]
  BY Zenon DEF Generate
<1>2. UNCHANGED <<tickets, left, gen, generations, leases, coverage, playerPos, latest, dirtyLoad, dirtySim,
                  loadSource, simSource, loadLevel, simLevel, loadChanges, simChanges, through,
                  wants, wantLevel, receipt, saved, restarts, fresh, passes>>
  BY <1>1, Zenon DEF storage, ingress, trackers, batch, requests, persisted, history
<1>3. StorageTypeOK' /\ IngressTypeOK' /\ RequestTypeOK' /\ SourcesSynced' /\ LeasesMatch'
  BY <1>1, <1>2, KeepStorageType, KeepIngressType, KeepRequestType, KeepSources, KeepLeases, Zenon
<1>4. CoverageMatches' /\ HoldersMatch' /\ TimedMatch' /\ ReceiptsMatch' /\ CommittedHolds'
  BY <1>1, <1>2, KeepCoverage, KeepHolders, KeepTimed, KeepReceipts, KeepCommitted, Zenon
<1>5. LevelTypeOK'
  <2>1. reached' \in [Positions -> Levels]
    BY <1>1, Zenon DEF LevelTypeOK
  <2> QED
    BY <1>1, <1>2, <2>1, Zenon DEF LevelTypeOK
<1>6. \A p \in Positions : reached'[p] \in Nat /\ reached[p] \in Nat /\ reached'[p] <= reached[p]
  BY <1>1, LevelFacts DEF LevelTypeOK
<1>7. ReadyStaysReady'
  <2>1. \A r \in Requesters : \A p \in seen[r] :
          poll[r] # "none" /\ HasStatus(p, wantLevel[r]) => HasStatus(p, wantLevel[r])'
    <3> SUFFICES ASSUME NEW r \in Requesters, NEW p \in seen[r], HasStatus(p, wantLevel[r])
                 PROVE  HasStatus(p, wantLevel[r])'
      BY Zenon
    <3>1. p \in Positions /\ wantLevel[r] \in Int /\ FullLevel \in Int
      BY LevelFacts DEF RequestTypeOK
    <3>2. Max({wantLevel[r], FullLevel}) \in Int
      <4>1. Max({wantLevel[r], FullLevel}) \in {wantLevel[r], FullLevel}
        BY <3>1, MaxFacts, Zenon
      <4> QED
        BY <3>1, <4>1, Zenon
    <3>3. holderLoad[p] # Absent /\ reached[p] <= Max({wantLevel[r], FullLevel})
      BY Zenon DEF HasStatus
    <3>4. reached'[p] <= Max({wantLevel[r], FullLevel})
      BY <1>6, <3>1, <3>2, <3>3
    <3> QED
      BY <1>1, <3>3, <3>4, StatusNext, Zenon
  <2> QED
    BY <1>1, <2>1, StillReady, Zenon
<1> QED
  BY <1>3, <1>4, <1>5, <1>7, Zenon

\* A saved holder leaves unloading_chunks: no poll saw it.
LEMMA FinishUnloadStep ==
  ASSUME IInv, NEW c \in Positions, FinishUnload(c)
  PROVE  IInv'
<1> USE DEF IInv, TablesAgree, TypeOK
<1>1. /\ UNCHANGED <<storage, ingress, trackers, committed, holderLoad, holderSim, pc, expirations, batch,
                     requests, persisted, history>>
      /\ reached' = [reached EXCEPT ![c] = Absent] /\ c \in unloading /\ unloading' = unloading \ {c}
  BY Zenon DEF FinishUnload
<1>2. UNCHANGED <<tickets, left, gen, generations, leases, coverage, playerPos, latest, dirtyLoad, dirtySim,
                  loadSource, simSource, loadLevel, simLevel, loadChanges, simChanges, through,
                  wants, wantLevel, receipt, saved, restarts, fresh, passes>>
  BY <1>1, Zenon DEF storage, ingress, trackers, batch, requests, persisted, history
<1>3. StorageTypeOK' /\ IngressTypeOK' /\ RequestTypeOK' /\ SourcesSynced' /\ LeasesMatch'
  BY <1>1, <1>2, KeepStorageType, KeepIngressType, KeepRequestType, KeepSources, KeepLeases, Zenon
<1>4. CoverageMatches' /\ TimedMatch' /\ ReceiptsMatch' /\ CommittedHolds'
  BY <1>1, <1>2, KeepCoverage, KeepTimed, KeepReceipts, KeepCommitted, Zenon
<1>5. LevelTypeOK'
  <2>1. reached' \in [Positions -> Levels]
    BY <1>1, LevelFacts, Zenon DEF LevelTypeOK
  <2> QED
    BY <1>1, <1>2, <2>1, Zenon DEF LevelTypeOK
<1>6. HoldersMatch'
  BY <1>1, <1>2, Zenon DEF HoldersMatch
<1>7. ReadyStaysReady'
  <2>1. \A r \in Requesters : \A p \in seen[r] :
          poll[r] # "none" /\ HasStatus(p, wantLevel[r]) => HasStatus(p, wantLevel[r])'
    <3> SUFFICES ASSUME NEW r \in Requesters, NEW p \in seen[r], HasStatus(p, wantLevel[r])
                 PROVE  HasStatus(p, wantLevel[r])'
      BY Zenon
    <3>1. holderLoad[p] # Absent /\ reached[p] <= Max({wantLevel[r], FullLevel})
      BY Zenon DEF HasStatus
    <3>2. p # c /\ p \in Positions
      <4>1. p \in Positions
        BY Zenon DEF RequestTypeOK
      <4>2. holderLoad[c] = Absent
        BY <1>1, Zenon DEF HoldersMatch
      <4> QED
        BY <3>1, <4>1, <4>2, Zenon
    <3>3. reached'[p] = reached[p]
      BY <1>1, <3>2, Zenon DEF LevelTypeOK
    <3> QED
      BY <1>1, <3>1, <3>3, StatusNext, Zenon
  <2> QED
    BY <1>1, <2>1, StillReady, Zenon
<1> QED
  BY <1>3, <1>4, <1>5, <1>6, <1>7, Zenon

\* apply_simulation_changes.
LEMMA ApplySimulationStep ==
  ASSUME IInv, ApplySimulation
  PROVE  IInv'
<1> USE DEF IInv, TablesAgree, TypeOK
<1>1. /\ UNCHANGED <<storage, ingress, trackers, committed, holderLoad, reached, unloading, expirations,
                     loadChanges, through, requests, persisted, history>>
      /\ pc = "updated" /\ pc' = "committing" /\ simChanges' = {}
      /\ holderSim' = [p \in Positions |->
            IF p \in simChanges /\ holderLoad[p] # Absent THEN simLevel[p] ELSE holderSim[p]]
  BY Zenon DEF ApplySimulation
<1>2. UNCHANGED <<tickets, left, gen, generations, leases, coverage, playerPos, latest, dirtyLoad, dirtySim,
                  loadSource, simSource, loadLevel, simLevel,
                  wants, wantLevel, receipt, saved, restarts, fresh, passes>>
  BY <1>1, Zenon DEF storage, ingress, trackers, requests, persisted, history
<1>3. StorageTypeOK' /\ IngressTypeOK' /\ RequestTypeOK' /\ SourcesSynced' /\ LeasesMatch'
  BY <1>1, <1>2, KeepStorageType, KeepIngressType, KeepRequestType, KeepSources, KeepLeases, Zenon
<1>4. CoverageMatches' /\ ReceiptsMatch' /\ CommittedHolds' /\ ReadyStaysReady'
  BY <1>1, <1>2, KeepCoverage, KeepReceipts, KeepCommitted, KeepReady, Zenon
<1>5. LevelTypeOK'
  <2>1. holderSim' \in [Positions -> Levels]
    BY <1>1, Zenon DEF LevelTypeOK
  <2> QED
    BY <1>1, <1>2, <2>1, Zenon DEF LevelTypeOK
<1>6. HoldersMatch'
  <2>1. \A p \in Positions : holderSim'[p] = IF p \in simChanges /\ holderLoad[p] # Absent THEN simLevel[p] ELSE holderSim[p]
    BY <1>1, Zenon
  <2> QED
    BY <1>1, <1>2, <2>1, ZenonT(30) DEF HoldersMatch
<1>7. TimedMatch'
  <2>1. expirations = {}
    BY <1>1, Zenon DEF TimedMatch
  <2> QED
    BY <1>1, <1>2, <2>1, Zenon DEF TimedMatch
<1> QED
  BY <1>3, <1>4, <1>5, <1>6, <1>7, Zenon

\* update_chunk_level for one position of the batch.
LEMMA CommitLevelStep ==
  ASSUME IInv, NEW c \in Positions, CommitLevel(c)
  PROVE  IInv'
<1> USE DEF IInv, TablesAgree, TypeOK
<1>1. /\ UNCHANGED <<storage, ingress, trackers, committed, reached, pc, expirations, simChanges, through,
                     requests, persisted, history>>
      /\ pc = "committing" /\ c \in loadChanges /\ loadChanges' = loadChanges \ {c}
      /\ holderLoad' = [holderLoad EXCEPT ![c] = loadLevel[c]]
      /\ holderSim' = [holderSim EXCEPT ![c] = IF loadLevel[c] = Absent THEN Absent
                                               ELSE IF holderLoad[c] = Absent THEN simLevel[c]
                                               ELSE @]
      /\ unloading' = IF loadLevel[c] # Absent THEN unloading \ {c}
                      ELSE IF holderLoad[c] # Absent THEN unloading \cup {c}
                      ELSE unloading
  BY Zenon DEF CommitLevel
<1>2. UNCHANGED <<tickets, left, gen, generations, leases, coverage, playerPos, latest, dirtyLoad, dirtySim,
                  loadSource, simSource, loadLevel, simLevel,
                  wants, wantLevel, receipt, saved, restarts, fresh, passes>>
  BY <1>1, Zenon DEF storage, ingress, trackers, requests, persisted, history
<1>3. StorageTypeOK' /\ IngressTypeOK' /\ RequestTypeOK' /\ SourcesSynced' /\ LeasesMatch'
  BY <1>1, <1>2, KeepStorageType, KeepIngressType, KeepRequestType, KeepSources, KeepLeases, Zenon
<1>4. CoverageMatches' /\ ReceiptsMatch' /\ TimedMatch'
  BY <1>1, <1>2, KeepCoverage, KeepReceipts, KeepTimed, Zenon
<1>5. holderLoad'[c] = loadLevel[c] /\ \A p \in Positions \ {c} : holderLoad'[p] = holderLoad[p]
  BY <1>1, Zenon DEF LevelTypeOK
<1>6. /\ holderSim'[c] = IF loadLevel[c] = Absent THEN Absent
                         ELSE IF holderLoad[c] = Absent THEN simLevel[c] ELSE holderSim[c]
      /\ \A p \in Positions \ {c} : holderSim'[p] = holderSim[p]
  BY <1>1, Zenon DEF LevelTypeOK
<1>7. LevelTypeOK'
  <2>1. holderLoad' \in [Positions -> Levels]
    BY <1>1, Zenon DEF LevelTypeOK
  <2>2. holderSim' \in [Positions -> Levels]
    BY <1>1, LevelFacts, Zenon DEF LevelTypeOK
  <2>3. loadChanges' \subseteq Positions /\ unloading' \subseteq Positions
    BY <1>1, Zenon DEF LevelTypeOK
  <2> QED
    BY <1>1, <1>2, <2>1, <2>2, <2>3, Zenon DEF LevelTypeOK
<1>8. HoldersMatch'
  <2> SUFFICES ASSUME NEW p \in Positions
               PROVE  /\ holderLoad'[p] = loadLevel[p] \/ (pc \in {"updated", "committing"} /\ p \in loadChanges')
                      /\ IF holderLoad'[p] = Absent THEN holderSim'[p] = Absent
                         ELSE holderSim'[p] = simLevel[p] \/ (pc = "updated" /\ p \in simChanges)
                      /\ p \in unloading' => holderLoad'[p] = Absent
    BY <1>1, <1>2, Zenon DEF HoldersMatch
  <2>1. "updated" # "committing"
    OBVIOUS
  <2>2. CASE p = c
    <3>1. holderLoad[c] # Absent => holderSim[c] = simLevel[c]
      BY <1>1, <2>1, Zenon DEF HoldersMatch
    <3> QED
      BY <1>1, <1>5, <1>6, <2>2, <3>1, Zenon
  <2>3. CASE p # c
    <3>1. p \in loadChanges' <=> p \in loadChanges
      BY <1>1, <2>3, Zenon
    <3>2. p \in unloading' <=> p \in unloading
      BY <1>1, <2>3, Zenon
    <3> QED
      <4>1. holderLoad'[p] = holderLoad[p] /\ holderSim'[p] = holderSim[p]
        BY <1>5, <1>6, <2>3, Zenon
      <4> QED
        BY <3>1, <3>2, <4>1, Zenon DEF HoldersMatch
  <2> QED
    BY <2>2, <2>3, Zenon
<1>9. CommittedHolds'
  <2> SUFFICES ASSUME NEW r \in Requesters, wants[r] # {}, receipt[r] <= committed, NEW p \in wants[r]
               PROVE  holderLoad'[p] <= wantLevel[r]
    BY <1>1, <1>2, Zenon DEF CommittedHolds
  <2>1. receipt[r] <= through
    BY DEF ReceiptsMatch, RequestTypeOK, IngressTypeOK
  <2>2. loadLevel[p] <= wantLevel[r] /\ holderLoad[p] <= wantLevel[r] /\ p \in Positions
    BY <2>1, Zenon DEF ReceiptsMatch, CommittedHolds, RequestTypeOK
  <2> QED
    BY <1>5, <2>2, Zenon
<1>10. ReadyStaysReady'
  <2>1. \A r \in Requesters : \A p \in seen[r] :
          poll[r] # "none" /\ HasStatus(p, wantLevel[r]) => HasStatus(p, wantLevel[r])'
    <3> SUFFICES ASSUME NEW r \in Requesters, NEW p \in seen[r], HasStatus(p, wantLevel[r]), poll[r] # "none"
                 PROVE  HasStatus(p, wantLevel[r])'
      BY Zenon
    <3>1. holderLoad[p] # Absent /\ reached[p] <= Max({wantLevel[r], FullLevel})
      BY Zenon DEF HasStatus
    <3>2. p \in Positions /\ loadLevel[p] # Absent
      BY SeenHeld, Zenon
    <3>3. holderLoad'[p] # Absent
      BY <1>5, <3>1, <3>2, Zenon
    <3> QED
      BY <1>1, <3>1, <3>3, StatusNext, Zenon
  <2> QED
    BY <1>1, <2>1, StillReady, Zenon
<1> QED
  BY <1>3, <1>4, <1>7, <1>8, <1>9, <1>10, Zenon

\* publish_committed.
LEMMA PublishStep ==
  ASSUME IInv, Publish
  PROVE  IInv'
<1> USE DEF IInv, TablesAgree, TypeOK
<1>1. /\ UNCHANGED <<storage, ingress, trackers, holders, expirations, batch, requests, persisted, history>>
      /\ pc = "committing" /\ loadChanges = {} /\ pc' = "idle" /\ committed' = Max({committed, through})
  BY Zenon DEF Publish
<1>2. UNCHANGED <<tickets, left, gen, generations, leases, coverage, playerPos, latest, dirtyLoad, dirtySim,
                  loadSource, simSource, loadLevel, simLevel, holderLoad, holderSim, reached, unloading,
                  loadChanges, simChanges, through,
                  wants, wantLevel, receipt, saved, restarts, fresh, passes>>
  BY <1>1, Zenon DEF storage, ingress, trackers, holders, batch, requests, persisted, history
<1>3. StorageTypeOK' /\ RequestTypeOK' /\ SourcesSynced' /\ LeasesMatch' /\ CoverageMatches'
  BY <1>1, <1>2, KeepStorageType, KeepRequestType, KeepSources, KeepLeases, KeepCoverage, Zenon
<1>4. committed' = through
  <2>1. committed \in Int /\ through \in Int /\ committed <= through
    BY DEF IngressTypeOK, ReceiptsMatch
  <2>2. Max({committed, through}) = IF committed >= through THEN committed ELSE through
    BY <2>1, MaxFacts, Zenon
  <2> QED
    BY <1>1, <2>1, <2>2
<1>5. IngressTypeOK'
  BY <1>2, <1>4, Zenon DEF IngressTypeOK
<1>6. LevelTypeOK'
  <2>1. "idle" \in {"idle", "aging", "aged", "updated", "committing"}
    OBVIOUS
  <2> QED
    BY <1>1, <1>2, <2>1, Zenon DEF LevelTypeOK
<1>7. "updated" # "committing" /\ "aging" # "committing"
  OBVIOUS
<1>8. HoldersMatch'
  BY <1>1, <1>2, <1>7, ZenonT(30) DEF HoldersMatch
<1>9. TimedMatch'
  <2>1. expirations = {}
    BY <1>1, <1>7, Zenon DEF TimedMatch
  <2> QED
    BY <1>1, <1>2, <2>1, Zenon DEF TimedMatch
<1>10. ReceiptsMatch'
  <2>1. through <= through
    BY DEF IngressTypeOK
  <2> QED
    BY <1>2, <1>4, <2>1, Zenon DEF ReceiptsMatch
<1>11. CommittedHolds'
  <2> SUFFICES ASSUME NEW r \in Requesters, wants[r] # {}, receipt[r] <= through, NEW p \in wants[r]
               PROVE  holderLoad[p] <= wantLevel[r]
    BY <1>2, <1>4, Zenon DEF CommittedHolds
  <2>1. p \in Positions /\ loadLevel[p] <= wantLevel[r]
    BY Zenon DEF ReceiptsMatch, RequestTypeOK
  <2>2. holderLoad[p] = loadLevel[p]
    BY <1>1, <2>1, Zenon DEF HoldersMatch
  <2> QED
    BY <2>1, <2>2, Zenon
<1>12. ReadyStaysReady'
  <2>1. \A r \in Requesters : receipt[r] <= committed => receipt[r] <= committed'
    BY <1>4 DEF RequestTypeOK, IngressTypeOK, ReceiptsMatch
  <2>2. \A r \in Requesters : \A p \in seen[r] :
          poll[r] # "none" /\ HasStatus(p, wantLevel[r]) => HasStatus(p, wantLevel[r])'
    BY <1>2, Zenon DEF HasStatus
  <2> QED
    BY <1>1, <2>1, <2>2, StillReady, Zenon
<1> QED
  BY <1>3, <1>5, <1>6, <1>8, <1>9, <1>10, <1>11, <1>12, Zenon

-----------------------------------------------------------------------------
\* Timed tickets and the source phase.

\* The holders while the game thread is between two batches.
LEMMA IdleHolders ==
  ASSUME HoldersMatch, UNCHANGED <<loadLevel, simLevel, holderLoad, holderSim, unloading>>,
         pc \in {"idle", "aging", "aged"}
  PROVE  HoldersMatch'
<1>1. pc \notin {"updated", "committing"} /\ pc # "updated"
  OBVIOUS
<1> QED
  BY <1>1, ZenonT(30) DEF HoldersMatch

\* eligible_timed_ticket_expirations.
LEMMA SnapshotTimedStep ==
  ASSUME IInv, NEW busy \in SUBSET Positions, SnapshotTimed(busy)
  PROVE  IInv'
<1> USE DEF IInv, TablesAgree, TypeOK
<1>1. /\ UNCHANGED <<storage, ingress, trackers, committed, holders, batch, requests, persisted, passes>>
      /\ pc = "idle" /\ pc' = "aging" /\ fresh' = {}
      /\ expirations' = {e \in TimedEntries : e[1] \notin busy}
  BY Zenon DEF SnapshotTimed
<1>2. UNCHANGED <<tickets, left, gen, generations, leases, coverage, playerPos, latest, dirtyLoad, dirtySim,
                  loadSource, simSource, loadLevel, simLevel, holderLoad, holderSim, reached, unloading,
                  loadChanges, simChanges, through,
                  wants, wantLevel, receipt, saved, restarts>>
  BY <1>1, Zenon DEF storage, ingress, trackers, holders, batch, requests, persisted
<1>3. IngressTypeOK' /\ RequestTypeOK' /\ SourcesSynced' /\ LeasesMatch' /\ CoverageMatches'
  BY <1>1, <1>2, KeepIngressType, KeepRequestType, KeepSources, KeepLeases, KeepCoverage, Zenon
<1>4. ReceiptsMatch' /\ CommittedHolds' /\ ReadyStaysReady'
  BY <1>1, <1>2, KeepReceipts, KeepCommitted, KeepReady, Zenon
<1>5. HoldersMatch'
  <2>1. pc \in {"idle", "aging", "aged"}
    BY <1>1, Zenon
  <2> QED
    BY <1>2, <2>1, IdleHolders, Zenon
<1>6. LevelTypeOK'
  <2>1. "aging" \in {"idle", "aging", "aged", "updated", "committing"}
    OBVIOUS
  <2> QED
    BY <1>1, <1>2, <2>1, Zenon DEF LevelTypeOK
<1>7. \A e \in expirations' : e \in Positions \X Timed \X Nat /\ e[3] = gen[e[1]][e[2]]
  <2>1. \A y \in Positions \X Timed : gen[y[1]][y[2]] \in Nat
    BY Zenon DEF StorageTypeOK
  <2>2. \A e \in TimedEntries : e \in Positions \X Timed \X Nat /\ e[3] = gen[e[1]][e[2]]
    BY <2>1 DEF TimedEntries
  <2> QED
    BY <1>1, <2>2, Zenon
<1>8. StorageTypeOK'
  BY <1>1, <1>2, <1>7, Zenon DEF StorageTypeOK
<1>9. TimedMatch'
  BY <1>1, <1>2, <1>7, Zenon DEF TimedMatch
<1> QED
  BY <1>3, <1>4, <1>5, <1>6, <1>8, <1>9, Zenon

\* add_or_refresh_portal_ticket and add_or_refresh_ender_pearl_ticket.
LEMMA PlaceTimedStep ==
  ASSUME IInv, NEW c \in Positions, NEW ty \in Timed, PlaceTimed(c, ty)
  PROVE  IInv'
<1> USE DEF IInv, TablesAgree, TypeOK
<1> DEFINE ticket == <<ty, TimedLevel[ty]>>
<1>1. /\ tickets' = [tickets EXCEPT ![c] = @ \cup {ticket}]
      /\ dirtyLoad' = dirtyLoad \cup (IF gen[c][ty] = 0 THEN {c} ELSE {})
      /\ dirtySim' = dirtySim \cup (IF gen[c][ty] = 0 THEN {c} ELSE {})
      /\ generations' = generations + 1
      /\ gen' = [gen EXCEPT ![c][ty] = generations + 1]
      /\ left' = [left EXCEPT ![c][ty] = Timeout[ty]]
      /\ fresh' = fresh \cup {<<c, ty>>} /\ passes' = [passes EXCEPT ![c][ty] = 0]
      /\ UNCHANGED <<leases, coverage, playerPos, latest, trackers, committed, holders, pc,
                     expirations, batch, requests, persisted>>
  BY TicketTypes, Zenon DEF PlaceTimed, Dirtied
<1>2. UNCHANGED <<loadSource, simSource, loadLevel, simLevel, holderLoad, holderSim, reached, unloading,
                  loadChanges, simChanges, through, wants, wantLevel, receipt, saved, restarts>>
  BY <1>1, Zenon DEF trackers, holders, batch, requests, persisted
<1>3. LevelTypeOK' /\ RequestTypeOK' /\ HoldersMatch'
  BY <1>1, <1>2, KeepLevelType, KeepRequestType, KeepHolders, Zenon
<1>4. ReceiptsMatch' /\ CommittedHolds' /\ ReadyStaysReady'
  BY <1>1, <1>2, KeepReceipts, KeepCommitted, KeepReady, Zenon
<1> HIDE DEF ticket
<1>5. \A p \in Positions : \A t : t \in tickets'[p] <=> t \in tickets[p] \/ (p = c /\ t = ticket)
  BY <1>1, Zenon DEF StorageTypeOK
<1>6. ticket \in Tickets /\ ticket[1] = ty /\ \A t \in Timed : <<t, TimedLevel[t]>> = ticket <=> t = ty
  BY TicketTypes, Zenon DEF ticket
<1>7. IngressTypeOK'
  <2>1. dirtyLoad' \subseteq Positions /\ dirtySim' \subseteq Positions
    BY <1>1, Zenon DEF IngressTypeOK
  <2> QED
    BY <1>1, <1>2, <2>1, Zenon DEF IngressTypeOK
<1>8. \A p \in Positions, t \in Timed :
        /\ gen'[p][t] = IF p = c /\ t = ty THEN generations + 1 ELSE gen[p][t]
        /\ left'[p][t] = IF p = c /\ t = ty THEN Timeout[ty] ELSE left[p][t]
        /\ passes'[p][t] = IF p = c /\ t = ty THEN 0 ELSE passes[p][t]
  BY <1>1, Zenon DEF StorageTypeOK
<1>9. StorageTypeOK'
  <2>1. Timeout[ty] \in Int /\ generations + 1 \in Nat
    BY TicketTypes DEF StorageTypeOK
  <2>2. gen' \in [Positions -> [Timed -> Nat]]
    BY <1>1, <2>1, Zenon DEF StorageTypeOK
  <2>3. left' \in [Positions -> [Timed -> Int]]
    BY <1>1, <2>1, Zenon DEF StorageTypeOK
  <2>4. passes' \in [Positions -> [Timed -> Int]]
    BY <1>1 DEF StorageTypeOK
  <2>5. tickets' \in [Positions -> SUBSET Tickets]
    BY <1>1, <1>6, Zenon DEF StorageTypeOK
  <2>6. fresh' \subseteq Positions \X Timed
    BY <1>1 DEF StorageTypeOK
  <2> QED
    BY <1>1, <1>2, <2>1, <2>2, <2>3, <2>4, <2>5, <2>6, Zenon DEF StorageTypeOK
<1>10. SourcesSynced'
  <2>1. dirtyLoad \subseteq dirtyLoad' /\ dirtySim \subseteq dirtySim'
    BY <1>1, Zenon
  <2>2. \A p \in Positions : (p \in dirtyLoad' /\ p \in dirtySim') \/ \A t : t \in tickets[p] <=> t \in tickets'[p]
    <3> SUFFICES ASSUME NEW p \in Positions, ~(p \in dirtyLoad' /\ p \in dirtySim')
                 PROVE  \A t : t \in tickets[p] <=> t \in tickets'[p]
      BY Zenon
    <3>1. CASE p = c
      <4>1. gen[c][ty] # 0
        BY <1>1, <3>1, Zenon
      <4>2. ticket \in tickets[c]
        BY <4>1, Zenon DEF TimedMatch, ticket
      <4> QED
        BY <1>5, <3>1, <4>2, Zenon
    <3>2. CASE p # c
      BY <1>5, <3>2, Zenon
    <3> QED
      BY <3>1, <3>2, Zenon
  <2> QED
    BY <1>2, <2>1, <2>2, DirtySources, Zenon
<1>11. LeasesMatch' /\ CoverageMatches'
  <2>1. \A l \in 0 .. MaxLevel : RequestTicket(l) # ticket
    BY <1>6, TicketTypes DEF RequestTicket
  <2>2. LoadingTicket # ticket /\ SimulationTicket # ticket
    BY <1>6, TicketTypes DEF LoadingTicket, SimulationTicket
  <2> QED
    BY <1>1, <1>2, <1>5, <2>1, <2>2, OtherLeases, OtherCoverage, Zenon
<1>12. TimedMatch'
  <2>1. \A p \in Positions, t \in Timed :
          /\ gen'[p][t] <= generations + 1
          /\ <<t, TimedLevel[t]>> \in tickets'[p] <=> gen'[p][t] # 0
          /\ gen'[p][t] # 0 => left'[p][t] + passes'[p][t] = Timeout[t]
    <3> SUFFICES ASSUME NEW p \in Positions, NEW t \in Timed
                 PROVE  /\ gen'[p][t] <= generations + 1
                        /\ <<t, TimedLevel[t]>> \in tickets'[p] <=> gen'[p][t] # 0
                        /\ gen'[p][t] # 0 => left'[p][t] + passes'[p][t] = Timeout[t]
      BY Zenon
    <3>1. CASE p = c /\ t = ty
      <4>1. gen'[p][t] = generations + 1 /\ left'[p][t] = Timeout[ty] /\ passes'[p][t] = 0
        BY <1>8, <3>1, Zenon
      <4>2. <<t, TimedLevel[t]>> \in tickets'[p]
        BY <1>5, <1>6, <3>1, Zenon
      <4>3. generations \in Nat /\ Timeout[ty] \in Nat
        BY TicketTypes, Zenon DEF StorageTypeOK
      <4> QED
        BY <3>1, <4>1, <4>2, <4>3
    <3>2. CASE ~(p = c /\ t = ty)
      <4>1. gen'[p][t] = gen[p][t] /\ left'[p][t] = left[p][t] /\ passes'[p][t] = passes[p][t]
        BY <1>8, <3>2, Zenon
      <4>2. <<t, TimedLevel[t]>> \in tickets'[p] <=> <<t, TimedLevel[t]>> \in tickets[p]
        BY <1>5, <1>6, <3>2, Zenon
      <4>3. gen[p][t] <= generations => gen[p][t] <= generations + 1
        BY DEF StorageTypeOK
      <4> QED
        BY <4>1, <4>2, <4>3, Zenon DEF TimedMatch
    <3> QED
      BY <3>1, <3>2, Zenon
  <2>2. \A e \in expirations :
          IF <<e[1], e[2]>> \in fresh' THEN e[3] < gen'[e[1]][e[2]] ELSE e[3] = gen'[e[1]][e[2]]
    <3> SUFFICES ASSUME NEW e \in expirations
                 PROVE  IF <<e[1], e[2]>> \in fresh' THEN e[3] < gen'[e[1]][e[2]]
                        ELSE e[3] = gen'[e[1]][e[2]]
      BY Zenon
    <3>1. e[1] \in Positions /\ e[2] \in Timed /\ e[3] \in Nat
      BY Zenon DEF StorageTypeOK
    <3>2. IF <<e[1], e[2]>> \in fresh THEN e[3] < gen[e[1]][e[2]] ELSE e[3] = gen[e[1]][e[2]]
      BY Zenon DEF TimedMatch
    <3>3. CASE e[1] = c /\ e[2] = ty
      <4>1. e[3] <= gen[c][ty]
        BY <3>1, <3>2, <3>3 DEF StorageTypeOK
      <4>2. gen[c][ty] <= generations /\ gen[c][ty] \in Nat /\ generations \in Nat
        BY DEF TimedMatch, StorageTypeOK
      <4>3. e[3] < generations + 1
        BY <3>1, <4>1, <4>2
      <4>4. gen'[e[1]][e[2]] = generations + 1
        BY <1>8, <3>1, <3>3, Zenon
      <4>5. <<e[1], e[2]>> \in fresh'
        BY <1>1, <3>3, Zenon
      <4> QED
        BY <4>3, <4>4, <4>5, Zenon
    <3>4. CASE ~(e[1] = c /\ e[2] = ty)
      <4>1. gen'[e[1]][e[2]] = gen[e[1]][e[2]]
        BY <1>8, <3>1, <3>4, Zenon
      <4>2. <<e[1], e[2]>> \in fresh' <=> <<e[1], e[2]>> \in fresh
        BY <1>1, <3>4, Zenon
      <4> QED
        BY <3>2, <4>1, <4>2, Zenon
    <3> QED
      BY <3>3, <3>4, Zenon
  <2>3. /\ pc' # "aging" => expirations' = {}
        /\ expirations' = expirations /\ generations' = generations + 1
    BY <1>1, Zenon DEF TimedMatch
  <2> QED
    BY <2>1, <2>2, <2>3, Zenon DEF TimedMatch
<1> QED
  BY <1>3, <1>4, <1>7, <1>9, <1>10, <1>11, <1>12, Zenon

\* The tickets that expire in this pass.
Expired == {x \in Positions \X Timed : Aged(x[1], x[2]) /\ left[x[1]][x[2]] = 0}

\* An entry of the snapshot that was not refreshed is the ticket in the storage.
LEMMA AgedIs ==
  ASSUME StorageTypeOK, TimedMatch, NEW p \in Positions, NEW t \in Timed, gen[p][t] # 0
  PROVE  Aged(p, t) <=> <<p, t>> \notin fresh /\ \E e \in expirations : e[1] = p /\ e[2] = t
<1>1. gen[p][t] \in Nat /\ ~(gen[p][t] < gen[p][t])
  BY DEF StorageTypeOK
<1>2. ASSUME Aged(p, t)
      PROVE  <<p, t>> \notin fresh /\ \E e \in expirations : e[1] = p /\ e[2] = t
  <2> DEFINE e == <<p, t, gen[p][t]>>
  <2>1. e \in expirations /\ e[1] = p /\ e[2] = t /\ e[3] = gen[p][t]
    BY <1>2, Zenon DEF Aged
  <2> HIDE DEF e
  <2>2. <<p, t>> \in fresh => e[3] < gen[p][t]
    BY <2>1, Zenon DEF TimedMatch
  <2> QED
    BY <1>1, <2>1, <2>2, Zenon
<1>3. ASSUME <<p, t>> \notin fresh, NEW e \in expirations, e[1] = p, e[2] = t
      PROVE  Aged(p, t)
  <2>1. e[3] = gen[p][t]
    BY <1>3, Zenon DEF TimedMatch
  <2>2. e = <<e[1], e[2], e[3]>>
    BY DEF StorageTypeOK
  <2> QED
    BY <1>3, <2>1, <2>2, Zenon DEF Aged
<1> QED
  BY <1>2, <1>3, Zenon

\* tick_timed_tickets.
LEMMA TickTimedStep ==
  ASSUME IInv, TickTimed
  PROVE  IInv'
<1> USE DEF IInv, TablesAgree, TypeOK
<1> DEFINE gone == {x[1] : x \in Expired}
<1>1. /\ pc = "aging" /\ pc' = "aged" /\ expirations' = {}
      /\ left' = [p \in Positions |-> [t \in Timed |->
                      IF Aged(p, t) THEN left[p][t] - 1 ELSE left[p][t]]]
      /\ gen' = [p \in Positions |-> [t \in Timed |->
                      IF <<p, t>> \in Expired THEN 0 ELSE gen[p][t]]]
      /\ tickets' = [p \in Positions |->
                      tickets[p] \ {<<t, TimedLevel[t]>> : t \in {u \in Timed : <<p, u>> \in Expired}}]
      /\ dirtyLoad' = dirtyLoad \cup gone /\ dirtySim' = dirtySim \cup gone
      /\ passes' = [p \in Positions |-> [t \in Timed |->
                      IF <<p, t>> \notin fresh /\ \E e \in expirations : e[1] = p /\ e[2] = t
                      THEN passes[p][t] + 1 ELSE passes[p][t]]]
      /\ UNCHANGED <<generations, leases, coverage, playerPos, latest, trackers, committed, holders,
                     batch, requests, persisted, fresh>>
  BY Zenon DEF TickTimed, Expired
<1>2. UNCHANGED <<loadSource, simSource, loadLevel, simLevel, holderLoad, holderSim, reached, unloading,
                  loadChanges, simChanges, through, wants, wantLevel, receipt, saved, restarts>>
  BY <1>1, Zenon DEF trackers, holders, batch, requests, persisted
<1>3. RequestTypeOK' /\ ReceiptsMatch' /\ CommittedHolds' /\ ReadyStaysReady'
  BY <1>1, <1>2, KeepRequestType, KeepReceipts, KeepCommitted, KeepReady, Zenon
<1>4. LevelTypeOK' /\ HoldersMatch'
  <2>1. "aged" \in {"idle", "aging", "aged", "updated", "committing"} /\ pc \in {"idle", "aging", "aged"}
    BY <1>1, Zenon
  <2> QED
    BY <1>1, <1>2, <2>1, IdleHolders, Zenon DEF LevelTypeOK
<1>5. \A p \in Positions, t \in Timed :
        /\ gen'[p][t] = IF <<p, t>> \in Expired THEN 0 ELSE gen[p][t]
        /\ left'[p][t] = IF Aged(p, t) THEN left[p][t] - 1 ELSE left[p][t]
        /\ passes'[p][t] = IF <<p, t>> \notin fresh /\ \E e \in expirations : e[1] = p /\ e[2] = t
                           THEN passes[p][t] + 1 ELSE passes[p][t]
  BY <1>1, Zenon
<1>6. \A p \in Positions : \A t : t \in tickets'[p] <=>
        t \in tickets[p] /\ ~\E u \in Timed : t = <<u, TimedLevel[u]>> /\ <<p, u>> \in Expired
  BY <1>1, Zenon
<1>7. \A p \in Positions : \A u : <<p, u>> \in Expired => p \in gone
  BY DEF gone
<1>8. gone \subseteq Positions
  BY Zenon DEF Expired
<1> HIDE DEF gone
<1>9. IngressTypeOK'
  <2>1. dirtyLoad' \subseteq Positions /\ dirtySim' \subseteq Positions
    BY <1>1, <1>8, Zenon DEF IngressTypeOK
  <2> QED
    BY <1>1, <1>2, <2>1, Zenon DEF IngressTypeOK
<1>10. StorageTypeOK'
  <2>1. \A p \in Positions, t \in Timed : left[p][t] \in Int /\ left[p][t] - 1 \in Int /\ passes[p][t] \in Int
          /\ passes[p][t] + 1 \in Int /\ gen[p][t] \in Nat /\ 0 \in Nat
    BY DEF StorageTypeOK
  <2>2. left' \in [Positions -> [Timed -> Int]]
    BY <1>1, <2>1, Zenon
  <2>3. passes' \in [Positions -> [Timed -> Int]]
    BY <1>1, <2>1, Zenon
  <2>4. gen' \in [Positions -> [Timed -> Nat]]
    BY <1>1, <2>1, Zenon
  <2>5. tickets' \in [Positions -> SUBSET Tickets]
    BY <1>1, Zenon DEF StorageTypeOK
  <2> QED
    BY <1>1, <1>2, <2>2, <2>3, <2>4, <2>5, Zenon DEF StorageTypeOK
<1>11. SourcesSynced'
  <2>1. dirtyLoad \subseteq dirtyLoad' /\ dirtySim \subseteq dirtySim'
    BY <1>1, Zenon
  <2>2. \A p \in Positions : (p \in dirtyLoad' /\ p \in dirtySim') \/ \A t : t \in tickets[p] <=> t \in tickets'[p]
    BY <1>1, <1>6, <1>7, Zenon
  <2> QED
    BY <1>2, <2>1, <2>2, DirtySources, Zenon
<1>12. LeasesMatch' /\ CoverageMatches'
  <2>1. \A u \in Timed : /\ <<u, TimedLevel[u]>> # LoadingTicket /\ <<u, TimedLevel[u]>> # SimulationTicket
                         /\ \A l \in 0 .. MaxLevel : RequestTicket(l) # <<u, TimedLevel[u]>>
    BY TicketTypes, Zenon DEF RequestTicket, LoadingTicket, SimulationTicket
  <2> QED
    BY <1>1, <1>2, <1>6, <2>1, OtherLeases, OtherCoverage, Zenon
<1>13. TimedMatch'
  <2>1. \A p \in Positions, t \in Timed :
          /\ gen'[p][t] <= generations
          /\ <<t, TimedLevel[t]>> \in tickets'[p] <=> gen'[p][t] # 0
          /\ gen'[p][t] # 0 => left'[p][t] + passes'[p][t] = Timeout[t]
    <3> SUFFICES ASSUME NEW p \in Positions, NEW t \in Timed
                 PROVE  /\ gen'[p][t] <= generations
                        /\ <<t, TimedLevel[t]>> \in tickets'[p] <=> gen'[p][t] # 0
                        /\ gen'[p][t] # 0 => left'[p][t] + passes'[p][t] = Timeout[t]
      BY Zenon
    <3>1. /\ gen[p][t] <= generations /\ (<<t, TimedLevel[t]>> \in tickets[p] <=> gen[p][t] # 0)
          /\ gen[p][t] # 0 => left[p][t] + passes[p][t] = Timeout[t]
      BY Zenon DEF TimedMatch
    <3>2. <<t, TimedLevel[t]>> \in tickets'[p] <=> <<t, TimedLevel[t]>> \in tickets[p] /\ <<p, t>> \notin Expired
      <4>1. \A u \in Timed : <<t, TimedLevel[t]>> = <<u, TimedLevel[u]>> <=> u = t
        OBVIOUS
      <4> QED
        BY <1>6, <4>1, Zenon
    <3>3. gen[p][t] \in Nat /\ generations \in Nat /\ 0 <= generations /\ left[p][t] \in Int /\ passes[p][t] \in Int
          /\ Timeout[t] \in Nat
      BY TicketTypes DEF StorageTypeOK
    <3>4. gen'[p][t] # 0 => left'[p][t] + passes'[p][t] = Timeout[t]
      <4> SUFFICES ASSUME gen[p][t] # 0
                   PROVE  left'[p][t] + passes'[p][t] = Timeout[t]
        BY <1>5, Zenon
      <4>1. CASE Aged(p, t)
        <5>1. left'[p][t] = left[p][t] - 1 /\ passes'[p][t] = passes[p][t] + 1
          <6>1. (<<p, t>> \notin fresh /\ \E e \in expirations : e[1] = p /\ e[2] = t)
            BY <4>1, AgedIs, Zenon
          <6>2. left'[p][t] = left[p][t] - 1
            BY <1>5, <4>1, Zenon
          <6>3. passes'[p][t] = passes[p][t] + 1
            BY <1>5, <6>1, Zenon
          <6> QED
            BY <6>2, <6>3, Zenon
        <5> QED
          BY <3>1, <3>3, <5>1
      <4>2. CASE ~Aged(p, t)
        <5>1. left'[p][t] = left[p][t] /\ passes'[p][t] = passes[p][t]
          <6>1. ~(<<p, t>> \notin fresh /\ \E e \in expirations : e[1] = p /\ e[2] = t)
            BY <4>2, AgedIs, Zenon
          <6>2. left'[p][t] = left[p][t]
            BY <1>5, <4>2, Zenon
          <6>3. passes'[p][t] = passes[p][t]
            BY <1>5, <6>1, Zenon
          <6> QED
            BY <6>2, <6>3, Zenon
        <5> QED
          BY <3>1, <5>1, Zenon
      <4> QED
        BY <4>1, <4>2, Zenon
    <3>5. gen'[p][t] = IF <<p, t>> \in Expired THEN 0 ELSE gen[p][t]
      BY <1>5, Zenon
    <3> QED
      BY <3>1, <3>2, <3>3, <3>4, <3>5, Zenon
  <2> QED
    BY <1>1, <2>1, Zenon DEF TimedMatch
<1> QED
  BY <1>3, <1>4, <1>9, <1>10, <1>11, <1>12, <1>13, Zenon

\* A ticket expires only after its timeout.
LEMMA ExpiresLate ==
  ASSUME IInv, TickTimed, NEW p \in Positions, NEW t \in Timed, gen[p][t] # 0, gen'[p][t] = 0
  PROVE  passes[p][t] >= Timeout[t]
<1> USE DEF IInv, TablesAgree, TypeOK
<1>1. gen' = [q \in Positions |-> [u \in Timed |->
                      IF <<q, u>> \in Expired THEN 0 ELSE gen[q][u]]]
  BY Zenon DEF TickTimed, Expired
<1>2. <<p, t>> \in Expired
  BY <1>1, Zenon
<1>3. left[p][t] = 0
  BY <1>2, Zenon DEF Expired
<1>4. left[p][t] + passes[p][t] = Timeout[t]
  BY Zenon DEF TimedMatch
<1> QED
  BY <1>3, <1>4, TicketTypes DEF StorageTypeOK

\* A request holds the source of each of its positions at its level.
LEMMA RequestSource ==
  ASSUME IInv, NEW r \in Requesters, NEW p \in wants[r]
  PROVE  LoadSource(tickets, p) <= wantLevel[r] /\ LoadSource(tickets, p) <= MaxLevel
<1> USE DEF IInv, TablesAgree, TypeOK
<1> DEFINE l == wantLevel[r]
<1>1. p \in Positions /\ l \in 0 .. MaxLevel
  BY Zenon DEF RequestTypeOK
<1>2. r \in Holding(wants, wantLevel, p, l)
  BY Zenon DEF Holding
<1>3. Cardinality(Holding(wants, wantLevel, p, l)) # 0
  BY <1>2, HoldingFinite, FS_EmptySet, Zenon
<1>4. leases[p][l] = Cardinality(Holding(wants, wantLevel, p, l)) /\ leases[p][l] \in Nat
      /\ (RequestTicket(l) \in tickets[p] <=> leases[p][l] > 0)
  BY <1>1, LeasesAre, HoldingFinite
<1>5. RequestTicket(l) \in tickets[p]
  BY <1>3, <1>4
<1>6. RequestTicket(l)[1] = "request" /\ RequestTicket(l)[2] = l
  BY Zenon DEF RequestTicket
<1>7. tickets[p] \in SUBSET Tickets
  BY <1>1, Zenon DEF StorageTypeOK
<1> QED
  BY <1>5, <1>6, <1>7, LoadSourceFacts, TicketTypes, Zenon

\* ChunkSchedulingCoordinator::run_all_updates.
LEMMA RunUpdatesStep ==
  ASSUME IInv, RunUpdates
  PROVE  IInv'
<1> USE DEF IInv, TablesAgree, TypeOK
<1> DEFINE load == ProjectedOf(loadSource, dirtyLoad, [p \in Positions |-> LoadSource(tickets, p)])
           sim == ProjectedOf(simSource, dirtySim, [p \in Positions |-> SimSource(tickets, p)])
<1>1. /\ pc \in {"idle", "aged"} /\ pc' = "updated"
      /\ loadSource' = load /\ simSource' = sim
      /\ loadLevel' = Propagated(load, MaxLevel) /\ simLevel' = Propagated(sim, BlockTicking)
      /\ dirtyLoad' = {} /\ dirtySim' = {}
      /\ loadChanges' = {p \in Positions : loadLevel'[p] # loadLevel[p]}
      /\ simChanges' = {p \in Positions : simLevel'[p] # simLevel[p]}
      /\ through' = latest
      /\ UNCHANGED <<storage, leases, coverage, playerPos, latest, committed, holders, expirations,
                     requests, persisted, history>>
  BY Zenon DEF RunUpdates
<1>2. UNCHANGED <<tickets, left, gen, generations, holderLoad, holderSim, reached, unloading,
                  wants, wantLevel, receipt, saved, restarts, fresh, passes>>
  BY <1>1, Zenon DEF storage, holders, requests, persisted, history
<1>3. StorageTypeOK' /\ RequestTypeOK' /\ LeasesMatch' /\ CoverageMatches' /\ CommittedHolds' /\ ReadyStaysReady'
  BY <1>1, <1>2, KeepStorageType, KeepRequestType, KeepLeases, KeepCoverage, KeepCommitted,
     KeepReady, Zenon
<1>4. \A p \in Positions : load[p] = LoadSource(tickets, p) /\ sim[p] = SimSource(tickets, p)
  BY Zenon DEF SourcesSynced, ProjectedOf
<1>5. \A p \in Positions : LoadSource(tickets, p) \in Levels /\ SimSource(tickets, p) \in Levels
  BY LoadSourceFacts, SimSourceFacts, Zenon DEF StorageTypeOK
<1>6. load \in [Positions -> Levels] /\ sim \in [Positions -> Levels]
  <2>1. load = [p \in Positions |-> load[p]] /\ sim = [p \in Positions |-> sim[p]]
    BY Zenon DEF ProjectedOf
  <2> HIDE DEF load, sim
  <2> QED
    BY <1>4, <1>5, <2>1, Zenon
<1> HIDE DEF load, sim
<1>7. /\ loadLevel' \in [Positions -> Levels] /\ simLevel' \in [Positions -> Levels]
      /\ \A p \in Positions : load[p] <= MaxLevel => loadLevel'[p] <= load[p]
  BY <1>1, <1>6, LevelFacts, PropagatedFacts, Zenon
<1>8. IngressTypeOK' /\ LevelTypeOK'
  <2>1. "updated" \in {"idle", "aging", "aged", "updated", "committing"}
    OBVIOUS
  <2>2. loadChanges' \subseteq Positions /\ simChanges' \subseteq Positions
    BY <1>1, Zenon
  <2>3. IngressTypeOK'
    BY <1>1, Zenon DEF IngressTypeOK
  <2>4. LevelTypeOK'
    BY <1>1, <1>2, <1>6, <1>7, <2>1, <2>2, Zenon DEF LevelTypeOK
  <2> QED
    BY <2>3, <2>4, Zenon
<1>9. SourcesSynced'
  <2>1. \A p : LoadSource(tickets, p)' = LoadSource(tickets, p) /\ SimSource(tickets, p)' = SimSource(tickets, p)
    BY <1>2, Zenon DEF LoadSource, SimSource
  <2> QED
    BY <1>1, <1>4, <2>1, Zenon DEF SourcesSynced
<1>10. HoldersMatch'
  <2>1. pc \notin {"updated", "committing"} /\ pc # "updated"
    BY <1>1, Zenon
  <2> SUFFICES ASSUME NEW p \in Positions
               PROVE  /\ holderLoad[p] = loadLevel'[p] \/ p \in loadChanges'
                      /\ IF holderLoad[p] = Absent THEN holderSim[p] = Absent
                         ELSE holderSim[p] = simLevel'[p] \/ p \in simChanges'
                      /\ p \in unloading => holderLoad[p] = Absent
    BY <1>1, <1>2, Zenon DEF HoldersMatch
  <2>2. /\ holderLoad[p] = loadLevel[p] /\ (p \in unloading => holderLoad[p] = Absent)
        /\ IF holderLoad[p] = Absent THEN holderSim[p] = Absent ELSE holderSim[p] = simLevel[p]
    BY <2>1, Zenon DEF HoldersMatch
  <2> QED
    BY <1>1, <2>2, Zenon
<1>11. TimedMatch'
  <2>1. pc # "aging"
    BY <1>1, Zenon
  <2>2. expirations = {}
    BY <2>1, Zenon DEF TimedMatch
  <2> QED
    BY <1>1, <1>2, <2>2, Zenon DEF TimedMatch
<1>12. ReceiptsMatch'
  <2>1. committed <= latest /\ latest <= latest
    BY DEF ReceiptsMatch, IngressTypeOK
  <2>2. ASSUME NEW r \in Requesters, NEW p \in wants[r]
        PROVE  loadLevel'[p] <= wantLevel[r]
    <3>1. load[p] <= wantLevel[r] /\ load[p] <= MaxLevel /\ p \in Positions
      BY <1>4, <2>2, RequestSource, Zenon DEF RequestTypeOK
    <3>2. loadLevel'[p] <= load[p]
      BY <1>7, <3>1, Zenon
    <3>3. loadLevel'[p] \in Int /\ load[p] \in Int /\ wantLevel[r] \in Int
      BY <1>6, <1>7, <2>2, <3>1, LevelFacts DEF RequestTypeOK
    <3> QED
      BY <3>1, <3>2, <3>3
  <2> QED
    BY <1>1, <1>2, <2>1, <2>2, Zenon DEF ReceiptsMatch
<1> QED
  BY <1>3, <1>8, <1>9, <1>10, <1>11, <1>12, Zenon

-----------------------------------------------------------------------------
\* Players.

\* The centers occupied by the players ps, with positions pos, that see p.
Seeing(pos, ps, p) == {c \in Positions : p \in Square(c) /\ \E q \in ps : pos[q] = c}

\* A player counts at a position that it sees, when it is the only one in its center.
LEMMA CountCenter ==
  ASSUME NEW pos \in [Players -> Positions \cup {NoPos}], NEW pl \in Players, NEW p \in Positions
  PROVE  /\ Cardinality(Seeing(pos, Players, p)) \in Nat
         /\ Cardinality(Seeing(pos, Players \ {pl}, p)) \in Nat
         /\ Cardinality(Seeing(pos, Players, p)) =
              IF pos[pl] \in Positions /\ (\A q \in Players \ {pl} : pos[q] # pos[pl]) /\ p \in Square(pos[pl])
              THEN Cardinality(Seeing(pos, Players \ {pl}, p)) + 1
              ELSE Cardinality(Seeing(pos, Players \ {pl}, p))
<1> DEFINE all == Seeing(pos, Players, p)
           rest == Seeing(pos, Players \ {pl}, p)
<1>1. all \subseteq Positions /\ rest \subseteq Positions
  BY Zenon DEF Seeing
<1>2. IsFiniteSet(all) /\ IsFiniteSet(rest)
  BY <1>1, PositionAssumption, FS_Subset, Zenon
<1>3. Cardinality(all) \in Nat /\ Cardinality(rest) \in Nat
  BY <1>2, FS_CardinalityType, Zenon
<1>4. CASE pos[pl] \in Positions /\ (\A q \in Players \ {pl} : pos[q] # pos[pl]) /\ p \in Square(pos[pl])
  <2>1. all = rest \cup {pos[pl]}
    BY <1>4, Zenon DEF Seeing
  <2>2. pos[pl] \notin rest
    BY <1>4, Zenon DEF Seeing
  <2>3. Cardinality(all) = Cardinality(rest) + 1
    BY <1>2, <2>1, <2>2, FS_AddElement, Zenon
  <2> QED
    BY <1>3, <1>4, <2>3, Zenon
<1>5. CASE ~(pos[pl] \in Positions /\ (\A q \in Players \ {pl} : pos[q] # pos[pl]) /\ p \in Square(pos[pl]))
  <2>1. all = rest
    BY <1>5, Zenon DEF Seeing
  <2> QED
    BY <1>3, <1>5, <2>1, Zenon
<1> QED
  BY <1>4, <1>5, Zenon

\* Counts that differ by at most one.
LEMMA CountFacts ==
  ASSUME NEW n \in Nat
  PROVE  /\ \A a, b : a = n + 1 /\ b = a - 1 => b = n
         /\ \A a, b \in {n, n + 1} :
              ~(a > 0 /\ n = 0) /\ ~(n = 0 /\ b > 0) => (b > 0 <=> a > 0)
OBVIOUS

\* CoverageMatches of one position, now
LEMMA CoverageIs ==
  CoverageMatches <=> \A p \in Positions :
    /\ coverage[p] = Cardinality(Seeing(playerPos, Players, p))
    /\ LoadingTicket \in tickets[p] <=> coverage[p] > 0
    /\ SimulationTicket \in tickets[p] <=> \E pl \in Players : playerPos[pl] = p
BY Zenon DEF CoverageMatches, Centers, Seeing

\* and after a step.
LEMMA CoverageNext ==
  CoverageMatches' <=> \A p \in Positions :
    /\ coverage'[p] = Cardinality(Seeing(playerPos', Players, p))
    /\ LoadingTicket \in tickets'[p] <=> coverage'[p] > 0
    /\ SimulationTicket \in tickets'[p] <=> \E pl \in Players : playerPos'[pl] = p
BY Zenon DEF CoverageMatches, Centers, Seeing, Square, LoadingTicket, SimulationTicket

\* update_player_status and remove_player.
LEMMA MovePlayerStep ==
  ASSUME IInv, NEW pl \in Players, NEW c \in Positions \cup {NoPos}, MovePlayer(pl, c)
  PROVE  IInv'
<1> USE DEF IInv, TablesAgree, TypeOK
<1> DEFINE old == playerPos[pl]
           without == Uncovered(pl)
           with == Covered(pl, c, without)
           emptied == {old} \cap {p \in Positions : Alone(pl, p)}
           filled == {c} \cap {p \in Positions : Alone(pl, p)}
           Rest(p) == Cardinality(Seeing(playerPos, Players \ {pl}, p))
<1>1. /\ c # old
      /\ playerPos' = [playerPos EXCEPT ![pl] = c] /\ coverage' = with
      /\ tickets' = [p \in Positions |->
                      (tickets[p] \ ((IF p \in emptied THEN {SimulationTicket} ELSE {})
                                     \cup (IF with[p] = 0 THEN {LoadingTicket} ELSE {})))
                      \cup (IF p \in filled THEN {SimulationTicket} ELSE {})
                      \cup (IF with[p] > 0 THEN {LoadingTicket} ELSE {})]
      /\ dirtyLoad' = dirtyLoad \cup {p \in Positions : coverage[p] > 0 /\ without[p] = 0}
                                \cup {p \in Positions : without[p] = 0 /\ with[p] > 0}
      /\ dirtySim' = dirtySim \cup emptied \cup filled
      /\ latest' = latest + 1
      /\ UNCHANGED <<left, gen, generations, leases, trackers, committed, holders, pc, expirations,
                     batch, requests, persisted, history>>
  BY Zenon DEF MovePlayer
<1>2. UNCHANGED <<loadSource, simSource, loadLevel, simLevel, holderLoad, holderSim, reached, unloading,
                  loadChanges, simChanges, through, wants, wantLevel, receipt, saved, restarts, fresh, passes>>
  BY <1>1, Zenon DEF trackers, holders, batch, requests, persisted, history
<1>3. LevelTypeOK' /\ RequestTypeOK' /\ HoldersMatch' /\ CommittedHolds' /\ ReadyStaysReady'
  BY <1>1, <1>2, KeepLevelType, KeepRequestType, KeepHolders, KeepCommitted, KeepReady, Zenon
<1>4. playerPos \in [Players -> Positions \cup {NoPos}] /\ playerPos' \in [Players -> Positions \cup {NoPos}]
  <2>1. playerPos \in [Players -> Positions \cup {NoPos}]
    BY Zenon DEF IngressTypeOK
  <2> QED
    BY <1>1, <2>1, Zenon
<1>5. playerPos'[pl] = c /\ \A q \in Players \ {pl} : playerPos'[q] = playerPos[q]
  BY <1>1, <1>4, Zenon
<1>6. \A p \in Positions : Seeing(playerPos', Players \ {pl}, p) = Seeing(playerPos, Players \ {pl}, p)
  BY <1>5, Zenon DEF Seeing
<1>7. \A p \in Positions : coverage[p] = IF old \in Positions /\ Alone(pl, old) /\ p \in Square(old) THEN Rest(p) + 1 ELSE Rest(p)
  <2> SUFFICES ASSUME NEW p \in Positions
               PROVE  coverage[p] = IF old \in Positions /\ Alone(pl, old) /\ p \in Square(old)
                                    THEN Rest(p) + 1 ELSE Rest(p)
    BY Zenon
  <2>1. Alone(pl, old) <=> \A q \in Players \ {pl} : playerPos[q] # playerPos[pl]
    BY Zenon DEF Alone
  <2>2. coverage[p] = Cardinality(Seeing(playerPos, Players, p))
    BY CoverageIs, Zenon
  <2>3. Cardinality(Seeing(playerPos, Players, p)) =
              IF playerPos[pl] \in Positions /\ (\A q \in Players \ {pl} : playerPos[q] # playerPos[pl])
                 /\ p \in Square(playerPos[pl])
              THEN Rest(p) + 1 ELSE Rest(p)
    BY <1>4, CountCenter, Zenon
  <2> QED
    BY <2>1, <2>2, <2>3, Zenon
<1>8. \A p \in Positions : Cardinality(Seeing(playerPos', Players, p)) =
        IF c \in Positions /\ Alone(pl, c) /\ p \in Square(c) THEN Rest(p) + 1 ELSE Rest(p)
  <2> SUFFICES ASSUME NEW p \in Positions
               PROVE  Cardinality(Seeing(playerPos', Players, p)) =
                        IF c \in Positions /\ Alone(pl, c) /\ p \in Square(c) THEN Rest(p) + 1 ELSE Rest(p)
    BY Zenon
  <2>1. (\A q \in Players \ {pl} : playerPos'[q] # playerPos'[pl]) <=> Alone(pl, c)
    BY <1>5, Zenon DEF Alone
  <2>2. Cardinality(Seeing(playerPos', Players, p)) =
              IF playerPos'[pl] \in Positions /\ (\A q \in Players \ {pl} : playerPos'[q] # playerPos'[pl])
                 /\ p \in Square(playerPos'[pl])
              THEN Cardinality(Seeing(playerPos', Players \ {pl}, p)) + 1
              ELSE Cardinality(Seeing(playerPos', Players \ {pl}, p))
    BY <1>4, CountCenter, Zenon
  <2> QED
    BY <1>5, <1>6, <2>1, <2>2, Zenon
<1>9. \A p \in Positions : Rest(p) \in Nat /\ Rest(p) + 1 \in Nat
  <2>1. \A p \in Positions : Rest(p) \in Nat
    BY <1>4, CountCenter, Zenon
  <2> QED
    BY <2>1
<1>10. coverage = [p \in Positions |-> coverage[p]]
  BY Zenon DEF IngressTypeOK
<1> HIDE DEF Rest, old
<1>11. without = [p \in Positions |-> Rest(p)]
  <2>1. \A p \in Positions : without[p] = Rest(p)
    <3> SUFFICES ASSUME NEW p \in Positions PROVE without[p] = Rest(p)
      BY Zenon
    <3>1. CASE old \in Positions /\ Alone(pl, old)
      <4>1. without[p] = IF p \in Square(old) THEN coverage[p] - 1 ELSE coverage[p]
        BY <3>1, Zenon DEF Uncovered, old
      <4>2. coverage[p] = IF p \in Square(old) THEN Rest(p) + 1 ELSE Rest(p)
        BY <1>7, <3>1, Zenon
      <4> QED
        <5>1. Rest(p) \in Nat
          BY <1>9, Zenon
        <5>2. \A a, b : a = Rest(p) + 1 /\ b = a - 1 => b = Rest(p)
          BY <5>1, CountFacts, Zenon
        <5>3. CASE p \in Square(old)
          <6>1. without[p] = coverage[p] - 1 /\ coverage[p] = Rest(p) + 1
            BY <4>1, <4>2, <5>3, Zenon
          <6> QED
            BY <5>2, <6>1, Zenon
        <5>4. CASE p \notin Square(old)
          BY <4>1, <4>2, <5>4, Zenon
        <5> QED
          BY <5>3, <5>4, Zenon
    <3>2. CASE ~(old \in Positions /\ Alone(pl, old))
      <4>1. without[p] = coverage[p]
        BY <3>2, Zenon DEF Uncovered, old
      <4> QED
        BY <1>7, <3>2, <4>1, Zenon
    <3> QED
      BY <3>1, <3>2, Zenon
  <2>2. without = [p \in Positions |-> without[p]]
    BY <1>10, Zenon DEF Uncovered
  <2> QED
    BY <2>1, <2>2, Zenon
<1> HIDE DEF without
<1>12. with = [p \in Positions |-> Cardinality(Seeing(playerPos', Players, p))]
  <2>1. CASE c \in Positions /\ Alone(pl, c)
    <3>1. with = [p \in Positions |-> IF p \in Square(c) THEN without[p] + 1 ELSE without[p]]
      BY <2>1, Zenon DEF Covered
    <3> QED
      BY <1>8, <1>11, <2>1, <3>1, Zenon
  <2>2. CASE ~(c \in Positions /\ Alone(pl, c))
    <3>1. with = without
      BY <2>2, Zenon DEF Covered
    <3> QED
      BY <1>8, <1>11, <2>2, <3>1, Zenon
  <2> QED
    BY <2>1, <2>2, Zenon
<1> HIDE DEF with
<1>13. \A p \in Positions : /\ without[p] = Rest(p) /\ coverage[p] \in {Rest(p), Rest(p) + 1}
                            /\ with[p] \in {Rest(p), Rest(p) + 1} /\ with[p] \in Nat
  BY <1>7, <1>8, <1>9, <1>11, <1>12, Zenon
<1>14. LoadingTicket # SimulationTicket /\ LoadingTicket[1] = "loading" /\ SimulationTicket[1] = "simulation"
  BY Zenon DEF LoadingTicket, SimulationTicket
<1> HIDE DEF emptied, filled
<1>15. \A p \in Positions : with[p] = 0 <=> ~(with[p] > 0)
  BY <1>13
<1>16. \A p \in Positions : LoadingTicket \in tickets'[p] <=> with[p] > 0
  BY <1>1, <1>14, <1>15, Zenon
<1>17. \A p \in Positions : SimulationTicket \in tickets'[p] <=>
         (SimulationTicket \in tickets[p] /\ p \notin emptied) \/ p \in filled
  BY <1>1, <1>14, Zenon
<1>18. \A p \in Positions : \A t : t # LoadingTicket /\ t # SimulationTicket => (t \in tickets'[p] <=> t \in tickets[p])
  BY <1>1, Zenon
<1>19. CoverageMatches'
  <2> SUFFICES ASSUME NEW p \in Positions
               PROVE  SimulationTicket \in tickets'[p] <=> \E q \in Players : playerPos'[q] = p
    <3>1. \A p \in Positions : coverage'[p] = Cardinality(Seeing(playerPos', Players, p))
      BY <1>1, <1>12, Zenon
    <3>2. \A p \in Positions : LoadingTicket \in tickets'[p] <=> coverage'[p] > 0
      BY <1>1, <1>16, Zenon
    <3> QED
      BY <3>1, <3>2, CoverageNext, Zenon
  <2>1. SimulationTicket \in tickets[p] <=> \E q \in Players : playerPos[q] = p
    BY CoverageIs, Zenon
  <2>2. p \in emptied <=> p = old /\ Alone(pl, p)
    BY Zenon DEF emptied
  <2>3. p \in filled <=> p = c /\ Alone(pl, p)
    BY Zenon DEF filled
  <2>4. (\E q \in Players : playerPos[q] = p) <=> p = old \/ ~Alone(pl, p)
    BY Zenon DEF Alone, old
  <2>5. (\E q \in Players : playerPos'[q] = p) <=> p = c \/ ~Alone(pl, p)
    BY <1>5, Zenon DEF Alone
  <2> QED
    BY <1>17, <2>1, <2>2, <2>3, <2>4, <2>5, Zenon
<1>20. StorageTypeOK'
  <2>1. tickets' \in [Positions -> SUBSET Tickets]
    <3>1. \A p \in Positions : tickets'[p] \subseteq Tickets
      BY <1>18, TicketTypes, Zenon DEF StorageTypeOK
    <3> QED
      BY <1>1, <3>1, Zenon
  <2> QED
    BY <1>1, <1>2, <2>1, Zenon DEF StorageTypeOK
<1>21. IngressTypeOK'
  <2>1. coverage' \in [Positions -> Nat]
    BY <1>1, <1>12, <1>13, Zenon
  <2>2. dirtyLoad' \subseteq Positions /\ dirtySim' \subseteq Positions
    BY <1>1, Zenon DEF IngressTypeOK, emptied, filled
  <2>3. latest' \in Nat
    BY <1>1 DEF IngressTypeOK
  <2> QED
    BY <1>1, <1>2, <1>4, <2>1, <2>2, <2>3, Zenon DEF IngressTypeOK
<1>22. SourcesSynced'
  <2>1. dirtyLoad \subseteq dirtyLoad' /\ dirtySim \subseteq dirtySim'
    BY <1>1, Zenon
  <2>2. \A p \in Positions : p \in dirtyLoad' \/
          \A t : Loads(t[1]) => (t \in tickets[p] <=> t \in tickets'[p])
    <3> SUFFICES ASSUME NEW p \in Positions, p \notin dirtyLoad', NEW t, Loads(t[1])
                 PROVE  t \in tickets[p] <=> t \in tickets'[p]
      BY Zenon
    <3>1. t # SimulationTicket
      BY <1>14, TicketTypes, Zenon
    <3>2. ~(coverage[p] > 0 /\ without[p] = 0) /\ ~(without[p] = 0 /\ with[p] > 0)
      BY <1>1, Zenon
    <3>3. with[p] > 0 <=> coverage[p] > 0
      BY <1>9, <1>13, <3>2, CountFacts, Zenon
    <3>4. LoadingTicket \in tickets[p] <=> coverage[p] > 0
      BY CoverageIs, Zenon
    <3> QED
      BY <1>16, <1>18, <3>1, <3>3, <3>4, Zenon
  <2>3. \A p \in Positions : p \in dirtySim' \/
          \A t : Simulates(t[1]) => (t \in tickets[p] <=> t \in tickets'[p])
    <3> SUFFICES ASSUME NEW p \in Positions, p \notin dirtySim', NEW t, Simulates(t[1])
                 PROVE  t \in tickets[p] <=> t \in tickets'[p]
      BY Zenon
    <3>1. t # LoadingTicket
      BY <1>14, TicketTypes, Zenon
    <3>2. p \notin emptied /\ p \notin filled
      BY <1>1, Zenon
    <3> QED
      BY <1>17, <1>18, <3>1, <3>2, Zenon
  <2> QED
    BY <1>2, <2>1, <2>2, <2>3, DirtySources, Zenon
<1>23. LeasesMatch' /\ TimedMatch'
  <2>1. \A l \in 0 .. MaxLevel : RequestTicket(l) # LoadingTicket /\ RequestTicket(l) # SimulationTicket
    BY <1>14 DEF RequestTicket
  <2>2. \A t \in Timed : <<t, TimedLevel[t]>> # LoadingTicket /\ <<t, TimedLevel[t]>> # SimulationTicket
    BY <1>14, TicketTypes
  <2> QED
    BY <1>1, <1>2, <1>18, <2>1, <2>2, OtherLeases, OtherTimed, Zenon
<1>24. ReceiptsMatch'
  <2>1. \A q \in Requesters : receipt[q] <= latest => receipt[q] <= latest + 1
    BY DEF RequestTypeOK, IngressTypeOK
  <2>2. through <= latest + 1
    BY DEF ReceiptsMatch, IngressTypeOK
  <2> QED
    BY <1>1, <1>2, <2>1, <2>2, Zenon DEF ReceiptsMatch
<1> QED
  BY <1>3, <1>19, <1>20, <1>21, <1>22, <1>23, <1>24, Zenon

-----------------------------------------------------------------------------
\* The start of a world.

\* A world that starts with the tickets that were saved.
Started ==
    /\ saved \in [Positions -> [Timed -> Int]] /\ restarts \in Nat
    /\ tickets = Restored(saved) /\ left = saved /\ gen = RestoredGen(saved)
    /\ generations = 1 /\ leases = NoLeases /\ coverage = Uncounted
    /\ playerPos = [pl \in Players |-> NoPos]
    /\ latest = 0 /\ committed = 0 /\ dirtyLoad = {} /\ dirtySim = {}
    /\ loadSource = [p \in Positions |-> LoadSource(Restored(saved), p)]
    /\ simSource = [p \in Positions |-> SimSource(Restored(saved), p)]
    /\ loadLevel = Nowhere /\ simLevel = Nowhere
    /\ holderLoad = Nowhere /\ holderSim = Nowhere /\ reached = Nowhere /\ unloading = {}
    /\ pc = "idle" /\ expirations = {} /\ loadChanges = {} /\ simChanges = {} /\ through = 0
    /\ wants = [r \in Requesters |-> {}] /\ wantLevel = [r \in Requesters |-> MaxLevel]
    /\ receipt = [r \in Requesters |-> 0] /\ poll = [r \in Requesters |-> "none"]
    /\ seen = [r \in Requesters |-> {}] /\ fresh = {}
    /\ \A p \in Positions, t \in Timed : gen[p][t] # 0 => left[p][t] + passes[p][t] = Timeout[t]
    /\ passes \in [Positions -> [Timed -> Int]]

\* The restored tickets are of timed types.
LEMMA RestoredFacts ==
  ASSUME NEW sv
  PROVE  /\ Restored(sv) \in [Positions -> SUBSET Tickets]
         /\ \A p \in Positions : \A t : t \in Restored(sv)[p] <=>
              \E u \in Timed : sv[p][u] >= 0 /\ t = <<u, TimedLevel[u]>>
         /\ \A p \in Positions, u \in Timed : <<u, TimedLevel[u]>> \in Restored(sv)[p] <=> sv[p][u] >= 0
         /\ \A p \in Positions : LoadingTicket \notin Restored(sv)[p] /\ SimulationTicket \notin Restored(sv)[p]
         /\ \A p \in Positions, l \in 0 .. MaxLevel : RequestTicket(l) \notin Restored(sv)[p]
<1>1. \A p \in Positions : \A t : t \in Restored(sv)[p] <=>
              \E u \in Timed : sv[p][u] >= 0 /\ t = <<u, TimedLevel[u]>>
  BY Zenon DEF Restored
<1>2. \A t, u \in Timed : <<t, TimedLevel[t]>> = <<u, TimedLevel[u]>> => t = u
  OBVIOUS
<1>3. Restored(sv) \in [Positions -> SUBSET Tickets]
  <2>1. Restored(sv) = [p \in Positions |-> Restored(sv)[p]]
    BY Zenon DEF Restored
  <2>2. \A u \in Timed : <<u, TimedLevel[u]>> \in Tickets
    BY TicketTypes, Zenon
  <2>3. \A p \in Positions : Restored(sv)[p] \subseteq Tickets
    <3> SUFFICES ASSUME NEW p \in Positions, NEW t \in Restored(sv)[p]
                 PROVE  t \in Tickets
      BY Zenon
    <3>1. PICK u \in Timed : t = <<u, TimedLevel[u]>>
      BY <1>1, Zenon
    <3> QED
      BY <2>2, <3>1, Zenon
  <2> QED
    BY <2>1, <2>3, Zenon
<1>4. \A u \in Timed : /\ LoadingTicket # <<u, TimedLevel[u]>> /\ SimulationTicket # <<u, TimedLevel[u]>>
                       /\ \A l \in 0 .. MaxLevel : RequestTicket(l) # <<u, TimedLevel[u]>>
  BY TicketTypes, Zenon DEF LoadingTicket, SimulationTicket, RequestTicket
<1>5. \A p \in Positions, u \in Timed : <<u, TimedLevel[u]>> \in Restored(sv)[p] <=> sv[p][u] >= 0
  BY <1>1, <1>2, Zenon
<1>6. \A p \in Positions : LoadingTicket \notin Restored(sv)[p] /\ SimulationTicket \notin Restored(sv)[p]
  BY <1>1, <1>4, Zenon
<1>7. ASSUME NEW p \in Positions, NEW l \in 0 .. MaxLevel
      PROVE  RequestTicket(l) \notin Restored(sv)[p]
  <2>1. \A u \in Timed : RequestTicket(l) # <<u, TimedLevel[u]>>
    BY <1>4, <1>7, Zenon
  <2> QED
    BY <1>1, <1>7, <2>1, Zenon
<1> QED
  BY <1>1, <1>3, <1>5, <1>6, <1>7, Zenon

\* The tables of such a world agree.
LEMMA StartedTables ==
  ASSUME Started
  PROVE  IInv
<1> USE DEF IInv, TablesAgree, TypeOK
<1>1. 0 \in Nat /\ 1 \in Nat /\ 0 <= 0 /\ ~(0 > 0) /\ 0 <= 1 /\ 1 <= 1 /\ 1 # 0
  OBVIOUS
<1>2. \A p \in Positions, t \in Timed : gen[p][t] = IF saved[p][t] >= 0 THEN 1 ELSE 0
  BY Zenon DEF Started, RestoredGen
<1>3. StorageTypeOK
  <2>1. gen \in [Positions -> [Timed -> Nat]]
    BY <1>1, Zenon DEF Started, RestoredGen
  <2>2. tickets \in [Positions -> SUBSET Tickets]
    BY RestoredFacts, Zenon DEF Started
  <2>3. expirations \subseteq Positions \X Timed \X Nat /\ fresh \subseteq Positions \X Timed
    BY Zenon DEF Started
  <2> QED
    BY <1>1, <2>1, <2>2, <2>3, Zenon DEF Started, StorageTypeOK
<1>4. IngressTypeOK
  <2>1. leases \in [Positions -> [0 .. MaxLevel -> Nat]]
    BY <1>1, Zenon DEF Started, NoLeases
  <2>2. coverage \in [Positions -> Nat] /\ playerPos \in [Players -> Positions \cup {NoPos}]
    BY <1>1, Zenon DEF Started, Uncounted
  <2> QED
    BY <1>1, <2>1, <2>2, Zenon DEF Started, IngressTypeOK
<1>5. LevelTypeOK
  <2>1. Nowhere \in [Positions -> Levels]
    BY LevelFacts, Zenon DEF Nowhere
  <2>2. \A p \in Positions : LoadSource(Restored(saved), p) \in Levels /\ SimSource(Restored(saved), p) \in Levels
    <3> SUFFICES ASSUME NEW p \in Positions
                 PROVE  LoadSource(Restored(saved), p) \in Levels /\ SimSource(Restored(saved), p) \in Levels
      BY Zenon
    <3>1. Restored(saved) \in [Positions -> SUBSET Tickets]
      BY RestoredFacts, Zenon
    <3>2. Restored(saved)[p] \in SUBSET Tickets
      BY <3>1, Zenon
    <3> QED
      BY <3>2, LoadSourceFacts, SimSourceFacts, Zenon
  <2>3. "idle" \in {"idle", "aging", "aged", "updated", "committing"}
    OBVIOUS
  <2> QED
    BY <2>1, <2>2, <2>3, Zenon DEF Started, LevelTypeOK
<1>6. RequestTypeOK
  <2>1. "none" \in {"none", "scanning", "ready"} /\ MaxLevel \in 0 .. MaxLevel
    BY LevelFacts
  <2> QED
    BY <1>1, <2>1, Zenon DEF Started, RequestTypeOK
<1>7. SourcesSynced
  BY Zenon DEF Started, SourcesSynced
<1>8. LeasesMatch
  <2> SUFFICES ASSUME NEW p \in Positions, NEW l \in 0 .. MaxLevel
               PROVE  /\ leases[p][l] = Cardinality(Holding(wants, wantLevel, p, l))
                      /\ RequestTicket(l) \in tickets[p] <=> leases[p][l] > 0
    BY LeasesAre, Zenon
  <2>1. Holding(wants, wantLevel, p, l) = {}
    BY Zenon DEF Holding, Started
  <2>2. leases[p][l] = 0
    BY Zenon DEF Started, NoLeases
  <2>3. RequestTicket(l) \notin tickets[p]
    BY RestoredFacts, Zenon DEF Started
  <2> QED
    BY <1>1, <2>1, <2>2, <2>3, FS_EmptySet, Zenon
<1>9. CoverageMatches
  <2> SUFFICES ASSUME NEW p \in Positions
               PROVE  /\ coverage[p] = Cardinality(Seeing(playerPos, Players, p))
                      /\ LoadingTicket \in tickets[p] <=> coverage[p] > 0
                      /\ SimulationTicket \in tickets[p] <=> \E pl \in Players : playerPos[pl] = p
    BY CoverageIs, Zenon
  <2>1. \A pl \in Players : playerPos[pl] = NoPos
    BY Zenon DEF Started
  <2>2. Seeing(playerPos, Players, p) = {}
    <3>1. NoPos \notin Positions
      BY TicketAssumption, Zenon
    <3>2. ~\E x \in Positions : \E q \in Players : playerPos[q] = x
      BY <2>1, <3>1, Zenon
    <3> QED
      BY <3>2, Zenon DEF Seeing
  <2>3. coverage[p] = 0
    BY Zenon DEF Started, Uncounted
  <2>4. LoadingTicket \notin tickets[p] /\ SimulationTicket \notin tickets[p]
    BY RestoredFacts, Zenon DEF Started
  <2>5. ~\E pl \in Players : playerPos[pl] = p
    BY <2>1, TicketAssumption, Zenon
  <2>6. Cardinality({}) = 0
    BY FS_EmptySet, Zenon
  <2> QED
    BY <1>1, <2>2, <2>3, <2>4, <2>5, <2>6, Zenon
<1>10. HoldersMatch
  BY Zenon DEF Started, HoldersMatch, Nowhere
<1>11. TimedMatch
  <2> SUFFICES ASSUME NEW p \in Positions, NEW t \in Timed
               PROVE  gen[p][t] <= 1 /\ (<<t, TimedLevel[t]>> \in tickets[p] <=> gen[p][t] # 0)
    BY Zenon DEF Started, TimedMatch
  <2> QED
    BY <1>1, <1>2, RestoredFacts, Zenon DEF Started
<1>12. \A r \in Requesters : wants[r] = {} /\ seen[r] = {} /\ poll[r] = "none"
  BY Zenon DEF Started
<1>13. ReceiptsMatch
  BY <1>1, <1>12, Zenon DEF Started, ReceiptsMatch
<1>14. CommittedHolds
  BY <1>12, Zenon DEF CommittedHolds
<1>15. ReadyStaysReady
  <2>1. "none" # "ready"
    OBVIOUS
  <2> QED
    BY <1>12, <2>1, Zenon DEF ReadyStaysReady
<1> QED
  BY <1>3, <1>4, <1>5, <1>6, <1>7, <1>8, <1>9, <1>10, <1>11, <1>13, <1>14, <1>15, Zenon

\* The first start is one with nothing saved.
LEMMA InitTables == Init => IInv
<1> SUFFICES ASSUME Init PROVE IInv
  OBVIOUS
<1>1. saved = NothingSaved /\ \A p \in Positions, t \in Timed : saved[p][t] = -1 /\ ~(saved[p][t] >= 0)
  <2>1. saved = NothingSaved
    BY Zenon DEF Init
  <2>2. \A p \in Positions, t \in Timed : NothingSaved[p][t] = -1
    BY Zenon DEF NothingSaved
  <2>3. ~(-1 >= 0)
    OBVIOUS
  <2> QED
    BY <2>1, <2>2, <2>3, Zenon
<1>2. \A p \in Positions : Restored(saved)[p] = {}
  BY <1>1, RestoredFacts, Zenon
<1>3. \A p \in Positions : LoadSource(Restored(saved), p) = Absent /\ SimSource(Restored(saved), p) = Absent
  <2> SUFFICES ASSUME NEW p \in Positions
               PROVE  LoadSource(Restored(saved), p) = Absent /\ SimSource(Restored(saved), p) = Absent
    BY Zenon
  <2>1. Min({Absent}) \in {Absent}
    <3>1. {Absent} \subseteq Nat /\ {Absent} # {}
      BY LevelFacts, Zenon
    <3> QED
      BY <3>1, MinFacts, Zenon
  <2>2. /\ {Absent} \cup {t[2] : t \in {u \in Restored(saved)[p] : Loads(u[1])}} = {Absent}
        /\ {Absent} \cup {t[2] : t \in {u \in Restored(saved)[p] : Simulates(u[1]) /\ u[2] <= BlockTicking}} = {Absent}
    BY <1>2, Zenon
  <2> QED
    BY <2>1, <2>2, Zenon DEF LoadSource, SimSource
<1>4. \A p \in Positions, t \in Timed : gen[p][t] = 0
  BY <1>1, Zenon DEF Init, RestoredGen
<1>5. saved \in [Positions -> [Timed -> Int]] /\ passes \in [Positions -> [Timed -> Int]] /\ restarts \in Nat
  BY DEF Init, NothingSaved
<1>6. /\ loadSource = [p \in Positions |-> LoadSource(Restored(saved), p)]
      /\ simSource = [p \in Positions |-> SimSource(Restored(saved), p)]
  BY <1>3, Zenon DEF Init, Nowhere
<1>7. Started
  BY <1>4, <1>5, <1>6, Zenon DEF Init, Started
<1> QED
  BY <1>7, StartedTables, Zenon

\* cleanup or a crash, and the start after it (from_persistent).
LEMMA RestartStep ==
  ASSUME IInv, NEW sv \in [Positions -> [Timed -> Int]], Restart(sv)
  PROVE  Started'
<1> USE DEF IInv, TablesAgree, TypeOK
<1>1. saved' = sv /\ left' = sv /\ gen' = RestoredGen(sv) /\ restarts' \in Nat
  BY DEF Restart, StorageTypeOK
<1>2. passes' = [p \in Positions |-> [t \in Timed |-> IF sv[p][t] >= 0 THEN Timeout[t] - sv[p][t] ELSE 0]]
  BY Zenon DEF Restart
<1>3. passes' \in [Positions -> [Timed -> Int]]
  BY <1>2, TicketTypes
<1>4. \A p \in Positions, t \in Timed : gen'[p][t] # 0 => left'[p][t] + passes'[p][t] = Timeout[t]
  <2> SUFFICES ASSUME NEW p \in Positions, NEW t \in Timed, gen'[p][t] # 0
               PROVE  sv[p][t] + passes'[p][t] = Timeout[t]
    BY <1>1, Zenon
  <2>1. sv[p][t] >= 0
    BY <1>1, Zenon DEF RestoredGen
  <2>2. passes'[p][t] = Timeout[t] - sv[p][t]
    BY <1>2, <2>1, Zenon
  <2>3. sv[p][t] \in Int /\ Timeout[t] \in Int
    BY TicketTypes
  <2> QED
    BY <2>2, <2>3
<1>5. /\ loadSource' = [p \in Positions |-> LoadSource(Restored(sv), p)]
      /\ simSource' = [p \in Positions |-> SimSource(Restored(sv), p)]
      /\ tickets' = Restored(sv)
  BY Zenon DEF Restart
<1>6. /\ Restored(saved)' = Restored(sv) /\ RestoredGen(saved)' = RestoredGen(sv)
      /\ \A p : LoadSource(Restored(saved), p)' = LoadSource(Restored(sv), p)
      /\ \A p : SimSource(Restored(saved), p)' = SimSource(Restored(sv), p)
  BY <1>1, Zenon DEF Restored, RestoredGen, LoadSource, SimSource
<1> QED
  BY <1>1, <1>3, <1>4, <1>5, <1>6, Zenon DEF Restart, Started

\* What to_persistent saves are ticks.
LEMMA SavedTypes ==
  ASSUME StorageTypeOK
  PROVE  ToPersistent \in [Positions -> [Timed -> Int]]
BY DEF StorageTypeOK, ToPersistent

\* A step that starts a world establishes the invariant.
LEMMA StartedNext == Started' => IInv'
<1>1. Started => IInv
  BY StartedTables, Zenon
<1> QED
  BY <1>1, PTL

-----------------------------------------------------------------------------
\* The theorems.

\* Every step keeps the tables in agreement.
LEMMA StepKeeps ==
  ASSUME IInv, [Next]_vars
  PROVE  IInv'
<1>1. CASE UNCHANGED vars
  <2> USE DEF IInv, TablesAgree, TypeOK
  <2>1. UNCHANGED <<storage, ingress, trackers, committed, holders, pc, expirations, batch, requests,
                    persisted, history>>
    BY <1>1, Zenon DEF vars
  <2>2. UNCHANGED <<tickets, left, gen, generations, leases, coverage, playerPos, latest, dirtyLoad, dirtySim,
                    loadSource, simSource, loadLevel, simLevel, holderLoad, holderSim, reached, unloading,
                    loadChanges, simChanges, through, wants, wantLevel, receipt, saved, restarts, fresh, passes>>
    BY <2>1, Zenon DEF storage, ingress, trackers, holders, batch, requests, persisted, history
  <2>3. StorageTypeOK' /\ IngressTypeOK' /\ LevelTypeOK' /\ RequestTypeOK'
    BY <2>1, <2>2, KeepStorageType, KeepIngressType, KeepLevelType, KeepRequestType, Zenon
  <2>4. SourcesSynced' /\ LeasesMatch' /\ CoverageMatches' /\ HoldersMatch' /\ TimedMatch'
    BY <2>1, <2>2, KeepSources, KeepLeases, KeepCoverage, KeepHolders, KeepTimed, Zenon
  <2>5. ReceiptsMatch' /\ CommittedHolds' /\ ReadyStaysReady'
    BY <2>1, <2>2, KeepReceipts, KeepCommitted, KeepReady, Zenon
  <2> QED
    BY <2>3, <2>4, <2>5, Zenon
<1>2. ASSUME NEW r \in Requesters,
             \/ \E ps \in RequestSets, l \in RequestLevels : Acquire(r, ps, l)
             \/ Release(r)
             \/ PollStep(r)
      PROVE  IInv'
  BY <1>2, AcquireStep, ReleaseStep, PollCommittedStep, PollChunkStep, Zenon DEF PollStep
<1>3. ASSUME GameStep
      PROVE  IInv'
  BY <1>3, TickTimedStep, RunUpdatesStep, ApplySimulationStep, PublishStep, CommitLevelStep,
     Zenon DEF GameStep
<1>4. CASE CleanRestart \/ Crash
  <2>1. StorageTypeOK
    BY Zenon DEF IInv, TablesAgree, TypeOK
  <2>2. ToPersistent \in [Positions -> [Timed -> Int]] /\ saved \in [Positions -> [Timed -> Int]]
    BY <2>1, SavedTypes, Zenon DEF StorageTypeOK
  <2>3. Started'
    BY <1>4, <2>2, RestartStep, Zenon DEF CleanRestart, Crash
  <2> QED
    BY <2>3, StartedNext, Zenon
<1>5. ASSUME NEW pl \in Players, NEW c \in Positions \cup {NoPos}, MovePlayer(pl, c)
      PROVE  IInv'
  BY <1>5, MovePlayerStep, Zenon
<1>6. ASSUME NEW p \in Positions, NEW t \in Timed, PlaceTimed(p, t)
      PROVE  IInv'
  BY <1>6, PlaceTimedStep, Zenon
<1>7. ASSUME NEW busy \in SUBSET Positions, SnapshotTimed(busy)
      PROVE  IInv'
  BY <1>7, SnapshotTimedStep, Zenon
<1>8. ASSUME NEW p \in Positions, NEW s \in Levels, Generate(p, s)
      PROVE  IInv'
  BY <1>8, GenerateStep, Zenon
<1>9. ASSUME NEW p \in Positions, FinishUnload(p)
      PROVE  IInv'
  BY <1>9, FinishUnloadStep, Zenon
<1> QED
  BY <1>1, <1>2, <1>3, <1>4, <1>5, <1>6, <1>7, <1>8, <1>9, Zenon DEF Next

\* Tickets, leases, coverage, sources, levels, holders and receipts agree in every reachable
\* state, for every set of positions, requesters and players (all the operations of
\* TicketOperationIngress and of run_chunk_source_updates).
THEOREM Invariance == Spec => []IInv
<1>1. Init => IInv
  BY InitTables, Zenon
<1>2. IInv /\ [Next]_vars => IInv'
  BY StepKeeps, Zenon
<1> QED
  BY <1>1, <1>2, PTL DEF Spec

\* Each counter and dirty set of the ticket storage says what a recount would say.
THEOREM TablesStayAgreed == Spec => []TablesAgree
<1>1. IInv => TablesAgree
  BY Zenon DEF IInv
<1> QED
  BY <1>1, Invariance, PTL

\* A request whose receipt publish_committed has covered has all its chunks loaded.
THEOREM CommittedMeansLoaded == Spec => []CommittedHolds
<1>1. IInv => CommittedHolds
  BY Zenon DEF IInv
<1> QED
  BY <1>1, Invariance, PTL

\* A chunk that a poll saw ready stays ready until the lease is dropped.
THEOREM ReadyIsStable == Spec => []ReadyStaysReady
<1>1. IInv => ReadyStaysReady
  BY Zenon DEF IInv
<1> QED
  BY <1>1, Invariance, PTL

\* A timed ticket expires only after as many complete passes of tick_timed_tickets since its
\* last refresh as its timeout says.
THEOREM TimeoutsRespected == Spec => LastsTimeout
<1> DEFINE Lasts == \A p \in Positions, t \in Timed :
                      gen[p][t] # 0 /\ gen'[p][t] = 0 /\ restarts' = restarts => passes[p][t] >= Timeout[t]
<1>1. IInv /\ [Next]_vars => [Lasts]_vars
  <2> SUFFICES ASSUME IInv, Next, NEW p \in Positions, NEW t \in Timed,
                      gen[p][t] # 0, gen'[p][t] = 0, restarts' = restarts
               PROVE  passes[p][t] >= Timeout[t]
    BY Zenon
  <2>1. StorageTypeOK
    BY Zenon DEF IInv, TablesAgree, TypeOK
  <2>2. gen' # gen
    BY Zenon
  <2>3. UNCHANGED storage => UNCHANGED gen
    BY Zenon DEF storage
  <2>4. ~(restarts' = restarts + 1)
    BY <2>1 DEF StorageTypeOK
  <2>5. ASSUME NEW q \in Positions, NEW u \in Timed, PlaceTimed(q, u)
        PROVE  FALSE
    <3>1. gen' = [gen EXCEPT ![q][u] = generations + 1]
      BY <2>5, Zenon DEF PlaceTimed
    <3>2. generations + 1 # 0
      BY <2>1 DEF StorageTypeOK
    <3>3. gen'[p][t] = gen[p][t] \/ gen'[p][t] = generations + 1
      BY <2>1, <3>1 DEF StorageTypeOK
    <3> QED
      BY <3>2, <3>3, Zenon
  <2>6. ASSUME NEW r \in Requesters
        PROVE  /\ ~\E ps \in RequestSets, l \in RequestLevels : Acquire(r, ps, l)
               /\ ~Release(r) /\ ~PollStep(r)
    BY <2>2, <2>3, <2>6, Zenon DEF Acquire, Release, PollStep, PollCommitted, PollChunk
  <2>7. /\ ~\E pl \in Players, c \in Positions \cup {NoPos} : MovePlayer(pl, c)
        /\ ~\E busy \in SUBSET Positions : SnapshotTimed(busy)
    BY <2>2, <2>3, Zenon DEF MovePlayer, SnapshotTimed
  <2>8. ~RunUpdates /\ ~ApplySimulation /\ ~Publish /\ ~\E q \in Positions : CommitLevel(q)
    BY <2>2, <2>3, Zenon DEF RunUpdates, ApplySimulation, Publish, CommitLevel
  <2>9. /\ ~\E q \in Positions, s \in Levels : Generate(q, s)
        /\ ~\E q \in Positions : FinishUnload(q)
    BY <2>2, <2>3, Zenon DEF Generate, FinishUnload
  <2>10. ~CleanRestart /\ ~Crash
    BY <2>4, Zenon DEF CleanRestart, Crash, Restart
  <2>11. TickTimed
    BY <2>5, <2>6, <2>7, <2>8, <2>9, <2>10, Zenon DEF Next, GameStep
  <2> QED
    BY <2>11, ExpiresLate, Zenon
<1> QED
  BY <1>1, Invariance, PTL DEF Spec, LastsTimeout
=============================================================================
