-------------------------- MODULE PacketQueueSteps --------------------------
(***************************************************************************)
(* Lemmas about PacketQueue: what its steps on lanes do to its invariant   *)
(* and to the line of packets, for every value of the constants.           *)
(*                                                                         *)
(* The invariant is used in the form Points, which says of one packet, one *)
(* heap entry and one lane at a time what IInv says of sets.               *)
(***************************************************************************)
EXTENDS PacketQueue, TLAPS

\* What a lane holds: queued packets, and deferred ones, which have no number.
Packets == [seq : Nat, exec : Execution, id : Nat]

Deferrals == [exec : Execution, id : Nat]

\* The order of a lane's queued and of its deferred packets.
Rising(line) == \A i, j \in DOMAIN line : i < j =>
  line[i].seq < line[j].seq /\ line[i].id < line[j].id

RisingIds(line) == \A i, j \in DOMAIN line : i < j => line[i].id < line[j].id

-----------------------------------------------------------------------------
(* Lines of packets.                                                        *)

\* What a line holds.
LEMMA LineFacts ==
  ASSUME NEW S, NEW line \in Seq(S)
  PROVE  /\ DOMAIN line = 1 .. Len(line) /\ Len(line) \in Nat
         /\ Elements(line) \subseteq S
         /\ line = <<>> <=> Elements(line) = {}
         /\ line = <<>> <=> Len(line) = 0
         /\ line # <<>> => Head(line) = line[1] /\ line[1] \in Elements(line) /\ 1 \in DOMAIN line
BY DEF Elements

\* An empty line.
LEMMA EmptyLine ==
  ASSUME NEW S
  PROVE  <<>> \in Seq(S) /\ Elements(<<>>) = {} /\ Len(<<>>) = 0 /\ Rising(<<>>) /\ RisingIds(<<>>)
BY DEF Elements, Rising, RisingIds

\* A packet joins the end of a line.
LEMMA AppendFacts ==
  ASSUME NEW S, NEW line \in Seq(S), NEW x \in S
  PROVE  /\ Append(line, x) \in Seq(S) /\ Len(Append(line, x)) = Len(line) + 1
         /\ Elements(Append(line, x)) = Elements(line) \cup {x}
         /\ Append(line, x) # <<>>
         /\ Append(line, x)[1] = IF line = <<>> THEN x ELSE line[1]
<1> DEFINE new == Append(line, x)
<1>1. /\ new \in Seq(S) /\ Len(new) = Len(line) + 1 /\ DOMAIN new = 1 .. (Len(line) + 1)
      /\ new[Len(line) + 1] = x /\ \A i \in 1 .. Len(line) : new[i] = line[i]
      /\ DOMAIN line = 1 .. Len(line) /\ Len(line) \in Nat
  OBVIOUS
<1> HIDE DEF new
<1>2. ASSUME NEW y PROVE y \in Elements(new) <=> y \in Elements(line) \cup {x}
  BY <1>1 DEF Elements
<1>3. new # <<>> /\ (new[1] = IF line = <<>> THEN x ELSE line[1])
  BY <1>1
<1> QED
  BY <1>1, <1>2, <1>3, Zenon DEF new

\* try_submit keeps the order of a lane when the new packet has the largest numbers.
LEMMA AppendRises ==
  ASSUME NEW line \in Seq(Packets), NEW x \in Packets, Rising(line),
         \A y \in Elements(line) : y.seq < x.seq /\ y.id < x.id
  PROVE  Rising(Append(line, x))
<1> DEFINE new == Append(line, x)
<1>1. /\ DOMAIN new = 1 .. (Len(line) + 1) /\ Len(line) \in Nat
      /\ new[Len(line) + 1] = x /\ \A i \in 1 .. Len(line) : new[i] = line[i]
      /\ DOMAIN line = 1 .. Len(line)
  OBVIOUS
<1>2. \A i \in 1 .. Len(line) : line[i].seq < x.seq /\ line[i].id < x.id
  BY <1>1, Zenon DEF Elements
<1> HIDE DEF new
<1>3. Rising(new)
  BY <1>1, <1>2 DEF Rising
<1> QED
  BY <1>3, Zenon DEF new

\* The same for the packets a paused lane defers.
LEMMA AppendRisesIds ==
  ASSUME NEW line \in Seq(Deferrals), NEW x \in Deferrals, RisingIds(line),
         \A y \in Elements(line) : y.id < x.id
  PROVE  RisingIds(Append(line, x))
<1> DEFINE new == Append(line, x)
<1>1. /\ DOMAIN new = 1 .. (Len(line) + 1) /\ Len(line) \in Nat
      /\ new[Len(line) + 1] = x /\ \A i \in 1 .. Len(line) : new[i] = line[i]
      /\ DOMAIN line = 1 .. Len(line)
  OBVIOUS
<1>2. \A i \in 1 .. Len(line) : line[i].id < x.id
  BY <1>1, Zenon DEF Elements
<1> HIDE DEF new
<1>3. RisingIds(new)
  BY <1>1, <1>2 DEF RisingIds
<1> QED
  BY <1>3, Zenon DEF new

\* The first packet leaves a line.
LEMMA TailFacts ==
  ASSUME NEW line \in Seq(Packets), line # <<>>, Rising(line)
  PROVE  /\ Tail(line) \in Seq(Packets) /\ Len(Tail(line)) = Len(line) - 1
         /\ Rising(Tail(line))
         /\ Elements(Tail(line)) = Elements(line) \ {line[1]}
         /\ \A x \in Elements(Tail(line)) : line[1].seq < x.seq /\ line[1].id < x.id
         /\ \A x \in Elements(line) : line[1].seq <= x.seq /\ line[1].id <= x.id
<1> DEFINE new == Tail(line)
<1>1. /\ new \in Seq(Packets) /\ Len(new) = Len(line) - 1 /\ DOMAIN new = 1 .. (Len(line) - 1)
      /\ \A i \in 1 .. (Len(line) - 1) : new[i] = line[i + 1]
      /\ DOMAIN line = 1 .. Len(line) /\ Len(line) \in Nat /\ Len(line) # 0
      /\ \A i \in DOMAIN line : line[i] \in Packets
  OBVIOUS
<1> HIDE DEF new
<1>2. Rising(new)
  <2> SUFFICES ASSUME NEW i \in DOMAIN new, NEW j \in DOMAIN new, i < j
               PROVE  new[i].seq < new[j].seq /\ new[i].id < new[j].id
    BY Zenon DEF Rising
  <2>1. i + 1 \in DOMAIN line /\ j + 1 \in DOMAIN line /\ i + 1 < j + 1
    BY <1>1
  <2>2. new[i] = line[i + 1] /\ new[j] = line[j + 1]
    BY <1>1, Zenon
  <2> QED
    BY <2>1, <2>2, Zenon DEF Rising
<1>3. \A i \in 1 .. Len(line) : i # 1 => line[1].seq < line[i].seq /\ line[1].id < line[i].id
  BY <1>1 DEF Rising
<1>4. \A x \in Elements(new) : line[1].seq < x.seq /\ line[1].id < x.id
  BY <1>1, <1>3 DEF Elements
<1>5. \A x \in Elements(line) : line[1].seq <= x.seq /\ line[1].id <= x.id
  <2> SUFFICES ASSUME NEW i \in 1 .. Len(line)
               PROVE  line[1].seq <= line[i].seq /\ line[1].id <= line[i].id
    BY <1>1, Zenon DEF Elements
  <2>1. 1 \in DOMAIN line /\ i \in DOMAIN line
    BY <1>1
  <2>2. line[1].seq \in Nat /\ line[1].id \in Nat /\ line[i].seq \in Nat /\ line[i].id \in Nat
    BY <1>1, <2>1, ZenonT(30) DEF Packets
  <2> QED
    BY <1>3, <2>2
<1>6. ASSUME NEW x PROVE x \in Elements(new) <=> x \in Elements(line) \ {line[1]}
  <2>1. x \in Elements(new) => x \in Elements(line) /\ x # line[1]
    <3> SUFFICES ASSUME NEW i \in 1 .. (Len(line) - 1), x = new[i]
                 PROVE  x \in Elements(line) /\ x # line[1]
      BY <1>1, Zenon DEF Elements
    <3>1. i + 1 \in 1 .. Len(line) /\ i + 1 # 1 /\ x = line[i + 1] /\ 1 \in DOMAIN line
      BY <1>1
    <3>2. line[1].seq < x.seq /\ line[1].seq \in Nat
      BY <1>1, <1>3, <3>1, line[1] \in Packets, Zenon DEF Packets
    <3> QED
      BY <3>1, <3>2 DEF Elements
  <2>2. ASSUME x \in Elements(line), x # line[1] PROVE x \in Elements(new)
    <3>1. PICK i \in 1 .. Len(line) : x = line[i]
      BY <1>1, <2>2, Zenon DEF Elements
    <3>2. i - 1 \in 1 .. (Len(line) - 1) /\ new[i - 1] = line[i]
      BY <1>1, <2>2, <3>1
    <3> QED
      BY <1>1, <3>1, <3>2, Zenon DEF Elements
  <2> QED
    BY <2>1, <2>2, Zenon
<1> QED
  BY <1>1, <1>2, <1>4, <1>5, <1>6, Zenon DEF new

\* pause_lane: the packets of a line without their sequence numbers.
Withdrawn(line) == [i \in DOMAIN line |-> [exec |-> line[i].exec, id |-> line[i].id]]

\* pause_lane keeps all packets of the lane, in their order.
LEMMA WithdrawnFacts ==
  ASSUME NEW line \in Seq(Packets), Rising(line)
  PROVE  /\ Withdrawn(line) \in Seq(Deferrals) /\ Len(Withdrawn(line)) = Len(line)
         /\ RisingIds(Withdrawn(line))
         /\ \A x : x \in Elements(Withdrawn(line)) <=>
              \E y \in Elements(line) : x = [exec |-> y.exec, id |-> y.id]
<1> DEFINE new == Withdrawn(line)
<1>1. DOMAIN line = 1 .. Len(line) /\ Len(line) \in Nat /\ \A i \in DOMAIN line : line[i] \in Packets
  OBVIOUS
<1>2. DOMAIN new = DOMAIN line /\ \A i \in DOMAIN line : new[i] = [exec |-> line[i].exec, id |-> line[i].id]
  BY Zenon DEF Withdrawn
<1>3. new \in [1 .. Len(line) -> Deferrals]
  BY <1>1, Zenon DEF Withdrawn, Deferrals, Packets
<1> HIDE DEF new
<1>4. new \in Seq(Deferrals) /\ Len(new) = Len(line)
  BY <1>1, <1>3
<1>5. RisingIds(new)
  BY <1>1, <1>2 DEF Rising, RisingIds
<1>6. \A x : x \in Elements(new) <=> \E y \in Elements(line) : x = [exec |-> y.exec, id |-> y.id]
  BY <1>2, Zenon DEF Elements
<1> QED
  BY <1>4, <1>5, <1>6, Zenon DEF new

\* resume_lane: the packets of a line with fresh sequence numbers.
Renumbered(line, n) ==
  [i \in DOMAIN line |-> [seq |-> n + i - 1, exec |-> line[i].exec, id |-> line[i].id]]

\* resume_lane keeps all packets of the lane, in their order, and gives them numbers
\* from the next one on.
LEMMA RenumberedFacts ==
  ASSUME NEW line \in Seq(Deferrals), RisingIds(line), NEW n \in Nat
  PROVE  /\ Renumbered(line, n) \in Seq(Packets) /\ Len(Renumbered(line, n)) = Len(line)
         /\ Rising(Renumbered(line, n))
         /\ \A x \in Elements(Renumbered(line, n)) : n <= x.seq /\ x.seq < n + Len(line)
         /\ \A x \in Elements(Renumbered(line, n)) :
              \E y \in Elements(line) : y.id = x.id /\ y.exec = x.exec
         /\ \A y \in Elements(line) :
              \E x \in Elements(Renumbered(line, n)) : x.id = y.id /\ x.exec = y.exec
<1> DEFINE new == Renumbered(line, n)
<1>1. DOMAIN line = 1 .. Len(line) /\ Len(line) \in Nat /\ \A i \in DOMAIN line : line[i] \in Deferrals
  OBVIOUS
<1>2. DOMAIN new = DOMAIN line
      /\ \A i \in DOMAIN line : new[i] = [seq |-> n + i - 1, exec |-> line[i].exec, id |-> line[i].id]
  BY Zenon DEF Renumbered
<1>3. new \in [1 .. Len(line) -> Packets]
  <2>1. \A i \in 1 .. Len(line) : n + i - 1 \in Nat
    BY <1>1
  <2> QED
    BY <1>1, <2>1, Zenon DEF Renumbered, Deferrals, Packets
<1> HIDE DEF new
<1>4. new \in Seq(Packets) /\ Len(new) = Len(line)
  BY <1>1, <1>3
<1>5. \A i \in 1 .. Len(line) : new[i].seq = n + i - 1 /\ new[i].id = line[i].id /\ new[i].exec = line[i].exec
  BY <1>1, <1>2
<1>6. Rising(new)
  <2> SUFFICES ASSUME NEW i \in DOMAIN line, NEW j \in DOMAIN line, i < j
               PROVE  new[i].seq < new[j].seq /\ new[i].id < new[j].id
    BY <1>2, Zenon DEF Rising
  <2>1. line[i].id < line[j].id
    BY Zenon DEF RisingIds
  <2>2. n + i - 1 < n + j - 1
    BY <1>1
  <2> QED
    BY <1>1, <1>5, <2>1, <2>2, Zenon
<1>7. \A x \in Elements(new) : n <= x.seq /\ x.seq < n + Len(line)
  BY <1>1, <1>2, <1>5 DEF Elements
<1>8. ASSUME NEW x \in Elements(new) PROVE \E y \in Elements(line) : y.id = x.id /\ y.exec = x.exec
  <2>1. PICK i \in 1 .. Len(line) : x = new[i]
    BY <1>1, <1>2, Zenon DEF Elements
  <2>2. line[i] \in Elements(line) /\ line[i].id = x.id /\ line[i].exec = x.exec
    BY <1>1, <1>5, <2>1, Zenon DEF Elements
  <2> QED
    BY <2>2, Zenon
<1>9. ASSUME NEW y \in Elements(line) PROVE \E x \in Elements(new) : x.id = y.id /\ x.exec = y.exec
  <2>1. PICK i \in 1 .. Len(line) : y = line[i]
    BY <1>1, Zenon DEF Elements
  <2>2. new[i] \in Elements(new) /\ new[i].id = y.id /\ new[i].exec = y.exec
    BY <1>1, <1>2, <1>5, <2>1, Zenon DEF Elements
  <2> QED
    BY <2>2, Zenon
<1> QED
  BY <1>4, <1>6, <1>7, <1>8, <1>9, Zenon DEF new

\* Two packets of a line are in the same order by sequence and by submission.
LEMMA RisingFacts ==
  ASSUME NEW line \in Seq(Packets), Rising(line),
         NEW x \in Elements(line), NEW y \in Elements(line)
  PROVE  /\ x.seq < y.seq <=> x.id < y.id
         /\ x.seq = y.seq => x = y
         /\ x.id = y.id => x = y
<1>1. PICK i \in 1 .. Len(line) : x = line[i]
  BY DEF Elements
<1>2. PICK j \in 1 .. Len(line) : y = line[j]
  BY DEF Elements
<1>3. i \in DOMAIN line /\ j \in DOMAIN line /\ i \in Nat /\ j \in Nat /\ x \in Packets /\ y \in Packets
  BY <1>1, <1>2
<1>4. /\ i < j => x.seq < y.seq /\ x.id < y.id
      /\ j < i => y.seq < x.seq /\ y.id < x.id
      /\ i = j => x = y
  BY <1>1, <1>2, <1>3, Zenon DEF Rising
<1>5. i < j \/ j < i \/ i = j
  BY <1>3
<1> QED
  BY <1>3, <1>4, <1>5 DEF Packets

\* A lane without packets takes over the line that is added to it.
LEMMA EmptyConcat ==
  ASSUME NEW S, NEW line \in Seq(S)
  PROVE  <<>> \o line = line
OBVIOUS

-----------------------------------------------------------------------------
(* The invariant, said of one packet, one entry and one lane at a time.     *)

\* The numbers of the packets of a lane.
Ids(s) == {x.id : x \in Elements(queued[s]) \cup Elements(deferred[s])}

\* What a lane counts: queued, deferred and running packets.
QueuedLen(s) == Len(queued[s])

DeferredLen(s) == Len(deferred[s])

Load(s) == IF busy[s] THEN 1 ELSE 0

\* LanesInv for one lane.
LaneAt(s) ==
  /\ s \in lanes <=> queued[s] # <<>> \/ busy[s] \/ pauseGen[s] # 0
  /\ pauseGen[s] # 0 => queued[s] = <<>>
  /\ pauseGen[s] = 0 => deferred[s] = <<>>
  /\ outstanding[s] = QueuedLen(s) + DeferredLen(s) + Load(s)

\* What a ready heap holds, entry by entry.
ReadyAt ==
  \A e \in Execution, n \in Nat, s \in Sessions :
    <<n, s>> \in ready[e] <=> /\ queued[s] # <<>> /\ ~busy[s]
                              /\ queued[s][1].exec = e /\ queued[s][1].seq = n

\* What the heaps serialized and exclusive hold, entry by entry.
OrderAt ==
  \A e \in Execution, n \in Nat :
    n \in order[e] <=> /\ e # "local"
                       /\ \E s \in Sessions : \E x \in Elements(queued[s]) : x.exec = e /\ x.seq = n

\* SequenceInv by lanes.
LinesAt ==
  /\ \A s \in Sessions : Rising(queued[s]) /\ RisingIds(deferred[s])
  /\ \A s \in Sessions : \A x \in Elements(queued[s]) : x.seq < nextSequence

\* PlacesInv by identities.
PlacesAt ==
  /\ \A s \in Sessions : \A k \in Ids(s) : k < submitted
  /\ \A r, s \in Sessions : r # s => Ids(r) \cap Ids(s) = {}
  /\ \A r, s \in Sessions : r # s =>
        \A x \in Elements(queued[r]) : \A y \in Elements(queued[s]) : x.seq # y.seq
  /\ \A w \in Handling : wpkt[w].id < submitted
  /\ \A w \in Handling, s \in Sessions : wpkt[w].id \notin Ids(s)
  /\ \A v, w \in Handling : v # w => wpkt[v].id # wpkt[w].id

\* PhaseInv by lanes.
PhaseAt ==
  /\ phase = "closed" <=> game = "tick"
  /\ phase = "draining" <=> game \in {"drain", "await_idle", "drained"}
  /\ phase = "stopped" <=> game = "ended"
  /\ phase = "stopped" => \A s \in Sessions : queued[s] = <<>> /\ pauseGen[s] = 0
  /\ phase = "draining" => cutoff <= nextSequence
  /\ game \in {"tick", "drained"} => active = 0
  /\ game = "drained" => \A s \in Sessions : \A x \in Elements(queued[s]) : x.seq >= cutoff

\* What the fields of one lane are.
LEMMA LaneTypes ==
  ASSUME LaneTypeOK, NEW s \in Sessions
  PROVE  /\ queued[s] \in Seq(Packets) /\ deferred[s] \in Seq(Deferrals)
         /\ Elements(queued[s]) \subseteq Packets /\ Elements(deferred[s]) \subseteq Deferrals
         /\ queued[s] # <<>> => queued[s][1] \in Packets /\ queued[s][1] \in Elements(queued[s])
         /\ QueuedLen(s) \in Nat /\ DeferredLen(s) \in Nat /\ Load(s) \in Nat
         /\ busy[s] \in BOOLEAN /\ pauseGen[s] \in Nat /\ outstanding[s] \in Nat
<1>1. queued[s] \in Seq(Packets) /\ deferred[s] \in Seq(Deferrals)
  BY ZenonT(30) DEF LaneTypeOK, Packets, Deferrals
<1>2. busy[s] \in BOOLEAN /\ pauseGen[s] \in Nat /\ outstanding[s] \in Nat
  BY Zenon DEF LaneTypeOK
<1>3. Elements(queued[s]) \subseteq Packets /\ Elements(deferred[s]) \subseteq Deferrals
  BY <1>1, LineFacts, Zenon
<1>4. queued[s] # <<>> => queued[s][1] \in Packets /\ queued[s][1] \in Elements(queued[s])
  BY <1>1, <1>3, LineFacts, Zenon
<1>5. QueuedLen(s) \in Nat /\ DeferredLen(s) \in Nat /\ Load(s) \in Nat
  BY <1>1, LineFacts, Zenon DEF QueuedLen, DeferredLen, Load
<1> QED
  BY <1>1, <1>2, <1>3, <1>4, <1>5, Zenon

\* The ready heaps say entry by entry what HeapsInv says of them as sets.
LEMMA ReadyPointwise == LaneTypeOK /\ QueueTypeOK /\ HeapsInv => ReadyAt
<1> SUFFICES ASSUME LaneTypeOK, QueueTypeOK, HeapsInv, NEW e \in Execution, NEW n \in Nat, NEW s \in Sessions
             PROVE  <<n, s>> \in ready[e] <=> /\ queued[s] # <<>> /\ ~busy[s]
                                              /\ queued[s][1].exec = e /\ queued[s][1].seq = n
  BY Zenon DEF ReadyAt
<1>1. ready[e] = {<<Head(queued[r]).seq, r>> : r \in
          {r \in Sessions : queued[r] # <<>> /\ ~busy[r] /\ Head(queued[r]).exec = e}}
  BY ZenonT(30) DEF HeapsInv
<1>2. queued[s] # <<>> => Head(queued[s]) = queued[s][1]
  BY LaneTypes, LineFacts, Zenon
<1> QED
  BY <1>1, <1>2, Zenon

\* So do the heaps of the global order.
LEMMA OrderPointwise == LaneTypeOK /\ QueueTypeOK /\ HeapsInv => OrderAt
<1> SUFFICES ASSUME LaneTypeOK, QueueTypeOK, HeapsInv, NEW e \in Execution, NEW n \in Nat
             PROVE  n \in order[e] <=>
                       /\ e # "local"
                       /\ \E s \in Sessions : \E x \in Elements(queued[s]) : x.exec = e /\ x.seq = n
  BY Zenon DEF OrderAt
<1>1. order[e] = IF e = "local" THEN {}
                    ELSE {x.seq : x \in {y \in AllQueued : y.exec = e}}
  BY ZenonT(30) DEF HeapsInv
<1> QED
  BY <1>1 DEF AllQueued

\* And the other way round.
LEMMA HeapsFromPoints == LaneTypeOK /\ QueueTypeOK /\ ReadyAt /\ OrderAt => HeapsInv
<1> SUFFICES ASSUME LaneTypeOK, QueueTypeOK, ReadyAt, OrderAt, NEW e \in Execution
             PROVE  /\ ready[e] = {<<Head(queued[s]).seq, s>> : s \in
                         {r \in Sessions : queued[r] # <<>> /\ ~busy[r] /\ Head(queued[r]).exec = e}}
                    /\ order[e] = IF e = "local" THEN {}
                                    ELSE {x.seq : x \in {y \in AllQueued : y.exec = e}}
  BY ZenonT(30) DEF HeapsInv
<1> DEFINE R == {<<Head(queued[s]).seq, s>> : s \in
                         {r \in Sessions : queued[r] # <<>> /\ ~busy[r] /\ Head(queued[r]).exec = e}}
           O == IF e = "local" THEN {} ELSE {x.seq : x \in {y \in AllQueued : y.exec = e}}
<1>1. ready[e] \subseteq Nat \X Sessions /\ order[e] \subseteq Nat
  BY Zenon DEF QueueTypeOK
<1>2. \A s \in Sessions : queued[s] # <<>> => Head(queued[s]) = queued[s][1] /\ queued[s][1].seq \in Nat
  BY LaneTypes, LineFacts, Zenon DEF Packets
<1>3. R \subseteq Nat \X Sessions
  BY <1>2
<1>4. ASSUME NEW n \in Nat, NEW s \in Sessions PROVE <<n, s>> \in ready[e] <=> <<n, s>> \in R
  BY <1>2 DEF ReadyAt
<1>5. ready[e] = R
  <2> HIDE DEF R
  <2> QED
    BY <1>1, <1>3, <1>4
<1>6. \A s \in Sessions : \A x \in Elements(queued[s]) : x.seq \in Nat
  BY LaneTypes, Zenon DEF Packets
<1>7. O \subseteq Nat
  BY <1>6, Zenon DEF AllQueued
<1>8. ASSUME NEW n \in Nat PROVE n \in order[e] <=> n \in O
  BY DEF OrderAt, AllQueued
<1>9. order[e] = O
  <2> HIDE DEF O
  <2> QED
    BY <1>1, <1>7, <1>8, ZenonT(30)
<1> QED
  BY <1>5, <1>9, Zenon

\* LanesInv holds of each lane.
LEMMA LanesPointwise ==
  ASSUME LanesInv, NEW s \in Sessions
  PROVE  LaneAt(s)
BY ZenonT(30) DEF LanesInv, LaneAt, Load, QueuedLen, DeferredLen

\* It holds after a step when it holds of each lane.
LEMMA LanesFromPoints ==
  ASSUME \A s \in Sessions : LaneAt(s)'
  PROVE  LanesInv'
BY ZenonT(30) DEF LanesInv, LaneAt, Load, QueuedLen, DeferredLen

\* SequenceInv and LinesAt say the same.
LEMMA LinesPointwise == SequenceInv <=> LinesAt
BY Zenon DEF SequenceInv, LinesAt, Rising, RisingIds, AllQueued

\* PlacesInv and PlacesAt say the same.
LEMMA PlacesPointwise == PlacesInv <=> PlacesAt
BY DEF PlacesInv, PlacesAt, Ids

\* PhaseInv and PhaseAt say the same.
LEMMA PhasePointwise == PhaseInv <=> PhaseAt
BY Zenon DEF PhaseInv, PhaseAt, AllQueued

\* The invariant in the form in which its preservation is proved.
Points == /\ LaneTypeOK /\ QueueTypeOK /\ ActorTypeOK /\ LanesInv
          /\ ReadyAt /\ OrderAt /\ ActiveInv /\ LinesAt /\ PlacesAt /\ PhaseAt

\* The inductive invariant and its pointwise form are equivalent.
LEMMA InvIsPoints == IInv <=> Points
BY ReadyPointwise, OrderPointwise, HeapsFromPoints, LinesPointwise, PlacesPointwise,
   PhasePointwise, Zenon
   DEF IInv, TypeOK, Points

\* They are after a step, too.
LEMMA InvIsPointsNext == IInv' <=> Points'
BY InvIsPoints, PTL

-----------------------------------------------------------------------------
(* What a step leaves alone.                                                *)

\* No worker takes or finishes a packet.
SameHandlers ==
  /\ wpc' \in [Workers -> {"next", "waiting", "handling", "exited"}]
  /\ Handling' = Handling
  /\ wkey' = wkey /\ wpkt' = wpkt

\* notify_all wakes waiting workers only: no handler begins or ends.
LEMMA WakesAll ==
  ASSUME ActorTypeOK, NEW should, NotifyAll(should)
  PROVE  wpc' \in [Workers -> {"next", "waiting", "handling", "exited"}] /\ Handling' = Handling
<1>1. \A w \in Workers : wpc'[w] = wpc[w] \/ (wpc[w] = "waiting" /\ wpc'[w] = "next")
  BY Zenon DEF NotifyAll, Waiting
<1>2. wpc' \in [Workers -> {"next", "waiting", "handling", "exited"}]
  BY <1>1, Zenon DEF NotifyAll, ActorTypeOK
<1> QED
  BY <1>1, <1>2, Zenon DEF Handling

\* notify_one neither.
LEMMA WakesOne ==
  ASSUME ActorTypeOK, NEW should, NotifyOne(should)
  PROVE  wpc' \in [Workers -> {"next", "waiting", "handling", "exited"}] /\ Handling' = Handling
<1>1. CASE wpc' = wpc
  BY <1>1, Zenon DEF ActorTypeOK, Handling
<1>2. ASSUME NEW w \in Waiting, wpc' = [wpc EXCEPT ![w] = "next"]
      PROVE  wpc' \in [Workers -> {"next", "waiting", "handling", "exited"}] /\ Handling' = Handling
  BY <1>2, Zenon DEF ActorTypeOK, Handling, Waiting
<1> QED
  BY <1>1, <1>2, Zenon DEF NotifyOne

\* A step that leaves the lanes alone keeps their invariant.
LEMMA FrameLanes ==
  ASSUME LaneTypeOK, LanesInv, UNCHANGED laneVars
  PROVE  LaneTypeOK' /\ LanesInv'
BY ZenonT(30) DEF laneVars, LaneTypeOK, LanesInv

\* The ready heaps stay right when they and the lanes they index stay.
LEMMA FrameReady ==
  ASSUME ReadyAt, UNCHANGED <<queued, busy, ready>>
  PROVE  ReadyAt'
<1> SUFFICES ASSUME NEW e \in Execution, NEW n \in Nat, NEW s \in Sessions
             PROVE  <<n, s>> \in ready'[e] <=> /\ queued'[s] # <<>> /\ ~busy'[s]
                                               /\ queued'[s][1].exec = e /\ queued'[s][1].seq = n
  BY Zenon DEF ReadyAt
<1>1. <<n, s>> \in ready[e] <=> /\ queued[s] # <<>> /\ ~busy[s]
                                /\ queued[s][1].exec = e /\ queued[s][1].seq = n
  BY DEF ReadyAt
<1> QED
  BY <1>1, Zenon

\* All heaps stay right when they and the lanes stay.
LEMMA FrameHeaps ==
  ASSUME ReadyAt, OrderAt, LinesAt, UNCHANGED laneVars, UNCHANGED heapVars
  PROVE  ReadyAt' /\ OrderAt' /\ LinesAt'
<1>1. queued' = queued /\ deferred' = deferred /\ busy' = busy /\ ready' = ready /\ order' = order
      /\ nextSequence' = nextSequence
  BY Zenon DEF laneVars, heapVars
<1>2. ReadyAt'
  BY <1>1, FrameReady, Zenon
<1>3. OrderAt'
  BY <1>1 DEF OrderAt
<1>4. LinesAt'
  BY <1>1, Zenon DEF LinesAt
<1> QED
  BY <1>2, <1>3, <1>4, Zenon

\* Packets that do not move stay in one place each.
LEMMA FramePlaces ==
  ASSUME PlacesAt, UNCHANGED <<queued, deferred, submitted>>, SameHandlers
  PROVE  PlacesAt'
<1>1. \A s \in Sessions : Ids(s)' = Ids(s)
  BY Zenon DEF Ids
<1> QED
  BY <1>1 DEF PlacesAt, SameHandlers

\* Counters and flags stay right when they and the handlers stay.
LEMMA FrameActive ==
  ASSUME ActiveInv, UNCHANGED <<busy, active, serializedActive, exclusiveActive>>, SameHandlers
  PROVE  ActiveInv'
BY Zenon DEF ActiveInv, SameHandlers, Named

\* Steps that touch neither a lane nor a heap nor a running packet.
LEMMA FrameAll ==
  ASSUME Points, UNCHANGED laneVars, UNCHANGED heapVars, SameHandlers,
         UNCHANGED <<submitted, active, serializedActive, exclusiveActive>>
  PROVE  LaneTypeOK' /\ LanesInv' /\ ReadyAt' /\ OrderAt' /\ LinesAt' /\ PlacesAt' /\ ActiveInv'
BY FrameLanes, FrameHeaps, FramePlaces, FrameActive, Zenon DEF Points, laneVars

\* A phase that stays, with no new packet below the boundary and none that starts.
LEMMA FramePhase ==
  ASSUME PhaseAt, QueueTypeOK, UNCHANGED <<phase, cutoff, game, active>>,
         nextSequence' \in Nat, nextSequence <= nextSequence',
         phase = "stopped" => \A s \in Sessions : queued'[s] = <<>> /\ pauseGen'[s] = 0,
         \A s \in Sessions : \A x \in Elements(queued'[s]) :
            x \in Elements(queued[s]) \/ (nextSequence <= x.seq /\ x.seq \in Nat)
  PROVE  PhaseAt'
<1>1. phase = "draining" => cutoff <= nextSequence'
  BY DEF PhaseAt, QueueTypeOK
<1>2. ASSUME game = "drained", NEW s \in Sessions, NEW x \in Elements(queued'[s])
      PROVE  x.seq >= cutoff
  <2>1. cutoff <= nextSequence /\ cutoff \in Nat /\ nextSequence \in Nat
    BY <1>2, Zenon DEF PhaseAt, QueueTypeOK
  <2>2. CASE x \in Elements(queued[s])
    BY <1>2, <2>2, Zenon DEF PhaseAt
  <2>3. CASE nextSequence <= x.seq /\ x.seq \in Nat
    BY <2>1, <2>3
  <2> QED
    BY <2>2, <2>3, Zenon
<1> QED
  BY <1>1, <1>2, Zenon DEF PhaseAt

-----------------------------------------------------------------------------
(* The steps that change no lane.                                           *)

\* A connection that closes changes nothing in the queue.
LEMMA RejectStep ==
  ASSUME Points, NEW s \in Sessions, Reject(s)
  PROVE  Points'
<1>1. SameHandlers
  BY Zenon DEF Reject, SameHandlers, workerVars, Points, ActorTypeOK, Handling
<1>2. LaneTypeOK' /\ LanesInv' /\ ReadyAt' /\ OrderAt' /\ LinesAt' /\ PlacesAt' /\ ActiveInv'
  BY <1>1, FrameAll, Zenon DEF Reject, countVars
<1>3. QueueTypeOK'
  BY Zenon DEF Reject, Points, QueueTypeOK, heapVars, countVars, gameVars
<1>4. ActorTypeOK'
  BY Zenon DEF Reject, Points, ActorTypeOK, workerVars, gameVars
<1>5. PhaseAt'
  BY Zenon DEF Reject, Points, PhaseAt, laneVars, heapVars, gameVars, countVars
<1> QED
  BY <1>2, <1>3, <1>4, <1>5, Zenon DEF Points

\* A worker that waits or returns changes nothing in the queue.
LEMMA WaitStep ==
  ASSUME Points, NEW w \in Workers, Park(w) \/ Exit(w)
  PROVE  Points'
<1>1. SameHandlers
  BY Zenon DEF Park, Exit, SameHandlers, Points, ActorTypeOK, Handling
<1>2. LaneTypeOK' /\ LanesInv' /\ ReadyAt' /\ OrderAt' /\ LinesAt' /\ PlacesAt' /\ ActiveInv'
  BY <1>1, FrameAll, Zenon DEF Park, Exit, countVars, envVars
<1>3. QueueTypeOK'
  BY Zenon DEF Park, Exit, Points, QueueTypeOK, heapVars, countVars, gameVars, envVars
<1>4. ActorTypeOK'
  BY <1>1, Zenon DEF Park, Exit, Points, ActorTypeOK, SameHandlers, gameVars, envVars
<1>5. PhaseAt'
  BY Zenon DEF Park, Exit, Points, PhaseAt, laneVars, heapVars, gameVars, countVars
<1> QED
  BY <1>2, <1>3, <1>4, <1>5, Zenon DEF Points

-----------------------------------------------------------------------------
(* Steps that change one lane.                                              *)

\* The other lanes stay as they are.
OthersStay(s) == \A r \in Sessions : r # s =>
  /\ queued'[r] = queued[r] /\ deferred'[r] = deferred[r] /\ busy'[r] = busy[r]
  /\ pauseGen'[r] = pauseGen[r] /\ outstanding'[r] = outstanding[r]
  /\ r \in lanes' <=> r \in lanes

\* LanesInv after a step that changes one lane.
LEMMA LanesChange ==
  ASSUME LanesInv, NEW s \in Sessions, OthersStay(s), LaneAt(s)'
  PROVE  LanesInv'
<1>1. ASSUME NEW r \in Sessions, r # s PROVE LaneAt(r)'
  <2>1. LaneAt(r)
    BY LanesPointwise, Zenon
  <2>2. /\ queued'[r] = queued[r] /\ deferred'[r] = deferred[r] /\ busy'[r] = busy[r]
        /\ pauseGen'[r] = pauseGen[r] /\ outstanding'[r] = outstanding[r]
        /\ r \in lanes' <=> r \in lanes
    BY <1>1, Zenon DEF OthersStay
  <2> QED
    BY <2>1, <2>2, Zenon DEF LaneAt, Load, QueuedLen, DeferredLen
<1> QED
  BY <1>1, LanesFromPoints, Zenon

\* The ready heaps after a step that changes one lane.
LEMMA ReadyChange ==
  ASSUME ReadyAt, NEW s \in Sessions, OthersStay(s),
         \A e \in Execution, n \in Nat, r \in Sessions : r # s =>
            (<<n, r>> \in ready'[e] <=> <<n, r>> \in ready[e]),
         \A e \in Execution, n \in Nat :
            <<n, s>> \in ready'[e] <=> /\ queued'[s] # <<>> /\ ~busy'[s]
                                       /\ queued'[s][1].exec = e /\ queued'[s][1].seq = n
  PROVE  ReadyAt'
<1> SUFFICES ASSUME NEW e \in Execution, NEW n \in Nat, NEW r \in Sessions
             PROVE  <<n, r>> \in ready'[e] <=> /\ queued'[r] # <<>> /\ ~busy'[r]
                                               /\ queued'[r][1].exec = e /\ queued'[r][1].seq = n
  BY Zenon DEF ReadyAt
<1>1. CASE r = s
  BY <1>1, Zenon
<1>2. CASE r # s
  <2>1. queued'[r] = queued[r] /\ busy'[r] = busy[r] /\ (<<n, r>> \in ready'[e] <=> <<n, r>> \in ready[e])
    BY <1>2, Zenon DEF OthersStay
  <2>2. <<n, r>> \in ready[e] <=> /\ queued[r] # <<>> /\ ~busy[r]
                                  /\ queued[r][1].exec = e /\ queued[r][1].seq = n
    BY DEF ReadyAt
  <2> QED
    BY <2>1, <2>2, Zenon
<1> QED
  BY <1>1, <1>2, Zenon

\* The order of the packets after a step that changes one lane.
LEMMA LinesChange ==
  ASSUME LaneTypeOK, QueueTypeOK, LinesAt, NEW s \in Sessions, OthersStay(s),
         Rising(queued'[s]), RisingIds(deferred'[s]),
         nextSequence' \in Nat, nextSequence <= nextSequence',
         \A x \in Elements(queued'[s]) : x.seq < nextSequence'
  PROVE  LinesAt'
<1>1. ASSUME NEW r \in Sessions PROVE Rising(queued'[r]) /\ RisingIds(deferred'[r])
  BY Zenon DEF LinesAt, OthersStay
<1>2. ASSUME NEW r \in Sessions, NEW x \in Elements(queued'[r]) PROVE x.seq < nextSequence'
  <2>1. CASE r = s
    BY <1>2, <2>1, Zenon
  <2>2. CASE r # s
    <3>1. x \in Elements(queued[r]) /\ x.seq \in Nat
      BY <1>2, <2>2, LaneTypes DEF OthersStay, Packets
    <3> QED
      BY <3>1 DEF LinesAt, QueueTypeOK
  <2> QED
    BY <2>1, <2>2, Zenon
<1> QED
  BY <1>1, <1>2, Zenon DEF LinesAt

\* The places of the packets after a step that changes one lane and brings at most
\* one packet that is new.
LEMMA PlacesChange ==
  ASSUME LaneTypeOK, QueueTypeOK, ActorTypeOK, LinesAt, PlacesAt, NEW s \in Sessions, OthersStay(s),
         SameHandlers, submitted' \in Nat, submitted <= submitted',
         \A k \in Ids(s)' : k < submitted' /\ (k \in Ids(s) \/ k = submitted),
         \A x \in Elements(queued'[s]) : x.seq \in Nat /\
            (x.seq >= nextSequence \/ \E y \in Elements(queued[s]) : y.seq = x.seq)
  PROVE  PlacesAt'
<1>1. ASSUME NEW r \in Sessions, r # s PROVE Ids(r)' = Ids(r)
  BY <1>1, Zenon DEF OthersStay, Ids
<1>2. ASSUME NEW r \in Sessions PROVE Ids(r) \subseteq Nat
  BY LaneTypes DEF Ids, Packets, Deferrals
<1>3. submitted \in Nat /\ nextSequence \in Nat
  BY Zenon DEF QueueTypeOK
<1>4. ASSUME NEW r \in Sessions, NEW k \in Ids(r)' PROVE k < submitted'
  <2>1. CASE r = s
    BY <1>4, <2>1, Zenon
  <2>2. CASE r # s
    BY <1>1, <1>2, <1>3, <1>4, <2>2 DEF PlacesAt
  <2> QED
    BY <2>1, <2>2, Zenon
<1>5. ASSUME NEW r \in Sessions, r # s PROVE Ids(r)' \cap Ids(s)' = {}
  <2> SUFFICES ASSUME NEW k \in Ids(r), k \in Ids(s)' PROVE FALSE
    BY <1>1, <1>5, Zenon
  <2>1. k < submitted /\ k \in Nat /\ k \notin Ids(s)
    BY <1>2, <1>5, Zenon DEF PlacesAt
  <2> QED
    BY <1>3, <2>1
<1>6. \A r, q \in Sessions : r # q => Ids(r)' \cap Ids(q)' = {}
  BY <1>1, <1>5 DEF PlacesAt
<1>7. ASSUME NEW r \in Sessions, r # s, NEW x \in Elements(queued'[r]), NEW y \in Elements(queued'[s])
      PROVE  x.seq # y.seq
  <2>1. x \in Elements(queued[r]) /\ x.seq \in Nat /\ x.seq < nextSequence
    BY <1>7, LaneTypes DEF OthersStay, Packets, LinesAt
  <2>2. CASE y.seq >= nextSequence
    BY <1>3, <2>1, <2>2
  <2>3. CASE \E z \in Elements(queued[s]) : z.seq = y.seq
    BY <1>7, <2>1, <2>3 DEF PlacesAt
  <2> QED
    BY <2>2, <2>3, Zenon
<1>8. ASSUME NEW r \in Sessions, NEW q \in Sessions, r # q,
             NEW x \in Elements(queued'[r]), NEW y \in Elements(queued'[q])
      PROVE  x.seq # y.seq
  <2>1. CASE r # s /\ q # s
    BY <1>8, <2>1 DEF PlacesAt, OthersStay
  <2>2. CASE q = s
    BY <1>7, <1>8, <2>2, Zenon
  <2>3. CASE r = s
    BY <1>7, <1>8, <2>3, Zenon
  <2> QED
    BY <2>1, <2>2, <2>3, Zenon
<1>9. ASSUME NEW w \in Handling PROVE wpkt'[w].id < submitted' /\ \A r \in Sessions : wpkt'[w].id \notin Ids(r)'
  <2>1. wpkt'[w] = wpkt[w] /\ wpkt[w].id \in Nat /\ wpkt[w].id < submitted
    BY <1>9, Zenon DEF SameHandlers, PlacesAt, ActorTypeOK, Handling
  <2>2. \A r \in Sessions : wpkt[w].id \notin Ids(r)
    BY <1>9, Zenon DEF PlacesAt
  <2> QED
    BY <1>1, <1>3, <2>1, <2>2
<1> QED
  BY <1>4, <1>6, <1>8, <1>9 DEF PlacesAt, SameHandlers

-----------------------------------------------------------------------------
(* try_submit.                                                              *)

\* try_submit to a paused lane preserves the invariant.
LEMMA SubmitDeferredStep ==
  ASSUME Points, NEW s \in Sessions, NEW e \in Execution, Submit(s, e), SubmitDeferred(s, e)
  PROVE  Points'
<1> DEFINE x == [exec |-> e, id |-> submitted]
<1> USE DEF Points
<1>2. submitted \in Nat /\ submitted' = submitted + 1 /\ x \in Deferrals /\ x.id = submitted
  BY Zenon DEF Submit, QueueTypeOK, Deferrals
<1>3. /\ queued' = queued /\ busy' = busy /\ pauseGen' = pauseGen /\ lanes' = lanes
      /\ ready' = ready /\ order' = order /\ nextSequence' = nextSequence
      /\ s \in lanes /\ pauseGen[s] # 0 /\ deferred' = [deferred EXCEPT ![s] = Append(@, x)]
      /\ outstanding' = [outstanding EXCEPT ![s] = @ + 1] /\ wpc' = wpc
  BY Zenon DEF SubmitDeferred, heapVars
<1> HIDE DEF x
<1>4. /\ deferred'[s] = Append(deferred[s], x) /\ outstanding'[s] = outstanding[s] + 1
      /\ \A r \in Sessions : r # s => deferred'[r] = deferred[r] /\ outstanding'[r] = outstanding[r]
  BY <1>3, Zenon DEF LaneTypeOK
<1>5. deferred[s] \in Seq(Deferrals) /\ outstanding[s] \in Nat
  BY LaneTypes, Zenon
<1>6. deferred'[s] \in Seq(Deferrals) /\ Len(deferred'[s]) = Len(deferred[s]) + 1
      /\ Elements(deferred'[s]) = Elements(deferred[s]) \cup {x}
  BY <1>2, <1>4, <1>5, AppendFacts
<1>7. \A y \in Elements(deferred[s]) : y.id < submitted
  BY Zenon DEF PlacesAt, Ids
<1>8. RisingIds(deferred'[s])
  BY <1>2, <1>4, <1>5, <1>7, AppendRisesIds, Zenon DEF LinesAt
<1>9. LaneTypeOK'
  <2>1. deferred \in [Sessions -> Seq(Deferrals)] /\ outstanding \in [Sessions -> Nat]
    BY ZenonT(30) DEF LaneTypeOK, Deferrals
  <2>2. deferred' \in [Sessions -> Seq(Deferrals)]
    BY <1>3, <1>4, <1>6, <2>1, Zenon
  <2>3. outstanding' \in [Sessions -> Nat]
    BY <1>3, <1>5, <2>1
  <2> QED
    BY <1>3, <2>2, <2>3, ZenonT(30) DEF LaneTypeOK, Deferrals
<1>10. QueueTypeOK'
  BY <1>2, <1>3 DEF QueueTypeOK, Submit, countVars, gameVars
<1>11. ActorTypeOK'
  BY <1>3, Zenon DEF ActorTypeOK, Submit, gameVars
<1>12. OthersStay(s)
  BY <1>3, <1>4, Zenon DEF OthersStay
<1>13. LanesInv'
  <2>1. LaneAt(s) /\ QueuedLen(s) \in Nat /\ DeferredLen(s) \in Nat /\ Load(s) \in Nat
    BY LanesPointwise, LaneTypes, Zenon
  <2>2. Load(s)' = Load(s) /\ QueuedLen(s)' = QueuedLen(s) /\ DeferredLen(s)' = DeferredLen(s) + 1
    BY <1>3, <1>6, Zenon DEF Load, QueuedLen, DeferredLen
  <2>3. outstanding'[s] = QueuedLen(s)' + DeferredLen(s)' + Load(s)'
    BY <1>4, <1>5, <2>1, <2>2 DEF LaneAt
  <2>4. LaneAt(s)'
    BY <1>3, <2>1, <2>3, Zenon DEF LaneAt
  <2> QED
    BY <1>12, <2>4, LanesChange, Zenon
<1>14. SameHandlers
  BY <1>3, Zenon DEF SameHandlers, Submit, Handling, ActorTypeOK
<1>15. Ids(s)' = Ids(s) \cup {submitted}
  BY <1>2, <1>3, <1>6, Zenon DEF Ids
<1>16. \A k \in Ids(s)' : k < submitted' /\ (k \in Ids(s) \/ k = submitted)
  <2>1. Ids(s) \subseteq Nat /\ \A k \in Ids(s) : k < submitted
    BY LaneTypes DEF PlacesAt, Ids, Packets, Deferrals
  <2> QED
    BY <1>2, <1>15, <2>1, SMTT(30)
<1>17. PlacesAt'
  <2>1. submitted' \in Nat /\ submitted <= submitted'
    BY <1>2
  <2>2. \A y \in Elements(queued'[s]) : y.seq \in Nat /\
            (y.seq >= nextSequence \/ \E z \in Elements(queued[s]) : z.seq = y.seq)
    BY <1>3, LaneTypes, Zenon DEF Packets
  <2> QED
    BY <1>12, <1>14, <1>16, <2>1, <2>2, PlacesChange, Zenon
<1>18. ReadyAt'
  BY <1>3, FrameReady, Zenon
<1>19. OrderAt'
  BY <1>3 DEF OrderAt
<1>20. LinesAt'
  BY <1>3, <1>4, <1>8, Zenon DEF LinesAt
<1>21. ActiveInv'
  BY <1>3, <1>14, FrameActive, Zenon DEF Submit, countVars
<1>22. PhaseAt'
  BY <1>3, Zenon DEF PhaseAt, Submit, countVars, gameVars
<1> QED
  BY <1>9, <1>10, <1>11, <1>13, <1>17, <1>18, <1>19, <1>20, <1>21, <1>22, Zenon DEF Points

\* try_submit to any other lane preserves the invariant.
LEMMA SubmitQueuedStep ==
  ASSUME Points, NEW s \in Sessions, NEW e \in Execution, Submit(s, e), SubmitQueued(s, e)
  PROVE  Points'
<1> DEFINE x == [seq |-> nextSequence, exec |-> e, id |-> submitted]
<1> USE DEF Points
<1>2. /\ submitted \in Nat /\ submitted' = submitted + 1 /\ nextSequence \in Nat
      /\ x \in Packets /\ x.id = submitted /\ x.seq = nextSequence /\ x.exec = e
  BY Zenon DEF Submit, QueueTypeOK, Packets
<1>3. /\ deferred' = deferred /\ busy' = busy /\ pauseGen' = pauseGen /\ lanes' = lanes \cup {s}
      /\ nextSequence' = nextSequence + 1 /\ pauseGen[s] = 0
      /\ queued' = [queued EXCEPT ![s] = Append(@, x)]
      /\ outstanding' = [outstanding EXCEPT ![s] = @ + 1]
      /\ order' = MarkGlobalOrder(order, nextSequence, e)
  BY Zenon DEF SubmitQueued
<1>4. ready' = IF ~busy[s] /\ queued[s] = <<>> THEN MarkReady(ready, nextSequence, s, e) ELSE ready
  BY Zenon DEF SubmitQueued
<1>5. wpc' \in [Workers -> {"next", "waiting", "handling", "exited"}] /\ Handling' = Handling
  BY WakesOne, Zenon DEF SubmitQueued
<1> HIDE DEF x
<1>6. /\ queued'[s] = Append(queued[s], x) /\ outstanding'[s] = outstanding[s] + 1
      /\ \A r \in Sessions : r # s => queued'[r] = queued[r] /\ outstanding'[r] = outstanding[r]
  BY <1>3, Zenon DEF LaneTypeOK
<1>7. queued[s] \in Seq(Packets) /\ outstanding[s] \in Nat
  BY LaneTypes, Zenon
<1>8. /\ queued'[s] \in Seq(Packets) /\ Len(queued'[s]) = Len(queued[s]) + 1
      /\ Elements(queued'[s]) = Elements(queued[s]) \cup {x}
      /\ queued'[s] # <<>>
      /\ queued'[s][1] = IF queued[s] = <<>> THEN x ELSE queued[s][1]
  BY <1>2, <1>6, <1>7, AppendFacts
<1>9. \A y \in Elements(queued[s]) : y.id < submitted /\ y.seq < nextSequence /\ y.seq \in Nat
  BY LaneTypes DEF PlacesAt, Ids, LinesAt, Packets
<1>10. Rising(queued'[s])
  BY <1>2, <1>6, <1>7, <1>9, AppendRises, ZenonT(30) DEF LinesAt
<1>11. LaneTypeOK'
  <2>1. queued \in [Sessions -> Seq(Packets)] /\ outstanding \in [Sessions -> Nat]
    BY ZenonT(30) DEF LaneTypeOK, Packets
  <2>2. queued' \in [Sessions -> Seq(Packets)]
    BY <1>3, <1>6, <1>8, <2>1, Zenon
  <2>3. outstanding' \in [Sessions -> Nat]
    BY <1>3, <1>7, <2>1
  <2> QED
    BY <1>3, <2>2, <2>3, ZenonT(30) DEF LaneTypeOK, Packets
<1>12. QueueTypeOK'
  <2>1. ready' \in [Execution -> SUBSET (Nat \X Sessions)]
    BY <1>2, <1>4 DEF QueueTypeOK, MarkReady
  <2>2. order' \in [Execution -> SUBSET Nat]
    BY <1>2, <1>3, Zenon DEF QueueTypeOK, MarkGlobalOrder
  <2> QED
    BY <1>2, <1>3, <2>1, <2>2 DEF QueueTypeOK, Submit, countVars, gameVars
<1>13. ActorTypeOK'
  BY <1>5, Zenon DEF ActorTypeOK, Submit, gameVars
<1>14. OthersStay(s)
  BY <1>3, <1>6, Zenon DEF OthersStay
<1>15. LanesInv'
  <2>1. LaneAt(s) /\ QueuedLen(s) \in Nat /\ DeferredLen(s) \in Nat /\ Load(s) \in Nat
    BY LanesPointwise, LaneTypes
  <2>2. Load(s)' = Load(s) /\ QueuedLen(s)' = QueuedLen(s) + 1 /\ DeferredLen(s)' = DeferredLen(s)
    BY <1>3, <1>8, Zenon DEF Load, QueuedLen, DeferredLen
  <2>3. outstanding'[s] = QueuedLen(s)' + DeferredLen(s)' + Load(s)'
    BY <1>6, <1>7, <2>1, <2>2 DEF LaneAt
  <2>4. LaneAt(s)'
    BY <1>3, <1>8, <2>1, <2>3, Zenon DEF LaneAt
  <2> QED
    BY <1>14, <2>4, LanesChange
<1>16. SameHandlers
  BY <1>5, Zenon DEF SameHandlers, Submit
<1>17. PlacesAt'
  <2>1. submitted' \in Nat /\ submitted <= submitted'
    BY <1>2
  <2>2. Ids(s)' = Ids(s) \cup {submitted}
    BY <1>2, <1>3, <1>8, Zenon DEF Ids
  <2>3. Ids(s) \subseteq Nat /\ \A k \in Ids(s) : k < submitted
    BY LaneTypes DEF PlacesAt, Ids, Packets, Deferrals
  <2>4. \A k \in Ids(s)' : k < submitted' /\ (k \in Ids(s) \/ k = submitted)
    BY <1>2, <2>2, <2>3
  <2>5. \A y \in Elements(queued'[s]) : y.seq \in Nat /\
            (y.seq >= nextSequence \/ \E z \in Elements(queued[s]) : z.seq = y.seq)
    BY <1>2, <1>8, <1>9
  <2> QED
    BY <1>14, <1>16, <2>1, <2>4, <2>5, PlacesChange, Zenon
<1>18. ReadyAt'
  <2>1. ASSUME NEW f \in Execution, NEW n \in Nat, NEW r \in Sessions, r # s
        PROVE  <<n, r>> \in ready'[f] <=> <<n, r>> \in ready[f]
    BY <1>4, <2>1, Zenon DEF MarkReady, QueueTypeOK
  <2>2. ASSUME NEW f \in Execution, NEW n \in Nat
        PROVE  <<n, s>> \in ready'[f] <=> /\ queued'[s] # <<>> /\ ~busy'[s]
                                          /\ queued'[s][1].exec = f /\ queued'[s][1].seq = n
    <3>1. <<n, s>> \in ready[f] <=> /\ queued[s] # <<>> /\ ~busy[s]
                                    /\ queued[s][1].exec = f /\ queued[s][1].seq = n
      BY DEF ReadyAt
    <3>2. busy'[s] = busy[s]
      BY <1>3, Zenon
    <3>3. CASE ~busy[s] /\ queued[s] = <<>>
      <4>1. <<n, s>> \in ready'[f] <=> (f = e /\ n = nextSequence)
        BY <1>4, <3>1, <3>3, Zenon DEF MarkReady, QueueTypeOK
      <4> QED
        BY <1>2, <1>8, <3>2, <3>3, <4>1, Zenon
    <3>4. CASE ~(~busy[s] /\ queued[s] = <<>>)
      BY <1>4, <1>8, <3>1, <3>2, <3>4, Zenon
    <3> QED
      BY <3>3, <3>4, Zenon
  <2> QED
    BY <1>14, <2>1, <2>2, ReadyChange, Zenon
<1>19. OrderAt'
  <2> SUFFICES ASSUME NEW f \in Execution, NEW n \in Nat
               PROVE  n \in order'[f] <=>
                        /\ f # "local"
                        /\ \E r \in Sessions : \E y \in Elements(queued'[r]) : y.exec = f /\ y.seq = n
    BY Zenon DEF OrderAt
  <2>1. n \in order[f] <=>
                        /\ f # "local"
                        /\ \E r \in Sessions : \E y \in Elements(queued[r]) : y.exec = f /\ y.seq = n
    BY ZenonT(30) DEF OrderAt
  <2>2. n \in order'[f] <=> n \in order[f] \/ (f = e /\ n = nextSequence /\ e # "local")
    BY <1>3, Zenon DEF MarkGlobalOrder, QueueTypeOK
  <2>3. (\E r \in Sessions : \E y \in Elements(queued'[r]) : y.exec = f /\ y.seq = n) <=>
           \/ \E r \in Sessions : \E y \in Elements(queued[r]) : y.exec = f /\ y.seq = n
           \/ e = f /\ n = nextSequence
    BY <1>2, <1>6, <1>8, ZenonT(30)
  <2> QED
    BY <2>1, <2>2, <2>3, Zenon
<1>20. LinesAt'
  <2>1. RisingIds(deferred'[s])
    BY <1>3, Zenon DEF LinesAt
  <2>2. nextSequence' \in Nat /\ nextSequence <= nextSequence'
    BY <1>2, <1>3
  <2>3. \A y \in Elements(queued'[s]) : y.seq < nextSequence'
    BY <1>2, <1>3, <1>8, <1>9
  <2> QED
    BY <1>10, <1>14, <2>1, <2>2, <2>3, LinesChange, Zenon
<1>21. ActiveInv'
  BY <1>3, <1>16, FrameActive, Zenon DEF Submit, countVars
<1>22. PhaseAt'
  <2>1. nextSequence' \in Nat /\ nextSequence <= nextSequence'
    BY <1>2, <1>3
  <2>2. \A r \in Sessions : \A y \in Elements(queued'[r]) :
            y \in Elements(queued[r]) \/ (nextSequence <= y.seq /\ y.seq \in Nat)
    <3>1. nextSequence <= x.seq /\ x.seq \in Nat
      BY <1>2
    <3> QED
      BY <1>6, <1>8, <3>1, ZenonT(30)
  <2>3. UNCHANGED <<phase, cutoff, game, active>> /\ phase # "stopped"
    BY Zenon DEF Submit, gameVars, countVars
  <2> QED
    BY <2>1, <2>2, <2>3, FramePhase, Zenon
<1> QED
  BY <1>11, <1>12, <1>13, <1>15, <1>17, <1>18, <1>19, <1>20, <1>21, <1>22 DEF Points

\* try_submit preserves the invariant.
LEMMA SubmitStep ==
  ASSUME Points, NEW s \in Sessions, NEW e \in Execution, Submit(s, e)
  PROVE  Points'
BY SubmitDeferredStep, SubmitQueuedStep, Zenon DEF Submit

-----------------------------------------------------------------------------
(* pause_lane, resume_lane, discard_lane and stop.                          *)

\* The notifications of pause_lane, resume_lane and discard_lane begin or end no handler.
LEMMA NotifyFacts ==
  ASSUME ActorTypeOK, NEW rdy, NEW idle \in BOOLEAN, NotifyChange(rdy, idle)
  PROVE  /\ progressPermit' \in BOOLEAN /\ idlePermit' \in BOOLEAN
         /\ wpc' \in [Workers -> {"next", "waiting", "handling", "exited"}] /\ Handling' = Handling
<1>1. wpc' \in [Workers -> {"next", "waiting", "handling", "exited"}] /\ Handling' = Handling
  BY WakesAll, Zenon DEF NotifyChange
<1>2. progressPermit' \in BOOLEAN /\ idlePermit' \in BOOLEAN
  BY Zenon DEF NotifyChange, NotifyIdle, ActorTypeOK
<1> QED
  BY <1>1, <1>2, Zenon

\* A lane loses its packets, and the heaps their entries.
LEMMA WithdrawHeaps ==
  ASSUME LaneTypeOK, QueueTypeOK, ReadyAt, OrderAt, PlacesAt, NEW s \in Sessions, OthersStay(s),
         queued'[s] = <<>>, ready' = ReadyWithout(s), order' = OrderWithout(s)
  PROVE  /\ ReadyAt' /\ OrderAt'
         /\ ready' \in [Execution -> SUBSET (Nat \X Sessions)]
         /\ order' \in [Execution -> SUBSET Nat]
<1>1. ready' \in [Execution -> SUBSET (Nat \X Sessions)] /\ order' \in [Execution -> SUBSET Nat]
  BY Zenon DEF QueueTypeOK, ReadyWithout, OrderWithout
<1>2. ReadyAt'
  <2>1. \A f \in Execution, n \in Nat, r \in Sessions : r # s =>
           (<<n, r>> \in ready'[f] <=> <<n, r>> \in ready[f])
    BY Zenon DEF ReadyWithout
  <2>2. \A f \in Execution, n \in Nat : <<n, s>> \notin ready'[f]
    BY Zenon DEF ReadyWithout
  <2>3. \A f \in Execution, n \in Nat :
           <<n, s>> \in ready'[f] <=> /\ queued'[s] # <<>> /\ ~busy'[s]
                                      /\ queued'[s][1].exec = f /\ queued'[s][1].seq = n
    BY <2>2, Zenon
  <2> QED
    BY <2>1, <2>3, ReadyChange, Zenon
<1>3. OrderAt'
  <2> SUFFICES ASSUME NEW f \in Execution, NEW n \in Nat
               PROVE  n \in order'[f] <=>
                        /\ f # "local"
                        /\ \E r \in Sessions : \E y \in Elements(queued'[r]) : y.exec = f /\ y.seq = n
    BY Zenon DEF OrderAt
  <2>1. n \in order[f] <=>
                        /\ f # "local"
                        /\ \E r \in Sessions : \E y \in Elements(queued[r]) : y.exec = f /\ y.seq = n
    BY DEF OrderAt
  <2>2. n \in order'[f] <=> n \in order[f] /\ ~\E z \in Elements(queued[s]) : z.seq = n
    BY Zenon DEF OrderWithout, SequencesOf, Elements
  <2>3. Elements(queued'[s]) = {} /\ \A r \in Sessions : r # s => queued'[r] = queued[r]
    BY EmptyLine, Zenon DEF OthersStay
  <2>4. ASSUME n \in order'[f]
        PROVE  f # "local" /\ \E r \in Sessions : \E y \in Elements(queued'[r]) : y.exec = f /\ y.seq = n
    <3>1. PICK r \in Sessions : \E y \in Elements(queued[r]) : y.exec = f /\ y.seq = n
      BY <2>1, <2>2, <2>4, Zenon
    <3>2. r # s
      BY <2>2, <2>4, <3>1, Zenon
    <3> QED
      BY <2>1, <2>2, <2>3, <2>4, <3>1, <3>2, Zenon
  <2>5. ASSUME f # "local", NEW r \in Sessions, NEW y \in Elements(queued'[r]), y.exec = f, y.seq = n
        PROVE  n \in order'[f]
    <3>1. r # s /\ y \in Elements(queued[r])
      BY <2>3, <2>5, Zenon
    <3>2. ~\E z \in Elements(queued[s]) : z.seq = n
      BY <2>5, <3>1, Zenon DEF PlacesAt
    <3> QED
      BY <2>1, <2>2, <2>5, <3>1, <3>2, Zenon
  <2> QED
    BY <2>4, <2>5, Zenon
<1> QED
  BY <1>1, <1>2, <1>3, Zenon

\* pause_lane preserves the invariant.
LEMMA PauseStep ==
  ASSUME Points, NEW s \in Sessions, PauseLane(s)
  PROVE  Points'
<1> USE DEF Points
<1>2. LaneAt(s) /\ pauseGen[s] = 0 /\ phase # "stopped" /\ nextPause \in Nat \ {0}
  BY LanesPointwise, Zenon DEF PauseLane, QueueTypeOK
<1>3. /\ queued[s] \in Seq(Packets) /\ Rising(queued[s]) /\ deferred[s] = <<>>
      /\ Elements(queued[s]) \subseteq Packets
  BY <1>2, LaneTypes, Zenon DEF LaneAt, LinesAt
<1>4. /\ queued' = [queued EXCEPT ![s] = <<>>]
      /\ deferred' = [deferred EXCEPT ![s] = @ \o Withdrawn(queued[s])]
      /\ pauseGen' = [pauseGen EXCEPT ![s] = nextPause] /\ lanes' = lanes \cup {s}
      /\ busy' = busy /\ outstanding' = outstanding /\ nextSequence' = nextSequence
      /\ nextPause' = nextPause + 1 /\ transitions' = transitions \cup {<<s, nextPause>>}
      /\ ready' = ReadyWithout(s) /\ order' = OrderWithout(s)
  BY Zenon DEF PauseLane, Withdrawn
<1>5. /\ progressPermit' \in BOOLEAN /\ idlePermit' \in BOOLEAN
      /\ wpc' \in [Workers -> {"next", "waiting", "handling", "exited"}] /\ Handling' = Handling
  BY NotifyFacts, ZenonT(30) DEF PauseLane
<1>6. UNCHANGED <<phase, cutoff, active, serializedActive, exclusiveActive, completed, wkey, wpkt,
                  game, base, closed, submitted>>
  BY Zenon DEF PauseLane, countVars, gameVars
<1> DEFINE line == Withdrawn(queued[s])
<1>7. /\ line \in Seq(Deferrals) /\ Len(line) = Len(queued[s]) /\ RisingIds(line)
      /\ \A x : x \in Elements(line) <=> \E y \in Elements(queued[s]) : x = [exec |-> y.exec, id |-> y.id]
  BY <1>3, WithdrawnFacts, Zenon
<1> HIDE DEF line
<1>8. /\ queued'[s] = <<>> /\ deferred'[s] = line /\ pauseGen'[s] = nextPause
      /\ \A r \in Sessions : r # s =>
           queued'[r] = queued[r] /\ deferred'[r] = deferred[r] /\ pauseGen'[r] = pauseGen[r]
  <2>1. <<>> \o line = line
    BY <1>7, EmptyConcat, Zenon
  <2> QED
    BY <1>3, <1>4, <2>1, Zenon DEF LaneTypeOK, line
<1>9. LaneTypeOK'
  <2>1. queued \in [Sessions -> Seq(Packets)] /\ deferred \in [Sessions -> Seq(Deferrals)]
    BY ZenonT(30) DEF LaneTypeOK, Packets, Deferrals
  <2>2. queued' \in [Sessions -> Seq(Packets)]
    BY <1>4, <2>1, EmptyLine, Zenon
  <2>3. deferred' \in [Sessions -> Seq(Deferrals)]
    BY <1>4, <1>7, <1>8, <2>1, ZenonT(30)
  <2>4. pauseGen' \in [Sessions -> Nat] /\ lanes' \subseteq Sessions
    BY <1>2, <1>4, Zenon DEF LaneTypeOK
  <2> QED
    BY <1>4, <2>2, <2>3, <2>4, ZenonT(30) DEF LaneTypeOK, Packets, Deferrals
<1>10. OthersStay(s)
  BY <1>4, <1>8, Zenon DEF OthersStay
<1>11. SameHandlers
  BY <1>5, <1>6, Zenon DEF SameHandlers
<1>12. /\ ReadyAt' /\ OrderAt' /\ ready' \in [Execution -> SUBSET (Nat \X Sessions)]
       /\ order' \in [Execution -> SUBSET Nat]
  BY <1>4, <1>8, <1>10, WithdrawHeaps, Zenon
<1>13. QueueTypeOK'
  BY <1>2, <1>4, <1>6, <1>12 DEF QueueTypeOK
<1>14. ActorTypeOK'
  BY <1>2, <1>4, <1>5, <1>6 DEF ActorTypeOK
<1>15. LanesInv'
  <2>1. QueuedLen(s) \in Nat /\ DeferredLen(s) \in Nat /\ Load(s) \in Nat
    BY LaneTypes, Zenon
  <2>2. Load(s)' = Load(s) /\ QueuedLen(s)' = 0 /\ DeferredLen(s)' = QueuedLen(s) /\ DeferredLen(s) = 0
    BY <1>3, <1>4, <1>7, <1>8, EmptyLine, Zenon DEF Load, QueuedLen, DeferredLen
  <2>3. outstanding'[s] = QueuedLen(s)' + DeferredLen(s)' + Load(s)'
    BY <1>2, <1>4, <2>1, <2>2 DEF LaneAt
  <2>4. LaneAt(s)'
    BY <1>2, <1>4, <1>8, <2>3, Zenon DEF LaneAt
  <2> QED
    BY <1>10, <2>4, LanesChange, Zenon
<1>16. LinesAt'
  <2>1. Rising(queued'[s]) /\ RisingIds(deferred'[s]) /\ Elements(queued'[s]) = {}
    BY <1>7, <1>8, EmptyLine, Zenon
  <2>2. nextSequence' \in Nat /\ nextSequence <= nextSequence'
    BY <1>4 DEF QueueTypeOK
  <2> QED
    BY <1>10, <2>1, <2>2, LinesChange, Zenon
<1>17. PlacesAt'
  <2>1. submitted' \in Nat /\ submitted <= submitted'
    BY <1>6 DEF QueueTypeOK
  <2>2. Elements(queued'[s]) = {}
    BY <1>8, EmptyLine, Zenon
  <2>3. Ids(s)' \subseteq Ids(s)
    BY <1>7, <1>8, <2>2 DEF Ids
  <2>4. \A k \in Ids(s)' : k < submitted' /\ (k \in Ids(s) \/ k = submitted)
    BY <1>6, <2>3, Zenon DEF PlacesAt
  <2> QED
    BY <1>10, <1>11, <2>1, <2>2, <2>4, PlacesChange, Zenon
<1>18. ActiveInv'
  BY <1>4, <1>6, <1>11, FrameActive, Zenon
<1>19. PhaseAt'
  <2>1. nextSequence' \in Nat /\ nextSequence <= nextSequence'
    BY <1>4 DEF QueueTypeOK
  <2>2. \A r \in Sessions : \A y \in Elements(queued'[r]) :
            y \in Elements(queued[r]) \/ (nextSequence <= y.seq /\ y.seq \in Nat)
    BY <1>8, EmptyLine, Zenon
  <2> QED
    BY <1>2, <1>6, <2>1, <2>2, FramePhase, Zenon
<1> QED
  BY <1>9, <1>12, <1>13, <1>14, <1>15, <1>16, <1>17, <1>18, <1>19, Zenon DEF Points

\* What steps that only change a lane leave alone.
OnlyLanes ==
  /\ UNCHANGED <<phase, cutoff, active, serializedActive, exclusiveActive, completed, wkey, wpkt,
                 game, base, closed, submitted, nextPause>>
  /\ transitions' \subseteq transitions

\* discard_lane preserves the invariant: what it gives back was outstanding.
LEMMA DiscardLaneStep ==
  ASSUME Points, NEW s \in Sessions, DiscardLane(s), OnlyLanes
  PROVE  Points'
<1> USE DEF Points
<1>2. LaneAt(s) /\ QueuedLen(s) \in Nat /\ DeferredLen(s) \in Nat /\ Load(s) \in Nat
  BY LanesPointwise, LaneTypes, Zenon
<1>3. /\ queued' = [queued EXCEPT ![s] = <<>>] /\ deferred' = [deferred EXCEPT ![s] = <<>>]
      /\ pauseGen' = [pauseGen EXCEPT ![s] = 0] /\ s \in lanes
      /\ lanes' = (IF busy[s] THEN lanes ELSE lanes \ {s})
      /\ busy' = busy /\ nextSequence' = nextSequence
      /\ ready' = ReadyWithout(s) /\ order' = OrderWithout(s)
  BY Zenon DEF DiscardLane
<1>4. outstanding' = [outstanding EXCEPT ![s] = Load(s)]
  <2>1. outstanding' = [outstanding EXCEPT ![s] = outstanding[s] - (QueuedLen(s) + DeferredLen(s))]
    BY Zenon DEF DiscardLane, QueuedLen, DeferredLen
  <2>2. outstanding[s] - (QueuedLen(s) + DeferredLen(s)) = Load(s)
    BY <1>2 DEF LaneAt
  <2> QED
    BY <2>1, <2>2, ZenonT(30)
<1>5. /\ progressPermit' \in BOOLEAN /\ idlePermit' \in BOOLEAN
      /\ wpc' \in [Workers -> {"next", "waiting", "handling", "exited"}] /\ Handling' = Handling
  BY NotifyFacts, ZenonT(30) DEF DiscardLane
<1>6. UNCHANGED <<phase, cutoff, active, serializedActive, exclusiveActive, completed, wkey, wpkt,
                  game, base, closed, submitted, nextPause>> /\ transitions' \subseteq transitions
  BY Zenon DEF OnlyLanes
<1>7. /\ queued'[s] = <<>> /\ deferred'[s] = <<>> /\ pauseGen'[s] = 0 /\ outstanding'[s] = Load(s)
      /\ \A r \in Sessions : r # s =>
           /\ queued'[r] = queued[r] /\ deferred'[r] = deferred[r] /\ pauseGen'[r] = pauseGen[r]
           /\ outstanding'[r] = outstanding[r]
  BY <1>3, <1>4, Zenon DEF LaneTypeOK
<1>8. Elements(queued'[s]) = {} /\ Elements(deferred'[s]) = {} /\ Rising(queued'[s]) /\ RisingIds(deferred'[s])
  BY <1>7, EmptyLine, Zenon
<1>9. LaneTypeOK'
  <2>1. queued \in [Sessions -> Seq(Packets)] /\ deferred \in [Sessions -> Seq(Deferrals)]
    BY ZenonT(30) DEF LaneTypeOK, Packets, Deferrals
  <2>2. queued' \in [Sessions -> Seq(Packets)] /\ deferred' \in [Sessions -> Seq(Deferrals)]
    BY <1>3, <2>1, EmptyLine, Zenon
  <2>3. pauseGen' \in [Sessions -> Nat] /\ lanes' \subseteq Sessions /\ outstanding' \in [Sessions -> Nat]
    BY <1>2, <1>3, <1>4, Zenon DEF LaneTypeOK
  <2> QED
    BY <1>3, <2>2, <2>3, ZenonT(30) DEF LaneTypeOK, Packets, Deferrals
<1>10. OthersStay(s)
  BY <1>3, <1>7, Zenon DEF OthersStay
<1>11. SameHandlers
  BY <1>5, <1>6, Zenon DEF SameHandlers
<1>12. /\ ReadyAt' /\ OrderAt' /\ ready' \in [Execution -> SUBSET (Nat \X Sessions)]
       /\ order' \in [Execution -> SUBSET Nat]
  BY <1>3, <1>7, <1>10, WithdrawHeaps, Zenon
<1>13. QueueTypeOK'
  BY <1>3, <1>6, <1>12, Zenon DEF QueueTypeOK
<1>14. ActorTypeOK'
  BY <1>5, <1>6, Zenon DEF ActorTypeOK
<1>15. LanesInv'
  <2>1. Load(s)' = Load(s) /\ QueuedLen(s)' = 0 /\ DeferredLen(s)' = 0
    BY <1>3, <1>7, EmptyLine, Zenon DEF Load, QueuedLen, DeferredLen
  <2>2. outstanding'[s] = QueuedLen(s)' + DeferredLen(s)' + Load(s)'
    BY <1>2, <1>7, <2>1
  <2>3. s \in lanes' <=> busy'[s]
    BY <1>3, Zenon
  <2>4. LaneAt(s)'
    BY <1>7, <2>2, <2>3, Zenon DEF LaneAt
  <2> QED
    BY <1>10, <2>4, LanesChange, Zenon
<1>16. nextSequence' \in Nat /\ nextSequence <= nextSequence' /\ submitted' \in Nat /\ submitted <= submitted'
  BY <1>3, <1>6 DEF QueueTypeOK
<1>17. LinesAt'
  BY <1>8, <1>10, <1>16, LinesChange, Zenon
<1>18. PlacesAt'
  <2>1. Ids(s)' = {}
    BY <1>8, Zenon DEF Ids
  <2> QED
    BY <1>8, <1>10, <1>11, <1>16, <2>1, PlacesChange, Zenon
<1>19. ActiveInv'
  BY <1>3, <1>6, <1>11, FrameActive, Zenon
<1>20. PhaseAt'
  <2>1. \A r \in Sessions : \A y \in Elements(queued'[r]) :
            y \in Elements(queued[r]) \/ (nextSequence <= y.seq /\ y.seq \in Nat)
    BY <1>7, <1>8, Zenon
  <2>2. phase = "stopped" => \A r \in Sessions : queued'[r] = <<>> /\ pauseGen'[r] = 0
    BY <1>7, Zenon DEF PhaseAt
  <2> QED
    BY <1>6, <1>16, <2>1, <2>2, FramePhase, Zenon
<1> QED
  BY <1>9, <1>12, <1>13, <1>14, <1>15, <1>17, <1>18, <1>19, <1>20, Zenon DEF Points

\* So does the removal of a closed session.
LEMMA DiscardStep ==
  ASSUME Points, NEW s \in Sessions, Discard(s)
  PROVE  Points'
<1>1. OnlyLanes
  BY Zenon DEF Discard, OnlyLanes, countVars, gameVars, envVars
<1> QED
  BY <1>1, DiscardLaneStep, Zenon DEF Discard

\* resume_lane preserves the invariant: the numbers it gives out are new.
LEMMA ResumeLaneStep ==
  ASSUME Points, NEW s \in Sessions, ResumeLane(s), OnlyLanes, phase # "stopped", pauseGen[s] # 0
  PROVE  Points'
<1> DEFINE line == Renumbered(deferred[s], nextSequence)
<1> USE DEF Points
<1>2. LaneAt(s) /\ QueuedLen(s) \in Nat /\ DeferredLen(s) \in Nat /\ Load(s) \in Nat
  BY LanesPointwise, LaneTypes, Zenon
<1>3. /\ deferred[s] \in Seq(Deferrals) /\ RisingIds(deferred[s]) /\ queued[s] = <<>>
      /\ Elements(deferred[s]) \subseteq Deferrals /\ nextSequence \in Nat
  BY <1>2, LaneTypes, Zenon DEF LaneAt, LinesAt, QueueTypeOK
<1>4. Readmitted(s) = line
  BY Zenon DEF Readmitted, Renumbered
<1>5. /\ line \in Seq(Packets) /\ Len(line) = Len(deferred[s]) /\ Rising(line)
      /\ \A x \in Elements(line) : nextSequence <= x.seq /\ x.seq < nextSequence + Len(deferred[s])
      /\ \A x \in Elements(line) : \E y \in Elements(deferred[s]) : y.id = x.id /\ y.exec = x.exec
  BY <1>3, RenumberedFacts, ZenonT(30)
<1> HIDE DEF line
<1>6. /\ Elements(line) \subseteq Packets /\ (line = <<>> <=> Elements(line) = {})
      /\ line # <<>> => line[1] \in Elements(line)
  BY <1>5, LineFacts, Zenon
<1>7. /\ queued' = [queued EXCEPT ![s] = @ \o line] /\ deferred' = [deferred EXCEPT ![s] = <<>>]
      /\ pauseGen' = [pauseGen EXCEPT ![s] = 0]
      /\ lanes' = (IF ~busy[s] /\ line = <<>> THEN lanes \ {s} ELSE lanes)
      /\ busy' = busy /\ outstanding' = outstanding
      /\ nextSequence' = nextSequence + Len(line)
      /\ order' = [f \in Execution |->
           IF f = "local" THEN order[f]
             ELSE order[f] \cup {x.seq : x \in {y \in Elements(line) : y.exec = f}}]
  BY <1>4, Zenon DEF ResumeLane
<1>8. ready' = IF ~busy[s] /\ line # <<>> THEN MarkReady(ready, line[1].seq, s, line[1].exec) ELSE ready
  BY <1>4, Zenon DEF ResumeLane
<1>9. /\ progressPermit' \in BOOLEAN /\ idlePermit' \in BOOLEAN
      /\ wpc' \in [Workers -> {"next", "waiting", "handling", "exited"}] /\ Handling' = Handling
  BY NotifyFacts, ZenonT(30) DEF ResumeLane
<1>10. UNCHANGED <<phase, cutoff, active, serializedActive, exclusiveActive, completed, wkey, wpkt,
                  game, base, closed, submitted, nextPause>> /\ transitions' \subseteq transitions
  BY Zenon DEF OnlyLanes
<1>11. /\ queued'[s] = line /\ deferred'[s] = <<>> /\ pauseGen'[s] = 0
       /\ \A r \in Sessions : r # s =>
            queued'[r] = queued[r] /\ deferred'[r] = deferred[r] /\ pauseGen'[r] = pauseGen[r]
  <2>1. <<>> \o line = line
    BY <1>5, EmptyConcat, Zenon
  <2> QED
    BY <1>3, <1>7, <2>1, Zenon DEF LaneTypeOK
<1>12. LaneTypeOK'
  <2>1. queued \in [Sessions -> Seq(Packets)] /\ deferred \in [Sessions -> Seq(Deferrals)]
    BY ZenonT(30) DEF LaneTypeOK, Packets, Deferrals
  <2>2. queued' \in [Sessions -> Seq(Packets)]
    BY <1>5, <1>7, <1>11, <2>1, Zenon
  <2>3. deferred' \in [Sessions -> Seq(Deferrals)]
    BY <1>7, <2>1, EmptyLine, Zenon
  <2>4. pauseGen' \in [Sessions -> Nat] /\ lanes' \subseteq Sessions
    BY <1>7, Zenon DEF LaneTypeOK
  <2> QED
    BY <1>7, <2>2, <2>3, <2>4, ZenonT(30) DEF LaneTypeOK, Packets, Deferrals
<1>13. OthersStay(s)
  BY <1>7, <1>11, Zenon DEF OthersStay
<1>14. SameHandlers
  BY <1>9, <1>10, Zenon DEF SameHandlers
<1>15. Len(line) \in Nat /\ nextSequence' \in Nat /\ nextSequence <= nextSequence'
       /\ submitted' \in Nat /\ submitted <= submitted'
  <2>1. Len(line) = DeferredLen(s)
    BY <1>5, Zenon DEF DeferredLen
  <2>2. nextSequence' = nextSequence + DeferredLen(s)
    BY <1>7, <2>1, Zenon
  <2> QED
    BY <1>2, <1>3, <1>10, <2>1, <2>2 DEF QueueTypeOK
<1>16. QueueTypeOK'
  <2>1. ready' \in [Execution -> SUBSET (Nat \X Sessions)]
    <3>1. line # <<>> => line[1].seq \in Nat /\ line[1].exec \in Execution
      BY <1>6, Zenon DEF Packets
    <3> QED
      BY <1>8, <3>1 DEF QueueTypeOK, MarkReady
  <2>2. order' \in [Execution -> SUBSET Nat]
    BY <1>6, <1>7 DEF QueueTypeOK, Packets
  <2> QED
    BY <1>10, <1>15, <2>1, <2>2, Zenon DEF QueueTypeOK
<1>17. ActorTypeOK'
  BY <1>9, <1>10, Zenon DEF ActorTypeOK
<1>18. LanesInv'
  <2>1. Load(s)' = Load(s) /\ QueuedLen(s)' = DeferredLen(s) /\ DeferredLen(s)' = 0 /\ QueuedLen(s) = 0
    BY <1>3, <1>5, <1>7, <1>11, EmptyLine, Zenon DEF Load, QueuedLen, DeferredLen
  <2>2. outstanding'[s] = QueuedLen(s)' + DeferredLen(s)' + Load(s)'
    BY <1>2, <1>7, <2>1 DEF LaneAt
  <2>3. s \in lanes
    BY <1>2, Zenon DEF LaneAt
  <2>4. s \in lanes' <=> busy'[s] \/ line # <<>>
    BY <1>7, <2>3, Zenon
  <2>5. LaneAt(s)'
    BY <1>11, <2>2, <2>4, Zenon DEF LaneAt
  <2> QED
    BY <1>13, <2>5, LanesChange, Zenon
<1>19. ReadyAt'
  <2>1. ASSUME NEW f \in Execution, NEW n \in Nat, NEW r \in Sessions, r # s
        PROVE  <<n, r>> \in ready'[f] <=> <<n, r>> \in ready[f]
    BY <1>8, <2>1, Zenon DEF MarkReady, QueueTypeOK
  <2>2. ASSUME NEW f \in Execution, NEW n \in Nat
        PROVE  <<n, s>> \in ready'[f] <=> /\ queued'[s] # <<>> /\ ~busy'[s]
                                          /\ queued'[s][1].exec = f /\ queued'[s][1].seq = n
    <3>1. <<n, s>> \notin ready[f]
      BY <1>3 DEF ReadyAt
    <3>2. busy'[s] = busy[s]
      BY <1>7, Zenon
    <3>3. CASE ~busy[s] /\ line # <<>>
      <4>1. <<n, s>> \in ready'[f] <=> (f = line[1].exec /\ n = line[1].seq)
        BY <1>8, <3>1, <3>3, Zenon DEF MarkReady, QueueTypeOK
      <4> QED
        BY <1>11, <3>2, <3>3, <4>1, Zenon
    <3>4. CASE ~(~busy[s] /\ line # <<>>)
      BY <1>8, <1>11, <3>1, <3>2, <3>4, Zenon
    <3> QED
      BY <3>3, <3>4, Zenon
  <2> QED
    BY <1>13, <2>1, <2>2, ReadyChange, Zenon
<1>20. OrderAt'
  <2> SUFFICES ASSUME NEW f \in Execution, NEW n \in Nat
               PROVE  n \in order'[f] <=>
                        /\ f # "local"
                        /\ \E r \in Sessions : \E y \in Elements(queued'[r]) : y.exec = f /\ y.seq = n
    BY Zenon DEF OrderAt
  <2>1. n \in order[f] <=>
                        /\ f # "local"
                        /\ \E r \in Sessions : \E y \in Elements(queued[r]) : y.exec = f /\ y.seq = n
    BY ZenonT(30) DEF OrderAt
  <2>2. n \in order'[f] <=> n \in order[f] \/ (f # "local" /\ \E y \in Elements(line) : y.exec = f /\ y.seq = n)
    BY <1>7, Zenon
  <2>3. (\E r \in Sessions : \E y \in Elements(queued'[r]) : y.exec = f /\ y.seq = n) <=>
           \/ \E r \in Sessions : \E y \in Elements(queued[r]) : y.exec = f /\ y.seq = n
           \/ \E y \in Elements(line) : y.exec = f /\ y.seq = n
    BY <1>3, <1>11, EmptyLine, Zenon
  <2> QED
    BY <2>1, <2>2, <2>3, Zenon
<1>21. \A x \in Elements(queued'[s]) : nextSequence <= x.seq /\ x.seq \in Nat /\ x.seq < nextSequence'
  <2>1. nextSequence' = nextSequence + Len(deferred[s])
    BY <1>5, <1>7, Zenon
  <2>2. \A x \in Elements(line) : x.seq \in Nat
    BY <1>6, Zenon DEF Packets
  <2> QED
    BY <1>5, <1>11, <2>1, <2>2, Zenon
<1>22. LinesAt'
  <2>1. Rising(queued'[s]) /\ RisingIds(deferred'[s])
    BY <1>5, <1>11, EmptyLine, Zenon
  <2> QED
    BY <1>13, <1>15, <1>21, <2>1, LinesChange, Zenon
<1>23. PlacesAt'
  <2>1. Elements(deferred'[s]) = {} /\ Elements(queued[s]) = {}
    BY <1>3, <1>11, EmptyLine, Zenon
  <2>2. Ids(s)' \subseteq Ids(s)
    <3> SUFFICES ASSUME NEW x \in Elements(line) PROVE x.id \in Ids(s)
      BY <1>11, <2>1, Zenon DEF Ids
    <3>1. \E y \in Elements(deferred[s]) : y.id = x.id /\ y.exec = x.exec
      BY <1>5, Zenon
    <3> QED
      BY <3>1, Zenon DEF Ids
  <2>3. \A k \in Ids(s)' : k < submitted' /\ (k \in Ids(s) \/ k = submitted)
    BY <1>10, <2>2, Zenon DEF PlacesAt
  <2>4. \A x \in Elements(queued'[s]) : x.seq \in Nat /\
            (x.seq >= nextSequence \/ \E y \in Elements(queued[s]) : y.seq = x.seq)
    BY <1>3, <1>21, Zenon
  <2> QED
    BY <1>13, <1>14, <1>15, <2>3, <2>4, PlacesChange, Zenon
<1>24. ActiveInv'
  BY <1>7, <1>10, <1>14, FrameActive, Zenon
<1>25. PhaseAt'
  <2>1. \A r \in Sessions : \A y \in Elements(queued'[r]) :
            y \in Elements(queued[r]) \/ (nextSequence <= y.seq /\ y.seq \in Nat)
    BY <1>11, <1>21, Zenon
  <2> QED
    BY <1>10, <1>15, <2>1, FramePhase, Zenon
<1> QED
  BY <1>12, <1>16, <1>17, <1>18, <1>19, <1>20, <1>22, <1>23, <1>24, <1>25, Zenon DEF Points

\* The end of a pause preserves the invariant, whatever happened to the lane meanwhile.
LEMMA FinishTransitionStep ==
  ASSUME Points, NEW t \in transitions, FinishTransition(t)
  PROVE  Points'
<1>1. t[1] \in Sessions /\ t[2] # 0 /\ OnlyLanes
  BY Zenon DEF Points, ActorTypeOK, FinishTransition, OnlyLanes, countVars, gameVars
<1>2. CASE phase # "stopped" /\ t[1] \in lanes /\ pauseGen[t[1]] = t[2] /\ ResumeLane(t[1])
  BY <1>1, <1>2, ResumeLaneStep, Zenon
<1>3. CASE ResumeFails(t[1], t[2])
  <2>1. UNCHANGED laneVars /\ UNCHANGED heapVars /\ UNCHANGED <<wpc, idlePermit, progressPermit>>
    BY <1>3, Zenon DEF ResumeFails
  <2>2. SameHandlers
    BY <1>1, <2>1, Zenon DEF OnlyLanes, SameHandlers, Points, ActorTypeOK, Handling
  <2>3. LaneTypeOK' /\ LanesInv' /\ ReadyAt' /\ OrderAt' /\ LinesAt' /\ PlacesAt' /\ ActiveInv'
    BY <1>1, <2>1, <2>2, FrameAll, Zenon DEF OnlyLanes
  <2>4. QueueTypeOK'
    BY <1>1, <2>1, Zenon DEF OnlyLanes, Points, QueueTypeOK, heapVars
  <2>5. ActorTypeOK'
    BY <1>1, <2>1, Zenon DEF OnlyLanes, Points, ActorTypeOK
  <2>6. PhaseAt'
    BY <1>1, <2>1, Zenon DEF OnlyLanes, Points, PhaseAt, laneVars, heapVars
  <2> QED
    BY <2>3, <2>4, <2>5, <2>6, Zenon DEF Points
<1>4. CASE DiscardLane(t[1])
  BY <1>1, <1>4, DiscardLaneStep, Zenon
<1> QED
  BY <1>2, <1>3, <1>4, Zenon DEF FinishTransition

\* stop preserves the invariant: lanes with a running handler stay until it is done.
LEMMA StopStep ==
  ASSUME Points, Stop
  PROVE  Points'
<1> USE DEF Points
<1>2. /\ queued' = [s \in Sessions |-> <<>>] /\ deferred' = [s \in Sessions |-> <<>>]
      /\ pauseGen' = [s \in Sessions |-> 0] /\ lanes' = {s \in lanes : busy[s]}
      /\ ready' = [e \in Execution |-> {}] /\ order' = [e \in Execution |-> {}]
      /\ busy' = busy /\ nextSequence' = nextSequence /\ phase' = "stopped" /\ game' = "ended"
  BY Zenon DEF Stop, GameStep
<1>3. UNCHANGED <<cutoff, active, serializedActive, exclusiveActive, completed, wkey, wpkt,
                  base, closed, submitted, nextPause, transitions, progressPermit>>
  BY Zenon DEF Stop, countVars, envVars
<1>4. /\ wpc' \in [Workers -> {"next", "waiting", "handling", "exited"}] /\ Handling' = Handling
      /\ idlePermit' \in BOOLEAN
  BY WakesAll, ZenonT(30) DEF Stop, NotifyIdle, ActorTypeOK
<1>5. outstanding' = [s \in Sessions |-> Load(s)]
  <2>1. outstanding' = [s \in Sessions |-> outstanding[s] - (QueuedLen(s) + DeferredLen(s))]
    BY Zenon DEF Stop, QueuedLen, DeferredLen
  <2>2. ASSUME NEW s \in Sessions PROVE outstanding[s] - (QueuedLen(s) + DeferredLen(s)) = Load(s)
    BY LanesPointwise, LaneTypes DEF LaneAt
  <2> QED
    BY <2>1, <2>2, Zenon
<1>6. \A s \in Sessions : /\ queued'[s] = <<>> /\ deferred'[s] = <<>> /\ pauseGen'[s] = 0
                          /\ outstanding'[s] = Load(s) /\ Load(s) \in Nat /\ Load(s)' = Load(s)
                          /\ busy'[s] = busy[s] /\ (s \in lanes' <=> s \in lanes /\ busy[s])
  BY <1>2, <1>5, Zenon DEF Load
<1>7. \A s \in Sessions : /\ Elements(queued'[s]) = {} /\ Elements(deferred'[s]) = {}
                          /\ Rising(queued'[s]) /\ RisingIds(deferred'[s])
                          /\ QueuedLen(s)' = 0 /\ DeferredLen(s)' = 0
  BY <1>6, EmptyLine, Zenon DEF QueuedLen, DeferredLen
<1>8. SameHandlers
  BY <1>3, <1>4, Zenon DEF SameHandlers
<1>9. LaneTypeOK'
  BY <1>2, <1>5, <1>6, EmptyLine, Zenon DEF LaneTypeOK
<1>10. QueueTypeOK'
  BY <1>2, <1>3, Zenon DEF QueueTypeOK
<1>11. ActorTypeOK'
  BY <1>2, <1>3, <1>4, Zenon DEF ActorTypeOK
<1>12. LanesInv'
  <2> SUFFICES ASSUME NEW s \in Sessions PROVE LaneAt(s)'
    BY LanesFromPoints, Zenon
  <2>1. s \in lanes' <=> busy'[s]
    BY <1>6, LanesPointwise, Zenon DEF LaneAt
  <2>2. outstanding'[s] = QueuedLen(s)' + DeferredLen(s)' + Load(s)'
    BY <1>6, <1>7
  <2> QED
    BY <1>6, <2>1, <2>2, Zenon DEF LaneAt
<1>13. ReadyAt'
  BY <1>2, <1>6, Zenon DEF ReadyAt
<1>14. OrderAt'
  BY <1>2, <1>7, Zenon DEF OrderAt
<1>15. LinesAt'
  BY <1>7, Zenon DEF LinesAt
<1>16. PlacesAt'
  <2>1. \A s \in Sessions : Ids(s)' = {}
    BY <1>7, Zenon DEF Ids
  <2> QED
    BY <1>3, <1>7, <1>8, <2>1 DEF PlacesAt, SameHandlers
<1>17. ActiveInv'
  BY <1>2, <1>3, <1>8, FrameActive, Zenon
<1>18. PhaseAt'
  BY <1>2, <1>6, Zenon DEF PhaseAt
<1> QED
  BY <1>9, <1>10, <1>11, <1>12, <1>13, <1>14, <1>15, <1>16, <1>17, <1>18, Zenon DEF Points

\* The packet a worker takes: x, the first of lane s.
Takes(w, s, e, x) ==
  /\ queued[s] # <<>> /\ ~busy[s] /\ x = queued[s][1] /\ x.exec = e
  /\ ~exclusiveActive /\ Admissible(x.seq, phase, cutoff)
  /\ \A n \in order["exclusive"] : x.seq <= n
  /\ e = "serialized" => ~serializedActive /\ \A n \in order["serialized"] : x.seq <= n
  /\ e = "exclusive" => active = 0
  /\ x.seq = Peek(ready[Selected(ready, CandidatesNow)])[1]
  /\ ready' = [ready EXCEPT ![e] = @ \ {<<x.seq, s>>}]
  /\ order' = IF e = "local" THEN order ELSE [order EXCEPT ![e] = @ \ {x.seq}]
  /\ serializedActive' = (serializedActive \/ e = "serialized")
  /\ exclusiveActive' = (exclusiveActive \/ e = "exclusive")
  /\ wkey' = [wkey EXCEPT ![w] = s]
  /\ wpkt' = [wpkt EXCEPT ![w] = x]
  /\ queued' = [queued EXCEPT ![s] = Tail(@)]
  /\ busy' = [busy EXCEPT ![s] = TRUE]

-----------------------------------------------------------------------------
(* The line of packets.                                                     *)

\* The line that a set of packets forms by its sequence numbers, and its names.
LineOf(P) == {<<z[1].id, z[2].id>> : z \in {y \in P \X P : y[1].seq < y[2].seq}}

IdsIn(P) == {x.id : x \in P}

\* Who is ahead of whom.
LEMMA LineMember ==
  ASSUME NEW P, NEW z
  PROVE  z \in LineOf(P) <=> \E x, y \in P : x.seq < y.seq /\ z = <<x.id, y.id>>
<1>1. ASSUME z \in LineOf(P) PROVE \E x, y \in P : x.seq < y.seq /\ z = <<x.id, y.id>>
  BY <1>1, Zenon DEF LineOf
<1>2. ASSUME NEW x \in P, NEW y \in P, x.seq < y.seq, z = <<x.id, y.id>> PROVE z \in LineOf(P)
  <2>1. <<x, y>> \in {v \in P \X P : v[1].seq < v[2].seq} /\ z = <<<<x, y>>[1].id, <<x, y>>[2].id>>
    BY <1>2, Zenon
  <2> QED
    BY <2>1, Zenon DEF LineOf
<1> QED
  BY <1>1, <1>2, Zenon

\* Packets that leave take their places with them and no others.
LEMMA LineSub ==
  ASSUME NEW P, NEW S, S \subseteq P, \A x, y \in P : x.id = y.id => x = y
  PROVE  LineOf(S) = {x \in LineOf(P) : x[1] \in IdsIn(S) /\ x[2] \in IdsIn(S)}
<1>1. ASSUME NEW z \in LineOf(S) PROVE z \in LineOf(P) /\ z[1] \in IdsIn(S) /\ z[2] \in IdsIn(S)
  BY <1>1 DEF LineOf, IdsIn
<1>2. ASSUME NEW z \in LineOf(P), z[1] \in IdsIn(S), z[2] \in IdsIn(S) PROVE z \in LineOf(S)
  <2>1. PICK x \in P, y \in P : x.seq < y.seq /\ z = <<x.id, y.id>>
    BY <1>2, Zenon DEF LineOf
  <2>2. PICK a \in S, b \in S : z[1] = a.id /\ z[2] = b.id
    BY <1>2, Zenon DEF IdsIn
  <2>3. x = a /\ y = b
    BY <2>1, <2>2, Zenon
  <2>4. <<a, b>> \in {v \in S \X S : v[1].seq < v[2].seq} /\ z = <<a.id, b.id>>
    BY <2>1, <2>3, Zenon
  <2> QED
    BY <2>4, Zenon DEF LineOf
<1> QED
  BY <1>1, <1>2, Zenon

\* Packets with larger numbers stand behind all others, in their own order.
LEMMA LineJoin ==
  ASSUME NEW P, NEW B,
         \A x \in P : \A y \in B : x.seq < y.seq /\ ~(y.seq < x.seq),
         \A x, y \in B : x.seq < y.seq <=> x.id < y.id
  PROVE  LineOf(P \cup B) = LineOf(P) \cup (IdsIn(P) \X IdsIn(B))
                              \cup {x \in IdsIn(B) \X IdsIn(B) : x[1] < x[2]}
<1> DEFINE R == LineOf(P) \cup (IdsIn(P) \X IdsIn(B)) \cup {x \in IdsIn(B) \X IdsIn(B) : x[1] < x[2]}
<1>1. ASSUME NEW z \in LineOf(P \cup B) PROVE z \in R
  <2>1. PICK x \in P \cup B, y \in P \cup B : x.seq < y.seq /\ z = <<x.id, y.id>>
    BY <1>1, LineMember
  <2>2. CASE x \in P /\ y \in P
    BY <2>1, <2>2, LineMember
  <2>3. CASE x \in P /\ y \in B
    BY <2>1, <2>3, Zenon DEF IdsIn
  <2>4. CASE x \in B /\ y \in P
    BY <2>1, <2>4, Zenon
  <2>5. CASE x \in B /\ y \in B
    BY <2>1, <2>5, Zenon DEF IdsIn
  <2> QED
    BY <2>2, <2>3, <2>4, <2>5, Zenon
<1>2. ASSUME NEW z \in LineOf(P) PROVE z \in LineOf(P \cup B)
  BY LineMember
<1>3. ASSUME NEW z \in IdsIn(P) \X IdsIn(B) PROVE z \in LineOf(P \cup B)
  <2>1. PICK x \in P, y \in B : z = <<x.id, y.id>>
    BY DEF IdsIn
  <2> QED
    BY <2>1, LineMember, Zenon
<1>4. ASSUME NEW z \in IdsIn(B) \X IdsIn(B), z[1] < z[2] PROVE z \in LineOf(P \cup B)
  <2>1. PICK x \in B, y \in B : z = <<x.id, y.id>>
    BY DEF IdsIn
  <2>2. x.seq < y.seq
    BY <1>4, <2>1, Zenon
  <2> QED
    BY <2>1, <2>2, LineMember, Zenon
<1> QED
  BY <1>1, <1>2, <1>3, <1>4, ZenonT(30)

\* The line of the queue is that of its queued packets.
LEMMA AheadIs == Ahead = LineOf(AllQueued)
BY Zenon DEF Ahead, LineOf

\* The packets in line are the queued ones.
LEMMA PendingIds == Order!IdsOf(Pending) = IdsIn(AllQueued)
<1>1. ASSUME NEW k \in Order!IdsOf(Pending) PROVE k \in IdsIn(AllQueued)
  BY DEF Order!IdsOf, Pending, AllQueued, IdsIn, Named
<1>2. ASSUME NEW s \in Sessions, NEW x \in Elements(queued[s]) PROVE x.id \in Order!IdsOf(Pending)
  <2>1. Named(s, x) \in Pending /\ Named(s, x).id = x.id
    BY DEF Pending, Named
  <2> QED
    BY <2>1, Zenon DEF Order!IdsOf
<1> QED
  BY <1>1, <1>2, Zenon DEF AllQueued, IdsIn

\* They are after a step, too.
LEMMA PendingIdsNext == Order!IdsOf(Pending') = IdsIn(AllQueued')
<1>1. ASSUME NEW k \in Order!IdsOf(Pending') PROVE k \in IdsIn(AllQueued')
  BY DEF Order!IdsOf, Pending, AllQueued, IdsIn, Named
<1>2. ASSUME NEW s \in Sessions, NEW x \in Elements(queued'[s]) PROVE x.id \in Order!IdsOf(Pending')
  <2>1. Named(s, x) \in Pending' /\ Named(s, x).id = x.id
    BY DEF Pending, Named
  <2> QED
    BY <2>1, Zenon DEF Order!IdsOf
<1> QED
  BY <1>1, <1>2, Zenon DEF AllQueued, IdsIn

\* Queued packets are told apart by their names.
LEMMA UniquePackets ==
  ASSUME Points
  PROVE  /\ \A x, y \in AllQueued : x.id = y.id => x = y
         /\ AllQueued \subseteq Packets
         /\ \A x \in AllQueued : x.seq < nextSequence
         /\ \A w \in Handling : wpkt[w].id \notin IdsIn(AllQueued)
<1> USE DEF Points
<1>2. ASSUME NEW r \in Sessions, NEW s \in Sessions, NEW x \in Elements(queued[r]), NEW y \in Elements(queued[s]),
             x.id = y.id
      PROVE  x = y
  <2>1. x.id \in Ids(r) /\ y.id \in Ids(s)
    BY Zenon DEF Ids
  <2>2. r = s
    BY <1>2, <2>1, Zenon DEF PlacesAt
  <2>3. queued[s] \in Seq(Packets) /\ Rising(queued[s])
    BY LaneTypes, Zenon DEF LinesAt
  <2> QED
    BY <1>2, <2>2, <2>3, RisingFacts, Zenon
<1>3. \A x, y \in AllQueued : x.id = y.id => x = y
  BY <1>2 DEF AllQueued
<1>4. AllQueued \subseteq Packets
  BY LaneTypes, Zenon DEF AllQueued
<1>5. \A x \in AllQueued : x.seq < nextSequence
  BY Zenon DEF LinesAt, AllQueued
<1>6. \A w \in Handling : wpkt[w].id \notin IdsIn(AllQueued)
  BY DEF PlacesAt, Ids, AllQueued, IdsIn
<1> QED
  BY <1>3, <1>4, <1>5, <1>6, Zenon

\* A step that changes none of what the abstract specification sees.
LEMMA SameView ==
  ASSUME UNCHANGED <<queued, deferred, pauseGen, submitted, phase, cutoff>>, SameHandlers
  PROVE  UNCHANGED Order!vars
BY DEF Order!vars, Pending, Ahead, Held, Holding, Running, Stage, Due, AllQueued, SameHandlers, Named

\* A packet in line is one of a lane.
LEMMA PendingIs ==
  ASSUME NEW p
  PROVE  p \in Pending <=> \E s \in Sessions : \E x \in Elements(queued[s]) : p = Named(s, x)
BY DEF Pending

\* A held packet is a deferred one of a lane.
LEMMA HeldIs ==
  ASSUME NEW p
  PROVE  p \in Held <=> \E s \in Sessions : \E x \in Elements(deferred[s]) : p = Named(s, x)
BY DEF Held

\* What the abstract specification sees of a packet.
LEMMA NamedFacts ==
  ASSUME NEW s, NEW x
  PROVE  Named(s, x).key = s /\ Named(s, x).id = x.id /\ Named(s, x).exec = x.exec
BY Zenon DEF Named

\* The same handlers run the same packets.
LEMMA SameRunning ==
  ASSUME SameHandlers, UNCHANGED <<phase>>
  PROVE  Running' = Running /\ Stage' = Stage
BY Zenon DEF SameHandlers, Running, Stage, Named

\* What is due while the queue drains: packets below the boundary and those that run.
LEMMA DueIs ==
  ASSUME NEW k, phase = "draining"
  PROVE  k \in Due <=> \/ \E x \in AllQueued : x.seq < cutoff /\ x.id = k
                       \/ \E w \in Handling : wpkt[w].id = k
BY Zenon DEF Due

\* A queued packet is one of a lane.
LEMMA AllQueuedIs ==
  ASSUME NEW x
  PROVE  x \in AllQueued <=> \E s \in Sessions : x \in Elements(queued[s])
BY Zenon DEF AllQueued

\* A lane loses its packets: they leave the line.
LEMMA WithdrawView ==
  ASSUME Points, NEW s \in Sessions, \A r \in Sessions : r # s => queued'[r] = queued[r],
         queued'[s] = <<>>, UNCHANGED <<phase, cutoff>>, SameHandlers
  PROVE  /\ Pending' = Order!Others(s, Pending)
         /\ Ahead' = Order!Line(Order!Others(s, Pending))
         /\ Due' = Due \ Order!IdsOf(Order!Of(s, Pending))
         /\ Running' = Running /\ Stage' = Stage
<1>1. Elements(queued'[s]) = {}
  BY EmptyLine, Zenon
<1>2. Pending' = Order!Others(s, Pending)
  <2>1. ASSUME NEW p PROVE p \in Pending' <=> p \in Pending /\ p.key # s
    <3>1. p \in Pending' <=> \E r \in Sessions : \E x \in Elements(queued'[r]) : p = Named(r, x)
      BY DEF Pending, Named
    <3> QED
      BY <1>1, <3>1, PendingIs, NamedFacts
  <2> QED
    BY <2>1, Zenon DEF Order!Others
<1>3. AllQueued' \subseteq AllQueued
  BY <1>1, Zenon DEF AllQueued
<1>4. Order!IdsOf(Order!Others(s, Pending)) = IdsIn(AllQueued')
  BY <1>2, PendingIdsNext, Zenon
<1>5. Ahead' = Order!Line(Order!Others(s, Pending))
  <2>1. LineOf(AllQueued') = {x \in LineOf(AllQueued) : x[1] \in IdsIn(AllQueued') /\ x[2] \in IdsIn(AllQueued')}
    BY <1>3, UniquePackets, LineSub, ZenonT(30)
  <2>2. Ahead' = LineOf(AllQueued') /\ Ahead = LineOf(AllQueued)
    BY Zenon DEF Ahead, LineOf
  <2> QED
    BY <1>4, <2>1, <2>2, Zenon DEF Order!Line
<1>6. Due' = Due \ Order!IdsOf(Order!Of(s, Pending))
  <2>1. CASE phase # "draining"
    BY <2>1, Zenon DEF Due
  <2>2. CASE phase = "draining"
    <3>1. ASSUME NEW k PROVE k \in Order!IdsOf(Order!Of(s, Pending)) <=> \E x \in Elements(queued[s]) : x.id = k
      <4>1. ASSUME k \in Order!IdsOf(Order!Of(s, Pending)) PROVE \E x \in Elements(queued[s]) : x.id = k
        BY <4>1, PendingIs, NamedFacts DEF Order!IdsOf, Order!Of
      <4>2. ASSUME NEW x \in Elements(queued[s]), x.id = k PROVE k \in Order!IdsOf(Order!Of(s, Pending))
        <5>1. Named(s, x) \in Order!Of(s, Pending) /\ Named(s, x).id = k
          BY <4>2, PendingIs, NamedFacts DEF Order!Of
        <5> QED
          BY <5>1, Zenon DEF Order!IdsOf
      <4> QED
        BY <4>1, <4>2, Zenon
    <3>2. ASSUME NEW k
          PROVE  k \in Due' <=> \/ \E x \in AllQueued' : x.seq < cutoff /\ x.id = k
                                \/ \E w \in Handling : wpkt[w].id = k
      BY <2>2, Zenon DEF Due, SameHandlers
    <3>3. ASSUME NEW x PROVE x \in AllQueued' <=> x \in AllQueued /\ x \notin Elements(queued[s])
      <4>1. x \in AllQueued' <=> \E r \in Sessions : r # s /\ x \in Elements(queued[r])
        BY <1>1, Zenon DEF AllQueued
      <4>2. ASSUME NEW r \in Sessions, r # s, x \in Elements(queued[r]), x \in Elements(queued[s]) PROVE FALSE
        BY <4>2, Zenon DEF Points, PlacesAt
      <4> QED
        BY <4>1, <4>2, AllQueuedIs, Zenon
    <3>4. ASSUME NEW x \in AllQueued, NEW y \in Elements(queued[s]), x.id = y.id PROVE x = y
      BY <3>4, UniquePackets DEF AllQueued
    <3>5. \A w \in Handling : \A x \in Elements(queued[s]) : wpkt[w].id # x.id
      BY ZenonT(30) DEF Points, PlacesAt, Ids
    <3>6. ASSUME NEW k PROVE k \in Due' <=> k \in Due /\ ~\E x \in Elements(queued[s]) : x.id = k
      <4>1. ASSUME k \in Due' PROVE k \in Due /\ ~\E x \in Elements(queued[s]) : x.id = k
        BY <2>2, <3>2, <3>3, <3>4, <3>5, <4>1, DueIs, ZenonT(30)
      <4>2. ASSUME k \in Due, ~\E x \in Elements(queued[s]) : x.id = k PROVE k \in Due'
        BY <2>2, <3>2, <3>3, <4>2, DueIs, Zenon
      <4> QED
        BY <4>1, <4>2, Zenon
    <3> QED
      BY <3>1, <3>6, Zenon
  <2> QED
    BY <2>1, <2>2, Zenon
<1> QED
  BY <1>2, <1>5, <1>6, SameRunning, Zenon

-----------------------------------------------------------------------------
(* The steps of the queue as steps of the line.                             *)

\* pause_lane holds the packets of the session.
LEMMA PauseView ==
  ASSUME Points, NEW s \in Sessions, PauseLane(s)
  PROVE  Order!Hold(s)
<1> USE DEF Points
<1>2. LaneAt(s) /\ pauseGen[s] = 0 /\ phase # "stopped" /\ nextPause \in Nat \ {0}
  BY LanesPointwise DEF PauseLane, QueueTypeOK
<1>3. /\ queued[s] \in Seq(Packets) /\ Rising(queued[s]) /\ deferred[s] = <<>>
  BY <1>2, LaneTypes, Zenon DEF LaneAt, LinesAt
<1>4. /\ queued' = [queued EXCEPT ![s] = <<>>]
      /\ deferred' = [deferred EXCEPT ![s] = @ \o Withdrawn(queued[s])]
      /\ pauseGen' = [pauseGen EXCEPT ![s] = nextPause]
      /\ UNCHANGED <<phase, cutoff, wkey, wpkt, submitted>>
  BY Zenon DEF PauseLane, Withdrawn
<1>5. SameHandlers
  BY <1>4, NotifyFacts, ZenonT(30) DEF PauseLane, SameHandlers
<1> DEFINE line == Withdrawn(queued[s])
<1>6. /\ line \in Seq(Deferrals)
      /\ \A x : x \in Elements(line) <=> \E y \in Elements(queued[s]) : x = [exec |-> y.exec, id |-> y.id]
  BY <1>3, WithdrawnFacts, Zenon
<1> HIDE DEF line
<1>7. /\ queued'[s] = <<>> /\ deferred'[s] = line /\ pauseGen'[s] = nextPause
      /\ \A r \in Sessions : r # s =>
           queued'[r] = queued[r] /\ deferred'[r] = deferred[r] /\ pauseGen'[r] = pauseGen[r]
  <2>1. <<>> \o line = line
    BY <1>6, EmptyConcat, Zenon
  <2> QED
    BY <1>3, <1>4, <2>1, Zenon DEF LaneTypeOK, line
<1>8. /\ Pending' = Order!Others(s, Pending)
      /\ Ahead' = Order!Line(Order!Others(s, Pending))
      /\ Due' = Due \ Order!IdsOf(Order!Of(s, Pending))
      /\ Running' = Running /\ Stage' = Stage
  BY <1>4, <1>5, <1>7, WithdrawView, Zenon
<1>9. Held' = Held \cup Order!Of(s, Pending)
  <2>1. ASSUME NEW p PROVE p \in Held' <=> \E r \in Sessions : \E x \in Elements(deferred'[r]) : p = Named(r, x)
    BY DEF Held, Named
  <2>2. ASSUME NEW p PROVE (\E x \in Elements(line) : p = Named(s, x)) <=> \E y \in Elements(queued[s]) : p = Named(s, y)
    <3>1. ASSUME NEW x \in Elements(line), p = Named(s, x) PROVE \E y \in Elements(queued[s]) : p = Named(s, y)
      <4>1. PICK y \in Elements(queued[s]) : x = [exec |-> y.exec, id |-> y.id]
        BY <1>6, Zenon
      <4> QED
        BY <3>1, <4>1, Zenon DEF Named
    <3>2. ASSUME NEW y \in Elements(queued[s]), p = Named(s, y) PROVE \E x \in Elements(line) : p = Named(s, x)
      <4>1. [exec |-> y.exec, id |-> y.id] \in Elements(line)
        BY <1>6, Zenon
      <4> QED
        BY <3>2, <4>1, Zenon DEF Named
    <3> QED
      BY <3>1, <3>2, Zenon
  <2>3. Elements(deferred[s]) = {}
    BY <1>3, EmptyLine, Zenon
  <2>4. ASSUME NEW p PROVE p \in Order!Of(s, Pending) <=> \E y \in Elements(queued[s]) : p = Named(s, y)
    BY PendingIs, NamedFacts DEF Order!Of
  <2>5. ASSUME NEW p PROVE p \in Held' <=> p \in Held \/ p \in Order!Of(s, Pending)
    BY <1>7, <2>1, <2>2, <2>3, <2>4, HeldIs
  <2> QED
    BY <2>5, Zenon
<1>10. Holding' = Holding \cup {s} /\ s \notin Holding
  BY <1>2, <1>7 DEF Holding
<1>11. Stage # "halted"
  BY <1>2, Zenon DEF Stage, QueueTypeOK
<1> QED
  BY <1>4, <1>8, <1>9, <1>10, <1>11, Zenon DEF Order!Hold

\* discard_lane drops them.
LEMMA DiscardView ==
  ASSUME Points, NEW s \in Sessions, DiscardLane(s), OnlyLanes
  PROVE  Order!Drop(s)
<1> USE DEF Points
<1>2. /\ queued' = [queued EXCEPT ![s] = <<>>] /\ deferred' = [deferred EXCEPT ![s] = <<>>]
      /\ pauseGen' = [pauseGen EXCEPT ![s] = 0]
      /\ UNCHANGED <<phase, cutoff, wkey, wpkt, submitted>>
  BY Zenon DEF DiscardLane, OnlyLanes
<1>3. SameHandlers
  BY <1>2, NotifyFacts, ZenonT(30) DEF DiscardLane, SameHandlers
<1>4. /\ queued'[s] = <<>> /\ deferred'[s] = <<>> /\ pauseGen'[s] = 0
      /\ \A r \in Sessions : r # s =>
           queued'[r] = queued[r] /\ deferred'[r] = deferred[r] /\ pauseGen'[r] = pauseGen[r]
  BY <1>2, Zenon DEF LaneTypeOK
<1>5. /\ Pending' = Order!Others(s, Pending)
      /\ Ahead' = Order!Line(Order!Others(s, Pending))
      /\ Due' = Due \ Order!IdsOf(Order!Of(s, Pending))
      /\ Running' = Running /\ Stage' = Stage
  BY <1>2, <1>3, <1>4, WithdrawView, Zenon
<1>6. Held' = Order!Others(s, Held)
  <2>1. ASSUME NEW p PROVE p \in Held' <=> \E r \in Sessions : \E x \in Elements(deferred'[r]) : p = Named(r, x)
    BY DEF Held, Named
  <2>2. Elements(deferred'[s]) = {}
    BY <1>4, EmptyLine, Zenon
  <2>3. ASSUME NEW p PROVE p \in Held' <=> p \in Held /\ p.key # s
    BY <1>4, <2>1, <2>2, HeldIs, NamedFacts
  <2> QED
    BY <2>3, Zenon DEF Order!Others
<1>7. Holding' = Holding \ {s}
  BY <1>4, Zenon DEF Holding
<1> QED
  BY <1>2, <1>5, <1>6, <1>7, Zenon DEF Order!Drop

\* When packets leave, the others stay in line.
LEMMA ShrinkView ==
  ASSUME Points, AllQueued' \subseteq AllQueued
  PROVE  Ahead' = Order!Line(Pending')
<1>1. LineOf(AllQueued') = {x \in LineOf(AllQueued) : x[1] \in IdsIn(AllQueued') /\ x[2] \in IdsIn(AllQueued')}
  BY UniquePackets, LineSub, Zenon
<1>2. Ahead' = LineOf(AllQueued') /\ Ahead = LineOf(AllQueued)
  BY Zenon DEF Ahead, LineOf
<1> QED
  BY <1>1, <1>2, PendingIdsNext, Zenon DEF Order!Line
=============================================================================
