------------------------- MODULE RegionFileProofs ---------------------------
(***************************************************************************)
(* Proofs about RegionFile: for every finite set of chunks, every payload  *)
(* size and any number of saves and faults, the tables stay valid, loads   *)
(* decode the last save of every chunk no fault reached, the handle counts *)
(* its clients, and no load discards a good payload.                       *)
(***************************************************************************)
EXTENDS RegionFile, TLAPS, FiniteSetTheorems, WellFoundedInduction

-----------------------------------------------------------------------------
\* Naturals and sectors.

\* A nonempty set of natural numbers has a least element.
LEMMA LeastNat ==
  ASSUME NEW S, S \subseteq Nat, S # {}
  PROVE  \E m \in S : \A y \in S : m <= y
<1>1. PICK m \in S : \A y \in S : ~(<<y, m>> \in OpToRel(<, Nat))
  BY WFMin, NatLessThanWellFounded, Zenon
<1>2. \A y \in S : ~(y < m)
  BY <1>1, ZenonT(30) DEF OpToRel
<1> QED
  BY <1>2

\* A finite one has a greatest: a least counterexample would lose an element and
\* still be one.
LEMMA GreatestNat ==
  ASSUME NEW S, IsFiniteSet(S), S \subseteq Nat, S # {}
  PROVE  \E m \in S : \A y \in S : y <= m
<1> DEFINE Top(T) == \E m \in T : \A y \in T : y <= m
           Bad == {T \in SUBSET S : T # {} /\ ~Top(T)}
           Sizes_ == {Cardinality(T) : T \in Bad}
<1> SUFFICES ASSUME ~Top(S) PROVE FALSE
  OBVIOUS
<1>1. \A T \in SUBSET S : IsFiniteSet(T) /\ Cardinality(T) \in Nat
  BY FS_Subset, FS_CardinalityType, Zenon
<1>2. Sizes_ \subseteq Nat /\ Sizes_ # {}
  BY <1>1, Zenon
<1>3. PICK k \in Sizes_ : \A j \in Sizes_ : k <= j
  <2> HIDE DEF Sizes_
  <2> QED BY <1>2, LeastNat, Zenon
<1>4. PICK T \in Bad : k = Cardinality(T)
  OBVIOUS
<1>5. PICK x \in T : TRUE
  BY <1>4, Zenon
<1> DEFINE U == T \ {x}
<1>6. Cardinality(U) = Cardinality(T) - 1
  BY <1>1, <1>4, <1>5, FS_RemoveElement, Zenon
<1>7. U \in SUBSET S /\ Cardinality(U) < k
  BY <1>1, <1>4, <1>6
<1>8. U \notin Bad
  <2>1. U \in Bad => Cardinality(U) \in Sizes_
    OBVIOUS
  <2>2. k \in Nat /\ Cardinality(U) \in Nat
    BY <1>1, <1>4, <1>7, Zenon
  <2>3. U \in Bad => k <= Cardinality(U)
    BY <1>3, <2>1, Zenon
  <2> HIDE DEF Bad, U
  <2> QED
    BY <1>7, <2>2, <2>3
<1>9. CASE U = {}
  <2>1. \A y \in T : y = x
    BY <1>9, Zenon
  <2>2. x \in Nat
    BY <1>4, <1>5, Zenon
  <2> QED BY <1>4, <1>5, <2>1, <2>2
<1>10. CASE U # {}
  <2>1. PICK m \in U : \A y \in U : y <= m
    BY <1>7, <1>8, <1>10, Zenon
  <2>2. x \in Nat /\ m \in Nat /\ T \subseteq Nat
    BY <1>4, <1>5, Zenon
  <2>3. CASE x <= m
    <3>1. \A y \in T : y <= m
      BY <2>1, <2>3, Zenon
    <3> QED BY <1>4, <2>1, <3>1, Zenon
  <2>4. CASE m <= x
    <3>1. \A y \in T : y <= x
      BY <2>1, <2>2, <2>4
    <3> QED BY <1>4, <1>5, <3>1, Zenon
  <2> QED BY <2>2, <2>3, <2>4
<1> QED BY <1>9, <1>10, Zenon

\* sector_count: whole sectors, and at least one for a payload.
LEMMA SectorCountType ==
  ASSUME NEW n \in Nat
  PROVE  SectorCount(n) \in Nat /\ (n > 0 => SectorCount(n) > 0)
<1>1. \A a \in Nat, b \in Nat \ {0} : a \div b \in Nat
  OBVIOUS
<1>2. \A a \in Nat, b \in Nat \ {0} : a >= b => a \div b > 0
  OBVIOUS
<1> QED
  BY <1>1, <1>2, SectorSizeAssumption DEF SectorCount

\* The sectors from `at` on, `k` of them, are not those of the entry of c.
Apart(o, n, c, at, k) == End(o, n, c) <= at \/ o[c] >= at + k

\* The sectors of an entry end no earlier than they start.
LEMMA EndType ==
  ASSUME NEW o \in Entry, NEW n \in Entry, NEW c \in Chunks
  PROVE  /\ o[c] \in Nat /\ n[c] \in Nat /\ SectorCount(n[c]) \in Nat
         /\ End(o, n, c) \in Nat /\ End(o, n, c) >= o[c]
<1>1. o[c] \in Nat /\ n[c] \in Nat
  BY Zenon DEF Entry
<1>2. SectorCount(n[c]) \in Nat
  BY <1>1, SectorCountType, Zenon
<1> HIDE DEF SectorCount
<1> QED
  BY <1>1, <1>2 DEF End

\* There are places to append at.
LEMMA AppendFacts ==
  ASSUME NEW o \in Entry, NEW n \in Entry, NEW sectors \in Nat
  PROVE  LET s == AppendSector(o, n, sectors) IN
         /\ s \in Nat /\ s >= FIRST_DATA_SECTOR
         /\ \A c \in Chunks : Exists(o, c) => End(o, n, c) <= s
<1> DEFINE stored == {d \in Chunks : Exists(o, d)}
           f == [c \in stored |-> End(o, n, c)]
           ends == {End(o, n, c) : c \in stored}
           S == {sectors, FIRST_DATA_SECTOR} \cup ends
<1>1. ends \subseteq Nat
  BY EndType, Zenon
<1>2. IsFiniteSet(ends)
  <2>1. f \in Surjection(stored, ends)
    BY Zenon DEF Surjection
  <2>2. IsFiniteSet(stored)
    BY ChunksAssumption, FS_Subset, Zenon
  <2> HIDE DEF stored, ends, f
  <2> QED
    BY <2>1, <2>2, FS_Surjection, Zenon
<1>3. IsFiniteSet(S)
  <2> HIDE DEF ends
  <2>1. IsFiniteSet({sectors, FIRST_DATA_SECTOR})
    <3>1. {sectors, FIRST_DATA_SECTOR} = {sectors} \cup {FIRST_DATA_SECTOR}
      OBVIOUS
    <3>2. IsFiniteSet({sectors})
      BY FS_Singleton, Zenon
    <3> QED
      BY <3>1, <3>2, FS_AddElement
  <2> QED
    BY <1>2, <2>1, FS_Union, Zenon
<1>4. S \subseteq Nat /\ S # {}
  BY <1>1 DEF FIRST_DATA_SECTOR
<1>5. PICK m \in S : \A y \in S : y <= m
  <2> HIDE DEF S
  <2> QED BY <1>3, <1>4, GreatestNat, Zenon
<1>6. /\ m >= sectors /\ m >= FIRST_DATA_SECTOR
      /\ \A c \in Chunks : Exists(o, c) => End(o, n, c) <= m
  BY <1>4, <1>5, Zenon
<1> DEFINE s == AppendSector(o, n, sectors)
<1>7. /\ s \in S /\ s >= sectors /\ s >= FIRST_DATA_SECTOR
      /\ \A c \in Chunks : Exists(o, c) => End(o, n, c) <= s
  BY <1>6, Zenon DEF AppendSector
<1> QED
  BY <1>4, <1>7, Zenon

\* What find_free_sectors finds is free.
LEMMA FindFreeFacts ==
  ASSUME NEW o \in Entry, NEW n \in Entry, NEW needed \in Nat, NEW sectors \in Nat,
         \A c \in Chunks : Exists(o, c) => o[c] >= FIRST_DATA_SECTOR
  PROVE  LET s == FindFreeSectors(o, n, needed, sectors) IN
         /\ s \in Nat /\ s >= FIRST_DATA_SECTOR
         /\ \A c \in Chunks : Exists(o, c) => Apart(o, n, c, s, needed)
<1> DEFINE stored == {d \in Chunks : Exists(o, d)}
           ends == {End(o, n, c) : c \in stored}
           gaps == FreeGaps(o, n, needed)
           s == FindFreeSectors(o, n, needed, sectors)
<1>1. \A e \in ends : e \in Nat /\ e >= FIRST_DATA_SECTOR
  BY EndType DEF FIRST_DATA_SECTOR
<1>2. CASE gaps # {}
  <2>1. gaps \subseteq Nat /\ \A g \in gaps : g >= FIRST_DATA_SECTOR
    BY <1>1 DEF FreeGaps, FIRST_DATA_SECTOR
  <2>2. \E t \in gaps : \A g \in gaps : t <= g
    <3> HIDE DEF gaps
    <3> QED BY <1>2, <2>1, LeastNat, Zenon
  <2>3. s \in gaps
    BY <1>2, <2>2, Zenon DEF FindFreeSectors
  <2>4. \A c \in Chunks : Exists(o, c) => End(o, n, c) <= s \/ o[c] >= s + needed
    BY <2>3, Zenon DEF FreeGaps
  <2> QED
    BY <2>1, <2>3, <2>4, Zenon DEF Apart
<1>3. CASE gaps = {}
  BY <1>3, AppendFacts, Zenon DEF FindFreeSectors, Apart
<1> QED
  BY <1>2, <1>3, Zenon

-----------------------------------------------------------------------------
\* The table after a save.

\* A file with header and chunk table exists.
LEMMA CompleteExists == Complete => fileEnd # 0
BY DEF Complete, FIRST_DATA_SECTOR


\* Where save_chunk_data puts a payload: its sectors are free but for those of the
\* chunk's own entry, and if it does not reuse these, free altogether.
LEMMA PlaceFacts ==
  ASSUME TypeOK, TableValid, ReopenValid, TablesMatch, NEW c \in Chunks, NEW n \in Sizes
  PROVE  /\ Place(c, n) \in Nat /\ Place(c, n) >= FIRST_DATA_SECTOR
         /\ SectorCount(n) \in Nat /\ SectorCount(n) > 0
         /\ \A d \in Chunks \ {c} : Exists(Off, d) => Apart(Off, Size, d, Place(c, n), SectorCount(n))
         /\ Exists(Off, c) =>
              \/ Apart(Off, Size, c, Place(c, n), SectorCount(n))
              \/ /\ Place(c, n) = Off[c]
                 /\ Place(c, n) + SectorCount(n) <= End(Off, Size, c)
<1> USE DEF TypeOK
<1>1. n \in Nat /\ SectorCount(n) \in Nat /\ SectorCount(n) > 0
  BY SizesAssumption, SectorCountType
<1>2. Off \in Entry /\ Size \in Entry /\ FileSectors \in Nat
  BY Zenon DEF Off, Size, FileSectors, FIRST_DATA_SECTOR
<1>3. ValidTable(Off, Size, FileSectors)
  BY CompleteExists, Zenon DEF TableValid, ReopenValid, TablesMatch, Off, Size, FileSectors, ValidTable
<1> HIDE DEF TypeOK
<1>4. \A d \in Chunks : Exists(Off, d) => Off[d] >= FIRST_DATA_SECTOR
  BY <1>3, Zenon DEF ValidTable
<1>5. CASE Exists(Off, c) /\ SectorCount(Size[c]) >= SectorCount(n)
  <2>1. Place(c, n) = Off[c] /\ Off[c] >= FIRST_DATA_SECTOR
    BY <1>4, <1>5, Zenon DEF Place
  <2>2. Off[c] \in Nat /\ SectorCount(Size[c]) \in Nat /\ End(Off, Size, c) = Off[c] + SectorCount(Size[c])
    BY <1>2, EndType, Zenon DEF End
  <2>3. Off[c] + SectorCount(n) <= End(Off, Size, c)
    BY <1>1, <1>5, <2>2
  <2>4. ASSUME NEW d \in Chunks \ {c}, Exists(Off, d)
        PROVE  Apart(Off, Size, d, Off[c], SectorCount(n))
    <3>1. End(Off, Size, d) <= Off[c] \/ End(Off, Size, c) <= Off[d]
      BY <1>3, <1>5, <2>4, Zenon DEF ValidTable
    <3>2. Off[d] \in Nat
      BY <1>2, EndType, Zenon
    <3> QED
      BY <1>1, <2>2, <2>3, <3>1, <3>2 DEF Apart
  <2> QED
    BY <1>1, <2>1, <2>2, <2>3, <2>4, Zenon
<1>6. CASE ~(Exists(Off, c) /\ SectorCount(Size[c]) >= SectorCount(n))
  <2>1. Place(c, n) = FindFreeSectors(Off, Size, SectorCount(n), FileSectors)
    BY <1>6, Zenon DEF Place
  <2>2. \A o, m \in Entry, k, t \in Nat :
          (\A d \in Chunks : Exists(o, d) => o[d] >= FIRST_DATA_SECTOR) =>
            /\ FindFreeSectors(o, m, k, t) \in Nat /\ FindFreeSectors(o, m, k, t) >= FIRST_DATA_SECTOR
            /\ \A d \in Chunks : Exists(o, d) => Apart(o, m, d, FindFreeSectors(o, m, k, t), k)
    BY FindFreeFacts, Zenon
  <2>3. /\ Place(c, n) \in Nat /\ Place(c, n) >= FIRST_DATA_SECTOR
        /\ \A d \in Chunks : Exists(Off, d) => Apart(Off, Size, d, Place(c, n), SectorCount(n))
    BY <1>1, <1>2, <1>4, <2>1, <2>2
  <2> QED
    BY <1>1, <2>3, Zenon
<1> QED
  BY <1>5, <1>6, Zenon

\* A table stays valid when the file grows.
LEMMA ValidGrows ==
  ASSUME NEW o \in Entry, NEW n \in Entry, NEW s \in Nat, NEW t \in Nat, s <= t,
         ValidTable(o, n, s)
  PROVE  ValidTable(o, n, t)
BY EndType DEF ValidTable

\* And when an entry is put where PlaceFacts says.
LEMMA ValidPlaced ==
  ASSUME NEW o \in Entry, NEW n \in Entry, NEW s \in Nat, NEW t \in Nat, s <= t,
         ValidTable(o, n, s),
         NEW c \in Chunks, NEW at \in Nat, NEW m \in Nat \ {0},
         at >= FIRST_DATA_SECTOR, at + SectorCount(m) <= t,
         \A d \in Chunks \ {c} : Exists(o, d) => Apart(o, n, d, at, SectorCount(m))
  PROVE  ValidTable([o EXCEPT ![c] = at], [n EXCEPT ![c] = m], t)
<1> DEFINE p == [o EXCEPT ![c] = at]
           q == [n EXCEPT ![c] = m]
<1>1. p[c] = at /\ q[c] = m /\ \A d \in Chunks \ {c} : p[d] = o[d] /\ q[d] = n[d]
  BY Zenon DEF Entry
<1>2. SectorCount(m) \in Nat
  BY SectorCountType, Zenon
<1> HIDE DEF p, q
<1>3. End(p, q, c) = at + SectorCount(m)
  BY <1>1, Zenon DEF End
<1>4. \A d \in Chunks \ {c} : End(p, q, d) = End(o, n, d) /\ (Exists(p, d) <=> Exists(o, d))
  BY <1>1, Zenon DEF End, Exists
<1>5. \A d \in Chunks : o[d] \in Nat /\ End(o, n, d) \in Nat
  BY EndType, Zenon
<1>6. \A d \in Chunks \ {c} : Exists(o, d) => End(o, n, d) <= at \/ at + SectorCount(m) <= o[d]
  BY <1>2, <1>5, Zenon DEF Apart
<1>7. \A d \in Chunks \ {c} : Exists(o, d) =>
        /\ o[d] >= FIRST_DATA_SECTOR /\ n[d] > 0 /\ End(o, n, d) <= t
        /\ \A e \in Chunks \ {d} : Exists(o, e) => End(o, n, d) <= o[e] \/ End(o, n, e) <= o[d]
  BY <1>5 DEF ValidTable
<1>8. SUFFICES ASSUME NEW d \in Chunks, Exists(p, d)
      PROVE /\ p[d] >= FIRST_DATA_SECTOR /\ q[d] > 0 /\ End(p, q, d) <= t
            /\ \A e \in Chunks \ {d} : Exists(p, e) => End(p, q, d) <= p[e] \/ End(p, q, e) <= p[d]
  BY Zenon DEF ValidTable, p, q
<1>9. CASE d = c
  BY <1>1, <1>3, <1>4, <1>6, <1>9
<1>10. CASE d # c
  <2>1. p[d] >= FIRST_DATA_SECTOR /\ q[d] > 0 /\ End(p, q, d) <= t
    BY <1>1, <1>4, <1>7, <1>8, <1>10, Zenon
  <2>2. ASSUME NEW e \in Chunks \ {d}, Exists(p, e)
        PROVE  End(p, q, d) <= p[e] \/ End(p, q, e) <= p[d]
    <3>1. CASE e = c
      BY <1>1, <1>3, <1>4, <1>6, <1>8, <1>10, <3>1, Zenon
    <3>2. CASE e # c
      BY <1>1, <1>4, <1>7, <1>8, <1>10, <2>2, <3>2, Zenon
    <3> QED BY <3>1, <3>2, Zenon
  <2> QED BY <2>1, <2>2, Zenon
<1> QED
  BY <1>9, <1>10, Zenon

\* And when one is cleared.
LEMMA ValidCleared ==
  ASSUME NEW o \in Entry, NEW n \in Entry, NEW s \in Nat, ValidTable(o, n, s), NEW c \in Chunks
  PROVE  ValidTable([o EXCEPT ![c] = 0], [n EXCEPT ![c] = 0], s)
<1> DEFINE p == [o EXCEPT ![c] = 0]
           q == [n EXCEPT ![c] = 0]
<1>1. p[c] = 0 /\ \A d \in Chunks \ {c} : p[d] = o[d] /\ q[d] = n[d]
  BY Zenon DEF Entry
<1> HIDE DEF p, q
<1>2. \A d \in Chunks : Exists(p, d) => d # c /\ Exists(o, d) /\ End(p, q, d) = End(o, n, d)
  BY <1>1, Zenon DEF End, Exists
<1>3. \A d \in Chunks : Exists(p, d) =>
        /\ p[d] >= FIRST_DATA_SECTOR /\ q[d] > 0 /\ End(p, q, d) <= s
        /\ \A e \in Chunks \ {d} : Exists(p, e) => End(p, q, d) <= p[e] \/ End(p, q, e) <= p[d]
  BY <1>1, <1>2, Zenon DEF ValidTable
<1> QED
  BY <1>3, Zenon DEF ValidTable, p, q

\* A payload stays readable when other sectors are written.
LEMMA Undisturbed ==
  ASSUME NEW F, NEW G, NEW first \in Nat, NEW m \in Nat, NEW d, NEW v,
         NEW at \in Nat, NEW k \in Nat,
         \A w \in F : w[1] < at \/ w[1] >= at + k => w \in G,
         first + SectorCount(m) <= at \/ first >= at + k,
         \A i \in 0..(SectorCount(m) - 1) : <<first + i, d, v, i, m>> \in F
  PROVE  \A i \in 0..(SectorCount(m) - 1) : <<first + i, d, v, i, m>> \in G
<1>1. SectorCount(m) \in Nat
  BY SectorCountType, Zenon
<1> SUFFICES ASSUME NEW i \in 0..(SectorCount(m) - 1)
             PROVE  <<first + i, d, v, i, m>> \in G
  OBVIOUS
<1>2. <<first + i, d, v, i, m>>[1] = first + i
  OBVIOUS
<1>3. first + i < at \/ first + i >= at + k
  BY <1>1
<1>4. <<first + i, d, v, i, m>> \in F
  OBVIOUS
<1> QED
  BY <1>2, <1>3, <1>4, Zenon

-----------------------------------------------------------------------------
\* Readable payloads and the count of clients.

\* The table the next operation works on is valid.
LEMMA TableNow ==
  ASSUME TablesValid
  PROVE  /\ Off \in Entry /\ Size \in Entry /\ FileSectors \in Nat /\ FileSectors >= 0
         /\ ValidTable(Off, Size, FileSectors)
         /\ FileSectors <= Larger(fileEnd, FIRST_DATA_SECTOR)
<1> USE DEF TablesValid, TypeOK
<1>1. Off \in Entry /\ Size \in Entry /\ FileSectors \in Nat
  BY Zenon DEF Off, Size, FileSectors, FIRST_DATA_SECTOR
<1>2. ValidTable(Off, Size, FileSectors)
  BY CompleteExists, Zenon DEF TableValid, ReopenValid, TablesMatch, Off, Size, FileSectors, ValidTable
<1>3. FileSectors <= Larger(fileEnd, FIRST_DATA_SECTOR)
  BY DEF TableValid, FileSectors, Larger, FIRST_DATA_SECTOR
<1> QED
  BY <1>1, <1>2, <1>3

\* The table in the file stays valid while the file does not shrink.
LEMMA DiskNow ==
  ASSUME TablesValid, NEW t \in Nat, fileEnd <= t
  PROVE  ValidTable(diskOff, diskSize, t)
<1>1. CASE ~Complete
  BY <1>1, Zenon DEF TablesValid, TablesMatch, ValidTable
<1>2. CASE Complete
  BY <1>2, ValidGrows, Zenon DEF TablesValid, TypeOK, ReopenValid
<1> QED
  BY <1>1, <1>2, Zenon

\* LastSaveReadable for one chunk.
Readable(c) ==
  ~spoiled[c] =>
    /\ IF saved[c] = 0 THEN ~Exists(Off, c)
       ELSE Exists(Off, c) /\ Decodes(Off, Size, c, c, saved[c])
    /\ client[c] = "reading" => read[c][3]

\* LastSaveReadable is Readable of every chunk, now and after a step.
LEMMA ReadablePointwise == LastSaveReadable <=> \A c \in Chunks : Readable(c)
BY Zenon DEF LastSaveReadable, Readable

\* The same of the next state.
LEMMA ReadableNext == LastSaveReadable' <=> \A c \in Chunks : Readable(c)'
BY Zenon DEF LastSaveReadable, Readable

\* A chunk whose entry and whose sectors are left alone stays readable.
LEMMA ReadableKept ==
  ASSUME TablesValid, NEW c \in Chunks, Readable(c),
         Off'[c] = Off[c], Size'[c] = Size[c], saved'[c] = saved[c],
         spoiled[c] => spoiled'[c],
         client'[c] = "reading" => client[c] = "reading" /\ read'[c] = read[c],
         NEW at \in Nat, NEW k \in Nat, Without(at, k) \subseteq file',
         Exists(Off, c) /\ ~spoiled'[c] => Apart(Off, Size, c, at, k)
  PROVE  Readable(c)'
<1> SUFFICES ASSUME ~spoiled'[c]
             PROVE  /\ IF saved'[c] = 0 THEN ~Exists(Off', c)
                       ELSE Exists(Off', c) /\ Decodes(Off, Size, c, c, saved[c])'
                    /\ client'[c] = "reading" => read'[c][3]
  BY Zenon DEF Readable
<1>1. client'[c] = "reading" => read'[c][3]
  BY Zenon DEF Readable
<1>2. Exists(Off', c) <=> Exists(Off, c)
  BY Zenon DEF Exists
<1>3. ASSUME saved[c] # 0 PROVE Decodes(Off, Size, c, c, saved[c])'
  <2>1. Exists(Off, c) /\ Decodes(Off, Size, c, c, saved[c])
    BY <1>3, Zenon DEF Readable
  <2>2. Off[c] \in Nat /\ Size[c] \in Nat /\ End(Off, Size, c) = Off[c] + SectorCount(Size[c])
    BY TableNow, EndType, Zenon DEF End
  <2>3. Off[c] + SectorCount(Size[c]) <= at \/ Off[c] >= at + k
    BY <2>1, <2>2, Zenon DEF Apart
  <2>4. \A w \in file : w[1] < at \/ w[1] >= at + k => w \in file'
    BY Zenon DEF Without
  <2>5. \A i \in 0..(SectorCount(Size[c]) - 1) : <<Off[c] + i, c, saved[c], i, Size[c]>> \in file
    BY <2>1, Zenon DEF Decodes
  <2>6. \A F, G, o, m, v :
          /\ o \in Nat /\ m \in Nat
          /\ \A w \in F : w[1] < at \/ w[1] >= at + k => w \in G
          /\ o + SectorCount(m) <= at \/ o >= at + k
          /\ \A i \in 0..(SectorCount(m) - 1) : <<o + i, c, v, i, m>> \in F
          => \A i \in 0..(SectorCount(m) - 1) : <<o + i, c, v, i, m>> \in G
    BY Undisturbed, ZenonT(30)
  <2>7. \A i \in 0..(SectorCount(Size[c]) - 1) : <<Off[c] + i, c, saved[c], i, Size[c]>> \in file'
    BY <2>2, <2>3, <2>4, <2>5, <2>6, ZenonT(30)
  <2> QED
    BY <2>7, Zenon DEF Decodes
<1> QED
  BY <1>1, <1>2, <1>3, Zenon DEF Readable

\* In particular when nothing is written at all.
LEMMA ReadableStays ==
  ASSUME TablesValid, NEW c \in Chunks, Readable(c),
         Off'[c] = Off[c], Size'[c] = Size[c], saved'[c] = saved[c],
         spoiled[c] => spoiled'[c],
         client'[c] = "reading" => client[c] = "reading" /\ read'[c] = read[c],
         file \subseteq file'
  PROVE  Readable(c)'
<1>1. Without(0, 0) \subseteq file'
  BY Zenon DEF Without
<1>2. Apart(Off, Size, c, 0, 0)
  BY TableNow, EndType DEF Apart
<1> QED
  BY <1>1, <1>2, ReadableKept, Zenon

\* loaded_chunk_count when one client comes, goes or does something else.
Clients == {c \in Chunks : client[c] # "none"}

\* The clients of the handle can be counted.
LEMMA ClientsFinite == IsFiniteSet(Clients) /\ Cardinality(Clients) \in Nat
<1>1. IsFiniteSet(Clients)
  BY ChunksAssumption, FS_Subset, Zenon DEF Clients
<1> QED
  BY <1>1, FS_CardinalityType, Zenon

\* acquire_chunk adds a client.
LEMMA ClientComes ==
  ASSUME NEW c \in Chunks, c \notin Clients
  PROVE  Cardinality(Clients \cup {c}) = Cardinality(Clients) + 1
BY ClientsFinite, FS_AddElement, Zenon

\* release_chunk takes one away, and the last one leaves none.
LEMMA ClientGoes ==
  ASSUME NEW c \in Clients
  PROVE  /\ Cardinality(Clients \ {c}) = Cardinality(Clients) - 1
         /\ Cardinality(Clients) <= 1 => Clients = {c}
<1>1. Cardinality(Clients \ {c}) = Cardinality(Clients) - 1 /\ IsFiniteSet(Clients \ {c})
  BY ClientsFinite, FS_RemoveElement, Zenon
<1>2. Cardinality(Clients \ {c}) \in Nat
  BY <1>1, FS_CardinalityType, Zenon
<1>3. Cardinality(Clients) <= 1 => Cardinality(Clients \ {c}) = 0
  BY <1>1, <1>2, ClientsFinite
<1>4. Cardinality(Clients \ {c}) = 0 => Clients \ {c} = {}
  BY <1>1, FS_EmptySet, Zenon
<1> QED
  BY <1>1, <1>3, <1>4, Zenon

\* CountMatches in terms of the clients, now and after a step.
LEMMA CountIs ==
  CountMatches <=> (Clients # {} => open) /\ count = Cardinality(Clients)
BY Zenon DEF CountMatches, Clients

\* The same of the next state.
LEMMA CountNext ==
  CountMatches' <=> (Clients' # {} => open') /\ count' = Cardinality(Clients')
BY Zenon DEF CountMatches, Clients

-----------------------------------------------------------------------------
\* The steps.

\* It holds of an empty directory: no file and no handle.
LEMMA InitHolds == Init => IInv
<1> SUFFICES ASSUME Init PROVE IInv
  OBVIOUS
<1>1. TypeOK
  <2>1. NoRead \in Nat \X Nat \X BOOLEAN
    BY Zenon DEF NoRead
  <2>2. read \in [Chunks -> Nat \X Nat \X BOOLEAN]
    BY <2>1, Zenon DEF Init
  <2>3. saves \in [Chunks -> 0..MaxSaves] /\ saved \in [Chunks -> 0..MaxSaves]
    BY BoundsAssumption DEF Init
  <2>4. off \in Entry /\ size \in Entry /\ diskOff \in Entry /\ diskSize \in Entry
    BY Zenon DEF Init, Entry
  <2>5. /\ client \in [Chunks -> {"none", "acquired", "reading", "loaded", "failed"}]
        /\ spoiled \in [Chunks -> BOOLEAN] /\ open \in BOOLEAN /\ headerDirty \in BOOLEAN
    BY Zenon DEF Init
  <2> QED
    BY <2>2, <2>3, <2>4, <2>5, Zenon DEF Init, TypeOK
<1>2. TableValid /\ ReopenValid /\ TablesMatch
  <2>1. ~Complete
    BY CompleteExists, Zenon DEF Init
  <2> QED
    BY <2>1, Zenon DEF Init, TableValid, ReopenValid, TablesMatch, Exists
<1>3. LastSaveReadable
  BY Zenon DEF Init, LastSaveReadable, Exists, Off
<1>4. CountMatches
  <2>1. Clients = {}
    BY Zenon DEF Init, Clients
  <2> QED
    BY <2>1, FS_EmptySet, CountIs, Zenon DEF Init
<1> QED
  BY <1>1, <1>2, <1>3, <1>4, Zenon DEF IInv, TablesValid

\* acquire_chunk opens the region, or finds it open, and counts the client.
LEMMA AcquireStep ==
  ASSUME IInv, NEW c \in Chunks, AcquireChunk(c)
  PROVE  IInv'
<1> USE DEF IInv, TablesValid
<1>1. /\ client \in [Chunks -> {"none", "acquired", "reading", "loaded", "failed"}]
      /\ fileEnd \in Nat /\ count \in Nat
  BY Zenon DEF TypeOK
<1>2. /\ Off \in Entry /\ Size \in Entry /\ FileSectors \in Nat
      /\ ValidTable(Off, Size, FileSectors) /\ FileSectors <= Larger(fileEnd, FIRST_DATA_SECTOR)
  BY TableNow, Zenon
<1>3. /\ off' = Off /\ size' = Size /\ fileSectors' = FileSectors /\ open' = TRUE
      /\ fileEnd' = Larger(fileEnd, FIRST_DATA_SECTOR) /\ Off' = Off /\ Size' = Size
      /\ UNCHANGED <<diskOff, diskSize, file, read, ghostVars>>
  BY Zenon DEF AcquireChunk, Opened, Off, Size
<1>4. fileEnd' \in Nat /\ fileEnd <= fileEnd' /\ Complete'
  BY <1>1, <1>3 DEF Larger, FIRST_DATA_SECTOR, Complete
<1>5. TypeOK'
  <2>1. client' \in [Chunks -> {"none", "acquired", "reading", "loaded", "failed"}]
    BY <1>1, Zenon DEF AcquireChunk
  <2>2. headerDirty' \in BOOLEAN /\ count' \in Nat
    BY <1>1 DEF AcquireChunk, Opened
  <2> QED
    BY <1>2, <1>3, <1>4, <2>1, <2>2, Zenon DEF TypeOK, ghostVars
<1>6. TableValid'
  BY <1>2, <1>3, Zenon DEF TableValid
<1>7. ReopenValid'
  BY <1>3, <1>4, DiskNow, Zenon DEF ReopenValid
<1>8. TablesMatch'
  BY <1>3, <1>4, Zenon DEF TablesMatch, Off, Size, AcquireChunk, Opened, ghostVars
<1>9. LastSaveReadable'
  <2>1. \A d \in Chunks : client'[d] = "reading" => client[d] = "reading"
    BY <1>1, Zenon DEF AcquireChunk
  <2>2. \A d \in Chunks : Readable(d)'
    BY <1>3, <2>1, ReadablePointwise, ReadableStays, Zenon DEF ghostVars
  <2> QED
    BY <2>2, ReadableNext, Zenon
<1>10. CountMatches'
  <2>1. c \notin Clients /\ Clients' = Clients \cup {c}
    BY <1>1, Zenon DEF AcquireChunk, Clients
  <2>2. count' = Cardinality(Clients')
    BY <2>1, ClientComes, CountIs, Zenon DEF AcquireChunk
  <2> QED
    BY <1>3, <2>2, CountNext, Zenon
<1> QED
  BY <1>5, <1>6, <1>7, <1>8, <1>9, <1>10, Zenon

\* A step of a load that leaves the tables alone.
LEMMA StillTables ==
  ASSUME IInv, UNCHANGED <<handleVars, diskVars, saved, spoiled>>
  PROVE  /\ TableValid' /\ ReopenValid' /\ TablesMatch' /\ Off' = Off /\ Size' = Size
BY Zenon DEF IInv, TablesValid, TableValid, ReopenValid, TablesMatch, Complete, handleVars, diskVars,
   Off, Size

\* load_chunk reads the entry, and decodes the payload or returns its error.
LEMMA LoadStep ==
  ASSUME IInv, NEW c \in Chunks, LoadChunk(c) \/ LoadDecodes(c) \/ LoadFails(c)
  PROVE  IInv'
<1> USE DEF IInv, TablesValid
<1>1. /\ client \in [Chunks -> {"none", "acquired", "reading", "loaded", "failed"}]
      /\ read \in [Chunks -> Nat \X Nat \X BOOLEAN]
  BY Zenon DEF TypeOK
<1>2. /\ UNCHANGED <<handleVars, diskVars, spoiled, saved, saves>>
      /\ c \in Clients /\ Clients' = Clients
      /\ \A d \in Chunks \ {c} : client'[d] = client[d] /\ read'[d] = read[d]
  BY <1>1, Zenon DEF LoadChunk, LoadDecodes, LoadFails, ghostVars, Clients
<1>3. TypeOK'
  <2>1. client' \in [Chunks -> {"none", "acquired", "reading", "loaded", "failed"}]
    BY <1>1, Zenon DEF LoadChunk, LoadDecodes, LoadFails
  <2>2. read' \in [Chunks -> Nat \X Nat \X BOOLEAN]
    <3>1. <<off[c], size[c], Decodable(c)>> \in Nat \X Nat \X BOOLEAN
      BY Zenon DEF TypeOK, Entry, Decodable
    <3>2. NoRead \in Nat \X Nat \X BOOLEAN
      BY Zenon DEF NoRead
    <3> QED
      BY <1>1, <3>1, <3>2, Zenon DEF LoadChunk, LoadDecodes, LoadFails
  <2>3. faults' \in Nat
    BY DEF TypeOK, LoadChunk, LoadDecodes, LoadFails, ghostVars
  <2> QED
    BY <1>2, <2>1, <2>2, <2>3, Zenon DEF TypeOK, handleVars, diskVars
<1>4. TableValid' /\ ReopenValid' /\ TablesMatch' /\ Off' = Off /\ Size' = Size
  BY <1>2, StillTables, Zenon
<1>5. LastSaveReadable'
  <2>1. \A d \in Chunks \ {c} : Readable(d)'
    BY <1>2, <1>4, ReadablePointwise, ReadableStays, Zenon DEF diskVars
  <2>2. CASE client'[c] # "reading"
    <3>1. Readable(c)'
      BY <1>2, <1>4, <2>2, ReadablePointwise, ReadableStays, Zenon DEF diskVars
    <3> QED
      BY <2>1, <3>1, ReadableNext, Zenon
  <2>3. CASE client'[c] = "reading"
    <3>1. open /\ Exists(off, c) /\ read'[c] = <<off[c], size[c], Decodable(c)>>
      BY <1>1, <2>3, Zenon DEF LoadChunk, LoadDecodes, LoadFails
    <3>2. Off = off /\ Size = size
      BY <3>1, Zenon DEF Off, Size
    <3>3. ASSUME ~spoiled[c] PROVE Decodable(c) /\ saved[c] # 0
      <4>1. Readable(c)
        BY ReadablePointwise, Zenon
      <4>2. saved[c] # 0 /\ Decodes(off, size, c, c, saved[c])
        BY <3>1, <3>2, <3>3, <4>1, Zenon DEF Readable
      <4>3. saved[c] \in 1..MaxSaves
        BY <4>2, BoundsAssumption DEF TypeOK
      <4> QED
        BY <4>2, <4>3, Zenon DEF Decodable
    <3>4. Readable(c)'
      <4>1. read'[c][3] = Decodable(c)
        BY <3>1
      <4>2. Readable(c)
        BY ReadablePointwise
      <4>3. Decodes(Off, Size, c, c, saved[c])' <=> Decodes(Off, Size, c, c, saved[c])
        BY <1>2, <1>4, Zenon DEF Decodes, diskVars
      <4> QED
        BY <1>2, <1>4, <3>3, <4>1, <4>2, <4>3, Zenon DEF Readable, diskVars
    <3> QED
      BY <2>1, <3>4, ReadableNext
  <2> QED
    BY <2>2, <2>3, Zenon
<1>6. CountMatches'
  BY <1>2, CountIs, CountNext, Zenon DEF handleVars
<1> QED
  BY <1>3, <1>4, <1>5, <1>6, Zenon

\* The types a step keeps that are not those of the tables.
ClientStates == {"none", "acquired", "reading", "loaded", "failed"}

\* clear_corrupt_chunk_if_unchanged clears the entry, in memory and in the file.
LEMMA ClearStep ==
  ASSUME IInv, NEW c \in Chunks, LoadClears(c)
  PROVE  IInv'
<1> USE DEF IInv, TablesValid
<1>1. /\ open /\ client \in [Chunks -> ClientStates] /\ read \in [Chunks -> Nat \X Nat \X BOOLEAN]
      /\ off \in Entry /\ size \in Entry /\ fileSectors \in Nat /\ fileEnd \in Nat
      /\ saved \in [Chunks -> 0..MaxSaves] /\ Off = off /\ Size = size
  BY Zenon DEF TypeOK, LoadClears, EntryUnchanged, Off, Size, ClientStates
<1>2. /\ off' = [off EXCEPT ![c] = 0] /\ size' = [size EXCEPT ![c] = 0]
      /\ diskOff' = off' /\ diskSize' = size' /\ open' /\ Off' = off' /\ Size' = size'
      /\ client' = [client EXCEPT ![c] = "loaded"] /\ saved' = [saved EXCEPT ![c] = 0]
      /\ read' = [read EXCEPT ![c] = NoRead]
      /\ UNCHANGED <<open, count, fileSectors, file, fileEnd, saves, spoiled, faults>>
  BY <1>1, Zenon DEF LoadClears, Off, Size
<1>3. ValidTable(off', size', fileSectors) /\ fileSectors <= fileEnd
  BY <1>1, <1>2, ValidCleared, Zenon DEF TableValid
<1>4. off' \in Entry /\ size' \in Entry
  BY <1>1, <1>2, Zenon DEF Entry
<1>5. TypeOK'
  <2>1. read' \in [Chunks -> Nat \X Nat \X BOOLEAN]
    <3>1. NoRead \in Nat \X Nat \X BOOLEAN
      BY Zenon DEF NoRead
    <3> QED
      BY <1>1, <1>2, <3>1, Zenon
  <2>2. saved' \in [Chunks -> 0..MaxSaves] /\ client' \in [Chunks -> ClientStates]
    BY <1>1, <1>2, BoundsAssumption DEF ClientStates
  <2>3. headerDirty' = FALSE
    BY Zenon DEF LoadClears
  <2> QED
    BY <1>2, <1>4, <2>1, <2>2, <2>3, Zenon DEF TypeOK, ClientStates
<1>6. TableValid'
  BY <1>2, <1>3, Zenon DEF TableValid
<1>7. ReopenValid'
  <2>1. ValidTable(off', size', fileEnd)
    BY <1>1, <1>3, <1>4, ValidGrows, Zenon
  <2>2. Complete /\ Complete' = Complete
    BY <1>1, <1>2, Zenon DEF TablesMatch, Complete
  <2> QED
    BY <1>2, <2>1, <2>2, Zenon DEF ReopenValid
<1>8. TablesMatch'
  BY <1>1, <1>2, Zenon DEF TablesMatch, Complete
<1>9. LastSaveReadable'
  <2>1. off'[c] = 0 /\ saved'[c] = 0 /\ client'[c] = "loaded"
    BY <1>1, <1>2, Zenon DEF Entry
  <2>2. \A d \in Chunks \ {c} : /\ off'[d] = off[d] /\ size'[d] = size[d] /\ saved'[d] = saved[d]
                                /\ client'[d] = client[d] /\ read'[d] = read[d]
    BY <1>1, <1>2, Zenon DEF Entry
  <2>3. Readable(c)'
    BY <1>2, <2>1, Zenon DEF Readable, Exists
  <2>4. ASSUME NEW d \in Chunks \ {c} PROVE Readable(d)'
    BY <1>1, <1>2, <2>2, ReadablePointwise, ReadableStays, Zenon
  <2> QED
    BY <2>3, <2>4, ReadableNext, Zenon
<1>10. CountMatches'
  <2>1. Clients' = Clients
    BY <1>1, <1>2, Zenon DEF Clients, LoadClears
  <2> QED
    BY <1>2, <2>1, CountIs, CountNext, Zenon
<1> QED
  BY <1>5, <1>6, <1>7, <1>8, <1>9, <1>10

\* The handle is removed: its table is written to the file, or the entries that
\* differ from those in the file are lost.
LEMMA CloseStep ==
  ASSUME IInv, open, Closed, UNCHANGED <<file, fileEnd, saves, saved>>,
         client' = [c \in Chunks |-> "none"] \/ Clients' = {},
         client' \in [Chunks -> ClientStates], read' \in [Chunks -> Nat \X Nat \X BOOLEAN],
         spoiled' \in [Chunks -> BOOLEAN], faults' \in Nat,
         \/ diskOff' = off /\ diskSize' = size /\ spoiled' = spoiled
         \/ /\ UNCHANGED <<diskOff, diskSize>>
            /\ \A d \in Chunks : ~spoiled'[d] =>
                 ~spoiled[d] /\ off[d] = diskOff[d] /\ size[d] = diskSize[d]
  PROVE  IInv'
<1> USE DEF IInv, TablesValid
<1>1. /\ off \in Entry /\ size \in Entry /\ diskOff \in Entry /\ diskSize \in Entry
      /\ fileSectors \in Nat /\ fileEnd \in Nat /\ spoiled \in [Chunks -> BOOLEAN]
      /\ Off = off /\ Size = size /\ Off' = diskOff' /\ Size' = diskSize' /\ ~open'
  BY Zenon DEF TypeOK, Off, Size, Closed
<1>2. diskOff' \in Entry /\ diskSize' \in Entry
  BY <1>1, Zenon
<1>3. Clients' = {} /\ \A d \in Chunks : client'[d] = "none"
  BY Zenon DEF Clients
<1>4. TypeOK'
  <2>1. off' \in Entry /\ size' \in Entry
    BY Zenon DEF Closed, Entry
  <2> QED
    BY <1>2, <2>1, Zenon DEF TypeOK, Closed, ClientStates
<1>5. TableValid'
  BY <1>1, Zenon DEF TableValid
<1>6. Complete /\ Complete'
  BY Zenon DEF TablesMatch, Complete
<1>7. ReopenValid'
  <2>1. ValidTable(off, size, fileEnd)
    BY <1>1, ValidGrows, Zenon DEF TableValid
  <2> QED
    BY <1>6, <2>1, Zenon DEF ReopenValid
<1>8. TablesMatch'
  BY <1>1, <1>6, Zenon DEF TablesMatch
<1>9. LastSaveReadable'
  <2>1. ASSUME NEW d \in Chunks PROVE Readable(d)'
    <3>1. CASE spoiled'[d]
      BY <3>1, Zenon DEF Readable
    <3>2. CASE ~spoiled'[d]
      <4>1. Off'[d] = Off[d] /\ Size'[d] = Size[d] /\ ~spoiled[d]
        BY <1>1, <3>2, Zenon
      <4> QED
        BY <1>3, <4>1, ReadablePointwise, ReadableStays, Zenon
    <3> QED BY <3>1, <3>2, Zenon
  <2> QED
    BY <2>1, ReadableNext, Zenon
<1>10. CountMatches'
  <2>1. count' = 0
    BY Zenon DEF Closed
  <2> QED
    BY <1>3, <2>1, FS_EmptySet, CountNext, Zenon
<1> QED
  BY <1>4, <1>5, <1>7, <1>8, <1>9, <1>10, Zenon

\* release_chunk.
LEMMA ReleaseStep ==
  ASSUME IInv, NEW c \in Chunks, ReleaseChunk(c) \/ ReleaseHeaderFails(c)
  PROVE  IInv'
<1> USE DEF IInv, TablesValid
<1>1. /\ client \in [Chunks -> ClientStates] /\ spoiled \in [Chunks -> BOOLEAN]
      /\ read \in [Chunks -> Nat \X Nat \X BOOLEAN] /\ faults \in Nat /\ count \in Nat
      /\ client' = [client EXCEPT ![c] = "none"] /\ client[c] # "none" /\ read' = read
      /\ UNCHANGED <<file, fileEnd, saves, saved>>
  BY Zenon DEF TypeOK, ReleaseChunk, ReleaseHeaderFails, MayRelease, ClientStates, ghostVars
<1>2. c \in Clients /\ Clients' = Clients \ {c} /\ client' \in [Chunks -> ClientStates] /\ open
  <2>1. c \in Clients /\ Clients' = Clients \ {c} /\ client' \in [Chunks -> ClientStates]
    BY <1>1, Zenon DEF Clients, ClientStates
  <2> QED
    BY <2>1, CountIs, Zenon
<1>3. CASE count <= 1
  <2>1. Clients' = {}
    BY <1>2, <1>3, ClientGoes, CountIs, Zenon
  <2>2. Closed
    BY <1>3, Zenon DEF ReleaseChunk, ReleaseHeaderFails
  <2>3. CASE ReleaseChunk(c)
    <3>1. spoiled' = spoiled /\ faults' = faults
      BY <2>3, Zenon DEF ReleaseChunk, ghostVars
    <3>2. \/ diskOff' = off /\ diskSize' = size
          \/ UNCHANGED <<diskOff, diskSize>> /\ ~headerDirty
      BY <1>3, <2>3, Zenon DEF ReleaseChunk, WriteHeader
    <3>3. ~headerDirty => \A d \in Chunks : ~spoiled[d] => off[d] = diskOff[d] /\ size[d] = diskSize[d]
      BY <1>2, Zenon DEF TablesMatch
    <3> QED
      BY <1>1, <1>2, <2>1, <2>2, <3>1, <3>2, <3>3, CloseStep, Zenon
  <2>4. CASE ReleaseHeaderFails(c)
    <3>1. HeaderLost
      BY <2>4, Zenon DEF ReleaseHeaderFails
    <3>2. spoiled' \in [Chunks -> BOOLEAN] /\ faults' \in Nat /\ UNCHANGED <<diskOff, diskSize>>
      BY <1>1, <3>1 DEF HeaderLost
    <3>3. \A d \in Chunks : ~spoiled'[d] =>
            ~spoiled[d] /\ off[d] = diskOff[d] /\ size[d] = diskSize[d]
      BY <3>1, Zenon DEF HeaderLost
    <3> QED
      BY <1>1, <1>2, <2>1, <2>2, <3>2, <3>3, CloseStep, Zenon
  <2> QED
    BY <2>3, <2>4, Zenon
<1>4. CASE ~(count <= 1)
  <2>1. /\ count' = count - 1 /\ UNCHANGED <<diskVars, ghostVars, open, off, size, headerDirty, fileSectors>>
    BY <1>4, Zenon DEF ReleaseChunk, ReleaseHeaderFails, diskVars
  <2>2. TypeOK'
    BY <1>1, <1>2, <1>4, <2>1 DEF TypeOK, ClientStates, diskVars, ghostVars
  <2>3. TableValid' /\ ReopenValid' /\ TablesMatch' /\ Off' = Off /\ Size' = Size
    BY <2>1, Zenon DEF TableValid, ReopenValid, TablesMatch, Complete, Off, Size, diskVars, ghostVars
  <2>4. LastSaveReadable'
    <3>1. \A d \in Chunks : client'[d] = "reading" => client[d] = "reading"
      BY <1>1, Zenon
    <3>2. ASSUME NEW d \in Chunks PROVE Readable(d)'
      BY <1>1, <2>1, <2>3, <3>1, ReadablePointwise, ReadableStays, Zenon DEF ghostVars, diskVars
    <3> QED
      BY <3>2, ReadableNext, Zenon
  <2>5. CountMatches'
    <3>1. Cardinality(Clients') = Cardinality(Clients) - 1
      BY <1>2, ClientGoes, Zenon
    <3> QED
      BY <1>2, <2>1, <3>1, CountIs, CountNext, Zenon
  <2> QED
    BY <2>2, <2>3, <2>4, <2>5, Zenon
<1> QED
  BY <1>3, <1>4, Zenon

\* close_all, and the end of the process without it.
LEMMA EndStep ==
  ASSUME IInv, CloseAll \/ CloseAborts
  PROVE  IInv'
<1> USE DEF IInv, TablesValid
<1>1. /\ open /\ Closed /\ UNCHANGED <<file, fileEnd, saves, saved>>
      /\ client' = [c \in Chunks |-> "none"] /\ read' = [c \in Chunks |-> NoRead]
      /\ spoiled \in [Chunks -> BOOLEAN] /\ faults \in Nat
  BY Zenon DEF CloseAll, CloseAborts, Restart, ghostVars, TypeOK
<1>2. client' \in [Chunks -> ClientStates] /\ read' \in [Chunks -> Nat \X Nat \X BOOLEAN]
  <2>1. NoRead \in Nat \X Nat \X BOOLEAN
    BY Zenon DEF NoRead
  <2> QED
    BY <1>1, <2>1, Zenon DEF ClientStates
<1>3. CASE CloseAll
  <2>1. spoiled' = spoiled /\ faults' = faults
    BY <1>3, Zenon DEF CloseAll, ghostVars
  <2>2. \/ diskOff' = off /\ diskSize' = size
        \/ UNCHANGED <<diskOff, diskSize>> /\ ~headerDirty
    BY <1>3, Zenon DEF CloseAll, WriteHeader
  <2>3. ~headerDirty => \A d \in Chunks : ~spoiled[d] => off[d] = diskOff[d] /\ size[d] = diskSize[d]
    BY <1>1, Zenon DEF TablesMatch
  <2> QED
    BY <1>1, <1>2, <2>1, <2>2, <2>3, CloseStep, Zenon
<1>4. CASE CloseAborts
  <2>1. HeaderLost
    BY <1>4, Zenon DEF CloseAborts
  <2>2. spoiled' \in [Chunks -> BOOLEAN] /\ faults' \in Nat /\ UNCHANGED <<diskOff, diskSize>>
    BY <1>1, <2>1 DEF HeaderLost
  <2>3. \A d \in Chunks : ~spoiled'[d] =>
          ~spoiled[d] /\ off[d] = diskOff[d] /\ size[d] = diskSize[d]
    BY <2>1, Zenon DEF HeaderLost
  <2> QED
    BY <1>1, <1>2, <2>2, <2>3, CloseStep, Zenon
<1> QED
  BY <1>3, <1>4, Zenon

\* flush_all.
LEMMA FlushStep ==
  ASSUME IInv, FlushAll
  PROVE  IInv'
<1> USE DEF IInv, TablesValid
<1>1. /\ open /\ diskOff' = off /\ diskSize' = size /\ headerDirty' = FALSE
      /\ UNCHANGED <<client, read, open, off, size, count, fileSectors, file, fileEnd, ghostVars>>
      /\ Off' = Off /\ Size' = Size
  BY Zenon DEF FlushAll, WriteHeader, Off, Size
<1>2. TypeOK'
  BY <1>1, Zenon DEF TypeOK, ghostVars
<1>3. TableValid' /\ TablesMatch'
  BY <1>1, Zenon DEF TableValid, TablesMatch, Exists, Complete
<1>4. ReopenValid'
  <2>1. ValidTable(off, size, fileEnd)
    BY <1>1, ValidGrows, Zenon DEF TableValid, TypeOK
  <2> QED
    BY <1>1, <2>1, Zenon DEF ReopenValid, Complete, ghostVars
<1>5. LastSaveReadable'
  BY <1>1, ReadablePointwise, ReadableStays, ReadableNext, Zenon DEF ghostVars
<1>6. CountMatches'
  BY <1>1, Zenon DEF CountMatches
<1> QED
  BY <1>2, <1>3, <1>4, <1>5, <1>6, Zenon

\* A sector is lost: only the chunk it belongs to is spoiled.
LEMMA LostStep ==
  ASSUME IInv, NEW w \in file, SectorLost(w[1])
  PROVE  IInv'
<1> USE DEF IInv, TablesValid
<1>1. /\ w[1] \in Nat /\ file' = Without(w[1], 1) /\ file' \subseteq file
      /\ UNCHANGED <<client, read, handleVars, diskOff, diskSize, fileEnd, saves, saved>>
      /\ Off' = Off /\ Size' = Size
      /\ spoiled' = [c \in Chunks |-> spoiled[c] \/ Covers(Off, Size, c, w[1])]
  BY Zenon DEF SectorLost, TypeOK, Without, handleVars, Off, Size
<1>2. TypeOK'
  <2>1. spoiled' \in [Chunks -> BOOLEAN]
    <3>1. \A c \in Chunks : spoiled[c] \in BOOLEAN /\ Covers(Off, Size, c, w[1]) \in BOOLEAN
      BY Zenon DEF TypeOK, Covers
    <3> QED
      BY <1>1, <3>1, Zenon
  <2>2. faults' \in Nat
    BY DEF SectorLost, TypeOK
  <2> QED
    BY <1>1, <2>1, <2>2, Zenon DEF TypeOK, handleVars
<1>3. TableValid' /\ ReopenValid' /\ TablesMatch'
  <2>1. \A c \in Chunks : spoiled[c] => spoiled'[c]
    BY <1>1, Zenon
  <2> QED
    BY <1>1, <2>1, Zenon DEF TableValid, ReopenValid, TablesMatch, Complete, handleVars
<1>4. LastSaveReadable'
  <2>1. ASSUME NEW c \in Chunks PROVE Readable(c)'
    <3>1. Exists(Off, c) /\ ~spoiled'[c] => Apart(Off, Size, c, w[1], 1)
      <4>1. Off[c] \in Nat /\ End(Off, Size, c) \in Nat
        BY TableNow, EndType, Zenon
      <4>2. ~spoiled'[c] => ~Covers(Off, Size, c, w[1])
        BY <1>1, Zenon
      <4> QED
        BY <1>1, <4>1, <4>2 DEF Apart, Covers
    <3>2. spoiled[c] => spoiled'[c]
      BY <1>1, Zenon
    <3> QED
      BY <1>1, <3>1, <3>2, ReadablePointwise, ReadableKept, Zenon
  <2> QED
    BY <2>1, ReadableNext, Zenon
<1>5. CountMatches'
  BY <1>1, Zenon DEF CountMatches, handleVars
<1> QED
  BY <1>2, <1>3, <1>4, <1>5, Zenon

\* The file ends where the later of two writes does.
LEMMA LargerFacts ==
  ASSUME NEW m \in Nat, NEW n \in Nat
  PROVE  Larger(m, n) \in Nat /\ Larger(m, n) >= m /\ Larger(m, n) >= n
BY DEF Larger

\* What a step of save_chunk_data finds: a free place, and the invariants by name.
LEMMA SaveFacts ==
  ASSUME IInv, NEW c \in Chunks, NEW n \in Sizes
  PROVE  /\ Place(c, n) \in Nat /\ Place(c, n) >= FIRST_DATA_SECTOR
         /\ n \in Nat \ {0} /\ SectorCount(n) \in Nat /\ SectorCount(n) > 0
         /\ \A d \in Chunks \ {c} : Exists(Off, d) => Apart(Off, Size, d, Place(c, n), SectorCount(n))
         /\ Exists(Off, c) =>
              Apart(Off, Size, c, Place(c, n), SectorCount(n)) \/ Place(c, n) = Off[c]
BY PlaceFacts, SizesAssumption, Zenon DEF IInv, TablesValid

\* The parts in the file after a payload was written.
LEMMA WrittenFacts ==
  ASSUME IInv, NEW c \in Chunks, NEW n \in Sizes, MaySave(c), WritePayload(c, n)
  PROVE  /\ \A w \in file' : w[1] \in Nat \ 0..2 /\ w[2] \in Chunks /\ w[3] \in Nat
         /\ Without(Place(c, n), SectorCount(n)) \subseteq file'
         /\ \A i \in 0..(SectorCount(n) - 1) : <<Place(c, n) + i, c, saves[c] + 1, i, n>> \in file'
         /\ fileEnd' = Larger(fileEnd, Place(c, n) + SectorCount(n))
         /\ saves' \in [Chunks -> 0..MaxSaves]
         /\ saves[c] + 1 \in 0..MaxSaves /\ saves[c] + 1 # 0
<1>1. /\ Place(c, n) \in Nat /\ Place(c, n) >= FIRST_DATA_SECTOR /\ SectorCount(n) \in Nat
  BY SaveFacts, Zenon
<1>2. saves \in [Chunks -> 0..MaxSaves] /\ saves[c] < MaxSaves
  BY Zenon DEF IInv, TablesValid, TypeOK, MaySave
<1>3. saves[c] + 1 \in 0..MaxSaves /\ saves[c] + 1 # 0
  BY <1>2, BoundsAssumption
<1>4. saves' \in [Chunks -> 0..MaxSaves]
  BY <1>2, <1>3, Zenon DEF WritePayload
<1>5. \A w \in file : w[1] \in Nat \ 0..2 /\ w[2] \in Chunks /\ w[3] \in Nat
  BY Zenon DEF IInv, TablesValid, TypeOK
<1>6. /\ file' = Without(Place(c, n), SectorCount(n)) \cup Payload(c, saves[c] + 1, n, Place(c, n))
      /\ fileEnd' = Larger(fileEnd, Place(c, n) + SectorCount(n))
  BY Zenon DEF WritePayload
<1>7. \A w \in Payload(c, saves[c] + 1, n, Place(c, n)) :
        w[1] \in Nat \ 0..2 /\ w[2] \in Chunks /\ w[3] \in Nat
  BY <1>1, <1>3 DEF Payload, FIRST_DATA_SECTOR
<1>8. \A w \in file' : w[1] \in Nat \ 0..2 /\ w[2] \in Chunks /\ w[3] \in Nat
  BY <1>5, <1>6, <1>7, Zenon DEF Without
<1>9. \A i \in 0..(SectorCount(n) - 1) : <<Place(c, n) + i, c, saves[c] + 1, i, n>> \in file'
  BY <1>6, Zenon DEF Payload
<1> QED
  BY <1>3, <1>4, <1>6, <1>8, <1>9, Zenon

\* Other chunks stay readable when a payload of c is written.
LEMMA OthersReadable ==
  ASSUME IInv, NEW c \in Chunks, NEW n \in Sizes,
         Without(Place(c, n), SectorCount(n)) \subseteq file',
         NEW d \in Chunks \ {c}, Off'[d] = Off[d], Size'[d] = Size[d], saved'[d] = saved[d],
         spoiled[d] => spoiled'[d], client'[d] = client[d], read'[d] = read[d]
  PROVE  Readable(d)'
<1>1. Place(c, n) \in Nat /\ SectorCount(n) \in Nat
      /\ (Exists(Off, d) => Apart(Off, Size, d, Place(c, n), SectorCount(n)))
  BY SaveFacts, Zenon
<1>2. PICK at \in Nat : at = Place(c, n)
  BY <1>1, Zenon
<1>3. Readable(d) /\ TablesValid
  BY ReadablePointwise, Zenon DEF IInv
<1> QED
  BY <1>1, <1>2, <1>3, ReadableKept, Zenon

\* save_chunk_data.
LEMMA SaveStep ==
  ASSUME IInv, NEW c \in Chunks, NEW n \in Sizes, SaveChunkData(c, n)
  PROVE  IInv'
<1> USE DEF IInv, TablesValid
<1> DEFINE at == Place(c, n)
           k == SectorCount(n)
<1>1. /\ at \in Nat /\ at >= FIRST_DATA_SECTOR /\ n \in Nat \ {0} /\ k \in Nat /\ k > 0
      /\ \A d \in Chunks \ {c} : Exists(Off, d) => Apart(Off, Size, d, at, k)
  BY SaveFacts, Zenon
<1>2. /\ \A w \in file' : w[1] \in Nat \ 0..2 /\ w[2] \in Chunks /\ w[3] \in Nat
      /\ Without(at, k) \subseteq file'
      /\ \A i \in 0..(k - 1) : <<at + i, c, saves[c] + 1, i, n>> \in file'
      /\ fileEnd' = Larger(fileEnd, at + k) /\ saves' \in [Chunks -> 0..MaxSaves]
      /\ saves[c] + 1 \in 0..MaxSaves /\ saves[c] + 1 # 0
  BY WrittenFacts, Zenon DEF SaveChunkData
<1>3. /\ Off \in Entry /\ Size \in Entry /\ FileSectors \in Nat /\ ValidTable(Off, Size, FileSectors)
      /\ diskOff \in Entry /\ diskSize \in Entry /\ off \in Entry /\ size \in Entry
      /\ fileEnd \in Nat /\ fileSectors \in Nat
      /\ saved \in [Chunks -> 0..MaxSaves] /\ spoiled \in [Chunks -> BOOLEAN]
  BY TableNow, Zenon DEF TypeOK
<1>4. /\ saved' = [saved EXCEPT ![c] = saves[c] + 1] /\ spoiled' = [spoiled EXCEPT ![c] = FALSE]
      /\ UNCHANGED <<client, read, faults, open, count>> /\ client[c] # "reading"
  BY Zenon DEF SaveChunkData, MaySave, handleVars
<1>5. Off' = [Off EXCEPT ![c] = at] /\ Size' = [Size EXCEPT ![c] = n]
  BY <1>4, Zenon DEF SaveChunkData, Off, Size
<1>6. Off' \in Entry /\ Size' \in Entry
  BY <1>1, <1>3, <1>5, Zenon DEF Entry
<1>7. fileEnd' \in Nat /\ fileEnd' >= fileEnd /\ fileEnd' >= at + k /\ Complete'
  <2>1. at + k \in Nat /\ at + k >= FIRST_DATA_SECTOR
    BY <1>1 DEF FIRST_DATA_SECTOR
  <2> QED
    BY <1>2, <1>3, <2>1, LargerFacts DEF Complete, FIRST_DATA_SECTOR
<1>8. \A t \in Nat : FileSectors <= t /\ at + k <= t => ValidTable(Off', Size', t)
  <2>1. \A o, m \in Entry, s, t, x \in Nat :
          /\ s <= t /\ ValidTable(o, m, s) /\ x >= FIRST_DATA_SECTOR /\ x + SectorCount(n) <= t
          /\ \A d \in Chunks \ {c} : Exists(o, d) => Apart(o, m, d, x, SectorCount(n))
          => ValidTable([o EXCEPT ![c] = x], [m EXCEPT ![c] = n], t)
    BY <1>1, ValidPlaced, ZenonT(30)
  <2> QED
    BY <1>1, <1>3, <1>5, <2>1, Zenon
<1>9. /\ open => /\ off' = Off' /\ size' = Size' /\ diskOff' = diskOff /\ diskSize' = diskSize
                 /\ fileSectors' = Larger(fileSectors, at + k) /\ headerDirty' = TRUE
      /\ ~open => /\ diskOff' = Off' /\ diskSize' = Size'
                  /\ off' = off /\ size' = size /\ fileSectors' = fileSectors /\ headerDirty' = headerDirty
  BY <1>4, Zenon DEF SaveChunkData, handleVars, Off, Size
<1> HIDE DEF at, k
<1>10. TypeOK'
  <2>1. saved' \in [Chunks -> 0..MaxSaves] /\ spoiled' \in [Chunks -> BOOLEAN]
    BY <1>2, <1>3, <1>4, Zenon
  <2>2. fileSectors' \in Nat
    <3>1. at + k \in Nat
      BY <1>1
    <3> QED
      BY <1>3, <1>9, <3>1, LargerFacts, Zenon
  <2>3. off' \in Entry /\ size' \in Entry /\ diskOff' \in Entry /\ diskSize' \in Entry
    BY <1>3, <1>6, <1>9, Zenon
  <2>4. headerDirty' \in BOOLEAN
    BY <1>9, Zenon DEF TypeOK
  <2> QED
    BY <1>2, <1>4, <1>7, <2>1, <2>2, <2>3, <2>4, Zenon DEF TypeOK
<1>11. TableValid'
  <2> SUFFICES ASSUME open PROVE ValidTable(off', size', fileSectors') /\ fileSectors' <= fileEnd'
    BY <1>4, Zenon DEF TableValid
  <2>1. FileSectors = fileSectors /\ fileSectors <= fileEnd
    BY Zenon DEF FileSectors, TableValid
  <2>2. fileSectors' \in Nat /\ fileSectors' >= fileSectors /\ fileSectors' >= at + k
    <3>1. at + k \in Nat
      BY <1>1
    <3> QED
      BY <1>3, <1>9, <3>1, LargerFacts, Zenon
  <2>3. fileSectors' <= fileEnd'
    BY <1>1, <1>3, <1>7, <1>9, <2>1 DEF Larger
  <2> QED
    BY <1>8, <1>9, <2>1, <2>2, <2>3, Zenon
<1>12. ReopenValid'
  <2>1. CASE open
    BY <1>7, <1>9, <2>1, DiskNow, Zenon DEF ReopenValid
  <2>2. CASE ~open
    <3>1. FileSectors <= fileEnd'
      BY <1>1, <1>3, <1>7, <2>2 DEF FileSectors, FIRST_DATA_SECTOR
    <3> QED
      BY <1>7, <1>8, <1>9, <2>2, <3>1, Zenon DEF ReopenValid
  <2> QED
    BY <2>1, <2>2, Zenon
<1>13. TablesMatch'
  BY <1>4, <1>7, <1>9, Zenon DEF TablesMatch
<1>14. LastSaveReadable'
  <2>1. /\ Off'[c] = at /\ Size'[c] = n /\ saved'[c] = saves[c] + 1
    BY <1>3, <1>4, <1>5, Zenon DEF Entry
  <2>2. Readable(c)'
    <3>1. Exists(Off', c)
      BY <1>1, <2>1 DEF Exists, FIRST_DATA_SECTOR
    <3>2. Decodes(Off, Size, c, c, saved[c])'
      BY <1>2, <2>1, Zenon DEF Decodes, k
    <3> QED
      BY <1>2, <1>4, <2>1, <3>1, <3>2, Zenon DEF Readable
  <2>3. ASSUME NEW d \in Chunks \ {c} PROVE Readable(d)'
    <3>1. Off'[d] = Off[d] /\ Size'[d] = Size[d] /\ saved'[d] = saved[d] /\ spoiled'[d] = spoiled[d]
      BY <1>3, <1>4, <1>5, Zenon DEF Entry
    <3> QED
      BY <1>2, <1>4, <3>1, OthersReadable, Zenon DEF at, k
  <2> QED
    BY <2>2, <2>3, ReadableNext, Zenon
<1>15. CountMatches'
  BY <1>4, Zenon DEF CountMatches
<1> QED
  BY <1>10, <1>11, <1>12, <1>13, <1>14, <1>15, Zenon

\* save_chunk_data opened the region and cannot write its header.
LEMMA SaveHeaderStep ==
  ASSUME IInv, NEW c \in Chunks, NEW n \in Sizes, SaveHeaderFails(c, n)
  PROVE  IInv'
<1> USE DEF IInv, TablesValid
<1> DEFINE at == Place(c, n)
           k == SectorCount(n)
<1>1. /\ at \in Nat /\ at >= FIRST_DATA_SECTOR /\ n \in Nat \ {0} /\ k \in Nat /\ k > 0
      /\ \A d \in Chunks \ {c} : Exists(Off, d) => Apart(Off, Size, d, at, k)
  BY SaveFacts
<1>2. /\ \A w \in file' : w[1] \in Nat \ 0..2 /\ w[2] \in Chunks /\ w[3] \in Nat
      /\ Without(at, k) \subseteq file'
      /\ fileEnd' = Larger(fileEnd, at + k) /\ saves' \in [Chunks -> 0..MaxSaves]
  BY WrittenFacts, Zenon DEF SaveHeaderFails
<1>3. /\ Off \in Entry /\ Size \in Entry /\ FileSectors \in Nat /\ ValidTable(Off, Size, FileSectors)
      /\ diskOff \in Entry /\ diskSize \in Entry
      /\ fileEnd \in Nat /\ spoiled \in [Chunks -> BOOLEAN] /\ faults \in Nat
  BY TableNow, Zenon DEF TypeOK
<1>4. /\ ~open /\ open' /\ ~headerDirty' /\ headerDirty' = FALSE /\ faults' = faults + 1
      /\ spoiled' = [spoiled EXCEPT ![c] = TRUE]
      /\ off' = [Off EXCEPT ![c] = at] /\ size' = [Size EXCEPT ![c] = n]
      /\ Off = diskOff /\ Size = diskSize
      /\ fileSectors' = Larger(FileSectors, at + k)
      /\ UNCHANGED <<client, read, count, saved, diskOff, diskSize>> /\ Off' = off' /\ Size' = size'
  BY Zenon DEF SaveHeaderFails, Opened, Off, Size
<1>5. off' \in Entry /\ size' \in Entry
  BY <1>1, <1>3, <1>4, Zenon DEF Entry
<1>6. fileEnd' \in Nat /\ fileEnd' >= fileEnd /\ fileEnd' >= at + k /\ Complete'
  <2>1. at + k \in Nat /\ at + k >= FIRST_DATA_SECTOR
    BY <1>1 DEF FIRST_DATA_SECTOR
  <2> QED
    BY <1>2, <1>3, <2>1, LargerFacts DEF Complete, FIRST_DATA_SECTOR
<1>7. fileSectors' \in Nat /\ fileSectors' >= FileSectors /\ fileSectors' >= at + k
  <2>1. at + k \in Nat
    BY <1>1
  <2> QED
    BY <1>3, <1>4, <2>1, LargerFacts, Zenon
<1>8. ValidTable(off', size', fileSectors')
  <2>1. \A o, m \in Entry, s, t, x \in Nat :
          /\ s <= t /\ ValidTable(o, m, s) /\ x >= FIRST_DATA_SECTOR /\ x + SectorCount(n) <= t
          /\ \A d \in Chunks \ {c} : Exists(o, d) => Apart(o, m, d, x, SectorCount(n))
          => ValidTable([o EXCEPT ![c] = x], [m EXCEPT ![c] = n], t)
    BY <1>1, ValidPlaced
  <2> QED
    BY <1>1, <1>3, <1>4, <1>7, <2>1, Zenon
<1> HIDE DEF at, k
<1>9. TypeOK'
  <2>1. spoiled' \in [Chunks -> BOOLEAN] /\ faults' \in Nat
    BY <1>3, <1>4
  <2> QED
    BY <1>2, <1>4, <1>5, <1>6, <1>7, <2>1, Zenon DEF TypeOK
<1>10. TableValid'
  <2>1. FileSectors <= Larger(fileEnd, FIRST_DATA_SECTOR)
    BY TableNow, Zenon
  <2>2. fileSectors' <= fileEnd'
    BY <1>1, <1>2, <1>3, <1>4, <2>1 DEF Larger, FIRST_DATA_SECTOR
  <2> QED
    BY <1>8, <2>2, Zenon DEF TableValid
<1>11. ReopenValid'
  BY <1>4, <1>6, DiskNow, Zenon DEF ReopenValid
<1>12. TablesMatch'
  <2>1. \A d \in Chunks \ {c} : off'[d] = diskOff[d] /\ size'[d] = diskSize[d]
    BY <1>3, <1>4, Zenon DEF Entry
  <2>2. spoiled'[c]
    BY <1>3, <1>4, Zenon
  <2> QED
    BY <1>4, <1>6, <2>1, <2>2, Zenon DEF TablesMatch
<1>13. LastSaveReadable'
  <2>1. Readable(c)'
    <3>1. spoiled'[c]
      BY <1>3, <1>4, Zenon
    <3> QED
      BY <3>1, Zenon DEF Readable
  <2>2. ASSUME NEW d \in Chunks \ {c} PROVE Readable(d)'
    <3>1. Off'[d] = Off[d] /\ Size'[d] = Size[d] /\ spoiled'[d] = spoiled[d]
      BY <1>3, <1>4, Zenon DEF Entry
    <3> QED
      BY <1>2, <1>4, <3>1, OthersReadable, Zenon DEF at, k
  <2> QED
    BY <2>1, <2>2, ReadableNext
<1>14. CountMatches'
  BY <1>4, Zenon DEF CountMatches
<1> QED
  BY <1>9, <1>10, <1>11, <1>12, <1>13, <1>14

\* Sectors apart from a write are apart from the part of it that came through.
LEMMA ApartLess ==
  ASSUME NEW o, NEW s, NEW d, NEW at \in Nat, NEW m \in Nat, NEW k \in Nat, k <= m,
         o[d] \in Nat, End(o, s, d) \in Nat, Apart(o, s, d, at, m)
  PROVE  Apart(o, s, d, at, k)
BY DEF Apart

\* write_chunk_data fails part of the way.
LEMMA SaveWriteStep ==
  ASSUME IInv, NEW c \in Chunks, NEW n \in Sizes, NEW k \in 0..SectorCount(n),
         SaveWriteFails(c, n, k)
  PROVE  IInv'
<1> USE DEF IInv, TablesValid
<1> DEFINE at == Place(c, n)
<1>1. /\ at \in Nat /\ at >= FIRST_DATA_SECTOR /\ SectorCount(n) \in Nat /\ SectorCount(n) > 0
      /\ \A d \in Chunks \ {c} : Exists(Off, d) => Apart(Off, Size, d, at, SectorCount(n))
      /\ Exists(Off, c) => Apart(Off, Size, c, at, SectorCount(n)) \/ at = Off[c]
  BY SaveFacts, Zenon
<1>2. k \in Nat /\ k <= SectorCount(n) /\ at + k \in Nat
  BY <1>1
<1>3. /\ Off \in Entry /\ Size \in Entry /\ FileSectors \in Nat /\ ValidTable(Off, Size, FileSectors)
      /\ FileSectors <= Larger(fileEnd, FIRST_DATA_SECTOR)
      /\ fileEnd \in Nat /\ spoiled \in [Chunks -> BOOLEAN] /\ faults \in Nat
      /\ saves \in [Chunks -> 0..MaxSaves]
      /\ \A w \in file : w[1] \in Nat \ 0..2 /\ w[2] \in Chunks /\ w[3] \in Nat
  BY TableNow, Zenon DEF TypeOK
<1>4. /\ file' = Without(at, k) /\ faults' = faults + 1 /\ open' = TRUE
      /\ fileEnd' = Larger(Larger(fileEnd, FIRST_DATA_SECTOR), IF k > 0 THEN at + k ELSE 0)
      /\ saves' = [saves EXCEPT ![c] = saves[c] + 1] /\ saves[c] < MaxSaves
      /\ spoiled' = [spoiled EXCEPT ![c] = @ \/ (k > 0 /\ Exists(Off, c) /\ at = Off[c])]
      /\ off' = Off /\ size' = Size /\ Off' = Off /\ Size' = Size
      /\ headerDirty' = (open /\ headerDirty)
      /\ fileSectors' \in {FileSectors, IF k = SectorCount(n) THEN Larger(FileSectors, at + k)
                                                               ELSE FileSectors}
      /\ UNCHANGED <<client, read, count, saved, diskOff, diskSize>>
  BY Zenon DEF SaveWriteFails, MaySave, Opened, Off, Size
<1> HIDE DEF at
<1>5. /\ fileEnd' \in Nat /\ fileEnd' >= fileEnd /\ Complete'
      /\ fileEnd' >= Larger(fileEnd, FIRST_DATA_SECTOR) /\ (k > 0 => fileEnd' >= at + k)
  BY <1>1, <1>2, <1>3, <1>4 DEF Larger, FIRST_DATA_SECTOR, Complete
<1>6. fileSectors' \in Nat /\ fileSectors' >= FileSectors /\ fileSectors' <= fileEnd'
  <2>1. Larger(fileEnd, FIRST_DATA_SECTOR) \in Nat
    BY <1>3, Zenon DEF Larger, FIRST_DATA_SECTOR
  <2>2. CASE fileSectors' = FileSectors
    BY <1>3, <1>5, <2>1, <2>2
  <2>3. CASE fileSectors' = Larger(FileSectors, at + k) /\ k = SectorCount(n)
    BY <1>1, <1>2, <1>3, <1>5, <2>1, <2>3 DEF Larger
  <2> QED
    BY <1>4, <2>2, <2>3, Zenon
<1>7. spoiled' \in [Chunks -> BOOLEAN] /\ \A d \in Chunks : spoiled[d] => spoiled'[d]
  <2>1. (k > 0 /\ Exists(Off, c) /\ at = Off[c]) \in BOOLEAN
    OBVIOUS
  <2> QED
    BY <1>3, <1>4, <2>1, Zenon
<1>8. file' \subseteq file
  BY <1>4, ZenonT(30) DEF Without
<1>9. TypeOK'
  <2>1. saves' \in [Chunks -> 0..MaxSaves] /\ faults' \in Nat
    BY <1>3, <1>4, BoundsAssumption
  <2>2. headerDirty' \in BOOLEAN
    BY <1>4, Zenon DEF TypeOK
  <2> QED
    BY <1>3, <1>4, <1>5, <1>6, <1>7, <1>8, <2>1, <2>2, Zenon DEF TypeOK
<1>10. TableValid'
  BY <1>3, <1>4, <1>6, ValidGrows, Zenon DEF TableValid
<1>11. ReopenValid'
  BY <1>4, <1>5, DiskNow, Zenon DEF ReopenValid
<1>12. TablesMatch'
  BY <1>4, <1>5, <1>7, Zenon DEF TablesMatch, Off, Size
<1>13. LastSaveReadable'
  <2>1. CASE k = 0
    <3>1. file \subseteq file'
      BY <1>1, <1>3, <1>4, <2>1 DEF Without
    <3> QED
      BY <1>4, <1>7, <3>1, ReadablePointwise, ReadableStays, ReadableNext, Zenon
  <2>2. CASE k > 0
    <3>1. ASSUME NEW d \in Chunks PROVE Readable(d)'
      <4>1. Exists(Off, d) /\ ~spoiled'[d] => Apart(Off, Size, d, at, SectorCount(n))
        <5>1. CASE d # c
          BY <1>1, <5>1, Zenon
        <5>2. CASE d = c
          <6>1. spoiled'[c] = (spoiled[c] \/ (k > 0 /\ Exists(Off, c) /\ at = Off[c]))
            BY <1>3, <1>4, Zenon
          <6> QED
            BY <1>1, <2>2, <5>2, <6>1, Zenon
        <5> QED BY <5>1, <5>2, Zenon
      <4>2. Exists(Off, d) /\ ~spoiled'[d] => Apart(Off, Size, d, at, k)
        <5>1. Off[d] \in Nat /\ End(Off, Size, d) \in Nat
          BY <1>3, EndType, Zenon
        <5>2. at \in Nat /\ SectorCount(n) \in Nat /\ k \in Nat /\ k <= SectorCount(n)
          BY <1>1, <1>2, Zenon
        <5> QED
          BY <4>1, <5>1, <5>2, ApartLess, Zenon
      <4>3. PICK x \in Nat : x = at
        BY <1>1, Zenon
      <4>4. Readable(d)
        BY ReadablePointwise, Zenon
      <4> QED
        BY <1>2, <1>4, <1>7, <4>2, <4>3, <4>4, ReadableKept, Zenon
    <3> QED
      BY <3>1, ReadableNext, Zenon
  <2> QED
    BY <1>2, <2>1, <2>2
<1>14. CountMatches'
  BY <1>4, Zenon DEF CountMatches
<1> QED
  BY <1>9, <1>10, <1>11, <1>12, <1>13, <1>14, Zenon

\* create_region leaves a short file: no entry is in it, and nothing was saved.
LEMMA CreateFailsStep ==
  ASSUME IInv, NEW sectors \in 1 .. (FIRST_DATA_SECTOR - 1), CreateFails(sectors)
  PROVE  IInv'
<1> USE DEF IInv, TablesValid
<1>1. /\ ~open /\ fileEnd = 0 /\ fileEnd' = sectors /\ faults' = faults + 1
      /\ UNCHANGED <<client, read, handleVars, diskOff, diskSize, file, saves, saved, spoiled>>
  BY Zenon DEF CreateFails
<1>2. ~Complete /\ ~Complete' /\ fileEnd' \in Nat
  BY <1>1 DEF Complete, FIRST_DATA_SECTOR
<1>3. faults' \in Nat
  BY <1>1 DEF TypeOK
<1>4. TypeOK'
  BY <1>1, <1>2, <1>3, Zenon DEF TypeOK, handleVars
<1>5. TableValid' /\ ReopenValid' /\ TablesMatch'
  BY <1>1, <1>2, Zenon DEF TableValid, ReopenValid, TablesMatch, handleVars
<1>6. LastSaveReadable'
  <2>1. \A d \in Chunks : Readable(d)'
    BY <1>1, ReadablePointwise, ReadableStays, Zenon DEF handleVars, Off, Size
  <2> QED
    BY <2>1, ReadableNext, Zenon
<1>7. CountMatches'
  BY <1>1, Zenon DEF CountMatches, handleVars
<1> QED
  BY <1>4, <1>5, <1>6, <1>7, Zenon

\* Every step keeps the invariant.
LEMMA NextHolds == IInv /\ [Next]_vars => IInv'
<1> SUFFICES ASSUME IInv, [Next]_vars PROVE IInv'
  OBVIOUS
<1>1. CASE UNCHANGED vars
  <2>1. TablesValid' /\ CountMatches'
    BY <1>1, Zenon DEF IInv, TablesValid, TypeOK, TableValid, ReopenValid, TablesMatch, CountMatches,
                Complete, vars, handleVars, diskVars, ghostVars
  <2>2. LastSaveReadable'
    BY <1>1, Zenon DEF IInv, LastSaveReadable, Off, Size, Decodes, vars, handleVars, diskVars, ghostVars
  <2> QED
    BY <2>1, <2>2, Zenon DEF IInv
<1>2. ASSUME NEW c \in Chunks, AcquireChunk(c) PROVE IInv'
  BY <1>2, AcquireStep, Zenon
<1>3. ASSUME NEW c \in Chunks, LoadChunk(c) \/ LoadDecodes(c) \/ LoadFails(c) PROVE IInv'
  BY <1>3, LoadStep, Zenon
<1>4. ASSUME NEW c \in Chunks, LoadClears(c) PROVE IInv'
  BY <1>4, ClearStep
<1>5. ASSUME NEW c \in Chunks, ReleaseChunk(c) \/ ReleaseHeaderFails(c) PROVE IInv'
  BY <1>5, ReleaseStep, Zenon
<1>6. ASSUME NEW c \in Chunks, NEW n \in Sizes, SaveChunkData(c, n) PROVE IInv'
  BY <1>6, SaveStep, Zenon
<1>7. ASSUME NEW c \in Chunks, NEW n \in Sizes, SaveHeaderFails(c, n) PROVE IInv'
  BY <1>7, SaveHeaderStep, Zenon
<1>8. ASSUME NEW c \in Chunks, NEW n \in Sizes, NEW k \in 0..SectorCount(n), SaveWriteFails(c, n, k)
      PROVE  IInv'
  BY <1>8, SaveWriteStep, Zenon
<1>9. ASSUME FlushAll PROVE IInv'
  BY <1>9, FlushStep, Zenon
<1>10. ASSUME CloseAll \/ CloseAborts PROVE IInv'
  BY <1>10, EndStep, Zenon
<1>11. ASSUME NEW w \in file, SectorLost(w[1]) PROVE IInv'
  BY <1>11, LostStep, Zenon
<1>12. ASSUME NEW sectors \in 1 .. (FIRST_DATA_SECTOR - 1), CreateFails(sectors) PROVE IInv'
  BY <1>12, CreateFailsStep, Zenon
<1> QED
  BY <1>1, <1>2, <1>3, <1>4, <1>5, <1>6, <1>7, <1>8, <1>9, <1>10, <1>11, <1>12, Zenon DEF Next

\* Whatever saves, failures, crashes and damaged sectors come: the tables in memory and
\* in the file are valid, loads decode the last save of every chunk no fault reached,
\* and the handle counts its clients.
THEOREM Invariance == Spec => []IInv
<1>1. Init => IInv
  BY InitHolds, Zenon
<1>2. IInv /\ [Next]_vars => IInv'
  BY NextHolds, Zenon
<1> QED
  BY <1>1, <1>2, PTL DEF Spec

\* validate_region_entries never rejects a region that this code wrote.
THEOREM TablesStayValid == Spec => []TablesValid
<1>1. IInv => TablesValid
  BY Zenon DEF IInv
<1> QED
  BY <1>1, Invariance, PTL

\* The last save of a chunk that returned Ok is what the next load decodes.
THEOREM SavesStayReadable == Spec => []LastSaveReadable
<1>1. IInv => LastSaveReadable
  BY Zenon DEF IInv
<1> QED
  BY <1>1, Invariance, PTL

\* loaded_chunk_count is the number of clients.
THEOREM CountExact == Spec => []CountMatches
<1>1. IInv => CountMatches
  BY Zenon DEF IInv
<1> QED
  BY <1>1, Invariance, PTL

\* No load discards a good payload.
THEOREM GoodDataKept == Spec => OnlySpoiledCleared
<1> DEFINE Kept == \A c \in Chunks : Exists(Off, c) /\ ~Exists(Off', c) => spoiled'[c]
<1>1. IInv /\ [Next]_vars => [Kept]_vars
  <2> SUFFICES ASSUME IInv, Next PROVE Kept
    OBVIOUS
  <2> USE DEF IInv, TablesValid
  <2>1. /\ off \in Entry /\ diskOff \in Entry /\ spoiled \in [Chunks -> BOOLEAN]
    BY Zenon DEF TypeOK
  <2>2. ASSUME NEW c \in Chunks, AcquireChunk(c) PROVE Off' = Off
    BY <2>2, Zenon DEF AcquireChunk, Opened, Off
  <2>3. ASSUME NEW c \in Chunks, LoadChunk(c) \/ LoadDecodes(c) \/ LoadFails(c) PROVE Off' = Off
    BY <2>3 DEF LoadChunk, LoadDecodes, LoadFails, handleVars, diskVars, Off
  <2>4. ASSUME NEW c \in Chunks, LoadClears(c) PROVE Kept
    <3>1. spoiled[c] /\ spoiled' = spoiled /\ open /\ open'
      BY <2>4, Zenon DEF LoadClears, EntryUnchanged, LastSaveReadable
    <3>2. \A d \in Chunks \ {c} : off'[d] = off[d]
      BY <2>1, <2>4, Zenon DEF LoadClears, Entry
    <3> QED
      BY <3>1, <3>2, Zenon DEF Off, Exists
  <2>5. ASSUME NEW c \in Chunks, ReleaseChunk(c) \/ ReleaseHeaderFails(c) PROVE Kept
    <3>1. open
      BY <2>5, Zenon DEF ReleaseChunk, ReleaseHeaderFails, MayRelease, CountMatches
    <3>2. \A d \in Chunks : diskOff[d] = off[d] \/ spoiled'[d] \/ (headerDirty /\ diskOff' = off) \/ Off' = Off
      BY <2>1, <2>5, <3>1, Zenon DEF ReleaseChunk, ReleaseHeaderFails, HeaderLost, Closed,
         WriteHeader, TablesMatch, ghostVars, Off
    <3>3. (open' => Off' = off') /\ (~open' => Off' = diskOff')
      BY Zenon DEF Off
    <3>4. ~open' => diskOff' \in {off, diskOff}
      BY <2>5, <3>1, Zenon DEF ReleaseChunk, ReleaseHeaderFails, HeaderLost, Closed, WriteHeader
    <3>5. open' => off' = off
      BY <2>5, <3>1, Zenon DEF ReleaseChunk, ReleaseHeaderFails, Closed
    <3> QED
      BY <3>1, <3>2, <3>3, <3>4, <3>5, Zenon DEF Off, Exists
  <2>6. ASSUME NEW c \in Chunks, NEW n \in Sizes, SaveChunkData(c, n) \/ SaveHeaderFails(c, n) PROVE Kept
    <3>1. Place(c, n) # 0
      <4>1. Place(c, n) \in Nat /\ Place(c, n) >= FIRST_DATA_SECTOR
        BY SaveFacts, ZenonT(30)
      <4> QED
        BY <4>1, SMTT(30) DEF FIRST_DATA_SECTOR
    <3>2. Off' = [Off EXCEPT ![c] = Place(c, n)]
      BY <2>6 DEF SaveChunkData, SaveHeaderFails, Opened, handleVars, Off
    <3>3. Off \in Entry
      BY TableNow, Zenon
    <3> QED
      BY <3>1, <3>2, <3>3, Zenon DEF Exists, Entry
  <2>7. ASSUME NEW c \in Chunks, NEW n \in Sizes, NEW k \in 0..SectorCount(n), SaveWriteFails(c, n, k)
        PROVE  Off' = Off
    BY <2>7, Zenon DEF SaveWriteFails, Opened, Off
  <2>8. ASSUME FlushAll PROVE Off' = Off
    BY <2>8, Zenon DEF FlushAll, Off
  <2>9. ASSUME CloseAll \/ CloseAborts PROVE Kept
    <3>1. open /\ ~open' /\ Off = off /\ Off' = diskOff'
      BY <2>9, Zenon DEF CloseAll, CloseAborts, Closed, Off
    <3>2. \/ diskOff' = off
          \/ (diskOff' = diskOff /\ (\A d \in Chunks : spoiled'[d] \/ off[d] = diskOff[d]))
      <4>1. CASE CloseAborts
        <5>1. /\ diskOff' = diskOff
              /\ \A d \in Chunks : spoiled'[d] = (spoiled[d] \/ off[d] # diskOff[d] \/ size[d] # diskSize[d])
          BY <4>1, Zenon DEF CloseAborts, HeaderLost
        <5>2. \A d \in Chunks : off[d] # diskOff[d] => spoiled'[d]
          BY <5>1, Zenon
        <5> QED
          BY <5>1, <5>2, Zenon
      <4>2. CASE CloseAll /\ headerDirty
        <5>1. diskOff' = off
          BY <4>2, Zenon DEF CloseAll, WriteHeader
        <5> QED
          BY <5>1, Zenon
      <4>3. CASE CloseAll /\ ~headerDirty
        <5>1. diskOff' = diskOff /\ spoiled' = spoiled
          BY <4>3, Zenon DEF CloseAll, ghostVars
        <5>2. \A d \in Chunks : spoiled[d] \/ off[d] = diskOff[d]
          BY <3>1, <4>3, Zenon DEF TablesMatch
        <5> QED
          BY <5>1, <5>2, Zenon
      <4> QED
        BY <2>9, <4>1, <4>2, <4>3, Zenon
    <3> QED
      BY <3>1, <3>2, Zenon DEF Exists
  <2>10. ASSUME NEW w \in file, SectorLost(w[1]) PROVE Off' = Off
    BY <2>10, Zenon DEF SectorLost, handleVars, Off
  <2>11. ASSUME NEW sectors \in 1 .. (FIRST_DATA_SECTOR - 1), CreateFails(sectors) PROVE Off' = Off
    BY <2>11, Zenon DEF CreateFails, handleVars, Off
  <2>12. Off' = Off => Kept
    BY Zenon DEF Exists
  <2> HIDE DEF Kept
  <2> QED
    BY <2>2, <2>3, <2>4, <2>5, <2>6, <2>7, <2>8, <2>9, <2>10, <2>11, <2>12, ZenonT(30) DEF Next
<1> QED
  BY <1>1, Invariance, PTL DEF Spec, OnlySpoiledCleared
=============================================================================
