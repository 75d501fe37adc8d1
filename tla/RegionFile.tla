----------------------------- MODULE RegionFile -----------------------------
(***************************************************************************)
(* One region file and its handle in RegionManager                         *)
(* (steel-core/src/chunk_saver/region_manager.rs and format.rs).           *)
(*                                                                         *)
(* The handle keeps the chunk table in memory; the table in the file is    *)
(* rewritten when the last chunk is released, on flush_all, on close_all   *)
(* and when a corrupt payload is discarded.  In between the two differ,    *)
(* while payloads are already written to the sectors that the table in     *)
(* memory says are free.                                                   *)
(*                                                                         *)
(* Every operation holds the write lock of `regions`, except between the   *)
(* read of a payload and its decoding, so an operation is one action and a *)
(* load is two.                                                            *)
(*                                                                         *)
(* An entry is an offset in sectors and a size in bytes; offset 0 means    *)
(* that the chunk is not stored.  The content of the file is a set of      *)
(* parts <<sector, chunk, save, part, size>>: the sector holds that part   *)
(* of the payload of that save.  A payload decodes if its sectors hold all *)
(* the parts of one save of exactly the entry's size.                      *)
(*                                                                         *)
(* Writing the table is one step: it happens or it fails.  A crash kills   *)
(* the process, so what was written stays.                                 *)
(***************************************************************************)
EXTENDS Naturals, FiniteSets

CONSTANTS
    Chunks,      \* the chunks of the region
    Sizes,       \* sizes of an encoded payload, in bytes
    SectorSize,  \* bytes per sector
    MaxSaves,    \* bound on the saves of one chunk
    MaxFaults    \* bound on failed writes, crashes and damaged sectors

ASSUME SectorSizeAssumption == SectorSize \in Nat \ {0}
ASSUME SizesAssumption == Sizes \subseteq Nat \ {0}
ASSUME BoundsAssumption == MaxSaves \in Nat /\ MaxFaults \in Nat
ASSUME ChunksAssumption == IsFiniteSet(Chunks)

VARIABLES
    client,      \* per chunk: what its holder is doing with storage
    open,        \* the handle is in `regions`
    off, size,   \* the chunk table of the handle
    count,       \* loaded_chunk_count
    headerDirty, \* header_dirty
    fileSectors, \* file_sectors of the handle
    diskOff, diskSize,  \* the chunk table in the file
    file,        \* the payload parts in the file
    read,        \* per chunk: the entry load_chunk read, and whether it decodes
    fileEnd,     \* length of the file in sectors, 0 if it does not exist; below
                 \* FIRST_DATA_SECTOR its header or chunk table is incomplete
    saves,       \* saves attempted per chunk
    saved,       \* history: the last save of the chunk that returned Ok
    spoiled,     \* history: a fault reached the stored data of the chunk
    faults       \* faults so far

handleVars == <<open, off, size, count, headerDirty, fileSectors>>
diskVars == <<diskOff, diskSize, file, fileEnd>>
ghostVars == <<saves, saved, spoiled, faults>>
vars == <<client, read, handleVars, diskVars, ghostVars>>

FIRST_DATA_SECTOR == 3

\* ChunkEntry::sector_count.
SectorCount(n) == (n + SectorSize - 1) \div SectorSize

NoRead == <<0, 0, FALSE>>

Larger(m, n) == IF m >= n THEN m ELSE n

\* create_region has made all its writes: header and chunk table are in the file.
Complete == fileEnd >= FIRST_DATA_SECTOR

\* The file exists but is not complete.
Short == fileEnd # 0 /\ ~Complete

-----------------------------------------------------------------------------
(* The table the next operation works on: that of the handle, or the one   *)
(* open_region reads (create_region starts with an empty one).             *)

Off == IF open THEN off ELSE diskOff
Size == IF open THEN size ELSE diskSize
FileSectors ==
    IF open THEN fileSectors
    ELSE IF fileEnd = 0 THEN FIRST_DATA_SECTOR ELSE fileEnd

Exists(o, c) == o[c] # 0

End(o, n, c) == o[c] + SectorCount(n[c])

\* The entry of c covers sector s.
Covers(o, n, c, s) == Exists(o, c) /\ o[c] <= s /\ s < End(o, n, c)

\* validate_region_entries accepts the table.
ValidTable(o, n, sectors) ==
    \A c \in Chunks :
        Exists(o, c) =>
            /\ o[c] >= FIRST_DATA_SECTOR
            /\ n[c] > 0
            /\ End(o, n, c) <= sectors
            /\ \A d \in Chunks \ {c} :
                  Exists(o, d) => End(o, n, c) <= o[d] \/ End(o, n, d) <= o[c]

\* Mutant: a gap one sector too short is taken.
FreeGapsTooShort(o, n, needed) ==
    {s \in {FIRST_DATA_SECTOR} \cup {End(o, n, c) : c \in {d \in Chunks : Exists(o, d)}} :
        /\ \E c \in Chunks : Exists(o, c) /\ o[c] + 1 >= s + needed
        /\ \A c \in Chunks : Exists(o, c) => End(o, n, c) <= s \/ o[c] + 1 >= s + needed}

\* The places find_free_sectors looks at: the first data sector and the end of
\* each allocation, if the next allocation leaves room for `needed` sectors.
FreeGaps(o, n, needed) ==
    {s \in {FIRST_DATA_SECTOR} \cup {End(o, n, c) : c \in {d \in Chunks : Exists(o, d)}} :
        /\ \E c \in Chunks : Exists(o, c) /\ o[c] >= s + needed
        /\ \A c \in Chunks : Exists(o, c) => End(o, n, c) <= s \/ o[c] >= s + needed}

\* Append after the last allocation and after the end of the file.
AppendSector(o, n, sectors) ==
    CHOOSE s \in {sectors, FIRST_DATA_SECTOR}
                    \cup {End(o, n, c) : c \in {d \in Chunks : Exists(o, d)}} :
        /\ s >= sectors /\ s >= FIRST_DATA_SECTOR
        /\ \A c \in Chunks : Exists(o, c) => End(o, n, c) <= s

FindFreeSectors(o, n, needed, sectors) ==
    LET gaps == FreeGaps(o, n, needed) IN
    IF gaps # {} THEN CHOOSE s \in gaps : \A g \in gaps : s <= g
                 ELSE AppendSector(o, n, sectors)

\* Mutant: the old place is reused whatever its size.
PlaceReusingAlways(c, n) ==
    IF Exists(Off, c) THEN Off[c]
    ELSE FindFreeSectors(Off, Size, SectorCount(n), FileSectors)

\* save_chunk_data reuses the old place of the chunk if the payload fits.
Place(c, n) ==
    IF Exists(Off, c) /\ SectorCount(Size[c]) >= SectorCount(n) THEN Off[c]
    ELSE FindFreeSectors(Off, Size, SectorCount(n), FileSectors)

\* decode_chunk of the payload at an entry: it is save v of chunk d.
Decodes(o, n, c, d, v) ==
    \A i \in 0..(SectorCount(n[c]) - 1) : <<o[c] + i, d, v, i, n[c]>> \in file

Decodable(c) == \E d \in Chunks, v \in 1..MaxSaves : Decodes(off, size, c, d, v)

\* What is in the file once the k sectors from `at` on are overwritten.
Without(at, k) == {w \in file : w[1] < at \/ w[1] >= at + k}

Payload(c, v, n, at) == {<<at + i, c, v, i, n>> : i \in 0..(SectorCount(n) - 1)}

-----------------------------------------------------------------------------
Init ==
    /\ client = [c \in Chunks |-> "none"]
    /\ read = [c \in Chunks |-> NoRead]
    /\ open = FALSE
    /\ off = [c \in Chunks |-> 0] /\ size = [c \in Chunks |-> 0]
    /\ count = 0 /\ headerDirty = FALSE /\ fileSectors = 0
    /\ diskOff = [c \in Chunks |-> 0] /\ diskSize = [c \in Chunks |-> 0]
    /\ file = {} /\ fileEnd = 0
    /\ saves = [c \in Chunks |-> 0] /\ saved = [c \in Chunks |-> 0]
    /\ spoiled = [c \in Chunks |-> FALSE] /\ faults = 0

\* The region is open or open_region succeeds: the file can be created, or its
\* header and table are complete.  Of a short one read_exact fails.
MayOpen == open \/ ~Short

\* The handle is in `regions` after the step: open_region reads the table of the
\* file, create_region makes a file with an empty one.
Opened ==
    /\ MayOpen
    /\ open' = TRUE
    /\ headerDirty' = (open /\ headerDirty)
    /\ UNCHANGED <<diskOff, diskSize>>

\* Removed from `regions`.  The fields of a handle that is gone are reset.
Closed ==
    /\ open' = FALSE /\ count' = 0 /\ headerDirty' = FALSE /\ fileSectors' = 0
    /\ off' = [c \in Chunks |-> 0] /\ size' = [c \in Chunks |-> 0]

WriteHeader == diskOff' = off /\ diskSize' = size

\* The table of the handle does not reach the file: the chunks whose entry
\* changed since it was last written keep their old entry.
HeaderLost ==
    /\ faults < MaxFaults
    /\ faults' = faults + 1
    /\ spoiled' = [c \in Chunks |->
                     spoiled[c] \/ off[c] # diskOff[c] \/ size[c] # diskSize[c]]
    /\ UNCHANGED <<diskOff, diskSize>>

\* create_region fails, or the process dies in it, after it made the file, and
\* maybe wrote its header, but not the chunk table.  Every operation that opens
\* a region may come here; the lock is held, so nothing else sees it.
CreateFails(sectors) ==
    /\ ~open /\ fileEnd = 0 /\ faults < MaxFaults
    /\ faults' = faults + 1
    /\ fileEnd' = sectors
    /\ UNCHANGED <<client, read, handleVars, diskOff, diskSize, file, saves, saved, spoiled>>

-----------------------------------------------------------------------------
(* acquire_chunk, load_chunk, release_chunk.                               *)

\* Mutant: the reference is not counted.
AcquireUncounted(c) ==
    /\ client[c] = "none"
    /\ Opened
    /\ off' = Off /\ size' = Size
    /\ UNCHANGED count
    /\ fileSectors' = FileSectors
    /\ fileEnd' = Larger(fileEnd, FIRST_DATA_SECTOR)
    /\ client' = [client EXCEPT ![c] = IF Exists(Off, c) THEN "acquired" ELSE "loaded"]
    /\ UNCHANGED <<read, file, ghostVars>>

AcquireChunk(c) ==
    /\ client[c] = "none"
    /\ Opened
    /\ off' = Off /\ size' = Size
    /\ count' = count + 1
    /\ fileSectors' = FileSectors
    /\ fileEnd' = Larger(fileEnd, FIRST_DATA_SECTOR)
    /\ client' = [client EXCEPT ![c] = IF Exists(Off, c) THEN "acquired" ELSE "loaded"]
    /\ UNCHANGED <<read, file, ghostVars>>

\* load_chunk, under the lock: look the entry up and read its sectors.
LoadChunk(c) ==
    /\ client[c] = "acquired"
    /\ IF open /\ Exists(off, c)
       THEN /\ client' = [client EXCEPT ![c] = "reading"]
            /\ read' = [read EXCEPT ![c] = <<off[c], size[c], Decodable(c)>>]
       ELSE /\ client' = [client EXCEPT ![c] = "loaded"]
            /\ UNCHANGED read
    /\ UNCHANGED <<handleVars, diskVars, ghostVars>>

LoadDecodes(c) ==
    /\ client[c] = "reading" /\ read[c][3]
    /\ client' = [client EXCEPT ![c] = "loaded"]
    /\ read' = [read EXCEPT ![c] = NoRead]
    /\ UNCHANGED <<handleVars, diskVars, ghostVars>>

\* clear_corrupt_chunk_if_unchanged may clear the entry.
EntryUnchanged(c) == open /\ off[c] = read[c][1] /\ size[c] = read[c][2]

\* Mutant: the entry is cleared whether or not the payload decoded.
LoadClearsAlways(c) ==
    /\ client[c] = "reading"
    /\ EntryUnchanged(c)
    /\ client' = [client EXCEPT ![c] = "loaded"]
    /\ off' = [off EXCEPT ![c] = 0] /\ size' = [size EXCEPT ![c] = 0]
    /\ diskOff' = off' /\ diskSize' = size'
    /\ headerDirty' = FALSE
    /\ saved' = [saved EXCEPT ![c] = 0]
    /\ read' = [read EXCEPT ![c] = NoRead]
    /\ UNCHANGED <<open, count, fileSectors, file, fileEnd, saves, spoiled, faults>>

\* The payload is corrupt: its entry is cleared and the chunk is generated anew.
LoadClears(c) ==
    /\ client[c] = "reading" /\ ~read[c][3]
    /\ EntryUnchanged(c)
    /\ client' = [client EXCEPT ![c] = "loaded"]
    /\ off' = [off EXCEPT ![c] = 0] /\ size' = [size EXCEPT ![c] = 0]
    /\ diskOff' = off' /\ diskSize' = size'
    /\ headerDirty' = FALSE
    /\ saved' = [saved EXCEPT ![c] = 0]
    /\ read' = [read EXCEPT ![c] = NoRead]
    /\ UNCHANGED <<open, count, fileSectors, file, fileEnd, saves, spoiled, faults>>

\* The payload is corrupt but its entry was superseded, or clearing it failed
\* and the entry was put back: load_chunk fails and the holder gives up.
LoadFails(c) ==
    /\ client[c] = "reading" /\ ~read[c][3]
    /\ ~EntryUnchanged(c) \/ faults < MaxFaults
    /\ faults' = IF EntryUnchanged(c) THEN faults + 1 ELSE faults
    /\ client' = [client EXCEPT ![c] = "failed"]
    /\ read' = [read EXCEPT ![c] = NoRead]
    /\ UNCHANGED <<handleVars, diskVars, saves, saved, spoiled>>

\* The holder is dropped, or gives up after acquire_chunk.
MayRelease(c) == client[c] \in {"acquired", "loaded", "failed"}

\* Mutant: the last release closes the file without writing the header.
ReleaseForgettingHeader(c) ==
    /\ MayRelease(c)
    /\ client' = [client EXCEPT ![c] = "none"]
    /\ IF count <= 1
       THEN Closed
       ELSE count' = count - 1 /\ UNCHANGED <<open, off, size, headerDirty, fileSectors>>
    /\ UNCHANGED <<read, diskVars, ghostVars>>

\* release_chunk, with a header to write or none.
ReleaseChunk(c) ==
    /\ MayRelease(c)
    /\ client' = [client EXCEPT ![c] = "none"]
    /\ IF count <= 1
       THEN Closed /\ IF headerDirty THEN WriteHeader ELSE UNCHANGED <<diskOff, diskSize>>
       ELSE /\ count' = count - 1
            /\ UNCHANGED <<open, off, size, headerDirty, fileSectors, diskOff, diskSize>>
    /\ UNCHANGED <<read, file, fileEnd, ghostVars>>

\* release_chunk fails to write the header: the handle is gone all the same.
ReleaseHeaderFails(c) ==
    /\ MayRelease(c)
    /\ count <= 1 /\ open /\ headerDirty
    /\ client' = [client EXCEPT ![c] = "none"]
    /\ Closed /\ HeaderLost
    /\ UNCHANGED <<read, file, fileEnd, saves, saved>>

-----------------------------------------------------------------------------
(* save_chunk_data, after the payload is encoded.  ChunkMap saves a chunk   *)
(* that it has acquired; the function also serves one that nobody holds,   *)
(* and then opens and closes the region itself.                            *)

MaySave(c) == client[c] \in {"none", "loaded"} /\ saves[c] < MaxSaves /\ MayOpen

\* The payload is written and the entry updated, in the file and in memory.
WritePayload(c, n) ==
    LET at == Place(c, n)
        k == SectorCount(n)
    IN  /\ file' = Without(at, k) \cup Payload(c, saves[c] + 1, n, at)
        /\ fileEnd' = Larger(fileEnd, at + k)
        /\ saves' = [saves EXCEPT ![c] = @ + 1]

SaveChunkData(c, n) ==
    /\ MaySave(c)
    /\ WritePayload(c, n)
    /\ saved' = [saved EXCEPT ![c] = saves[c] + 1]
    /\ spoiled' = [spoiled EXCEPT ![c] = FALSE]
    /\ IF open
       THEN /\ off' = [off EXCEPT ![c] = Place(c, n)]
            /\ size' = [size EXCEPT ![c] = n]
            /\ fileSectors' = Larger(fileSectors, Place(c, n) + SectorCount(n))
            /\ headerDirty' = TRUE
            /\ UNCHANGED <<open, count, diskOff, diskSize>>
       ELSE /\ diskOff' = [diskOff EXCEPT ![c] = Place(c, n)]
            /\ diskSize' = [diskSize EXCEPT ![c] = n]
            /\ UNCHANGED handleVars
    /\ UNCHANGED <<client, read, faults>>

\* The region was opened for this save and its header cannot be written: the
\* handle stays in `regions` with no loaded chunk and a clean header.
SaveHeaderFails(c, n) ==
    /\ MaySave(c) /\ ~open /\ faults < MaxFaults
    /\ faults' = faults + 1
    /\ WritePayload(c, n)
    /\ spoiled' = [spoiled EXCEPT ![c] = TRUE]
    /\ Opened
    /\ off' = [diskOff EXCEPT ![c] = Place(c, n)]
    /\ size' = [diskSize EXCEPT ![c] = n]
    /\ fileSectors' = Larger(FileSectors, Place(c, n) + SectorCount(n))
    /\ UNCHANGED <<client, read, count, saved>>

\* write_chunk_data fails after it touched the first k sectors.  The entry
\* keeps pointing at the old place, which may be the one just overwritten.
SaveWriteFails(c, n, k) ==
    LET at == Place(c, n) IN
    /\ MaySave(c) /\ faults < MaxFaults
    /\ k <= SectorCount(n)
    /\ faults' = faults + 1
    /\ file' = Without(at, k)
    /\ fileEnd' = Larger(Larger(fileEnd, FIRST_DATA_SECTOR), IF k > 0 THEN at + k ELSE 0)
    /\ saves' = [saves EXCEPT ![c] = @ + 1]
    /\ spoiled' = [spoiled EXCEPT ![c] = @ \/ (k > 0 /\ Exists(Off, c) /\ at = Off[c])]
    /\ Opened
    /\ off' = Off /\ size' = Size
    /\ fileSectors' \in {FileSectors, IF k = SectorCount(n) THEN Larger(FileSectors, at + k)
                                                            ELSE FileSectors}
    /\ UNCHANGED <<client, read, count, saved>>

-----------------------------------------------------------------------------
(* flush_all, close_all, the end of the process, and the disk.             *)

FlushAll ==
    /\ open /\ headerDirty
    /\ WriteHeader
    /\ headerDirty' = FALSE
    /\ UNCHANGED <<client, read, open, off, size, count, fileSectors, file, fileEnd, ghostVars>>

Restart ==
    /\ client' = [c \in Chunks |-> "none"]
    /\ read' = [c \in Chunks |-> NoRead]
    /\ UNCHANGED <<file, fileEnd>>

CloseAll ==
    /\ open
    /\ Restart /\ Closed
    /\ IF headerDirty THEN WriteHeader ELSE UNCHANGED <<diskOff, diskSize>>
    /\ UNCHANGED ghostVars

\* The process dies, or close_all stops at the header of another region and
\* drops this handle.
CloseAborts ==
    /\ open
    /\ Restart /\ Closed
    /\ HeaderLost
    /\ UNCHANGED <<saves, saved>>

\* The medium loses a sector.
SectorLost(s) ==
    /\ faults < MaxFaults
    /\ faults' = faults + 1
    /\ file' = Without(s, 1)
    /\ spoiled' = [c \in Chunks |-> spoiled[c] \/ Covers(Off, Size, c, s)]
    /\ UNCHANGED <<client, read, handleVars, diskOff, diskSize, fileEnd, saves, saved>>

Next ==
    \/ \E c \in Chunks :
          \/ AcquireChunk(c) \/ LoadChunk(c) \/ LoadDecodes(c) \/ LoadClears(c) \/ LoadFails(c)
          \/ ReleaseChunk(c) \/ ReleaseHeaderFails(c)
          \/ \E n \in Sizes :
                \/ SaveChunkData(c, n) \/ SaveHeaderFails(c, n)
                \/ \E k \in 0..SectorCount(n) : SaveWriteFails(c, n, k)
    \/ FlushAll \/ CloseAll \/ CloseAborts
    \/ \E sectors \in 1 .. (FIRST_DATA_SECTOR - 1) : CreateFails(sectors)
    \/ \E w \in file : SectorLost(w[1])

Spec == Init /\ [][Next]_vars

-----------------------------------------------------------------------------
Entry == [Chunks -> Nat]

\* Every variable holds a value the code can store in it, and no payload part is
\* in sectors 0 to 2, which the file header and the chunk table occupy.
TypeOK ==
    /\ client \in [Chunks -> {"none", "acquired", "reading", "loaded", "failed"}]
    /\ open \in BOOLEAN /\ headerDirty \in BOOLEAN
    /\ off \in Entry /\ size \in Entry /\ diskOff \in Entry /\ diskSize \in Entry
    /\ count \in Nat /\ fileSectors \in Nat /\ fileEnd \in Nat /\ faults \in Nat
    /\ saves \in [Chunks -> 0..MaxSaves] /\ saved \in [Chunks -> 0..MaxSaves]
    /\ read \in [Chunks -> Nat \X Nat \X BOOLEAN]
    /\ spoiled \in [Chunks -> BOOLEAN]
    /\ \A w \in file : w[1] \in Nat \ 0..2 /\ w[2] \in Chunks /\ w[3] \in Nat

\* The table of the handle passes validate_region_entries: allocations stay in
\* the data sectors of the file and never overlap, whatever saves of growing
\* and shrinking payloads, failures and restarts came before.
TableValid == open => ValidTable(off, size, fileSectors) /\ fileSectors <= fileEnd

\* So does the table in the file, at every moment the process may die, once
\* create_region has written it: validate_region_entries accepts it in the next
\* open_region.  A file that create_region left short is rejected for ever, but no
\* save in it was ever acknowledged.
ReopenValid ==
    /\ Complete => ValidTable(diskOff, diskSize, fileEnd)
    /\ ~Complete => \A c \in Chunks : saved[c] = 0

\* An entry of the handle that is not the one in the file is one that the next
\* write of the header brings there, or one that a failed header write left
\* behind; a file that does not exist, or is not complete, has no entries.
TablesMatch ==
    /\ open /\ ~headerDirty =>
         \A c \in Chunks : spoiled[c] \/ (off[c] = diskOff[c] /\ size[c] = diskSize[c])
    /\ ~Complete => ~open /\ \A c \in Chunks : ~Exists(diskOff, c)

\* The allocation tables in memory and in the file, in every state in which a
\* save, a failure or the end of the process may leave them.
TablesValid == TypeOK /\ TableValid /\ ReopenValid /\ TablesMatch

\* The last save of a chunk that returned Ok is what the next load decodes,
\* through every close and reopen.  A lost header damages only the chunks whose
\* entry changed since it was last written, a failed write only its own chunk,
\* and only data that a fault reached fails to decode in a load.
LastSaveReadable ==
    \A c \in Chunks :
        ~spoiled[c] =>
            /\ IF saved[c] = 0 THEN ~Exists(Off, c)
               ELSE Exists(Off, c) /\ Decodes(Off, Size, c, c, saved[c])
            /\ client[c] = "reading" => read[c][3]

\* The handle is open while some chunk is acquired, and loaded_chunk_count is
\* the number of such chunks, also after a save left its handle behind.
CountMatches ==
    /\ (\E c \in Chunks : client[c] # "none") => open
    /\ count = Cardinality({c \in Chunks : client[c] # "none"})

\* The three together are inductive.
IInv == TablesValid /\ LastSaveReadable /\ CountMatches

\* No load discards a good payload: an entry is cleared only after a fault has
\* reached the data of that chunk.
OnlySpoiledCleared ==
    [][\A c \in Chunks : Exists(Off, c) /\ ~Exists(Off', c) => spoiled'[c]]_vars
=============================================================================
