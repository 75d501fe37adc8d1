---------------------------- MODULE MCRegionFile ----------------------------
EXTENDS RegionFile, TLC

Symmetry == Permutations(Chunks)

\* The loop of RegionHeader::find_free_sectors: over the allocations by
\* increasing offset, with the end of the ones seen so far.
RECURSIVE ScanRanges(_, _, _, _, _, _)
ScanRanges(o, n, rest, current, needed, sectors) ==
    IF rest = {} THEN Larger(current, sectors)
    ELSE LET c == CHOOSE d \in rest : \A e \in rest : o[d] <= o[e]
         IN  IF o[c] >= current + needed THEN current
             ELSE ScanRanges(o, n, rest \ {c}, Larger(current, End(o, n, c)), needed, sectors)

\* FindFreeSectors, the definition the actions use, is what the loop of
\* find_free_sectors computes in every reachable table, for every payload size.
FreeSectorsAgree ==
    \A m \in Sizes :
        FindFreeSectors(Off, Size, SectorCount(m), FileSectors) =
            ScanRanges(Off, Size, {c \in Chunks : Exists(Off, c)}, FIRST_DATA_SECTOR,
                       SectorCount(m), FileSectors)
=============================================================================
