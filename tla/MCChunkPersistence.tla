------------------------- MODULE MCChunkPersistence -------------------------
(* Small instances of ChunkPersistence.                                    *)
EXTENDS ChunkPersistence, TLC

CONSTANTS s1, s2, t1, t2

SectionSymmetry == Permutations({s1, s2})
TaskSymmetry == Permutations({t1, t2})
Symmetry == SectionSymmetry \cup TaskSymmetry
=============================================================================
