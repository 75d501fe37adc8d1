---------------------------- MODULE MCChunkTracker ----------------------------
(* Chunks on a grid with two neighbouring sources. *)
EXTENDS ChunkTracker

Abs(n) == IF n >= 0 THEN n ELSE -n

Grid == (0 .. 3) \X (0 .. 2)
GridDistance ==
    [p \in Grid |-> [q \in Grid |-> Max({Abs(p[1] - q[1]), Abs(p[2] - q[2])})]]
GridSources == {<<1, 1>>, <<2, 1>>}
GridLevels == {1, 2}
=============================================================================
