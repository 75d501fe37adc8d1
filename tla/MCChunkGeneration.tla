-------------------------- MODULE MCChunkGeneration --------------------------
(* Small instances of ChunkGeneration: a pyramid whose top step reads the   *)
(* neighbours at distance one.                                              *)
EXTENDS ChunkGeneration

\* Two statuses: Full needs the neighbours at Empty.
TwoStatuses == [t \in 0 .. 1 |-> [s \in 0 .. 1 |-> IF s < t THEN 1 ELSE 0]]
TwoDirect == [s \in 0 .. 1 |-> [d \in 0 .. (IF s = 1 THEN 1 ELSE 0) |-> IF s = 1 THEN 0 ELSE -1]]

\* Three statuses: 1 needs nothing around it, Full needs its neighbours at 1.
ThreeStatuses ==
    [t \in 0 .. 2 |-> [s \in 0 .. 2 |-> IF t = 2 /\ s < 2 THEN 1 ELSE 0]]
ThreeDirect ==
    [s \in 0 .. 2 |-> [d \in 0 .. (IF s = 2 THEN 1 ELSE 0) |-> s - 1]]

FourInARow == 0 .. 3
TwoSources == {1, 2}

Limit(sets, ids, slots, chg, flt, stp) ==
    [tickets |-> sets, tasks |-> ids, slots |-> slots, changes |-> chg, faults |-> flt,
     stops |-> stp]

FourTasks == {"t1", "t2", "t3", "t4"}
FiveTasks == FourTasks \cup {"t5"}
ThreeTasks == FourTasks \ {"t4"}

\* Two overlapping tickets that come and go; two tasks at a time and a shutdown; a storage fault.
SafetyLimits ==
    {Limit(SUBSET {1, 2}, Tasks, 1, 2, 0, FALSE), Limit({{}, {1}}, Tasks, 2, 2, 0, TRUE),
     Limit({{}, {1}}, Tasks, 1, 2, 1, FALSE)}

\* A chunk is loaded, unloaded and loaded again; two tasks at a time; a storage fault; a chunk
\* is demoted and promoted again beside a ticket that stays.
LiveLimits ==
    {Limit({{}, {1}}, ThreeTasks, 1, 3, 0, FALSE), Limit({{}, {1}}, ThreeTasks, 2, 1, 0, TRUE),
     Limit({{}, {1}}, ThreeTasks, 1, 1, 1, FALSE), Limit({{2}, {1, 2}}, FourTasks, 1, 3, 0, FALSE)}

\* Two tickets that change three times, so that a task is replaced by a weaker one.
RepromotedLimits == {Limit({{2}, {1, 2}}, Tasks, 1, 3, 0, FALSE)}
=============================================================================
