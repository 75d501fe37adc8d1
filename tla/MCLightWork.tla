---------------------------- MODULE MCLightWork ----------------------------
(***************************************************************************)
(* Instances of LightWork: chunks on a line.                               *)
(***************************************************************************)
EXTENDS LightWork

Line4 == 0 .. 3
LineDistance ==
    [p \in Positions |-> [q \in Positions |-> IF p <= q THEN q - p ELSE p - q]]

Limit(has, sav, who, chg, stp, mov) ==
    [lit |-> has, saved |-> sav, savers |-> who, changes |-> chg, steps |-> stp, moves |-> mov]

\* Changes at two centers that overlap, at two that do not, a Light step beside a center,
\* two saves of one chunk, a Light step beside two centers, and chunks that move while
\* they are saved.
MixedLimits ==
    {Limit({0, 1}, {0, 1}, {"s1"}, 2, 0, 0), Limit({0, 3}, {0, 3}, {"s1"}, 2, 0, 0),
     Limit({0}, {0}, {"s1"}, 1, 1, 0), Limit({0}, {0}, {"s1", "s2"}, 1, 0, 1),
     Limit({0, 1}, {}, {"s1"}, 2, 1, 0), Limit({0, 1}, {0}, {"s1"}, 2, 0, 1)}
=============================================================================
