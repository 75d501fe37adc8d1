------------------------- MODULE MCPlayerAdmission -------------------------
EXTENDS PlayerAdmission, TLC

CONSTANTS c1, c2, c3, u1, u2, d1, d2

\* c1 and c2 log in as u1, c3 as u2.
OwnerDef == (c1 :> u1) @@ (c2 :> u1) @@ (c3 :> u2)

Nothing == [k \in Kinds |-> 0]
Scenario(clients, slots, bounds) ==
  [clients |-> clients, slots |-> slots] @@ bounds @@ Nothing

\* Two sessions of u1, with switches back and forth and a respawn; with
\* failures; with the credits and a stop of the server; all three
\* connections; two players at work when the server stops; two players for
\* one slot.
LimitsDef ==
  {Scenario({c1, c2}, 2, [plays |-> 1, switches |-> 2, respawns |-> 1, closes |-> 1]),
   Scenario({c1, c2}, 2, [plays |-> 2, switches |-> 1, faults |-> 2, closes |-> 1]),
   Scenario({c1, c2}, 2, [plays |-> 1, switches |-> 1, respawns |-> 1, credits |-> 1, closes |-> 1, stops |-> 1]),
   Scenario({c1, c2, c3}, 2, [plays |-> 2, switches |-> 1, closes |-> 1]),
   Scenario({c1, c3}, 2, [plays |-> 2, closes |-> 1, stops |-> 1]),
   Scenario({c1, c2, c3}, 1, [plays |-> 1, faults |-> 2, stops |-> 1])}

\* For the liveness properties.
LimitsLive ==
  {Scenario({c1, c2}, 2, [switches |-> 1, respawns |-> 1, closes |-> 1]),
   Scenario({c1, c2}, 2, [switches |-> 1, faults |-> 1, stops |-> 1]),
   Scenario({c1, c2, c3}, 1, [closes |-> 1])}
=============================================================================
