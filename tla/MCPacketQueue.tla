--------------------------- MODULE MCPacketQueue ---------------------------
(* Scenarios of PacketQueue for TLC.                                        *)
EXTENDS PacketQueue

L(s) == <<s, "local">>
S(s) == <<s, "serialized">>
X(s) == <<s, "exclusive">>

Scenario(line, pses, repl, cls, stp) ==
  [script |-> line, pauses |-> pses, replaced |-> repl, closes |-> cls, stops |-> stp]

\* Classes that hide, overtake or bar each other in and across lanes.
Orders == {Scenario(line, 0, {}, {}, FALSE) : line \in
  {<<L("a"), S("a"), S("b")>>, <<L("a"), X("a"), L("b")>>, <<S("a"), L("b"), S("b")>>,
   <<X("a"), S("b"), L("c")>>, <<L("a"), S("b"), X("c")>>, <<S("a"), X("b"), S("a")>>,
   <<L("a"), S("a"), S("b"), X("c")>>, <<X("a"), L("b"), L("b"), X("c")>>}}

\* A session that is replaced, with others in its way; one that is paused, closed,
\* discarded and paused again; shutdown in the middle.
Replacements ==
  {Scenario(<<S("a"), X("a"), S("b")>>, 1, {"a"}, {}, FALSE),
   Scenario(<<X("a"), L("b"), X("a")>>, 1, {"a"}, {}, FALSE),
   Scenario(<<S("a"), S("b")>>, 2, {"a", "b"}, {}, FALSE),
   Scenario(<<L("a"), S("a")>>, 2, {"a"}, {"a"}, FALSE),
   Scenario(<<X("a"), L("b")>>, 1, {"a"}, {"a"}, TRUE)}

MixedLimits == Orders \cup Replacements
=============================================================================
