------------------------- MODULE MCTicketScheduling -------------------------
(***************************************************************************)
(* Instances of TicketScheduling: chunks on a line.                        *)
(***************************************************************************)
EXTENDS TicketScheduling

Line2 == 0 .. 1
LineDistance ==
    [p \in Positions |-> [q \in Positions |-> IF p <= q THEN q - p ELSE p - q]]
OneOrBoth == {{0}, {0, 1}}
PortalLevel == [t \in Timed |-> EntityTicking]
ShortTimeout == [t \in Timed |-> 1]

Limit(who, sub, ref, res) ==
    [actors |-> who, submissions |-> sub, refreshes |-> ref, restarts |-> res]

\* Two requests; two players; a portal refreshed while it ages; portal and pearl over a
\* restart; a request beside a portal; a request beside a player.
MixedLimits ==
    {Limit(Requesters, 3, 0, 0), Limit(Players, 4, 0, 0),
     Limit({"portal"}, 0, 2, 0), Limit(Timed, 0, 1, 1),
     Limit(Requesters \cup {"portal"}, 1, 1, 0), Limit(Requesters \cup Players, 2, 0, 0)}
=============================================================================
