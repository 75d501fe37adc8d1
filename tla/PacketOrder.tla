---------------------------- MODULE PacketOrder ----------------------------
(***************************************************************************)
(* What the packet processor of steel-core promises its callers            *)
(* (server/packet_processor.rs, comments of PacketProcessor and of         *)
(* ScheduledPacketExecution), without its lanes, heaps, sequence numbers   *)
(* and wake-ups: packets stand in a line, in the order in which they were  *)
(* submitted; one may start when neither a packet that runs nor one ahead  *)
(* of it is in its way, and none starts during a game tick.                *)
(*                                                                         *)
(* PacketQueue is shown to implement this specification.                   *)
(***************************************************************************)
EXTENDS Naturals

CONSTANTS Sessions    \* player sessions

VARIABLES pending,    \* packets in the line
          ahead,      \* the line: <<i, j>> when packet i is ahead of packet j
          held,       \* packets of sessions that are being replaced
          holding,    \* sessions that are being replaced
          running,    \* packets whose handlers run
          stage,      \* "open", "draining", "ticking" or "halted"
          due,        \* packets that have to be done before the next tick
          arrived     \* number of packets submitted, the name of the next one

vars == <<pending, ahead, held, holding, running, stage, due, arrived>>

Execution == {"local", "serialized", "exclusive"}
Packet(i, s, e) == [id |-> i, key |-> s, exec |-> e]

Of(s, packets) == {p \in packets : p.key = s}
Others(s, packets) == {p \in packets : p.key # s}
IdsOf(packets) == {p.id : p \in packets}
Line(packets) == {x \in ahead : x[1] \in IdsOf(packets) /\ x[2] \in IdsOf(packets)}

Init ==
  /\ pending = {} /\ ahead = {} /\ held = {} /\ holding = {} /\ running = {}
  /\ stage = "ticking" /\ due = {} /\ arrived = 0

-----------------------------------------------------------------------------
\* A packet joins the end of the line, or waits with its session.
Submit(s, e) ==
  LET p == Packet(arrived, s, e)
  IN  /\ stage # "halted"
      /\ arrived' = arrived + 1
      /\ IF s \in holding
           THEN held' = held \cup {p} /\ UNCHANGED <<pending, ahead>>
           ELSE /\ pending' = pending \cup {p}
                /\ ahead' = ahead \cup (IdsOf(pending) \X {p.id})
                /\ UNCHANGED held
      /\ UNCHANGED <<holding, running, stage, due>>

\* Two packets of one session never overlap or overtake each other, serialized
\* packets neither, and an exclusive one neither overlaps nor overtakes any.
Conflict(p, q) ==
  \/ p.key = q.key
  \/ p.exec = "exclusive" \/ q.exec = "exclusive"
  \/ p.exec = "serialized" /\ q.exec = "serialized"

Start(p) ==
  /\ p \in pending
  /\ stage = "open" \/ (stage = "draining" /\ p.id \in due)
  /\ \A q \in running : ~Conflict(p, q)
  /\ \A q \in pending : <<q.id, p.id>> \in ahead => ~Conflict(p, q)
  /\ pending' = pending \ {p}
  /\ ahead' = Line(pending \ {p})
  /\ running' = running \cup {p}
  /\ UNCHANGED <<held, holding, stage, due, arrived>>

Finish(p) ==
  /\ p \in running
  /\ running' = running \ {p}
  /\ due' = due \ {p.id}
  /\ UNCHANGED <<pending, ahead, held, holding, stage, arrived>>

-----------------------------------------------------------------------------
\* The replacement of a player begins: its packets leave the line.
Hold(s) ==
  /\ s \notin holding /\ stage # "halted"
  /\ holding' = holding \cup {s}
  /\ held' = held \cup Of(s, pending)
  /\ pending' = Others(s, pending)
  /\ ahead' = Line(Others(s, pending))
  /\ due' = due \ IdsOf(Of(s, pending))
  /\ UNCHANGED <<running, stage, arrived>>

\* It ends: they join the line again, behind all others, in their own order.
Release(s) ==
  LET back == IdsOf(Of(s, held))
  IN  /\ s \in holding /\ stage # "halted"
      /\ holding' = holding \ {s}
      /\ pending' = pending \cup Of(s, held)
      /\ ahead' = ahead \cup (IdsOf(pending) \X back) \cup {x \in back \X back : x[1] < x[2]}
      /\ held' = Others(s, held)
      /\ UNCHANGED <<running, stage, due, arrived>>

\* The session ends: what it left behind never runs.
Drop(s) ==
  /\ pending' = Others(s, pending)
  /\ ahead' = Line(Others(s, pending))
  /\ held' = Others(s, held)
  /\ holding' = holding \ {s}
  /\ due' = due \ IdsOf(Of(s, pending))
  /\ UNCHANGED <<running, stage, arrived>>

-----------------------------------------------------------------------------
\* The tick boundary: all that was submitted before it is due.
Boundary ==
  /\ stage = "open"
  /\ stage' = "draining"
  /\ due' = IdsOf(pending \cup running)
  /\ UNCHANGED <<pending, ahead, held, holding, running, arrived>>

\* The tick begins when nothing runs and nothing is due.
Tick ==
  /\ stage = "draining" /\ running = {} /\ due = {}
  /\ stage' = "ticking"
  /\ UNCHANGED <<pending, ahead, held, holding, running, due, arrived>>

Open ==
  /\ stage = "ticking"
  /\ stage' = "open"
  /\ UNCHANGED <<pending, ahead, held, holding, running, due, arrived>>

\* The server stops: only handlers that run already go on.
Halt ==
  /\ stage' = "halted"
  /\ pending' = {} /\ ahead' = {} /\ held' = {} /\ holding' = {} /\ due' = {}
  /\ UNCHANGED <<running, arrived>>

Next ==
  \/ \E s \in Sessions : \/ \E e \in Execution : Submit(s, e)
                         \/ Hold(s) \/ Release(s) \/ Drop(s)
  \/ \E p \in pending : Start(p)
  \/ \E p \in running : Finish(p)
  \/ Boundary \/ Tick \/ Open \/ Halt

Spec == Init /\ [][Next]_vars
=============================================================================
