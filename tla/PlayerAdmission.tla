-------------------------- MODULE PlayerAdmission --------------------------
(***************************************************************************)
(* Who owns a player: admission, disconnection, domain switches, respawns  *)
(* and the saves between them (steel-core/src/server/player_admission.rs,  *)
(* server/jobs/domain_switch.rs, server/world_changes.rs,                  *)
(* server/run_loop.rs, player/lifecycle/respawn.rs, player/session.rs).    *)
(*                                                                         *)
(* A profile (a UUID) can be played by several connections one after the   *)
(* other, and by several of them at once while they log in.  Its data      *)
(* lives in one player object at a time, an incarnation <<c, k>> of a      *)
(* connection, or on its way between that object and the storage.  Login   *)
(* tasks, storage tasks and closing connections interleave with the steps  *)
(* of the game thread, which visits the phases of a tick in order; the     *)
(* items of a phase are collected when it begins.                          *)
(*                                                                         *)
(* Player data is a version number.  A domain's three files are saved and  *)
(* read as one, in one step; an aborted storage task stops at once.  Tasks *)
(* reach the lock of the global file in the order in which they start.     *)
(***************************************************************************)
EXTENDS Integers, Sequences, FiniteSets

CONSTANTS Profiles,       \* UUIDs
          Connections,    \* client connections
          Owner,          \* [Connections -> Profiles]: who logs in on each
          Domains,
          DefaultDomain,
          MaxLives,       \* bound on the incarnations of a connection
          Limits          \* scenarios: the clients that log in, the slots of the
                          \* server and bounds on what the environment does

\* What the environment does: players change, switch domains, die and respawn
\* or see the credits, connections close, storage or chunk requests fail, the
\* server is stopped.
Kinds == {"plays", "switches", "respawns", "credits", "closes", "faults", "stops"}

ASSUME AdmissionAssumption ==
  /\ Owner \in [Connections -> Profiles]
  /\ DefaultDomain \in Domains
  /\ MaxLives \in Nat \ {0}
  /\ \A l \in Limits :
       /\ l.clients \subseteq Connections
       /\ \A f \in {"slots"} \cup Kinds : l[f] \in Nat

VARIABLES
  conn,       \* [Connections -> Place]: how far the connection's task has come
  closed,     \* closed connections
  admission,  \* player_admissions
  online,     \* online_players: the incarnation a profile is online with
  bound,      \* PlayerSession: the current incarnation, 0 when unbound or closed
  members,    \* incarnations that are in a world of their domain
  at,         \* domain of the player's world pointer
  live,       \* version of the data the player object holds
  won,        \* connections whose player watches the end credits
  domain,     \* [Connections -> Domains]: what the join task has loaded,
  version,    \* last_active_domain and the data of that domain
  switch,     \* [Incarnations -> SwitchPhase]: the domain switch
  target,     \* its target domain
  source,     \* its source data
  arrival,    \* the data it has loaded from the target domain
  respawn,    \* incarnations with a respawn job
  queued,     \* pending_player_disconnects.queued
  leaving,    \* [Connections -> ...]: progress of a disconnect save
  final,      \* the data it saves
  globals,    \* save_global calls <<caller, domain>>, in the order of the file lock
  stored,     \* version in the storage, by profile and domain
  last,       \* stored last_active_domain
  game,       \* phase of the game thread
  todo,       \* items of the phase that are still to be visited
  running,    \* players a packet handler or world tick works on after the stop
  budget,     \* what the environment may still do
  latest,     \* newest version of a profile's data in a domain (auxiliary)
  home,       \* domain the profile was last played in (auxiliary)
  late        \* profiles changed after their last save was captured (auxiliary)

net == <<conn, closed>>
table == <<admission, online, bound, members>>
player == <<at, live, won>>
loaded == <<domain, version>>
jobs == <<switch, target, source, arrival, respawn>>
saves == <<queued, leaving, final, globals>>
disk == <<stored, last>>
aux == <<latest, home>>
work == <<running, late>>
vars == <<net, table, player, loaded, jobs, saves, disk, game, todo, budget, aux, work>>

Place == {"new", "login", "waiting", "config", "reserved", "loading", "reading",
          "prepared", "play", "done"}
Admission == {"none", "joining", "relocating", "disconnecting"}
SwitchPhase == {"none", "queued", "storing", "reading", "ready", "failed", "global", "saved"}
GamePhase == {"open", "disconnects", "worlds", "jobs", "joins", "switches",
              "cancelling", "draining", "ended", "saving", "down"}
Incarnations == Connections \X (1..MaxLives)
Nobody == <<>>
Failed == -1

Of(p) == Owner[p[1]]
Online == {u \in Profiles : online[u] # Nobody}

Init ==
  /\ conn = [c \in Connections |-> "new"] /\ closed = {}
  /\ admission = [u \in Profiles |-> "none"]
  /\ online = [u \in Profiles |-> Nobody]
  /\ bound = [c \in Connections |-> 0] /\ members = {}
  /\ at = [c \in Connections |-> DefaultDomain]
  /\ live = [c \in Connections |-> 0] /\ won = {}
  /\ domain = [c \in Connections |-> DefaultDomain]
  /\ version = [c \in Connections |-> 0]
  /\ switch = [p \in Incarnations |-> "none"]
  /\ target = [p \in Incarnations |-> DefaultDomain]
  /\ source = [p \in Incarnations |-> 0] /\ arrival = source /\ respawn = {}
  /\ queued = {} /\ leaving = [c \in Connections |-> "none"]
  /\ final = [c \in Connections |-> 0]
  /\ globals = [u \in Profiles |-> <<>>]
  /\ stored = [u \in Profiles |-> [d \in Domains |-> 0]]
  /\ last = [u \in Profiles |-> DefaultDomain]
  /\ game = "open" /\ todo = {}
  /\ budget \in Limits
  /\ latest = stored /\ home = last
  /\ running = {} /\ late = {}

-----------------------------------------------------------------------------
(* Helpers of the handlers.                                                *)

\* config.max_players
MaxPlayers == budget.slots

Spend(what) == budget[what] > 0 /\ budget' = [budget EXCEPT ![what] = @ - 1]

\* player_admission_changed.notify_waiters(): every waiter looks again.
\* Mutant: nobody is woken.
NotifyNobody(place) == place
NotifyWaiters(place) ==
  [c \in Connections |-> IF place[c] = "waiting" THEN "login" ELSE place[c]]

\* try_reserve_player_join: no owner and nobody online.
\* Mutant: only the online players are looked at.
NotOnline(u) == u \notin Online
Free(u) == admission[u] = "none" /\ u \notin Online

\* release_player_admission: only the state the caller owns is released.
Release(u, state) ==
  admission' = [admission EXCEPT ![u] = IF @ = state THEN "none" ELSE @]

\* A switch that still owns the source data; the player is in no world.
Detached == {"storing", "reading", "ready", "failed"}

\* is_world_change_token_pending: a switch or respawn has claimed the player.
Pending(p) == switch[p] \in Detached \cup {"queued"} \/ p \in respawn

\* live_world_for_player: exactly this incarnation is online and in its world.
Live(p) == online[Of(p)] = p /\ p \in members

\* The server's cancel token, as seen after the game loop has seen it.
Stopping == game \in {"cancelling", "draining", "ended", "saving", "down"}

-----------------------------------------------------------------------------
(* The login and configuration tasks of a connection.                      *)

\* finish_verified_login: the early capacity check of the login handler.
BeginLogin(c) ==
  /\ conn[c] = "new" /\ c \in budget.clients /\ ~Stopping
  /\ conn' = [conn EXCEPT ![c] = IF Cardinality(Online) >= MaxPlayers THEN "done" ELSE "login"]
  /\ UNCHANGED <<closed, table, player, loaded, jobs, saves, disk, game, todo, budget, aux, work>>

\* disconnect_duplicate_player_and_wait: the notification is enabled before
\* the tables are read; an older session is closed and its end awaited.
CheckDuplicate(c) ==
  LET u == Owner[c]
  IN  /\ conn[c] = "login"
      /\ IF admission[u] = "none" /\ u \notin Online
           THEN conn' = [conn EXCEPT ![c] = "config"] /\ UNCHANGED closed
           ELSE /\ conn' = [conn EXCEPT ![c] = "waiting"]
                /\ closed' = closed \cup {online[v][1] : v \in Online \cap {u}}
      /\ UNCHANGED <<table, player, loaded, jobs, saves, disk, game, todo, budget, aux, work>>

\* A login task ends with its connection or with the server.
CancelLogin(c) ==
  /\ conn[c] \in {"waiting", "config"}
  /\ c \in closed \/ Stopping
  /\ conn' = [conn EXCEPT ![c] = "done"]
  /\ closed' = closed \cup {c}
  /\ UNCHANGED <<table, player, loaded, jobs, saves, disk, game, todo, budget, aux, work>>

\* finish_configuration: try_reserve_player_join, or the client is kicked.
Reserve(c) ==
  LET u == Owner[c]
  IN  /\ conn[c] = "config"
      /\ conn' = [conn EXCEPT ![c] = IF Free(u) THEN "reserved" ELSE "done"]
      /\ closed' = IF Free(u) THEN closed ELSE closed \cup {c}
      /\ admission' = IF Free(u) THEN [admission EXCEPT ![u] = "joining"] ELSE admission
      /\ bound' = IF Free(u) THEN [bound EXCEPT ![c] = 1] ELSE bound
      /\ UNCHANGED <<online, members, player, loaded, jobs, saves, disk, game, todo, budget, aux,
                     work>>

\* queue_reserved_player_join, or the reservation is dropped.
QueueJoin(c) ==
  LET gone == c \in closed \/ Stopping
  IN  /\ conn[c] = "reserved"
      /\ conn' = IF gone THEN NotifyWaiters([conn EXCEPT ![c] = "done"])
                         ELSE [conn EXCEPT ![c] = "loading"]
      /\ IF gone THEN Release(Owner[c], "joining") ELSE UNCHANGED admission
      /\ UNCHANGED <<closed, online, bound, members, player, loaded, jobs, saves, disk, game,
                     todo, budget, aux, work>>

\* prepare_and_queue_player_join: load_join_domain, then the domain's data.
LoadJoinDomain(c) ==
  /\ conn[c] = "loading"
  /\ \/ /\ conn' = [conn EXCEPT ![c] = "reading"]
        /\ domain' = [domain EXCEPT ![c] = last[Owner[c]]]
        /\ UNCHANGED <<version, budget>>
     \/ /\ conn' = [conn EXCEPT ![c] = "prepared"]
        /\ version' = [version EXCEPT ![c] = Failed]
        /\ Spend("faults") /\ UNCHANGED domain
  /\ UNCHANGED <<closed, table, player, jobs, saves, disk, game, todo, aux, work>>

LoadPlayerState(c) ==
  /\ conn[c] = "reading"
  /\ conn' = [conn EXCEPT ![c] = "prepared"]
  /\ \/ version' = [version EXCEPT ![c] = stored[Owner[c]][domain[c]]] /\ UNCHANGED budget
     \/ version' = [version EXCEPT ![c] = Failed] /\ Spend("faults")
  /\ UNCHANGED <<closed, table, player, domain, jobs, saves, disk, game, todo, aux, work>>

-----------------------------------------------------------------------------
(* Players and clients.                                                    *)

\* The client goes away, or a handler closes its connection.
Close(c) ==
  /\ conn[c] \in Place \ {"new", "done"} /\ c \notin closed
  /\ Spend("closes")
  /\ closed' = closed \cup {c}
  /\ UNCHANGED <<conn, table, player, loaded, jobs, saves, disk, game, todo, aux, work>>

\* Packet handlers run between ticks and worlds tick in their phase: both change
\* players.  The stop starts no new ones and does not wait for those at work.
Playing(p) == game \in {"open", "worlds"} \/ p \in running

Play(p) ==
  /\ Playing(p) /\ Live(p) /\ Spend("plays")
  /\ live' = [live EXCEPT ![p[1]] = @ + 1]
  /\ latest' = [latest EXCEPT ![Of(p)][at[p[1]]] = live[p[1]] + 1]
  /\ UNCHANGED <<net, table, at, won, loaded, jobs, saves, disk, game, todo, home, work>>

\* The same for a player whose data the last disconnects have captured meanwhile:
\* the change is in no save.
PlayLate(p) ==
  /\ p \in running /\ online[Of(p)] # p /\ Spend("plays")
  /\ live' = [live EXCEPT ![p[1]] = @ + 1]
  /\ late' = late \cup {Of(p)}
  /\ UNCHANGED <<net, table, at, won, loaded, jobs, saves, disk, game, todo, aux, running>>

\* The packet handler or world tick returns.
FinishHandler(p) ==
  /\ p \in running /\ running' = running \ {p}
  /\ UNCHANGED <<net, table, player, loaded, jobs, saves, disk, game, todo, budget, aux, late>>

\* show_end_credits: the player leaves its world and stays online.
ShowEndCredits(p) ==
  /\ game = "worlds" \/ p \in running
  /\ Live(p) /\ ~Pending(p) /\ Spend("credits")
  /\ members' = members \ {p}
  /\ won' = won \cup {p[1]}
  /\ UNCHANGED <<net, admission, online, bound, at, live, loaded, jobs, saves, disk, game,
                 todo, aux, work>>

\* respawn, respawn_after_end_credits: a job claims the player.
RequestRespawn(p) ==
  /\ Playing(p) /\ online[Of(p)] = p /\ (p \in members \/ p[1] \in won)
  /\ p[1] \notin closed /\ bound[p[1]] = p[2]
  /\ ~Pending(p) /\ p[2] < MaxLives /\ Spend("respawns")
  /\ respawn' = respawn \cup {p}
  /\ UNCHANGED <<net, table, player, loaded, switch, target, source, arrival, saves, disk,
                 game, todo, aux, work>>

\* queue_domain_switch, with begin_player_relocation and begin_domain_switch.
QueueSwitch(p, d) ==
  /\ Playing(p) /\ Live(p) /\ p[1] \notin closed \cup won
  /\ ~Pending(p) /\ d # at[p[1]]
  /\ switch[p] = "none" /\ Spend("switches")
  /\ switch' = [switch EXCEPT ![p] = "queued"]
  /\ target' = [target EXCEPT ![p] = d]
  /\ UNCHANGED <<net, table, player, loaded, source, arrival, respawn, saves, disk, game,
                 todo, aux, work>>

-----------------------------------------------------------------------------
(* Storage tasks.                                                          *)

\* save_domain_data; a failure is logged and that version is gone.
WriteDomain(u, d, v) ==
  \/ /\ stored' = [stored EXCEPT ![u][d] = v]
     /\ UNCHANGED <<budget, latest>>
  \/ /\ Spend("faults")
     /\ latest' = [latest EXCEPT ![u][d] = stored[u][d]]
     /\ UNCHANGED stored

\* save_global; after a failure the profile's next session starts where the
\* storage says.
WriteGlobal(u, d) ==
  \/ /\ last' = [last EXCEPT ![u] = d]
     /\ UNCHANGED <<budget, home>>
  \/ /\ Spend("faults")
     /\ home' = [home EXCEPT ![u] = last[u]]
     /\ UNCHANGED last

\* save_disconnected_player: the domain's data first.
SaveDomain(c) ==
  /\ leaving[c] = "domain"
  /\ WriteDomain(Owner[c], at[c], final[c])
  /\ leaving' = [leaving EXCEPT ![c] = "global"]
  /\ globals' = [globals EXCEPT ![Owner[c]] = Append(@, <<<<c, 0>>, at[c]>>)]
  /\ UNCHANGED <<net, table, player, loaded, jobs, queued, final, last, game, todo, home, work>>

\* Then save_global, after which the admission is released.  The same queue
\* serves the save of a domain switch, unless its task has been aborted; when
\* that one fails the domain is saved again at the end of the session.
SaveGlobal(u) ==
  LET p == Head(globals[u])[1]
      d == Head(globals[u])[2]
  IN  /\ globals[u] # <<>>
      /\ globals' = [globals EXCEPT ![u] = Tail(@)]
      /\ IF p \in Incarnations
           THEN /\ IF switch[p] = "global"
                     THEN /\ \/ last' = [last EXCEPT ![u] = d] /\ UNCHANGED budget
                             \/ Spend("faults") /\ UNCHANGED last
                          /\ switch' = [switch EXCEPT ![p] = "saved"]
                     ELSE UNCHANGED <<last, budget, switch>>
                /\ UNCHANGED <<leaving, admission, conn, home>>
           ELSE /\ WriteGlobal(u, d)
                /\ leaving' = [leaving EXCEPT ![p[1]] = "none"]
                /\ Release(u, "disconnecting")
                /\ conn' = NotifyWaiters(conn)
                /\ UNCHANGED switch
      /\ UNCHANGED <<closed, online, bound, members, player, loaded, target, source, arrival,
                     respawn, queued, final, stored, game, todo, latest, work>>

\* The task of DomainSwitchJob::new: save the source, then load the target.
StoreSource(p) ==
  /\ switch[p] = "storing"
  /\ \/ /\ stored' = [stored EXCEPT ![Of(p)][at[p[1]]] = source[p]]
        /\ switch' = [switch EXCEPT ![p] = "reading"]
        /\ UNCHANGED budget
     \/ /\ switch' = [switch EXCEPT ![p] = "failed"]
        /\ Spend("faults") /\ UNCHANGED stored
  /\ UNCHANGED <<net, table, player, loaded, target, source, arrival, respawn, saves, last,
                 game, todo, aux, work>>

LoadTarget(p) ==
  /\ switch[p] = "reading"
  /\ \/ /\ switch' = [switch EXCEPT ![p] = "ready"]
        /\ arrival' = [arrival EXCEPT ![p] = stored[Of(p)][target[p]]]
        /\ UNCHANGED budget
     \/ /\ switch' = [switch EXCEPT ![p] = "failed"]
        /\ Spend("faults") /\ UNCHANGED arrival
  /\ UNCHANGED <<net, table, player, loaded, target, source, respawn, saves, disk, game, todo,
                 aux, work>>

-----------------------------------------------------------------------------
(* The game thread: disconnects.                                           *)

Enter(phase, items) == game' = phase /\ todo' = items
Visit(item) == item \in todo /\ todo' = todo \ {item} /\ UNCHANGED game

\* process_player_disconnects: the online players whose connection is closed.
\* Mutant: only players that were queued are disconnected.
NoClosedPlayers == {}
ClosedPlayers == {p \in {online[u] : u \in Online} : p[1] \in closed}

\* start_player_disconnect_saves: prepared disconnects are saved, closed
\* players that are online join the queued ones.
StartDisconnects(phase) ==
  /\ Enter(phase, queued \cup ClosedPlayers)
  /\ queued' = {}
  /\ leaving' = [c \in Connections |-> IF leaving[c] = "prepared" THEN "domain" ELSE leaving[c]]
  /\ UNCHANGED <<net, table, player, loaded, jobs, final, globals, disk, budget, aux, work>>

BeginTick == game = "open" /\ StartDisconnects("disconnects")

\* remove_online_player_sync of the incarnation the profile is online with.
RemoveOnline(p) ==
  /\ online' = [online EXCEPT ![Of(p)] = Nobody]
  /\ bound' = [bound EXCEPT ![p[1]] = 0]
  /\ conn' = NotifyWaiters([conn EXCEPT ![p[1]] = "done"])

\* PendingPlayerDisconnect: the data to save; the domain is where the player
\* still points.
Hand(p, place, v) ==
  /\ leaving' = [leaving EXCEPT ![p[1]] = place]
  /\ final' = [final EXCEPT ![p[1]] = v]

\* process_player_disconnect: only the exact online player that nothing else
\* owns is taken; others are left to their owner.
Disconnect(p) ==
  /\ game \in {"disconnects", "draining"} /\ Visit(p)
  /\ IF admission[Of(p)] = "none" /\ online[Of(p)] = p
       THEN /\ admission' = [admission EXCEPT ![Of(p)] = "disconnecting"]
            /\ members' = members \ {p}
            /\ RemoveOnline(p)
            /\ Hand(p, "domain", live[p[1]])
       ELSE UNCHANGED <<conn, table, leaving, final>>
  /\ UNCHANGED <<closed, player, loaded, jobs, queued, globals, disk, budget, aux, work>>

TickWorlds ==
  /\ game = "disconnects" /\ todo = {}
  /\ Enter("worlds", {})
  /\ UNCHANGED <<net, table, player, loaded, jobs, saves, disk, budget, aux, work>>

-----------------------------------------------------------------------------
(* The game thread: jobs.                                                  *)

AllJobs == ({"switch"} \X {p \in Incarnations : switch[p] \notin {"none", "queued"}})
             \cup ({"respawn"} \X respawn)

BeginJobs ==
  /\ game = "worlds"
  /\ Enter("jobs", AllJobs)
  /\ UNCHANGED <<net, table, player, loaded, jobs, saves, disk, budget, aux, work>>

\* finish_source_disconnect with source data: queue_relocating_player_disconnect
\* turns the relocation into a disconnect that saves the source data.
QuitSwitch(p) ==
  /\ closed' = closed \cup {p[1]}
  /\ switch' = [switch EXCEPT ![p] = "none"]
  /\ members' = members \ {p}
  /\ IF admission[Of(p)] = "relocating" /\ online[Of(p)] = p
       THEN /\ admission' = [admission EXCEPT ![Of(p)] = "disconnecting"]
            /\ RemoveOnline(p)
            /\ Hand(p, "prepared", source[p])
       ELSE UNCHANGED <<conn, admission, online, bound, leaving, final>>
  /\ UNCHANGED <<player, loaded, target, source, arrival, respawn, queued, globals, disk, aux,
                 work>>

\* finish_source_disconnect without source data: the switch is committed and
\* only its save of the active domain is given up.
QuitGlobal(p) ==
  /\ switch' = [switch EXCEPT ![p] = "none"]
  /\ UNCHANGED <<net, table, player, loaded, target, source, arrival, respawn, saves, disk,
                 budget, aux, work>>

\* poll: the connection is closed, or the storage task has failed, or the
\* request for the chunks of the spawn is cancelled.
LeaveSwitch(p) ==
  /\ game = "jobs" /\ Visit(<<"switch", p>>)
  /\ switch[p] \in Detached
  /\ \/ (p[1] \in closed \/ switch[p] = "failed") /\ UNCHANGED budget
     \/ switch[p] = "ready" /\ p[1] \notin closed /\ Spend("faults")
  /\ QuitSwitch(p)

\* poll of a switch that waits for storage or for chunks.
AwaitSwitch(p) ==
  /\ game = "jobs" /\ Visit(<<"switch", p>>)
  /\ p[1] \notin closed /\ switch[p] \in {"storing", "reading", "ready", "global"}
  /\ UNCHANGED <<net, table, player, loaded, jobs, saves, disk, budget, aux, work>>

\* commit_target_state: the player enters the target domain with its data.
CommitSwitch(p) ==
  LET c == p[1]
      u == Of(p)
  IN  /\ game = "jobs" /\ Visit(<<"switch", p>>)
      /\ switch[p] = "ready" /\ c \notin closed
      /\ at' = [at EXCEPT ![c] = target[p]]
      /\ live' = [live EXCEPT ![c] = arrival[p]]
      /\ members' = members \cup {p}
      /\ Release(u, "relocating")
      /\ conn' = NotifyWaiters(conn)
      /\ switch' = [switch EXCEPT ![p] = "global"]
      /\ globals' = [globals EXCEPT ![u] = Append(@, <<p, target[p]>>)]
      /\ home' = [home EXCEPT ![u] = target[p]]
      /\ UNCHANGED <<closed, online, bound, won, loaded, target, source, arrival, respawn, queued,
                     leaving, final, disk, budget, latest, work>>

\* poll of a committed switch: its save is done, or the player has left.
FinishSwitch(p) ==
  /\ game = "jobs" /\ Visit(<<"switch", p>>)
  /\ switch[p] = "saved" \/ (switch[p] = "global" /\ p[1] \in closed)
  /\ QuitGlobal(p)

\* PlayerRespawnJob::still_valid.
RespawnValid(p) ==
  /\ p[1] \notin closed /\ bound[p[1]] = p[2] /\ online[Of(p)] = p
  /\ p \in members \/ p[1] \in won

\* poll of a respawn: no longer valid or cancelled, or waiting for chunks.
LeaveRespawn(p) ==
  /\ game = "jobs" /\ Visit(<<"respawn", p>>)
  /\ p \in respawn /\ respawn' = respawn \ {p}
  /\ UNCHANGED <<net, table, player, loaded, switch, target, source, arrival, saves, disk,
                 budget, aux, work>>

AwaitRespawn(p) ==
  /\ game = "jobs" /\ Visit(<<"respawn", p>>)
  /\ RespawnValid(p)
  /\ UNCHANGED <<net, table, player, loaded, jobs, saves, disk, budget, aux, work>>

\* finish_respawn_replacement: a new incarnation takes the place of the old
\* one in the world, in the online players and in the session; when another
\* owner has the UUID the connection is closed and the old one stays online.
FinishRespawn(p) ==
  LET c == p[1]
      u == Of(p)
      q == <<c, p[2] + 1>>
  IN  /\ game = "jobs" /\ Visit(<<"respawn", p>>)
      /\ p \in respawn /\ RespawnValid(p)
      /\ respawn' = respawn \ {p}
      /\ won' = won \ {c}
      /\ IF admission[u] = "none"
           THEN /\ members' = (members \ {p}) \cup {q}
                /\ online' = [online EXCEPT ![u] = q]
                /\ bound' = [bound EXCEPT ![c] = q[2]]
                /\ live' = [live EXCEPT ![c] = @ + 1]
                /\ latest' = [latest EXCEPT ![u][at[c]] = live[c] + 1]
                /\ UNCHANGED closed
           ELSE /\ members' = members \ {p}
                /\ closed' = closed \cup {c}
                /\ UNCHANGED <<online, bound, live, latest>>
      /\ UNCHANGED <<conn, admission, at, loaded, switch, target, source, arrival, saves, disk,
                     budget, home, work>>

-----------------------------------------------------------------------------
(* The game thread: joins and new switches.                                *)

BeginJoins ==
  /\ game = "jobs" /\ todo = {}
  /\ Enter("joins", {c \in Connections : conn[c] = "prepared"})
  /\ UNCHANGED <<net, table, player, loaded, jobs, saves, disk, budget, aux, work>>

\* finish_prepared_player_join, admit_reserved_player: the connection is
\* gone, the data could not be loaded or the server is full.
RejectJoin(c) ==
  /\ game = "joins" /\ Visit(c) /\ conn[c] = "prepared"
  /\ \/ c \in closed \/ version[c] = Failed
     \/ admission[Owner[c]] # "joining" \/ Cardinality(Online) >= MaxPlayers
  /\ Release(Owner[c], "joining")
  /\ conn' = NotifyWaiters([conn EXCEPT ![c] = "done"])
  /\ closed' = closed \cup {c}
  /\ UNCHANGED <<online, bound, members, player, loaded, jobs, saves, disk, budget, aux, work>>

\* The player is admitted with the loaded data and enters its world, which
\* fails only for a player that is in one.  Its connection may close
\* meanwhile: then it is queued for disconnection.
AdmitJoin(c) ==
  LET u == Owner[c]
      p == <<c, bound[c]>>
  IN  /\ game = "joins" /\ Visit(c)
      /\ conn[c] = "prepared" /\ c \notin closed /\ version[c] # Failed
      /\ admission[u] = "joining" /\ Cardinality(Online) < MaxPlayers
      /\ admission' = [admission EXCEPT ![u] = "none"]
      /\ online' = [online EXCEPT ![u] = p]
      /\ members' = members \cup {p}
      /\ at' = [at EXCEPT ![c] = domain[c]]
      /\ live' = [live EXCEPT ![c] = version[c]]
      /\ conn' = NotifyWaiters([conn EXCEPT ![c] = "play"])
      /\ home' = [home EXCEPT ![u] = domain[c]]
      /\ \/ UNCHANGED <<closed, queued, budget>>
         \/ closed' = closed \cup {c} /\ queued' = queued \cup {p} /\ Spend("closes")
      /\ UNCHANGED <<bound, won, loaded, jobs, leaving, final, globals, disk, latest, work>>

\* process_domain_switches takes the requests of this tick.
BeginSwitches ==
  /\ game = "joins" /\ todo = {}
  /\ Enter("switches", {p \in Incarnations : switch[p] = "queued"})
  /\ UNCHANGED <<net, table, player, loaded, jobs, saves, disk, budget, aux, work>>

\* detach_player_for_domain_switch
\* Mutant: the player stays in its world while its data is on the way.
StayInWorld(p) == UNCHANGED members
LeaveWorld(p) == members' = members \ {p}

\* start_domain_switch: the player is reserved, leaves its world and its data
\* goes to a new job.
StartSwitch(p) ==
  /\ game = "switches" /\ Visit(p)
  /\ switch[p] = "queued" /\ p[1] \notin closed /\ Live(p) /\ admission[Of(p)] = "none"
  /\ admission' = [admission EXCEPT ![Of(p)] = "relocating"]
  /\ LeaveWorld(p)
  /\ switch' = [switch EXCEPT ![p] = "storing"]
  /\ source' = [source EXCEPT ![p] = live[p[1]]]
  /\ UNCHANGED <<net, online, bound, player, loaded, target, arrival, respawn, saves, disk,
                 budget, aux, work>>

\* It is not started: the player is leaving, has died or has an open menu.
\* A respawn that the dead player asked for meanwhile is requested now
\* (retry_deferred_death_respawn).
DropSwitch(p) ==
  /\ game = "switches" /\ Visit(p) /\ switch[p] = "queued"
  /\ switch' = [switch EXCEPT ![p] = "none"]
  /\ \/ UNCHANGED <<respawn, budget>>
     \/ /\ Live(p) /\ p[1] \notin closed /\ bound[p[1]] = p[2]
        /\ p[2] < MaxLives /\ Spend("respawns")
        /\ respawn' = respawn \cup {p}
  /\ UNCHANGED <<net, table, player, loaded, target, source, arrival, saves, disk, aux, work>>

EndTick ==
  /\ game = "switches" /\ todo = {}
  /\ Enter("open", {})
  /\ UNCHANGED <<net, table, player, loaded, jobs, saves, disk, budget, aux, work>>

-----------------------------------------------------------------------------
(* The game thread: shutdown.                                              *)

\* The players a packet handler or a world tick may be at work on.
Attended == {p \in Incarnations : online[Of(p)] = p /\ (p \in members \/ p[1] \in won)}

\* The loop sees the cancel token, or the tick of one world fails while the other
\* worlds still tick.
Stop ==
  /\ game \in {"open", "worlds"} /\ Spend("stops")
  /\ Enter("cancelling", AllJobs)
  /\ running' \in SUBSET Attended
  /\ UNCHANGED <<net, table, player, loaded, jobs, saves, disk, aux, late>>

\* jobs.cancel_all: DomainSwitchJob::cancel and PlayerRespawnJob::cancel.
CancelJob(p) ==
  /\ game = "cancelling"
  /\ \/ /\ Visit(<<"switch", p>>) /\ switch[p] \in Detached
        /\ QuitSwitch(p) /\ UNCHANGED budget
     \/ /\ Visit(<<"switch", p>>) /\ switch[p] \in {"global", "saved"}
        /\ QuitGlobal(p)
     \/ /\ Visit(<<"respawn", p>>) /\ p \in respawn /\ respawn' = respawn \ {p}
        /\ UNCHANGED <<net, table, player, loaded, switch, target, source, arrival, saves,
                       disk, budget, aux, work>>

\* packet_processor.stop() discards what is queued and waits for nobody; then the
\* last disconnects are started.
DrainDisconnects == game = "cancelling" /\ todo = {} /\ StartDisconnects("draining")

\* player_disconnect_saves.join_next() until none is left.
\* Mutant: the loop ends without them.
SavesForgotten == TRUE
SavesJoined == \A c \in Connections : leaving[c] \in {"none", "prepared"}

\* The disconnect queue is cleared and the saves are joined.
EndLoop ==
  /\ game = "draining" /\ todo = {}
  /\ SavesJoined
  /\ Enter("ended", {})
  /\ queued' = {}
  /\ leaving' = [c \in Connections |-> "none"]
  /\ UNCHANGED <<net, table, player, loaded, jobs, final, globals, disk, budget, aux, work>>

\* save_and_shutdown, once run() has joined the packet workers and the world ticks
\* and the connections' tasks have ended: it claims and disconnects the players
\* that are online.
\* Mutant: it does not wait for the packet handlers.
HandlersForgotten == TRUE
HandlersJoined == running = {}
BeginShutdown ==
  /\ game = "ended" /\ HandlersJoined
  /\ \A c \in Connections : conn[c] \notin {"login", "waiting", "config", "reserved"}
  /\ Enter("saving", Online)
  /\ admission' = [u \in Profiles |-> IF u \in Online /\ admission[u] = "none"
                                        THEN "disconnecting" ELSE admission[u]]
  /\ closed' = closed \cup {online[u][1] : u \in Online}
  /\ UNCHANGED <<conn, online, bound, members, player, loaded, jobs, saves, disk, budget, aux,
                 work>>

\* Both writes of a player fail.
WritesFail(u, d) ==
  /\ budget.faults > 1 /\ budget' = [budget EXCEPT !.faults = @ - 2]
  /\ latest' = [latest EXCEPT ![u][d] = stored[u][d]]
  /\ home' = [home EXCEPT ![u] = last[u]]
  /\ UNCHANGED <<stored, last>>

\* It saves their data and active domains, one after the other; a failure is
\* logged and does not keep the other write from being tried.
SaveAtShutdown(u) ==
  LET c == online[u][1]
  IN  /\ game = "saving" /\ Visit(u)
      /\ \/ WriteDomain(u, at[c], live[c]) /\ last' = [last EXCEPT ![u] = at[c]] /\ UNCHANGED home
         \/ /\ stored' = [stored EXCEPT ![u][at[c]] = live[c]]
            /\ WriteGlobal(u, at[c]) /\ UNCHANGED latest
         \/ WritesFail(u, at[c])
      /\ UNCHANGED <<net, table, player, loaded, jobs, saves, work>>

EndShutdown ==
  /\ game = "saving" /\ todo = {}
  /\ Enter("down", {})
  /\ UNCHANGED <<net, table, player, loaded, jobs, saves, disk, budget, aux, work>>

-----------------------------------------------------------------------------
GameThread ==
  \/ BeginTick \/ TickWorlds \/ BeginJobs \/ BeginJoins \/ BeginSwitches \/ EndTick
  \/ DrainDisconnects \/ EndLoop \/ BeginShutdown \/ EndShutdown
  \/ \E p \in Incarnations :
       \/ Disconnect(p)
       \/ LeaveSwitch(p) \/ AwaitSwitch(p) \/ CommitSwitch(p) \/ FinishSwitch(p)
       \/ LeaveRespawn(p) \/ AwaitRespawn(p) \/ FinishRespawn(p)
       \/ StartSwitch(p) \/ DropSwitch(p) \/ CancelJob(p)
  \/ \E c \in Connections : RejectJoin(c) \/ AdmitJoin(c)
  \/ \E u \in Profiles : SaveAtShutdown(u)

LoginTask(c) ==
  CheckDuplicate(c) \/ CancelLogin(c) \/ Reserve(c) \/ QueueJoin(c)
    \/ LoadJoinDomain(c) \/ LoadPlayerState(c)

StorageTask(c) ==
  \/ SaveDomain(c)
  \/ \E k \in 1..MaxLives : StoreSource(<<c, k>>) \/ LoadTarget(<<c, k>>)

Environment ==
  \/ Stop
  \/ \E c \in Connections : BeginLogin(c) \/ Close(c)
  \/ \E p \in Incarnations :
       \/ Play(p) \/ PlayLate(p) \/ ShowEndCredits(p) \/ RequestRespawn(p)
       \/ \E d \in Domains : QueueSwitch(p, d)

Handlers == \E p \in Incarnations : FinishHandler(p)

Next ==
  \/ GameThread \/ Environment \/ Handlers
  \/ \E c \in Connections : LoginTask(c) \/ StorageTask(c)
  \/ \E u \in Profiles : SaveGlobal(u)

Spec == Init /\ [][Next]_vars

\* The game loop, the handlers and the tasks of the runtime go on; clients owe
\* nothing.
LiveSpec ==
  /\ Spec
  /\ WF_vars(GameThread) /\ WF_vars(Handlers)
  /\ \A c \in Connections : WF_vars(LoginTask(c)) /\ WF_vars(StorageTask(c))
  /\ \A u \in Profiles : WF_vars(SaveGlobal(u))

-----------------------------------------------------------------------------
NetType == conn \in [Connections -> Place] /\ closed \subseteq Connections
TableType ==
  /\ admission \in [Profiles -> Admission]
  /\ online \in [Profiles -> Incarnations \cup {Nobody}]
  /\ bound \in [Connections -> 0..MaxLives] /\ members \subseteq Incarnations
PlayerType ==
  at \in [Connections -> Domains] /\ live \in [Connections -> Nat] /\ won \subseteq Connections
LoadedType ==
  domain \in [Connections -> Domains] /\ version \in [Connections -> Nat \cup {Failed}]
JobsType ==
  /\ switch \in [Incarnations -> SwitchPhase] /\ target \in [Incarnations -> Domains]
  /\ source \in [Incarnations -> Nat] /\ arrival \in [Incarnations -> Nat]
  /\ respawn \subseteq Incarnations
SavesType ==
  /\ queued \subseteq Incarnations
  /\ leaving \in [Connections -> {"none", "prepared", "domain", "global"}]
  /\ final \in [Connections -> Nat]
  /\ globals \in [Profiles -> Seq((Connections \X (0..MaxLives)) \X Domains)]
DiskType == stored \in [Profiles -> [Domains -> Nat]] /\ last \in [Profiles -> Domains]
AuxType == latest \in [Profiles -> [Domains -> Nat]] /\ home \in [Profiles -> Domains]
RunType == game \in GamePhase
WorkType == running \subseteq Incarnations /\ late \subseteq Profiles
TypeOK ==
  /\ NetType /\ TableType /\ PlayerType /\ LoadedType /\ JobsType /\ SavesType /\ DiskType
  /\ AuxType /\ RunType /\ WorkType

Joining(u) == {c \in Connections : Owner[c] = u /\ conn[c] \in {"reserved", "loading", "reading", "prepared"}}
Relocating(u) == {p \in Incarnations : Of(p) = u /\ switch[p] \in Detached}
Leaving(u) == {c \in Connections : Owner[c] = u /\ leaving[c] # "none"}

\* What the entry of a profile stands for: the set has one element or none.
Stands(owners, entry) == IF entry THEN \E x \in owners : owners = {x} ELSE owners = {}

\* Every profile has at most one owner, and the entry in player_admissions
\* names it: a join in progress, a detached domain switch, a disconnect that
\* saves, or none, so that no two of them ever work on one player's data and
\* no entry stays behind.  A player that is online is its session's current
\* one; it is in a world unless it switches or watches the credits, and no
\* other incarnation is.
OneOwner ==
  /\ TypeOK
  /\ \A u \in Profiles :
       /\ Stands(Joining(u), admission[u] = "joining")
       /\ Stands(Relocating(u), admission[u] = "relocating")
       /\ game \notin {"saving", "down"} => Stands(Leaving(u), admission[u] = "disconnecting")
       /\ admission[u] = "joining" => online[u] = Nobody
       /\ admission[u] = "relocating" => Relocating(u) = {online[u]}
       /\ admission[u] = "disconnecting" /\ online[u] # Nobody => game \in {"saving", "down"}
       /\ {p \in members : Of(p) = u} =
            IF online[u] = Nobody \/ admission[u] = "relocating" \/ online[u][1] \in won
              THEN {} ELSE {online[u]}
       /\ online[u] # Nobody => bound[online[u][1]] = online[u][2]

\* Nothing a player did is lost and nothing old comes back: a player object
\* holds the newest data of its domain, every other domain's newest data is
\* in the storage, and once nobody has the profile the storage holds all of
\* it with the domain it was last played in - the comment of
\* disconnect_duplicate_player_and_wait on stale player data.
NothingLost ==
  \A u \in Profiles :
    /\ admission[u] \in {"none", "joining"} /\ online[u] = Nobody =>
         stored[u] = latest[u] /\ last[u] = home[u]
    /\ \A c \in Joining(u) : conn[c] = "prepared" /\ version[c] # Failed =>
         domain[c] = home[u] /\ version[c] = latest[u][home[u]]
    /\ online[u] # Nobody =>
         LET c == online[u][1]
         IN  /\ admission[u] = "none" => live[c] = latest[u][at[c]]
             /\ \A d \in Domains \ {at[c]} : stored[u][d] = latest[u][d]

\* When the server is down the storage holds the newest data of every player
\* and the domain it was in, whatever was going on when the stop came.  Handlers
\* that outlive packet_processor.stop() are included: what they change in a player
\* that stays online is saved, because save_and_shutdown waits for them.  Only a
\* player that the last disconnects took away can be changed too late, and the
\* storage then holds what they captured.
ShutdownSaves ==
  game = "down" =>
    /\ stored = latest /\ last = home
    /\ \A u \in late : online[u] = Nobody

\* A login that finds an older session of its profile gets through, or ends
\* with its connection: the old session is saved and its waiter is woken.
LoginProceeds ==
  \A c \in Connections : conn[c] \in {"login", "waiting"} ~> conn[c] \in {"config", "reserved", "done"}

\* A closed player leaves the server, and a server that stops goes down.
ClosedLeaves ==
  /\ \A c \in Connections : (conn[c] = "play" /\ c \in closed) ~> (conn[c] = "done" \/ Stopping)
  /\ Stopping ~> game = "down"
=============================================================================
