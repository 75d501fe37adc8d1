------------------------ MODULE PlayerAdmissionOwners -----------------------
(***************************************************************************)
(* Proofs about PlayerAdmission, first part: the inductive invariant, and  *)
(* that every step keeps the part of it that says who owns a profile.      *)
(***************************************************************************)
EXTENDS PlayerAdmission, TLAPS

\* The types of all variables but those of work.
StateType ==
  /\ NetType /\ TableType /\ PlayerType /\ LoadedType /\ JobsType /\ SavesType /\ DiskType
  /\ AuxType /\ RunType

Joins == {"reserved", "loading", "reading", "prepared"}
Ending == {"draining", "ended", "saving", "down"}

\* A connection that joins has the admission of its profile for itself.
JoinInv ==
  /\ \A c \in Connections : conn[c] \in Joins => admission[Owner[c]] = "joining" /\ bound[c] = 1
  /\ \A b, c \in Connections :
       conn[b] \in Joins /\ conn[c] \in Joins /\ Owner[b] = Owner[c] => b = c
  /\ \A u \in Profiles : admission[u] = "joining" =>
       online[u] = Nobody /\ \E c \in Connections : Owner[c] = u /\ conn[c] \in Joins

\* A player that is online plays on a connection of its own.
OnlineInv ==
  /\ \A u \in Profiles : online[u] # Nobody =>
       /\ online[u] \in Incarnations /\ Of(online[u]) = u
       /\ conn[online[u][1]] = "play" /\ bound[online[u][1]] = online[u][2]
  /\ \A c \in won : conn[c] \in {"play", "done"}
  /\ \A p \in respawn : p[2] < MaxLives

\* A detached switch belongs to the player that is online.
SwitchInv ==
  /\ \A p \in Incarnations : switch[p] \in Detached =>
       admission[Of(p)] = "relocating" /\ online[Of(p)] = p /\ p[1] \notin won
  /\ \A u \in Profiles : admission[u] = "relocating" =>
       online[u] # Nobody /\ switch[online[u]] \in Detached

\* Exactly the players that are online are in a world, with two exceptions.
MemberInv ==
  /\ \A p \in members :
       online[Of(p)] = p /\ admission[Of(p)] # "relocating" /\ p[1] \notin won
  /\ \A u \in Profiles :
       online[u] # Nobody /\ admission[u] # "relocating" /\ online[u][1] \notin won =>
         online[u] \in members

\* A disconnect save has the admission of its profile for itself.
LeaveInv ==
  /\ \A c \in Connections : leaving[c] # "none" =>
       admission[Owner[c]] = "disconnecting" /\ online[Owner[c]] = Nobody
  /\ \A b, c \in Connections :
       leaving[b] # "none" /\ leaving[c] # "none" /\ Owner[b] = Owner[c] => b = c
  /\ \A u \in Profiles : admission[u] = "disconnecting" =>
       IF online[u] = Nobody
         THEN \E c \in Connections : Owner[c] = u /\ leaving[c] # "none"
         ELSE game \in {"saving", "down"}
  /\ game \in {"saving", "down"} =>
       \A u \in Profiles : online[u] # Nobody => admission[u] = "disconnecting"

\* When the loop ends, jobs and saves have ended, in this order.
PhaseInv ==
  /\ game = "cancelling" =>
       \A p \in Incarnations : switch[p] \notin {"none", "queued"} => <<"switch", p>> \in todo
  /\ game \in Ending =>
       /\ \A p \in Incarnations : switch[p] \in {"none", "queued"}
       /\ \A c \in Connections : leaving[c] # "prepared"
  /\ game \in {"ended", "saving", "down"} => \A c \in Connections : leaving[c] = "none"
  /\ game = "saving" => \A u \in Profiles : u \in todo => online[u] # Nobody

\* The save of a disconnect is the last of the calls that wait for the global file.
GlobalsInv ==
  /\ \A u \in Profiles : \A i \in 1..Len(globals[u]) :
       globals[u][i][1][2] = 0 =>
         /\ Owner[globals[u][i][1][1]] = u /\ leaving[globals[u][i][1][1]] = "global"
         /\ i = Len(globals[u])
  /\ \A u \in Profiles :
       online[u] = Nobody /\ admission[u] # "disconnecting" => globals[u] = <<>>

\* Where the newest data of a profile is that nobody plays.
RestInv ==
  /\ \A u \in Profiles : online[u] = Nobody /\ admission[u] # "disconnecting" =>
       last[u] = home[u] /\ \A d \in Domains : stored[u][d] = latest[u][d]
  /\ \A c \in Connections :
       /\ conn[c] = "reading" => domain[c] = home[Owner[c]]
       /\ conn[c] = "prepared" /\ version[c] # Failed =>
            domain[c] = home[Owner[c]] /\ version[c] = latest[Owner[c]][home[Owner[c]]]

\* Of a player that is online: the object has the newest data of its domain,
\* the storage that of the others.
PlayInv ==
  \A u \in Profiles : online[u] # Nobody =>
    LET c == online[u][1]
    IN  /\ \A d \in Domains : d # at[c] => stored[u][d] = latest[u][d]
        /\ admission[u] # "disconnecting" \/ (game = "saving" /\ u \in todo) => home[u] = at[c]
        /\ admission[u] = "none" \/ (game = "saving" /\ u \in todo) => live[c] = latest[u][at[c]]
        /\ game = "down" \/ (game = "saving" /\ u \notin todo) =>
             last[u] = home[u] /\ stored[u][at[c]] = latest[u][at[c]]

\* Of a detached switch.
CarryInv ==
  \A p \in Incarnations : switch[p] \in Detached =>
    /\ source[p] = latest[Of(p)][at[p[1]]]
    /\ switch[p] \in {"reading", "ready"} => stored[Of(p)][at[p[1]]] = latest[Of(p)][at[p[1]]]
    /\ switch[p] = "ready" => arrival[p] = latest[Of(p)][target[p]]

\* Of a disconnect save.
FinalInv ==
  /\ \A c \in Connections : leaving[c] # "none" =>
       /\ home[Owner[c]] = at[c]
       /\ \A d \in Domains : d # at[c] => stored[Owner[c]][d] = latest[Owner[c]][d]
       /\ leaving[c] # "global" => final[c] = latest[Owner[c]][at[c]]
       /\ leaving[c] = "global" => stored[Owner[c]][at[c]] = latest[Owner[c]][at[c]]
  /\ \A u \in Profiles : \A i \in 1..Len(globals[u]) :
       globals[u][i][1][2] = 0 => globals[u][i][2] = at[globals[u][i][1][1]]

\* What handlers and world ticks still do after the stop.
WorkInv ==
  /\ WorkType
  /\ running # {} \/ late # {} => Stopping
  /\ game \in {"saving", "down"} => running = {}
  /\ \A p \in running : online[Of(p)] \in {p, Nobody}
  /\ \A u \in late : online[u] = Nobody

OwnersInv == StateType /\ JoinInv /\ OnlineInv /\ SwitchInv /\ MemberInv /\ LeaveInv /\ PhaseInv
DataInv == GlobalsInv /\ RestInv /\ PlayInv /\ CarryInv /\ FinalInv
IInv == OwnersInv /\ WorkInv /\ DataInv

-----------------------------------------------------------------------------
(* Types.                                                                  *)

LEMMA Constants ==
  /\ Owner \in [Connections -> Profiles] /\ DefaultDomain \in Domains
  /\ MaxLives \in Nat /\ MaxLives >= 1
BY AdmissionAssumption

LEMMA IncarnationFacts ==
  /\ Nobody \notin Incarnations
  /\ \A p \in Incarnations :
       p[1] \in Connections /\ p[2] \in 1..MaxLives /\ p = <<p[1], p[2]>> /\ Of(p) \in Profiles
  /\ \A c \in Connections : \A k \in 1..MaxLives : <<c, k>> \in Incarnations /\ Of(<<c, k>>) = Owner[c]
BY Constants DEF Incarnations, Nobody, Of

\* notify_waiters only sends waiting logins back to look again.
LEMMA NotifyFacts ==
  ASSUME NEW place \in [Connections -> Place]
  PROVE  /\ NotifyWaiters(place) \in [Connections -> Place]
         /\ \A c \in Connections :
              /\ place[c] # "waiting" => NotifyWaiters(place)[c] = place[c]
              /\ place[c] = "waiting" => NotifyWaiters(place)[c] = "login"
BY Zenon DEF NotifyWaiters, Place

LEMMA MoveFacts ==
  ASSUME NetType, NEW c \in Connections, NEW s \in Place, s # "waiting",
         conn' = NotifyWaiters([conn EXCEPT ![c] = s])
  PROVE  /\ conn' \in [Connections -> Place] /\ conn'[c] = s
         /\ \A b \in Connections : b # c => conn'[b] = conn[b] \/ (conn[b] = "waiting" /\ conn'[b] = "login")
<1> DEFINE place == [conn EXCEPT ![c] = s]
<1>1. place \in [Connections -> Place]
  BY Zenon DEF NetType
<1>2. place[c] = s /\ \A b \in Connections : b # c => place[b] = conn[b]
  BY Zenon DEF NetType
<1> HIDE DEF place
<1> QED
  BY <1>1, <1>2, NotifyFacts, conn' = NotifyWaiters(place), ZenonT(30) DEF place

LEMMA DoneFacts ==
  ASSUME NetType, NEW c \in Connections, conn' = NotifyWaiters([conn EXCEPT ![c] = "done"])
  PROVE  /\ conn' \in [Connections -> Place] /\ conn'[c] = "done"
         /\ \A b \in Connections : b # c => conn'[b] = conn[b] \/ (conn[b] = "waiting" /\ conn'[b] = "login")
<1>1. "done" \in Place /\ "done" # "waiting"
  BY Zenon DEF Place
<1> QED
  BY <1>1, MoveFacts, ZenonT(30)

\* One entry of a table of versions is written.
LEMMA WriteFacts ==
  ASSUME NEW f \in [Profiles -> [Domains -> Nat]], NEW u \in Profiles, NEW d \in Domains, NEW v \in Nat
  PROVE  /\ [f EXCEPT ![u][d] = v] \in [Profiles -> [Domains -> Nat]]
         /\ \A w \in Profiles : \A e \in Domains :
              [f EXCEPT ![u][d] = v][w][e] = IF w = u /\ e = d THEN v ELSE f[w][e]
OBVIOUS

LEMMA WriteDomainFacts ==
  ASSUME DiskType, AuxType, NEW u \in Profiles, NEW d \in Domains, NEW v \in Nat, WriteDomain(u, d, v)
  PROVE  /\ stored' \in [Profiles -> [Domains -> Nat]] /\ latest' \in [Profiles -> [Domains -> Nat]]
         /\ \A w \in Profiles : \A e \in Domains :
              w # u \/ e # d => stored'[w][e] = stored[w][e] /\ latest'[w][e] = latest[w][e]
         /\ v = latest[u][d] => stored'[u][d] = latest'[u][d]
<1>1. CASE stored' = [stored EXCEPT ![u][d] = v] /\ UNCHANGED latest
  BY <1>1, WriteFacts DEF DiskType, AuxType
<1>2. CASE latest' = [latest EXCEPT ![u][d] = stored[u][d]] /\ UNCHANGED stored
  BY <1>2, WriteFacts DEF DiskType, AuxType
<1> QED
  BY <1>1, <1>2, WriteDomain(u, d, v), Zenon DEF WriteDomain

LEMMA InitOwners == Init => OwnersInv
<1> SUFFICES ASSUME Init PROVE OwnersInv
  OBVIOUS
<1> USE Constants, IncarnationFacts
<1>1. StateType
  BY DEF Init, StateType, NetType, TableType, PlayerType, LoadedType, JobsType, SavesType, DiskType,
     AuxType, RunType, Place, Admission, SwitchPhase, GamePhase
<1>2. JoinInv /\ OnlineInv /\ SwitchInv /\ MemberInv /\ LeaveInv /\ PhaseInv
  BY Zenon DEF Init, JoinInv, OnlineInv, SwitchInv, MemberInv, LeaveInv, PhaseInv, Joins, Detached,
     Ending
<1> QED
  BY <1>1, <1>2, Zenon DEF OwnersInv
\* A part of the invariant survives a step that leaves its variables alone.
LEMMA Frames ==
  /\ NetType /\ UNCHANGED <<conn, closed>> => NetType'
  /\ TableType /\ UNCHANGED <<admission, online, bound, members>> => TableType'
  /\ PlayerType /\ UNCHANGED <<at, live, won>> => PlayerType'
  /\ LoadedType /\ UNCHANGED <<domain, version>> => LoadedType'
  /\ JobsType /\ UNCHANGED <<switch, target, source, arrival, respawn>> => JobsType'
  /\ SavesType /\ UNCHANGED <<queued, leaving, final, globals>> => SavesType'
  /\ DiskType /\ UNCHANGED <<stored, last>> => DiskType'
  /\ AuxType /\ UNCHANGED <<latest, home>> => AuxType'
  /\ RunType /\ UNCHANGED <<game>> => RunType'
  /\ JoinInv /\ UNCHANGED <<conn, admission, bound, online>> => JoinInv'
  /\ OnlineInv /\ UNCHANGED <<online, conn, bound, won, respawn>> => OnlineInv'
  /\ SwitchInv /\ UNCHANGED <<switch, admission, online, won>> => SwitchInv'
  /\ MemberInv /\ UNCHANGED <<members, online, admission, won>> => MemberInv'
  /\ LeaveInv /\ UNCHANGED <<leaving, admission, online, game>> => LeaveInv'
  /\ PhaseInv /\ UNCHANGED <<game, todo, switch, leaving, online>> => PhaseInv'
  /\ GlobalsInv /\ UNCHANGED <<globals, leaving, online, admission>> => GlobalsInv'
  /\ RestInv /\ UNCHANGED <<online, admission, last, home, stored, latest, conn, domain, version>> => RestInv'
  /\ PlayInv /\ UNCHANGED <<online, at, stored, latest, admission, game, todo, home, live, last>> => PlayInv'
  /\ CarryInv /\ UNCHANGED <<switch, source, latest, at, stored, arrival, target>> => CarryInv'
  /\ FinalInv /\ UNCHANGED <<leaving, home, at, stored, latest, final, globals>> => FinalInv'
<1>1. /\ NetType /\ UNCHANGED <<conn, closed>> => NetType'
      /\ TableType /\ UNCHANGED <<admission, online, bound, members>> => TableType'
      /\ PlayerType /\ UNCHANGED <<at, live, won>> => PlayerType'
      /\ LoadedType /\ UNCHANGED <<domain, version>> => LoadedType'
      /\ JobsType /\ UNCHANGED <<switch, target, source, arrival, respawn>> => JobsType'
      /\ SavesType /\ UNCHANGED <<queued, leaving, final, globals>> => SavesType'
      /\ DiskType /\ UNCHANGED <<stored, last>> => DiskType'
      /\ AuxType /\ UNCHANGED <<latest, home>> => AuxType'
      /\ RunType /\ UNCHANGED <<game>> => RunType'
  BY Zenon DEF NetType, TableType, PlayerType, LoadedType, JobsType, SavesType, DiskType, AuxType,
     RunType
<1>2. /\ JoinInv /\ UNCHANGED <<conn, admission, bound, online>> => JoinInv'
      /\ OnlineInv /\ UNCHANGED <<online, conn, bound, won, respawn>> => OnlineInv'
      /\ SwitchInv /\ UNCHANGED <<switch, admission, online, won>> => SwitchInv'
      /\ MemberInv /\ UNCHANGED <<members, online, admission, won>> => MemberInv'
      /\ LeaveInv /\ UNCHANGED <<leaving, admission, online, game>> => LeaveInv'
      /\ PhaseInv /\ UNCHANGED <<game, todo, switch, leaving, online>> => PhaseInv'
  BY SMTT(30) DEF JoinInv, OnlineInv, SwitchInv, MemberInv, LeaveInv, PhaseInv, Of
<1>3. /\ GlobalsInv /\ UNCHANGED <<globals, leaving, online, admission>> => GlobalsInv'
      /\ RestInv /\ UNCHANGED <<online, admission, last, home, stored, latest, conn, domain, version>> => RestInv'
      /\ PlayInv /\ UNCHANGED <<online, at, stored, latest, admission, game, todo, home, live, last>> => PlayInv'
      /\ CarryInv /\ UNCHANGED <<switch, source, latest, at, stored, arrival, target>> => CarryInv'
      /\ FinalInv /\ UNCHANGED <<leaving, home, at, stored, latest, final, globals>> => FinalInv'
  BY SMTT(30) DEF GlobalsInv, RestInv, PlayInv, CarryInv, FinalInv, Of
<1> QED
  BY <1>1, <1>2, <1>3, Zenon

\* The login and configuration tasks.
LEMMA LoginOwners ==
  ASSUME OwnersInv, NEW c \in Connections, LoginTask(c)
  PROVE  OwnersInv'
<1> USE Constants, IncarnationFacts DEF OwnersInv, StateType
<1>1. CASE CheckDuplicate(c)
  <2>1. TableType' /\ PlayerType' /\ LoadedType' /\ JobsType' /\ SavesType' /\ DiskType' /\
       AuxType' /\ RunType' /\ SwitchInv' /\ MemberInv' /\ LeaveInv' /\ PhaseInv'
    BY <1>1, Frames, Zenon DEF CheckDuplicate, table, player, loaded, jobs, saves, disk, aux
  <2>2. NetType'
    BY <1>1 DEF CheckDuplicate, Online, NetType, Place, TableType, net
  <2>3. JoinInv'
    BY <1>1 DEF CheckDuplicate, Online, JoinInv, Joins, NetType, TableType, net, table
  <2>4. OnlineInv'
    BY <1>1 DEF CheckDuplicate, Online, OnlineInv, Of, TableType, NetType, PlayerType,
       JobsType, net, table, player, jobs
  <2> QED
    BY <2>1, <2>2, <2>3, <2>4, Zenon
<1>2. CASE CancelLogin(c)
  <2>1. TableType' /\ PlayerType' /\ LoadedType' /\ JobsType' /\ SavesType' /\ DiskType' /\
       AuxType' /\ RunType' /\ SwitchInv' /\ MemberInv' /\ LeaveInv' /\ PhaseInv'
    BY <1>2, Frames, Zenon DEF CancelLogin, table, player, loaded, jobs, saves, disk, aux
  <2>2. NetType'
    BY <1>2, Zenon DEF CancelLogin, NetType, Place, net
  <2>3. JoinInv'
    BY <1>2 DEF CancelLogin, JoinInv, Joins, NetType, TableType, net, table
  <2>4. OnlineInv'
    BY <1>2 DEF CancelLogin, OnlineInv, Of, TableType, NetType, PlayerType, JobsType, net,
       table, player, jobs
  <2> QED
    BY <2>1, <2>2, <2>3, <2>4
<1>3. CASE Reserve(c)
  <2>1. PlayerType' /\ LoadedType' /\ JobsType' /\ SavesType' /\ DiskType' /\ AuxType' /\
       RunType' /\ PhaseInv'
    BY <1>3, Frames, Zenon DEF Reserve, table, player, loaded, jobs, saves, disk, aux
  <2>2. NetType'
    BY <1>3, Zenon DEF Reserve, Free, Online, NetType, Place, net
  <2>3. TableType'
    BY <1>3 DEF Reserve, Free, Online, TableType, Admission, table
  <2>4. JoinInv'
    BY <1>3 DEF Reserve, Free, Online, JoinInv, Joins, NetType, TableType, net, table
  <2>5. OnlineInv'
    BY <1>3 DEF Reserve, Free, Online, OnlineInv, Of, TableType, NetType, PlayerType, JobsType,
       net, table, player, jobs
  <2>6. SwitchInv'
    BY <1>3 DEF Reserve, Free, Online, SwitchInv, Of, Detached, JobsType, TableType,
       PlayerType, table, player, jobs
  <2>7. MemberInv'
    BY <1>3, Zenon DEF Reserve, Free, Online, MemberInv, Of, TableType, PlayerType, table, player
  <2>8. LeaveInv'
    BY <1>3, ZenonT(30) DEF Reserve, Free, Online, LeaveInv, SavesType, TableType, RunType, table, saves
  <2> QED
    BY <2>1, <2>2, <2>3, <2>4, <2>5, <2>6, <2>7, <2>8, Zenon
<1>4. CASE QueueJoin(c)
  <2>1. PlayerType' /\ LoadedType' /\ JobsType' /\ SavesType' /\ DiskType' /\ AuxType' /\
       RunType' /\ PhaseInv'
    BY <1>4, Frames, Zenon DEF QueueJoin, Release, table, player, loaded, jobs, saves, disk, aux
  <2>2. NetType'
    BY <1>4, NotifyFacts, DoneFacts, ZenonT(30) DEF QueueJoin, Release, NetType, Place, net
  <2>3. TableType'
    BY <1>4, NotifyFacts DEF QueueJoin, Release, TableType, Admission, table
  <2>4. JoinInv'
    <3>0. conn[c] \in Joins /\ UNCHANGED <<online, bound>>
      BY <1>4, Zenon DEF QueueJoin, Joins
    <3>1. CASE conn' = [conn EXCEPT ![c] = "loading"] /\ UNCHANGED admission
      BY <3>0, <3>1 DEF JoinInv, Joins, NetType
    <3>2. CASE conn' = NotifyWaiters([conn EXCEPT ![c] = "done"]) /\ Release(Owner[c], "joining")
      <4>1. \A b \in Connections : conn'[b] \in Joins <=> b # c /\ conn[b] \in Joins
        BY <3>2, DoneFacts, ZenonT(30) DEF Joins
      <4>2. admission[Owner[c]] = "joining" /\ admission' = [admission EXCEPT ![Owner[c]] = "none"]
        BY <3>0, <3>2, ZenonT(30) DEF Release, JoinInv, TableType
      <4>3. \A b \in Connections : b # c /\ conn[b] \in Joins => Owner[b] # Owner[c]
        BY <3>0, Zenon DEF JoinInv
      <4> QED
        BY <3>0, <4>1, <4>2, <4>3 DEF JoinInv, TableType
    <3> QED
      BY <1>4, <3>1, <3>2, Zenon DEF QueueJoin
  <2>5. OnlineInv'
    <3>0. conn[c] = "reserved" /\ UNCHANGED <<online, bound, won, respawn>>
      BY <1>4, Zenon DEF QueueJoin, player, jobs
    <3>1. CASE conn' = [conn EXCEPT ![c] = "loading"]
      BY <3>0, <3>1, Zenon DEF OnlineInv, NetType, PlayerType
    <3>2. CASE conn' = NotifyWaiters([conn EXCEPT ![c] = "done"])
      BY <3>0, <3>2, DoneFacts, ZenonT(30) DEF OnlineInv, PlayerType
    <3> QED
      BY <1>4, <3>1, <3>2, Zenon DEF QueueJoin
  <2>6. SwitchInv'
    BY <1>4, NotifyFacts DEF QueueJoin, Release, SwitchInv, Of, Detached, JobsType, TableType,
       PlayerType, table, player, jobs
  <2>7. MemberInv'
    BY <1>4, NotifyFacts DEF QueueJoin, Release, MemberInv, Of, TableType, PlayerType, table,
       player
  <2>8. LeaveInv'
    <3>1. UNCHANGED <<online, leaving, game>>
      BY <1>4, Zenon DEF QueueJoin, saves
    <3>2. \A w \in Profiles : admission'[w] = "disconnecting" <=> admission[w] = "disconnecting"
      BY <1>4, Zenon DEF QueueJoin, Release, TableType
    <3> QED
      BY <3>1, <3>2, ZenonT(30) DEF LeaveInv
  <2> QED
    BY <2>1, <2>2, <2>3, <2>4, <2>5, <2>6, <2>7, <2>8
<1>5. CASE LoadJoinDomain(c)
  <2>1. TableType' /\ PlayerType' /\ JobsType' /\ SavesType' /\ DiskType' /\ AuxType' /\
       RunType' /\ SwitchInv' /\ MemberInv' /\ LeaveInv' /\ PhaseInv'
    BY <1>5, Frames, Zenon DEF LoadJoinDomain, table, player, jobs, saves, disk, aux
  <2>2. NetType'
    BY <1>5, Zenon DEF LoadJoinDomain, NetType, Place, net
  <2>3. LoadedType'
    <3>1. CASE domain' = [domain EXCEPT ![c] = last[Owner[c]]] /\ UNCHANGED version
      BY <3>1, Zenon DEF LoadedType, DiskType
    <3>2. CASE version' = [version EXCEPT ![c] = Failed] /\ UNCHANGED domain
      BY <3>2, Zenon DEF LoadedType
    <3> QED
      BY <1>5, <3>1, <3>2, Zenon DEF LoadJoinDomain
  <2>4. JoinInv'
    BY <1>5 DEF LoadJoinDomain, JoinInv, Joins, NetType, TableType, net, table
  <2>5. OnlineInv'
    BY <1>5 DEF LoadJoinDomain, OnlineInv, Of, TableType, NetType, PlayerType, JobsType, net,
       table, player, jobs
  <2> QED
    BY <2>1, <2>2, <2>3, <2>4, <2>5, Zenon
<1>6. CASE LoadPlayerState(c)
  <2>1. TableType' /\ PlayerType' /\ JobsType' /\ SavesType' /\ DiskType' /\ AuxType' /\
       RunType' /\ SwitchInv' /\ MemberInv' /\ LeaveInv' /\ PhaseInv'
    BY <1>6, Frames, Zenon DEF LoadPlayerState, table, player, jobs, saves, disk, aux
  <2>2. NetType'
    BY <1>6, Zenon DEF LoadPlayerState, NetType, Place, net
  <2>3. LoadedType'
    BY <1>6 DEF LoadPlayerState, LoadedType, Failed, DiskType, loaded
  <2>4. JoinInv'
    BY <1>6 DEF LoadPlayerState, JoinInv, Joins, NetType, TableType, net, table
  <2>5. OnlineInv'
    BY <1>6 DEF LoadPlayerState, OnlineInv, Of, TableType, NetType, PlayerType, JobsType, net,
       table, player, jobs
  <2> QED
    BY <2>1, <2>2, <2>3, <2>4, <2>5
<1> QED
  BY <1>1, <1>2, <1>3, <1>4, <1>5, <1>6, LoginTask(c), Zenon DEF LoginTask

\* The storage tasks.
LEMMA StorageOwners ==
  ASSUME OwnersInv, NEW c \in Connections, StorageTask(c)
  PROVE  OwnersInv'
<1> USE Constants, IncarnationFacts DEF OwnersInv, StateType
<1>1. CASE SaveDomain(c)
  <2>1. NetType' /\ TableType' /\ PlayerType' /\ LoadedType' /\ JobsType' /\ RunType' /\
       JoinInv' /\ OnlineInv' /\ SwitchInv' /\ MemberInv'
    BY <1>1, Frames, Zenon DEF SaveDomain, WriteDomain, net, table, player, loaded, jobs
  <2>2. SavesType'
    <3>1. <<<<c, 0>>, at[c]>> \in (Connections \X (0..MaxLives)) \X Domains
      BY DEF PlayerType
    <3>2. globals' \in [Profiles -> Seq((Connections \X (0..MaxLives)) \X Domains)]
      BY <1>1, <3>1 DEF SaveDomain, SavesType
    <3> QED
      BY <1>1, <3>2, Zenon DEF SaveDomain, SavesType
  <2>3. DiskType'
    <3>1. WriteDomain(Owner[c], at[c], final[c]) /\ UNCHANGED last
      BY <1>1, Zenon DEF SaveDomain
    <3>2. at[c] \in Domains /\ final[c] \in Nat
      BY Zenon DEF PlayerType, SavesType
    <3> QED
      BY <3>1, <3>2, WriteDomainFacts, Zenon DEF DiskType
  <2>4. AuxType'
    <3>1. WriteDomain(Owner[c], at[c], final[c]) /\ UNCHANGED home
      BY <1>1, Zenon DEF SaveDomain
    <3>2. at[c] \in Domains /\ final[c] \in Nat
      BY DEF PlayerType, SavesType
    <3> QED
      BY <3>1, <3>2, WriteDomainFacts, Zenon DEF AuxType
  <2>5. LeaveInv'
    BY <1>1, ZenonT(30) DEF SaveDomain, WriteDomain, LeaveInv, SavesType, TableType, RunType,
       table, saves
  <2>6. PhaseInv'
    BY <1>1, Zenon DEF SaveDomain, WriteDomain, PhaseInv, Ending, RunType, JobsType, SavesType,
       TableType, table, jobs, saves
  <2> QED
    BY <2>1, <2>2, <2>3, <2>4, <2>5, <2>6, Zenon
<1>2. ASSUME NEW p \in Incarnations, StoreSource(p)
      PROVE  OwnersInv'
  <2>1. NetType' /\ TableType' /\ PlayerType' /\ LoadedType' /\ SavesType' /\ AuxType' /\
       RunType' /\ JoinInv' /\ OnlineInv' /\ MemberInv' /\ LeaveInv'
    BY <1>2, Frames, Zenon DEF StoreSource, net, table, player, loaded, jobs, saves, aux
  <2>2. JobsType'
    BY <1>2, Zenon DEF StoreSource, JobsType, SwitchPhase, jobs
  <2>3. DiskType'
    <3>1. Of(p) \in Profiles /\ at[p[1]] \in Domains /\ source[p] \in Nat
      BY Zenon DEF PlayerType, JobsType
    <3>2. CASE stored' = [stored EXCEPT ![Of(p)][at[p[1]]] = source[p]] /\ UNCHANGED last
      <4>1. stored' \in [Profiles -> [Domains -> Nat]]
        BY <3>1, <3>2, WriteFacts, Zenon DEF DiskType
      <4> QED
        BY <3>2, <4>1, Zenon DEF DiskType
    <3> QED
      BY <1>2, <3>2, Zenon DEF StoreSource, DiskType
  <2>4. SwitchInv'
    <3>1. \A q \in Incarnations : switch'[q] \in Detached <=> switch[q] \in Detached
      BY <1>2, Zenon DEF StoreSource, JobsType, Detached
    <3> QED
      BY <1>2, <3>1 DEF StoreSource, SwitchInv, TableType, table, player
  <2>5. PhaseInv'
    BY <1>2, ZenonT(30) DEF StoreSource, PhaseInv, Ending, RunType, JobsType, SavesType, TableType,
       table,
       jobs, saves
  <2> QED
    BY <2>1, <2>2, <2>3, <2>4, <2>5, Zenon
<1>3. ASSUME NEW p \in Incarnations, LoadTarget(p)
      PROVE  OwnersInv'
  <2>1. NetType' /\ TableType' /\ PlayerType' /\ LoadedType' /\ SavesType' /\ DiskType' /\
       AuxType' /\ RunType' /\ JoinInv' /\ OnlineInv' /\ MemberInv' /\ LeaveInv'
    BY <1>3, Frames, Zenon DEF LoadTarget, net, table, player, loaded, jobs, saves, disk, aux
  <2>2. JobsType'
    <3>1. stored[Of(p)][target[p]] \in Nat
      BY ZenonT(30) DEF DiskType, JobsType
    <3> QED
      BY <1>3, <3>1, ZenonT(30) DEF LoadTarget, JobsType, SwitchPhase
  <2>3. SwitchInv'
    BY <1>3 DEF LoadTarget, SwitchInv, Of, Detached, JobsType, TableType, PlayerType, table,
       player, jobs
  <2>4. PhaseInv'
    BY <1>3, ZenonT(30) DEF LoadTarget, PhaseInv, Ending, RunType, JobsType, SavesType, TableType,
       table,
       jobs, saves
  <2> QED
    BY <2>1, <2>2, <2>3, <2>4, Zenon
<1> QED
  BY <1>1, <1>2, <1>3, StorageTask(c), ZenonT(30) DEF StorageTask

\* Players, clients and the stop of the server.
LEMMA EnvironmentOwners ==
  ASSUME OwnersInv, Environment
  PROVE  OwnersInv'
<1> USE Constants, IncarnationFacts DEF OwnersInv, StateType
<1>1. CASE Stop
  <2>1. NetType' /\ TableType' /\ PlayerType' /\ LoadedType' /\ JobsType' /\ SavesType' /\
       DiskType' /\ AuxType' /\ JoinInv' /\ OnlineInv' /\ SwitchInv' /\ MemberInv'
    BY <1>1, Frames, Zenon DEF Stop, Enter, net, table, player, loaded, jobs, saves, disk, aux
  <2>2. RunType'
    BY <1>1, Zenon DEF Stop, Enter, AllJobs, RunType, GamePhase
  <2>3. LeaveInv'
    BY <1>1, ZenonT(30) DEF Stop, Enter, LeaveInv, table, saves
  <2>4. PhaseInv'
    BY <1>1, Zenon DEF Stop, Enter, AllJobs, PhaseInv, Ending, RunType, JobsType, SavesType,
       TableType, table, jobs, saves
  <2> QED
    BY <2>1, <2>2, <2>3, <2>4, Zenon
<1>2. ASSUME NEW c \in Connections, BeginLogin(c)
      PROVE  OwnersInv'
  <2>1. TableType' /\ PlayerType' /\ LoadedType' /\ JobsType' /\ SavesType' /\ DiskType' /\
       AuxType' /\ RunType' /\ SwitchInv' /\ MemberInv' /\ LeaveInv' /\ PhaseInv'
    BY <1>2, Frames, Zenon DEF BeginLogin, table, player, loaded, jobs, saves, disk, aux
  <2>2. NetType'
    BY <1>2, Zenon DEF BeginLogin, NetType, Place, net
  <2>3. JoinInv'
    BY <1>2 DEF BeginLogin, JoinInv, Joins, NetType, TableType, net, table
  <2>4. OnlineInv'
    BY <1>2 DEF BeginLogin, OnlineInv, Of, TableType, NetType, PlayerType, JobsType, net,
       table, player, jobs
  <2> QED
    BY <2>1, <2>2, <2>3, <2>4, Zenon
<1>3. ASSUME NEW c \in Connections, Close(c)
      PROVE  OwnersInv'
  <2>1. TableType' /\ PlayerType' /\ LoadedType' /\ JobsType' /\ SavesType' /\ DiskType' /\
       AuxType' /\ RunType' /\ JoinInv' /\ OnlineInv' /\ SwitchInv' /\ MemberInv' /\ LeaveInv'
       /\ PhaseInv'
    BY <1>3, Frames, Zenon DEF Close, net, table, player, loaded, jobs, saves, disk, aux
  <2>2. NetType'
    BY <1>3, Zenon DEF Close, NetType, Place, net
  <2> QED
    BY <2>1, <2>2, Zenon
<1>4. ASSUME NEW p \in Incarnations, Play(p)
      PROVE  OwnersInv'
  <2>1. NetType' /\ TableType' /\ LoadedType' /\ JobsType' /\ SavesType' /\ DiskType' /\
       RunType' /\ JoinInv' /\ OnlineInv' /\ SwitchInv' /\ MemberInv' /\ LeaveInv' /\ PhaseInv'
    BY <1>4, Frames, Zenon DEF Play, net, table, player, loaded, jobs, saves, disk
  <2>2. PlayerType'
    BY <1>4 DEF Play, Live, PlayerType, player
  <2>3. AuxType'
    BY <1>4 DEF Play, Live, AuxType, PlayerType, aux
  <2> QED
    BY <2>1, <2>2, <2>3, Zenon
<1>5. ASSUME NEW p \in Incarnations, ShowEndCredits(p)
      PROVE  OwnersInv'
  <2>1. NetType' /\ LoadedType' /\ JobsType' /\ SavesType' /\ DiskType' /\ AuxType' /\ RunType'
       /\ JoinInv' /\ LeaveInv' /\ PhaseInv'
    BY <1>5, Frames, Zenon DEF ShowEndCredits, net, table, loaded, jobs, saves, disk, aux
  <2>2. TableType'
    BY <1>5, Zenon DEF ShowEndCredits, Live, TableType, Admission, table
  <2>3. PlayerType'
    BY <1>5, Zenon DEF ShowEndCredits, Live, PlayerType, player
  <2>4. OnlineInv'
    BY <1>5 DEF ShowEndCredits, Live, OnlineInv, Of, TableType, NetType, PlayerType, JobsType,
       net, table, player, jobs
  <2>5. SwitchInv'
    BY <1>5 DEF ShowEndCredits, Live, SwitchInv, Of, Detached, JobsType, TableType, PlayerType,
       MemberInv, table, player, jobs
  <2>6. MemberInv'
    BY <1>5, Zenon DEF ShowEndCredits, Live, MemberInv, Of, TableType, PlayerType, table, player
  <2> QED
    BY <2>1, <2>2, <2>3, <2>4, <2>5, <2>6, Zenon
<1>6. ASSUME NEW p \in Incarnations, RequestRespawn(p)
      PROVE  OwnersInv'
  <2>1. NetType' /\ TableType' /\ PlayerType' /\ LoadedType' /\ SavesType' /\ DiskType' /\
       AuxType' /\ RunType' /\ JoinInv' /\ SwitchInv' /\ MemberInv' /\ LeaveInv' /\ PhaseInv'
    BY <1>6, Frames, Zenon DEF RequestRespawn, net, table, player, loaded, jobs, saves, disk, aux
  <2>2. JobsType'
    BY <1>6, Zenon DEF RequestRespawn, JobsType, SwitchPhase, jobs
  <2>3. OnlineInv'
    BY <1>6, Zenon DEF RequestRespawn, OnlineInv, Of, TableType, NetType, PlayerType, JobsType, net,
       table, player, jobs
  <2> QED
    BY <2>1, <2>2, <2>3, Zenon
<1>7. ASSUME NEW p \in Incarnations, NEW d \in Domains, QueueSwitch(p, d)
      PROVE  OwnersInv'
  <2>1. NetType' /\ TableType' /\ PlayerType' /\ LoadedType' /\ SavesType' /\ DiskType' /\
       AuxType' /\ RunType' /\ JoinInv' /\ OnlineInv' /\ MemberInv' /\ LeaveInv'
    BY <1>7, Frames, Zenon DEF QueueSwitch, Playing, Pending, net, table, player, loaded, jobs, saves,
       disk, aux
  <2>2. JobsType'
    BY <1>7, Zenon DEF QueueSwitch, Live, Playing, Pending, JobsType, SwitchPhase, jobs
  <2>3. SwitchInv'
    BY <1>7 DEF QueueSwitch, Live, Playing, Pending, SwitchInv, Of, Detached, JobsType,
       TableType, PlayerType, table, player, jobs
  <2>4. PhaseInv'
    BY <1>7, ZenonT(30) DEF QueueSwitch, Live, Playing, Pending, PhaseInv, Ending, RunType, JobsType,
       SavesType, TableType, table, jobs, saves
  <2> QED
    BY <2>1, <2>2, <2>3, <2>4, Zenon
<1>8. ASSUME NEW p \in Incarnations, PlayLate(p)
      PROVE  OwnersInv'
  <2>1. NetType' /\ TableType' /\ LoadedType' /\ JobsType' /\ SavesType' /\ DiskType' /\ AuxType' /\
       RunType' /\ JoinInv' /\ OnlineInv' /\ SwitchInv' /\ MemberInv' /\ LeaveInv' /\ PhaseInv'
    BY <1>8, Frames, Zenon DEF PlayLate, net, table, player, loaded, jobs, saves, disk, aux
  <2>2. PlayerType'
    BY <1>8 DEF PlayLate, PlayerType, player
  <2> QED
    BY <2>1, <2>2, Zenon
<1> QED
  BY <1>1, <1>2, <1>3, <1>4, <1>5, <1>6, <1>7, <1>8, Environment, Zenon DEF Environment

\* The game thread goes from phase to phase.
LEMMA PhaseOwners ==
  ASSUME OwnersInv, BeginTick \/ DrainDisconnects \/ TickWorlds \/ BeginJobs \/ BeginJoins \/ BeginSwitches
           \/ EndTick \/ EndShutdown \/ EndLoop \/ BeginShutdown
  PROVE  OwnersInv'
<1> USE Constants, IncarnationFacts DEF OwnersInv, StateType
<1>1. CASE BeginTick \/ DrainDisconnects
  <2>1. NetType' /\ TableType' /\ PlayerType' /\ LoadedType' /\ JobsType' /\ DiskType' /\
       AuxType' /\ JoinInv' /\ OnlineInv' /\ SwitchInv' /\ MemberInv'
    BY <1>1, Frames, Zenon DEF BeginTick, DrainDisconnects, StartDisconnects, Enter, net, table,
       player, loaded, jobs, disk, aux
  <2>2. SavesType'
    BY <1>1, Zenon DEF BeginTick, DrainDisconnects, StartDisconnects, Enter, SavesType, saves
  <2>3. RunType'
    BY <1>1, Zenon DEF BeginTick, DrainDisconnects, StartDisconnects, Enter, RunType, GamePhase
  <2>4. LeaveInv'
    <3>1. \A c \in Connections : leaving'[c] # "none" <=> leaving[c] # "none"
      BY <1>1, Zenon DEF BeginTick, DrainDisconnects, StartDisconnects
    <3>2. /\ game \notin {"saving", "down"} /\ game' \notin {"saving", "down"}
          /\ UNCHANGED <<admission, online>>
      BY <1>1, Zenon DEF BeginTick, DrainDisconnects, StartDisconnects, Enter, table
    <3> QED
      BY <3>1, <3>2 DEF LeaveInv
  <2>5. PhaseInv'
    BY <1>1, ZenonT(30) DEF BeginTick, DrainDisconnects, StartDisconnects, Enter, PhaseInv, Ending,
       RunType, JobsType, SavesType, TableType, table, jobs, saves
  <2> QED
    BY <2>1, <2>2, <2>3, <2>4, <2>5, Zenon
<1>2. CASE TickWorlds \/ BeginJobs \/ BeginJoins \/ BeginSwitches \/ EndTick \/ EndShutdown
  <2>1. NetType' /\ TableType' /\ PlayerType' /\ LoadedType' /\ JobsType' /\ SavesType' /\
       DiskType' /\ AuxType' /\ JoinInv' /\ OnlineInv' /\ SwitchInv' /\ MemberInv'
    BY <1>2, Frames, ZenonT(30) DEF TickWorlds, BeginJobs, BeginJoins, BeginSwitches, EndTick,
       EndShutdown,
       Enter, net, table, player, loaded, jobs, saves, disk, aux
  <2>2. RunType'
    BY <1>2, Zenon DEF TickWorlds, BeginJobs, BeginJoins, BeginSwitches, EndTick, EndShutdown, Enter,
       RunType, GamePhase
  <2>3. LeaveInv'
    BY <1>2, SMTT(30) DEF TickWorlds, BeginJobs, BeginJoins, BeginSwitches, EndTick, EndShutdown, Enter,
       LeaveInv, SavesType, TableType, RunType, table, saves
  <2>4. PhaseInv'
    BY <1>2, Zenon DEF TickWorlds, BeginJobs, BeginJoins, BeginSwitches, EndTick, EndShutdown, Enter,
       PhaseInv, Ending, RunType, JobsType, SavesType, TableType, table, jobs, saves
  <2> QED
    BY <2>1, <2>2, <2>3, <2>4, Zenon
<1>3. CASE EndLoop
  <2>1. NetType' /\ TableType' /\ PlayerType' /\ LoadedType' /\ JobsType' /\ DiskType' /\
       AuxType' /\ JoinInv' /\ OnlineInv' /\ SwitchInv' /\ MemberInv'
    BY <1>3, Frames, Zenon DEF EndLoop, Enter, SavesJoined, net, table, player, loaded, jobs, disk,
       aux
  <2>2. SavesType'
    BY <1>3, Zenon DEF EndLoop, Enter, SavesJoined, SavesType, saves
  <2>3. RunType'
    BY <1>3, Zenon DEF EndLoop, Enter, SavesJoined, RunType, GamePhase
  <2>4. LeaveInv'
    <3>1. \A c \in Connections : leaving[c] = "none" /\ leaving'[c] = "none"
      BY <1>3, Zenon DEF EndLoop, SavesJoined, PhaseInv, Ending
    <3> QED
      BY <1>3, <3>1, ZenonT(30) DEF EndLoop, Enter, LeaveInv, table
  <2>5. PhaseInv'
    BY <1>3, Zenon DEF EndLoop, Enter, SavesJoined, PhaseInv, Ending, RunType, JobsType, SavesType,
       TableType, table, jobs, saves
  <2> QED
    BY <2>1, <2>2, <2>3, <2>4, <2>5, SMTT(30)
<1>4. CASE BeginShutdown
  <2>1. PlayerType' /\ LoadedType' /\ JobsType' /\ SavesType' /\ DiskType' /\ AuxType' /\
       OnlineInv'
    BY <1>4, Frames, Zenon DEF BeginShutdown, Enter, net, table, player, loaded, jobs, saves, disk,
       aux
  <2>2. NetType'
    BY <1>4 DEF BeginShutdown, Enter, Online, NetType, Place, TableType, net
  <2>3. TableType'
    BY <1>4, Zenon DEF BeginShutdown, Enter, Online, TableType, Admission, table
  <2>4. RunType'
    BY <1>4, Zenon DEF BeginShutdown, Enter, Online, RunType, GamePhase
  <2>5. JoinInv'
    BY <1>4 DEF BeginShutdown, Enter, Online, JoinInv, Joins, NetType, TableType, net, table
  <2>6. SwitchInv'
    BY <1>4, Zenon DEF BeginShutdown, Enter, Online, SwitchInv, Of, Detached, JobsType, TableType,
       PlayerType, table, player, jobs
  <2>7. MemberInv'
    BY <1>4, Zenon DEF BeginShutdown, Enter, Online, MemberInv, Of, TableType, PlayerType, table,
       player
  <2>8. LeaveInv'
    <3>1. game = "ended" /\ game' = "saving" /\ UNCHANGED <<online, leaving>>
      BY <1>4, Zenon DEF BeginShutdown, Enter, saves
    <3>2. \A u \in Profiles : online[u] # Nobody => admission[u] = "none"
      BY <3>1 DEF JoinInv, SwitchInv, LeaveInv, PhaseInv, Ending, Detached, OnlineInv, TableType,
         Admission
    <3>3. \A u \in Profiles : admission'[u] =
            IF online[u] # Nobody THEN "disconnecting" ELSE admission[u]
      BY <1>4, <3>2, Zenon DEF BeginShutdown, Online
    <3> QED
      BY <3>1, <3>2, <3>3 DEF LeaveInv
  <2>9. PhaseInv'
    BY <1>4, Zenon DEF BeginShutdown, Enter, Online, PhaseInv, Ending, RunType, JobsType, SavesType,
       TableType, table, jobs, saves
  <2> QED
    BY <2>1, <2>2, <2>3, <2>4, <2>5, <2>6, <2>7, <2>8, <2>9, Zenon
<1> QED
  BY <1>1, <1>2, <1>3, <1>4, BeginTick \/ DrainDisconnects \/ TickWorlds \/ BeginJobs \/
     BeginJoins \/ BeginSwitches            \/ EndTick \/ EndShutdown \/ EndLoop \/
     BeginShutdown, Zenon

-----------------------------------------------------------------------------
(* The game thread: disconnects.                                           *)

\* What Disconnect and QuitSwitch do to a player that is online.
Removal(p, place, v) ==
  /\ admission' = [admission EXCEPT ![Of(p)] = "disconnecting"]
  /\ members' = members \ {p}
  /\ RemoveOnline(p)
  /\ Hand(p, place, v)

LEMMA RemovalFacts ==
  ASSUME OwnersInv, NEW p \in Incarnations, online[Of(p)] = p,
         NEW place \in {"prepared", "domain"}, NEW v \in Nat, Removal(p, place, v)
  PROVE  /\ conn' \in [Connections -> Place] /\ conn'[p[1]] = "done"
         /\ \A b \in Connections : conn'[b] \in Joins <=> conn[b] \in Joins
         /\ \A b \in Connections : b # p[1] /\ conn[b] \in {"play", "done"} => conn'[b] = conn[b]
         /\ admission' \in [Profiles -> Admission] /\ admission'[Of(p)] = "disconnecting"
         /\ online' \in [Profiles -> Incarnations \cup {Nobody}] /\ online'[Of(p)] = Nobody
         /\ \A w \in Profiles : w # Of(p) =>
              /\ admission'[w] = admission[w] /\ online'[w] = online[w]
              /\ online[w] # Nobody => online[w][1] # p[1]
         /\ bound' \in [Connections -> 0..MaxLives]
         /\ \A b \in Connections : b # p[1] => bound'[b] = bound[b]
         /\ leaving' \in [Connections -> {"none", "prepared", "domain", "global"}]
         /\ leaving'[p[1]] = place /\ \A b \in Connections : b # p[1] => leaving'[b] = leaving[b]
         /\ final' \in [Connections -> Nat] /\ members' \subseteq Incarnations
<1> USE Constants, IncarnationFacts DEF OwnersInv, StateType
<1>1. p[1] \in Connections /\ Of(p) \in Profiles /\ conn[p[1]] = "play"
  BY DEF OnlineInv
<1>2. /\ conn' \in [Connections -> Place] /\ conn'[p[1]] = "done"
      /\ \A b \in Connections : b # p[1] => conn'[b] = conn[b] \/ (conn[b] = "waiting" /\ conn'[b] = "login")
  BY <1>1, DoneFacts, ZenonT(30) DEF Removal, RemoveOnline
<1>3. \A b \in Connections : conn'[b] \in Joins <=> conn[b] \in Joins
  BY <1>1, <1>2, Zenon DEF Joins
<1>4. \A b \in Connections : b # p[1] /\ conn[b] \in {"play", "done"} => conn'[b] = conn[b]
  BY <1>2, Zenon
<1>5. /\ admission' \in [Profiles -> Admission] /\ admission'[Of(p)] = "disconnecting"
      /\ \A w \in Profiles : w # Of(p) => admission'[w] = admission[w]
  BY <1>1, Zenon DEF Removal, TableType, Admission
<1>6. /\ online' \in [Profiles -> Incarnations \cup {Nobody}] /\ online'[Of(p)] = Nobody
      /\ \A w \in Profiles : w # Of(p) => online'[w] = online[w]
  BY <1>1, Zenon DEF Removal, RemoveOnline, TableType
<1>7. \A w \in Profiles : w # Of(p) /\ online[w] # Nobody => online[w][1] # p[1]
  BY DEF OnlineInv, Of
<1>8. bound' \in [Connections -> 0..MaxLives] /\ \A b \in Connections : b # p[1] => bound'[b] = bound[b]
  BY <1>1 DEF Removal, RemoveOnline, TableType
<1>9. /\ leaving' \in [Connections -> {"none", "prepared", "domain", "global"}]
      /\ leaving'[p[1]] = place /\ \A b \in Connections : b # p[1] => leaving'[b] = leaving[b]
      /\ final' \in [Connections -> Nat]
  BY <1>1, Zenon DEF Removal, Hand, SavesType
<1>10. members' \subseteq Incarnations
  BY Zenon DEF Removal, TableType
<1> QED
  BY <1>2, <1>3, <1>4, <1>5, <1>6, <1>7, <1>8, <1>9, <1>10, Zenon

\* The profile passes from the player to the save of its data.
LEMMA RemovalOwners ==
  ASSUME OwnersInv, NEW p \in Incarnations, online[Of(p)] = p,
         NEW place \in {"prepared", "domain"}, NEW v \in Nat, Removal(p, place, v),
         admission[Of(p)] \in {"none", "relocating"}, closed' \subseteq Connections,
         switch' = [switch EXCEPT ![p] = IF @ \in Detached THEN "none" ELSE @],
         game \notin Ending \/ (game = "draining" /\ place = "domain"),
         game = "cancelling" => todo' = todo \ {<<"switch", p>>},
         switch'[p] \in {"none", "queued"} \/ game # "cancelling",
         UNCHANGED <<player, loaded, target, source, arrival, respawn, queued, globals, disk, aux, game>>
  PROVE  OwnersInv'
<1> USE Constants, IncarnationFacts DEF OwnersInv, StateType
<1>1. NetType' /\ TableType'
  BY RemovalFacts, ZenonT(30) DEF NetType, TableType
<1>2. PlayerType' /\ LoadedType' /\ DiskType' /\ AuxType' /\ RunType'
  BY Frames, Zenon DEF player, loaded, disk, aux
<1>3. JobsType'
  BY Zenon DEF JobsType, SwitchPhase
<1>4. SavesType'
  BY RemovalFacts, ZenonT(30) DEF SavesType
<1>5. JoinInv'
  BY RemovalFacts DEF JoinInv, Joins, OnlineInv
<1>6. OnlineInv'
  <2>1. ASSUME NEW w \in Profiles, online'[w] # Nobody
        PROVE  /\ online'[w] \in Incarnations /\ Of(online'[w]) = w
               /\ conn'[online'[w][1]] = "play" /\ bound'[online'[w][1]] = online'[w][2]
    <3>1. w # Of(p) /\ online'[w] = online[w] /\ online[w] # Nobody /\ online[w][1] # p[1]
      BY <2>1, RemovalFacts
    <3> QED
      BY <3>1, RemovalFacts DEF OnlineInv
  <2>2. \A c \in won' : conn'[c] \in {"play", "done"}
    BY RemovalFacts, SMTT(30) DEF OnlineInv, player, PlayerType
  <2> QED
    BY <2>1, <2>2, Zenon DEF OnlineInv, Of
<1>7. SwitchInv'
  <2>1. ASSUME NEW q \in Incarnations, switch'[q] \in Detached
        PROVE  admission'[Of(q)] = "relocating" /\ online'[Of(q)] = q /\ q[1] \notin won'
    <3>1. q # p /\ switch[q] \in Detached
      BY <2>1, Zenon DEF JobsType, Detached
    <3>2. Of(q) # Of(p)
      BY <3>1, Zenon DEF SwitchInv
    <3> QED
      BY <3>1, <3>2, RemovalFacts DEF SwitchInv, player
  <2>2. ASSUME NEW w \in Profiles, admission'[w] = "relocating"
        PROVE  online'[w] # Nobody /\ switch'[online'[w]] \in Detached
    <3>1. w # Of(p) /\ online'[w] = online[w] /\ admission[w] = "relocating"
      BY <2>2, RemovalFacts
    <3>2. online[w] # Nobody /\ switch[online[w]] \in Detached /\ online[w] \in Incarnations /\ online[w] # p
      BY <3>1 DEF SwitchInv, OnlineInv
    <3> QED
      BY <3>1, <3>2, Zenon DEF JobsType
  <2> QED
    BY <2>1, <2>2, Zenon DEF SwitchInv, Of
<1>8. MemberInv'
  <2>1. ASSUME NEW q \in members'
        PROVE  online'[Of(q)] = q /\ admission'[Of(q)] # "relocating" /\ q[1] \notin won'
    <3>1. q \in members /\ q # p /\ q \in Incarnations
      BY <2>1, Zenon DEF Removal, TableType
    <3>2. Of(q) # Of(p)
      BY <3>1, Zenon DEF MemberInv
    <3> QED
      BY <3>1, <3>2, RemovalFacts DEF MemberInv, player
  <2>2. ASSUME NEW w \in Profiles, online'[w] # Nobody, admission'[w] # "relocating",
               online'[w][1] \notin won'
        PROVE  online'[w] \in members'
    <3>1. w # Of(p) /\ online'[w] = online[w] /\ admission'[w] = admission[w]
      BY <2>2, RemovalFacts
    <3>2. online[w] \in members /\ online[w] # p
      BY <2>2, <3>1, ZenonT(30) DEF MemberInv, OnlineInv, player
    <3> QED
      BY <3>1, <3>2, Zenon DEF Removal
  <2> QED
    BY <2>1, <2>2, Zenon DEF MemberInv, Of
<1>9. LeaveInv'
  BY RemovalFacts DEF LeaveInv, Ending
<1>10. PhaseInv'
  BY RemovalFacts, SMTT(30) DEF PhaseInv, Ending, JobsType
<1> QED
  BY <1>1, <1>2, <1>3, <1>4, <1>5, <1>6, <1>7, <1>8, <1>9, <1>10, Zenon

LEMMA DisconnectOwners ==
  ASSUME OwnersInv, NEW p \in Incarnations, Disconnect(p)
  PROVE  OwnersInv'
<1> USE Constants, IncarnationFacts DEF OwnersInv, StateType
<1>1. CASE UNCHANGED <<conn, table, leaving, final>>
  BY <1>1, Frames, Disconnect(p), ZenonT(30) DEF Disconnect, Visit, PhaseInv, Ending, NetType,
     table, player, loaded, jobs,
     disk, aux, SavesType
<1>2. CASE admission[Of(p)] = "none" /\ online[Of(p)] = p
  <2>1. live[p[1]] \in Nat /\ switch[p] \notin Detached
    BY <1>2, Zenon DEF PlayerType, SwitchInv
  <2>2. switch' = [switch EXCEPT ![p] = IF @ \in Detached THEN "none" ELSE @]
    BY <2>1, Disconnect(p), Zenon DEF Disconnect, jobs, JobsType
  <2>3. Removal(p, "domain", live[p[1]])
    BY <1>2, Disconnect(p), Zenon DEF Disconnect, Removal
  <2>4. game \notin Ending \/ game = "draining"
    BY Disconnect(p), Zenon DEF Disconnect, Ending
  <2>5. game # "cancelling"
    BY Disconnect(p), Zenon DEF Disconnect
  <2>6. /\ closed' \subseteq Connections
        /\ UNCHANGED <<player, loaded, target, source, arrival, respawn, queued, globals, disk, aux, game>>
    BY Disconnect(p), Zenon DEF Disconnect, Visit, NetType, jobs
  <2> QED
    BY <1>2, <2>1, <2>2, <2>3, <2>4, <2>5, <2>6, RemovalOwners, ZenonT(30)
<1> QED
  BY <1>1, <1>2, Disconnect(p), Zenon DEF Disconnect

\* The job of a detached switch ends with its connection.
LEMMA QuitSwitchOwners ==
  ASSUME OwnersInv, NEW p \in Incarnations, switch[p] \in Detached, QuitSwitch(p),
         game \in {"jobs", "cancelling"}, Visit(<<"switch", p>>)
  PROVE  OwnersInv'
<1> USE Constants, IncarnationFacts DEF OwnersInv, StateType
<1>1. admission[Of(p)] = "relocating" /\ online[Of(p)] = p /\ source[p] \in Nat
  BY Zenon DEF SwitchInv, JobsType
<1>2. Removal(p, "prepared", source[p])
  BY <1>1, Zenon DEF QuitSwitch, Removal
<1>3. /\ switch' = [switch EXCEPT ![p] = IF @ \in Detached THEN "none" ELSE @]
      /\ switch'[p] \in {"none", "queued"}
  BY Zenon DEF QuitSwitch, JobsType
<1>4. /\ closed' \subseteq Connections
      /\ UNCHANGED <<player, loaded, target, source, arrival, respawn, queued, globals, disk, aux, game>>
  BY Zenon DEF QuitSwitch, Visit, NetType
<1>5. game \notin Ending /\ todo' = todo \ {<<"switch", p>>}
  BY Zenon DEF Ending, Visit
<1> QED
  BY <1>1, <1>2, <1>3, <1>4, <1>5, RemovalOwners, ZenonT(30)

\* A committed switch forgets its save of the active domain.
LEMMA QuitGlobalOwners ==
  ASSUME OwnersInv, NEW p \in Incarnations, switch[p] \notin Detached, QuitGlobal(p),
         game \in {"jobs", "cancelling"}, Visit(<<"switch", p>>)
  PROVE  OwnersInv'
<1> USE Constants, IncarnationFacts DEF OwnersInv, StateType
<1>1. JobsType' /\ PhaseInv' /\ SwitchInv'
  <2>1. JobsType'
    BY Zenon DEF QuitGlobal, JobsType, SwitchPhase
  <2>2. PhaseInv'
    BY Zenon DEF QuitGlobal, Visit, PhaseInv, Ending, JobsType, saves
  <2>3. \A q \in Incarnations : switch'[q] \in Detached <=> switch[q] \in Detached
    BY Zenon DEF QuitGlobal, JobsType, Detached
  <2>4. SwitchInv'
    BY <2>3, Zenon DEF QuitGlobal, SwitchInv, OnlineInv, table, player
  <2> QED
    BY <2>1, <2>2, <2>4, Zenon
<1> QED
  BY <1>1, Frames, Zenon DEF QuitGlobal, Visit, net, table, player, loaded, jobs, saves, disk, aux

\* A respawn job ends.
LEMMA EndRespawnOwners ==
  ASSUME OwnersInv, NEW p \in Incarnations, respawn' = respawn \ {p}, Visit(<<"respawn", p>>),
         UNCHANGED <<net, table, player, loaded, switch, target, source, arrival, saves, disk, aux>>
  PROVE  OwnersInv'
<1> USE Constants, IncarnationFacts DEF OwnersInv, StateType
<1>1. JobsType' /\ PhaseInv' /\ OnlineInv'
  <2>1. JobsType'
    BY Zenon DEF JobsType
  <2>2. PhaseInv'
    BY Zenon DEF Visit, PhaseInv, Ending, table, saves
  <2>3. OnlineInv'
    BY Zenon DEF OnlineInv, net, table, player
  <2> QED
    BY <2>1, <2>2, <2>3, Zenon
<1> QED
  BY <1>1, Frames, Zenon DEF Visit, net, table, player, loaded, saves, disk, aux

LEMMA EndJobOwners ==
  ASSUME OwnersInv, NEW p \in Incarnations,
         LeaveSwitch(p) \/ FinishSwitch(p) \/ LeaveRespawn(p) \/ CancelJob(p)
  PROVE  OwnersInv'
<1>1. CASE LeaveSwitch(p)
  BY <1>1, QuitSwitchOwners, Zenon DEF LeaveSwitch
<1>2. CASE FinishSwitch(p)
  BY <1>2, QuitGlobalOwners, Zenon DEF FinishSwitch, Detached
<1>3. CASE LeaveRespawn(p)
  BY <1>3, EndRespawnOwners, Zenon DEF LeaveRespawn
<1>4. CASE CancelJob(p)
  BY <1>4, QuitSwitchOwners, QuitGlobalOwners, EndRespawnOwners, Zenon DEF CancelJob, Detached
<1> QED
  BY <1>1, <1>2, <1>3, <1>4, Zenon

\* save_and_shutdown writes one player.
LEMMA SaveAtShutdownOwners ==
  ASSUME OwnersInv, NEW u \in Profiles, SaveAtShutdown(u)
  PROVE  OwnersInv'
<1> USE Constants, IncarnationFacts DEF OwnersInv, StateType
<1>1. online[u] \in Incarnations
  BY Zenon DEF SaveAtShutdown, Visit, PhaseInv, OnlineInv
<1> DEFINE c == online[u][1]
<1>2. c \in Connections /\ at[c] \in Domains /\ live[c] \in Nat
  BY <1>1, Zenon DEF PlayerType
<1>3. DiskType' /\ AuxType'
  <2>1. CASE WriteDomain(u, at[c], live[c]) /\ last' = [last EXCEPT ![u] = at[c]] /\ UNCHANGED home
    BY <1>2, <2>1, WriteDomainFacts, Zenon DEF DiskType, AuxType
  <2>2. CASE /\ stored' = [stored EXCEPT ![u][at[c]] = live[c]]
             /\ WriteGlobal(u, at[c]) /\ UNCHANGED latest
    <3>1. stored' \in [Profiles -> [Domains -> Nat]]
      BY <1>2, <2>2, WriteFacts, Zenon DEF DiskType
    <3>2. last' \in [Profiles -> Domains]
      BY <1>2, <2>2, Zenon DEF WriteGlobal, DiskType
    <3>3. home' \in [Profiles -> Domains]
      BY <2>2, ZenonT(30) DEF WriteGlobal, DiskType, AuxType
    <3> QED
      BY <2>2, <3>1, <3>2, <3>3, Zenon DEF DiskType, AuxType
  <2>3. CASE WritesFail(u, at[c])
    <3>1. latest' \in [Profiles -> [Domains -> Nat]]
      BY <1>2, <2>3, WriteFacts DEF WritesFail, DiskType, AuxType
    <3>2. home' \in [Profiles -> Domains]
      BY <2>3, Zenon DEF WritesFail, DiskType, AuxType
    <3> QED
      BY <2>3, <3>1, <3>2, Zenon DEF WritesFail, DiskType, AuxType
  <2> QED
    BY <2>1, <2>2, <2>3, Zenon DEF SaveAtShutdown
<1>4. PhaseInv'
  BY Zenon DEF SaveAtShutdown, Visit, PhaseInv, Ending, table, jobs, saves
<1> QED
  BY <1>3, <1>4, Frames, Zenon DEF SaveAtShutdown, Visit, net, table, player, loaded, jobs, saves

-----------------------------------------------------------------------------
(* The game thread: switches, respawns and joins.                          *)

LEMMA AwaitOwners ==
  ASSUME OwnersInv, NEW p \in Incarnations, AwaitSwitch(p) \/ AwaitRespawn(p)
  PROVE  OwnersInv'
<1> USE Constants, IncarnationFacts DEF OwnersInv, StateType
<1>1. PhaseInv'
  BY Zenon DEF AwaitSwitch, AwaitRespawn, Visit, PhaseInv, Ending, table, jobs, saves
<1> QED
  BY <1>1, Frames, Zenon DEF AwaitSwitch, AwaitRespawn, Visit, net, table, player, loaded, jobs,
     saves, disk, aux

LEMMA StartSwitchOwners ==
  ASSUME OwnersInv, NEW p \in Incarnations, StartSwitch(p)
  PROVE  OwnersInv'
<1> USE Constants, IncarnationFacts DEF OwnersInv, StateType
<1>1. /\ online[Of(p)] = p /\ p \in members /\ admission[Of(p)] = "none" /\ p[1] \notin won
      /\ switch[p] = "queued" /\ game = "switches" /\ live[p[1]] \in Nat
  BY Zenon DEF StartSwitch, Live, MemberInv, PlayerType
<1>2. /\ admission' = [admission EXCEPT ![Of(p)] = "relocating"]
      /\ members' = members \ {p} /\ switch' = [switch EXCEPT ![p] = "storing"]
      /\ source' = [source EXCEPT ![p] = live[p[1]]]
      /\ UNCHANGED <<net, online, bound, player, loaded, target, arrival, respawn, saves, disk, aux, game>>
  BY Zenon DEF StartSwitch, Visit, LeaveWorld
<1>3. /\ admission'[Of(p)] = "relocating" /\ \A w \in Profiles : w # Of(p) => admission'[w] = admission[w]
      /\ switch'[p] = "storing" /\ \A q \in Incarnations : q # p => switch'[q] = switch[q]
      /\ \A q \in Incarnations : q # p => online[Of(q)] # q \/ Of(q) # Of(p)
  BY <1>1, <1>2, Zenon DEF TableType, JobsType
<1>4. TableType' /\ JobsType'
  BY <1>1, <1>2, Zenon DEF TableType, JobsType, Admission, SwitchPhase
<1>5. NetType' /\ PlayerType' /\ LoadedType' /\ SavesType' /\ DiskType' /\ AuxType' /\ RunType' /\ OnlineInv'
  BY <1>2, Frames, Zenon DEF net, player, loaded, saves, disk, aux
<1>6. JoinInv'
  BY <1>1, <1>2, <1>3 DEF JoinInv, net
<1>7. SwitchInv'
  <2>1. ASSUME NEW q \in Incarnations, switch'[q] \in Detached
        PROVE  admission'[Of(q)] = "relocating" /\ online'[Of(q)] = q /\ q[1] \notin won'
    BY <1>1, <1>2, <1>3, <2>1, Zenon DEF SwitchInv, player
  <2>2. ASSUME NEW w \in Profiles, admission'[w] = "relocating"
        PROVE  online'[w] # Nobody /\ switch'[online'[w]] \in Detached
    BY <1>1, <1>2, <1>3, <2>2 DEF SwitchInv, OnlineInv, Detached
  <2> QED
    BY <2>1, <2>2, Zenon DEF SwitchInv, Of
<1>8. MemberInv'
  BY <1>1, <1>2, <1>3 DEF MemberInv, OnlineInv, TableType, player
<1>9. LeaveInv'
  BY <1>1, <1>2, <1>3 DEF LeaveInv, saves
<1>10. PhaseInv'
  BY <1>1, <1>2, Zenon DEF PhaseInv, Ending
<1> QED
  BY <1>4, <1>5, <1>6, <1>7, <1>8, <1>9, <1>10, Zenon

LEMMA DropSwitchOwners ==
  ASSUME OwnersInv, NEW p \in Incarnations, DropSwitch(p)
  PROVE  OwnersInv'
<1> USE Constants, IncarnationFacts DEF OwnersInv, StateType
<1>1. JobsType' /\ OnlineInv'
  BY Zenon DEF DropSwitch, JobsType, SwitchPhase, OnlineInv, net, table, player
<1>2. PhaseInv'
  BY Zenon DEF DropSwitch, Visit, PhaseInv, Ending
<1>3. \A q \in Incarnations : switch'[q] \in Detached <=> switch[q] \in Detached
  BY Zenon DEF DropSwitch, JobsType, Detached
<1>4. SwitchInv'
  BY <1>3, Zenon DEF DropSwitch, SwitchInv, OnlineInv, table, player
<1> QED
  BY <1>1, <1>2, <1>4, Frames, Zenon DEF DropSwitch, Visit, net, table, player, loaded, saves, disk, aux

LEMMA CommitSwitchOwners ==
  ASSUME OwnersInv, NEW p \in Incarnations, CommitSwitch(p)
  PROVE  OwnersInv'
<1> USE Constants, IncarnationFacts DEF OwnersInv, StateType
<1>1. /\ online[Of(p)] = p /\ p[1] \notin won /\ admission[Of(p)] = "relocating"
      /\ switch[p] = "ready" /\ game = "jobs" /\ target[p] \in Domains /\ arrival[p] \in Nat
  BY Zenon DEF CommitSwitch, SwitchInv, JobsType, Detached
<1>2. /\ admission' = [admission EXCEPT ![Of(p)] = "none"]
      /\ members' = members \cup {p} /\ switch' = [switch EXCEPT ![p] = "global"]
      /\ at' = [at EXCEPT ![p[1]] = target[p]] /\ live' = [live EXCEPT ![p[1]] = arrival[p]]
      /\ home' = [home EXCEPT ![Of(p)] = target[p]]
      /\ globals' = [globals EXCEPT ![Of(p)] = Append(@, <<p, target[p]>>)]
      /\ conn' = NotifyWaiters(conn)
      /\ UNCHANGED <<closed, online, bound, won, loaded, target, source, arrival, respawn, queued,
                     leaving, final, disk, latest, game>>
  BY <1>1, Zenon DEF CommitSwitch, Visit, Release, TableType
<1>3. /\ admission'[Of(p)] = "none" /\ \A w \in Profiles : w # Of(p) => admission'[w] = admission[w]
      /\ switch'[p] = "global" /\ \A q \in Incarnations : q # p => switch'[q] = switch[q]
  BY <1>1, <1>2, Zenon DEF TableType, JobsType
<1>4. /\ conn' \in [Connections -> Place]
      /\ \A b \in Connections : conn'[b] \in Joins <=> conn[b] \in Joins
      /\ \A b \in Connections : conn[b] \in {"play", "done"} => conn'[b] = conn[b]
  BY <1>2, NotifyFacts, Zenon DEF NetType, Joins
<1>5. NetType' /\ TableType'
  BY <1>1, <1>2, <1>4, Zenon DEF NetType, TableType, Admission
<1>6. PlayerType' /\ JobsType' /\ AuxType'
  BY <1>1, <1>2, Zenon DEF PlayerType, JobsType, SwitchPhase, AuxType
<1>7. SavesType'
  <2>1. <<p, target[p]>> \in (Connections \X (0..MaxLives)) \X Domains
    BY <1>1 DEF Incarnations
  <2>2. globals' \in [Profiles -> Seq((Connections \X (0..MaxLives)) \X Domains)]
    BY <1>2, <2>1, SMTT(30) DEF SavesType
  <2> QED
    BY <1>2, <2>2, Zenon DEF SavesType
<1>8. LoadedType' /\ DiskType' /\ RunType'
  BY <1>2, Frames, Zenon DEF loaded, disk
<1>9. JoinInv'
  BY <1>1, <1>2, <1>3, <1>4 DEF JoinInv
<1>10. OnlineInv'
  BY <1>2, <1>4, ZenonT(30) DEF OnlineInv, PlayerType
<1>11. SwitchInv'
  <2>1. ASSUME NEW q \in Incarnations, switch'[q] \in Detached
        PROVE  admission'[Of(q)] = "relocating" /\ online'[Of(q)] = q /\ q[1] \notin won'
    <3>1. q # p /\ switch[q] \in Detached
      BY <1>3, <2>1, Zenon DEF Detached
    <3> QED
      BY <1>1, <1>2, <1>3, <3>1, Zenon DEF SwitchInv
  <2>2. ASSUME NEW w \in Profiles, admission'[w] = "relocating"
        PROVE  online'[w] # Nobody /\ switch'[online'[w]] \in Detached
    <3>1. w # Of(p) /\ admission[w] = "relocating"
      BY <1>3, <2>2, Zenon
    <3>2. online[w] # Nobody /\ switch[online[w]] \in Detached /\ online[w] \in Incarnations /\ online[w] # p
      BY <3>1, ZenonT(30) DEF SwitchInv, OnlineInv
    <3> QED
      BY <1>2, <1>3, <3>2, ZenonT(30)
  <2> QED
    BY <2>1, <2>2 DEF SwitchInv, Of
<1>12. MemberInv'
  BY <1>1, <1>2, <1>3, ZenonT(30) DEF MemberInv, OnlineInv, TableType
<1>13. LeaveInv'
  BY <1>1, <1>2, <1>3 DEF LeaveInv
<1>14. PhaseInv'
  BY <1>1, <1>2, Zenon DEF PhaseInv, Ending
<1> QED
  BY <1>5, <1>6, <1>7, <1>8, <1>9, <1>10, <1>11, <1>12, <1>13, <1>14, Zenon

LEMMA FinishRespawnOwners ==
  ASSUME OwnersInv, NEW p \in Incarnations, FinishRespawn(p)
  PROVE  OwnersInv'
<1> USE Constants, IncarnationFacts DEF OwnersInv, StateType
<1> DEFINE c == p[1]
           u == Of(p)
           q == <<p[1], p[2] + 1>>
<1>1. /\ online[u] = p /\ conn[c] = "play" /\ game = "jobs" /\ bound[c] = p[2]
      /\ (p \in members \/ c \in won) /\ q \in Incarnations /\ Of(q) = u /\ q # p /\ Owner[c] = u
  BY DEF FinishRespawn, RespawnValid, OnlineInv, Of
<1>2. admission[u] = "none"
  BY <1>1 DEF JoinInv, SwitchInv, MemberInv, LeaveInv, TableType, Admission
<1>3. /\ members' = (members \ {p}) \cup {q} /\ online' = [online EXCEPT ![u] = q]
      /\ bound' = [bound EXCEPT ![c] = q[2]] /\ live' = [live EXCEPT ![c] = @ + 1]
      /\ latest' = [latest EXCEPT ![u][at[c]] = live[c] + 1]
      /\ respawn' = respawn \ {p} /\ won' = won \ {c} /\ todo' = todo \ {<<"respawn", p>>}
      /\ UNCHANGED <<closed, conn, admission, at, loaded, switch, target, source, arrival, saves,
                     disk, home, game>>
  BY <1>2, Zenon DEF FinishRespawn, Visit
<1>4. /\ online'[u] = q /\ \A w \in Profiles : w # u => online'[w] = online[w]
      /\ bound'[c] = q[2] /\ \A b \in Connections : b # c => bound'[b] = bound[b]
      /\ \A w \in Profiles : w # u /\ online[w] # Nobody => online[w][1] # c
  <2>1. \A w \in Profiles : w # u /\ online[w] # Nobody => online[w][1] # c
    BY DEF OnlineInv, Of
  <2> QED
    BY <1>3, <2>1, Zenon DEF TableType
<1>5. TableType'
  BY <1>1, <1>3 DEF TableType
<1>6. PlayerType' /\ JobsType'
  BY <1>3 DEF PlayerType, JobsType
<1>7. AuxType'
  <2>1. at[c] \in Domains /\ live[c] + 1 \in Nat
    BY DEF PlayerType
  <2>2. latest' \in [Profiles -> [Domains -> Nat]]
    BY <1>3, <2>1, WriteFacts, Zenon DEF AuxType
  <2> QED
    BY <1>3, <2>2, Zenon DEF AuxType
<1>8. NetType' /\ LoadedType' /\ SavesType' /\ DiskType' /\ RunType'
  BY <1>3, Frames, ZenonT(30) DEF loaded, saves, disk
<1>9. JoinInv'
  BY <1>1, <1>2, <1>3, <1>4, SMTT(30) DEF JoinInv, Joins
<1>10. OnlineInv'
  <2>1. ASSUME NEW w \in Profiles, online'[w] # Nobody
        PROVE  /\ online'[w] \in Incarnations /\ Of(online'[w]) = w
               /\ conn'[online'[w][1]] = "play" /\ bound'[online'[w][1]] = online'[w][2]
    <3>1. CASE w = u
      BY <1>1, <1>3, <1>4, <3>1, ZenonT(30)
    <3>2. CASE w # u
      BY <1>3, <1>4, <2>1, <3>2 DEF OnlineInv
    <3> QED
      BY <3>1, <3>2, Zenon
  <2>2. (\A b \in won' : conn'[b] \in {"play", "done"}) /\ \A r \in respawn' : r[2] < MaxLives
    BY <1>3, Zenon DEF OnlineInv
  <2> QED
    BY <2>1, <2>2, Zenon DEF OnlineInv, Of
<1>11. SwitchInv'
  <2>1. ASSUME NEW r \in Incarnations, switch'[r] \in Detached
        PROVE  admission'[Of(r)] = "relocating" /\ online'[Of(r)] = r /\ r[1] \notin won'
    <3>1. switch[r] \in Detached
      BY <1>3, <2>1, Zenon
    <3>2. Of(r) # u
      BY <1>2, <3>1, Zenon DEF SwitchInv
    <3> QED
      BY <1>3, <1>4, <3>1, <3>2, Zenon DEF SwitchInv
  <2>2. ASSUME NEW w \in Profiles, admission'[w] = "relocating"
        PROVE  online'[w] # Nobody /\ switch'[online'[w]] \in Detached
    BY <1>2, <1>3, <1>4, <2>2, Zenon DEF SwitchInv
  <2> QED
    BY <2>1, <2>2, SMTT(30) DEF SwitchInv, Of
<1>12. MemberInv'
  <2>1. ASSUME NEW r \in members'
        PROVE  online'[Of(r)] = r /\ admission'[Of(r)] # "relocating" /\ r[1] \notin won'
    <3>1. CASE r = q
      BY <1>1, <1>2, <1>3, <1>4, <3>1, Zenon
    <3>2. CASE r # q
      <4>1. r \in members /\ r # p /\ r \in Incarnations
        BY <1>3, <2>1, <3>2, Zenon DEF TableType
      <4>2. Of(r) # u
        BY <1>1, <4>1, Zenon DEF MemberInv
      <4> QED
        BY <1>3, <1>4, <4>1, <4>2, Zenon DEF MemberInv
    <3> QED
      BY <3>1, <3>2, Zenon
  <2>2. ASSUME NEW w \in Profiles, online'[w] # Nobody, admission'[w] # "relocating",
               online'[w][1] \notin won'
        PROVE  online'[w] \in members'
    <3>1. CASE w = u
      BY <1>3, <1>4, <3>1, SMTT(30)
    <3>2. CASE w # u
      BY <1>1, <1>3, <1>4, <2>2, <3>2, SMTT(30) DEF MemberInv, OnlineInv
    <3> QED
      BY <3>1, <3>2, Zenon
  <2> QED
    BY <2>1, <2>2, Zenon DEF MemberInv, Of
<1>13. LeaveInv'
  BY <1>1, <1>2, <1>3, <1>4, SMTT(30) DEF LeaveInv, saves
<1>14. PhaseInv'
  BY <1>1, <1>3, Zenon DEF PhaseInv, Ending
<1> QED
  BY <1>5, <1>6, <1>7, <1>8, <1>9, <1>10, <1>11, <1>12, <1>13, <1>14, Zenon

LEMMA RejectJoinOwners ==
  ASSUME OwnersInv, NEW c \in Connections, RejectJoin(c)
  PROVE  OwnersInv'
<1> USE Constants, IncarnationFacts DEF OwnersInv, StateType
<1>1. /\ conn[c] \in Joins /\ admission[Owner[c]] = "joining" /\ conn[c] \notin {"play", "done"}
      /\ game = "joins"
  BY Zenon DEF RejectJoin, JoinInv, Joins
<1>2. /\ admission' = [admission EXCEPT ![Owner[c]] = "none"]
      /\ conn' = NotifyWaiters([conn EXCEPT ![c] = "done"]) /\ closed' = closed \cup {c}
      /\ UNCHANGED <<online, bound, members, player, loaded, jobs, saves, disk, aux, game>>
  BY <1>1, Zenon DEF RejectJoin, Release, Visit, TableType
<1>3. /\ conn' \in [Connections -> Place]
      /\ \A b \in Connections : conn'[b] \in Joins <=> b # c /\ conn[b] \in Joins
      /\ \A b \in Connections : conn[b] \in {"play", "done"} => conn'[b] = conn[b]
  BY <1>1, <1>2, DoneFacts, ZenonT(30) DEF Joins
<1>4. admission'[Owner[c]] = "none" /\ \A w \in Profiles : w # Owner[c] => admission'[w] = admission[w]
  BY <1>2, Zenon DEF TableType
<1>5. NetType' /\ TableType'
  BY <1>2, <1>3, ZenonT(30) DEF NetType, TableType, Admission
<1>6. PlayerType' /\ LoadedType' /\ JobsType' /\ SavesType' /\ DiskType' /\ AuxType' /\ RunType'
  BY <1>2, Frames, Zenon DEF player, loaded, jobs, saves, disk, aux
<1>7. JoinInv'
  <2>1. \A b \in Connections : b # c /\ conn[b] \in Joins => Owner[b] # Owner[c]
    BY <1>1, Zenon DEF JoinInv
  <2>2. ASSUME NEW w \in Profiles, admission'[w] = "joining"
        PROVE  online'[w] = Nobody /\ \E b \in Connections : Owner[b] = w /\ conn'[b] \in Joins
    <3>1. w # Owner[c] /\ admission[w] = "joining"
      BY <1>4, <2>2, Zenon
    <3>2. PICK b \in Connections : Owner[b] = w /\ conn[b] \in Joins
      BY <3>1, Zenon DEF JoinInv
    <3> QED
      BY <1>2, <1>3, <1>4, <3>1, <3>2, ZenonT(30) DEF JoinInv
  <2>3. \A b \in Connections : conn'[b] \in Joins => admission'[Owner[b]] = "joining" /\ bound'[b] = 1
    BY <1>2, <1>3, <1>4, <2>1, ZenonT(30) DEF JoinInv
  <2>4. \A a, b \in Connections :
          conn'[a] \in Joins /\ conn'[b] \in Joins /\ Owner[a] = Owner[b] => a = b
    BY <1>3, Zenon DEF JoinInv
  <2> QED
    BY <2>2, <2>3, <2>4, Zenon DEF JoinInv
<1>8. OnlineInv'
  BY <1>2, <1>3, ZenonT(30) DEF OnlineInv, PlayerType, player, jobs
<1>9. SwitchInv' /\ MemberInv'
  BY <1>1, <1>2, <1>4 DEF SwitchInv, MemberInv, OnlineInv, TableType, player, jobs
<1>10. LeaveInv'
  BY <1>1, <1>2, <1>4 DEF LeaveInv, saves
<1>11. PhaseInv'
  BY <1>1, <1>2, Zenon DEF PhaseInv, Ending
<1> QED
  BY <1>5, <1>6, <1>7, <1>8, <1>9, <1>10, <1>11, Zenon

LEMMA AdmitJoinOwners ==
  ASSUME OwnersInv, NEW c \in Connections, AdmitJoin(c)
  PROVE  OwnersInv'
<1> USE Constants, IncarnationFacts DEF OwnersInv, StateType
<1> DEFINE u == Owner[c]
           p == <<c, bound[c]>>
<1>1. /\ conn[c] \in Joins /\ admission[u] = "joining" /\ conn[c] \notin {"play", "done"}
      /\ game = "joins" /\ online[u] = Nobody /\ p \in Incarnations /\ Of(p) = u /\ c \notin won
      /\ version[c] \in Nat /\ domain[c] \in Domains
  BY DEF AdmitJoin, JoinInv, Joins, OnlineInv, LoadedType
<1>2. /\ admission' = [admission EXCEPT ![u] = "none"] /\ online' = [online EXCEPT ![u] = p]
      /\ members' = members \cup {p} /\ at' = [at EXCEPT ![c] = domain[c]]
      /\ live' = [live EXCEPT ![c] = version[c]] /\ conn' = NotifyWaiters([conn EXCEPT ![c] = "play"])
      /\ home' = [home EXCEPT ![u] = domain[c]]
      /\ closed' \subseteq closed \cup {c} /\ queued' \subseteq queued \cup {p}
      /\ UNCHANGED <<bound, won, loaded, jobs, leaving, final, globals, disk, latest, game>>
  BY Zenon DEF AdmitJoin, Visit
<1>3. /\ conn' \in [Connections -> Place] /\ conn'[c] = "play"
      /\ \A b \in Connections : conn'[b] \in Joins <=> b # c /\ conn[b] \in Joins
      /\ \A b \in Connections : conn[b] \in {"play", "done"} => conn'[b] = conn[b]
  <2>1. "play" \in Place /\ "play" # "waiting"
    BY Zenon DEF Place
  <2> QED
    BY <1>1, <1>2, <2>1, MoveFacts, ZenonT(30) DEF Joins
<1>4. /\ admission'[u] = "none" /\ \A w \in Profiles : w # u => admission'[w] = admission[w]
      /\ online'[u] = p /\ \A w \in Profiles : w # u => online'[w] = online[w]
  BY <1>2, Zenon DEF TableType
<1>5. NetType' /\ TableType'
  BY <1>1, <1>2, <1>3, ZenonT(30) DEF NetType, TableType, Admission
<1>6. PlayerType' /\ AuxType' /\ SavesType'
  BY <1>1, <1>2, Zenon DEF PlayerType, AuxType, SavesType
<1>7. LoadedType' /\ JobsType' /\ DiskType' /\ RunType'
  BY <1>2, Frames, Zenon DEF loaded, jobs, disk
<1>8. JoinInv'
  <2>1. \A b \in Connections : b # c /\ conn[b] \in Joins => Owner[b] # u
    BY <1>1, Zenon DEF JoinInv
  <2>2. ASSUME NEW w \in Profiles, admission'[w] = "joining"
        PROVE  online'[w] = Nobody /\ \E b \in Connections : Owner[b] = w /\ conn'[b] \in Joins
    <3>1. w # u /\ admission[w] = "joining"
      BY <1>4, <2>2, Zenon
    <3>2. PICK b \in Connections : Owner[b] = w /\ conn[b] \in Joins
      BY <3>1, Zenon DEF JoinInv
    <3> QED
      BY <1>2, <1>3, <1>4, <3>1, <3>2, ZenonT(30) DEF JoinInv
  <2>3. ASSUME NEW b \in Connections, conn'[b] \in Joins
        PROVE  admission'[Owner[b]] = "joining" /\ bound'[b] = 1
    <3>1. b # c /\ conn[b] \in Joins
      BY <1>3, <2>3, Zenon
    <3>2. Owner[b] # u /\ admission[Owner[b]] = "joining" /\ bound[b] = 1
      BY <2>1, <3>1, Zenon DEF JoinInv
    <3> QED
      BY <1>2, <1>4, <3>2, Zenon
  <2>4. \A a, b \in Connections :
          conn'[a] \in Joins /\ conn'[b] \in Joins /\ Owner[a] = Owner[b] => a = b
    BY <1>3, Zenon DEF JoinInv
  <2> QED
    BY <2>2, <2>3, <2>4, Zenon DEF JoinInv
<1>9. OnlineInv'
  <2>1. ASSUME NEW w \in Profiles, online'[w] # Nobody
        PROVE  /\ online'[w] \in Incarnations /\ Of(online'[w]) = w
               /\ conn'[online'[w][1]] = "play" /\ bound'[online'[w][1]] = online'[w][2]
    <3>1. CASE w = u
      BY <1>1, <1>2, <1>3, <1>4, <3>1
    <3>2. CASE w # u
      <4>1. /\ online[w] \in Incarnations /\ Of(online[w]) = w /\ online'[w] = online[w]
            /\ conn[online[w][1]] = "play" /\ bound[online[w][1]] = online[w][2]
        BY <1>4, <2>1, <3>2, Zenon DEF OnlineInv
      <4> QED
        BY <1>2, <1>3, <4>1, ZenonT(30)
    <3> QED
      BY <3>1, <3>2, Zenon
  <2>2. (\A b \in won' : conn'[b] \in {"play", "done"}) /\ \A r \in respawn' : r[2] < MaxLives
    BY <1>2, <1>3, ZenonT(30) DEF OnlineInv, PlayerType, jobs
  <2> QED
    BY <2>1, <2>2, Zenon DEF OnlineInv, Of
<1>10. SwitchInv'
  <2>1. ASSUME NEW r \in Incarnations, switch'[r] \in Detached
        PROVE  admission'[Of(r)] = "relocating" /\ online'[Of(r)] = r /\ r[1] \notin won'
    BY <1>1, <1>2, <1>4, <2>1, Zenon DEF SwitchInv, jobs
  <2>2. ASSUME NEW w \in Profiles, admission'[w] = "relocating"
        PROVE  online'[w] # Nobody /\ switch'[online'[w]] \in Detached
    BY <1>2, <1>4, <2>2, Zenon DEF SwitchInv, jobs
  <2> QED
    BY <2>1, <2>2, Zenon DEF SwitchInv, Of
<1>11. MemberInv'
  <2>1. ASSUME NEW r \in members'
        PROVE  online'[Of(r)] = r /\ admission'[Of(r)] # "relocating" /\ r[1] \notin won'
    BY <1>1, <1>2, <1>4, <2>1, SMTT(30) DEF MemberInv, TableType
  <2>2. ASSUME NEW w \in Profiles, online'[w] # Nobody, admission'[w] # "relocating",
               online'[w][1] \notin won'
        PROVE  online'[w] \in members'
    BY <1>2, <1>4, <2>2, SMTT(30) DEF MemberInv
  <2> QED
    BY <2>1, <2>2, Zenon DEF MemberInv, Of
<1>12. LeaveInv'
  BY <1>1, <1>2, <1>4, SMTT(30) DEF LeaveInv
<1>13. PhaseInv'
  BY <1>1, <1>2, Zenon DEF PhaseInv, Ending
<1> QED
  BY <1>5, <1>6, <1>7, <1>8, <1>9, <1>10, <1>11, <1>12, <1>13, Zenon

-----------------------------------------------------------------------------
(* The calls of save_global.                                               *)

\* The call at the head of the queue: of a disconnect save, or of a switch.
LEMMA HeadFacts ==
  ASSUME OwnersInv, GlobalsInv, NEW u \in Profiles, globals[u] # <<>>
  PROVE  /\ Head(globals[u]) \in (Connections \X (0..MaxLives)) \X Domains
         /\ Head(globals[u]) = globals[u][1] /\ Len(globals[u]) \in Nat /\ Len(globals[u]) >= 1
         /\ Head(globals[u])[1] \notin Incarnations =>
              LET c == Head(globals[u])[1][1]
              IN  /\ Head(globals[u])[1] = <<c, 0>> /\ c \in Connections /\ Owner[c] = u
                  /\ leaving[c] = "global" /\ Len(globals[u]) = 1
<1> USE Constants DEF OwnersInv, StateType
<1> DEFINE e == Head(globals[u])
<1>1. globals[u] \in Seq((Connections \X (0..MaxLives)) \X Domains)
  BY Zenon DEF SavesType
<1>2. /\ e \in (Connections \X (0..MaxLives)) \X Domains /\ e = globals[u][1]
      /\ Len(globals[u]) \in Nat /\ Len(globals[u]) >= 1
  BY <1>1
<1>3. e[1] \in Connections \X (0..MaxLives)
  BY <1>2, Zenon
<1>4. ASSUME e[1] \notin Incarnations
      PROVE  e[1][2] = 0 /\ e[1] = <<e[1][1], 0>> /\ e[1][1] \in Connections
  BY <1>3, <1>4 DEF Incarnations
<1>5. 1 \in 1..Len(globals[u])
  BY <1>2
<1>6. ASSUME e[1] \notin Incarnations
      PROVE  Owner[e[1][1]] = u /\ leaving[e[1][1]] = "global" /\ Len(globals[u]) = 1
  <2>1. globals[u][1][1][2] = 0 /\ globals[u][1][1][1] = e[1][1]
    BY <1>2, <1>4, <1>6, Zenon
  <2>2. /\ Owner[globals[u][1][1][1]] = u /\ leaving[globals[u][1][1][1]] = "global"
        /\ 1 = Len(globals[u])
    BY <1>5, <2>1, ZenonT(30) DEF GlobalsInv
  <2> QED
    BY <2>1, <2>2, Zenon
<1> QED
  BY <1>2, <1>4, <1>6, ZenonT(30)

LEMMA SaveGlobalOwners ==
  ASSUME OwnersInv, GlobalsInv, NEW u \in Profiles, SaveGlobal(u)
  PROVE  OwnersInv'
<1> USE Constants, IncarnationFacts DEF OwnersInv, StateType
<1> DEFINE e == Head(globals[u])
           p == e[1]
<1>1. globals[u] # <<>> /\ e[2] \in Domains
  BY HeadFacts, Zenon DEF SaveGlobal
<1>2. /\ globals' = [globals EXCEPT ![u] = Tail(@)]
      /\ UNCHANGED <<closed, online, bound, members, player, loaded, target, source, arrival,
                     respawn, queued, final, stored, game, todo, latest>>
  BY Zenon DEF SaveGlobal
<1>3. globals' \in [Profiles -> Seq((Connections \X (0..MaxLives)) \X Domains)]
  BY <1>1, <1>2 DEF SavesType
<1>4. last' \in [Profiles -> Domains] /\ home' \in [Profiles -> Domains]
  <2>1. last' \in {last, [last EXCEPT ![u] = e[2]]} /\ home' \in {home, [home EXCEPT ![u] = last[u]]}
    BY Zenon DEF SaveGlobal, WriteGlobal
  <2>2. [last EXCEPT ![u] = e[2]] \in [Profiles -> Domains]
    BY <1>1, Zenon DEF DiskType
  <2>3. [home EXCEPT ![u] = last[u]] \in [Profiles -> Domains]
    BY Zenon DEF DiskType, AuxType
  <2> QED
    BY <2>1, <2>2, <2>3, ZenonT(30) DEF DiskType, AuxType
<1>5. DiskType' /\ AuxType' /\ PlayerType' /\ LoadedType' /\ RunType'
  BY <1>2, <1>4, Frames, ZenonT(30) DEF DiskType, AuxType, player, loaded
<1>6. CASE p \in Incarnations
  <2>1. /\ UNCHANGED <<leaving, admission, conn>>
        /\ \/ switch[p] = "global" /\ switch' = [switch EXCEPT ![p] = "saved"]
           \/ UNCHANGED switch
    BY <1>6, Zenon DEF SaveGlobal
  <2>2. NetType' /\ TableType' /\ JoinInv' /\ OnlineInv' /\ MemberInv' /\ LeaveInv'
    BY <1>2, <2>1, Frames, Zenon DEF player
  <2>3. JobsType' /\ SavesType'
    BY <1>2, <1>3, <2>1, ZenonT(30) DEF JobsType, SwitchPhase, SavesType
  <2>4. \A q \in Incarnations : /\ switch'[q] \in Detached <=> switch[q] \in Detached
                                /\ switch'[q] \in {"none", "queued"} <=> switch[q] \in {"none", "queued"}
    BY <2>1, Zenon DEF JobsType, Detached
  <2>5. SwitchInv'
    BY <1>2, <2>1, <2>4, Zenon DEF SwitchInv, OnlineInv, player
  <2>6. PhaseInv'
    BY <1>2, <2>1, <2>4, Zenon DEF PhaseInv
  <2> QED
    BY <1>5, <2>2, <2>3, <2>5, <2>6, Zenon
<1>7. CASE p \notin Incarnations
  <2> DEFINE c == p[1]
  <2>1. c \in Connections /\ Owner[c] = u /\ leaving[c] = "global"
    BY <1>1, <1>7, HeadFacts, Zenon
  <2>2. /\ admission[u] = "disconnecting" /\ online[u] = Nobody
        /\ \A b \in Connections : b # c /\ leaving[b] # "none" => Owner[b] # u
    BY <2>1 DEF LeaveInv
  <2>3. /\ leaving' = [leaving EXCEPT ![c] = "none"] /\ conn' = NotifyWaiters(conn)
        /\ admission' = [admission EXCEPT ![u] = "none"] /\ UNCHANGED switch
    BY <1>7, <2>2, Zenon DEF SaveGlobal, Release, TableType
  <2>4. /\ leaving'[c] = "none" /\ \A b \in Connections : b # c => leaving'[b] = leaving[b]
        /\ admission'[u] = "none" /\ \A w \in Profiles : w # u => admission'[w] = admission[w]
    BY <2>1, <2>3, Zenon DEF SavesType, TableType
  <2>5. /\ conn' \in [Connections -> Place]
        /\ \A b \in Connections : conn'[b] \in Joins <=> conn[b] \in Joins
        /\ \A b \in Connections : conn[b] \in {"play", "done"} => conn'[b] = conn[b]
    BY <2>3, NotifyFacts, Zenon DEF NetType, Joins
  <2>6. NetType' /\ TableType'
    BY <1>2, <2>3, <2>5, Zenon DEF NetType, TableType, Admission
  <2>7. JobsType' /\ SavesType'
    BY <1>2, <1>3, <2>3, Zenon DEF JobsType, SavesType
  <2>8. JoinInv'
    BY <1>2, <2>2, <2>4, <2>5 DEF JoinInv
  <2>9. OnlineInv'
    BY <1>2, <2>5, Zenon DEF OnlineInv, PlayerType, player
  <2>10. SwitchInv'
    BY <1>2, <2>2, <2>3, <2>4, ZenonT(30) DEF SwitchInv, player
  <2>11. MemberInv'
    BY <1>2, <2>2, <2>3, <2>4, Zenon DEF MemberInv, TableType, player
  <2>12. LeaveInv'
    <3>1. \A b \in Connections : leaving'[b] # "none" => Owner[b] # u /\ leaving'[b] = leaving[b]
      BY <2>1, <2>2, <2>4, Zenon
    <3>2. \A w \in Profiles : admission'[w] = "disconnecting" =>
            w # u /\ admission[w] = "disconnecting"
      BY <2>4, Zenon
    <3>3. ASSUME NEW w \in Profiles, game \in {"saving", "down"}, online[w] # Nobody
          PROVE  admission'[w] = "disconnecting"
      BY <2>2, <2>4, <3>3, ZenonT(30) DEF LeaveInv
    <3>4. ASSUME NEW b \in Connections, leaving'[b] # "none"
          PROVE  admission'[Owner[b]] = "disconnecting" /\ online[Owner[b]] = Nobody
      BY <2>4, <3>1, <3>4, ZenonT(30) DEF LeaveInv
    <3>5. ASSUME NEW w \in Profiles, admission'[w] = "disconnecting"
          PROVE  IF online[w] = Nobody
                   THEN \E b \in Connections : Owner[b] = w /\ leaving'[b] # "none"
                   ELSE game \in {"saving", "down"}
      BY <2>1, <2>4, <3>2, <3>5, SMTT(30) DEF LeaveInv
    <3> HIDE DEF c
    <3> QED
      BY <1>2, <3>1, <3>3, <3>4, <3>5, Zenon DEF LeaveInv
  <2>13. PhaseInv'
    BY <1>2, <2>1, <2>3, <2>4, Zenon DEF PhaseInv
  <2> QED
    BY <1>5, <2>6, <2>7, <2>8, <2>9, <2>10, <2>11, <2>12, <2>13, Zenon
<1> QED
  BY <1>6, <1>7, Zenon

\* A handler returns.
LEMMA HandlersOwners ==
  ASSUME OwnersInv, Handlers
  PROVE  OwnersInv'
BY Frames, Zenon DEF OwnersInv, StateType, Handlers, FinishHandler, net, table, player, loaded, jobs,
   saves, disk, aux

\* Every step keeps the part of the invariant about owners.
LEMMA OwnersStep ==
  ASSUME OwnersInv, GlobalsInv, [Next]_vars
  PROVE  OwnersInv'
<1>1. CASE GameThread
  BY <1>1, PhaseOwners, SaveAtShutdownOwners, DisconnectOwners, EndJobOwners, AwaitOwners,
     StartSwitchOwners, DropSwitchOwners, CommitSwitchOwners, FinishRespawnOwners,
     RejectJoinOwners, AdmitJoinOwners, Zenon DEF GameThread
<1>2. CASE UNCHANGED vars
  BY <1>2, Frames, Zenon DEF OwnersInv, StateType, vars, net, table, player, loaded, jobs, saves, disk, aux
<1> QED
  BY <1>1, <1>2, EnvironmentOwners, HandlersOwners, LoginOwners, StorageOwners, SaveGlobalOwners,
     Zenon DEF Next

-----------------------------------------------------------------------------
(* Handlers that outlive the stop.                                         *)

\* A step that starts no work: after the stop players only go.
LEMMA WorkFrame ==
  ASSUME WorkInv, UNCHANGED work, Stopping => Stopping',
         game' \in {"saving", "down"} => game \in {"saving", "down"} \/ running = {},
         Stopping => \A u \in Profiles : online'[u] \in {online[u], Nobody}
  PROVE  WorkInv'
<1>1. running' = running /\ late' = late
  BY Zenon DEF work
<1>2. \A p \in running : online'[Of(p)] \in {p, Nobody}
  BY IncarnationFacts, Zenon DEF WorkInv, WorkType
<1>3. \A u \in late : online'[u] = Nobody
  BY Zenon DEF WorkInv, WorkType
<1> QED
  BY <1>1, <1>2, <1>3, Zenon DEF WorkInv, WorkType, Of

\* The game thread takes players away only when it disconnects them, and
\* admits none after the stop.
LEMMA GameWork ==
  ASSUME OwnersInv, WorkInv, GameThread
  PROVE  WorkInv'
<1> USE DEF OwnersInv, StateType
<1>1. CASE BeginTick \/ TickWorlds \/ BeginJobs \/ BeginJoins \/ BeginSwitches \/ EndTick
             \/ DrainDisconnects \/ EndLoop \/ EndShutdown
  <2>1. UNCHANGED work /\ UNCHANGED online
    BY <1>1, Zenon DEF BeginTick, TickWorlds, BeginJobs, BeginJoins, BeginSwitches, EndTick,
       DrainDisconnects, EndLoop, EndShutdown, StartDisconnects, table
  <2>2. /\ Stopping => Stopping'
        /\ game' \in {"saving", "down"} => game \in {"saving", "down"}
    BY <1>1, ZenonT(30) DEF BeginTick, TickWorlds, BeginJobs, BeginJoins, BeginSwitches, EndTick,
       DrainDisconnects, EndLoop, EndShutdown, StartDisconnects, Enter, Stopping
  <2> QED
    BY <2>1, <2>2, WorkFrame, Zenon
<1>2. CASE BeginShutdown
  BY <1>2, WorkFrame, Zenon DEF BeginShutdown, HandlersJoined, Enter, Stopping
<1>3. ASSUME NEW p \in Incarnations,
             Disconnect(p) \/ LeaveSwitch(p) \/ AwaitSwitch(p) \/ CommitSwitch(p) \/ FinishSwitch(p)
               \/ LeaveRespawn(p) \/ AwaitRespawn(p) \/ FinishRespawn(p) \/ StartSwitch(p)
               \/ DropSwitch(p) \/ CancelJob(p)
      PROVE  WorkInv'
  <2>1. UNCHANGED work /\ UNCHANGED game
    BY <1>3, ZenonT(30) DEF Disconnect, LeaveSwitch, AwaitSwitch, CommitSwitch, FinishSwitch,
       LeaveRespawn, AwaitRespawn, FinishRespawn, StartSwitch, DropSwitch, CancelJob, QuitSwitch,
       QuitGlobal, Visit
  <2>2. \/ game = "jobs"
        \/ UNCHANGED online
        \/ online' = [online EXCEPT ![Of(p)] = Nobody]
    BY <1>3, ZenonT(30) DEF Disconnect, LeaveSwitch, AwaitSwitch, CommitSwitch, FinishSwitch,
       LeaveRespawn, AwaitRespawn, FinishRespawn, StartSwitch, DropSwitch, CancelJob, QuitSwitch,
       QuitGlobal, RemoveOnline, table
  <2>3. Stopping => \A u \in Profiles : online'[u] \in {online[u], Nobody}
    BY <2>2, Zenon DEF Stopping, TableType
  <2> QED
    BY <2>1, <2>3, WorkFrame, Zenon DEF Stopping
<1>4. ASSUME NEW c \in Connections, RejectJoin(c) \/ AdmitJoin(c)
      PROVE  WorkInv'
  BY <1>4, WorkFrame, Zenon DEF RejectJoin, AdmitJoin, Visit, Stopping
<1>5. ASSUME NEW u \in Profiles, SaveAtShutdown(u)
      PROVE  WorkInv'
  BY <1>5, WorkFrame, Zenon DEF SaveAtShutdown, Visit, Stopping, table
<1> QED
  BY <1>1, <1>2, <1>3, <1>4, <1>5, ZenonT(30) DEF GameThread

\* Players and clients: the stop finds handlers at work on players that are
\* online, and a captured player is online no more.
LEMMA EnvironmentWork ==
  ASSUME OwnersInv, WorkInv, Environment
  PROVE  WorkInv'
<1>1. CASE Stop
  <2>1. /\ running' \subseteq Attended /\ UNCHANGED late /\ UNCHANGED online
        /\ game' = "cancelling"
    BY <1>1, Zenon DEF Stop, Enter, table
  <2> QED
    BY <2>1, Zenon DEF WorkInv, WorkType, Attended, Stopping, Of
<1>2. ASSUME NEW p \in Incarnations, PlayLate(p)
      PROVE  WorkInv'
  <2>1. /\ UNCHANGED <<running, game, online>> /\ late' = late \cup {Of(p)} /\ p \in running
        /\ online[Of(p)] = Nobody /\ Of(p) \in Profiles
    BY <1>2, IncarnationFacts, Zenon DEF PlayLate, WorkInv, table
  <2> QED
    BY <2>1, Zenon DEF WorkInv, WorkType, Stopping, Of
<1>3. ASSUME NEW c \in Connections, BeginLogin(c) \/ Close(c)
      PROVE  WorkInv'
  BY <1>3, WorkFrame, Zenon DEF BeginLogin, Close, Stopping, table
<1>4. ASSUME NEW p \in Incarnations, NEW d \in Domains,
             Play(p) \/ ShowEndCredits(p) \/ RequestRespawn(p) \/ QueueSwitch(p, d)
      PROVE  WorkInv'
  BY <1>4, WorkFrame, Zenon DEF Play, ShowEndCredits, RequestRespawn, QueueSwitch, Stopping, table
<1> QED
  BY <1>1, <1>2, <1>3, <1>4, Constants, ZenonT(30) DEF Environment

\* Every step keeps the part of the invariant about handlers.
LEMMA WorkStep ==
  ASSUME OwnersInv, WorkInv, [Next]_vars
  PROVE  WorkInv'
<1>1. CASE Handlers
  <2>1. /\ UNCHANGED <<late, game, online>> /\ running' \subseteq running
    BY <1>1, Zenon DEF Handlers, FinishHandler, table
  <2> QED
    BY <2>1, Zenon DEF WorkInv, WorkType, Stopping, Of
<1>2. ASSUME NEW c \in Connections, LoginTask(c)
      PROVE  WorkInv'
  BY <1>2, WorkFrame, Zenon DEF LoginTask, CheckDuplicate, CancelLogin, Reserve, QueueJoin,
     LoadJoinDomain, LoadPlayerState, Stopping, table
<1>3. ASSUME NEW c \in Connections, StorageTask(c)
      PROVE  WorkInv'
  BY <1>3, WorkFrame, Zenon DEF StorageTask, SaveDomain, StoreSource, LoadTarget, Stopping, table
<1>4. ASSUME NEW u \in Profiles, SaveGlobal(u)
      PROVE  WorkInv'
  BY <1>4, WorkFrame, Zenon DEF SaveGlobal, Stopping
<1>5. CASE UNCHANGED vars
  BY <1>5, WorkFrame, Zenon DEF vars, Stopping, table
<1> QED
  BY <1>1, <1>2, <1>3, <1>4, <1>5, GameWork, EnvironmentWork, Zenon DEF Next
=============================================================================
