----------------------- MODULE PlayerAdmissionProofs ------------------------
(***************************************************************************)
(* Proofs about PlayerAdmission, second part: every step keeps the part of *)
(* the invariant that says where the data of a profile is; the invariance  *)
(* of the whole and the theorems.                                          *)
(***************************************************************************)
EXTENDS PlayerAdmissionOwners

\* The login and configuration tasks.
LEMMA LoginData ==
  ASSUME DataInv, OwnersInv, NEW c \in Connections, LoginTask(c)
  PROVE  DataInv'
<1> USE Constants, IncarnationFacts DEF OwnersInv, StateType, DataInv
<1>1. CASE CheckDuplicate(c)
  <2>1. GlobalsInv' /\ PlayInv' /\ CarryInv' /\ FinalInv'
    BY <1>1, Frames, Zenon DEF CheckDuplicate, table, player, jobs, saves, disk, aux
  <2>2. RestInv'
    BY <1>1 DEF CheckDuplicate, Online, RestInv, TableType, DiskType, AuxType, NetType,
       LoadedType, net, table, loaded, disk, aux
  <2> QED
    BY <2>1, <2>2, Zenon
<1>2. CASE CancelLogin(c)
  <2>1. GlobalsInv' /\ PlayInv' /\ CarryInv' /\ FinalInv'
    BY <1>2, Frames, Zenon DEF CancelLogin, table, player, jobs, saves, disk, aux
  <2>2. RestInv'
    BY <1>2, ZenonT(30) DEF CancelLogin, RestInv, TableType, DiskType, AuxType, NetType,
       LoadedType, net,
       table, loaded, disk, aux
  <2> QED
    BY <2>1, <2>2
<1>3. CASE Reserve(c)
  <2>1. CarryInv' /\ FinalInv'
    BY <1>3, Frames, Zenon DEF Reserve, player, jobs, saves, disk, aux
  <2>2. GlobalsInv'
    BY <1>3 DEF Reserve, Free, Online, GlobalsInv, SavesType, TableType, table, saves
  <2>3. RestInv'
    BY <1>3, ZenonT(30) DEF Reserve, Free, Online, RestInv, TableType, DiskType, AuxType, NetType,
       LoadedType, net, table, loaded, disk, aux
  <2>4. PlayInv'
    BY <1>3, ZenonT(30) DEF Reserve, Free, Online, PlayInv, TableType, PlayerType, DiskType, AuxType,
       RunType, table, player, disk, aux
  <2> QED
    BY <2>1, <2>2, <2>3, <2>4, Zenon
<1>4. CASE QueueJoin(c)
  <2>1. CarryInv' /\ FinalInv'
    BY <1>4, Frames, Zenon DEF QueueJoin, Release, player, jobs, saves, disk, aux
  <2>2. GlobalsInv'
    BY <1>4, NotifyFacts DEF QueueJoin, Release, GlobalsInv, SavesType, TableType, table, saves
  <2>3. RestInv'
    <3>1. /\ \A b \in Connections : conn'[b] \in {"reading", "prepared"} => conn'[b] = conn[b]
          /\ \A w \in Profiles : admission'[w] # "disconnecting" => admission[w] # "disconnecting"
          /\ UNCHANGED <<online, domain, version, stored, last, latest, home>>
      <4>1. CASE conn' = [conn EXCEPT ![c] = "loading"] /\ UNCHANGED admission
        BY <1>4, <4>1, Zenon DEF QueueJoin, NetType, loaded, disk, aux
      <4>2. CASE conn' = NotifyWaiters([conn EXCEPT ![c] = "done"]) /\ Release(Owner[c], "joining")
        BY <1>4, <4>2, DoneFacts, ZenonT(30) DEF QueueJoin, Release, TableType, loaded, disk, aux
      <4> QED
        BY <1>4, <4>1, <4>2, ZenonT(30) DEF QueueJoin
    <3> QED
      BY <3>1, ZenonT(30) DEF RestInv
  <2>4. PlayInv'
    <3>1. \A w \in Profiles : online[w] # Nobody => admission'[w] = admission[w]
      BY <1>4 DEF QueueJoin, Release, TableType, JoinInv
    <3> QED
      BY <1>4, <3>1 DEF QueueJoin, PlayInv, player, disk, aux
  <2> QED
    BY <2>1, <2>2, <2>3, <2>4
<1>5. CASE LoadJoinDomain(c)
  <2>1. GlobalsInv' /\ PlayInv' /\ CarryInv' /\ FinalInv'
    BY <1>5, Frames, Zenon DEF LoadJoinDomain, table, player, jobs, saves, disk, aux
  <2>2. RestInv'
    <3>1. last[Owner[c]] = home[Owner[c]]
      BY <1>5, Zenon DEF LoadJoinDomain, RestInv, JoinInv, Joins
    <3>2. /\ \A b \in Connections : b # c => /\ conn'[b] = conn[b] /\ domain'[b] = domain[b]
                                             /\ version'[b] = version[b]
          /\ \/ conn'[c] = "reading" /\ domain'[c] = home[Owner[c]]
             \/ conn'[c] = "prepared" /\ version'[c] = Failed
      BY <1>5, <3>1, Zenon DEF LoadJoinDomain, NetType, LoadedType
    <3> QED
      BY <1>5, <3>2 DEF LoadJoinDomain, RestInv, table, disk, aux
  <2> QED
    BY <2>1, <2>2
<1>6. CASE LoadPlayerState(c)
  <2>1. GlobalsInv' /\ PlayInv' /\ CarryInv' /\ FinalInv'
    BY <1>6, Frames, Zenon DEF LoadPlayerState, table, player, jobs, saves, disk, aux
  <2>2. RestInv'
    <3>1. /\ domain[c] = home[Owner[c]] /\ domain[c] \in Domains
          /\ stored[Owner[c]][domain[c]] = latest[Owner[c]][domain[c]]
      BY <1>6 DEF LoadPlayerState, RestInv, JoinInv, Joins, LoadedType
    <3>2. /\ \A b \in Connections : b # c => conn'[b] = conn[b] /\ version'[b] = version[b]
          /\ conn'[c] = "prepared"
          /\ version'[c] = Failed \/ version'[c] = stored[Owner[c]][domain[c]]
      BY <1>6, Zenon DEF LoadPlayerState, NetType, LoadedType
    <3> QED
      BY <1>6, <3>1, <3>2 DEF LoadPlayerState, RestInv, table, disk, aux
  <2> QED
    BY <2>1, <2>2
<1> QED
  BY <1>1, <1>2, <1>3, <1>4, <1>5, <1>6, LoginTask(c), Zenon DEF LoginTask

\* The storage tasks.
LEMMA StorageData ==
  ASSUME DataInv, OwnersInv, NEW c \in Connections, StorageTask(c)
  PROVE  DataInv'
<1> USE Constants, IncarnationFacts DEF OwnersInv, StateType, DataInv
<1>1. CASE SaveDomain(c)
  <2>1. GlobalsInv'
    <3> DEFINE u == Owner[c]
               e == <<<<c, 0>>, at[c]>>
    <3>1. /\ leaving[c] = "domain" /\ leaving' = [leaving EXCEPT ![c] = "global"]
          /\ globals' = [globals EXCEPT ![u] = Append(@, e)] /\ UNCHANGED <<online, admission>>
      BY <1>1, Zenon DEF SaveDomain, table
    <3>2. admission[u] = "disconnecting" /\ online[u] = Nobody
      BY <3>1, Zenon DEF LeaveInv
    <3>3. ASSUME NEW i \in 1..Len(globals[u]) PROVE globals[u][i][1][2] # 0
      <4>1. u \in Profiles /\ globals[u] \in Seq((Connections \X (0..MaxLives)) \X Domains)
        BY Zenon DEF SavesType
      <4>2. globals[u][i] \in (Connections \X (0..MaxLives)) \X Domains
        BY <3>3, <4>1
      <4>3. SUFFICES ASSUME globals[u][i][1][2] = 0 PROVE FALSE
        OBVIOUS
      <4>4. Owner[globals[u][i][1][1]] = u /\ leaving[globals[u][i][1][1]] = "global"
        BY <3>3, <4>1, <4>3 DEF GlobalsInv
      <4> QED
        BY <3>1, <4>2, <4>4, Zenon DEF LeaveInv
    <3>4. /\ \A w \in Profiles : w # u => globals'[w] = globals[w]
          /\ globals'[u] = Append(globals[u], e)
          /\ \A b \in Connections : b # c => leaving'[b] = leaving[b]
          /\ leaving'[c] = "global"
      BY <3>1, Zenon DEF SavesType
    <3>5. ASSUME NEW w \in Profiles, NEW i \in 1..Len(globals'[w]), globals'[w][i][1][2] = 0
          PROVE  /\ Owner[globals'[w][i][1][1]] = w /\ leaving'[globals'[w][i][1][1]] = "global"
                 /\ i = Len(globals'[w])
      <4>1. CASE w # u
        <5>1. /\ globals'[w] = globals[w] /\ Owner[globals[w][i][1][1]] = w
              /\ leaving[globals[w][i][1][1]] = "global" /\ i = Len(globals[w])
          BY <3>4, <3>5, <4>1 DEF GlobalsInv
        <5>2. globals[w][i][1][1] \in Connections
          BY <3>5, <5>1 DEF SavesType
        <5> QED
          BY <3>1, <3>4, <5>1, <5>2, ZenonT(30)
      <4>2. CASE w = u
        <5>1. globals[u] \in Seq((Connections \X (0..MaxLives)) \X Domains)
          BY Zenon DEF SavesType
        <5>2. /\ Len(globals'[u]) = Len(globals[u]) + 1 /\ globals'[u][Len(globals[u]) + 1] = e
              /\ \A j \in 1..Len(globals[u]) : globals'[u][j] = globals[u][j]
          BY <3>4, <5>1
        <5>3. Len(globals[u]) \in Nat /\ i \in 1..(Len(globals[u]) + 1)
          BY <3>5, <4>2, <5>1, <5>2
        <5>4. ~(i \in 1..Len(globals[u]))
          BY <3>3, <3>5, <4>2, <5>2, Zenon
        <5> QED
          BY <3>4, <4>2, <5>2, <5>3, <5>4
      <4> QED
        BY <4>1, <4>2, Zenon
    <3>6. ASSUME NEW w \in Profiles, online'[w] = Nobody, admission'[w] # "disconnecting"
          PROVE  globals'[w] = <<>>
      BY <3>1, <3>2, <3>4, <3>6, Zenon DEF GlobalsInv
    <3> HIDE DEF u, e
    <3> QED
      BY <3>5, <3>6, Zenon DEF GlobalsInv
  <2>2. RestInv'
    <3>1. WriteDomain(Owner[c], at[c], final[c]) /\ leaving[c] = "domain"
      BY <1>1, Zenon DEF SaveDomain
    <3>2. /\ at[c] \in Domains /\ final[c] \in Nat /\ final[c] = latest[Owner[c]][at[c]]
          /\ admission[Owner[c]] = "disconnecting" /\ online[Owner[c]] = Nobody
      BY <3>1, ZenonT(30) DEF PlayerType, SavesType, FinalInv, LeaveInv
    <3>3. /\ \A w \in Profiles : \A d \in Domains : w # Owner[c] \/ d # at[c] =>
               stored'[w][d] = stored[w][d] /\ latest'[w][d] = latest[w][d]
          /\ stored'[Owner[c]][at[c]] = latest'[Owner[c]][at[c]]
      BY <3>1, <3>2, WriteDomainFacts
    <3>4. \A b \in Connections : conn[b] \in {"reading", "prepared"} => Owner[b] # Owner[c]
      BY <3>2, Zenon DEF JoinInv, Joins
    <3>5. UNCHANGED <<online, admission, last, home, conn, domain, version>>
      BY <1>1, Zenon DEF SaveDomain, net, table, loaded
    <3>6. ASSUME NEW w \in Profiles, online[w] = Nobody, admission[w] # "disconnecting"
          PROVE  last[w] = home[w] /\ \A d \in Domains : stored'[w][d] = latest'[w][d]
      BY <3>2, <3>3, <3>6 DEF RestInv
    <3>7. ASSUME NEW b \in Connections, conn[b] = "prepared"
          PROVE  latest'[Owner[b]][home[Owner[b]]] = latest[Owner[b]][home[Owner[b]]]
      BY <3>3, <3>4, <3>7 DEF AuxType
    <3> QED
      BY <3>5, <3>6, <3>7, Zenon DEF RestInv
  <2>3. PlayInv'
    <3>1. WriteDomain(Owner[c], at[c], final[c]) /\ leaving[c] = "domain"
      BY <1>1 DEF SaveDomain
    <3>2. /\ at[c] \in Domains /\ final[c] \in Nat /\ final[c] = latest[Owner[c]][at[c]]
          /\ admission[Owner[c]] = "disconnecting" /\ online[Owner[c]] = Nobody
      BY <3>1 DEF PlayerType, SavesType, FinalInv, LeaveInv
    <3>3. /\ \A w \in Profiles : \A d \in Domains : w # Owner[c] \/ d # at[c] =>
               stored'[w][d] = stored[w][d] /\ latest'[w][d] = latest[w][d]
          /\ stored'[Owner[c]][at[c]] = latest'[Owner[c]][at[c]]
      BY <3>1, <3>2, WriteDomainFacts
    <3>4. \A w \in Profiles : online[w] # Nobody => at[online[w][1]] \in Domains
      BY Zenon DEF OnlineInv, PlayerType
    <3>5. UNCHANGED <<admission, online, at, live, home, game, todo, last>>
      BY <1>1, Zenon DEF SaveDomain, table, player
    <3>6. \A w \in Profiles : \A d \in Domains : online[w] # Nobody =>
            stored'[w][d] = stored[w][d] /\ latest'[w][d] = latest[w][d]
      BY <3>2, <3>3, Zenon
    <3> QED
      BY <3>4, <3>5, <3>6 DEF PlayInv
  <2>4. CarryInv'
    <3>1. WriteDomain(Owner[c], at[c], final[c]) /\ leaving[c] = "domain"
      BY <1>1 DEF SaveDomain
    <3>2. /\ at[c] \in Domains /\ final[c] \in Nat /\ final[c] = latest[Owner[c]][at[c]]
          /\ admission[Owner[c]] = "disconnecting" /\ online[Owner[c]] = Nobody
      BY <3>1 DEF PlayerType, SavesType, FinalInv, LeaveInv
    <3>3. /\ \A w \in Profiles : \A d \in Domains : w # Owner[c] \/ d # at[c] =>
               stored'[w][d] = stored[w][d] /\ latest'[w][d] = latest[w][d]
          /\ stored'[Owner[c]][at[c]] = latest'[Owner[c]][at[c]]
      BY <3>1, <3>2, WriteDomainFacts
    <3>4. \A p \in Incarnations : switch[p] \in Detached => Of(p) # Owner[c]
      BY <3>2, Zenon DEF SwitchInv
    <3>5. \A p \in Incarnations : at[p[1]] \in Domains /\ target[p] \in Domains
      BY Zenon DEF PlayerType, JobsType
    <3> QED
      BY <1>1, <3>3, <3>4, <3>5 DEF SaveDomain, CarryInv, player, jobs
  <2>5. FinalInv'
    <3>1. WriteDomain(Owner[c], at[c], final[c]) /\ leaving[c] = "domain"
      BY <1>1 DEF SaveDomain
    <3>2. /\ at[c] \in Domains /\ final[c] \in Nat /\ final[c] = latest[Owner[c]][at[c]]
          /\ admission[Owner[c]] = "disconnecting" /\ online[Owner[c]] = Nobody
      BY <3>1 DEF PlayerType, SavesType, FinalInv, LeaveInv
    <3>3. /\ \A w \in Profiles : \A d \in Domains : w # Owner[c] \/ d # at[c] =>
               stored'[w][d] = stored[w][d] /\ latest'[w][d] = latest[w][d]
          /\ stored'[Owner[c]][at[c]] = latest'[Owner[c]][at[c]]
      BY <3>1, <3>2, WriteDomainFacts
    <3>4. /\ \A b \in Connections : b # c /\ leaving[b] # "none" => Owner[b] # Owner[c]
          /\ \A b \in Connections : b # c => leaving'[b] = leaving[b]
          /\ leaving'[c] = "global" /\ UNCHANGED <<at, final, home>>
      BY <1>1, <3>1, Zenon DEF SaveDomain, LeaveInv, SavesType, player
    <3>5. ASSUME NEW b \in Connections, leaving'[b] # "none"
          PROVE  /\ home'[Owner[b]] = at'[b]
                 /\ \A d \in Domains : d # at'[b] => stored'[Owner[b]][d] = latest'[Owner[b]][d]
                 /\ leaving'[b] # "global" => final'[b] = latest'[Owner[b]][at'[b]]
                 /\ leaving'[b] = "global" => stored'[Owner[b]][at'[b]] = latest'[Owner[b]][at'[b]]
      <4>1. CASE b = c
        BY <3>1, <3>3, <3>4, <4>1 DEF FinalInv
      <4>2. CASE b # c
        BY <3>3, <3>4, <3>5, <4>2 DEF FinalInv, PlayerType
      <4> QED
        BY <4>1, <4>2, Zenon
    <3>6. ASSUME NEW w \in Profiles, NEW i \in 1..Len(globals'[w]), globals'[w][i][1][2] = 0
          PROVE  globals'[w][i][2] = at'[globals'[w][i][1][1]]
      <4>1. globals[w] \in Seq((Connections \X (0..MaxLives)) \X Domains)
        BY Zenon DEF SavesType
      <4>2. CASE i \in 1..Len(globals[w]) /\ globals'[w][i] = globals[w][i]
        BY <3>4, <3>6, <4>2 DEF FinalInv
      <4>3. CASE globals'[w][i] = <<<<c, 0>>, at[c]>>
        BY <3>4, <4>3
      <4>4. globals'[w] \in {globals[w], Append(globals[w], <<<<c, 0>>, at[c]>>)}
        BY <1>1, Zenon DEF SaveDomain, SavesType
      <4> QED
        BY <3>6, <4>1, <4>2, <4>3, <4>4, SMTT(30)
    <3> QED
      BY <3>5, <3>6, Zenon DEF FinalInv
  <2> QED
    BY <2>1, <2>2, <2>3, <2>4, <2>5, Zenon
<1>2. ASSUME NEW p \in Incarnations, StoreSource(p)
      PROVE  DataInv'
  <2>1. GlobalsInv'
    BY <1>2, Frames, Zenon DEF StoreSource, table, saves
  <2>2. RestInv'
    <3>1. /\ switch[p] = "storing" /\ admission[Of(p)] = "relocating" /\ online[Of(p)] = p
          /\ at[p[1]] \in Domains /\ source[p] \in Nat /\ source[p] = latest[Of(p)][at[p[1]]]
      BY <1>2, ZenonT(30) DEF StoreSource, Detached, SwitchInv, PlayerType, JobsType, CarryInv
    <3>2. /\ \A w \in Profiles : \A d \in Domains :
               w # Of(p) \/ d # at[p[1]] => stored'[w][d] = stored[w][d]
          /\ \/ switch'[p] = "failed" /\ stored'[Of(p)][at[p[1]]] = stored[Of(p)][at[p[1]]]
             \/ switch'[p] = "reading" /\ stored'[Of(p)][at[p[1]]] = latest[Of(p)][at[p[1]]]
          /\ \A q \in Incarnations : q # p => switch'[q] = switch[q]
      BY <1>2, <3>1, WriteFacts, SMTT(30) DEF StoreSource, DiskType, JobsType
    <3> QED
      <4>1. UNCHANGED <<online, admission, last, home, latest, conn, domain, version>>
        BY <1>2, Zenon DEF StoreSource, net, table, loaded, aux
      <4>2. \A w \in Profiles : \A d \in Domains : online[w] = Nobody => stored'[w][d] = stored[w][d]
        BY <3>1, <3>2, IncarnationFacts
      <4> QED
        BY <4>1, <4>2 DEF RestInv
  <2>3. PlayInv'
    <3>1. /\ switch[p] = "storing" /\ admission[Of(p)] = "relocating" /\ online[Of(p)] = p
          /\ at[p[1]] \in Domains /\ source[p] \in Nat /\ source[p] = latest[Of(p)][at[p[1]]]
      BY <1>2 DEF StoreSource, Detached, SwitchInv, PlayerType, JobsType, CarryInv
    <3>2. /\ \A w \in Profiles : \A d \in Domains :
               w # Of(p) \/ d # at[p[1]] => stored'[w][d] = stored[w][d]
          /\ \/ switch'[p] = "failed" /\ stored'[Of(p)][at[p[1]]] = stored[Of(p)][at[p[1]]]
             \/ switch'[p] = "reading" /\ stored'[Of(p)][at[p[1]]] = latest[Of(p)][at[p[1]]]
          /\ \A q \in Incarnations : q # p => switch'[q] = switch[q]
      BY <1>2, <3>1, WriteFacts, SMTT(30) DEF StoreSource, DiskType, JobsType
    <3>3. game \notin {"saving", "down"}
      BY <3>1, Zenon DEF PhaseInv, Ending
    <3>4. \A w \in Profiles : online[w] # Nobody => at[online[w][1]] \in Domains
      BY Zenon DEF OnlineInv, PlayerType
    <3>5. UNCHANGED <<admission, online, at, live, latest, home, game, todo, last>>
      BY <1>2, Zenon DEF StoreSource, table, player, aux
    <3>6. ASSUME NEW w \in Profiles, online[w] # Nobody, NEW d \in Domains, d # at[online[w][1]]
          PROVE  stored'[w][d] = latest[w][d]
      <4>1. w # Of(p) \/ d # at[p[1]]
        BY <3>1, <3>6, Zenon
      <4> QED
        BY <3>2, <3>6, <4>1 DEF PlayInv
    <3> QED
      BY <3>3, <3>5, <3>6, Zenon DEF PlayInv
  <2>4. CarryInv'
    <3>1. /\ switch[p] = "storing" /\ admission[Of(p)] = "relocating" /\ online[Of(p)] = p
          /\ at[p[1]] \in Domains /\ source[p] \in Nat /\ source[p] = latest[Of(p)][at[p[1]]]
      BY <1>2 DEF StoreSource, Detached, SwitchInv, PlayerType, JobsType, CarryInv
    <3>2. /\ \A w \in Profiles : \A d \in Domains :
               w # Of(p) \/ d # at[p[1]] => stored'[w][d] = stored[w][d]
          /\ \/ switch'[p] = "failed" /\ stored'[Of(p)][at[p[1]]] = stored[Of(p)][at[p[1]]]
             \/ switch'[p] = "reading" /\ stored'[Of(p)][at[p[1]]] = latest[Of(p)][at[p[1]]]
          /\ \A q \in Incarnations : q # p => switch'[q] = switch[q]
      BY <1>2, <3>1, WriteFacts, SMTT(30) DEF StoreSource, DiskType, JobsType
    <3>3. \A q \in Incarnations : q # p /\ switch[q] \in Detached => Of(q) # Of(p)
      BY <3>1, Zenon DEF SwitchInv
    <3>4. \A q \in Incarnations : at[q[1]] \in Domains
      BY Zenon DEF PlayerType
    <3>5. UNCHANGED <<source, latest, at, arrival, target>>
      BY <1>2, Zenon DEF StoreSource, player, aux
    <3>6. ASSUME NEW q \in Incarnations, switch'[q] \in Detached
          PROVE  /\ source[q] = latest[Of(q)][at[q[1]]]
                 /\ switch'[q] \in {"reading", "ready"} =>
                      stored'[Of(q)][at[q[1]]] = latest[Of(q)][at[q[1]]]
                 /\ switch'[q] = "ready" => arrival[q] = latest[Of(q)][target[q]]
      <4>1. CASE q = p
        BY <3>1, <3>2, <3>6, <4>1, Zenon DEF Detached
      <4>2. CASE q # p
        <5>1. switch'[q] = switch[q] /\ Of(q) # Of(p) /\ Of(q) \in Profiles
          BY <3>2, <3>3, <3>6, <4>2, Zenon
        <5>2. stored'[Of(q)][at[q[1]]] = stored[Of(q)][at[q[1]]]
          BY <3>2, <3>4, <5>1, Zenon
        <5> QED
          BY <3>6, <5>1, <5>2, Zenon DEF CarryInv
      <4> QED
        BY <4>1, <4>2, Zenon
    <3> QED
      BY <3>5, <3>6, Zenon DEF CarryInv
  <2>5. FinalInv'
    <3>1. /\ switch[p] = "storing" /\ admission[Of(p)] = "relocating" /\ online[Of(p)] = p
          /\ at[p[1]] \in Domains /\ source[p] \in Nat /\ source[p] = latest[Of(p)][at[p[1]]]
      BY <1>2 DEF StoreSource, Detached, SwitchInv, PlayerType, JobsType, CarryInv
    <3>2. /\ \A w \in Profiles : \A d \in Domains :
               w # Of(p) \/ d # at[p[1]] => stored'[w][d] = stored[w][d]
          /\ \/ switch'[p] = "failed" /\ stored'[Of(p)][at[p[1]]] = stored[Of(p)][at[p[1]]]
             \/ switch'[p] = "reading" /\ stored'[Of(p)][at[p[1]]] = latest[Of(p)][at[p[1]]]
          /\ \A q \in Incarnations : q # p => switch'[q] = switch[q]
      BY <1>2, <3>1, WriteFacts, SMTT(30) DEF StoreSource, DiskType, JobsType
    <3>3. \A b \in Connections : leaving[b] # "none" => Owner[b] # Of(p) /\ at[b] \in Domains
      BY <3>1, Zenon DEF LeaveInv, PlayerType
    <3>4. UNCHANGED <<leaving, home, at, latest, final, globals>>
      BY <1>2, Zenon DEF StoreSource, player, saves, aux
    <3>5. \A b \in Connections : \A d \in Domains : leaving[b] # "none" =>
            stored'[Owner[b]][d] = stored[Owner[b]][d]
      BY <3>2, <3>3, Constants, Zenon
    <3> QED
      BY <3>3, <3>4, <3>5 DEF FinalInv
  <2> QED
    BY <2>1, <2>2, <2>3, <2>4, <2>5, Zenon
<1>3. ASSUME NEW p \in Incarnations, LoadTarget(p)
      PROVE  DataInv'
  <2>1. GlobalsInv' /\ RestInv' /\ PlayInv' /\ FinalInv'
    BY <1>3, Frames, Zenon DEF LoadTarget, net, table, player, loaded, saves, disk, aux
  <2>2. CarryInv'
    <3>1. /\ switch[p] = "reading" /\ online[Of(p)] = p /\ p # Nobody /\ target[p] \in Domains
      BY <1>3, Zenon DEF LoadTarget, Detached, SwitchInv, JobsType
    <3>2. stored[Of(p)][target[p]] = latest[Of(p)][target[p]]
      BY <3>1 DEF CarryInv, PlayInv, Detached
    <3>3. /\ \A q \in Incarnations : q # p => switch'[q] = switch[q] /\ arrival'[q] = arrival[q]
          /\ \/ switch'[p] = "failed"
             \/ switch'[p] = "ready" /\ arrival'[p] = stored[Of(p)][target[p]]
      BY <1>3, ZenonT(30) DEF LoadTarget, JobsType
    <3> QED
      BY <1>3, <3>1, <3>2, <3>3 DEF LoadTarget, CarryInv, Detached, player, disk, aux
  <2> QED
    BY <2>1, <2>2, Zenon
<1> QED
  BY <1>1, <1>2, <1>3, StorageTask(c), ZenonT(30) DEF StorageTask

\* Players, clients and the stop of the server.
LEMMA EnvironmentData ==
  ASSUME DataInv, OwnersInv, WorkInv, Environment
  PROVE  DataInv'
<1> USE Constants, IncarnationFacts DEF OwnersInv, StateType, DataInv
<1>1. CASE Stop
  <2>1. GlobalsInv' /\ RestInv' /\ CarryInv' /\ FinalInv'
    BY <1>1, Frames, Zenon DEF Stop, Enter, net, table, player, loaded, jobs, saves, disk, aux
  <2>2. PlayInv'
    BY <1>1, ZenonT(30) DEF Stop, Enter, AllJobs, PlayInv, TableType, PlayerType, DiskType, AuxType,
       RunType, table, player, disk, aux
  <2> QED
    BY <2>1, <2>2, Zenon
<1>2. ASSUME NEW c \in Connections, BeginLogin(c)
      PROVE  DataInv'
  <2>1. GlobalsInv' /\ PlayInv' /\ CarryInv' /\ FinalInv'
    BY <1>2, Frames, Zenon DEF BeginLogin, table, player, jobs, saves, disk, aux
  <2>2. RestInv'
    BY <1>2, ZenonT(30) DEF BeginLogin, RestInv, TableType, DiskType, AuxType, NetType, LoadedType, net,
       table, loaded, disk, aux
  <2> QED
    BY <2>1, <2>2, Zenon
<1>3. ASSUME NEW c \in Connections, Close(c)
      PROVE  DataInv'
  <2>1. GlobalsInv' /\ RestInv' /\ PlayInv' /\ CarryInv' /\ FinalInv'
    BY <1>3, Frames, Zenon DEF Close, net, table, player, loaded, jobs, saves, disk, aux
  <2> QED
    BY <2>1, Zenon
<1>4. ASSUME NEW p \in Incarnations, Play(p)
      PROVE  DataInv'
  <2>0. game \notin {"saving", "down"}
    BY <1>4, Zenon DEF Play, Playing, WorkInv
  <2>1. GlobalsInv'
    BY <1>4, Frames, Zenon DEF Play, table, saves
  <2>2. RestInv'
    <3>1. /\ online[Of(p)] = p /\ p # Nobody /\ admission[Of(p)] = "none" /\ game \notin {"saving", "down"}
      BY <1>4, <2>0 DEF Play, Live, MemberInv, LeaveInv, JoinInv, TableType, Admission
    <3>2. at[p[1]] \in Domains /\ live[p[1]] + 1 \in Nat /\ Of(p) \in Profiles
      BY DEF PlayerType
    <3>3. /\ \A w \in Profiles : \A d \in Domains :
               w # Of(p) \/ d # at[p[1]] => latest'[w][d] = latest[w][d]
          /\ latest'[Of(p)][at[p[1]]] = live[p[1]] + 1
          /\ \A b \in Connections : b # p[1] => live'[b] = live[b]
          /\ live'[p[1]] = live[p[1]] + 1
      BY <1>4, <3>2, WriteFacts DEF Play, AuxType, PlayerType
    <3>4. \A b \in Connections : conn[b] \in {"reading", "prepared"} => Owner[b] # Of(p)
      BY <3>1, Zenon DEF JoinInv, Joins
    <3> QED
      BY <1>4, <3>1, <3>3, <3>4 DEF Play, RestInv, AuxType, net, table, loaded, disk
  <2>3. PlayInv'
    <3>1. /\ online[Of(p)] = p /\ p # Nobody /\ admission[Of(p)] = "none" /\ game \notin {"saving", "down"}
      BY <1>4, <2>0 DEF Play, Live, MemberInv, LeaveInv, JoinInv, TableType, Admission
    <3>2. at[p[1]] \in Domains /\ live[p[1]] + 1 \in Nat /\ Of(p) \in Profiles
      BY DEF PlayerType
    <3>3. /\ \A w \in Profiles : \A d \in Domains :
               w # Of(p) \/ d # at[p[1]] => latest'[w][d] = latest[w][d]
          /\ latest'[Of(p)][at[p[1]]] = live[p[1]] + 1
          /\ \A b \in Connections : b # p[1] => live'[b] = live[b]
          /\ live'[p[1]] = live[p[1]] + 1
      BY <1>4, <3>2, WriteFacts DEF Play, AuxType, PlayerType
    <3>4. \A w \in Profiles : online[w] # Nobody =>
            at[online[w][1]] \in Domains /\ online[w][1] \in Connections /\ (w # Of(p) => online[w][1] # p[1])
      BY DEF OnlineInv, PlayerType, Of
    <3>5. UNCHANGED <<admission, online, at, stored, home, game, todo, last>>
      BY <1>4, Zenon DEF Play, table, disk
    <3>6. ASSUME NEW w \in Profiles, online[w] # Nobody
          PROVE  /\ \A d \in Domains : d # at[online[w][1]] => latest'[w][d] = latest[w][d]
                 /\ live[online[w][1]] = latest[w][at[online[w][1]]] =>
                      live'[online[w][1]] = latest'[w][at[online[w][1]]]
      <4>1. CASE w = Of(p)
        BY <3>1, <3>3, <4>1
      <4>2. CASE w # Of(p)
        BY <3>3, <3>4, <3>6, <4>2, Zenon
      <4> QED
        BY <4>1, <4>2, Zenon
    <3> QED
      BY <3>1, <3>5, <3>6 DEF PlayInv
  <2>4. CarryInv'
    <3>1. /\ online[Of(p)] = p /\ p # Nobody /\ admission[Of(p)] = "none" /\ game \notin {"saving", "down"}
      BY <1>4, <2>0 DEF Play, Live, MemberInv, LeaveInv, JoinInv, TableType, Admission
    <3>2. at[p[1]] \in Domains /\ live[p[1]] + 1 \in Nat /\ Of(p) \in Profiles
      BY DEF PlayerType
    <3>3. /\ \A w \in Profiles : \A d \in Domains :
               w # Of(p) \/ d # at[p[1]] => latest'[w][d] = latest[w][d]
          /\ latest'[Of(p)][at[p[1]]] = live[p[1]] + 1
          /\ \A b \in Connections : b # p[1] => live'[b] = live[b]
          /\ live'[p[1]] = live[p[1]] + 1
      BY <1>4, <3>2, WriteFacts DEF Play, AuxType, PlayerType
    <3>4. \A q \in Incarnations : switch[q] \in Detached => Of(q) # Of(p)
      BY <3>1, Zenon DEF SwitchInv
    <3>5. \A q \in Incarnations : at[q[1]] \in Domains /\ target[q] \in Domains
      BY Zenon DEF PlayerType, JobsType
    <3> QED
      BY <1>4, <3>3, <3>4, <3>5 DEF Play, CarryInv, jobs, disk
  <2>5. FinalInv'
    <3>1. /\ online[Of(p)] = p /\ p # Nobody /\ admission[Of(p)] = "none" /\ game \notin {"saving", "down"}
      BY <1>4, <2>0 DEF Play, Live, MemberInv, LeaveInv, JoinInv, TableType, Admission
    <3>2. at[p[1]] \in Domains /\ live[p[1]] + 1 \in Nat /\ Of(p) \in Profiles
      BY DEF PlayerType
    <3>3. /\ \A w \in Profiles : \A d \in Domains :
               w # Of(p) \/ d # at[p[1]] => latest'[w][d] = latest[w][d]
          /\ latest'[Of(p)][at[p[1]]] = live[p[1]] + 1
          /\ \A b \in Connections : b # p[1] => live'[b] = live[b]
          /\ live'[p[1]] = live[p[1]] + 1
      BY <1>4, <3>2, WriteFacts DEF Play, AuxType, PlayerType
    <3>4. \A b \in Connections : leaving[b] # "none" => Owner[b] # Of(p) /\ at[b] \in Domains
      BY <3>1, Zenon DEF LeaveInv, PlayerType
    <3> QED
      <4>1. UNCHANGED <<leaving, home, at, stored, final, globals>>
        BY <1>4, Zenon DEF Play, saves, disk
      <4>2. \A b \in Connections : \A d \in Domains : leaving[b] # "none" =>
              latest'[Owner[b]][d] = latest[Owner[b]][d]
        BY <3>3, <3>4, Constants, Zenon
      <4> QED
        BY <3>4, <4>1, <4>2 DEF FinalInv
  <2> QED
    BY <2>1, <2>2, <2>3, <2>4, <2>5, Zenon
<1>5. ASSUME NEW p \in Incarnations, ShowEndCredits(p)
      PROVE  DataInv'
  <2>1. GlobalsInv' /\ RestInv' /\ PlayInv' /\ CarryInv' /\ FinalInv'
    BY <1>5, Frames, Zenon DEF ShowEndCredits, net, table, player, loaded, jobs, saves, disk, aux
  <2> QED
    BY <2>1, Zenon
<1>6. ASSUME NEW p \in Incarnations, RequestRespawn(p)
      PROVE  DataInv'
  <2>1. GlobalsInv' /\ RestInv' /\ PlayInv' /\ CarryInv' /\ FinalInv'
    BY <1>6, Frames, Zenon DEF RequestRespawn, net, table, player, loaded, jobs, saves, disk, aux
  <2> QED
    BY <2>1
<1>7. ASSUME NEW p \in Incarnations, NEW d \in Domains, QueueSwitch(p, d)
      PROVE  DataInv'
  <2>1. GlobalsInv' /\ RestInv' /\ PlayInv' /\ FinalInv'
    BY <1>7, Frames, Zenon DEF QueueSwitch, Playing, Pending, net, table, player, loaded, saves, disk,
       aux
  <2>2. CarryInv'
    BY <1>7, ZenonT(30) DEF QueueSwitch, Live, Playing, Pending, CarryInv, Of, Detached, JobsType,
       AuxType,
       PlayerType, DiskType, player, jobs, disk, aux
  <2> QED
    BY <2>1, <2>2, Zenon
<1>8. ASSUME NEW p \in Incarnations, PlayLate(p)
      PROVE  DataInv'
  <2>1. GlobalsInv' /\ RestInv' /\ CarryInv' /\ FinalInv'
    BY <1>8, Frames, Zenon DEF PlayLate, net, table, player, loaded, jobs, saves, disk, aux
  <2>2. online[Of(p)] = Nobody
    BY <1>8, Zenon DEF PlayLate, WorkInv
  <2>3. \A w \in Profiles : online[w] # Nobody =>
          online[w][1] \in Connections /\ online[w][1] # p[1]
    BY <2>2 DEF OnlineInv, Of
  <2>4. \A b \in Connections : b # p[1] => live'[b] = live[b]
    BY <1>8 DEF PlayLate, PlayerType
  <2>5. UNCHANGED <<online, at, stored, latest, admission, game, todo, home, last>>
    BY <1>8, Zenon DEF PlayLate, table, disk, aux
  <2>6. PlayInv'
    BY <2>3, <2>4, <2>5 DEF PlayInv
  <2> QED
    BY <2>1, <2>6, Zenon
<1> QED
  BY <1>1, <1>2, <1>3, <1>4, <1>5, <1>6, <1>7, <1>8, Environment, Zenon DEF Environment

\* The game thread goes from phase to phase.
LEMMA PhaseData ==
  ASSUME DataInv, OwnersInv, BeginTick \/ DrainDisconnects \/ TickWorlds \/ BeginJobs \/ BeginJoins \/ BeginSwitches
           \/ EndTick \/ EndShutdown \/ EndLoop \/ BeginShutdown
  PROVE  DataInv'
<1> USE Constants, IncarnationFacts DEF OwnersInv, StateType, DataInv
<1>1. CASE BeginTick \/ DrainDisconnects
  <2>1. RestInv' /\ CarryInv'
    BY <1>1, Frames, Zenon DEF BeginTick, DrainDisconnects, StartDisconnects, Enter, net, table,
       player, loaded, jobs, disk, aux
  <2>2. GlobalsInv'
    <3>1. /\ \A c \in Connections : leaving'[c] = "global" <=> leaving[c] = "global"
          /\ \A c \in Connections : leaving'[c] = "none" <=> leaving[c] = "none"
          /\ UNCHANGED <<globals, online, admission, final, at, home, stored, latest>>
      BY <1>1, Zenon DEF BeginTick, DrainDisconnects, StartDisconnects, SavesType, table, player,
         disk, aux
    <3>2. \A u \in Profiles : \A i \in 1..Len(globals[u]) : globals[u][i][1][1] \in Connections
      BY SMTT(30) DEF SavesType
    <3> QED
      BY <3>1, <3>2 DEF GlobalsInv
  <2>3. PlayInv'
    BY <1>1 DEF BeginTick, DrainDisconnects, StartDisconnects, Enter, PlayInv, TableType,
       PlayerType, DiskType, AuxType, RunType, table, player, disk, aux
  <2>4. FinalInv'
    <3>1. /\ \A c \in Connections : leaving'[c] = "global" <=> leaving[c] = "global"
          /\ \A c \in Connections : leaving'[c] = "none" <=> leaving[c] = "none"
          /\ UNCHANGED <<globals, online, admission, final, at, home, stored, latest>>
      BY <1>1 DEF BeginTick, DrainDisconnects, StartDisconnects, SavesType, table, player, disk, aux
    <3> QED
      BY <3>1, ZenonT(30) DEF FinalInv
  <2> QED
    BY <2>1, <2>2, <2>3, <2>4, Zenon
<1>2. CASE TickWorlds \/ BeginJobs \/ BeginJoins \/ BeginSwitches \/ EndTick \/ EndShutdown
  <2>1. GlobalsInv' /\ RestInv' /\ CarryInv' /\ FinalInv'
    BY <1>2, Frames, ZenonT(30) DEF TickWorlds, BeginJobs, BeginJoins, BeginSwitches, EndTick,
       EndShutdown,
       Enter, net, table, player, loaded, jobs, saves, disk, aux
  <2>2. PlayInv'
    <3>1. \/ game \notin {"saving", "down"} /\ game' \notin {"saving", "down"}
          \/ game = "saving" /\ todo = {} /\ game' = "down" /\ todo' = {}
      BY <1>2, Zenon DEF TickWorlds, BeginJobs, BeginJoins, BeginSwitches, EndTick, EndShutdown, Enter
    <3>2. UNCHANGED <<online, at, stored, latest, admission, home, live, last>>
      BY <1>2, Zenon DEF TickWorlds, BeginJobs, BeginJoins, BeginSwitches, EndTick, EndShutdown, table,
         player, disk, aux
    <3> QED
      BY <3>1, <3>2, ZenonT(30) DEF PlayInv
  <2> QED
    BY <2>1, <2>2, Zenon
<1>3. CASE EndLoop
  <2>1. RestInv' /\ CarryInv'
    BY <1>3, Frames, Zenon DEF EndLoop, Enter, SavesJoined, net, table, player, loaded, jobs, disk,
       aux
  <2>2. GlobalsInv'
    <3>1. \A c \in Connections : leaving[c] = "none"
      BY <1>3, Zenon DEF EndLoop, SavesJoined, PhaseInv, Ending
    <3>2. \A u \in Profiles : \A i \in 1..Len(globals[u]) : globals[u][i][1][1] \in Connections
      BY SMTT(30) DEF SavesType
    <3>3. UNCHANGED <<globals, online, admission>>
      BY <1>3, Zenon DEF EndLoop, table
    <3> QED
      BY <3>1, <3>2, <3>3, ZenonT(30) DEF GlobalsInv
  <2>3. PlayInv'
    BY <1>3, ZenonT(30) DEF EndLoop, Enter, SavesJoined, PlayInv, TableType, PlayerType, DiskType,
       AuxType,
       RunType, table, player, disk, aux
  <2>4. FinalInv'
    BY <1>3 DEF EndLoop, Enter, SavesJoined, FinalInv, SavesType, AuxType, PlayerType,
       DiskType, player, saves, disk, aux
  <2> QED
    BY <2>1, <2>2, <2>3, <2>4, SMTT(30)
<1>4. CASE BeginShutdown
  <2>1. CarryInv' /\ FinalInv'
    BY <1>4, Frames, Zenon DEF BeginShutdown, Enter, player, jobs, saves, disk, aux
  <2>2. GlobalsInv'
    BY <1>4 DEF BeginShutdown, Enter, Online, GlobalsInv, SavesType, TableType, table, saves
  <2>3. RestInv'
    BY <1>4, ZenonT(30) DEF BeginShutdown, Enter, Online, RestInv, TableType, DiskType, AuxType,
       NetType,
       LoadedType, net, table, loaded, disk, aux
  <2>4. PlayInv'
    <3>1. game = "ended" /\ game' = "saving" /\ UNCHANGED <<online, at, stored, latest, home, live, last>>
      BY <1>4, Zenon DEF BeginShutdown, Enter, player, disk, aux
    <3>2. \A u \in Profiles : online[u] # Nobody => u \in todo'
      BY <1>4, Zenon DEF BeginShutdown, Enter, Online
    <3>3. \A u \in Profiles : online[u] # Nobody => admission[u] = "none"
      BY <3>1 DEF JoinInv, SwitchInv, LeaveInv, PhaseInv, Ending, Detached, OnlineInv, TableType,
         Admission
    <3> QED
      BY <3>1, <3>2, <3>3, ZenonT(30) DEF PlayInv
  <2> QED
    BY <2>1, <2>2, <2>3, <2>4, Zenon
<1> QED
  BY <1>1, <1>2, <1>3, <1>4, BeginTick \/ DrainDisconnects \/ TickWorlds \/ BeginJobs \/
     BeginJoins \/ BeginSwitches            \/ EndTick \/ EndShutdown \/ EndLoop \/
     BeginShutdown, Zenon

-----------------------------------------------------------------------------
(* The game thread: disconnects and jobs that end.                         *)

\* PlayInv looks at one profile at a time.
LEMMA PlayFrame ==
  ASSUME PlayInv, UNCHANGED <<at, live, stored, latest, game>>,
         game \in {"saving", "down"} => todo' = todo,
         \A w \in Profiles : online'[w] # Nobody =>
            /\ online'[w] = online[w] /\ admission'[w] = admission[w]
            /\ last'[w] = last[w] /\ home'[w] = home[w]
  PROVE  PlayInv'
BY DEF PlayInv

\* The data passes from the player to the save.
LEMMA RemovalData ==
  ASSUME OwnersInv, DataInv, NEW p \in Incarnations, online[Of(p)] = p,
         NEW place \in {"prepared", "domain"}, NEW v \in Nat, Removal(p, place, v),
         admission[Of(p)] \in {"none", "relocating"}, v = latest[Of(p)][at[p[1]]],
         switch' = [switch EXCEPT ![p] = IF @ \in Detached THEN "none" ELSE @],
         game \notin {"saving", "down"},
         UNCHANGED <<player, loaded, target, source, arrival, globals, disk, aux, game>>
  PROVE  DataInv'
<1> USE Constants, IncarnationFacts DEF OwnersInv, StateType, DataInv
<1>1. /\ p # Nobody /\ p[1] \in Connections /\ Of(p) \in Profiles /\ Of(p) = Owner[p[1]]
      /\ leaving[p[1]] = "none"
  BY Zenon DEF LeaveInv, Of
<1>2. \A b \in Connections : conn'[b] \in {"reading", "prepared"} => conn'[b] = conn[b]
  BY <1>1, DoneFacts, ZenonT(30) DEF Removal, RemoveOnline
<1>3. final'[p[1]] = v /\ \A b \in Connections : b # p[1] => final'[b] = final[b]
  BY <1>1, Zenon DEF Removal, Hand, SavesType
<1>4. leaving'[p[1]] = place /\ \A b \in Connections : b # p[1] => leaving'[b] = leaving[b]
  BY RemovalFacts
<1>5. /\ admission'[Of(p)] = "disconnecting"
       /\ \A w \in Profiles : w # Of(p) => admission'[w] = admission[w] /\ online'[w] = online[w]
  BY RemovalFacts
<1>6. GlobalsInv'
  <2>1. ASSUME NEW w \in Profiles, NEW i \in 1..Len(globals[w]), globals[w][i][1][2] = 0
        PROVE  /\ Owner[globals[w][i][1][1]] = w /\ leaving'[globals[w][i][1][1]] = "global"
               /\ i = Len(globals[w])
    <3>1. /\ Owner[globals[w][i][1][1]] = w /\ leaving[globals[w][i][1][1]] = "global"
          /\ i = Len(globals[w])
      BY <2>1, Zenon DEF GlobalsInv
    <3>2. globals[w][i][1][1] \in Connections
      BY <2>1 DEF SavesType
    <3> QED
      BY <1>1, <1>4, <3>1, <3>2, Zenon
  <2>2. ASSUME NEW w \in Profiles, online'[w] = Nobody, admission'[w] # "disconnecting"
        PROVE  globals[w] = <<>>
    BY <1>5, <2>2, Zenon DEF GlobalsInv
  <2> QED
    BY <2>1, <2>2, ZenonT(30) DEF GlobalsInv
<1>7. RestInv'
  BY <1>2, RemovalFacts, SMTT(30) DEF RestInv, loaded, disk, aux
<1>8. PlayInv'
  <2>1. UNCHANGED <<at, live, stored, latest, home, game, last>>
    BY Zenon DEF player, disk, aux
  <2>2. online'[Of(p)] = Nobody
    BY RemovalFacts
  <2>3. \A w \in Profiles : online'[w] # Nobody => online'[w] = online[w] /\ admission'[w] = admission[w]
    BY <1>5, <2>2, Zenon
  <2> QED
    BY <2>1, <2>3, PlayFrame, Zenon
<1>9. CarryInv'
  BY Zenon DEF CarryInv, JobsType, Detached, player, disk, aux
<1>10. FinalInv'
  <2>1. /\ home[Of(p)] = at[p[1]]
        /\ \A d \in Domains : d # at[p[1]] => stored[Of(p)][d] = latest[Of(p)][d]
    BY <1>1 DEF PlayInv
  <2>2. ASSUME NEW b \in Connections, leaving'[b] # "none"
        PROVE  /\ home[Owner[b]] = at[b]
               /\ \A d \in Domains : d # at[b] => stored[Owner[b]][d] = latest[Owner[b]][d]
               /\ leaving'[b] # "global" => final'[b] = latest[Owner[b]][at[b]]
               /\ leaving'[b] = "global" => stored[Owner[b]][at[b]] = latest[Owner[b]][at[b]]
    <3>1. CASE b = p[1]
      BY <1>1, <1>3, <1>4, <2>1, <3>1, Zenon
    <3>2. CASE b # p[1]
      BY <1>3, <1>4, <2>2, <3>2, ZenonT(30) DEF FinalInv
    <3> QED
      BY <3>1, <3>2, Zenon
  <2> QED
    BY <2>2, ZenonT(30) DEF FinalInv, player, disk, aux
<1> QED
  BY <1>6, <1>7, <1>8, <1>9, <1>10, Zenon

\* process_player_disconnect saves what the player object holds.
LEMMA DisconnectData ==
  ASSUME OwnersInv, DataInv, NEW p \in Incarnations, Disconnect(p)
  PROVE  DataInv'
<1> USE Constants, IncarnationFacts DEF OwnersInv, StateType, DataInv
<1>1. game \in {"disconnects", "draining"} /\ UNCHANGED game
  BY Zenon DEF Disconnect, Visit
<1>2. CASE UNCHANGED <<conn, table, leaving, final>>
  <2>1. PlayInv'
    BY <1>1, <1>2, ZenonT(30) DEF Disconnect, PlayInv, table, player, disk, aux
  <2> QED
    BY <1>2, <2>1, Frames, Zenon DEF Disconnect, table, player, loaded, jobs, disk, aux
<1>3. CASE /\ admission[Of(p)] = "none" /\ online[Of(p)] = p
           /\ Removal(p, "domain", live[p[1]])
  <2>1. p # Nobody /\ p[1] \in Connections /\ Of(p) \in Profiles /\ live[p[1]] \in Nat
    BY Zenon DEF PlayerType
  <2>2. live[p[1]] = latest[Of(p)][at[p[1]]]
    BY <1>3, <2>1 DEF PlayInv
  <2>3. switch[p] \notin Detached
    BY <1>3, Zenon DEF SwitchInv
  <2>4. switch' = [switch EXCEPT ![p] = IF @ \in Detached THEN "none" ELSE @]
    BY <2>3, Zenon DEF Disconnect, jobs, JobsType
  <2>5. UNCHANGED <<player, loaded, target, source, arrival, globals, disk, aux, game>>
    BY <1>1, Zenon DEF Disconnect, jobs
  <2> QED
    BY <1>1, <1>3, <2>1, <2>2, <2>4, <2>5, RemovalData, ZenonT(30)
<1> QED
  BY <1>2, <1>3, Disconnect(p), Zenon DEF Disconnect, Removal

\* queue_relocating_player_disconnect saves the data the switch carries.
LEMMA QuitSwitchData ==
  ASSUME OwnersInv, DataInv, NEW p \in Incarnations, switch[p] \in Detached, QuitSwitch(p),
         game \in {"jobs", "cancelling"}, Visit(<<"switch", p>>)
  PROVE  DataInv'
<1> USE Constants, IncarnationFacts DEF OwnersInv, StateType, DataInv
<1>1. admission[Of(p)] = "relocating" /\ online[Of(p)] = p /\ source[p] \in Nat
  BY Zenon DEF SwitchInv, JobsType
<1>2. Removal(p, "prepared", source[p])
  BY <1>1, Zenon DEF QuitSwitch, Removal
<1>3. source[p] = latest[Of(p)][at[p[1]]]
  BY Zenon DEF CarryInv
<1>4. switch' = [switch EXCEPT ![p] = IF @ \in Detached THEN "none" ELSE @]
  BY Zenon DEF QuitSwitch, JobsType
<1>5. UNCHANGED <<player, loaded, target, source, arrival, globals, disk, aux, game>>
  BY Zenon DEF QuitSwitch, Visit
<1> QED
  BY <1>1, <1>2, <1>3, <1>4, <1>5, RemovalData, ZenonT(30)

\* Jobs that end.
LEMMA EndJobData ==
  ASSUME OwnersInv, DataInv, NEW p \in Incarnations,
         LeaveSwitch(p) \/ FinishSwitch(p) \/ LeaveRespawn(p) \/ CancelJob(p)
  PROVE  DataInv'
<1> USE DEF OwnersInv, StateType, DataInv
<1>1. game \in {"jobs", "cancelling"} /\ UNCHANGED game
  BY Zenon DEF LeaveSwitch, FinishSwitch, LeaveRespawn, CancelJob, Visit
<1>2. CASE switch[p] \in Detached /\ QuitSwitch(p) /\ Visit(<<"switch", p>>)
  BY <1>1, <1>2, QuitSwitchData, Zenon
<1>3. CASE /\ UNCHANGED <<net, table, player, loaded, target, source, arrival, saves, disk, aux>>
           /\ \A q \in Incarnations : switch'[q] \in Detached => switch'[q] = switch[q]
  <2>1. PlayInv'
    BY <1>1, <1>3, ZenonT(30) DEF PlayInv, table, player, disk, aux
  <2>2. CarryInv'
    BY <1>3, ZenonT(30) DEF CarryInv, player, disk, aux
  <2> QED
    BY <1>3, <2>1, <2>2, Frames, Zenon DEF net, table, player, loaded, saves, disk, aux
<1>4. CASE QuitGlobal(p)
  BY <1>3, <1>4, Zenon DEF QuitGlobal, JobsType, Detached
<1>5. CASE UNCHANGED <<net, table, player, loaded, switch, target, source, arrival, saves, disk, budget, aux>>
  BY <1>3, <1>5, Zenon
<1> QED
  BY <1>2, <1>4, <1>5, Zenon DEF LeaveSwitch, FinishSwitch, LeaveRespawn, CancelJob

\* Jobs that wait, and switches that are not started.
LEMMA WaitData ==
  ASSUME OwnersInv, DataInv, NEW p \in Incarnations,
         AwaitSwitch(p) \/ AwaitRespawn(p) \/ DropSwitch(p)
  PROVE  DataInv'
<1> USE DEF OwnersInv, StateType, DataInv
<1>1. game \in {"jobs", "switches"} /\ UNCHANGED game
  BY Zenon DEF AwaitSwitch, AwaitRespawn, DropSwitch, Visit
<1>2. /\ UNCHANGED <<net, table, player, loaded, target, source, arrival, saves, disk, aux>>
      /\ \A q \in Incarnations : switch'[q] \in Detached => switch'[q] = switch[q]
  BY Zenon DEF AwaitSwitch, AwaitRespawn, DropSwitch, jobs, JobsType, Detached
<1>3. PlayInv'
  BY <1>1, <1>2, ZenonT(30) DEF PlayInv, table, player, disk, aux
<1>4. CarryInv'
  BY <1>2, ZenonT(30) DEF CarryInv, player, disk, aux
<1> QED
  BY <1>2, <1>3, <1>4, Frames, Zenon DEF net, table, player, loaded, saves, disk, aux

\* start_domain_switch takes the data of the player.
LEMMA StartSwitchData ==
  ASSUME OwnersInv, DataInv, NEW p \in Incarnations, StartSwitch(p)
  PROVE  DataInv'
<1> USE Constants, IncarnationFacts DEF OwnersInv, StateType, DataInv
<1>1. /\ online[Of(p)] = p /\ p # Nobody /\ admission[Of(p)] = "none" /\ Of(p) \in Profiles
      /\ game = "switches" /\ UNCHANGED <<game, net, online, player, loaded, target, arrival, saves, disk, aux>>
  BY Zenon DEF StartSwitch, Live, Visit
<1>2. live[p[1]] = latest[Of(p)][at[p[1]]]
  BY <1>1 DEF PlayInv
<1>3. /\ admission'[Of(p)] = "relocating"
      /\ \A w \in Profiles : w # Of(p) => admission'[w] = admission[w]
  BY Zenon DEF StartSwitch, TableType
<1>4. /\ switch'[p] = "storing" /\ source'[p] = live[p[1]]
      /\ \A q \in Incarnations : q # p => switch'[q] = switch[q] /\ source'[q] = source[q]
  BY Zenon DEF StartSwitch, JobsType
<1>5. GlobalsInv'
  BY <1>1, <1>3 DEF GlobalsInv, saves
<1>6. RestInv'
  BY <1>1, <1>3, ZenonT(30) DEF RestInv, net, loaded, disk, aux
<1>7. PlayInv'
  BY <1>1, <1>3 DEF PlayInv, player, disk, aux
<1>8. CarryInv'
  BY <1>1, <1>2, <1>4, SMTT(30) DEF CarryInv, player, disk, aux
<1>9. FinalInv'
  BY <1>1, Frames, Zenon DEF player, saves, disk, aux
<1> QED
  BY <1>5, <1>6, <1>7, <1>8, <1>9, Zenon

-----------------------------------------------------------------------------
(* The game thread: players that change places.                            *)

\* commit_target_state: both domains' data is in the storage, and the player
\* gets that of the target.
LEMMA CommitSwitchData ==
  ASSUME OwnersInv, DataInv, NEW p \in Incarnations, CommitSwitch(p)
  PROVE  DataInv'
<1> USE Constants, IncarnationFacts DEF OwnersInv, StateType, DataInv
<1> DEFINE u == Of(p)
           c == p[1]
<1>1. /\ switch[p] = "ready" /\ switch[p] \in Detached /\ u \in Profiles /\ c \in Connections
      /\ target[p] \in Domains /\ p # Nobody /\ u = Owner[c]
      /\ game = "jobs" /\ UNCHANGED <<game, online, loaded, target, source, arrival, leaving, final, disk, latest>>
  BY Zenon DEF CommitSwitch, Detached, JobsType, Visit, Of
<1>2. online[u] = p /\ admission[u] = "relocating" /\ leaving[c] = "none"
  BY <1>1, Zenon DEF SwitchInv, LeaveInv
<1>3. /\ \A d \in Domains : stored[u][d] = latest[u][d]
      /\ arrival[p] = latest[u][target[p]]
  BY <1>1, <1>2, SMTT(30) DEF CarryInv, PlayInv
<1>4. /\ admission'[u] = "none"
      /\ \A w \in Profiles : w # u => admission'[w] = admission[w] /\ home'[w] = home[w] /\ globals'[w] = globals[w]
      /\ home'[u] = target[p] /\ globals'[u] = Append(globals[u], <<p, target[p]>>)
  BY <1>1, <1>2, ZenonT(30) DEF CommitSwitch, Release, TableType, AuxType, SavesType
<1>5. /\ at'[c] = target[p] /\ live'[c] = arrival[p]
      /\ \A b \in Connections : b # c => at'[b] = at[b] /\ live'[b] = live[b]
  BY <1>1, Zenon DEF CommitSwitch, PlayerType
<1>6. switch'[p] = "global" /\ \A q \in Incarnations : q # p => switch'[q] = switch[q]
  BY Zenon DEF CommitSwitch, JobsType
<1>7. \A b \in Connections : conn'[b] \in {"reading", "prepared"} => conn'[b] = conn[b]
  BY NotifyFacts, Zenon DEF CommitSwitch, NetType
<1>8. \A b \in Connections : conn[b] \in {"reading", "prepared"} => Owner[b] # u
  BY <1>2, Zenon DEF JoinInv, Joins
<1>9. \A b \in Connections : leaving[b] # "none" => Owner[b] # u /\ b # c
  BY <1>1, <1>2, Zenon DEF LeaveInv
<1>10. \A w \in Profiles : w # u /\ online[w] # Nobody => online[w][1] \in Connections /\ online[w][1] # c
  BY <1>1 DEF OnlineInv, Of
<1>11. \A q \in Incarnations : q # p /\ switch[q] \in Detached => Of(q) # u /\ q[1] # c
  BY <1>1, <1>2 DEF SwitchInv, Of
<1>12. globals[u] \in Seq((Connections \X (0..MaxLives)) \X Domains)
  BY <1>1, Zenon DEF SavesType
<1>13. ASSUME NEW w \in Profiles, NEW i \in 1..Len(globals'[w]), globals'[w][i][1][2] = 0
       PROVE  w # u
  <2>1. SUFFICES ASSUME w = u PROVE FALSE
    OBVIOUS
  <2>2. /\ Len(globals'[u]) = Len(globals[u]) + 1 /\ Len(globals[u]) \in Nat
        /\ globals'[u][Len(globals[u]) + 1] = <<p, target[p]>>
        /\ \A j \in 1..Len(globals[u]) : globals'[u][j] = globals[u][j]
    BY <1>4, <1>12
  <2>3. i # Len(globals[u]) + 1
    BY <1>13, <2>1, <2>2
  <2>4. i \in 1..Len(globals[u]) /\ globals[u][i][1][2] = 0
    BY <1>13, <2>1, <2>2, <2>3, SMTT(30)
  <2>5. globals[u][i][1][1] \in Connections
    BY <1>12, <2>4
  <2> QED
    BY <1>1, <1>9, <2>4, <2>5, Zenon DEF GlobalsInv
<1> HIDE DEF u, c
<1>14. GlobalsInv'
  <2>1. ASSUME NEW w \in Profiles, NEW i \in 1..Len(globals'[w]), globals'[w][i][1][2] = 0
        PROVE  /\ Owner[globals'[w][i][1][1]] = w /\ leaving[globals'[w][i][1][1]] = "global"
               /\ i = Len(globals'[w])
    BY <1>4, <1>13, <2>1 DEF GlobalsInv
  <2>2. ASSUME NEW w \in Profiles, online[w] = Nobody, admission'[w] # "disconnecting"
        PROVE  globals'[w] = <<>>
    BY <1>1, <1>2, <1>4, <2>2, SMTT(30) DEF GlobalsInv
  <2> QED
    BY <1>1, <2>1, <2>2, Zenon DEF GlobalsInv
<1>15. RestInv'
  BY <1>1, <1>2, <1>4, <1>7, <1>8, SMTT(30) DEF RestInv, loaded, disk
<1>16. PlayInv'
  <2>1. ASSUME NEW w \in Profiles, online[w] # Nobody
        PROVE  LET b == online[w][1]
               IN  /\ \A d \in Domains : d # at'[b] => stored[w][d] = latest[w][d]
                   /\ admission'[w] # "disconnecting" => home'[w] = at'[b]
                   /\ admission'[w] = "none" => live'[b] = latest[w][at'[b]]
    <3>1. CASE w = u
      BY <1>2, <1>3, <1>4, <1>5, <3>1, Zenon DEF c
    <3>2. CASE w # u
      BY <1>4, <1>5, <1>10, <2>1, <3>2, SMTT(30) DEF PlayInv
    <3> QED
      BY <3>1, <3>2, Zenon
  <2> QED
    BY <1>1, <2>1, ZenonT(30) DEF PlayInv, disk
<1>17. CarryInv'
  BY <1>1, <1>5, <1>6, <1>11, SMTT(30) DEF CarryInv, Detached, disk
<1>18. FinalInv'
  <2>1. ASSUME NEW w \in Profiles, NEW i \in 1..Len(globals'[w]), globals'[w][i][1][2] = 0
        PROVE  globals'[w][i][2] = at'[globals'[w][i][1][1]]
    <3>1. w # u /\ globals'[w] = globals[w] /\ globals[w][i][1][1] \in Connections
      <4>1. w # u /\ globals'[w] = globals[w]
        BY <1>4, <1>13, <2>1, Zenon
      <4>2. globals[w] \in Seq((Connections \X (0..MaxLives)) \X Domains) /\ i \in 1..Len(globals[w])
        BY <2>1, <4>1, Zenon DEF SavesType
      <4> QED
        BY <4>1, <4>2
    <3>2. leaving[globals[w][i][1][1]] # "none"
      BY <2>1, <3>1, ZenonT(30) DEF GlobalsInv
    <3> QED
      BY <1>5, <1>9, <2>1, <3>1, <3>2 DEF FinalInv
  <2>2. ASSUME NEW b \in Connections, leaving[b] # "none"
        PROVE  at'[b] = at[b] /\ home'[Owner[b]] = home[Owner[b]]
    BY <1>4, <1>5, <1>9, <2>2, Zenon
  <2> QED
    BY <1>1, <2>1, <2>2, SMTT(30) DEF FinalInv, disk
<1> QED
  BY <1>14, <1>15, <1>16, <1>17, <1>18, SMTT(30)

\* finish_respawn_replacement: the new incarnation has the newest data.
LEMMA FinishRespawnData ==
  ASSUME OwnersInv, DataInv, NEW p \in Incarnations, FinishRespawn(p)
  PROVE  DataInv'
<1> USE Constants, IncarnationFacts DEF OwnersInv, StateType, DataInv
<1> DEFINE u == Of(p)
           c == p[1]
<1>1. /\ u \in Profiles /\ c \in Connections /\ online[u] = p /\ p # Nobody
      /\ u = Owner[c] /\ game = "jobs" /\ at[c] \in Domains /\ live[c] + 1 \in Nat
      /\ UNCHANGED <<game, conn, admission, at, loaded, switch, target, source, arrival, saves, disk, home>>
  BY DEF FinishRespawn, RespawnValid, Visit, Of, PlayerType
<1>2. CASE UNCHANGED <<online, live, latest>>
  <2>1. PlayInv'
    BY <1>1, <1>2, ZenonT(30) DEF PlayInv, disk
  <2> QED
    BY <1>1, <1>2, <2>1, Frames, Zenon DEF loaded, saves, disk
<1>3. CASE /\ admission[u] = "none" /\ online' = [online EXCEPT ![u] = <<c, p[2] + 1>>]
           /\ live' = [live EXCEPT ![c] = @ + 1] /\ latest' = [latest EXCEPT ![u][at[c]] = live[c] + 1]
  <2>1. /\ \A w \in Profiles : \A d \in Domains :
             w # u \/ d # at[c] => latest'[w][d] = latest[w][d]
        /\ latest'[u][at[c]] = live[c] + 1 /\ latest' \in [Profiles -> [Domains -> Nat]]
    BY <1>1, <1>3, WriteFacts DEF AuxType
  <2>2. /\ live'[c] = live[c] + 1 /\ \A b \in Connections : b # c => live'[b] = live[b]
        /\ online'[u] = <<c, p[2] + 1>> /\ online'[u] # Nobody /\ online'[u][1] = c
        /\ \A w \in Profiles : w # u => online'[w] = online[w]
    BY <1>1, <1>3, Zenon DEF PlayerType, TableType, Nobody
  <2>3. \A b \in Connections : conn[b] \in {"reading", "prepared"} => Owner[b] # u
    BY <1>1 DEF JoinInv, Joins
  <2>4. \A b \in Connections : leaving[b] # "none" => Owner[b] # u /\ at[b] \in Domains
    BY <1>1 DEF LeaveInv, PlayerType
  <2>5. \A q \in Incarnations : switch[q] \in Detached => Of(q) # u /\ at[q[1]] \in Domains /\ target[q] \in Domains
    BY <1>1, <1>3, Zenon DEF SwitchInv, PlayerType, JobsType
  <2>6. \A w \in Profiles : w # u /\ online[w] # Nobody =>
          online[w][1] \in Connections /\ online[w][1] # c /\ at[online[w][1]] \in Domains
    BY <1>1, SMTT(30) DEF OnlineInv, Of, PlayerType
  <2> HIDE DEF u, c
  <2>7. GlobalsInv'
    BY <1>1, <1>3, <2>2, SMTT(30) DEF GlobalsInv, saves
  <2>8. RestInv'
    BY <1>1, <1>3, <2>1, <2>2, <2>3, SMTT(30) DEF RestInv, loaded, disk, AuxType
  <2>9. PlayInv'
    <3>1. ASSUME NEW w \in Profiles, online'[w] # Nobody
          PROVE  LET b == online'[w][1]
                 IN  /\ \A d \in Domains : d # at[b] => stored[w][d] = latest'[w][d]
                     /\ admission[w] # "disconnecting" => home[w] = at[b]
                     /\ admission[w] = "none" => live'[b] = latest'[w][at[b]]
      <4>1. CASE w = u
        <5>1. /\ \A d \in Domains : d # at[c] => stored[u][d] = latest[u][d]
              /\ home[u] = at[c]
          BY <1>1, <1>3, Zenon DEF PlayInv, c
        <5> QED
          BY <1>1, <2>1, <2>2, <4>1, <5>1, SMTT(30)
      <4>2. CASE w # u
        BY <2>1, <2>2, <2>6, <3>1, <4>2, SMTT(30) DEF PlayInv
      <4> QED
        BY <4>1, <4>2, Zenon
    <3> QED
      BY <1>1, <3>1 DEF PlayInv, disk
  <2>10. CarryInv'
    BY <1>1, <2>1, <2>5, SMTT(30) DEF CarryInv, disk
  <2>11. FinalInv'
    <3>1. \A b \in Connections : leaving[b] # "none" =>
            \A d \in Domains : latest'[Owner[b]][d] = latest[Owner[b]][d]
      BY <2>1, <2>4, Zenon
    <3> QED
      BY <1>1, <2>4, <3>1 DEF FinalInv, saves, disk
  <2> QED
    BY <2>7, <2>8, <2>9, <2>10, <2>11, SMTT(30)
<1> QED
  BY <1>2, <1>3, Zenon DEF FinishRespawn

\* A join that is given up leaves the data where it is.
LEMMA RejectJoinData ==
  ASSUME OwnersInv, DataInv, NEW c \in Connections, RejectJoin(c)
  PROVE  DataInv'
<1> USE Constants, IncarnationFacts DEF OwnersInv, StateType, DataInv
<1>1. /\ game = "joins" /\ conn[c] = "prepared"
      /\ UNCHANGED <<game, online, player, loaded, jobs, saves, disk, aux>>
  BY Zenon DEF RejectJoin, Visit
<1>2. admission[Owner[c]] = "joining" /\ online[Owner[c]] = Nobody
  BY <1>1, Zenon DEF JoinInv, Joins
<1>3. /\ admission'[Owner[c]] = "none"
      /\ \A w \in Profiles : w # Owner[c] => admission'[w] = admission[w]
  BY <1>2, Zenon DEF RejectJoin, Release, TableType
<1>4. \A b \in Connections : conn'[b] \in {"reading", "prepared"} => conn'[b] = conn[b]
  BY DoneFacts, ZenonT(30) DEF RejectJoin
<1>5. GlobalsInv'
  BY <1>1, <1>2, <1>3 DEF GlobalsInv, saves
<1>6. RestInv'
  BY <1>1, <1>2, <1>3, <1>4, ZenonT(30) DEF RestInv, loaded, disk, aux
<1>7. PlayInv'
  BY <1>1, <1>2, <1>3, SMTT(30) DEF PlayInv, player, disk, aux
<1>8. CarryInv' /\ FinalInv'
  BY <1>1, Frames, Zenon DEF player, jobs, saves, disk, aux
<1> QED
  BY <1>5, <1>6, <1>7, <1>8, Zenon

\* admit_reserved_player: the player starts with the newest data.
LEMMA AdmitJoinData ==
  ASSUME OwnersInv, DataInv, NEW c \in Connections, AdmitJoin(c)
  PROVE  DataInv'
<1> USE Constants, IncarnationFacts DEF OwnersInv, StateType, DataInv
<1> DEFINE u == Owner[c]
           p == <<c, bound[c]>>
<1>1. /\ game = "joins" /\ conn[c] = "prepared" /\ conn[c] \in Joins /\ version[c] # Failed
      /\ u \in Profiles /\ admission[u] = "joining"
      /\ UNCHANGED <<game, loaded, jobs, leaving, final, globals, disk, latest>>
  BY Zenon DEF AdmitJoin, Visit, Joins
<1>2. /\ online[u] = Nobody /\ bound[c] = 1 /\ p \in Incarnations /\ p # Nobody /\ p[1] = c
      /\ \A b \in Connections : b # c /\ conn[b] \in Joins => Owner[b] # u
  BY <1>1 DEF JoinInv
<1>3. /\ domain[c] = home[u] /\ domain[c] \in Domains /\ version[c] = latest[u][domain[c]]
      /\ \A d \in Domains : stored[u][d] = latest[u][d]
  BY <1>1, <1>2, Zenon DEF RestInv, LoadedType
<1>4. /\ admission'[u] = "none" /\ online'[u] = p
      /\ \A w \in Profiles : w # u => admission'[w] = admission[w] /\ online'[w] = online[w]
  BY <1>1, Zenon DEF AdmitJoin, TableType
<1>5. /\ at'[c] = domain[c] /\ live'[c] = version[c]
      /\ \A b \in Connections : b # c => at'[b] = at[b] /\ live'[b] = live[b]
  BY Zenon DEF AdmitJoin, PlayerType
<1>6. home' = home
  BY <1>3, Zenon DEF AdmitJoin, AuxType
<1>7. \A b \in Connections : conn'[b] \in {"reading", "prepared"} => conn'[b] = conn[b]
  <2>1. "play" \in Place /\ "play" # "waiting"
    BY Zenon DEF Place
  <2> QED
    BY <2>1, MoveFacts, ZenonT(30) DEF AdmitJoin
<1>8. \A b \in Connections : leaving[b] # "none" => Owner[b] # u /\ b # c
  BY <1>1, Zenon DEF LeaveInv
<1>9. \A w \in Profiles : w # u /\ online[w] # Nobody => online[w][1] \in Connections /\ online[w][1] # c
  BY <1>1, Zenon DEF OnlineInv, Of
<1>10. \A q \in Incarnations : switch[q] \in Detached => q[1] # c
  BY <1>1, Zenon DEF SwitchInv, Of
<1> HIDE DEF u, p
<1>11. GlobalsInv'
  BY <1>1, <1>2, <1>4 DEF GlobalsInv
<1>12. RestInv'
  BY <1>1, <1>2, <1>4, <1>6, <1>7, SMTT(30) DEF RestInv, loaded, disk
<1>13. PlayInv'
  <2>1. ASSUME NEW w \in Profiles, online'[w] # Nobody
        PROVE  LET b == online'[w][1]
               IN  /\ \A d \in Domains : d # at'[b] => stored[w][d] = latest[w][d]
                   /\ admission'[w] # "disconnecting" => home[w] = at'[b]
                   /\ admission'[w] = "none" => live'[b] = latest[w][at'[b]]
    <3>1. CASE w = u
      BY <1>2, <1>3, <1>4, <1>5, <3>1, Zenon
    <3>2. CASE w # u
      BY <1>4, <1>5, <1>9, <2>1, <3>2 DEF PlayInv
    <3> QED
      BY <3>1, <3>2, Zenon
  <2> QED
    BY <1>1, <1>6, <2>1, ZenonT(30) DEF PlayInv, disk
<1>14. CarryInv'
  BY <1>1, <1>5, <1>10, SMTT(30) DEF CarryInv, jobs, disk
<1>15. FinalInv'
  <2>1. ASSUME NEW w \in Profiles, NEW i \in 1..Len(globals[w]), globals[w][i][1][2] = 0
        PROVE  globals[w][i][2] = at'[globals[w][i][1][1]]
    <3>1. globals[w] \in Seq((Connections \X (0..MaxLives)) \X Domains)
      BY Zenon DEF SavesType
    <3>2. globals[w][i][1][1] \in Connections
      BY <2>1, <3>1
    <3>3. leaving[globals[w][i][1][1]] # "none"
      BY <2>1, Zenon DEF GlobalsInv
    <3> QED
      BY <1>5, <1>8, <2>1, <3>2, <3>3, Zenon DEF FinalInv
  <2>2. \A b \in Connections : leaving[b] # "none" => at'[b] = at[b]
    BY <1>5, <1>8, Zenon
  <2> QED
    BY <1>1, <1>6, <2>1, <2>2, SMTT(30) DEF FinalInv, disk
<1> QED
  BY <1>11, <1>12, <1>13, <1>14, <1>15, Zenon

-----------------------------------------------------------------------------
(* Saves.                                                                  *)

\* save_and_shutdown saves a player's data and its active domain.
LEMMA SaveAtShutdownData ==
  ASSUME OwnersInv, DataInv, NEW u \in Profiles, SaveAtShutdown(u)
  PROVE  DataInv'
<1> USE Constants, IncarnationFacts DEF OwnersInv, StateType, DataInv
<1> DEFINE c == online[u][1]
<1>1. /\ game = "saving" /\ u \in todo /\ todo' = todo \ {u}
      /\ UNCHANGED <<game, net, table, player, loaded, jobs, saves>>
  BY Zenon DEF SaveAtShutdown, Visit
<1>2. /\ online[u] # Nobody /\ c \in Connections /\ at[c] \in Domains /\ live[c] \in Nat
  BY <1>1, Zenon DEF PhaseInv, OnlineInv, PlayerType
<1>3. /\ home[u] = at[c] /\ live[c] = latest[u][at[c]]
      /\ \A d \in Domains : d # at[c] => stored[u][d] = latest[u][d]
  BY <1>1, <1>2, Zenon DEF PlayInv
<1>4. /\ \A w \in Profiles : \A d \in Domains : w # u \/ d # at[c] =>
           stored'[w][d] = stored[w][d] /\ latest'[w][d] = latest[w][d]
      /\ stored'[u][at[c]] = latest'[u][at[c]]
  <2>1. CASE WriteDomain(u, at[c], live[c])
    BY <1>2, <1>3, <2>1, WriteDomainFacts, Zenon
  <2>2. CASE stored' = [stored EXCEPT ![u][at[c]] = live[c]] /\ UNCHANGED latest
    <3>1. stored \in [Profiles -> [Domains -> Nat]]
      BY Zenon DEF DiskType
    <3> QED
      BY <1>2, <1>3, <2>2, <3>1, WriteFacts
  <2>3. CASE WritesFail(u, at[c])
    <3>1. stored \in [Profiles -> [Domains -> Nat]] /\ latest \in [Profiles -> [Domains -> Nat]]
      BY Zenon DEF DiskType, AuxType
    <3> QED
      BY <1>2, <2>3, <3>1, WriteFacts DEF WritesFail
  <2> QED
    BY <2>1, <2>2, <2>3, Zenon DEF SaveAtShutdown
<1>5. /\ \A w \in Profiles : w # u => last'[w] = last[w] /\ home'[w] = home[w]
      /\ last'[u] = home'[u]
  <2>1. CASE last' = [last EXCEPT ![u] = at[c]] /\ UNCHANGED home
    BY <1>3, <2>1, Zenon DEF DiskType
  <2>2. CASE home' = [home EXCEPT ![u] = last[u]] /\ UNCHANGED last
    BY <2>2, Zenon DEF AuxType
  <2> QED
    BY <2>1, <2>2, Zenon DEF SaveAtShutdown, WriteGlobal, WritesFail
<1>6. \A b \in Connections : leaving[b] = "none"
  BY <1>1, Zenon DEF PhaseInv
<1>7. \A q \in Incarnations : switch[q] \notin Detached
  BY <1>1, Zenon DEF PhaseInv, Ending, Detached
<1>8. \A b \in Connections : conn[b] \in {"reading", "prepared"} => Owner[b] # u
  BY <1>2 DEF JoinInv, Joins
<1>9. GlobalsInv'
  BY <1>1, Frames, Zenon DEF table, saves
<1>10. RestInv'
  <2>1. \A b \in Connections : conn[b] \in {"reading", "prepared"} =>
          /\ home'[Owner[b]] = home[Owner[b]]
          /\ latest'[Owner[b]][home[Owner[b]]] = latest[Owner[b]][home[Owner[b]]]
    BY <1>4, <1>5, <1>8 DEF AuxType
  <2>2. \A w \in Profiles : online[w] = Nobody => w # u
    BY <1>2, Zenon
  <2> HIDE DEF c
  <2> QED
    BY <1>1, <1>4, <1>5, <2>1, <2>2 DEF RestInv, net, table, loaded
<1>11. PlayInv'
  <2>1. ASSUME NEW w \in Profiles, online[w] # Nobody
        PROVE  LET b == online[w][1]
               IN  /\ \A d \in Domains : d # at[b] => stored'[w][d] = latest'[w][d]
                   /\ admission[w] # "disconnecting" \/ w \in todo' => home'[w] = at[b]
                   /\ admission[w] = "none" \/ w \in todo' => live[b] = latest'[w][at[b]]
                   /\ w \notin todo' => last'[w] = home'[w] /\ stored'[w][at[b]] = latest'[w][at[b]]
    <3>1. CASE w = u
      <4>1. admission[u] = "disconnecting" /\ u \notin todo'
        BY <1>1, <1>2, Zenon DEF LeaveInv
      <4> QED
        BY <1>3, <1>4, <1>5, <3>1, <4>1
    <3>2. CASE w # u
      <4>1. at[online[w][1]] \in Domains
        BY <2>1, Zenon DEF OnlineInv, PlayerType
      <4>2. /\ w \in todo' <=> w \in todo
            /\ \A d \in Domains : stored'[w][d] = stored[w][d] /\ latest'[w][d] = latest[w][d]
            /\ last'[w] = last[w] /\ home'[w] = home[w]
        BY <1>1, <1>4, <1>5, <3>2, Zenon
      <4> QED
        BY <1>1, <2>1, <4>1, <4>2 DEF PlayInv
    <3> QED
      BY <3>1, <3>2, Zenon
  <2> QED
    BY <1>1, <2>1, ZenonT(30) DEF PlayInv, table, player
<1>12. CarryInv'
  BY <1>1, <1>7, Zenon DEF CarryInv, jobs
<1>13. FinalInv'
  BY <1>1, <1>6, Zenon DEF FinalInv, saves, player
<1> QED
  BY <1>9, <1>10, <1>11, <1>12, <1>13, Zenon

\* A queue without calls is the empty one.
LEMMA EmptyLine ==
  ASSUME NEW S, NEW s \in Seq(S), Len(s) = 0
  PROVE  s = <<>>
OBVIOUS

\* One call leaves the queue of the global file.
LEMMA TailFacts ==
  ASSUME OwnersInv, GlobalsInv, NEW u \in Profiles, SaveGlobal(u)
  PROVE  /\ \A w \in Profiles : w # u => globals'[w] = globals[w]
         /\ Len(globals'[u]) = Len(globals[u]) - 1
         /\ \A i \in 1..Len(globals'[u]) :
              i + 1 \in 1..Len(globals[u]) /\ globals'[u][i] = globals[u][i + 1]
         /\ Head(globals[u])[1] \notin Incarnations => globals'[u] = <<>>
<1> USE DEF OwnersInv, StateType
<1>1. globals[u] \in Seq((Connections \X (0..MaxLives)) \X Domains) /\ globals[u] # <<>>
  BY Zenon DEF SavesType, SaveGlobal
<1>2. globals'[u] = Tail(globals[u]) /\ \A w \in Profiles : w # u => globals'[w] = globals[w]
  BY Zenon DEF SavesType, SaveGlobal
<1>3. /\ Len(Tail(globals[u])) = Len(globals[u]) - 1 /\ Len(globals[u]) \in Nat
      /\ \A i \in 1..Len(globals[u]) - 1 : Tail(globals[u])[i] = globals[u][i + 1]
  BY <1>1
<1>4. Len(globals[u]) = 1 => Tail(globals[u]) = <<>>
  <2>1. Tail(globals[u]) \in Seq((Connections \X (0..MaxLives)) \X Domains)
    BY <1>1
  <2>2. Len(globals[u]) = 1 => Len(Tail(globals[u])) = 0
    BY <1>3
  <2> QED
    BY <2>1, <2>2, EmptyLine, Zenon
<1>5. Head(globals[u])[1] \notin Incarnations => Len(globals[u]) = 1
  BY <1>1, HeadFacts, Zenon
<1> QED
  BY <1>2, <1>3, <1>4, <1>5

\* save_global, for a domain switch or for a disconnect.
LEMMA SaveGlobalData ==
  ASSUME OwnersInv, DataInv, NEW u \in Profiles, SaveGlobal(u)
  PROVE  DataInv'
<1> USE Constants, IncarnationFacts DEF OwnersInv, StateType, DataInv
<1> DEFINE p == Head(globals[u])[1]
           d == Head(globals[u])[2]
<1>1. /\ globals[u] # <<>>
      /\ UNCHANGED <<closed, online, bound, members, player, loaded, target, source, arrival,
                     respawn, queued, final, stored, game, todo, latest>>
  BY Zenon DEF SaveGlobal
<1>2. CASE p \in Incarnations
  <2>1. /\ UNCHANGED <<leaving, admission, conn, home>>
        /\ \A w \in Profiles : w # u => last'[w] = last[w]
        /\ switch[p] # "global" => last' = last
        /\ \A q \in Incarnations : switch'[q] \in Detached => switch'[q] = switch[q]
    BY <1>2, ZenonT(30) DEF SaveGlobal, DiskType, JobsType, Detached
  <2>2. online[u] # Nobody \/ admission[u] = "disconnecting"
    BY <1>1, Zenon DEF GlobalsInv
  <2>3. GlobalsInv'
    <3>1. ASSUME NEW w \in Profiles, NEW i \in 1..Len(globals'[w]), globals'[w][i][1][2] = 0
          PROVE  /\ Owner[globals'[w][i][1][1]] = w /\ leaving[globals'[w][i][1][1]] = "global"
                 /\ i = Len(globals'[w])
      <4>1. CASE w # u
        BY <3>1, <4>1, TailFacts DEF GlobalsInv
      <4>2. CASE w = u
        <5>1. i + 1 \in 1..Len(globals[u]) /\ globals'[u][i] = globals[u][i + 1] /\ i \in Int
          BY <3>1, <4>2, TailFacts
        <5>2. /\ Owner[globals'[w][i][1][1]] = w /\ leaving[globals'[w][i][1][1]] = "global"
              /\ i + 1 = Len(globals[u])
          BY <3>1, <4>2, <5>1 DEF GlobalsInv
        <5> QED
          BY <4>2, <5>1, <5>2, TailFacts
      <4> QED
        BY <4>1, <4>2, Zenon
    <3>2. ASSUME NEW w \in Profiles, online[w] = Nobody, admission[w] # "disconnecting"
          PROVE  globals'[w] = <<>>
      BY <2>2, <3>2, TailFacts DEF GlobalsInv
    <3> QED
      BY <1>1, <2>1, <3>1, <3>2, Zenon DEF GlobalsInv
  <2>4. RestInv'
    BY <1>1, <2>1, <2>2, Zenon DEF RestInv, loaded
  <2>5. PlayInv'
    <3>1. game \in {"saving", "down"} => last' = last
      BY <1>2, <2>1, Zenon DEF PhaseInv, Ending
    <3>2. UNCHANGED <<online, at, live, stored, latest, game, todo, admission, home>>
      BY <1>1, <2>1, Zenon DEF player
    <3> QED
      BY <3>1, <3>2, Zenon DEF PlayInv
  <2>6. CarryInv'
    BY <1>1, <2>1 DEF CarryInv, player
  <2>7. FinalInv'
    <3>1. ASSUME NEW w \in Profiles, NEW i \in 1..Len(globals'[w]), globals'[w][i][1][2] = 0
          PROVE  globals'[w][i][2] = at[globals'[w][i][1][1]]
      <4>1. CASE w # u
        BY <3>1, <4>1, TailFacts DEF FinalInv
      <4>2. CASE w = u
        <5>1. i + 1 \in 1..Len(globals[u]) /\ globals'[u][i] = globals[u][i + 1]
          BY <3>1, <4>2, TailFacts, Zenon
        <5> QED
          BY <3>1, <4>2, <5>1 DEF FinalInv
      <4> QED
        BY <4>1, <4>2, Zenon
    <3> QED
      BY <1>1, <2>1, <3>1 DEF FinalInv, player
  <2> QED
    BY <2>3, <2>4, <2>5, <2>6, <2>7
<1>3. CASE p \notin Incarnations
  <2> DEFINE c == p[1]
  <2>1. c \in Connections /\ Owner[c] = u /\ leaving[c] = "global" /\ globals'[u] = <<>>
    BY <1>1, <1>3, HeadFacts, TailFacts, Zenon
  <2>2. /\ admission[u] = "disconnecting" /\ online[u] = Nobody
        /\ \A b \in Connections : b # c /\ leaving[b] # "none" => Owner[b] # u
    BY <2>1 DEF LeaveInv
  <2>3. /\ leaving'[c] = "none" /\ \A b \in Connections : b # c => leaving'[b] = leaving[b]
        /\ admission'[u] = "none" /\ \A w \in Profiles : w # u => admission'[w] = admission[w]
        /\ UNCHANGED switch
    BY <1>3, <2>1, <2>2, ZenonT(30) DEF SaveGlobal, Release, SavesType, TableType
  <2>4. \A b \in Connections : conn'[b] \in {"reading", "prepared"} => conn'[b] = conn[b]
    BY <1>3, NotifyFacts, Zenon DEF SaveGlobal, NetType
  <2>5. d = home[u] /\ \A e \in Domains : stored[u][e] = latest[u][e]
    <3>1. p[2] = 0 /\ Head(globals[u]) = globals[u][1] /\ 1 \in 1..Len(globals[u])
      <4>1. p = <<c, 0>>
        BY <1>1, <1>3, HeadFacts, Zenon
      <4>2. p[2] = 0
        BY <4>1
      <4>3. Head(globals[u]) = globals[u][1] /\ Len(globals[u]) \in Nat /\ Len(globals[u]) >= 1
        BY <1>1, HeadFacts, Zenon
      <4> QED
        BY <4>2, <4>3, SMTT(30)
    <3>2. globals[u][1][2] = at[globals[u][1][1][1]]
      BY <3>1 DEF FinalInv
    <3>3. home[u] = at[c] /\ \A e \in Domains : stored[u][e] = latest[u][e]
      BY <2>1 DEF FinalInv
    <3> QED
      BY <3>1, <3>2, <3>3, Zenon
  <2>6. /\ last'[u] = home'[u]
        /\ \A w \in Profiles : w # u => last'[w] = last[w] /\ home'[w] = home[w]
    BY <1>3, <2>5 DEF SaveGlobal, WriteGlobal, DiskType, AuxType
  <2>7. \A b \in Connections : conn[b] \in {"reading", "prepared"} => Owner[b] # u
    BY <2>2, Zenon DEF JoinInv, Joins
  <2>8. \A b \in Connections : leaving'[b] # "none" => leaving'[b] = leaving[b] /\ Owner[b] # u /\ b # c
    BY <2>2, <2>3, Zenon
  <2>9. \A w \in Profiles : w # u => globals'[w] = globals[w]
    BY TailFacts, Zenon
  <2> HIDE DEF c
  <2>10. GlobalsInv'
    <3>1. ASSUME NEW w \in Profiles, NEW i \in 1..Len(globals'[w]), globals'[w][i][1][2] = 0
          PROVE  /\ Owner[globals'[w][i][1][1]] = w /\ leaving'[globals'[w][i][1][1]] = "global"
                 /\ i = Len(globals'[w])
      <4>1. w # u /\ globals'[w] = globals[w]
        BY <2>1, <2>9, <3>1
      <4>2. /\ Owner[globals[w][i][1][1]] = w /\ leaving[globals[w][i][1][1]] = "global"
            /\ i = Len(globals[w])
        BY <3>1, <4>1 DEF GlobalsInv
      <4>3. globals[w] \in Seq((Connections \X (0..MaxLives)) \X Domains) /\ i \in 1..Len(globals[w])
        BY <3>1, <4>1, Zenon DEF SavesType
      <4>4. globals[w][i][1][1] \in Connections
        BY <4>3
      <4> QED
        BY <2>1, <2>3, <4>1, <4>2, <4>4, Zenon
    <3>2. ASSUME NEW w \in Profiles, online[w] = Nobody, admission'[w] # "disconnecting"
          PROVE  globals'[w] = <<>>
      BY <2>1, <2>3, <2>9, <3>2 DEF GlobalsInv
    <3> QED
      BY <1>1, <3>1, <3>2, Zenon DEF GlobalsInv
  <2>11. RestInv'
    BY <1>1, <2>3, <2>4, <2>5, <2>6, <2>7, SMTT(30) DEF RestInv, loaded
  <2>12. PlayInv'
    <3>1. UNCHANGED <<online, at, live, stored, latest, game, todo>>
      BY <1>1, Zenon DEF player
    <3>2. \A w \in Profiles : online[w] # Nobody =>
            admission'[w] = admission[w] /\ last'[w] = last[w] /\ home'[w] = home[w]
      BY <2>2, <2>3, <2>6, Zenon
    <3> QED
      BY <3>1, <3>2, PlayFrame, Zenon
  <2>13. CarryInv'
    BY <1>1, <2>3, Frames, Zenon DEF player
  <2>14. FinalInv'
    <3>1. ASSUME NEW w \in Profiles, NEW i \in 1..Len(globals'[w]), globals'[w][i][1][2] = 0
          PROVE  globals'[w][i][2] = at[globals'[w][i][1][1]]
      <4>1. w # u /\ globals'[w] = globals[w]
        BY <2>1, <2>9, <3>1
      <4> QED
        BY <3>1, <4>1 DEF FinalInv
    <3> QED
      BY <1>1, <2>6, <2>8, <3>1 DEF FinalInv, player
  <2> QED
    BY <2>10, <2>11, <2>12, <2>13, <2>14, SMTT(30)
<1> QED
  BY <1>2, <1>3, Zenon

-----------------------------------------------------------------------------
(* The invariant.                                                          *)

LEMMA InitData == Init => DataInv
<1> SUFFICES ASSUME Init PROVE DataInv
  OBVIOUS
<1> USE Constants, IncarnationFacts
<1>1. GlobalsInv
  BY DEF Init, GlobalsInv
<1>2. RestInv
  BY Zenon DEF Init, RestInv
<1>3. PlayInv
  BY Zenon DEF Init, PlayInv
<1>4. CarryInv
  BY Zenon DEF Init, CarryInv, Detached
<1>5. FinalInv
  BY DEF Init, FinalInv
<1> QED
  BY <1>1, <1>2, <1>3, <1>4, <1>5, Zenon DEF DataInv

\* A handler returns.
LEMMA HandlersData ==
  ASSUME DataInv, Handlers
  PROVE  DataInv'
BY Frames, Zenon DEF DataInv, Handlers, FinishHandler, net, table, player, loaded, jobs, saves, disk,
   aux

LEMMA DataStep ==
  ASSUME OwnersInv, WorkInv, DataInv, [Next]_vars
  PROVE  DataInv'
<1>1. CASE GameThread
  BY <1>1, PhaseData, SaveAtShutdownData, DisconnectData, EndJobData, WaitData, StartSwitchData,
     CommitSwitchData, FinishRespawnData, RejectJoinData, AdmitJoinData, Zenon DEF GameThread
<1>2. CASE UNCHANGED vars
  BY <1>2, Frames, Zenon DEF DataInv, vars, net, table, player, loaded, jobs, saves, disk, aux
<1> QED
  BY <1>1, <1>2, EnvironmentData, HandlersData, LoginData, StorageData, SaveGlobalData,
     Zenon DEF Next

\* The invariant holds in every state: who owns a profile and where its newest
\* data is, between any two steps of the tasks and the game thread.
THEOREM Invariance == Spec => []IInv
<1>1. Init => IInv
  BY InitOwners, InitData, Zenon DEF IInv, WorkInv, Init, WorkType
<1>2. ASSUME IInv, [Next]_vars PROVE IInv'
  BY <1>2, OwnersStep, WorkStep, DataStep, Zenon DEF IInv, DataInv
<1> QED
  BY <1>1, <1>2, PTL DEF Spec

-----------------------------------------------------------------------------
(* What it means for players.                                              *)

LEMMA OwnersMeaning == OwnersInv /\ WorkInv => OneOwner
<1> SUFFICES ASSUME OwnersInv, WorkInv PROVE OneOwner
  OBVIOUS
<1> USE Constants, IncarnationFacts DEF OwnersInv
<1>1. ASSUME NEW u \in Profiles
      PROVE  /\ Stands(Joining(u), admission[u] = "joining")
             /\ admission[u] = "joining" => online[u] = Nobody
  <2>1. CASE admission[u] = "joining"
    <3>1. PICK c \in Connections : Owner[c] = u /\ conn[c] \in Joins
      BY <2>1, Zenon DEF JoinInv
    <3>2. Joining(u) = {c}
      BY <3>1 DEF Joining, Joins, JoinInv
    <3> QED
      BY <2>1, <3>2, Zenon DEF Stands, JoinInv
  <2>2. CASE admission[u] # "joining"
    <3>1. Joining(u) = {}
      BY <2>2 DEF Joining, Joins, JoinInv
    <3> QED
      BY <2>2, <3>1, Zenon DEF Stands
  <2> QED
    BY <2>1, <2>2, Zenon
<1>2. ASSUME NEW u \in Profiles
      PROVE  /\ Stands(Relocating(u), admission[u] = "relocating")
             /\ admission[u] = "relocating" => Relocating(u) = {online[u]}
  <2>1. CASE admission[u] = "relocating"
    <3>1. online[u] \in Incarnations /\ Of(online[u]) = u /\ switch[online[u]] \in Detached
      BY <2>1, Zenon DEF SwitchInv, OnlineInv
    <3>2. \A p \in Incarnations : Of(p) = u /\ switch[p] \in Detached => p = online[u]
      BY Zenon DEF SwitchInv
    <3>3. Relocating(u) = {online[u]}
      BY <3>1, <3>2, Zenon DEF Relocating
    <3> QED
      BY <2>1, <3>3, Zenon DEF Stands
  <2>2. CASE admission[u] # "relocating"
    <3>1. Relocating(u) = {}
      BY <2>2 DEF Relocating, SwitchInv
    <3> QED
      BY <2>2, <3>1, Zenon DEF Stands
  <2> QED
    BY <2>1, <2>2, Zenon
<1>3. ASSUME NEW u \in Profiles
      PROVE  /\ game \notin {"saving", "down"} => Stands(Leaving(u), admission[u] = "disconnecting")
             /\ admission[u] = "disconnecting" /\ online[u] # Nobody => game \in {"saving", "down"}
  <2>1. CASE admission[u] = "disconnecting" /\ game \notin {"saving", "down"}
    <3>1. PICK c \in Connections : Owner[c] = u /\ leaving[c] # "none"
      BY <2>1, Zenon DEF LeaveInv
    <3>2. Leaving(u) = {c}
      BY <3>1, ZenonT(30) DEF Leaving, LeaveInv
    <3>3. online[u] = Nobody
      BY <2>1, Zenon DEF LeaveInv
    <3> QED
      BY <2>1, <3>2, <3>3, Zenon DEF Stands
  <2>2. CASE admission[u] # "disconnecting"
    <3>1. Leaving(u) = {}
      BY <2>2 DEF Leaving, LeaveInv
    <3> QED
      BY <2>2, <3>1, Zenon DEF Stands
  <2> QED
    BY <2>1, <2>2, Zenon
<1>4. ASSUME NEW u \in Profiles
      PROVE  {p \in members : Of(p) = u} =
               IF online[u] = Nobody \/ admission[u] = "relocating" \/ online[u][1] \in won
                 THEN {} ELSE {online[u]}
  <2>1. \A p \in members : Of(p) = u =>
          p = online[u] /\ p \in Incarnations /\ admission[u] # "relocating" /\ p[1] \notin won
    BY Zenon DEF MemberInv, StateType, TableType
  <2>2. CASE online[u] = Nobody \/ admission[u] = "relocating" \/ online[u][1] \in won
    BY <2>1, <2>2, Zenon
  <2>3. CASE ~(online[u] = Nobody \/ admission[u] = "relocating" \/ online[u][1] \in won)
    <3>1. online[u] \in members /\ Of(online[u]) = u
      BY <2>3, Zenon DEF MemberInv, OnlineInv
    <3> QED
      BY <2>1, <2>3, <3>1, Zenon
  <2> QED
    BY <2>2, <2>3, Zenon
<1>5. \A u \in Profiles : online[u] # Nobody => bound[online[u][1]] = online[u][2]
  BY Zenon DEF OnlineInv
<1>6. TypeOK
  BY Zenon DEF StateType, WorkInv, TypeOK
<1> QED
  BY <1>1, <1>2, <1>3, <1>4, <1>5, <1>6, Zenon DEF OneOwner

\* Every profile has at most one owner, the one player_admissions names, for
\* any number of profiles, connections and domains and any interleaving of
\* their tasks with the game thread.
THEOREM OwnersExclusive == Spec => []OneOwner
<1>1. IInv => OneOwner
  BY OwnersMeaning, Zenon DEF IInv
<1> QED
  BY <1>1, Invariance, PTL

LEMMA DataMeaning == IInv => NothingLost
<1> SUFFICES ASSUME IInv, NEW u \in Profiles
             PROVE  /\ admission[u] \in {"none", "joining"} /\ online[u] = Nobody =>
                         stored[u] = latest[u] /\ last[u] = home[u]
                    /\ \A c \in Joining(u) : conn[c] = "prepared" /\ version[c] # Failed =>
                         domain[c] = home[u] /\ version[c] = latest[u][home[u]]
                    /\ online[u] # Nobody =>
                         LET c == online[u][1]
                         IN  /\ admission[u] = "none" => live[c] = latest[u][at[c]]
                             /\ \A d \in Domains \ {at[c]} : stored[u][d] = latest[u][d]
  BY Zenon DEF NothingLost
<1> USE DEF IInv, OwnersInv, StateType, DataInv
<1>1. ASSUME admission[u] \in {"none", "joining"}, online[u] = Nobody
      PROVE  stored[u] = latest[u] /\ last[u] = home[u]
  BY <1>1 DEF RestInv, DiskType, AuxType
<1>2. ASSUME NEW c \in Joining(u), conn[c] = "prepared", version[c] # Failed
      PROVE  domain[c] = home[u] /\ version[c] = latest[u][home[u]]
  BY <1>2, ZenonT(30) DEF Joining, RestInv
<1>3. ASSUME online[u] # Nobody
      PROVE  LET c == online[u][1]
             IN  /\ admission[u] = "none" => live[c] = latest[u][at[c]]
                 /\ \A d \in Domains \ {at[c]} : stored[u][d] = latest[u][d]
  BY <1>3, Zenon DEF PlayInv
<1> QED
  BY <1>1, <1>2, <1>3, Zenon

\* Player data is never lost and never comes back old: the newest version of
\* a profile's data is with its player or in the storage.
THEOREM DataKept == Spec => []NothingLost
BY DataMeaning, Invariance, PTL

LEMMA ShutdownMeaning == IInv => ShutdownSaves
<1> SUFFICES ASSUME IInv, game = "down" PROVE stored = latest /\ last = home
  BY Zenon DEF ShutdownSaves, IInv, WorkInv
<1> USE Constants DEF IInv, OwnersInv, StateType, DataInv
<1>1. ASSUME NEW u \in Profiles, online[u] = Nobody
      PROVE  last[u] = home[u] /\ \A d \in Domains : stored[u][d] = latest[u][d]
  <2>1. admission[u] # "disconnecting"
    BY <1>1, Zenon DEF LeaveInv, PhaseInv
  <2> QED
    BY <1>1, <2>1, Zenon DEF RestInv
<1>2. ASSUME NEW u \in Profiles, online[u] # Nobody
      PROVE  last[u] = home[u] /\ \A d \in Domains : stored[u][d] = latest[u][d]
  BY <1>2, Zenon DEF PlayInv
<1>3. \A u \in Profiles : last[u] = home[u] /\ \A d \in Domains : stored[u][d] = latest[u][d]
  BY <1>1, <1>2, Zenon
<1>4. last = home
  BY <1>3 DEF DiskType, AuxType
<1>5. \A u \in Profiles : stored[u] = latest[u]
  BY <1>3 DEF DiskType, AuxType
<1>6. stored = latest
  BY <1>5 DEF DiskType, AuxType
<1> QED
  BY <1>4, <1>6, Zenon

\* A server that is down has saved every player, whatever joined, switched,
\* respawned or left when the stop came and whatever packet handlers or world
\* ticks went on after it; only what they changed in a player that the last
\* disconnects had captured is not in the storage.
THEOREM ShutdownKeeps == Spec => []ShutdownSaves
BY ShutdownMeaning, Invariance, PTL
=============================================================================
