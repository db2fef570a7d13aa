------------------------- MODULE BondGroupProofs -------------------------
(***************************************************************************)
(* Proofs about BondGroup, for any users, tunnels, lane counts and cuts.   *)
(* A lane belongs to one user, whose lanes no longer change once a header  *)
(* was sent on one of them; every group object that a lane joins is named  *)
(* after a lane of that user; and a group is claimed only when all lanes   *)
(* of the user have joined it, which happens to one object at most.        *)
(***************************************************************************)
EXTENDS BondGroup, FiniteSetTheorems, TLAPS

NoGroupYet == {"header", "find", "single"}
InGroup == {"add", "wait", "dial", "lead", "leave", "close", "remove", "follow"}
Leading == {"dial", "lead"}

TypeOK ==
  /\ user \in [Users -> {"new", "reserve", "join", "bridge", "single", "done"}]
  /\ lanes \in [Users -> Seq(Tunnels)] /\ joins \in [Users -> Nat]
  /\ pool \subseteq Tunnels
  /\ in_use \in [Ends -> Nat]
  /\ closed \in [Ends -> SUBSET Tunnels] /\ cut \subseteq Tunnels
  /\ inbox \in [Tunnels -> {"none", "join", "single"}]
  /\ worker \in [Tunnels -> NoGroupYet \cup InGroup \cup {"done"}]
  /\ group \in [Tunnels -> Tunnels \cup {NoGroup}]
  /\ current \in [Users -> Tunnels \cup {NoGroup}]
  /\ members \in [Tunnels -> SUBSET Tunnels]
  /\ claimed \in [Tunnels -> BOOLEAN] /\ done \in [Tunnels -> BOOLEAN]
  /\ dials \in [Users -> Nat]

(* A lane is reserved once, for one user, and has left the pool.           *)
LanesApart ==
  /\ \A u \in Users : /\ IsFiniteSet(Lanes(u)) /\ Cardinality(Lanes(u)) = Len(lanes[u])
                      /\ Lanes(u) \cap pool = {}
  /\ \A u, v \in Users : u # v => Lanes(u) \cap Lanes(v) = {}

(* A header is sent on a lane of a user who reserves no more; the header   *)
(* "single" goes to the user's only lane.                                  *)
Headers ==
  /\ \A t \in Tunnels : inbox[t] # "none" => \E u \in Users : t \in Lanes(u)
  /\ \A u \in Users : \A t \in Lanes(u) :
       /\ inbox[t] = "join" => user[u] \in {"join", "bridge", "done"}
       /\ inbox[t] = "single" => user[u] \in {"single", "done"} /\ Lanes(u) = {t}

(* A worker acts on the header it has read, and holds a group from the     *)
(* time it has found one.                                                  *)
WorkersFollow ==
  \A t \in Tunnels :
    /\ worker[t] = "single" => inbox[t] = "single"
    /\ worker[t] \in InGroup \cup {"find"} => inbox[t] = "join"
    /\ worker[t] \in NoGroupYet => group[t] = NoGroup
    /\ worker[t] \in InGroup => group[t] # NoGroup
    /\ group[t] # NoGroup => inbox[t] = "join"

(* The groups of a user's lanes are named after lanes of the same user,    *)
(* and the members of a group are lanes whose workers hold it.             *)
GroupsOfUser ==
  /\ \A u \in Users : current[u] # NoGroup => current[u] \in Lanes(u)
  /\ \A u \in Users : \A t \in Lanes(u) : group[t] # NoGroup => group[t] \in Lanes(u)
  /\ \A g \in Tunnels : \A t \in members[g] : group[t] = g

(* A claimed group has all lanes of its user, and one leader.              *)
Claims ==
  /\ \A g \in Tunnels : claimed[g] => \E u \in Users : g \in Lanes(u) /\ members[g] = Lanes(u)
  /\ \A t \in Tunnels : worker[t] \in Leading => claimed[group[t]]
  /\ \A s, t \in Tunnels :
       worker[s] \in Leading /\ worker[t] \in Leading /\ group[s] = group[t] => s = t

(* Who has dialled for a user: the leader of the claimed group, or the     *)
(* worker of the only lane.                                                *)
Dialled(u) ==
  \/ \E g \in Lanes(u) : claimed[g]
  \/ \E t \in Lanes(u) : inbox[t] = "single" /\ worker[t] \in {"single", "done"}
Dials ==
  /\ OneServicePerUser
  /\ \A u \in Users : dials[u] # 0 => Dialled(u)
  /\ \A u \in Users : \A t \in Lanes(u) : worker[t] = "dial" => dials[u] = 0

Counters == CountersExact /\ \A e \in Ends : IsFiniteSet(Bonded(e))

BInv == TypeOK /\ LanesApart /\ Headers /\ WorkersFollow /\ GroupsOfUser /\ Claims
GInv == BInv /\ Dials /\ Counters

-----------------------------------------------------------------------------
(* The steps, without the conditions that matter to fairness only.         *)
UserStep(u) ==
  \/ CountLanes(u) \/ \E t \in Tunnels : TakeLane(u, t)
  \/ StartBond(u) \/ SendJoin(u) \/ JoinFails(u) \/ BridgeEnds(u)
  \/ SendSingle(u) \/ SingleEnds(u) \/ GiveUp(u)
WorkerStep(t) ==
  \/ ReceiveJoin(t) \/ ReceiveSingle(t) \/ ReceiveEof(t) \/ SingleCloses(t)
  \/ FindGroup(t) \/ AddLane(t) \/ JoinTimesOut(t) \/ ClaimLeader(t)
  \/ DialService(t) \/ DialFails(t) \/ LeaderEnds(t) \/ LeaderReleases(t)
  \/ CloseGroup(t) \/ RemoveGroup(t) \/ Follow(t)

(* Every step is a step of a user's thread, of a worker or of the network. *)
LEMMA StepCases ==
  [Next]_vars => \/ \E u \in Users : UserStep(u)
                 \/ \E t \in Tunnels : WorkerStep(t)
                 \/ \E t \in Tunnels : Cut(t)
                 \/ UNCHANGED vars
<1>1. Threads => (\E u \in Users : UserStep(u)) \/ (\E t \in Tunnels : WorkerStep(t))
  BY DEF Threads, UserThread, Worker, UserStep, WorkerStep
<1>2. Applications => (\E u \in Users : UserStep(u)) \/ (\E t \in Tunnels : WorkerStep(t))
  BY DEF Applications, UserStep, WorkerStep
<1> QED BY <1>1, <1>2 DEF Next

(* A user's thread leaves the external node alone, and the others leave    *)
(* the user's threads alone.                                               *)
LEMMA UserKeeps ==
  ASSUME NEW u \in Users, UserStep(u)
  PROVE  UNCHANGED <<cut, worker, group, current, members, claimed, done, dials>>
BY DEF UserStep, CountLanes, TakeLane, StartBond, SendJoin, JoinFails, BridgeEnds,
       SendSingle, SingleEnds, GiveUp, groupVars

LEMMA WorkerKeeps ==
  ASSUME NEW t \in Tunnels, WorkerStep(t) \/ Cut(t)
  PROVE  UNCHANGED <<user, want, lanes, joins, pool, inbox>>
BY DEF WorkerStep, ReceiveJoin, ReceiveSingle, ReceiveEof, SingleCloses, FindGroup, AddLane,
       JoinTimesOut, ClaimLeader, DialService, DialFails, LeaderEnds, LeaderReleases,
       CloseGroup, RemoveGroup, Follow, Cut, intVars

(* The lanes of a user, as a set, follow the list.                         *)
LEMMA LanesKept ==
  ASSUME UNCHANGED lanes
  PROVE  \A u \in Users : Lanes(u)' = Lanes(u)
BY DEF Lanes

LEMMA LanesTaken ==
  ASSUME TypeOK, NEW u \in Users, NEW t \in Tunnels,
         lanes' = [lanes EXCEPT ![u] = Append(@, t)]
  PROVE  /\ Lanes(u)' = Lanes(u) \cup {t}
         /\ \A v \in Users \ {u} : Lanes(v)' = Lanes(v)
         /\ Len(lanes'[u]) = Len(lanes[u]) + 1
<1>1. lanes[u] \in Seq(Tunnels) /\ lanes'[u] = Append(lanes[u], t)
  BY DEF TypeOK
<1>2. ToSet(Append(lanes[u], t)) = ToSet(lanes[u]) \cup {t}
  <2>1. DOMAIN Append(lanes[u], t) = 1 .. Len(lanes[u]) + 1 /\ DOMAIN lanes[u] = 1 .. Len(lanes[u])
    BY <1>1
  <2>2. \A i \in 1 .. Len(lanes[u]) : Append(lanes[u], t)[i] = lanes[u][i]
    BY <1>1
  <2>3. Append(lanes[u], t)[Len(lanes[u]) + 1] = t /\ Len(lanes[u]) \in Nat
    BY <1>1
  <2> QED BY <2>1, <2>2, <2>3 DEF ToSet
<1>3. \A v \in Users \ {u} : lanes'[v] = lanes[v]
  BY DEF TypeOK
<1> QED BY <1>1, <1>2, <1>3 DEF Lanes

LEMMA LanesAreTunnels ==
  ASSUME TypeOK, NEW u \in Users
  PROVE  /\ Lanes(u) \subseteq Tunnels
         /\ Len(lanes[u]) \in Nat
         /\ \A i \in 1 .. Len(lanes[u]) : lanes[u][i] \in Lanes(u)
BY DEF TypeOK, Lanes, ToSet

LEMMA OwnerOfLane ==
  ASSUME LanesApart, NEW u \in Users, NEW t \in Lanes(u)
  PROVE  Owner(t) = u
BY DEF Owner, LanesApart

(* A lane that a user takes has no header, no group and no claim.          *)
LEMMA PoolIsFresh ==
  ASSUME BInv, NEW t \in pool
  PROVE  /\ \A u \in Users : t \notin Lanes(u)
         /\ inbox[t] = "none" /\ group[t] = NoGroup /\ ~claimed[t]
<1>1. t \in Tunnels /\ \A u \in Users : t \notin Lanes(u)
  BY DEF BInv, TypeOK, LanesApart
<1>2. inbox[t] = "none"
  BY <1>1 DEF BInv, Headers
<1>3. group[t] = NoGroup
  BY <1>1, <1>2 DEF BInv, WorkersFollow
<1>4. ~claimed[t]
  BY <1>1 DEF BInv, Claims
<1> QED BY <1>1, <1>2, <1>3, <1>4

(* A worker past the header serves a user's lane, and its group, if it     *)
(* holds one, is named after a lane of the same user.                      *)
LEMMA WorkerServes ==
  ASSUME BInv, NEW t \in Tunnels, inbox[t] # "none"
  PROVE  /\ Owner(t) \in Users /\ t \in Lanes(Owner(t))
         /\ worker[t] \in InGroup => /\ group[t] \in Tunnels
                                     /\ group[t] \in Lanes(Owner(t))
                                     /\ inbox[t] = "join"
<1>1. PICK u \in Users : t \in Lanes(u)
  BY DEF BInv, Headers
<1>2. Owner(t) = u
  BY <1>1, OwnerOfLane DEF BInv
<1>3. worker[t] \in InGroup => group[t] # NoGroup /\ inbox[t] = "join"
  BY DEF BInv, WorkersFollow
<1> QED BY <1>1, <1>2, <1>3 DEF BInv, GroupsOfUser, TypeOK

(* The members of a group are lanes of the user it is named after.         *)
LEMMA MembersAreLanes ==
  ASSUME BInv, NEW u \in Users, NEW g \in Lanes(u)
  PROVE  members[g] \subseteq Lanes(u) /\ IsFiniteSet(members[g])
<1>0. g \in Tunnels
  BY LanesAreTunnels DEF BInv
<1>1. ASSUME NEW l \in members[g] PROVE l \in Lanes(u)
  <2>1. l \in Tunnels /\ group[l] = g /\ group[l] # NoGroup
    BY <1>0, <1>1, NoGroupAssumption DEF BInv, GroupsOfUser, TypeOK
  <2>2. inbox[l] = "join"
    BY <2>1 DEF BInv, WorkersFollow
  <2>3. PICK v \in Users : l \in Lanes(v)
    BY <2>1, <2>2 DEF BInv, Headers
  <2>4. g \in Lanes(v)
    BY <2>1, <2>3 DEF BInv, GroupsOfUser
  <2> QED BY <2>3, <2>4 DEF BInv, LanesApart
<1>2. IsFiniteSet(Lanes(u))
  BY DEF BInv, LanesApart
<1> QED BY <1>1, <1>2, FS_Subset

(* Every step keeps the types.                                             *)

LEMMA TypeStep == ASSUME BInv, [Next]_vars PROVE TypeOK'
<1> USE DEF TypeOK
<1>0. TypeOK
  BY DEF BInv
<1>1. ASSUME NEW u \in Users, UserStep(u) PROVE TypeOK'
  <2>0. Len(lanes[u]) \in Nat
    BY <1>0
  <2>1. Lanes(u) \subseteq Tunnels /\ \A i \in 1 .. Len(lanes[u]) : lanes[u][i] \in Tunnels
    BY <1>0, LanesAreTunnels
  <2>2. UNCHANGED <<cut, worker, group, current, members, claimed, done, dials>>
    BY <1>1, UserKeeps
  <2>3. CASE CountLanes(u)
    BY <1>0, <2>2, <2>3 DEF CountLanes
  <2>4. CASE \E t \in Tunnels : TakeLane(u, t)
    <3>1. PICK t \in Tunnels : TakeLane(u, t)
      BY <2>4
    <3>2. CASE Down(t)
      BY <1>0, <2>2, <3>1, <3>2 DEF TakeLane, Close, Ends
    <3>3. CASE ~Down(t)
      <4>1. Append(lanes[u], t) \in Seq(Tunnels)
        BY <1>0
      <4>2. lanes' \in [Users -> Seq(Tunnels)]
        BY <1>0, <3>1, <3>3, <4>1 DEF TakeLane
      <4> QED BY <1>0, <2>2, <3>1, <3>3, <4>2 DEF TakeLane
    <3> QED BY <3>2, <3>3
  <2>5. CASE StartBond(u)
    BY <1>0, <2>0, <2>2, <2>5 DEF StartBond, Ends
  <2>6. CASE SendJoin(u)
    <3>1. user'[u] \in {"join", "bridge"} /\ user' \in [Users -> {"new", "reserve", "join", "bridge", "single", "done"}]
      BY <1>0, <2>6 DEF SendJoin
    <3>2. joins' \in [Users -> Nat] /\ inbox' \in [Tunnels -> {"none", "join", "single"}]
      BY <1>0, <2>6 DEF SendJoin
    <3> QED BY <1>0, <2>2, <2>6, <3>1, <3>2 DEF SendJoin
  <2>7. CASE JoinFails(u) \/ BridgeEnds(u)
    <3>1. in_use' \in [Ends -> Nat]
      BY <1>0, <2>0, <2>7 DEF JoinFails, BridgeEnds, Unbond, Floor, Ends
    <3>2. closed' \in [Ends -> SUBSET Tunnels]
      BY <1>0, <2>1, <2>7 DEF JoinFails, BridgeEnds, Close, Ends
    <3> QED BY <1>0, <2>2, <2>7, <3>1, <3>2 DEF JoinFails, BridgeEnds
  <2>8. CASE SendSingle(u)
    <3>1. CASE Down(lanes[u][1])
      <4>1. closed' \in [Ends -> SUBSET Tunnels]
        BY <1>0, <2>1, <2>8, <3>1 DEF SendSingle, Close, Ends
      <4> QED BY <1>0, <2>2, <2>8, <3>1, <4>1 DEF SendSingle
    <3>2. CASE ~Down(lanes[u][1])
      <4>1. inbox' \in [Tunnels -> {"none", "join", "single"}]
        BY <1>0, <2>8, <3>2 DEF SendSingle
      <4> QED BY <1>0, <2>2, <2>8, <3>2, <4>1 DEF SendSingle
    <3> QED BY <3>1, <3>2
  <2>9. CASE SingleEnds(u)
    <3>1. closed' \in [Ends -> SUBSET Tunnels]
      BY <1>0, <2>1, <2>9 DEF SingleEnds, Close, Ends
    <3> QED BY <1>0, <2>2, <2>9, <3>1 DEF SingleEnds
  <2>10. CASE GiveUp(u)
    BY <1>0, <2>2, <2>10 DEF GiveUp
  <2> QED BY <1>1, <2>3, <2>4, <2>5, <2>6, <2>7, <2>8, <2>9, <2>10 DEF UserStep
<1>2. ASSUME NEW t \in Tunnels, WorkerStep(t) PROVE TypeOK'
  <2> USE DEF NoGroupYet, InGroup
  <2>1. UNCHANGED <<user, want, lanes, joins, pool, inbox>>
    BY <1>2, WorkerKeeps
  <2>2. CASE ReceiveJoin(t) \/ JoinTimesOut(t) \/ DialFails(t) \/ Follow(t)
    <3>1. \E pc \in {"find", "close", "done"} : worker' = [worker EXCEPT ![t] = pc]
      BY <2>2 DEF ReceiveJoin, JoinTimesOut, DialFails, Follow, Goto
    <3>2. UNCHANGED <<in_use, closed, cut, group, groupVars, dials>>
      BY <2>2 DEF ReceiveJoin, JoinTimesOut, DialFails, Follow
    <3> QED BY <1>0, <2>1, <3>1, <3>2 DEF groupVars
  <2>3. CASE ReceiveSingle(t)
    <3>1. dials' = [dials EXCEPT ![Owner(t)] = dials[Owner(t)] + 1] /\ Owner(t) \in Users
      <4>1. inbox[t] # "none"
        BY <2>3 DEF ReceiveSingle
      <4> QED BY <2>3, <4>1, WorkerServes DEF ReceiveSingle
    <3>2. dials' \in [Users -> Nat]
      BY <1>0, <3>1
    <3> QED BY <1>0, <2>1, <2>3, <3>2 DEF ReceiveSingle, Goto, groupVars
  <2>4. CASE ReceiveEof(t) \/ SingleCloses(t)
    <3>1. /\ closed' = [closed EXCEPT !["external"] = closed["external"] \cup {t}]
          /\ worker' = [worker EXCEPT ![t] = "done"]
          /\ UNCHANGED <<in_use, cut, group, groupVars, dials>>
      BY <2>4 DEF ReceiveEof, SingleCloses, Close, Goto
    <3> QED BY <1>0, <2>1, <3>1 DEF Ends, groupVars
  <2>5. CASE FindGroup(t)
    <3>1. inbox[t] # "none"
      BY <2>5 DEF FindGroup, BInv, WorkersFollow
    <3>2. Owner(t) \in Users
      BY <3>1, WorkerServes
    <3>3. current' \in [Users -> Tunnels \cup {NoGroup}]
      BY <1>0, <2>5 DEF FindGroup
    <3>4. current'[Owner(t)] \in Tunnels \cup {NoGroup}
      BY <3>2, <3>3
    <3>5. group' \in [Tunnels -> Tunnels \cup {NoGroup}]
      BY <1>0, <2>5, <3>4 DEF FindGroup
    <3> QED BY <1>0, <2>1, <2>5, <3>3, <3>5 DEF FindGroup, Goto
  <2>6. CASE AddLane(t)
    <3>1. members' \in [Tunnels -> SUBSET Tunnels]
      BY <1>0, <2>6 DEF AddLane
    <3> QED BY <1>0, <2>1, <2>6, <3>1 DEF AddLane, Goto
  <2>7. CASE ClaimLeader(t)
    <3>1. claimed' \in [Tunnels -> BOOLEAN]
      BY <1>0, <2>7 DEF ClaimLeader
    <3>2. worker' = [worker EXCEPT ![t] = "follow"] \/ worker' = [worker EXCEPT ![t] = "dial"]
      BY <2>7 DEF ClaimLeader, Goto
    <3> QED BY <1>0, <2>1, <2>7, <3>1, <3>2 DEF ClaimLeader
  <2>8. worker[t] \in InGroup =>
          /\ group[t] \in Tunnels /\ members[group[t]] \subseteq Tunnels
          /\ Owner(t) \in Users /\ Cardinality(members[group[t]]) \in Nat
    <3> SUFFICES ASSUME worker[t] \in InGroup
        PROVE /\ group[t] \in Tunnels /\ members[group[t]] \subseteq Tunnels
              /\ Owner(t) \in Users /\ Cardinality(members[group[t]]) \in Nat
      OBVIOUS
    <3>1. inbox[t] # "none"
      BY DEF BInv, WorkersFollow
    <3>2. group[t] \in Tunnels /\ Owner(t) \in Users /\ group[t] \in Lanes(Owner(t))
      BY <3>1, WorkerServes
    <3> QED BY <1>0, <3>2, MembersAreLanes, FS_CardinalityType
  <2>9. CASE DialService(t)
    <3>1. dials' \in [Users -> Nat] /\ in_use' \in [Ends -> Nat]
      BY <1>0, <2>8, <2>9 DEF DialService, Ends
    <3> QED BY <1>0, <2>1, <2>9, <3>1 DEF DialService, Goto, groupVars
  <2>10. CASE LeaderEnds(t)
    <3>1. in_use' \in [Ends -> Nat]
      BY <1>0, <2>8, <2>10 DEF LeaderEnds, Floor, Ends
    <3>2. closed' \in [Ends -> SUBSET Tunnels]
      BY <1>0, <2>8, <2>10 DEF LeaderEnds, Close, Ends
    <3> QED BY <1>0, <2>1, <2>10, <3>1, <3>2 DEF LeaderEnds, Goto, groupVars
  <2>11. CASE LeaderReleases(t)
    BY <1>0, <2>1, <2>11 DEF LeaderReleases, Goto
  <2>12. CASE CloseGroup(t)
    <3>1. closed' \in [Ends -> SUBSET Tunnels]
      BY <1>0, <2>8, <2>12 DEF CloseGroup, Close, Ends
    <3> QED BY <1>0, <2>1, <2>12, <3>1 DEF CloseGroup, Goto
  <2>13. CASE RemoveGroup(t)
    BY <1>0, <2>1, <2>13 DEF RemoveGroup, Goto
  <2> QED BY <1>2, <2>2, <2>3, <2>4, <2>5, <2>6, <2>7, <2>9, <2>10, <2>11, <2>12, <2>13
          DEF WorkerStep
<1>3. ASSUME NEW t \in Tunnels, Cut(t) PROVE TypeOK'
  BY <1>0, <1>3 DEF Cut, intVars, groupVars
<1>4. CASE UNCHANGED vars
  BY <1>0, <1>4 DEF vars, intVars, groupVars
<1> QED BY <1>1, <1>2, <1>3, <1>4, StepCases
(* Only TakeLane changes who has a lane; it moves a lane out of the pool.  *)
LEMMA LanesStep == ASSUME BInv, [Next]_vars PROVE LanesApart'
<1>0. TypeOK /\ LanesApart
  BY DEF BInv
<1>1. CASE UNCHANGED <<lanes, pool>>
  <2>1. \A u \in Users : Lanes(u)' = Lanes(u)
    BY <1>1, LanesKept
  <2> QED BY <1>0, <1>1, <2>1 DEF LanesApart
<1>2. ASSUME NEW u \in Users, NEW t \in Tunnels, TakeLane(u, t) PROVE LanesApart'
  <2>1. t \in pool /\ pool' = pool \ {t} /\ \A v \in Users : t \notin Lanes(v)
    BY <1>2, PoolIsFresh DEF TakeLane
  <2>2. CASE UNCHANGED lanes
    <3>1. \A v \in Users : Lanes(v)' = Lanes(v)
      BY <2>2, LanesKept
    <3> QED BY <1>0, <2>1, <2>2, <3>1 DEF LanesApart
  <2>3. CASE lanes' = [lanes EXCEPT ![u] = Append(@, t)]
    <3>1. /\ Lanes(u)' = Lanes(u) \cup {t}
          /\ \A v \in Users \ {u} : Lanes(v)' = Lanes(v)
          /\ Len(lanes'[u]) = Len(lanes[u]) + 1
      BY <1>0, <2>3, LanesTaken
    <3>2. \A v \in Users \ {u} : lanes'[v] = lanes[v]
      BY <1>0, <2>3 DEF TypeOK
    <3>3. IsFiniteSet(Lanes(u)) /\ Cardinality(Lanes(u)) = Len(lanes[u])
      BY <1>0 DEF LanesApart
    <3>4. IsFiniteSet(Lanes(u) \cup {t}) /\ Cardinality(Lanes(u) \cup {t}) = Cardinality(Lanes(u)) + 1
      BY <2>1, <3>3, FS_AddElement
    <3>5. \A v, w \in Users : v # w => Lanes(v)' \cap Lanes(w)' = {}
      BY <1>0, <2>1, <3>1 DEF LanesApart
    <3>6. \A v \in Users : Lanes(v)' \cap pool' = {}
      BY <1>0, <2>1, <3>1 DEF LanesApart
    <3>7. \A v \in Users : IsFiniteSet(Lanes(v)') /\ Cardinality(Lanes(v)') = Len(lanes'[v])
      BY <1>0, <3>1, <3>2, <3>3, <3>4 DEF LanesApart
    <3> QED BY <3>5, <3>6, <3>7 DEF LanesApart
  <2> QED BY <1>2, <2>2, <2>3 DEF TakeLane
<1>3. ASSUME NEW u \in Users, UserStep(u)
      PROVE  UNCHANGED <<lanes, pool>> \/ \E t \in Tunnels : TakeLane(u, t)
  BY <1>3 DEF UserStep, CountLanes, StartBond, SendJoin, JoinFails, BridgeEnds, SendSingle,
              SingleEnds, GiveUp
<1>4. ASSUME NEW t \in Tunnels, WorkerStep(t) \/ Cut(t) PROVE UNCHANGED <<lanes, pool>>
  BY <1>4, WorkerKeeps
<1>5. UNCHANGED vars => UNCHANGED <<lanes, pool>>
  BY DEF vars, intVars
<1> QED BY <1>1, <1>2, <1>3, <1>4, <1>5, StepCases

(* A header is written once the user has stopped reserving.                *)
LEMMA HeadersStep == ASSUME BInv, [Next]_vars PROVE Headers'
<1>0. TypeOK /\ LanesApart /\ Headers
  BY DEF BInv
<1>1. CASE UNCHANGED <<user, lanes, inbox>>
  <2>1. \A u \in Users : Lanes(u)' = Lanes(u)
    BY <1>1, LanesKept
  <2> QED BY <1>0, <1>1, <2>1 DEF Headers
<1>2. ASSUME NEW u \in Users, UserStep(u) PROVE Headers'
  <2>1. CASE \E t \in Tunnels : TakeLane(u, t)
    <3>1. PICK t \in Tunnels : TakeLane(u, t)
      BY <2>1
    <3>2. CASE UNCHANGED lanes
      BY <1>1, <3>1, <3>2 DEF TakeLane
    <3>3. CASE lanes' = [lanes EXCEPT ![u] = Append(@, t)]
      <4>1. /\ Lanes(u)' = Lanes(u) \cup {t}
            /\ \A v \in Users \ {u} : Lanes(v)' = Lanes(v)
        BY <1>0, <3>3, LanesTaken
      <4>2. t \in pool /\ inbox[t] = "none" /\ UNCHANGED <<user, inbox>> /\ user[u] = "reserve"
        BY <3>1, PoolIsFresh DEF TakeLane
      <4> QED BY <1>0, <4>1, <4>2 DEF Headers
    <3> QED BY <3>1, <3>2, <3>3 DEF TakeLane
  <2>2. CASE ~\E t \in Tunnels : TakeLane(u, t)
    <3>0. UNCHANGED lanes
      BY <1>2, <2>2 DEF UserStep, CountLanes, StartBond, SendJoin, JoinFails, BridgeEnds,
                        SendSingle, SingleEnds, GiveUp
    <3>1. \A v \in Users : Lanes(v)' = Lanes(v)
      BY <3>0, LanesKept
    <3>2. Lanes(u) \subseteq Tunnels /\ \A i \in 1 .. Len(lanes[u]) : lanes[u][i] \in Lanes(u)
      BY <1>0, LanesAreTunnels
    <3>3. CASE CountLanes(u) \/ StartBond(u)
      <4>1. UNCHANGED inbox /\ user[u] \in {"new", "reserve"} /\ \A v \in Users \ {u} : user'[v] = user[v]
        BY <1>0, <3>3 DEF CountLanes, StartBond, TypeOK
      <4>2. \A t \in Lanes(u) : inbox[t] = "none"
        BY <1>0, <3>2, <4>1 DEF Headers, TypeOK
      <4> QED BY <1>0, <3>1, <4>1, <4>2 DEF Headers
    <3>4. CASE SendJoin(u)
      <4> DEFINE t == lanes[u][joins[u] + 1]
      <4>1. t \in Lanes(u) /\ t \in Tunnels
        <5>1. joins[u] + 1 \in 1 .. Len(lanes[u])
          BY <1>0, <3>4 DEF SendJoin, TypeOK
        <5> QED BY <3>2, <5>1
      <4>2. inbox' = [inbox EXCEPT ![t] = "join"] /\ user[u] = "join"
        BY <3>4 DEF SendJoin
      <4>3. user'[u] \in {"join", "bridge"} /\ \A v \in Users \ {u} : user'[v] = user[v]
        BY <1>0, <3>4 DEF SendJoin, TypeOK
      <4> HIDE DEF t
      <4>4. inbox'[t] = "join" /\ \A s \in Tunnels \ {t} : inbox'[s] = inbox[s]
        BY <1>0, <4>1, <4>2 DEF TypeOK
      <4>5. \A s \in Lanes(u) : inbox[s] # "single"
        BY <1>0, <4>2 DEF Headers
      <4>6. \A v \in Users \ {u} : t \notin Lanes(v) /\ Lanes(v) \subseteq Tunnels
        BY <1>0, <4>1, LanesAreTunnels DEF LanesApart
      <4>7. \A s \in Lanes(u) : inbox'[s] # "single"
        BY <3>2, <4>4, <4>5
      <4>8. \A v \in Users \ {u} : \A s \in Lanes(v) : inbox'[s] = inbox[s]
        BY <4>4, <4>6
      <4>9. \A s \in Tunnels : inbox'[s] # "none" => \E v \in Users : s \in Lanes(v)'
        BY <1>0, <3>1, <4>1, <4>4 DEF Headers
      <4>10. \A v \in Users : \A s \in Lanes(v)' :
               /\ inbox'[s] = "join" => user'[v] \in {"join", "bridge", "done"}
               /\ inbox'[s] = "single" => user'[v] \in {"single", "done"} /\ Lanes(v)' = {s}
        BY <1>0, <3>1, <4>3, <4>7, <4>8 DEF Headers
      <4> QED BY <4>9, <4>10 DEF Headers
    <3>5. CASE JoinFails(u) \/ BridgeEnds(u) \/ SingleEnds(u) \/ GiveUp(u)
      <4>1. UNCHANGED inbox /\ user'[u] = "done" /\ \A v \in Users \ {u} : user'[v] = user[v]
        BY <1>0, <3>5 DEF JoinFails, BridgeEnds, SingleEnds, GiveUp, TypeOK
      <4> QED BY <1>0, <3>1, <4>1 DEF Headers
    <3>6. CASE SendSingle(u)
      <4> DEFINE t == lanes[u][1]
      <4>1. Lanes(u) = {t} /\ t \in Tunnels
        <5>1. Cardinality(Lanes(u)) = 1 /\ IsFiniteSet(Lanes(u))
          BY <1>0, <3>6 DEF SendSingle, LanesApart
        <5>2. t \in Lanes(u)
          BY <3>2, <3>6 DEF SendSingle
        <5> QED BY <3>2, <5>1, <5>2, FS_Singleton
      <4>2. user[u] = "reserve" /\ \A v \in Users \ {u} : user'[v] = user[v]
        BY <1>0, <3>6 DEF SendSingle, TypeOK
      <4>3. \/ inbox' = inbox /\ user'[u] = "done"
            \/ inbox' = [inbox EXCEPT ![t] = "single"] /\ user'[u] = "single"
        BY <1>0, <3>6 DEF SendSingle, TypeOK
      <4> HIDE DEF t
      <4>4. \A s \in Tunnels \ {t} : inbox'[s] = inbox[s]
        BY <1>0, <4>1, <4>3 DEF TypeOK
      <4>5a. inbox[t] = "none"
        <5>1. t \in Lanes(u) /\ inbox[t] \in {"none", "join", "single"}
          BY <1>0, <4>1 DEF TypeOK
        <5> QED BY <1>0, <4>2, <5>1 DEF Headers
      <4>5. inbox'[t] # "none" => inbox'[t] = "single" /\ user'[u] = "single"
        BY <1>0, <4>1, <4>3, <4>5a DEF TypeOK
      <4>6. \A v \in Users \ {u} : t \notin Lanes(v) /\ Lanes(v) \subseteq Tunnels
        BY <1>0, <4>1, LanesAreTunnels DEF LanesApart
      <4>7. \A v \in Users \ {u} : \A s \in Lanes(v) : inbox'[s] = inbox[s]
        BY <4>4, <4>6
      <4>8. \A s \in Tunnels : inbox'[s] # "none" => \E v \in Users : s \in Lanes(v)'
        BY <1>0, <3>1, <4>1, <4>4 DEF Headers
      <4>9. \A v \in Users : \A s \in Lanes(v)' :
               /\ inbox'[s] = "join" => user'[v] \in {"join", "bridge", "done"}
               /\ inbox'[s] = "single" => user'[v] \in {"single", "done"} /\ Lanes(v)' = {s}
        BY <1>0, <3>1, <4>1, <4>2, <4>5, <4>7 DEF Headers
      <4> QED BY <4>8, <4>9 DEF Headers
    <3> QED BY <1>2, <2>2, <3>3, <3>4, <3>5, <3>6 DEF UserStep
  <2> QED BY <2>1, <2>2
<1>3. ASSUME NEW t \in Tunnels, WorkerStep(t) \/ Cut(t) PROVE UNCHANGED <<user, lanes, inbox>>
  BY <1>3, WorkerKeeps
<1>4. UNCHANGED vars => UNCHANGED <<user, lanes, inbox>>
  BY DEF vars, intVars
<1> QED BY <1>1, <1>2, <1>3, <1>4, StepCases
(* The header a worker has read does not change while it works.            *)
LEMMA WorkersStep == ASSUME BInv, [Next]_vars PROVE WorkersFollow'
<1> USE DEF NoGroupYet, InGroup
<1>0. TypeOK /\ LanesApart /\ Headers /\ WorkersFollow
  BY DEF BInv
<1>1. CASE UNCHANGED <<inbox, worker, group>>
  BY <1>0, <1>1 DEF WorkersFollow
<1>2. ASSUME NEW u \in Users, UserStep(u) PROVE WorkersFollow'
  <2>0. UNCHANGED <<worker, group>>
    BY <1>2, UserKeeps
  <2>1. CASE UNCHANGED inbox
    BY <1>1, <2>0, <2>1
  <2>2. Lanes(u) \subseteq Tunnels /\ \A i \in 1 .. Len(lanes[u]) : lanes[u][i] \in Lanes(u)
    BY <1>0, LanesAreTunnels
  <2>3. CASE SendJoin(u)
    <3> DEFINE t == lanes[u][joins[u] + 1]
    <3>1. t \in Lanes(u)
      <4>1. joins[u] + 1 \in 1 .. Len(lanes[u])
        BY <1>0, <2>3 DEF SendJoin, TypeOK
      <4> QED BY <2>2, <4>1
    <3>2. inbox' = [inbox EXCEPT ![t] = "join"] /\ user[u] = "join"
      BY <2>3 DEF SendJoin
    <3> HIDE DEF t
    <3>3. inbox[t] # "single" /\ t \in Tunnels
      BY <1>0, <2>2, <3>1, <3>2 DEF Headers
    <3> QED BY <1>0, <2>0, <3>2, <3>3 DEF WorkersFollow, TypeOK
  <2>4. CASE SendSingle(u) /\ inbox' = [inbox EXCEPT ![lanes[u][1]] = "single"]
    <3> DEFINE t == lanes[u][1]
    <3>1. t \in Lanes(u) /\ user[u] = "reserve" /\ inbox' = [inbox EXCEPT ![t] = "single"]
      BY <2>2, <2>4 DEF SendSingle
    <3> HIDE DEF t
    <3>2. inbox[t] # "join" /\ t \in Tunnels
      BY <1>0, <2>2, <3>1 DEF Headers
    <3> QED BY <1>0, <2>0, <3>1, <3>2 DEF WorkersFollow, TypeOK
  <2> QED BY <1>2, <2>1, <2>3, <2>4
          DEF UserStep, CountLanes, TakeLane, StartBond, SendJoin, JoinFails, BridgeEnds,
              SendSingle, SingleEnds, GiveUp
<1>3. ASSUME NEW t \in Tunnels, WorkerStep(t) PROVE WorkersFollow'
  <2>0. UNCHANGED inbox
    BY <1>3, WorkerKeeps
  <2>1. CASE FindGroup(t)
    <3>1. inbox[t] = "join" /\ group' = [group EXCEPT ![t] = current'[Owner(t)]]
          /\ worker' = [worker EXCEPT ![t] = "add"]
      BY <1>0, <2>1 DEF FindGroup, Goto, WorkersFollow
    <3>2. Owner(t) \in Users
      BY <3>1, WorkerServes
    <3>3. current'[Owner(t)] # NoGroup
      BY <1>0, <2>1, <3>2, NoGroupAssumption DEF FindGroup, TypeOK
    <3> QED BY <1>0, <2>0, <3>1, <3>3 DEF WorkersFollow, TypeOK
  <2>2. CASE ~FindGroup(t)
    <3>1. UNCHANGED group
      BY <1>3, <2>2 DEF WorkerStep, ReceiveJoin, ReceiveSingle, ReceiveEof, SingleCloses, AddLane,
           JoinTimesOut, ClaimLeader, DialService, DialFails, LeaderEnds, LeaderReleases,
           CloseGroup, RemoveGroup, Follow
    <3>2. \E pc : /\ worker' = [worker EXCEPT ![t] = pc]
                  /\ pc = "single" => inbox[t] = "single"
                  /\ pc = "find" => inbox[t] = "join" /\ worker[t] = "header"
                  /\ pc \in InGroup => worker[t] \in InGroup
                  /\ pc \in {"single", "find", "done"} \cup InGroup
      BY <1>3, <2>2 DEF WorkerStep, ReceiveJoin, ReceiveSingle, ReceiveEof, SingleCloses, AddLane,
           JoinTimesOut, ClaimLeader, DialService, DialFails, LeaderEnds, LeaderReleases,
           CloseGroup, RemoveGroup, Follow, Goto
    <3>3. ReceiveSingle(t) => worker[t] = "header"
      BY DEF ReceiveSingle
    <3>4. worker'[t] \in NoGroupYet => worker[t] \in NoGroupYet
      BY <1>0, <1>3, <2>2, <3>2 DEF TypeOK, WorkerStep, ReceiveJoin, ReceiveSingle, ReceiveEof,
           SingleCloses, AddLane, JoinTimesOut, ClaimLeader, DialService, DialFails, LeaderEnds,
           LeaderReleases, CloseGroup, RemoveGroup, Follow, Goto
    <3> QED BY <1>0, <2>0, <3>1, <3>2, <3>4 DEF WorkersFollow, TypeOK
  <2> QED BY <2>1, <2>2
<1>4. ASSUME NEW t \in Tunnels, Cut(t) PROVE UNCHANGED <<inbox, worker, group>>
  BY <1>4 DEF Cut
<1>5. UNCHANGED vars => UNCHANGED <<inbox, worker, group>>
  BY DEF vars
<1> QED BY <1>1, <1>2, <1>3, <1>4, <1>5, StepCases

(* A worker's group is its user's current one, or the object it creates.   *)
LEMMA GroupsStep == ASSUME BInv, [Next]_vars PROVE GroupsOfUser'
<1>0. TypeOK /\ LanesApart /\ Headers /\ WorkersFollow /\ GroupsOfUser
  BY DEF BInv
<1>1. CASE UNCHANGED <<lanes, group, current, members>>
  <2>1. \A u \in Users : Lanes(u)' = Lanes(u)
    BY <1>1, LanesKept
  <2> QED BY <1>0, <1>1, <2>1 DEF GroupsOfUser
<1>2. ASSUME NEW u \in Users, UserStep(u) PROVE GroupsOfUser'
  <2>0. UNCHANGED <<group, current, members>>
    BY <1>2, UserKeeps
  <2>1. CASE UNCHANGED lanes
    BY <1>1, <2>0, <2>1
  <2>2. ASSUME NEW t \in Tunnels, TakeLane(u, t),
               lanes' = [lanes EXCEPT ![u] = Append(@, t)]
        PROVE  GroupsOfUser'
    <3>1. Lanes(u)' = Lanes(u) \cup {t} /\ \A v \in Users \ {u} : Lanes(v)' = Lanes(v)
      BY <1>0, <2>2, LanesTaken
    <3>2. group[t] = NoGroup
      BY <2>2, PoolIsFresh DEF TakeLane
    <3> QED BY <1>0, <2>0, <3>1, <3>2 DEF GroupsOfUser
  <2> QED BY <1>2, <2>1, <2>2
          DEF UserStep, CountLanes, TakeLane, StartBond, SendJoin, JoinFails, BridgeEnds,
              SendSingle, SingleEnds, GiveUp
<1>3. ASSUME NEW t \in Tunnels, WorkerStep(t) PROVE GroupsOfUser'
  <2>0. UNCHANGED lanes /\ \A u \in Users : Lanes(u)' = Lanes(u)
    BY <1>3, WorkerKeeps, LanesKept
  <2>1. CASE FindGroup(t)
    <3> DEFINE u == Owner(t)
    <3>1. inbox[t] = "join" /\ group[t] = NoGroup /\ UNCHANGED members
      BY <1>0, <2>1 DEF FindGroup, WorkersFollow, NoGroupYet
    <3>2. u \in Users /\ t \in Lanes(u)
      BY <3>1, WorkerServes
    <3>3. group' = [group EXCEPT ![t] = current'[u]]
          /\ current' = [current EXCEPT ![u] = IF current[u] = NoGroup THEN t ELSE current[u]]
      BY <2>1 DEF FindGroup
    <3> HIDE DEF u
    <3>4. current'[u] \in Lanes(u) /\ \A v \in Users \ {u} : current'[v] = current[v]
      BY <1>0, <3>2, <3>3 DEF GroupsOfUser, TypeOK
    <3>5. group'[t] \in Lanes(u) /\ \A s \in Tunnels \ {t} : group'[s] = group[s]
      BY <1>0, <3>3, <3>4 DEF TypeOK
    <3>6. \A v \in Users \ {u} : t \notin Lanes(v)
      BY <1>0, <3>2 DEF LanesApart
    <3>7. \A g \in Tunnels : t \notin members[g]
      BY <1>0, <3>1, NoGroupAssumption DEF GroupsOfUser
    <3>8. \A v \in Users : Lanes(v) \subseteq Tunnels
      BY <1>0, LanesAreTunnels
    <3>9. \A v \in Users : current'[v] # NoGroup => current'[v] \in Lanes(v)'
      BY <1>0, <2>0, <3>4 DEF GroupsOfUser
    <3>10. \A v \in Users : \A s \in Lanes(v)' : group'[s] # NoGroup => group'[s] \in Lanes(v)'
      BY <1>0, <2>0, <3>5, <3>6, <3>8 DEF GroupsOfUser
    <3>11. \A g \in Tunnels : \A s \in members'[g] : group'[s] = g
      BY <1>0, <3>1, <3>5, <3>7 DEF GroupsOfUser, TypeOK
    <3> QED BY <3>9, <3>10, <3>11 DEF GroupsOfUser
  <2>2. CASE AddLane(t)
    <3>1. members' = [members EXCEPT ![group[t]] = members[group[t]] \cup {t}]
          /\ UNCHANGED <<group, current>>
      BY <2>2 DEF AddLane
    <3>2. ASSUME NEW g \in Tunnels, NEW s \in members'[g]
          PROVE  s \in members[g] \/ (s = t /\ group[t] = g)
      <4>1. g # group[t] => members'[g] = members[g]
        BY <1>0, <3>1 DEF TypeOK
      <4>2. g = group[t] => members'[g] = members[g] \cup {t}
        BY <1>0, <3>1 DEF TypeOK
      <4> QED BY <3>2, <4>1, <4>2
    <3> QED BY <1>0, <2>0, <3>1, <3>2 DEF GroupsOfUser
  <2>3. CASE RemoveGroup(t)
    <3>1. UNCHANGED <<group, members>> /\ \A v \in Users : current'[v] \in {current[v], NoGroup}
      BY <1>0, <2>3 DEF RemoveGroup, TypeOK
    <3> QED BY <1>0, <2>0, <3>1 DEF GroupsOfUser
  <2> QED BY <1>1, <1>3, <2>0, <2>1, <2>2, <2>3
          DEF WorkerStep, ReceiveJoin, ReceiveSingle, ReceiveEof, SingleCloses, JoinTimesOut,
              ClaimLeader, DialService, DialFails, LeaderEnds, LeaderReleases, CloseGroup,
              Follow, groupVars
<1>4. ASSUME NEW t \in Tunnels, Cut(t) PROVE UNCHANGED <<lanes, group, current, members>>
  BY <1>4 DEF Cut, intVars, groupVars
<1>5. UNCHANGED vars => UNCHANGED <<lanes, group, current, members>>
  BY DEF vars, intVars, groupVars
<1> QED BY <1>1, <1>2, <1>3, <1>4, <1>5, StepCases
(* A group that is ready has all the lanes the user reserved.              *)
LEMMA ReadyMeansAll ==
  ASSUME BInv, NEW t \in Tunnels, Ready(t), Owner(t) \in Users, group[t] \in Lanes(Owner(t))
  PROVE  members[group[t]] = Lanes(Owner(t))
<1>1. members[group[t]] \subseteq Lanes(Owner(t))
  BY MembersAreLanes
<1>2. IsFiniteSet(Lanes(Owner(t))) /\ Cardinality(Lanes(Owner(t))) = Len(lanes[Owner(t)])
  BY DEF BInv, LanesApart
<1>3. Cardinality(members[group[t]]) = Cardinality(Lanes(Owner(t)))
  BY <1>2 DEF Ready
<1> QED BY <1>1, <1>2, <1>3, FS_Subset
(* A group is claimed when it has all lanes of its user: a later lane, a   *)
(* second object and the workers that find it claimed change nothing.      *)
LEMMA ClaimsStep == ASSUME BInv, [Next]_vars PROVE Claims'
<1> USE DEF Leading
<1>0. TypeOK /\ LanesApart /\ Headers /\ WorkersFollow /\ GroupsOfUser /\ Claims
  BY DEF BInv
<1>1. ASSUME UNCHANGED <<lanes, group, claimed, members>>,
             \A s \in Tunnels : worker'[s] \in Leading => worker[s] \in Leading
      PROVE  Claims'
  <2>1. \A u \in Users : Lanes(u)' = Lanes(u)
    BY <1>1, LanesKept
  <2> QED BY <1>0, <1>1, <2>1 DEF Claims
<1>2. ASSUME NEW u \in Users, UserStep(u) PROVE Claims'
  <2>0. UNCHANGED <<worker, group, claimed, members>>
    BY <1>2, UserKeeps
  <2>1. CASE UNCHANGED lanes
    BY <1>1, <2>0, <2>1
  <2>2. ASSUME NEW t \in Tunnels, TakeLane(u, t),
               lanes' = [lanes EXCEPT ![u] = Append(@, t)]
        PROVE  Claims'
    <3>1. \A v \in Users \ {u} : Lanes(v)' = Lanes(v)
      BY <1>0, <2>2, LanesTaken
    <3>2. ASSUME NEW g \in Lanes(u), claimed[g], members[g] = Lanes(u) PROVE FALSE
      <4>1. g \in Tunnels /\ group[g] = g
        BY <1>0, <3>2, LanesAreTunnels DEF GroupsOfUser
      <4>2. inbox[g] = "join"
        BY <1>0, <4>1, NoGroupAssumption DEF WorkersFollow
      <4> QED BY <1>0, <2>2, <4>2 DEF Headers, TakeLane
    <3>3. ASSUME NEW g \in Tunnels, claimed[g]
          PROVE  \E v \in Users : g \in Lanes(v)' /\ members[g] = Lanes(v)'
      <4>1. PICK v \in Users : g \in Lanes(v) /\ members[g] = Lanes(v)
        BY <1>0, <3>3 DEF Claims
      <4>2. v # u
        BY <3>2, <3>3, <4>1
      <4> QED BY <3>1, <4>1, <4>2
    <3> QED BY <1>0, <2>0, <3>3 DEF Claims
  <2> QED BY <1>2, <2>1, <2>2
          DEF UserStep, CountLanes, TakeLane, StartBond, SendJoin, JoinFails, BridgeEnds,
              SendSingle, SingleEnds, GiveUp
<1>3. ASSUME NEW t \in Tunnels, WorkerStep(t) PROVE Claims'
  <2>0. UNCHANGED lanes /\ \A u \in Users : Lanes(u)' = Lanes(u)
    BY <1>3, WorkerKeeps, LanesKept
  <2>1. CASE FindGroup(t)
    <3>1. UNCHANGED <<claimed, members>> /\ \A s \in Tunnels \ {t} : group'[s] = group[s]
      BY <1>0, <2>1 DEF FindGroup, TypeOK
    <3>2. worker'[t] = "add" /\ \A s \in Tunnels \ {t} : worker'[s] = worker[s]
      BY <1>0, <2>1 DEF FindGroup, Goto, TypeOK
    <3> QED BY <1>0, <2>0, <3>1, <3>2 DEF Claims
  <2>2. CASE AddLane(t)
    <3>0. worker[t] = "add" /\ inbox[t] = "join"
      BY <1>0, <2>2 DEF AddLane, WorkersFollow, InGroup
    <3>1. t \in Lanes(Owner(t)) /\ group[t] \in Lanes(Owner(t)) /\ Owner(t) \in Users
          /\ group[t] \in Tunnels
      BY <3>0, WorkerServes DEF InGroup
    <3>2. UNCHANGED <<claimed, group>> /\ members' = [members EXCEPT ![group[t]] = members[group[t]] \cup {t}]
      BY <2>2 DEF AddLane
    <3>3. worker'[t] = "wait" /\ \A s \in Tunnels \ {t} : worker'[s] = worker[s]
      BY <1>0, <2>2 DEF AddLane, Goto, TypeOK
    <3>4. ASSUME NEW g \in Tunnels, claimed[g] PROVE members'[g] = members[g]
      <4>1. CASE g = group[t]
        <5>1. PICK v \in Users : g \in Lanes(v) /\ members[g] = Lanes(v)
          BY <1>0, <3>4 DEF Claims
        <5>2. v = Owner(t)
          BY <1>0, <3>1, <4>1, <5>1 DEF LanesApart
        <5>3. members'[g] = members[g] \cup {t}
          BY <1>0, <3>2, <4>1 DEF TypeOK
        <5> QED BY <3>1, <5>1, <5>2, <5>3
      <4>2. CASE g # group[t]
        BY <1>0, <3>2, <4>2 DEF TypeOK
      <4> QED BY <4>1, <4>2
    <3>5. \A g \in Tunnels : claimed'[g] => \E u \in Users : g \in Lanes(u)' /\ members'[g] = Lanes(u)'
      BY <1>0, <2>0, <3>2, <3>4 DEF Claims
    <3> QED BY <1>0, <3>2, <3>3, <3>5 DEF Claims
  <2>3. CASE ClaimLeader(t)
    <3>0. worker[t] = "wait" /\ inbox[t] = "join"
      BY <1>0, <2>3 DEF ClaimLeader, WorkersFollow, InGroup
    <3>1. t \in Lanes(Owner(t)) /\ group[t] \in Lanes(Owner(t)) /\ Owner(t) \in Users
          /\ group[t] \in Tunnels
      BY <3>0, WorkerServes DEF InGroup
    <3>2. claimed' = [claimed EXCEPT ![group[t]] = TRUE] /\ UNCHANGED <<group, members>>
      BY <2>3 DEF ClaimLeader
    <3>3. /\ \A s \in Tunnels \ {t} : worker'[s] = worker[s]
          /\ worker'[t] \in Leading => ~claimed[group[t]]
      BY <1>0, <2>3 DEF ClaimLeader, Goto, TypeOK
    <3>4. members[group[t]] = Lanes(Owner(t))
      BY <2>3, <3>1, ReadyMeansAll DEF ClaimLeader
    <3>5. \A g \in Tunnels : claimed'[g] => claimed[g] \/ g = group[t]
      BY <1>0, <3>2 DEF TypeOK
    <3>6. \A g \in Tunnels : claimed[g] \/ g = group[t] => claimed'[g]
      BY <1>0, <3>2 DEF TypeOK
    <3>7. \A g \in Tunnels : claimed'[g] => \E u \in Users : g \in Lanes(u)' /\ members'[g] = Lanes(u)'
      BY <1>0, <2>0, <3>1, <3>2, <3>4, <3>5 DEF Claims
    <3>8. \A s \in Tunnels : worker[s] \in Leading => group[s] \in Tunnels
      BY <1>0, NoGroupAssumption DEF TypeOK, WorkersFollow, InGroup
    <3>9. \A s \in Tunnels : worker'[s] \in Leading => claimed'[group[s]]
      BY <1>0, <3>1, <3>3, <3>6, <3>8 DEF Claims
    <3>10. ASSUME NEW r \in Tunnels, NEW s \in Tunnels,
                  worker'[r] \in Leading, worker'[s] \in Leading, group[r] = group[s]
           PROVE  r = s
      <4>1. CASE r # t /\ s # t
        BY <1>0, <3>3, <3>10, <4>1 DEF Claims
      <4>2. CASE r = t \/ s = t
        BY <1>0, <3>3, <3>10, <4>2 DEF Claims
      <4> QED BY <4>1, <4>2
    <3> QED BY <3>2, <3>7, <3>9, <3>10 DEF Claims
  <2>4. CASE ~(FindGroup(t) \/ AddLane(t) \/ ClaimLeader(t))
    <3>1. UNCHANGED <<group, claimed, members>>
      BY <1>3, <2>4 DEF WorkerStep, ReceiveJoin, ReceiveSingle, ReceiveEof, SingleCloses,
              JoinTimesOut, DialService, DialFails, LeaderEnds, LeaderReleases, CloseGroup,
              RemoveGroup, Follow, groupVars
    <3>2. \A s \in Tunnels : worker'[s] \in Leading => worker[s] \in Leading
      BY <1>0, <1>3, <2>4 DEF TypeOK, WorkerStep, ReceiveJoin, ReceiveSingle, ReceiveEof,
              SingleCloses, JoinTimesOut, DialService, DialFails, LeaderEnds, LeaderReleases,
              CloseGroup, RemoveGroup, Follow, Goto
    <3> QED BY <1>1, <2>0, <3>1, <3>2
  <2> QED BY <2>1, <2>2, <2>3, <2>4
<1>4. ASSUME NEW t \in Tunnels, Cut(t) PROVE UNCHANGED <<lanes, group, claimed, members, worker>>
  BY <1>4 DEF Cut, intVars, groupVars
<1>5. UNCHANGED vars => UNCHANGED <<lanes, group, claimed, members, worker>>
  BY DEF vars, intVars, groupVars
<1> QED BY <1>1, <1>2, <1>3, <1>4, <1>5, StepCases

LEMMA BInit == Init => BInv
<1> SUFFICES ASSUME Init PROVE BInv
  OBVIOUS
<1> USE DEF Init
<1>1. \A u \in Users : Lanes(u) = {} /\ Len(lanes[u]) = 0
  BY DEF Lanes, ToSet
<1>2. TypeOK
  BY DEF TypeOK, NoGroupYet, Ends
<1>3. LanesApart
  BY <1>1, FS_EmptySet DEF LanesApart
<1>4. Headers /\ GroupsOfUser
  BY <1>1 DEF Headers, GroupsOfUser
<1>5. WorkersFollow
  BY DEF WorkersFollow, InGroup
<1>6. Claims
  BY DEF Claims, Leading
<1> QED BY <1>2, <1>3, <1>4, <1>5, <1>6 DEF BInv

LEMMA BStep == BInv /\ [Next]_vars => BInv'
BY TypeStep, LanesStep, HeadersStep, WorkersStep, GroupsStep, ClaimsStep DEF BInv
-----------------------------------------------------------------------------
(* A user's claimed group is the group of all its lanes, so another worker *)
(* of the same user finds its own group claimed.                           *)
LEMMA OneClaimPerUser ==
  ASSUME BInv, NEW u \in Users, NEW g \in Lanes(u), claimed[g], NEW t \in Lanes(u)
  PROVE  group[t] = g /\ inbox[t] = "join"
<1>1. g \in Tunnels /\ t \in Tunnels
  BY LanesAreTunnels DEF BInv
<1>2. PICK v \in Users : g \in Lanes(v) /\ members[g] = Lanes(v)
  BY <1>1 DEF BInv, Claims
<1>3. v = u
  BY <1>2 DEF BInv, LanesApart
<1>4. group[t] = g
  BY <1>1, <1>2, <1>3 DEF BInv, GroupsOfUser
<1> QED BY <1>1, <1>4, NoGroupAssumption DEF BInv, WorkersFollow

(* Nobody has dialled for the user of a worker that is about to: the       *)
(* worker of a group that is not claimed, or of the user's only lane.      *)
LEMMA NotDialledYet ==
  ASSUME BInv, Dials, NEW t \in Tunnels, NEW u \in Users, t \in Lanes(u),
         \/ worker[t] = "wait" /\ ~claimed[group[t]]
         \/ worker[t] = "header" /\ inbox[t] = "single"
  PROVE  dials[u] = 0
<1> SUFFICES ASSUME Dialled(u) PROVE FALSE
  BY DEF Dials
<1>1. ASSUME NEW g \in Lanes(u), claimed[g] PROVE FALSE
  BY <1>1, OneClaimPerUser
<1>2. ASSUME NEW s \in Lanes(u), inbox[s] = "single", worker[s] \in {"single", "done"}
      PROVE  FALSE
  <2>1. Lanes(u) = {s}
    BY <1>2 DEF BInv, Headers
  <2> QED BY <1>2, <2>1
<1> QED BY <1>1, <1>2 DEF Dialled

LEMMA DialsInit == Init => Dials
BY DEF Init, Dials, OneServicePerUser, Lanes, ToSet

(* The service is dialled by one worker per user.                          *)
LEMMA DialsStep == ASSUME BInv, BInv', Dials, [Next]_vars PROVE Dials'
<1>0. TypeOK /\ LanesApart /\ Headers /\ WorkersFollow /\ GroupsOfUser /\ Claims
  BY DEF BInv
<1>t. \A u \in Users : Lanes(u) \subseteq Tunnels
  BY <1>0, LanesAreTunnels
<1>1. ASSUME NEW u \in Users, UserStep(u) PROVE Dials'
  <2>0. UNCHANGED <<worker, group, claimed, dials>>
    BY <1>1, UserKeeps
  <2>1. \A v \in Users : Lanes(v) \subseteq Lanes(v)' /\ Lanes(v)' \subseteq Tunnels
    <3>1. CASE UNCHANGED lanes
      BY <1>t, <3>1, LanesKept
    <3>2. ASSUME NEW t \in Tunnels, lanes' = [lanes EXCEPT ![u] = Append(@, t)]
          PROVE  \A v \in Users : Lanes(v) \subseteq Lanes(v)' /\ Lanes(v)' \subseteq Tunnels
      BY <1>0, <1>t, <3>2, LanesTaken
    <3> QED BY <1>1, <3>1, <3>2
            DEF UserStep, CountLanes, TakeLane, StartBond, SendJoin, JoinFails, BridgeEnds,
                SendSingle, SingleEnds, GiveUp
  <2>2. \A s \in Tunnels : worker[s] \in {"single", "done"} /\ inbox[s] = "single" => inbox'[s] = "single"
    <3>1. CASE UNCHANGED inbox
      BY <3>1
    <3>2. CASE SendJoin(u)
      <4>1. user[u] = "join" /\ inbox' = [inbox EXCEPT ![lanes[u][joins[u] + 1]] = "join"]
            /\ joins[u] + 1 \in 1 .. Len(lanes[u])
        BY <1>0, <3>2 DEF SendJoin, TypeOK
      <4>2. lanes[u][joins[u] + 1] \in Lanes(u)
        BY <1>0, <4>1, LanesAreTunnels
      <4>3. inbox[lanes[u][joins[u] + 1]] # "single"
        BY <1>0, <4>1, <4>2 DEF Headers
      <4> QED BY <1>0, <4>1, <4>3 DEF TypeOK
    <3>3. CASE SendSingle(u)
      BY <1>0, <3>3 DEF SendSingle, TypeOK
    <3> QED BY <1>1, <3>1, <3>2, <3>3
            DEF UserStep, CountLanes, TakeLane, StartBond, SendJoin, JoinFails, BridgeEnds,
                SendSingle, SingleEnds, GiveUp
  <2>3. \A v \in Users : Dialled(v) => Dialled(v)'
    BY <1>t, <2>0, <2>1, <2>2 DEF Dialled
  <2>4. ASSUME NEW v \in Users, NEW t \in Lanes(v)', worker'[t] = "dial" PROVE dials'[v] = 0
    <3>1. t \in Tunnels
      BY <2>1, <2>4
    <3>2. inbox[t] = "join"
      BY <1>0, <2>0, <2>4, <3>1 DEF WorkersFollow, InGroup
    <3>3. PICK w \in Users : t \in Lanes(w)
      BY <1>0, <3>1, <3>2 DEF Headers
    <3>4. w = v
      BY <2>1, <2>4, <3>3 DEF BInv, LanesApart
    <3> QED BY <2>0, <2>4, <3>3, <3>4 DEF Dials
  <2> QED BY <2>0, <2>3, <2>4 DEF Dials, OneServicePerUser
<1>2. ASSUME NEW t \in Tunnels, WorkerStep(t) \/ Cut(t) PROVE Dials'
  <2>0. UNCHANGED <<lanes, inbox>> /\ \A u \in Users : Lanes(u)' = Lanes(u)
    BY <1>2, WorkerKeeps, LanesKept
  <2>1. \A g \in Tunnels : claimed[g] => claimed'[g]
    BY <1>0, <1>2 DEF TypeOK, WorkerStep, ReceiveJoin, ReceiveSingle, ReceiveEof, SingleCloses,
         FindGroup, AddLane, JoinTimesOut, ClaimLeader, DialService, DialFails, LeaderEnds,
         LeaderReleases, CloseGroup, RemoveGroup, Follow, groupVars, Cut
  <2>2. \A s \in Tunnels : worker[s] \in {"single", "done"} => worker'[s] \in {"single", "done"}
    BY <1>0, <1>2 DEF TypeOK, WorkerStep, ReceiveJoin, ReceiveSingle, ReceiveEof, SingleCloses,
         FindGroup, AddLane, JoinTimesOut, ClaimLeader, DialService, DialFails, LeaderEnds,
         LeaderReleases, CloseGroup, RemoveGroup, Follow, Cut, Goto
  <2>3. \A v \in Users : Dialled(v) => Dialled(v)'
    BY <1>t, <2>0, <2>1, <2>2 DEF Dialled
  <2>4. CASE UNCHANGED dials /\ ~ClaimLeader(t)
    <3>1. \A s \in Tunnels : worker'[s] = "dial" => worker[s] = "dial"
      BY <1>0, <1>2, <2>4 DEF TypeOK, WorkerStep, ReceiveJoin, ReceiveSingle, ReceiveEof,
         SingleCloses, FindGroup, AddLane, JoinTimesOut, DialService, DialFails, LeaderEnds,
         LeaderReleases, CloseGroup, RemoveGroup, Follow, Cut, Goto
    <3> QED BY <1>t, <2>0, <2>3, <2>4, <3>1 DEF Dials, OneServicePerUser
  <2>5. CASE ClaimLeader(t)
    <3>1. UNCHANGED dials /\ \A s \in Tunnels \ {t} : worker'[s] = worker[s]
      BY <1>0, <2>5 DEF ClaimLeader, Goto, TypeOK
    <3>2. worker'[t] = "dial" => worker[t] = "wait" /\ ~claimed[group[t]]
      BY <1>0, <2>5 DEF ClaimLeader, Goto, TypeOK
    <3>3. \A v \in Users : t \in Lanes(v) /\ worker'[t] = "dial" => dials[v] = 0
      BY <3>2, NotDialledYet
    <3> QED BY <1>t, <2>0, <2>3, <3>1, <3>3 DEF Dials, OneServicePerUser
  <2>6. CASE ReceiveSingle(t) \/ DialService(t)
    <3>1. inbox[t] # "none"
      BY <1>0, <2>6 DEF ReceiveSingle, DialService, WorkersFollow, InGroup
    <3>2. PICK u \in Users : t \in Lanes(u) /\ u = Owner(t)
      BY <3>1, WorkerServes
    <3>3. dials[u] = 0
      <4>1. CASE ReceiveSingle(t)
        BY <3>2, <4>1, NotDialledYet DEF ReceiveSingle
      <4>2. CASE DialService(t)
        BY <3>2, <4>2 DEF DialService, Dials
      <4> QED BY <2>6, <4>1, <4>2
    <3>4. dials' = [dials EXCEPT ![u] = dials[u] + 1]
      BY <2>6, <3>2 DEF ReceiveSingle, DialService
    <3>5. dials'[u] = 1 /\ \A v \in Users \ {u} : dials'[v] = dials[v]
      BY <1>0, <3>2, <3>3, <3>4 DEF TypeOK
    <3>6. \A s \in Tunnels : worker'[s] = "dial" => worker[s] = "dial" /\ s # t
      BY <1>0, <2>6 DEF ReceiveSingle, DialService, Goto, TypeOK
    <3>7. Dialled(u)'
      <4>1. CASE ReceiveSingle(t)
        <5>1. inbox'[t] = "single" /\ worker'[t] = "single"
          BY <1>0, <2>0, <4>1 DEF ReceiveSingle, Goto, TypeOK
        <5> QED BY <2>0, <3>2, <5>1 DEF Dialled
      <4>2. CASE DialService(t)
        <5>1. claimed[group[t]] /\ group[t] \in Tunnels /\ group[t] \in Lanes(Owner(t))
          BY <1>0, <3>1, <4>2, WorkerServes DEF DialService, Claims, Leading, InGroup
        <5>2. group[t] \in Lanes(u)'
          BY <2>0, <3>2, <5>1
        <5>3. claimed'[group[t]]
          BY <2>1, <5>1
        <5> QED BY <5>2, <5>3 DEF Dialled
      <4> QED BY <2>6, <4>1, <4>2
    <3>8. ASSUME NEW s \in Lanes(u), worker'[s] = "dial" PROVE FALSE
      <4>1. s \in Tunnels /\ worker[s] = "dial" /\ s # t /\ inbox[s] = "join"
        BY <1>0, <1>t, <3>2, <3>6, <3>8 DEF WorkersFollow, InGroup
      <4>2. claimed[group[s]] /\ group[s] \in Lanes(u)
        BY <1>0, <3>2, <4>1, NoGroupAssumption DEF Claims, Leading, GroupsOfUser, WorkersFollow, InGroup
      <4>3. group[t] = group[s] /\ inbox[t] = "join"
        BY <3>2, <4>2, OneClaimPerUser
      <4>4. worker[t] = "dial"
        BY <2>6, <4>3 DEF ReceiveSingle, DialService
      <4> QED BY <1>0, <4>1, <4>3, <4>4 DEF Claims, Leading
    <3>9. \A v \in Users : dials'[v] <= 1
      BY <1>0, <3>5 DEF Dials, OneServicePerUser
    <3>10. \A v \in Users : dials'[v] # 0 => Dialled(v)'
      BY <2>3, <3>5, <3>7 DEF Dials
    <3>11. \A v \in Users : \A s \in Lanes(v)' : worker'[s] = "dial" => dials'[v] = 0
      BY <1>t, <2>0, <3>5, <3>6, <3>8 DEF Dials
    <3> QED BY <3>9, <3>10, <3>11 DEF Dials, OneServicePerUser
  <2> QED BY <1>2, <2>4, <2>5, <2>6
          DEF WorkerStep, ReceiveJoin, ReceiveEof, SingleCloses, FindGroup, AddLane, JoinTimesOut,
              DialFails, LeaderEnds, LeaderReleases, CloseGroup, RemoveGroup, Follow, Cut
<1>3. CASE UNCHANGED vars
  <2>1. UNCHANGED <<lanes, inbox, worker, claimed, dials>>
    BY <1>3 DEF vars, intVars, groupVars
  <2>2. \A u \in Users : Lanes(u)' = Lanes(u)
    BY <2>1, LanesKept
  <2> QED BY <2>1, <2>2 DEF Dials, OneServicePerUser, Dialled
<1> QED BY <1>1, <1>2, <1>3, StepCases
-----------------------------------------------------------------------------
LEMMA CountersInit == Init => Counters
<1> SUFFICES ASSUME Init PROVE Counters
  OBVIOUS
<1>1. Bonded("internal") = {} /\ Bonded("external") = {}
  BY DEF Init, Bonded
<1> QED BY <1>1, FS_EmptySet DEF Init, Counters, CountersExact, Ends

(* A counter that follows a finite set.                                    *)
LEMMA CountUp ==
  ASSUME NEW A, NEW B, IsFiniteSet(A), IsFiniteSet(B), A \cap B = {}
  PROVE  IsFiniteSet(A \cup B) /\ Cardinality(A \cup B) = Cardinality(A) + Cardinality(B)
<1>1. IsFiniteSet(A \cup B)
  BY FS_Union
<1>2. Cardinality(A \cup B) = Cardinality(A) + Cardinality(B) - Cardinality(A \cap B)
  BY FS_Union
<1>3. Cardinality(A \cap B) = 0
  BY FS_EmptySet
<1> QED BY <1>1, <1>2, <1>3, FS_CardinalityType

LEMMA CountDown ==
  ASSUME NEW A, NEW B, IsFiniteSet(A), B \subseteq A
  PROVE  IsFiniteSet(A \ B) /\ Floor(Cardinality(A) - Cardinality(B)) = Cardinality(A \ B)
<1>1. IsFiniteSet(B) /\ IsFiniteSet(A \ B)
  BY FS_Subset, A \ B \subseteq A
<1>2. A = B \cup (A \ B) /\ B \cap (A \ B) = {}
  OBVIOUS
<1>3. Cardinality(B \cup (A \ B)) = Cardinality(B) + Cardinality(A \ B)
  BY <1>1, <1>2, CountUp
<1>4. Cardinality(B) \in Nat /\ Cardinality(A \ B) \in Nat
  BY <1>1, FS_CardinalityType
<1>5. Cardinality(A) = Cardinality(B) + Cardinality(A \ B)
  BY <1>2, <1>3
<1> QED BY <1>1, <1>4, <1>5 DEF Floor

(* The counter of an end changes with the bonds of that end.               *)
LEMMA CountersStep == ASSUME BInv, Counters, [Next]_vars PROVE Counters'
<1>0. TypeOK /\ LanesApart /\ Headers /\ WorkersFollow /\ GroupsOfUser /\ Claims
  BY DEF BInv
<1>i. /\ Bonded("internal") = UNION {Lanes(u) : u \in {v \in Users : user[v] \in {"join", "bridge"}}}
      /\ Bonded("internal")' = UNION {Lanes(u)' : u \in {v \in Users : user'[v] \in {"join", "bridge"}}}
  BY DEF Bonded
<1>e. /\ Bonded("external") = UNION {members[group[t]] : t \in {l \in Tunnels : worker[l] = "lead"}}
      /\ Bonded("external")' = UNION {members'[group'[t]] : t \in {l \in Tunnels : worker'[l] = "lead"}}
  BY DEF Bonded
<1>c. \A e \in Ends : in_use[e] = Cardinality(Bonded(e)) /\ IsFiniteSet(Bonded(e))
  BY DEF Counters, CountersExact
<1>1. ASSUME UNCHANGED in_use, \A e \in Ends : Bonded(e)' = Bonded(e) PROVE Counters'
  BY <1>c, <1>1 DEF Counters, CountersExact
<1>2. ASSUME NEW u \in Users, UserStep(u) PROVE Counters'
  <2>0. Bonded("external")' = Bonded("external")
    <3>1. UNCHANGED <<members, group, worker>>
      BY <1>2, UserKeeps
    <3> QED BY <1>e, <3>1
  <2>1. CASE \E t \in Tunnels : TakeLane(u, t)
    <3>1. PICK t \in Tunnels : TakeLane(u, t)
      BY <2>1
    <3>2. UNCHANGED <<user, in_use>> /\ user[u] = "reserve"
      BY <3>1 DEF TakeLane
    <3>3. \A v \in Users \ {u} : Lanes(v)' = Lanes(v)
      <4>1. CASE UNCHANGED lanes
        BY <4>1, LanesKept
      <4>2. CASE lanes' = [lanes EXCEPT ![u] = Append(@, t)]
        BY <1>0, <4>2, LanesTaken
      <4> QED BY <3>1, <4>1, <4>2 DEF TakeLane
    <3>4. Bonded("internal")' = Bonded("internal")
      BY <1>i, <3>2, <3>3
    <3> QED BY <1>1, <2>0, <3>2, <3>4 DEF Ends
  <2>2. CASE ~\E t \in Tunnels : TakeLane(u, t)
    <3>0. UNCHANGED lanes
      BY <1>2, <2>2 DEF UserStep, CountLanes, StartBond, SendJoin, JoinFails, BridgeEnds,
                        SendSingle, SingleEnds, GiveUp
    <3>1. \A v \in Users : Lanes(v)' = Lanes(v)
      BY <3>0, LanesKept
    <3>2. \A v \in Users \ {u} : user'[v] = user[v]
      BY <1>0, <1>2 DEF UserStep, CountLanes, TakeLane, StartBond, SendJoin, JoinFails, BridgeEnds,
                        SendSingle, SingleEnds, GiveUp, TypeOK
    <3>3. IsFiniteSet(Lanes(u)) /\ Cardinality(Lanes(u)) = Len(lanes[u])
      BY <1>0 DEF LanesApart
    <3>4. CASE /\ UNCHANGED in_use
               /\ user[u] \in {"join", "bridge"} <=> user'[u] \in {"join", "bridge"}
      <4>1. Bonded("internal")' = Bonded("internal")
        BY <1>i, <3>1, <3>2, <3>4
      <4> QED BY <1>1, <2>0, <3>4, <4>1 DEF Ends
    <3>5. CASE StartBond(u)
      <4>1. user[u] = "reserve" /\ user'[u] = "join"
            /\ in_use' = [in_use EXCEPT !["internal"] = in_use["internal"] + Len(lanes[u])]
        BY <1>0, <3>5 DEF StartBond, TypeOK
      <4>2. Bonded("internal")' = Bonded("internal") \cup Lanes(u)
        BY <1>i, <3>1, <3>2, <4>1
      <4>3. Bonded("internal") \cap Lanes(u) = {}
        BY <1>0, <1>i, <4>1 DEF LanesApart
      <4>4. IsFiniteSet(Bonded("internal") \cup Lanes(u))
            /\ Cardinality(Bonded("internal") \cup Lanes(u)) = Cardinality(Bonded("internal")) + Cardinality(Lanes(u))
        BY <1>c, <3>3, <4>3, CountUp DEF Ends
      <4>5. in_use'["internal"] = Cardinality(Bonded("internal")') /\ IsFiniteSet(Bonded("internal")')
        BY <1>0, <1>c, <3>3, <4>1, <4>2, <4>4 DEF Ends, TypeOK
      <4>6. in_use'["external"] = in_use["external"]
        BY <1>0, <4>1 DEF Ends, TypeOK
      <4> QED BY <1>c, <2>0, <4>5, <4>6 DEF Counters, CountersExact, Ends
    <3>6. CASE JoinFails(u) \/ BridgeEnds(u)
      <4>1. user[u] \in {"join", "bridge"} /\ user'[u] = "done"
            /\ in_use' = [in_use EXCEPT !["internal"] = Floor(in_use["internal"] - Len(lanes[u]))]
        BY <1>0, <3>6 DEF JoinFails, BridgeEnds, Unbond, TypeOK
      <4>2. Lanes(u) \subseteq Bonded("internal")
        BY <1>i, <4>1
      <4>3. \A v \in Users \ {u} : Lanes(v) \cap Lanes(u) = {}
        BY <1>0 DEF LanesApart
      <4>4. Bonded("internal")' = Bonded("internal") \ Lanes(u)
        BY <1>i, <3>1, <3>2, <4>1, <4>3
      <4>5. IsFiniteSet(Bonded("internal") \ Lanes(u))
            /\ Floor(Cardinality(Bonded("internal")) - Cardinality(Lanes(u))) = Cardinality(Bonded("internal") \ Lanes(u))
        BY <1>c, <4>2, CountDown DEF Ends
      <4>6. in_use'["internal"] = Cardinality(Bonded("internal")') /\ IsFiniteSet(Bonded("internal")')
        BY <1>0, <1>c, <3>3, <4>1, <4>4, <4>5 DEF Ends, TypeOK
      <4>7. in_use'["external"] = in_use["external"]
        BY <1>0, <4>1 DEF Ends, TypeOK
      <4> QED BY <1>c, <2>0, <4>6, <4>7 DEF Counters, CountersExact, Ends
    <3> QED BY <1>0, <1>2, <2>2, <3>4, <3>5, <3>6
            DEF UserStep, CountLanes, SendJoin, SendSingle, SingleEnds, GiveUp, TypeOK
  <2> QED BY <2>1, <2>2
<1>3. ASSUME NEW t \in Tunnels, WorkerStep(t) \/ Cut(t) PROVE Counters'
  <2>0. Bonded("internal")' = Bonded("internal")
    <3>1. UNCHANGED <<user, lanes>> /\ \A u \in Users : Lanes(u)' = Lanes(u)
      BY <1>3, WorkerKeeps, LanesKept
    <3> QED BY <1>i, <3>1
  <2>l. \A s \in Tunnels : worker[s] = "lead" =>
          group[s] \in Tunnels /\ claimed[group[s]] /\ inbox[s] = "join"
    BY <1>0, NoGroupAssumption DEF TypeOK, WorkersFollow, InGroup, Claims, Leading
  <2>1. CASE DialService(t) \/ LeaderEnds(t)
    <3> DEFINE M == members[group[t]]
    <3>1. worker[t] \in Leading /\ inbox[t] = "join" /\ UNCHANGED <<members, group>>
      BY <1>0, <2>1 DEF DialService, LeaderEnds, groupVars, WorkersFollow, InGroup, Leading
    <3>2. Owner(t) \in Users /\ group[t] \in Tunnels /\ group[t] \in Lanes(Owner(t)) /\ claimed[group[t]]
      BY <1>0, <3>1, WorkerServes DEF Leading, InGroup, Claims
    <3>3. IsFiniteSet(M)
      BY <3>2, MembersAreLanes
    <3>4. ASSUME NEW s \in Tunnels, s # t, worker[s] = "lead" PROVE members[group[s]] \cap M = {}
      <4>1. group[s] # group[t]
        BY <1>0, <3>1, <3>4 DEF Claims, Leading
      <4> QED BY <1>0, <2>l, <3>2, <3>4, <4>1 DEF GroupsOfUser
    <3>5. CASE DialService(t)
      <4>1. worker[t] = "dial" /\ worker'[t] = "lead" /\ \A s \in Tunnels \ {t} : worker'[s] = worker[s]
        BY <1>0, <3>5 DEF DialService, Goto, TypeOK
      <4>2. in_use' = [in_use EXCEPT !["external"] = in_use["external"] + Cardinality(M)]
        BY <3>5 DEF DialService
      <4> HIDE DEF M
      <4>3. Bonded("external")' = Bonded("external") \cup M
        BY <1>e, <3>1, <4>1 DEF M
      <4>4. Bonded("external") \cap M = {}
        BY <1>e, <3>4, <4>1
      <4>5. IsFiniteSet(Bonded("external") \cup M)
            /\ Cardinality(Bonded("external") \cup M) = Cardinality(Bonded("external")) + Cardinality(M)
        BY <1>c, <3>3, <4>4, CountUp DEF Ends
      <4>6. in_use'["external"] = Cardinality(Bonded("external")') /\ IsFiniteSet(Bonded("external")')
        BY <1>0, <1>c, <4>2, <4>3, <4>5 DEF Ends, TypeOK
      <4>7. in_use'["internal"] = in_use["internal"]
        BY <1>0, <4>2 DEF Ends, TypeOK
      <4> QED BY <1>c, <2>0, <4>6, <4>7 DEF Counters, CountersExact, Ends
    <3>6. CASE LeaderEnds(t)
      <4>1. worker[t] = "lead" /\ worker'[t] = "leave" /\ \A s \in Tunnels \ {t} : worker'[s] = worker[s]
        BY <1>0, <3>6 DEF LeaderEnds, Goto, TypeOK
      <4>2. in_use' = [in_use EXCEPT !["external"] = Floor(in_use["external"] - Cardinality(M))]
        BY <3>6 DEF LeaderEnds
      <4>3. M \subseteq Bonded("external")
        BY <1>e, <4>1
      <4>4. Bonded("external")' = Bonded("external") \ M
        <5>1. \A s \in Tunnels : worker'[s] = "lead" <=> worker[s] = "lead" /\ s # t
          BY <4>1
        <5> HIDE DEF M
        <5>2. \A x : x \in Bonded("external")' <=> \E s \in Tunnels : worker[s] = "lead" /\ s # t /\ x \in members[group[s]]
          BY <1>e, <3>1, <5>1
        <5>3. \A x : x \in Bonded("external") <=> \E s \in Tunnels : worker[s] = "lead" /\ x \in members[group[s]]
          BY <1>e
        <5> QED BY <3>4, <5>2, <5>3 DEF M
      <4> HIDE DEF M
      <4>5. IsFiniteSet(Bonded("external") \ M)
            /\ Floor(Cardinality(Bonded("external")) - Cardinality(M)) = Cardinality(Bonded("external") \ M)
        BY <1>c, <4>3, CountDown DEF Ends
      <4>6. in_use'["external"] = Cardinality(Bonded("external")') /\ IsFiniteSet(Bonded("external")')
        BY <1>0, <1>c, <4>2, <4>4, <4>5 DEF Ends, TypeOK
      <4>7. in_use'["internal"] = in_use["internal"]
        BY <1>0, <4>2 DEF Ends, TypeOK
      <4> QED BY <1>c, <2>0, <4>6, <4>7 DEF Counters, CountersExact, Ends
    <3> QED BY <2>1, <3>5, <3>6
  <2>2. CASE ~(DialService(t) \/ LeaderEnds(t))
    <3>1. UNCHANGED in_use
      BY <1>3, <2>2 DEF WorkerStep, ReceiveJoin, ReceiveSingle, ReceiveEof, SingleCloses, FindGroup,
           AddLane, JoinTimesOut, ClaimLeader, DialFails, LeaderReleases, CloseGroup, RemoveGroup,
           Follow, Cut
    <3>2. \A s \in Tunnels : worker'[s] = "lead" <=> worker[s] = "lead"
      BY <1>0, <1>3, <2>2 DEF TypeOK, WorkerStep, ReceiveJoin, ReceiveSingle, ReceiveEof,
           SingleCloses, FindGroup, AddLane, JoinTimesOut, ClaimLeader, DialFails, LeaderReleases,
           CloseGroup, RemoveGroup, Follow, Cut, Goto
    <3>3. ASSUME NEW s \in Tunnels, worker[s] = "lead"
          PROVE  members'[group'[s]] = members[group[s]]
      <4>1. group[s] \in Tunnels /\ claimed[group[s]]
        BY <2>l, <3>3
      <4>2. group'[s] = group[s]
        BY <1>0, <1>3, <2>2, <3>3 DEF TypeOK, WorkerStep, ReceiveJoin, ReceiveSingle, ReceiveEof,
           SingleCloses, FindGroup, AddLane, JoinTimesOut, ClaimLeader, DialFails, LeaderReleases,
           CloseGroup, RemoveGroup, Follow, Cut
      <4>3. CASE AddLane(t)
        <5>1. worker[t] = "add" /\ inbox[t] = "join" /\ group[t] \in Tunnels
          BY <1>0, <4>3, NoGroupAssumption DEF AddLane, WorkersFollow, InGroup, TypeOK
        <5>2. members' = [members EXCEPT ![group[t]] = members[group[t]] \cup {t}]
          BY <4>3 DEF AddLane
        <5>3. CASE group[s] # group[t]
          BY <1>0, <4>1, <4>2, <5>2, <5>3 DEF TypeOK
        <5>4. CASE group[s] = group[t]
          <6>1. members'[group[s]] = members[group[s]] \cup {t}
            BY <1>0, <4>1, <5>2, <5>4 DEF TypeOK
          <6>2. PICK v \in Users : group[s] \in Lanes(v) /\ members[group[s]] = Lanes(v)
            BY <1>0, <4>1 DEF Claims
          <6>3. Owner(t) \in Users /\ t \in Lanes(Owner(t)) /\ group[t] \in Lanes(Owner(t))
            BY <5>1, WorkerServes DEF InGroup
          <6>4. Owner(t) = v
            BY <1>0, <5>4, <6>2, <6>3 DEF LanesApart
          <6> QED BY <4>2, <6>1, <6>2, <6>3, <6>4
        <5> QED BY <5>3, <5>4
      <4>4. CASE ~AddLane(t)
        <5>1. UNCHANGED members
          BY <1>3, <4>4 DEF WorkerStep, ReceiveJoin, ReceiveSingle, ReceiveEof, SingleCloses,
             FindGroup, JoinTimesOut, ClaimLeader, DialService, DialFails, LeaderEnds,
             LeaderReleases, CloseGroup, RemoveGroup, Follow, Cut, groupVars
        <5> QED BY <4>2, <5>1
      <4> QED BY <4>3, <4>4
    <3>4. Bonded("external")' = Bonded("external")
      BY <1>e, <3>2, <3>3
    <3> QED BY <1>1, <2>0, <3>1, <3>4 DEF Ends
  <2> QED BY <2>1, <2>2
<1>4. CASE UNCHANGED vars
  <2>1. UNCHANGED <<user, lanes, worker, group, members, in_use>>
    BY <1>4 DEF vars, intVars, groupVars
  <2>2. \A u \in Users : Lanes(u)' = Lanes(u)
    BY <2>1, LanesKept
  <2>3. Bonded("internal")' = Bonded("internal") /\ Bonded("external")' = Bonded("external")
    BY <1>i, <1>e, <2>1, <2>2
  <2> QED BY <1>1, <2>1, <2>3 DEF Ends
<1> QED BY <1>2, <1>3, <1>4, StepCases

-----------------------------------------------------------------------------
LEMMA GroupInvariant == Spec => []GInv
<1>1. Init => GInv
  BY BInit, DialsInit, CountersInit DEF GInv
<1>2. GInv /\ [Next]_vars => GInv'
  BY BStep, DialsStep, CountersStep DEF GInv
<1> QED BY <1>1, <1>2, PTL DEF Spec

(* Every variable keeps its type.                                          *)
THEOREM TypeCorrect == Spec => []TypeOK
<1>1. GInv => TypeOK
  BY DEF GInv, BInv
<1> QED BY <1>1, GroupInvariant, PTL

(* handle_user and reverse_link_worker: the service of a user is dialled   *)
(* at most once, whichever lanes arrive late and however many group        *)
(* objects are made, for any users and tunnels.                            *)
THEOREM ServiceDialledOnce == Spec => []OneServicePerUser
<1>1. GInv => OneServicePerUser
  BY DEF GInv, Dials
<1> QED BY <1>1, GroupInvariant, PTL

(* A worker that leads bridges exactly the lanes the user reserved.        *)
THEOREM LeaderIsComplete == Spec => []LeaderHasTheLanes
<1>1. GInv => LeaderHasTheLanes
  <2> SUFFICES ASSUME GInv, NEW t \in Tunnels, worker[t] = "lead"
               PROVE  members[group[t]] = Lanes(Owner(t))
    BY DEF LeaderHasTheLanes
  <2>1. BInv /\ inbox[t] = "join" /\ claimed[group[t]]
    BY DEF GInv, BInv, WorkersFollow, InGroup, Claims, Leading
  <2>2. Owner(t) \in Users /\ group[t] \in Tunnels /\ group[t] \in Lanes(Owner(t))
    BY <2>1, WorkerServes DEF InGroup
  <2>3. PICK u \in Users : group[t] \in Lanes(u) /\ members[group[t]] = Lanes(u)
    BY <2>1, <2>2 DEF BInv, Claims
  <2> QED BY <2>1, <2>2, <2>3 DEF BInv, LanesApart
<1> QED BY <1>1, GroupInvariant, PTL

(* bonded_lanes_in_use is the number of lanes of the bonds in progress at  *)
(* each end, on every path, for any users and tunnels.                     *)
THEOREM CountersStayExact == Spec => []CountersExact
<1>1. GInv => CountersExact
  BY DEF GInv, Counters
<1> QED BY <1>1, GroupInvariant, PTL

-----------------------------------------------------------------------------
(* Nobody is left behind. *)
Closing == {"dial", "lead", "close"}
Ending == {"dial", "lead", "leave", "close"}
Removing == {"dial", "lead", "leave", "close", "remove"}
SomeOf(g, places) == \E l \in Tunnels : group[l] = g /\ worker[l] \in places

(* A worker that follows is woken, or some worker is still to wake it; and *)
(* when all workers of a user have ended, no group of the user is left and *)
(* both ends have closed all its lanes, whichever of them failed, timed    *)
(* out or came late.                                                       *)
NobodyLeftBehind ==
  /\ \A t \in Tunnels : worker[t] = "follow" => done[group[t]] \/ SomeOf(group[t], Ending)
  /\ \A u \in Users :
       /\ user[u] = "done" => Lanes(u) \subseteq closed["internal"]
       /\ (\A t \in Lanes(u) : worker[t] = "done") =>
            current[u] = NoGroup /\ Lanes(u) \subseteq closed["external"]

(* A worker has joined its group before it waits; one that leaves its      *)
(* group has closed its lane, or left that to the leader of a claimed one. *)
Leaves(t) ==
  /\ worker[t] \in InGroup \ {"add"} => t \in members[group[t]]
  /\ worker[t] = "follow" => claimed[group[t]]
  /\ worker[t] \in {"leave", "remove"} => t \in closed["external"]
  /\ worker[t] = "done" =>
       t \in closed["external"] \/ (group[t] # NoGroup /\ claimed[group[t]])

(* What a claimed group is owed, it has had, or some worker owes it.       *)
Owed(g) ==
  claimed[g] => /\ done[g] \/ SomeOf(g, Ending)
                /\ members[g] \subseteq closed["external"] \/ SomeOf(g, Closing)

(* A group that can be found has a worker that will remove it.             *)
Removed(u) ==
  /\ current[u] # NoGroup => SomeOf(current[u], {"add", "wait"} \cup Removing)
  /\ current[u] # NoGroup => (claimed[current[u]] => SomeOf(current[u], Removing))

LanesClosed == \A u \in Users : user[u] = "done" => Lanes(u) \subseteq closed["internal"]

RInv ==
  /\ \A t \in Tunnels : Leaves(t) /\ Owed(t)
  /\ \A u \in Users : Removed(u)
  /\ LanesClosed

LEMMA RInit == Init => RInv
<1> SUFFICES ASSUME Init PROVE RInv
  OBVIOUS
<1>1. \A u \in Users : Lanes(u) = {}
  BY DEF Init, Lanes, ToSet
<1>2. \A t \in Tunnels : Leaves(t) /\ Owed(t)
  BY DEF Init, Leaves, Owed, InGroup
<1>3. \A u \in Users : Removed(u)
  BY DEF Init, Removed
<1>4. LanesClosed
  BY <1>1 DEF LanesClosed
<1> QED BY <1>2, <1>3, <1>4 DEF RInv

(* What is closed stays closed. *)
LEMMA ClosedStays ==
  ASSUME TypeOK, [Next]_vars, NEW e \in Ends
  PROVE  closed[e] \subseteq closed'[e]
<1>1. ASSUME NEW f \in Ends, NEW S, Close(f, S) PROVE closed[e] \subseteq closed'[e]
  BY <1>1 DEF Close, TypeOK
<1>2. "internal" \in Ends /\ "external" \in Ends
  BY DEF Ends
<1>3. ASSUME NEW u \in Users, UserStep(u) PROVE closed[e] \subseteq closed'[e]
  BY <1>1, <1>2, <1>3 DEF UserStep, CountLanes, TakeLane, StartBond, SendJoin, JoinFails,
     BridgeEnds, SendSingle, SingleEnds, GiveUp
<1>4. ASSUME NEW t \in Tunnels, WorkerStep(t) PROVE closed[e] \subseteq closed'[e]
  BY <1>1, <1>2, <1>4 DEF WorkerStep, ReceiveJoin, ReceiveSingle, ReceiveEof, SingleCloses,
     FindGroup, AddLane, JoinTimesOut, ClaimLeader, DialService, DialFails, LeaderEnds,
     LeaderReleases, CloseGroup, RemoveGroup, Follow
<1>5. (\E t \in Tunnels : Cut(t)) \/ UNCHANGED vars => closed' = closed
  BY DEF Cut, vars
<1> QED BY <1>3, <1>4, <1>5, StepCases

(* When a user has gone, its node has closed the lanes. *)
LEMMA LanesClosedStep == ASSUME BInv, LanesClosed, [Next]_vars PROVE LanesClosed'
<1>0. TypeOK /\ "internal" \in Ends
  BY DEF BInv, Ends
<1>1. closed["internal"] \subseteq closed'["internal"]
  BY <1>0, ClosedStays
<1>2. ASSUME UNCHANGED <<user, lanes>> PROVE LanesClosed'
  BY <1>1, <1>2, LanesKept DEF LanesClosed
<1>3. ASSUME NEW u \in Users, UserStep(u) PROVE LanesClosed'
  <2>1. ASSUME UNCHANGED lanes, \A v \in Users \ {u} : user'[v] = user[v],
               user'[u] = "done" => Lanes(u) \subseteq closed'["internal"]
        PROVE  LanesClosed'
    <3>1. \A v \in Users : Lanes(v)' = Lanes(v)
      BY <2>1, LanesKept
    <3> QED BY <1>1, <2>1, <3>1 DEF LanesClosed
  <2>2. ASSUME NEW t \in Tunnels, TakeLane(u, t) PROVE LanesClosed'
    <3>1. user' = user /\ user[u] = "reserve"
      BY <2>2 DEF TakeLane
    <3>2. CASE lanes' = lanes
      BY <1>2, <3>1, <3>2
    <3>3. CASE lanes' = [lanes EXCEPT ![u] = Append(@, t)]
      <4>1. \A v \in Users \ {u} : Lanes(v)' = Lanes(v)
        BY <1>0, <3>3, LanesTaken
      <4> QED BY <1>1, <3>1, <4>1 DEF LanesClosed
    <3> QED BY <2>2, <3>2, <3>3 DEF TakeLane
  <2>3. CASE CountLanes(u) \/ StartBond(u) \/ SendJoin(u)
    BY <1>0, <2>1, <2>3 DEF CountLanes, StartBond, SendJoin, TypeOK
  <2>4. CASE GiveUp(u)
    <3>1. Lanes(u) = {}
      BY <2>4 DEF GiveUp, Lanes, ToSet
    <3> QED BY <1>0, <2>1, <2>4, <3>1 DEF GiveUp, TypeOK
  <2>5. CASE JoinFails(u) \/ BridgeEnds(u) \/ SingleEnds(u) \/ SendSingle(u)
    <3>1. /\ lanes' = lanes /\ \A v \in Users \ {u} : user'[v] = user[v]
          /\ Close("internal", Lanes(u)) \/ user'[u] = "single"
      BY <1>0, <2>5 DEF JoinFails, BridgeEnds, SingleEnds, SendSingle, TypeOK
    <3>2. Close("internal", Lanes(u)) => Lanes(u) \subseteq closed'["internal"]
      BY <1>0 DEF Close, TypeOK
    <3> QED BY <2>1, <3>1, <3>2
  <2> QED BY <1>3, <2>2, <2>3, <2>4, <2>5 DEF UserStep
<1>4. ASSUME NEW t \in Tunnels, WorkerStep(t) \/ Cut(t) PROVE LanesClosed'
  BY <1>2, <1>4, WorkerKeeps
<1>5. UNCHANGED vars => UNCHANGED <<user, lanes>>
  BY DEF vars, intVars
<1> QED BY <1>2, <1>3, <1>4, <1>5, StepCases

(* A step of t leaves the others where they are in their groups.           *)
Moves(t, q) ==
  /\ worker' = [worker EXCEPT ![t] = q]
  /\ \A s \in Tunnels \ {t} : group'[s] = group[s]
  /\ group'[t] = group[t] \/ group[t] = NoGroup

LEMMA SomeStay ==
  ASSUME TypeOK, NEW t \in Tunnels, NEW q, Moves(t, q), NEW g \in Tunnels, NEW P,
         worker[t] \in P /\ group[t] = g => q \in P,
         SomeOf(g, P)
  PROVE  SomeOf(g, P)'
<1>1. PICK l \in Tunnels : group[l] = g /\ worker[l] \in P
  BY DEF SomeOf
<1>2. group'[l] = g /\ worker'[l] \in P
  BY <1>1, NoGroupAssumption DEF Moves, TypeOK
<1> QED BY <1>2 DEF SomeOf

LEMMA ThisOne ==
  ASSUME TypeOK, NEW t \in Tunnels, NEW q, Moves(t, q), NEW P, q \in P,
         NEW g \in Tunnels, group'[t] = g
  PROVE  SomeOf(g, P)'
BY DEF Moves, SomeOf, TypeOK

(* The steps of a worker by what they do to its group. *)
LEMMA Ungrouped ==
  ASSUME TypeOK, NEW t \in Tunnels,
         ReceiveJoin(t) \/ ReceiveSingle(t) \/ ReceiveEof(t) \/ SingleCloses(t)
  PROVE  /\ worker[t] \in {"header", "single"}
         /\ \E q \in {"find", "single", "done"} :
              Moves(t, q) /\ (q = "done" => t \in closed'["external"])
         /\ UNCHANGED <<group, groupVars>>
<1>1. Close("external", {t}) => t \in closed'["external"]
  BY DEF Close, TypeOK, Ends
<1> QED BY <1>1 DEF ReceiveJoin, ReceiveSingle, ReceiveEof, SingleCloses, Moves, Goto, groupVars

LEMMA Waits ==
  ASSUME TypeOK, NEW t \in Tunnels,
         JoinTimesOut(t) \/ DialService(t) \/ DialFails(t) \/ Follow(t)
  PROVE  /\ \/ worker[t] = "wait" /\ Moves(t, "close")
            \/ worker[t] = "dial" /\ Moves(t, "lead")
            \/ worker[t] = "dial" /\ Moves(t, "close")
            \/ worker[t] = "follow" /\ Moves(t, "done")
         /\ UNCHANGED <<group, groupVars>>
BY DEF JoinTimesOut, DialService, DialFails, Follow, Moves, Goto, groupVars

LEMMA Closes ==
  ASSUME TypeOK, NEW t \in Tunnels, LeaderEnds(t) \/ CloseGroup(t)
  PROVE  /\ members[group[t]] \subseteq closed'["external"]
         /\ UNCHANGED <<group, members, claimed, current>>
         /\ \/ worker[t] = "lead" /\ Moves(t, "leave") /\ done' = done
            \/ /\ worker[t] = "close" /\ Moves(t, "remove")
               /\ done' = [done EXCEPT ![group[t]] = TRUE]
<1>1. Close("external", members[group[t]]) => members[group[t]] \subseteq closed'["external"]
  BY DEF Close, TypeOK, Ends
<1> QED BY <1>1 DEF LeaderEnds, CloseGroup, Moves, Goto, groupVars

LEMMA Releases ==
  ASSUME TypeOK, NEW t \in Tunnels, LeaderReleases(t)
  PROVE  /\ worker[t] = "leave" /\ Moves(t, "remove")
         /\ done' = [done EXCEPT ![group[t]] = TRUE]
         /\ UNCHANGED <<group, members, claimed, current>>
BY DEF LeaderReleases, Moves, Goto

LEMMA Removes ==
  ASSUME TypeOK, NEW t \in Tunnels, RemoveGroup(t)
  PROVE  /\ worker[t] = "remove" /\ Moves(t, "done")
         /\ UNCHANGED <<group, members, claimed, done>>
         /\ current' = [current EXCEPT ![Owner(t)] =
              IF current[Owner(t)] = group[t] THEN NoGroup ELSE current[Owner(t)]]
BY DEF RemoveGroup, Moves, Goto

LEMMA Claiming ==
  ASSUME TypeOK, NEW t \in Tunnels, ClaimLeader(t)
  PROVE  /\ worker[t] = "wait" /\ Moves(t, IF claimed[group[t]] THEN "follow" ELSE "dial")
         /\ UNCHANGED <<group, members, current, done>>
         /\ claimed' = [claimed EXCEPT ![group[t]] = TRUE]
BY DEF ClaimLeader, Moves, Goto

(* A claimed group is complete: nobody joins it any more. *)
LEMMA Joining ==
  ASSUME BInv, NEW t \in Tunnels, AddLane(t)
  PROVE  /\ worker[t] = "add" /\ Moves(t, "wait")
         /\ UNCHANGED <<group, current, claimed, done>>
         /\ members' = [members EXCEPT ![group[t]] = members[group[t]] \cup {t}]
         /\ \A g \in Tunnels : claimed[g] => members'[g] = members[g]
<1>1. TypeOK
  BY DEF BInv
<1>2. /\ worker[t] = "add" /\ Moves(t, "wait")
      /\ UNCHANGED <<group, current, claimed, done>>
      /\ members' = [members EXCEPT ![group[t]] = members[group[t]] \cup {t}]
  BY <1>1 DEF AddLane, Moves, Goto
<1>3. inbox[t] = "join" /\ inbox[t] # "none"
  BY <1>2 DEF BInv, WorkersFollow, InGroup
<1>4. /\ Owner(t) \in Users /\ t \in Lanes(Owner(t)) /\ group[t] \in Lanes(Owner(t))
  BY <1>2, <1>3, WorkerServes DEF InGroup
<1>5. ASSUME NEW g \in Tunnels, claimed[g] PROVE members'[g] = members[g]
  <2>1. CASE g = group[t]
    <3>1. PICK v \in Users : g \in Lanes(v) /\ members[g] = Lanes(v)
      BY <1>5 DEF BInv, Claims
    <3>2. v = Owner(t)
      BY <1>4, <2>1, <3>1 DEF BInv, LanesApart
    <3> QED BY <1>1, <1>2, <1>4, <2>1, <3>1, <3>2 DEF TypeOK
  <2>2. CASE g # group[t]
    BY <1>1, <1>2, <2>2 DEF TypeOK
  <2> QED BY <2>1, <2>2
<1> QED BY <1>2, <1>5

(* A new object is found under the key of a user, or the worker makes one. *)
LEMMA Finding ==
  ASSUME BInv, NEW t \in Tunnels, FindGroup(t)
  PROVE  /\ worker[t] = "find" /\ group[t] = NoGroup /\ Moves(t, "add")
         /\ UNCHANGED <<members, claimed, done>>
         /\ Owner(t) \in Users /\ group'[t] = current'[Owner(t)] /\ ~claimed[t]
         /\ current' = [current EXCEPT ![Owner(t)] =
              IF current[Owner(t)] = NoGroup THEN t ELSE current[Owner(t)]]
<1>1. TypeOK
  BY DEF BInv
<1>2. worker[t] = "find"
  BY DEF FindGroup
<1>3. group[t] = NoGroup /\ inbox[t] # "none"
  BY <1>2 DEF BInv, WorkersFollow, NoGroupYet
<1>4. Owner(t) \in Users /\ t \in Lanes(Owner(t))
  BY <1>3, WorkerServes
<1>5. ~claimed[t]
  BY <1>3, <1>4, OneClaimPerUser, NoGroupAssumption
<1> QED BY <1>1, <1>2, <1>3, <1>4, <1>5 DEF FindGroup, Moves, Goto, TypeOK

(* What a worker knows of itself. *)
LEMMA LeavesStep ==
  ASSUME BInv, RInv, [Next]_vars, NEW s \in Tunnels
  PROVE  Leaves(s)'
<1>0. /\ TypeOK /\ "external" \in Ends /\ NoGroup \notin Tunnels /\ Leaves(s)
      /\ worker[s] \in InGroup => group[s] \in Tunnels
  BY NoGroupAssumption DEF BInv, RInv, Ends, TypeOK, WorkersFollow
<1>1. closed["external"] \subseteq closed'["external"]
  BY <1>0, ClosedStays
<1>2. ASSUME UNCHANGED <<worker, group, claimed, members>> PROVE Leaves(s)'
  BY <1>0, <1>1, <1>2 DEF Leaves
(* The steps of the other workers. *)
<1>3. ASSUME NEW t \in Tunnels \ {s}, NEW q, Moves(t, q),
             \A g \in Tunnels : members[g] \subseteq members'[g] /\ (claimed[g] => claimed'[g])
      PROVE  Leaves(s)'
  <2>1. worker'[s] = worker[s] /\ group'[s] = group[s]
    BY <1>0, <1>3 DEF Moves, TypeOK
  <2>2. group[s] \in Tunnels \cup {NoGroup}
    BY <1>0 DEF TypeOK
  <2> QED BY <1>0, <1>1, <1>3, <2>1, <2>2 DEF Leaves, InGroup
<1>4. ASSUME NEW t \in Tunnels, WorkerStep(t) PROVE Leaves(s)'
  <2>1. CASE ReceiveJoin(t) \/ ReceiveSingle(t) \/ ReceiveEof(t) \/ SingleCloses(t)
    <3>1. PICK q \in {"find", "single", "done"} :
            Moves(t, q) /\ (q = "done" => t \in closed'["external"])
      BY <1>0, <2>1, Ungrouped
    <3>2. UNCHANGED <<group, members, claimed>>
      BY <1>0, <2>1, Ungrouped DEF groupVars
    <3>3. CASE t = s
      BY <1>0, <3>1, <3>2, <3>3 DEF Moves, Leaves, TypeOK, InGroup
    <3> QED BY <1>3, <3>1, <3>2, <3>3
  <2>2. CASE JoinTimesOut(t) \/ DialService(t) \/ DialFails(t) \/ Follow(t)
    <3>1. /\ \/ worker[t] = "wait" /\ Moves(t, "close")
             \/ worker[t] = "dial" /\ Moves(t, "lead")
             \/ worker[t] = "dial" /\ Moves(t, "close")
             \/ worker[t] = "follow" /\ Moves(t, "done")
          /\ UNCHANGED <<group, members, claimed>>
      BY <1>0, <2>2, Waits DEF groupVars
    <3>2. CASE t = s
      BY <1>0, <3>1, <3>2 DEF Moves, Leaves, TypeOK, InGroup
    <3> QED BY <1>3, <3>1, <3>2
  <2>3. CASE LeaderEnds(t) \/ CloseGroup(t)
    <3>1. /\ members[group[t]] \subseteq closed'["external"]
          /\ UNCHANGED <<group, members, claimed>>
          /\ \/ worker[t] = "lead" /\ Moves(t, "leave")
             \/ worker[t] = "close" /\ Moves(t, "remove")
      BY <1>0, <2>3, Closes
    <3>2. CASE t = s
      BY <1>0, <3>1, <3>2 DEF Moves, Leaves, TypeOK, InGroup
    <3> QED BY <1>3, <3>1, <3>2
  <2>4. CASE LeaderReleases(t) \/ RemoveGroup(t)
    <3>1. /\ UNCHANGED <<group, members, claimed>>
          /\ \/ worker[t] = "leave" /\ Moves(t, "remove")
             \/ worker[t] = "remove" /\ Moves(t, "done")
      BY <1>0, <2>4, Releases, Removes
    <3>2. CASE t = s
      BY <1>0, <1>1, <3>1, <3>2 DEF Moves, Leaves, TypeOK, InGroup
    <3> QED BY <1>3, <3>1, <3>2
  <2>5. CASE ClaimLeader(t)
    <3>1. /\ worker[t] = "wait" /\ Moves(t, IF claimed[group[t]] THEN "follow" ELSE "dial")
          /\ UNCHANGED <<group, members>> /\ claimed' = [claimed EXCEPT ![group[t]] = TRUE]
      BY <1>0, <2>5, Claiming
    <3>2. CASE t = s
      <4>1. group[s] \in Tunnels /\ claimed'[group[s]] /\ s \in members[group[s]]
        BY <1>0, <3>1, <3>2 DEF Leaves, TypeOK, InGroup
      <4>2. worker'[s] \in {"follow", "dial"} /\ group'[s] = group[s]
        BY <1>0, <3>1, <3>2 DEF Moves, TypeOK
      <4> QED BY <3>1, <4>1, <4>2 DEF Leaves, InGroup
    <3>3. \A g \in Tunnels : claimed[g] => claimed'[g]
      BY <1>0, <3>1 DEF TypeOK
    <3> QED BY <1>3, <3>1, <3>2, <3>3
  <2>6. CASE AddLane(t)
    <3>1. /\ worker[t] = "add" /\ Moves(t, "wait") /\ UNCHANGED <<group, claimed>>
          /\ members' = [members EXCEPT ![group[t]] = members[group[t]] \cup {t}]
      BY <2>6, Joining
    <3>2. CASE t = s
      <4>1. s \in members'[group[s]]
        BY <1>0, <3>1, <3>2 DEF TypeOK, InGroup
      <4> QED BY <1>0, <3>1, <3>2, <4>1 DEF Moves, Leaves, TypeOK
    <3>3. \A g \in Tunnels : members[g] \subseteq members'[g]
      BY <1>0, <3>1 DEF TypeOK
    <3> QED BY <1>3, <3>1, <3>2, <3>3
  <2>7. CASE FindGroup(t)
    <3>1. Moves(t, "add") /\ UNCHANGED <<members, claimed>>
      BY <2>7, Finding
    <3>2. CASE t = s
      BY <1>0, <3>1, <3>2 DEF Moves, Leaves, TypeOK
    <3> QED BY <1>3, <3>1, <3>2
  <2> QED BY <1>4, <2>1, <2>2, <2>3, <2>4, <2>5, <2>6, <2>7 DEF WorkerStep
<1>5. ASSUME NEW u \in Users, UserStep(u) PROVE Leaves(s)'
  BY <1>2, <1>5, UserKeeps
<1>6. (\E t \in Tunnels : Cut(t)) \/ UNCHANGED vars => UNCHANGED <<worker, group, claimed, members>>
  BY DEF Cut, vars, groupVars
<1> QED BY <1>2, <1>4, <1>5, <1>6, StepCases

(* A claimed group is closed and its followers are woken by whoever dials, *)
(* leads or fails for it, and by nobody else before.                       *)
LEMMA OwedStep ==
  ASSUME BInv, RInv, [Next]_vars, NEW g \in Tunnels
  PROVE  Owed(g)'
<1>0. TypeOK /\ "external" \in Ends /\ Owed(g)
  BY DEF BInv, RInv, Ends
<1>1. closed["external"] \subseteq closed'["external"]
  BY <1>0, ClosedStays
<1>2. ASSUME claimed'[g] => /\ claimed[g] /\ members'[g] = members[g]
                            /\ done[g] => done'[g]
                            /\ SomeOf(g, Ending) => SomeOf(g, Ending)' \/ done'[g]
                            /\ SomeOf(g, Closing) => \/ SomeOf(g, Closing)'
                                                     \/ members'[g] \subseteq closed'["external"]
      PROVE  Owed(g)'
  <2>1. claimed'[g] => done'[g] \/ SomeOf(g, Ending)'
    BY <1>0, <1>2 DEF Owed
  <2>2. claimed'[g] => members'[g] \subseteq closed'["external"] \/ SomeOf(g, Closing)'
    BY <1>0, <1>1, <1>2 DEF Owed
  <2> QED BY <2>1, <2>2 DEF Owed
<1>3. ASSUME UNCHANGED <<worker, group, claimed, members, done>> PROVE Owed(g)'
  <2>1. \A P : SomeOf(g, P)' = SomeOf(g, P)
    BY <1>3 DEF SomeOf
  <2> QED BY <1>2, <1>3, <2>1
<1>4. ASSUME NEW t \in Tunnels, NEW q, Moves(t, q),
             UNCHANGED <<claimed, done>>, claimed[g] => members'[g] = members[g],
             worker[t] \in Ending => q \in Ending, worker[t] \in Closing => q \in Closing
      PROVE  Owed(g)'
  BY <1>0, <1>2, <1>4, SomeStay
<1>5. ASSUME NEW t \in Tunnels, WorkerStep(t) PROVE Owed(g)'
  <2>1. CASE ReceiveJoin(t) \/ ReceiveSingle(t) \/ ReceiveEof(t) \/ SingleCloses(t)
    <3>1. PICK q \in {"find", "single", "done"} : Moves(t, q)
      BY <1>0, <2>1, Ungrouped
    <3>2. worker[t] \in {"header", "single"} /\ UNCHANGED <<claimed, members, done>>
      BY <1>0, <2>1, Ungrouped DEF groupVars
    <3> QED BY <1>4, <3>1, <3>2 DEF Ending, Closing
  <2>2. CASE JoinTimesOut(t) \/ DialService(t) \/ DialFails(t) \/ Follow(t)
    BY <1>0, <1>4, <2>2, Waits DEF groupVars, Ending, Closing
  <2>3. CASE LeaderEnds(t) \/ CloseGroup(t)
    <3>1. /\ members[group[t]] \subseteq closed'["external"]
          /\ UNCHANGED <<group, members, claimed>>
          /\ \/ worker[t] = "lead" /\ Moves(t, "leave") /\ done' = done
             \/ /\ worker[t] = "close" /\ Moves(t, "remove")
                /\ done' = [done EXCEPT ![group[t]] = TRUE]
      BY <1>0, <2>3, Closes
    <3>2. (done[g] => done'[g]) /\ (worker[t] = "close" /\ group[t] = g => done'[g])
      BY <1>0, <3>1 DEF TypeOK
    <3>3. SomeOf(g, Ending) => SomeOf(g, Ending)' \/ done'[g]
      BY <1>0, <3>1, <3>2, SomeStay DEF Ending
    <3>4. SomeOf(g, Closing) => SomeOf(g, Closing)' \/ members'[g] \subseteq closed'["external"]
      BY <1>0, <3>1, SomeStay
    <3> QED BY <1>2, <3>1, <3>2, <3>3, <3>4
  <2>4. CASE LeaderReleases(t)
    <3>1. /\ worker[t] = "leave" /\ Moves(t, "remove")
          /\ UNCHANGED <<group, members, claimed>> /\ done' = [done EXCEPT ![group[t]] = TRUE]
      BY <1>0, <2>4, Releases
    <3>2. (done[g] => done'[g]) /\ (group[t] = g => done'[g])
      BY <1>0, <3>1 DEF TypeOK
    <3>3. SomeOf(g, Ending) => SomeOf(g, Ending)' \/ done'[g]
      BY <1>0, <3>1, <3>2, SomeStay
    <3>4. SomeOf(g, Closing) => SomeOf(g, Closing)'
      BY <1>0, <3>1, SomeStay DEF Closing
    <3> QED BY <1>2, <3>1, <3>2, <3>3, <3>4
  <2>5. CASE RemoveGroup(t)
    BY <1>0, <1>4, <2>5, Removes DEF Ending, Closing
  <2>6. CASE ClaimLeader(t)
    <3>1. /\ worker[t] = "wait" /\ Moves(t, IF claimed[group[t]] THEN "follow" ELSE "dial")
          /\ UNCHANGED <<group, members, done>> /\ claimed' = [claimed EXCEPT ![group[t]] = TRUE]
      BY <1>0, <2>6, Claiming
    <3>2. CASE group[t] = g /\ ~claimed[g]
      <4>1. Moves(t, "dial") /\ group'[t] = g
        BY <3>1, <3>2
      <4>2. SomeOf(g, Ending)' /\ SomeOf(g, Closing)'
        BY <1>0, <4>1, ThisOne DEF Ending, Closing
      <4> QED BY <4>2 DEF Owed
    <3>3. CASE ~(group[t] = g /\ ~claimed[g])
      <4>1. claimed'[g] => claimed[g]
        BY <1>0, <3>1, <3>3 DEF TypeOK
      <4>2. SomeOf(g, Ending) => SomeOf(g, Ending)'
        BY <1>0, <3>1, SomeStay DEF Ending
      <4>3. SomeOf(g, Closing) => SomeOf(g, Closing)'
        BY <1>0, <3>1, SomeStay DEF Closing
      <4> QED BY <1>2, <3>1, <4>1, <4>2, <4>3
    <3> QED BY <3>2, <3>3
  <2>7. CASE AddLane(t)
    BY <1>0, <1>4, <2>7, Joining DEF Ending, Closing
  <2>8. CASE FindGroup(t)
    BY <1>0, <1>4, <2>8, Finding DEF Ending, Closing
  <2> QED BY <1>5, <2>1, <2>2, <2>3, <2>4, <2>5, <2>6, <2>7, <2>8 DEF WorkerStep
<1>6. ASSUME NEW u \in Users, UserStep(u) PROVE Owed(g)'
  BY <1>3, <1>6, UserKeeps
<1>7. (\E t \in Tunnels : Cut(t)) \/ UNCHANGED vars
        => UNCHANGED <<worker, group, claimed, members, done>>
  BY DEF Cut, vars, groupVars
<1> QED BY <1>3, <1>5, <1>6, <1>7, StepCases

(* A group that can be found is removed by a worker that holds it.         *)
LEMMA RemovedStep ==
  ASSUME BInv, RInv, [Next]_vars, NEW u \in Users
  PROVE  Removed(u)'
<1>0. TypeOK /\ Removed(u) /\ NoGroup \notin Tunnels /\ current[u] \in Tunnels \cup {NoGroup}
  BY NoGroupAssumption DEF BInv, RInv, TypeOK
<1> DEFINE Holding == {"add", "wait"} \cup Removing
<1>1. ASSUME UNCHANGED <<worker, group, claimed, current>> PROVE Removed(u)'
  <2>1. \A g, P : SomeOf(g, P)' = SomeOf(g, P)
    BY <1>1 DEF SomeOf
  <2> QED BY <1>0, <1>1, <2>1 DEF Removed
<1>2. ASSUME NEW t \in Tunnels, NEW q, Moves(t, q), current'[u] = current[u],
             current[u] # NoGroup => (claimed'[current[u]] => claimed[current[u]]),
             worker[t] \in Holding /\ group[t] = current[u] => q \in Holding,
             worker[t] \in Removing /\ group[t] = current[u] => q \in Removing
      PROVE  Removed(u)'
  <2> SUFFICES ASSUME current[u] # NoGroup PROVE Removed(u)'
    BY <1>2 DEF Removed
  <2>1. PICK g \in Tunnels : g = current[u] /\ g # NoGroup
    BY <1>0
  <2>2. SomeOf(g, Holding) /\ (claimed[g] => SomeOf(g, Removing))
    BY <1>0, <2>1 DEF Removed
  <2>3. SomeOf(g, Holding)'
    BY <1>0, <1>2, <2>1, <2>2, SomeStay
  <2>4. claimed'[g] => SomeOf(g, Removing)'
    BY <1>0, <1>2, <2>1, <2>2, SomeStay
  <2> QED BY <1>2, <2>1, <2>3, <2>4 DEF Removed
<1>3. ASSUME NEW t \in Tunnels, WorkerStep(t) PROVE Removed(u)'
  <2> USE DEF Removing
  <2>1. CASE ReceiveJoin(t) \/ ReceiveSingle(t) \/ ReceiveEof(t) \/ SingleCloses(t)
    <3>1. PICK q \in {"find", "single", "done"} : Moves(t, q)
      BY <1>0, <2>1, Ungrouped
    <3>2. worker[t] \in {"header", "single"} /\ UNCHANGED <<claimed, current>>
      BY <1>0, <2>1, Ungrouped DEF groupVars
    <3> QED BY <1>2, <3>1, <3>2
  <2>2. CASE JoinTimesOut(t) \/ DialService(t) \/ DialFails(t) \/ Follow(t)
    BY <1>0, <1>2, <2>2, Waits DEF groupVars
  <2>3. CASE LeaderEnds(t) \/ CloseGroup(t)
    <3>1. /\ UNCHANGED <<claimed, current>>
          /\ \/ worker[t] = "lead" /\ Moves(t, "leave")
             \/ worker[t] = "close" /\ Moves(t, "remove")
      BY <1>0, <2>3, Closes
    <3> QED BY <1>2, <3>1
  <2>4. CASE LeaderReleases(t)
    BY <1>0, <1>2, <2>4, Releases
  <2>5. CASE RemoveGroup(t)
    <3>1. /\ worker[t] = "remove" /\ Moves(t, "done") /\ UNCHANGED <<group, claimed>>
          /\ current' = [current EXCEPT ![Owner(t)] =
               IF current[Owner(t)] = group[t] THEN NoGroup ELSE current[Owner(t)]]
      BY <1>0, <2>5, Removes
    <3>2. inbox[t] = "join" /\ inbox[t] # "none" /\ worker[t] \in InGroup
      BY <3>1 DEF BInv, WorkersFollow, InGroup
    <3>3. Owner(t) \in Users /\ group[t] \in Lanes(Owner(t))
      BY <3>2, WorkerServes
    <3>4. CASE group[t] = current[u]
      <4>1. u = Owner(t)
        <5>1. group[t] \in Tunnels /\ group[t] \in Lanes(u)
          BY <1>0, <3>2, <3>4, WorkerServes DEF BInv, GroupsOfUser
        <5> QED BY <3>3, <5>1 DEF BInv, LanesApart
      <4>2. current'[u] = NoGroup
        BY <1>0, <3>1, <3>4, <4>1 DEF TypeOK
      <4> QED BY <4>2 DEF Removed
    <3>5. CASE group[t] # current[u]
      <4>1. current'[u] = current[u]
        BY <1>0, <3>1, <3>5 DEF TypeOK
      <4> QED BY <1>2, <3>1, <3>5, <4>1
    <3> QED BY <3>4, <3>5
  <2>6. CASE ClaimLeader(t)
    <3>1. /\ worker[t] = "wait" /\ Moves(t, IF claimed[group[t]] THEN "follow" ELSE "dial")
          /\ UNCHANGED <<group, current>> /\ claimed' = [claimed EXCEPT ![group[t]] = TRUE]
      BY <1>0, <2>6, Claiming
    <3>2. CASE group[t] # current[u]
      <4>1. current[u] # NoGroup => claimed'[current[u]] = claimed[current[u]]
        BY <1>0, <3>1, <3>2 DEF TypeOK
      <4> QED BY <1>2, <3>1, <3>2, <4>1
    <3>3. CASE group[t] = current[u]
      <4> SUFFICES ASSUME current[u] # NoGroup PROVE Removed(u)'
        BY <3>1 DEF Removed
      <4>1. PICK g \in Tunnels : g = current[u]
        BY <1>0
      <4>2. CASE claimed[g]
        <5>1. SomeOf(g, Removing)
          BY <1>0, <4>1, <4>2 DEF Removed
        <5>2. SomeOf(g, Removing)'
          BY <1>0, <3>1, <5>1, SomeStay
        <5> QED BY <3>1, <4>1, <5>2 DEF Removed, SomeOf
      <4>3. CASE ~claimed[g]
        <5>1. Moves(t, "dial") /\ group'[t] = g
          BY <3>1, <3>3, <4>1, <4>3
        <5>2. SomeOf(g, Removing)'
          BY <1>0, <5>1, ThisOne
        <5> QED BY <3>1, <4>1, <5>2 DEF Removed, SomeOf
      <4> QED BY <4>2, <4>3
    <3> QED BY <3>2, <3>3
  <2>7. CASE AddLane(t)
    BY <1>0, <1>2, <2>7, Joining
  <2>8. CASE FindGroup(t)
    <3>1. /\ worker[t] = "find" /\ group[t] = NoGroup /\ Moves(t, "add")
          /\ claimed' = claimed /\ group'[t] = current'[Owner(t)] /\ ~claimed[t]
          /\ Owner(t) \in Users
          /\ current' = [current EXCEPT ![Owner(t)] =
               IF current[Owner(t)] = NoGroup THEN t ELSE current[Owner(t)]]
      BY <2>8, Finding
    <3>2. CASE u = Owner(t) /\ current[u] = NoGroup
      <4>1. current'[u] = t /\ group'[t] = t
        BY <1>0, <3>1, <3>2 DEF TypeOK
      <4>2. SomeOf(t, Holding)'
        BY <1>0, <3>1, <4>1, ThisOne
      <4> QED BY <3>1, <4>1, <4>2 DEF Removed
    <3>3. CASE ~(u = Owner(t) /\ current[u] = NoGroup)
      <4>1. current'[u] = current[u]
        BY <1>0, <3>1, <3>3 DEF TypeOK
      <4> QED BY <1>2, <3>1, <4>1
    <3> QED BY <3>2, <3>3
  <2> QED BY <1>3, <2>1, <2>2, <2>3, <2>4, <2>5, <2>6, <2>7, <2>8 DEF WorkerStep
<1>4. ASSUME NEW v \in Users, UserStep(v) PROVE Removed(u)'
  BY <1>1, <1>4, UserKeeps
<1>5. (\E t \in Tunnels : Cut(t)) \/ UNCHANGED vars => UNCHANGED <<worker, group, claimed, current>>
  BY DEF Cut, vars, groupVars
<1> QED BY <1>1, <1>3, <1>4, <1>5, StepCases

LEMMA RStep == BInv /\ RInv /\ [Next]_vars => RInv'
BY LeavesStep, OwedStep, RemovedStep, LanesClosedStep DEF RInv

(* A worker that holds a group named after a lane of u serves u.           *)
LEMMA HolderServes ==
  ASSUME BInv, NEW u \in Users, NEW g \in Lanes(u), NEW P, SomeOf(g, P)
  PROVE  \E l \in Lanes(u) : worker[l] \in P
<1>1. PICK l \in Tunnels : group[l] = g /\ worker[l] \in P
  BY DEF SomeOf
<1>2. inbox[l] # "none"
  BY <1>1, LanesAreTunnels, NoGroupAssumption DEF BInv, WorkersFollow
<1>3. PICK v \in Users : l \in Lanes(v)
  BY <1>2 DEF BInv, Headers
<1>4. g \in Lanes(v)
  BY <1>1, <1>3, LanesAreTunnels, NoGroupAssumption DEF BInv, GroupsOfUser
<1>5. v = u
  BY <1>4 DEF BInv, LanesApart
<1> QED BY <1>1, <1>3, <1>5

(* The safety behind LanesReleased, for any users, tunnels, timeouts and   *)
(* losses: whoever waits for a leader's done event is owed it by a worker  *)
(* that can go on, and when the threads of a user have ended they have     *)
(* closed its lanes at both ends and removed its group.                    *)
THEOREM NobodyIsLeftBehind == Spec => []NobodyLeftBehind
<1>1. BInv /\ RInv => NobodyLeftBehind
  <2> SUFFICES ASSUME BInv, RInv PROVE NobodyLeftBehind
    OBVIOUS
  <2>1. ASSUME NEW t \in Tunnels, worker[t] = "follow"
        PROVE  done[group[t]] \/ SomeOf(group[t], Ending)
    <3>1. claimed[group[t]] /\ group[t] \in Tunnels
      BY <2>1 DEF BInv, RInv, TypeOK, WorkersFollow, InGroup, Leaves
    <3> QED BY <3>1 DEF RInv, Owed
  <2>2. ASSUME NEW u \in Users, \A t \in Lanes(u) : worker[t] = "done"
        PROVE  current[u] = NoGroup /\ Lanes(u) \subseteq closed["external"]
    <3>1. ASSUME NEW g \in Lanes(u), NEW P, "done" \notin P, SomeOf(g, P) PROVE FALSE
      BY <2>2, <3>1, HolderServes
    <3>2. current[u] = NoGroup
      <4> SUFFICES ASSUME current[u] # NoGroup PROVE FALSE
        OBVIOUS
      <4>1. current[u] \in Lanes(u) /\ SomeOf(current[u], {"add", "wait"} \cup Removing)
        BY DEF BInv, RInv, GroupsOfUser, Removed
      <4> QED BY <3>1, <4>1 DEF Removing
    <3>3. ASSUME NEW t \in Lanes(u) PROVE t \in closed["external"]
      <4>1. t \in Tunnels /\ worker[t] = "done" /\ Leaves(t)
        BY <2>2, LanesAreTunnels DEF BInv, RInv
      <4>2. CASE group[t] # NoGroup /\ claimed[group[t]]
        <5>1. group[t] \in Lanes(u) /\ group[t] \in Tunnels
          BY <4>1, <4>2 DEF BInv, GroupsOfUser, TypeOK
        <5>2. PICK v \in Users : group[t] \in Lanes(v) /\ members[group[t]] = Lanes(v)
          BY <4>2, <5>1 DEF BInv, Claims
        <5>3. members[group[t]] = Lanes(u)
          BY <5>1, <5>2 DEF BInv, LanesApart
        <5>4. members[group[t]] \subseteq closed["external"] \/ SomeOf(group[t], Closing)
          BY <4>2, <5>1 DEF RInv, Owed
        <5> QED BY <3>1, <5>1, <5>3, <5>4 DEF Closing
      <4> QED BY <4>1, <4>2 DEF Leaves
    <3> QED BY <3>2, <3>3
  <2>3. \A u \in Users : user[u] = "done" => Lanes(u) \subseteq closed["internal"]
    BY DEF RInv, LanesClosed
  <2> QED BY <2>1, <2>2, <2>3 DEF NobodyLeftBehind
<1>2. GInv => BInv
  BY DEF GInv
<1> QED BY <1>1, <1>2, RInit, RStep, GroupInvariant, PTL DEF Spec
=============================================================================
