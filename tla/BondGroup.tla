----------------------------- MODULE BondGroup -----------------------------
(***************************************************************************)
(* The rendezvous of a bonded session (P00RIJA.py).  The internal node     *)
(* takes reserve tunnels from its pool for a user and writes a join header *)
(* on each; on the external node every tunnel has a worker of its own,     *)
(* which joins the PendingBondGroup named in the header, waits for the     *)
(* others, and either leads (dials the service and runs bonded_bridge over *)
(* all lanes) or waits for the leader.  bonded_bridge itself is the module *)
(* BondedBridge; here it only begins, ends and closes its lanes.           *)
(*                                                                         *)
(* A group object is named after the tunnel whose worker created it.  The  *)
(* random group_id is represented by the user; statistics other than       *)
(* bonded_lanes_in_use, and the direct dial to the peer when the pool is   *)
(* empty, are left out.  A worker that returns dials a new tunnel, which   *)
(* is another member of Tunnels.                                           *)
(***************************************************************************)
EXTENDS Integers, Sequences, FiniteSets, SequencesExt

CONSTANTS
  Users,       (* Connections accepted on a user port.                     *)
  Tunnels,     (* Reverse tunnels, each with a worker on the external node.*)
  NoGroup,     (* No group object.                                         *)
  Requested,   (* bonding_max_lanes of the link.                           *)
  Budget,      (* max_workers of the link.                                 *)
  LaneSteps,   (* BONDING_LANE_STEPS.                                      *)
  Cuttable     (* Tunnels whose connection may be cut.                     *)

ASSUME NoGroupAssumption == NoGroup \notin Tunnels
ASSUME SizesAssumption   == Requested \in Nat /\ Budget \in Nat \ {0} /\ LaneSteps \subseteq Nat

Ends == {"internal", "external"}

VARIABLES
  (* Internal node: handle_user, one thread per user. *)
  user,     (* "new", "reserve", "join", "bridge", "single" or "done".     *)
  want,     (* desired_lanes.                                              *)
  lanes,    (* reserved_lanes, in the order of their index.                *)
  joins,    (* Join headers sent so far.                                   *)
  pool,     (* Reserve tunnels waiting for a user.                         *)
  (* Both nodes. *)
  in_use,   (* link_data["bonded_lanes_in_use"].                           *)
  closed,   (* [end -> tunnels that end has closed].                       *)
  cut,      (* Tunnels whose connection is lost.                           *)
  inbox,    (* The header under way or read: "none", "join" or "single".   *)
  (* External node: reverse_link_worker, one thread per tunnel. *)
  worker,   (* "header", "find", "add", "wait", "dial", "lead", "leave",   *)
            (* "close", "remove", "follow", "single" or "done".            *)
  group,    (* The group object the worker holds.                          *)
  current,  (* bond_groups: the object found under the user's key.         *)
  members,  (* group.lanes, as a set.                                      *)
  claimed, done,
  dials     (* History: services dialled for a user.                       *)

intVars   == <<user, want, lanes, joins, pool>>
groupVars == <<current, members, claimed, done>>
vars == <<intVars, in_use, closed, cut, inbox, worker, group, groupVars, dials>>

Init ==
  /\ user = [u \in Users |-> "new"] /\ want = [u \in Users |-> 0]
  /\ lanes = [u \in Users |-> <<>>] /\ joins = [u \in Users |-> 0]
  /\ pool = Tunnels
  /\ in_use = [e \in Ends |-> 0] /\ closed = [e \in Ends |-> {}] /\ cut = {}
  /\ inbox = [t \in Tunnels |-> "none"]
  /\ worker = [t \in Tunnels |-> "header"] /\ group = [t \in Tunnels |-> NoGroup]
  /\ current = [u \in Users |-> NoGroup] /\ members = [g \in Tunnels |-> {}]
  /\ claimed = [g \in Tunnels |-> FALSE] /\ done = [g \in Tunnels |-> FALSE]
  /\ dials = [u \in Users |-> 0]

Floor(n) == IF n < 0 THEN 0 ELSE n
Lanes(u) == ToSet(lanes[u])
Owner(t) == CHOOSE u \in Users : t \in Lanes(u)
Down(t)  == t \in closed["internal"] \cup closed["external"] \cup cut
Close(e, S) == closed' = [closed EXCEPT ![e] = @ \cup S]

-----------------------------------------------------------------------------
(* The internal node.                                                      *)

(* adaptive_bond_lane_count.                                               *)
Active == Cardinality({u \in Users : user[u] \in {"bridge", "single"}})
Capacity ==
  LET fair_share == Budget \div (Active + 1)
      limits == {Requested, Cardinality(pool), Budget - in_use["internal"],
                 IF fair_share < 1 THEN 1 ELSE fair_share}
  IN CHOOSE n \in limits : \A m \in limits : n <= m
LaneCount ==
  LET fits == {n \in LaneSteps : n <= Capacity}
  IN IF Active >= Budget \/ fits = {} THEN 1
     ELSE CHOOSE n \in fits : \A m \in fits : m <= n

CountLanes(u) ==
  /\ user[u] = "new"
  /\ want' = [want EXCEPT ![u] = LaneCount]
  /\ user' = [user EXCEPT ![u] = "reserve"]
  /\ UNCHANGED <<lanes, joins, pool, in_use, closed, cut, inbox, worker, group,
                 groupVars, dials>>

(* One turn of the loop of reserve_bond_lanes, or, when that found none,   *)
(* of the loop of the per-user fallback: a dead candidate is closed.       *)
TakeLane(u, t) ==
  /\ user[u] = "reserve" /\ Len(lanes[u]) < want[u] /\ t \in pool
  /\ pool' = pool \ {t}
  /\ IF Down(t)
     THEN Close("internal", {t}) /\ UNCHANGED lanes
     ELSE lanes' = [lanes EXCEPT ![u] = Append(@, t)] /\ UNCHANGED closed
  /\ UNCHANGED <<user, want, joins, in_use, cut, inbox, worker, group, groupVars, dials>>

(* The loop ends with its lanes, or because the pool stayed empty.         *)
Reserved(u) == Len(lanes[u]) = want[u] \/ pool = {}

StartBond(u) ==
  /\ user[u] = "reserve" /\ Reserved(u) /\ Len(lanes[u]) >= 2
  /\ in_use' = [in_use EXCEPT !["internal"] = @ + Len(lanes[u])]
  /\ user' = [user EXCEPT ![u] = "join"]
  /\ UNCHANGED <<want, lanes, joins, pool, closed, cut, inbox, worker, group,
                 groupVars, dials>>

SendJoin(u) ==
  LET t == lanes[u][joins[u] + 1] IN
  /\ user[u] = "join" /\ joins[u] < Len(lanes[u])
  /\ inbox' = [inbox EXCEPT ![t] = "join"]
  /\ joins' = [joins EXCEPT ![u] = @ + 1]
  /\ user' = [user EXCEPT ![u] = IF joins'[u] = Len(lanes[u]) THEN "bridge" ELSE @]
  /\ UNCHANGED <<want, lanes, pool, in_use, closed, cut, worker, group, groupVars, dials>>

(* The finally of the bonded branch.                                       *)
Unbond(u) ==
  in_use' = [in_use EXCEPT !["internal"] = Floor(@ - Len(lanes[u]))]

(* Mutant: the failed join does not give its lanes back.                   *)
JoinFailsKeeps(u) ==
  /\ user[u] = "join" /\ Down(lanes[u][joins[u] + 1])
  /\ Close("internal", Lanes(u)) /\ UNCHANGED in_use
  /\ user' = [user EXCEPT ![u] = "done"]
  /\ UNCHANGED <<want, lanes, joins, pool, cut, inbox, worker, group, groupVars, dials>>

(* sendall raises on a lane that is down: all lanes and u are closed.      *)
JoinFails(u) ==
  /\ user[u] = "join" /\ Down(lanes[u][joins[u] + 1])
  /\ Close("internal", Lanes(u)) /\ Unbond(u)
  /\ user' = [user EXCEPT ![u] = "done"]
  /\ UNCHANGED <<want, lanes, joins, pool, cut, inbox, worker, group, groupVars, dials>>

(* bonded_bridge returns, its lanes closed.                                *)
BridgeEnds(u) ==
  /\ user[u] = "bridge"
  /\ Close("internal", Lanes(u)) /\ Unbond(u)
  /\ user' = [user EXCEPT ![u] = "done"]
  /\ UNCHANGED <<want, lanes, joins, pool, cut, inbox, worker, group, groupVars, dials>>

(* The per-user fallback over a single tunnel.                             *)
SendSingle(u) ==
  /\ user[u] = "reserve" /\ Reserved(u) /\ Len(lanes[u]) = 1
  /\ IF Down(lanes[u][1])
     THEN /\ Close("internal", Lanes(u)) /\ UNCHANGED inbox
          /\ user' = [user EXCEPT ![u] = "done"]
     ELSE /\ inbox' = [inbox EXCEPT ![lanes[u][1]] = "single"] /\ UNCHANGED closed
          /\ user' = [user EXCEPT ![u] = "single"]
  /\ UNCHANGED <<want, lanes, joins, pool, in_use, cut, worker, group, groupVars, dials>>

SingleEnds(u) ==
  /\ user[u] = "single"
  /\ Close("internal", Lanes(u))
  /\ user' = [user EXCEPT ![u] = "done"]
  /\ UNCHANGED <<want, lanes, joins, pool, in_use, cut, inbox, worker, group,
                 groupVars, dials>>

(* No tunnel: the user's connection is closed.                             *)
GiveUp(u) ==
  /\ user[u] = "reserve" /\ pool = {} /\ lanes[u] = <<>>
  /\ user' = [user EXCEPT ![u] = "done"]
  /\ UNCHANGED <<want, lanes, joins, pool, in_use, closed, cut, inbox, worker,
                 group, groupVars, dials>>

-----------------------------------------------------------------------------
(* The external node.                                                      *)

Goto(t, pc) == worker' = [worker EXCEPT ![t] = pc]

ReceiveJoin(t) ==
  /\ worker[t] = "header" /\ inbox[t] = "join"
  /\ Goto(t, "find")
  /\ UNCHANGED <<intVars, in_use, closed, cut, inbox, group, groupVars, dials>>

ReceiveSingle(t) ==
  /\ worker[t] = "header" /\ inbox[t] = "single"
  /\ Goto(t, "single")
  /\ dials' = [dials EXCEPT ![Owner(t)] = @ + 1]
  /\ UNCHANGED <<intVars, in_use, closed, cut, inbox, group, groupVars>>

(* recv_exact finds the tunnel closed; a cut may destroy a header.         *)
ReceiveEof(t) ==
  /\ worker[t] = "header"
  /\ \/ t \in cut
     \/ inbox[t] = "none" /\ t \in closed["internal"]
  /\ Close("external", {t}) /\ Goto(t, "done")
  /\ UNCHANGED <<intVars, in_use, cut, inbox, group, groupVars, dials>>

(* dial_target_service fails, or bridge returns.                           *)
SingleCloses(t) ==
  /\ worker[t] = "single"
  /\ Close("external", {t}) /\ Goto(t, "done")
  /\ UNCHANGED <<intVars, in_use, cut, inbox, group, groupVars, dials>>

(* join_pending_bond_group under bond_groups_lock.                         *)
FindGroup(t) ==
  LET u == Owner(t) IN
  /\ worker[t] = "find"
  /\ current' = [current EXCEPT ![u] = IF @ = NoGroup THEN t ELSE @]
  /\ group' = [group EXCEPT ![t] = current'[u]]
  /\ Goto(t, "add")
  /\ UNCHANGED <<intVars, in_use, closed, cut, inbox, members, claimed, done, dials>>

(* add_lane, after bond_groups_lock has been released.                     *)
AddLane(t) ==
  /\ worker[t] = "add"
  /\ members' = [members EXCEPT ![group[t]] = @ \cup {t}]
  /\ Goto(t, "wait")
  /\ UNCHANGED <<intVars, in_use, closed, cut, inbox, group, current, claimed, done, dials>>

(* Mutant: ready one lane early.                                           *)
ReadyEarly(t) == Cardinality(members[group[t]]) >= Len(lanes[Owner(t)]) - 1

Ready(t) == Cardinality(members[group[t]]) = Len(lanes[Owner(t)])

(* ready.wait(BONDING_JOIN_TIMEOUT) returns False.                         *)
JoinTimesOut(t) ==
  /\ worker[t] = "wait" /\ ~Ready(t)
  /\ Goto(t, "close")
  /\ UNCHANGED <<intVars, in_use, closed, cut, inbox, group, groupVars, dials>>

(* Mutant: leader_claimed is set but not tested.                           *)
ClaimAlways(t) ==
  /\ worker[t] = "wait" /\ Ready(t)
  /\ claimed' = [claimed EXCEPT ![group[t]] = TRUE]
  /\ Goto(t, "dial")
  /\ UNCHANGED <<intVars, in_use, closed, cut, inbox, group, current, members, done, dials>>

ClaimLeader(t) ==
  /\ worker[t] = "wait" /\ Ready(t)
  /\ claimed' = [claimed EXCEPT ![group[t]] = TRUE]
  /\ Goto(t, IF claimed[group[t]] THEN "follow" ELSE "dial")
  /\ UNCHANGED <<intVars, in_use, closed, cut, inbox, group, current, members, done, dials>>

DialService(t) ==
  /\ worker[t] = "dial"
  /\ dials' = [dials EXCEPT ![Owner(t)] = @ + 1]
  /\ in_use' = [in_use EXCEPT !["external"] = @ + Cardinality(members[group[t]])]
  /\ Goto(t, "lead")
  /\ UNCHANGED <<intVars, closed, cut, inbox, group, groupVars>>

DialFails(t) ==
  /\ worker[t] = "dial"
  /\ Goto(t, "close")
  /\ UNCHANGED <<intVars, in_use, closed, cut, inbox, group, groupVars, dials>>

(* bonded_bridge returns: lanes closed, counters restored.                 *)
LeaderEnds(t) ==
  /\ worker[t] = "lead"
  /\ Close("external", members[group[t]])
  /\ in_use' = [in_use EXCEPT !["external"] = Floor(@ - Cardinality(members[group[t]]))]
  /\ Goto(t, "leave")
  /\ UNCHANGED <<intVars, cut, inbox, group, groupVars, dials>>

(* Mutant: the leader removes the group without done.set().                *)
LeaderForgets(t) ==
  /\ worker[t] = "leave"
  /\ Goto(t, "remove")
  /\ UNCHANGED <<intVars, in_use, closed, cut, inbox, group, groupVars, dials>>

LeaderReleases(t) ==
  /\ worker[t] = "leave"
  /\ done' = [done EXCEPT ![group[t]] = TRUE]
  /\ Goto(t, "remove")
  /\ UNCHANGED <<intVars, in_use, closed, cut, inbox, group, current, members, claimed, dials>>

(* group.close() of a worker that failed.                                  *)
CloseGroup(t) ==
  /\ worker[t] = "close"
  /\ Close("external", members[group[t]])
  /\ done' = [done EXCEPT ![group[t]] = TRUE]
  /\ Goto(t, "remove")
  /\ UNCHANGED <<intVars, in_use, cut, inbox, group, current, members, claimed, dials>>

(* remove_pending_bond_group; a worker that failed also closes its tunnel, *)
(* which is in the group and closed by then.                               *)
RemoveGroup(t) ==
  LET u == Owner(t) IN
  /\ worker[t] = "remove"
  /\ current' = [current EXCEPT ![u] = IF @ = group[t] THEN NoGroup ELSE @]
  /\ Goto(t, "done")
  /\ UNCHANGED <<intVars, in_use, closed, cut, inbox, group, members, claimed, done, dials>>

Follow(t) ==
  /\ worker[t] = "follow" /\ done[group[t]]
  /\ Goto(t, "done")
  /\ UNCHANGED <<intVars, in_use, closed, cut, inbox, group, groupVars, dials>>

-----------------------------------------------------------------------------

Cut(t) ==
  /\ t \in Cuttable \ cut
  /\ cut' = cut \cup {t}
  /\ UNCHANGED <<intVars, in_use, closed, inbox, worker, group, groupVars, dials>>

(* A bridge must end when one of its tunnels is down; while they are all   *)
(* up the applications decide.                                             *)
UserThread(u) ==
  \/ CountLanes(u) \/ \E t \in Tunnels : TakeLane(u, t)
  \/ StartBond(u) \/ SendJoin(u) \/ JoinFails(u) \/ SendSingle(u) \/ GiveUp(u)
  \/ /\ \E t \in Lanes(u) : Down(t)
     /\ BridgeEnds(u) \/ SingleEnds(u)

Worker(t) ==
  \/ ReceiveJoin(t) \/ ReceiveSingle(t) \/ ReceiveEof(t)
  \/ FindGroup(t) \/ AddLane(t) \/ JoinTimesOut(t) \/ ClaimLeader(t)
  \/ DialService(t) \/ DialFails(t) \/ LeaderReleases(t)
  \/ CloseGroup(t) \/ RemoveGroup(t) \/ Follow(t)
  \/ Down(t) /\ SingleCloses(t)
  \/ LeaderEnds(t) /\ \E l \in members[group[t]] : Down(l)

Applications ==
  \/ \E u \in Users : BridgeEnds(u) \/ SingleEnds(u)
  \/ \E t \in Tunnels : LeaderEnds(t) \/ SingleCloses(t)

Threads == (\E u \in Users : UserThread(u)) \/ (\E t \in Tunnels : Worker(t))

Next == Threads \/ Applications \/ \E t \in Tunnels : Cut(t)

Spec == Init /\ [][Next]_vars
FairSpec == Spec /\ WF_vars(Threads)

-----------------------------------------------------------------------------

(* A user is connected to its service at most once, although a group that  *)
(* timed out is replaced by a second object under the same key when a late *)
(* lane arrives, and all workers of a group try to lead.                   *)
OneServicePerUser == \A u \in Users : dials[u] <= 1

(* A leader bridges the lanes the user reserved, all of them, even when    *)
(* the wait of another worker expired before the last one arrived.         *)
LeaderHasTheLanes ==
  \A t \in Tunnels : worker[t] = "lead" => members[group[t]] = Lanes(Owner(t))

(* The counter that bounds new bonds (adaptive_bond_lane_count) is, at     *)
(* each end, the number of lanes of the bonds in progress, on every path.  *)
Bonded(e) == IF e = "internal"
             THEN UNION {Lanes(u) : u \in {v \in Users : user[v] \in {"join", "bridge"}}}
             ELSE UNION {members[group[t]] : t \in {l \in Tunnels : worker[l] = "lead"}}
CountersExact == \A e \in Ends : in_use[e] = Cardinality(Bonded(e))

(* When a user has gone, every worker that holds one of its lanes is       *)
(* released, both ends of every lane are closed, and no group is left      *)
(* behind: whichever of the join, the timeout and the loss came first.     *)
LanesReleased ==
  <>[](\A u \in Users : user[u] = "done" =>
         /\ \A t \in Lanes(u) :
              worker[t] = "done" /\ t \in closed["internal"] \cap closed["external"]
         /\ current[u] = NoGroup)
=============================================================================
