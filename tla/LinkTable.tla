----------------------------- MODULE LinkTable -----------------------------
(***************************************************************************)
(* The table of links of the panel: the requests of links_api.py and the   *)
(* deletion of a node, each in a thread of its own, beside payload tests   *)
(* (handle_payload_test), which give a link a temporary port mapping while *)
(* they run.  A refused request changes nothing and is no step.  Left out  *)
(* are a link's other settings, the order in which links are shown, and    *)
(* the ports in use that the nodes report, which only refuse more.         *)
(***************************************************************************)
EXTENDS Naturals, FiniteSets

CONSTANTS
  LinkIds,     (* Ids, each given to one link only (uuid4).                *)
  Nodes,
  Pairs,       (* The pairs of nodes of fitting roles, as sets.            *)
  BridgePairs, (* Pairs of a bridge and a sync port.                       *)
  UserPorts,
  Admins,      (* Requests the panel serves at a time.                     *)
  Tests,       (* Payload tests it serves at a time, none of them "user".  *)
  MaxStops     (* Bound: how often the panel's process ends.               *)

VARIABLES
  links,       (* db.data["links"].                                        *)
  nodes,       (* db.data["nodes"].                                        *)
  issued,      (* Ids given so far.                                        *)
  admin,       (* Per request: the link it has checked and not yet stored. *)
  test,        (* Per test: whether its mapping is in the table; kept:     *)
               (* no administrator has touched the mapping or its link.    *)
  stops

tableVars == <<links, nodes, issued, admin, test, stops>>

NoEntry == [nodes |-> {}, bridge |-> {}, maps |-> {}]
Present == {l \in LinkIds : links[l] /= NoEntry}
NoRequest == [at |-> "idle"]

TableInit ==
  /\ links = [l \in LinkIds |-> NoEntry] /\ nodes = Nodes /\ issued = {}
  /\ admin = [a \in Admins |-> NoRequest] /\ test = [t \in Tests |-> NoRequest]
  /\ stops = 0

UserPort(l) == {m.port : m \in links[l].maps}

(* Mutant: only links between the same two nodes are looked at. *)
UsedOnBoth(N, L) ==
  UNION {links[l].bridge \union UserPort(l) : l \in {k \in L : links[k].nodes = N}}

(* _used_ports_for_nodes: what the links of set L that share a node with N *)
(* reserve. *)
Used(N, L) ==
  UNION {links[l].bridge \union UserPort(l) :
           l \in {k \in L : links[k].nodes \intersect N /= {}}}

(* The administrator has removed or edited mappings of l, or l itself.     *)
Touch(l, M) ==
  [t \in Tests |->
    IF test[t].at = "running" /\ test[t].link = l /\ test[t].map \in M
    THEN [test[t] EXCEPT !.kept = FALSE] ELSE test[t]]
TouchAll(L) ==
  [t \in Tests |-> IF test[t].at = "running" /\ test[t].link \in L
                   THEN [test[t] EXCEPT !.kept = FALSE] ELSE test[t]]

-----------------------------------------------------------------------------
(* POST /api/links and /api/links/edit up to the test of the ports, chosen *)
(* by the administrator or by _next_port_pair: a link keeps its own.       *)
Check(a, l, N, b) ==
  /\ admin[a] = NoRequest
  /\ l \in Present \/ l \notin issued
  /\ N \subseteq nodes /\ b \intersect Used(N, Present \ {l}) = {}
  /\ admin' = [admin EXCEPT ![a] =
       [at |-> "checked", link |-> l, nodes |-> N, bridge |-> b, maps |-> {}]]
  /\ issued' = issued \union {l}
  /\ UNCHANGED <<links, nodes, test, stops>>

(* The rest of it: the new record takes the place of the old one, if that  *)
(* is still there, and shares its list of mappings.  A test that has the   *)
(* old record will rebind the list of that one only.                       *)
Store(a) ==
  /\ admin[a].at = "checked"
  /\ LET e == admin[a] IN
     /\ links' = [links EXCEPT ![e.link] =
          [nodes |-> e.nodes, bridge |-> e.bridge,
           maps |-> IF e.link \in Present THEN links[e.link].maps ELSE e.maps]]
     /\ test' = TouchAll({e.link})
  /\ admin' = [admin EXCEPT ![a] = NoRequest]
  /\ UNCHANGED <<nodes, issued, stops>>

(* POST /api/links/ports: a range of ports, without those mapped already.  *)
AddPorts(a, l, R) ==
  /\ admin[a] = NoRequest /\ l \in Present
  /\ links' = [links EXCEPT ![l].maps =
       @ \union {[port |-> p, by |-> "user"] : p \in R \ UserPort(l)}]
  /\ UNCHANGED <<nodes, issued, admin, test, stops>>

(* POST /api/links/ports/edit: a temporary mapping becomes a permanent one.*)
EditPort(a, l, m, p) ==
  /\ admin[a] = NoRequest /\ m \in links[l].maps
  /\ \A k \in links[l].maps \ {m} : k.port /= p
  /\ links' = [links EXCEPT ![l].maps = (@ \ {m}) \union {[port |-> p, by |-> "user"]}]
  /\ test' = Touch(l, {m})
  /\ UNCHANGED <<nodes, issued, admin, stops>>

RemovePort(a, l, m) ==
  /\ admin[a] = NoRequest /\ m \in links[l].maps
  /\ links' = [links EXCEPT ![l].maps = @ \ {m}]
  /\ test' = Touch(l, {m})
  /\ UNCHANGED <<nodes, issued, admin, stops>>

(* An edit that is under way has the record and its list.                  *)
Drop(L) ==
  /\ links' = [l \in LinkIds |-> IF l \in L THEN NoEntry ELSE links[l]]
  /\ test' = TouchAll(L)
  /\ admin' = [a \in Admins |->
       IF admin[a].at = "checked" /\ admin[a].link \in L
       THEN [admin[a] EXCEPT !.maps = links[admin[a].link].maps] ELSE admin[a]]

DeleteLink(a, l) ==
  /\ admin[a] = NoRequest /\ l \in Present
  /\ Drop({l})
  /\ UNCHANGED <<nodes, issued, stops>>

DeleteNode(a, n) ==
  /\ admin[a] = NoRequest /\ n \in nodes
  /\ nodes' = nodes \ {n}
  /\ Drop({l \in Present : n \in links[l].nodes})
  /\ UNCHANGED <<issued, stops>>

-----------------------------------------------------------------------------
(* handle_payload_test: every temporary mapping of every link goes ... *)
Purge(t) ==
  /\ test[t] = NoRequest
  /\ links' = [l \in LinkIds |-> [links[l] EXCEPT !.maps = {m \in @ : m.by = "user"}]]
  /\ test' = [test EXCEPT ![t] = [at |-> "purged"]]
  /\ UNCHANGED <<nodes, issued, admin, stops>>

(* ... then the link to test, which has a mapping, gets one at a port that *)
(* no link beside it uses (choose_temp_link_ports; of its two ports the one*)
(* of the user's side is modelled) ...                                     *)
Begin(t, l, p) ==
  /\ test[t].at = "purged"
  /\ links[l].maps /= {} /\ p \notin Used(links[l].nodes, Present)
  /\ LET m == [port |-> p, by |-> t] IN
     /\ links' = [links EXCEPT ![l].maps = @ \union {m}]
     /\ test' = [test EXCEPT ![t] =
          [at |-> "running", link |-> l, map |-> m, kept |-> TRUE]]
  /\ UNCHANGED <<nodes, issued, admin, stops>>

(* ... or the test is refused: a node is not online, the link is gone.     *)
Refuse(t) ==
  /\ test[t].at = "purged"
  /\ test' = [test EXCEPT ![t] = NoRequest]
  /\ UNCHANGED <<links, nodes, issued, admin, stops>>

(* However the test ended: remove_temp_port_mapping.                       *)
End(t) ==
  /\ test[t].at = "running"
  /\ links' = IF test[t].kept
              THEN [links EXCEPT ![test[t].link].maps = @ \ {test[t].map}] ELSE links
  /\ test' = [test EXCEPT ![t] = NoRequest]
  /\ UNCHANGED <<nodes, issued, admin, stops>>

(* The panel's process ends; each step above has saved what it changed.    *)
PanelStops ==
  /\ stops < MaxStops /\ stops' = stops + 1
  /\ admin' = [a \in Admins |-> NoRequest] /\ test' = [t \in Tests |-> NoRequest]
  /\ UNCHANGED <<links, nodes, issued>>

-----------------------------------------------------------------------------
Administer(a) ==
  \/ Store(a)
  \/ \E n \in Nodes : DeleteNode(a, n)
  \/ \E l \in LinkIds :
       \/ \E N \in Pairs, b \in BridgePairs : Check(a, l, N, b)
       \/ \E R \in SUBSET UserPorts : AddPorts(a, l, R)
       \/ \E m \in links[l].maps : RemovePort(a, l, m) \/ \E p \in UserPorts : EditPort(a, l, m, p)
       \/ DeleteLink(a, l)

PayloadTest(t) ==
  \/ Purge(t) \/ Refuse(t) \/ End(t)
  \/ \E l \in LinkIds, p \in UserPorts : Begin(t, l, p)

TableNext ==
  \/ \E a \in Admins : Administer(a)
  \/ \E t \in Tests : PayloadTest(t)
  \/ PanelStops

TableSpec == TableInit /\ [][TableNext]_tableVars

-----------------------------------------------------------------------------
(* "Bridge or Sync port is already occupied on one of the selected nodes": *)
(* links with a node in common listen on different ports, although edits   *)
(* move links to other nodes and ports, while one request at a time changes*)
(* the table.                                                              *)
BridgePortsDistinct ==
  \A k, l \in Present :
    k /= l /\ links[k].nodes \intersect links[l].nodes /= {}
      => links[k].bridge \intersect links[l].bridge = {}

(* "Purge stale temporary test port mappings ...; interrupted tests        *)
(* otherwise leak reservations": the mapping of a test that runs is not a  *)
(* stale one, and stays while no administrator touches it or its link.     *)
RunningTestsKeepTheirs ==
  \A t \in Tests :
    test[t].at = "running" /\ test[t].kept => test[t].map \in links[test[t].link].maps
=============================================================================
