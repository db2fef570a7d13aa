----------------------------- MODULE MCControl -----------------------------
(* The control plane.  The panel and its host: PanelState alone, with a    *)
(* file that becomes unreadable and with each writer outside;              *)
(* BackupRestore; HostControl with an agent that is killed, and with ports *)
(* that others take; LinkTable with one administrator at a time and a      *)
(* payload test.  What a node makes of its links: ConfigSync with two      *)
(* whose mappings move between them, a changed bridge port, a link that    *)
(* goes and one that changes its kind.                                     *)
EXTENDS BackupRestore, HostControl, LinkTable, ConfigSync, TLC

CONSTANTS t1, t2, t3, v1, v2, v3, f, d, q1, q2, q3, p1, p2, p3, l1, l2, i1, i2, e1, e2, a1, s1,
          b1, b2, u1, u2
VARIABLE setting

Alone == INSTANCE PanelState WITH External <- "none", MaxCrashes <- 2, Corrupted <- FALSE
Unreadable == INSTANCE PanelState WITH Threads <- {t1, t2}, External <- "none",
                                       MaxCrashes <- 3, Corrupted <- TRUE
Agent == INSTANCE PanelState WITH Threads <- {t1, t2}, Updates <- {v1, v2},
                                  External <- "agent", MaxCrashes <- 0, Corrupted <- FALSE
Reset == INSTANCE PanelState WITH Threads <- {t1, t2}, Updates <- {v1, v2},
                                  External <- "reset", MaxCrashes <- 1, Corrupted <- FALSE
Restore == INSTANCE BackupRestore WITH Threads <- {t1}, Updates <- {v1, v2},
                                  External <- "none", MaxCrashes <- 2, Corrupted <- FALSE

(* Requests for two different ports and one for something else: the agent  *)
(* is killed, or another program takes the ports meanwhile.                *)
Wanted == q1 :> p2 @@ q2 :> p3 @@ q3 :> "other"
Crowded == INSTANCE HostControl WITH
  MaxKills <- 0, WritesFail <- TRUE, Strangers <- {p1, p2, p3}

(* Two of the pairs of nodes are disjoint, and a mapping may be at a port  *)
(* that a link would listen on.                                            *)
PairsDef == {{i1, e1}, {i1, e2}, {i2, e2}}
BridgePairsDef == {{1, 2}, {2, 3}}

(* The configurations of a node's links.                                   *)
Map(g, h) == [x \in Ports |-> CASE x = u1 -> g [] x = u2 -> h [] OTHER -> 0]
Conf(k, bridge, g, h) ==
  [kind |-> k, bridge |-> bridge, version |-> 1, ports |-> Map(g, h)]
Both(x, y) == [l \in Links |-> IF l = l1 THEN x ELSE y]
FirstConfig == Both(Conf("server", b2, 1, 2), Absent)
AllConfigs == {
  FirstConfig,
  Both(Conf("server", b1, 1, 0), Conf("server", b2, 0, 1)),
  Both(Conf("server", b1, 2, 1), Conf("server", b2, 0, 0)),
  Both(Conf("client", b1, 0, 0), Conf("engine", b2, 1, 2)) }

all == <<vars, restoreVars, hostVars, tableVars, syncVars, setting>>
In(s, A) == setting = s /\ A /\ UNCHANGED setting
Panel(s, A) == In(s, A /\ UNCHANGED <<restoreVars, hostVars, tableVars, syncVars>>)
Host(s, A) == In(s, A /\ UNCHANGED <<vars, restoreVars, tableVars, syncVars>>)
OnLinks(A) == In("sync", A /\ UNCHANGED <<vars, restoreVars, hostVars, tableVars>>)

Still == restore = NotStarted /\ disk = [x \in Others |-> "old"] /\ back = [x \in Others |-> "none"]
AllInit ==
  /\ setting \in {"alone", "unreadable", "agent", "reset", "restore", "killed", "crowded",
                 "links", "sync"}
  /\ IF setting = "crowded" THEN Crowded!HostInit ELSE HostInit
  /\ \/ setting \in {"alone", "killed", "crowded", "links", "sync"}
        /\ Alone!Init /\ Still
     \/ setting = "unreadable" /\ Unreadable!Init /\ Still
     \/ setting = "agent" /\ Agent!Init /\ Still
     \/ setting = "reset" /\ Reset!Init /\ Still
     \/ setting = "restore" /\ Restore!RestoreInit
  /\ TableInit /\ SyncInit /\ (setting # "sync" => panel = FirstConfig)
AllNext ==
  \/ Panel("alone", Alone!Next) \/ Panel("unreadable", Unreadable!Next)
  \/ Panel("agent", Agent!Next) \/ Panel("reset", Reset!Next)
  \/ In("restore", Restore!RestoreNext /\ UNCHANGED <<hostVars, tableVars, syncVars>>)
  \/ Host("killed", HostNext) \/ Host("crowded", Crowded!HostNext)
  \/ In("links", TableNext /\ UNCHANGED <<vars, restoreVars, hostVars, syncVars>>)
  \/ OnLinks(SyncNext)
AllSpec ==
  /\ AllInit /\ [][AllNext]_all
  /\ WF_all(Host("killed", AgentSteps))
  /\ WF_all(Host("crowded", Crowded!AgentSteps))
  /\ WF_all(OnLinks(SyncSteps))
  /\ \A l \in Links : SF_all(OnLinks(WatchdogRestarts(l)))
  /\ \A r \in Ports : WF_all(OnLinks(LingeringEnds(r) \/ OtherCloses(r)))

(* Once the panel's configuration rests, the node comes to run exactly its *)
(* links with exactly their mappings.                                      *)
NodeFollows == setting = "sync" => NodeFollowsPanel
=============================================================================
