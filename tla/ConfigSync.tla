----------------------------- MODULE ConfigSync -----------------------------
(***************************************************************************)
(* The links of a node follow the panel's configuration: config_sync_loop, *)
(* apply_config, start_link, stop_link, the user ports and the engine      *)
(* watchdog of IranNodeController and ForeignNodeController (P00RIJA.py).  *)
(*                                                                         *)
(* A link is a "server" (it listens on its bridge port and on user ports), *)
(* a "client" (it dials, and listens on the bridge port as a fallback) or  *)
(* an "engine" (a Hysteria2 process that listens on the user ports).  What *)
(* a started link does is the subject of LinkWorkers, Bridge and MuxPool;  *)
(* here it is what listens on which TCP port of the node.                  *)
(***************************************************************************)
EXTENDS Naturals, FiniteSets

CONSTANTS
  Links,
  Ports,       (* TCP ports of the node.                                   *)
  Targets,     (* Target ports; a mapping to 0 is none.                    *)
  Configs,     (* Configurations the panel may hold: [Links -> link].      *)
  MaxChanges,  (* Bound: how often the configuration changes.              *)
  MaxFaults    (* Bound: engine deaths, refused threads, foreign listeners.*)

ASSUME TargetsAssumption == Targets \subseteq Nat \ {0}
ASSUME BoundsAssumption == MaxChanges \in Nat /\ MaxFaults \in Nat

Mapping == [Ports -> Targets \union {0}]
LinkConfig == [kind : {"server", "client", "engine"}, bridge : Ports,
               version : Nat, ports : Mapping]
Absent == [kind |-> "none"]
ASSUME ConfigsAssumption ==
  \A c \in Configs : \A l \in Links : c[l] \in LinkConfig \/ c[l] = Absent

VARIABLES
  panel,     (* The panel's configuration.                                 *)
  sync,      (* config_sync_loop: where it is, its configuration, the      *)
             (* links it has not looked at yet.                            *)
  active,    (* active_links.                                              *)
  holder,    (* Who listens on a port: a link, "free", "other", or         *)
             (* "lingers": closed while a thread waits in accept.          *)
  changes, faults

syncVars == <<panel, sync, active, holder, changes, faults>>

NoPorts == [p \in Ports |-> 0]
NoLink == [kind |-> "none", raw |-> Absent, sig |-> <<>>, ports |-> NoPorts,
           listens |-> FALSE, accepts |-> FALSE, alive |-> FALSE]
ASSUME LinksAssumption == Links \intersect {"free", "other", "lingers"} = {}

SyncInit ==
  /\ panel \in Configs
  /\ sync = [pc |-> "asleep", config |-> panel, todo |-> {}]
  /\ active = [l \in Links |-> NoLink]
  /\ holder = [p \in Ports |-> "free"]
  /\ changes = 0 /\ faults = 0

-----------------------------------------------------------------------------
(* link_signature: the mappings of a server are hot-reloaded. *)
Signature(c) ==
  <<c.kind, c.bridge, c.version, IF c.kind = "engine" THEN c.ports ELSE NoPorts>>

(* The tables a handler works on, before and after each call it makes. *)
Now == [active |-> active, holder |-> holder]

(* Mutant: the user ports stay open. *)
StopBridge(s, l, lingers) ==
  LET a == s.active[l] IN
    [active |-> [s.active EXCEPT ![l] = NoLink],
     holder |-> [p \in Ports |->
       IF s.holder[p] = l /\ p = a.raw.bridge /\ a.listens THEN "free" ELSE s.holder[p]]]

(* stop_link: close_user_port shuts its listener down, which ends accept;  *)
(* the bridge listener is only closed, and may linger.                     *)
Stop(s, l, lingers) ==
  LET a == s.active[l] IN
    [active |-> [s.active EXCEPT ![l] = NoLink],
     holder |-> [p \in Ports |->
       IF s.holder[p] /= l THEN s.holder[p]
       ELSE IF p = a.raw.bridge /\ a.accepts /\ lingers THEN "lingers" ELSE "free"]]

(* Mutant: a port that is open stays as it is. *)
ReconcileOpen(have, want, p, free) ==
  IF want[p] = 0 THEN 0
  ELSE IF have[p] /= 0 THEN have[p] ELSE IF free THEN want[p] ELSE 0

(* reconcile_combined_ports, for one port: its new target.  A port that    *)
(* cannot be bound is left out, and tried again with the next answer.      *)
Reconcile(have, want, p, free) ==
  IF free \/ have[p] /= 0 THEN want[p] ELSE 0

UpdatePorts(s, l, want) ==
  LET have == s.active[l].ports
      now == [p \in Ports |-> Reconcile(have, want, p, s.holder[p] = "free")]
  IN [active |-> [s.active EXCEPT ![l].ports = now],
      holder |-> [p \in Ports |->
        IF now[p] /= 0 THEN l ELSE IF have[p] /= 0 THEN "free" ELSE s.holder[p]]]

Record(c, sig) ==
  [kind |-> c.kind, raw |-> c, sig |-> sig, ports |-> NoPorts,
   listens |-> FALSE, accepts |-> FALSE, alive |-> TRUE]

Put(s, l, record) == [s EXCEPT !.active[l] = record]

Listen(s, l, c, record) ==
  [Put(s, l, [record EXCEPT !.listens = TRUE, !.accepts = TRUE])
     EXCEPT !.holder[c.bridge] = l]

(* start_link.  Without its bridge port a server does not start, a client  *)
(* does; an engine exits when one of its ports is taken.                   *)
StartServer(s, l, c, sig) ==
  IF s.holder[c.bridge] /= "free" THEN s
  ELSE UpdatePorts(Listen(s, l, c, Record(c, sig)), l, c.ports)

StartClient(s, l, c, sig) ==
  IF s.holder[c.bridge] /= "free" THEN Put(s, l, Record(c, sig))
  ELSE Listen(s, l, c, Record(c, sig))

StartEngine(s, l, c, sig) ==
  IF \E p \in Ports : c.ports[p] /= 0 /\ s.holder[p] /= "free" THEN s
  ELSE UpdatePorts(Put(s, l, Record(c, sig)), l, c.ports)

Start(s, l, c, sig) ==
  CASE c.kind = "server" -> StartServer(s, l, c, sig)
    [] c.kind = "client" -> StartClient(s, l, c, sig)
    [] c.kind = "engine" -> StartEngine(s, l, c, sig)

Become(s) == active' = s.active /\ holder' = s.holder

-----------------------------------------------------------------------------
(* The panel, and what else happens on the node. *)
ChangeConfig(c) ==
  /\ changes < MaxChanges /\ c /= panel
  /\ panel' = c /\ changes' = changes + 1
  /\ UNCHANGED <<sync, active, holder, faults>>

Fault == faults < MaxFaults /\ faults' = faults + 1

(* The engine's process ends, and with it its listeners; the threads of a  *)
(* client all end.                                                         *)
Die(l) ==
  /\ Fault
  /\ active[l].alive /\ active[l].kind \in {"engine", "client"}
  /\ active' = [active EXCEPT ![l].alive = FALSE]
  /\ holder' = IF active[l].kind = "client" THEN holder
               ELSE [p \in Ports |-> IF holder[p] = l THEN "free" ELSE holder[p]]
  /\ UNCHANGED <<panel, sync, changes>>

OtherListens(p) ==
  /\ Fault
  /\ holder[p] = "free"
  /\ holder' = [holder EXCEPT ![p] = "other"]
  /\ UNCHANGED <<panel, sync, active, changes>>

OtherCloses(p) ==
  /\ holder[p] = "other"
  /\ holder' = [holder EXCEPT ![p] = "free"]
  /\ UNCHANGED <<panel, sync, active, changes, faults>>

(* A connection, or the kernel, ends the accept of a closed listener.      *)
LingeringEnds(p) ==
  /\ holder[p] = "lingers"
  /\ holder' = [holder EXCEPT ![p] = "free"]
  /\ UNCHANGED <<panel, sync, active, changes, faults>>

-----------------------------------------------------------------------------
(* config_sync_loop: the answer is applied under the controller's lock. *)
Fetch ==
  /\ sync.pc = "asleep"
  /\ sync' = [pc |-> "fetched", config |-> panel, todo |-> {}]
  /\ UNCHANGED <<panel, active, holder, changes, faults>>

TakeLock ==
  /\ sync.pc = "fetched"
  /\ sync' = [sync EXCEPT !.pc = "links",
       !.todo = {l \in Links : sync.config[l] /= Absent}]
  /\ UNCHANGED <<panel, active, holder, changes, faults>>

Looked(l) == sync' = [sync EXCEPT !.todo = @ \ {l}]

Due(l) == sync.pc = "links" /\ l \in sync.todo

StartLink(l) ==
  /\ Due(l) /\ active[l] = NoLink
  /\ Become(Start(Now, l, sync.config[l], Signature(sync.config[l])))
  /\ Looked(l)
  /\ UNCHANGED <<panel, changes, faults>>

RestartLink(l) ==
  /\ Due(l) /\ active[l] /= NoLink
  /\ LET c == sync.config[l] IN
       /\ active[l].sig /= Signature(c)
       /\ \E lingers \in BOOLEAN : Become(Start(Stop(Now, l, lingers), l, c, Signature(c)))
  /\ Looked(l)
  /\ UNCHANGED <<panel, changes, faults>>

KeepLink(l) ==
  /\ Due(l) /\ active[l] /= NoLink
  /\ LET c == sync.config[l]
         kept == [Now EXCEPT !.active[l].raw = c] IN
       /\ active[l].sig = Signature(c)
       /\ Become(IF c.kind = "server" THEN UpdatePorts(kept, l, c.ports) ELSE kept)
  /\ Looked(l)
  /\ UNCHANGED <<panel, changes, faults>>

(* A thread cannot be started: start_link raises when the server listens   *)
(* already, apply_config ends, and the next one starts from there.         *)
StartRaises(l) ==
  /\ Fault
  /\ Due(l) /\ active[l] = NoLink
  /\ LET c == sync.config[l] IN
       /\ c.kind = "server" /\ holder[c.bridge] = "free"
       /\ Become([Put(Now, l, [Record(c, <<>>) EXCEPT !.listens = TRUE])
                    EXCEPT !.holder[c.bridge] = l])
  /\ sync' = [sync EXCEPT !.pc = "asleep", !.todo = {}]
  /\ UNCHANGED <<panel, changes>>

(* The links the configuration does not hold any more come last. *)
RemoveLink(l) ==
  /\ sync.pc = "links" /\ sync.todo = {}
  /\ active[l] /= NoLink /\ sync.config[l] = Absent
  /\ \E lingers \in BOOLEAN : Become(Stop(Now, l, lingers))
  /\ UNCHANGED <<panel, sync, changes, faults>>

ReleaseLock ==
  /\ sync.pc = "links" /\ sync.todo = {}
  /\ \A l \in Links : sync.config[l] = Absent => active[l] = NoLink
  /\ sync' = [sync EXCEPT !.pc = "asleep"]
  /\ UNCHANGED <<panel, active, holder, changes, faults>>

-----------------------------------------------------------------------------
(* engine_watchdog_loop, under the same lock: an unhealthy link is stopped *)
(* and started from the configuration it has.  start_link notes the        *)
(* signature of a client only.                                             *)
Unhealthy(a) == a /= NoLink /\ ~a.alive

WatchdogRestarts(l) ==
  /\ sync.pc /= "links" /\ Unhealthy(active[l])
  /\ LET c == active[l].raw IN
       \E lingers \in BOOLEAN :
         Become(Start(Stop(Now, l, lingers), l, c,
                      IF c.kind = "client" THEN Signature(c) ELSE <<>>))
  /\ UNCHANGED <<panel, sync, changes, faults>>

-----------------------------------------------------------------------------
SyncSteps ==
  \/ Fetch \/ TakeLock \/ ReleaseLock
  \/ \E l \in Links : StartLink(l) \/ RestartLink(l) \/ KeepLink(l) \/ RemoveLink(l)

SyncNext ==
  \/ SyncSteps
  \/ \E l \in Links : StartRaises(l) \/ WatchdogRestarts(l) \/ Die(l)
  \/ \E p \in Ports : LingeringEnds(p) \/ OtherListens(p) \/ OtherCloses(p)
  \/ \E c \in Configs : ChangeConfig(c)

(* Both loops run for ever; the peers of a closed bridge listener, whose   *)
(* tunnels were closed, connect again; other programs leave the ports.     *)
SyncSpec ==
  /\ SyncInit /\ [][SyncNext]_syncVars
  /\ WF_syncVars(SyncSteps)
  /\ \A l \in Links : SF_syncVars(WatchdogRestarts(l))
  /\ \A p \in Ports : WF_syncVars(LingeringEnds(p) \/ OtherCloses(p))

-----------------------------------------------------------------------------
(* The type invariant. *)
TypeOK ==
  /\ panel \in Configs /\ sync.config \in Configs /\ sync.todo \subseteq Links
  /\ sync.pc \in {"asleep", "fetched", "links"}
  /\ \A l \in Links :
       /\ active[l].kind \in {"server", "client", "engine", "none"}
       /\ active[l].ports \in Mapping /\ active[l].alive \in BOOLEAN
       /\ active[l].raw \in LinkConfig \union {Absent}
  /\ holder \in [Ports -> Links \union {"free", "other", "lingers"}]

(* Whatever starts, fails to start or is restarted by either loop: a port  *)
(* the node listens on belongs to a link that runs and knows it, and what  *)
(* a link that runs believes to listen on, it listens on.                  *)
Owns(l, p) ==
  LET a == active[l] IN
    \/ a.listens /\ p = a.raw.bridge
    \/ a.ports[p] /= 0 /\ (a.kind = "engine" => a.alive)
ListenersOwned ==
  \A l \in Links, p \in Ports : holder[p] = l <=> Owns(l, p)

(* Once the panel's configuration rests, the node comes to run exactly its *)
(* links with exactly their mappings, although ports move from one link to *)
(* another, are taken or linger for a while, and starts fail.              *)
Serves(l) ==
  LET a == active[l] IN
    IF panel[l] = Absent THEN a = NoLink
    ELSE /\ a.alive /\ Signature(a.raw) = Signature(panel[l])
         /\ panel[l].kind /= "client" => a.ports = panel[l].ports
NodeFollowsPanel == <>[](\A l \in Links : Serves(l))
=============================================================================
