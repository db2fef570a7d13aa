---------------------------- MODULE HostControl ----------------------------
(***************************************************************************)
(* The request files through which the panel (host_control.py) asks the    *)
(* host agent (p00rija-host-agent.py) for work: above all for other ports, *)
(* for which the agent rewrites the panel's configuration, recreates the   *)
(* panel's container, and goes back when that fails.  The agent may be     *)
(* killed anywhere; it is then started again and finds the files.          *)
(***************************************************************************)
EXTENDS Naturals

CONSTANTS
  Requests,
  PanelPorts,
  Wants,        (* Per request: the ports it asks for, Other for the rest.  *)
  FirstPort,
  MaxKills,     (* Bound: how often the agent is killed.                   *)
  MaxFailures,  (* Bound: how often docker, or a write, fails.             *)
  WritesFail,   (* Writes may fail.                                        *)
  Strangers     (* Ports that another program may take.                    *)

VARIABLES
  inbox,        (* Per request: its file.                                  *)
  results,      (* Per request: its result file.                           *)
  agent,        (* The loop: where it is, its request, the ports it is     *)
                (* changing to, the ones it has found, the outcome.        *)
  config,       (* Ports in p00rija_config.json.                           *)
  container,    (* Ports the container publishes, Nothing without.         *)
  taken,        (* Ports another program listens on.                       *)
  stuck,        (* History: the last rollback failed, or a change ended    *)
                (* between the panel's two files.                          *)
  kills, mishaps

hostVars ==
  <<inbox, results, agent, config, container, taken, stuck, kills, mishaps>>

Nothing == "none"
Other == "other"
Waiting ==
  [pc |-> "wait", req |-> Nothing, target |-> Nothing, old |-> Nothing,
   outcome |-> Nothing]

HostInit ==
  /\ inbox = [r \in Requests |-> Nothing] /\ results = [r \in Requests |-> Nothing]
  /\ agent = Waiting
  /\ config = FirstPort /\ container = FirstPort /\ taken = {}
  /\ stuck = FALSE /\ kills = 0 /\ mishaps = 0

-----------------------------------------------------------------------------
(* submit_host_control: the file appears under its name as a whole. *)
Submit(r) ==
  /\ container /= Nothing /\ inbox[r] = Nothing /\ results[r] = Nothing
  /\ inbox' = [inbox EXCEPT ![r] = "queued"]
  /\ UNCHANGED <<results, agent, config, container, taken, stuck, kills, mishaps>>

Failure == mishaps < MaxFailures /\ mishaps' = mishaps + 1

Go(pc) == [agent EXCEPT !.pc = pc]
Answer(outcome) == agent' = [agent EXCEPT !.pc = "answer", !.outcome = outcome]

(* Mutant: the file is removed when it has been read. *)
TakeAndUnlink(r) ==
  /\ agent.pc = "wait" /\ inbox[r] = "queued"
  /\ inbox' = [inbox EXCEPT ![r] = "done"]
  /\ agent' = [Waiting EXCEPT !.pc = "handle", !.req = r]
  /\ UNCHANGED <<results, config, container, taken, stuck, kills, mishaps>>

(* Files are taken by name, which starts with the second of the request;   *)
(* one that is not due is passed over.                                     *)
Take(r) ==
  /\ agent.pc = "wait" /\ inbox[r] = "queued"
  /\ agent' = [Waiting EXCEPT !.pc = "handle", !.req = r]
  /\ UNCHANGED <<inbox, results, config, container, taken, stuck, kills, mishaps>>

(* Certificates, the local node and updates: it works or it does not. *)
HandleOther ==
  /\ agent.pc = "handle" /\ Wants[agent.req] = Other
  /\ Answer("success") \/ Answer("failed")
  /\ UNCHANGED <<inbox, results, config, container, taken, stuck, kills, mishaps>>

(* change_panel_ports: port_is_available passes over the current ports. *)
Occupied(p) == p /= config /\ (p \in taken \/ p = container)

HandlePorts ==
  /\ agent.pc = "handle" /\ Wants[agent.req] /= Other
  /\ LET p == Wants[agent.req] IN
       IF Occupied(p) THEN Answer("failed")
       ELSE agent' = [agent EXCEPT !.pc = "save", !.target = p, !.old = config]
  /\ UNCHANGED <<inbox, results, config, container, taken, stuck, kills, mishaps>>

(* save_panel_state: the configuration, then the database. *)
SaveConfig ==
  /\ agent.pc \in {"save", "save_back"}
  /\ config' = agent.target
  /\ agent' = Go(IF agent.pc = "save" THEN "save_db" ELSE "save_db_back")
  /\ UNCHANGED <<inbox, results, container, taken, stuck, kills, mishaps>>

SaveDatabase ==
  /\ agent.pc \in {"save_db", "save_db_back"}
  /\ agent' = Go(IF agent.pc = "save_db" THEN "remove" ELSE "remove_back")
  /\ UNCHANGED <<inbox, results, config, container, taken, stuck, kills, mishaps>>

(* The first save is outside of the try: nothing is rolled back, so when   *)
(* only the database fails the new ports stay in the configuration.        *)
ChangeUnsaved ==
  /\ agent.pc \in {"save", "save_db"} /\ WritesFail /\ Failure
  /\ Answer("failed")
  /\ stuck' = (stuck \/ agent.pc = "save_db")
  /\ UNCHANGED <<inbox, results, config, container, taken, kills>>

RollbackUnsaved ==
  /\ agent.pc \in {"save_back", "save_db_back"} /\ WritesFail /\ Failure
  /\ Answer("rollback failed") /\ stuck' = TRUE
  /\ UNCHANGED <<inbox, results, config, container, taken, kills>>

(* recreate_panel: docker rm, then docker run. *)
RemovePanel ==
  /\ agent.pc \in {"remove", "remove_back"}
  /\ container' = Nothing
  /\ agent' = Go(IF agent.pc = "remove" THEN "run" ELSE "run_back")
  /\ UNCHANGED <<inbox, results, config, taken, stuck, kills, mishaps>>

RunPanel ==
  /\ agent.pc \in {"run", "run_back"}
  /\ agent.target \notin taken
  /\ container' = agent.target
  /\ Answer(IF agent.pc = "run" THEN "success" ELSE "restored previous ports")
  /\ stuck' = FALSE
  /\ UNCHANGED <<inbox, results, config, taken, kills, mishaps>>

Refused == IF agent.target \in taken THEN UNCHANGED mishaps ELSE Failure

(* Mutant: the previous configuration is not written back. *)
RunFailsKeepsConfig ==
  /\ agent.pc = "run" /\ Refused
  /\ agent' = [agent EXCEPT !.pc = "remove_back", !.target = agent.old]
  /\ UNCHANGED <<inbox, results, config, container, taken, stuck, kills>>

RunFails ==
  /\ agent.pc = "run" /\ Refused
  /\ agent' = [agent EXCEPT !.pc = "save_back", !.target = agent.old]
  /\ UNCHANGED <<inbox, results, config, container, taken, stuck, kills>>

RollbackFails ==
  /\ agent.pc = "run_back" /\ Refused
  /\ Answer("rollback failed") /\ stuck' = TRUE
  /\ UNCHANGED <<inbox, results, config, container, taken, kills>>

WriteResult ==
  /\ agent.pc = "answer"
  /\ results' = [results EXCEPT ![agent.req] = agent.outcome]
  /\ agent' = Go("unlink")
  /\ UNCHANGED <<inbox, config, container, taken, stuck, kills, mishaps>>

(* The request file is set aside, and nobody answers. *)
WriteFails ==
  /\ agent.pc = "answer" /\ WritesFail /\ Failure
  /\ inbox' = [inbox EXCEPT ![agent.req] = "invalid"]
  /\ agent' = Waiting
  /\ UNCHANGED <<results, config, container, taken, stuck, kills>>

RemoveRequest ==
  /\ agent.pc = "unlink"
  /\ inbox' = [inbox EXCEPT ![agent.req] = "done"]
  /\ agent' = Waiting
  /\ UNCHANGED <<results, config, container, taken, stuck, kills, mishaps>>

-----------------------------------------------------------------------------
Kill ==
  /\ agent.pc /= "down" /\ kills < MaxKills
  /\ kills' = kills + 1
  /\ agent' = [Waiting EXCEPT !.pc = "down"]
  /\ UNCHANGED <<inbox, results, config, container, taken, stuck, mishaps>>

(* Restart=always *)
Restart ==
  /\ agent.pc = "down"
  /\ agent' = Waiting
  /\ UNCHANGED <<inbox, results, config, container, taken, stuck, kills, mishaps>>

StrangerListens(p) ==
  /\ p \in Strangers \ (taken \union {container})
  /\ taken' = taken \union {p}
  /\ UNCHANGED <<inbox, results, agent, config, container, stuck, kills, mishaps>>

AgentSteps ==
  \/ \E r \in Requests : Take(r)
  \/ HandleOther \/ HandlePorts \/ SaveConfig \/ SaveDatabase \/ RemovePanel \/ RunPanel
  \/ RunFails \/ RollbackFails \/ WriteResult \/ RemoveRequest \/ Restart

HostNext ==
  \/ AgentSteps \/ Kill \/ ChangeUnsaved \/ RollbackUnsaved \/ WriteFails
  \/ \E r \in Requests : Submit(r)
  \/ \E p \in PanelPorts : StrangerListens(p)

HostSpec == HostInit /\ [][HostNext]_hostVars /\ WF_hostVars(AgentSteps)

-----------------------------------------------------------------------------
(* Whenever the agent has nothing left to do, the panel publishes the      *)
(* ports its configuration names, wherever the agent was killed and        *)
(* whatever failed, but for two failures it only reports: a rollback, and  *)
(* a write of the database after the one of the configuration.             *)
PortsAgree ==
  agent.pc = "wait" /\ (\A r \in Requests : inbox[r] /= "queued") /\ ~stuck
  => container = config

(* A request whose file is there is answered, or set aside when its result *)
(* cannot be written, although the agent is killed in the middle of it.    *)
RequestsAnswered ==
  <>[](\A r \in Requests :
         inbox[r] /= Nothing => results[r] /= Nothing \/ inbox[r] = "invalid")
=============================================================================
