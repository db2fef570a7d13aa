---------------------------- MODULE LinkWorkers ----------------------------
(***************************************************************************)
(* The reverse workers of one link on the external node                    *)
(* (ForeignNodeController.start_link, track_link_socket, start_link_thread,*)
(* run_thread_guardian_for_link and stop_link_lifecycle in P00RIJA.py).    *)
(*                                                                         *)
(* A worker dials the internal node, waits for the header that assigns its *)
(* connection, asks for a replacement of itself and carries the session.   *)
(* It may fail at every step, and each exit of its loop closes and         *)
(* untracks what it holds in its own way.                                  *)
(* The guardian adjusts desired_workers and spawns what is missing.  The   *)
(* link may be stopped at any moment, which must close every socket and    *)
(* end every thread, those being created included.                         *)
(***************************************************************************)
EXTENDS Integers, FiniteSets

CONSTANTS
  Workers,      (* Thread slots.                                           *)
  Max,          (* max_workers.                                            *)
  MinReady,     (* min_ready_workers.                                      *)
  Kinds,        (* What headers may ask for: "tcp", "mux", "bond".         *)
  Tls,          (* The tunnel is wrapped in TLS.                           *)
  ThreadsFail,  (* Thread.start may fail.                                  *)
  Stoppable,    (* The link may be stopped.                                *)
  Stalls        (* A session may stall: a call of its loop waits, and the  *)
                (* monitor may find it idle.                               *)

ASSUME MaxAssumption   == Max \in Nat \ {0}
ASSUME ReadyAssumption == MinReady \in 1 .. Max
ASSUME KindsAssumption == Kinds \subseteq {"tcp", "mux", "bond"}

Guardian == "guardian"
ASSUME GuardianAssumption == Guardian \notin Workers

VARIABLES
  (* link_data *)
  running,      (* running and not stop_event.                             *)
  desired,      (* desired_workers.                                        *)
  registry,     (* worker_threads.                                         *)
  tracked,      (* sockets: <<worker, end>> for its connection and target. *)
  sessions,     (* Workers whose session is in active_bridges.             *)
  (* The workers. *)
  pc, kind,
  conn, local,  (* Its tunnel and its connection to the service.           *)
  lead,         (* Whose session a bond's lane waits for; its own, if none.*)
  (* The guardian, first the loop of start_link. *)
  guard, plan,
  (* stop_link_lifecycle. *)
  stop

linkVars == <<running, desired, registry, tracked, sessions>>
workerVars == <<pc, kind, conn, local, lead>>
vars == <<linkVars, workerVars, guard, plan, stop>>

Reserve(active, ready) ==
  IF active + ready < Max THEN active + ready ELSE Max

(* desired_reverse_workers under normal, soft and hard thread pressure.    *)
Half == IF MinReady \div 2 > 1 THEN MinReady \div 2 ELSE 1
DesiredWorkers(active) ==
  {Reserve(active, MinReady), Reserve(active, Half), Reserve(active, 1)}

Init ==
  /\ running = TRUE /\ registry = {} /\ tracked = {} /\ sessions = {}
  /\ desired \in DesiredWorkers(0)
  /\ pc = [w \in Workers |-> "none"] /\ kind = [w \in Workers |-> "tcp"]
  /\ conn = [w \in Workers |-> "none"] /\ local = [w \in Workers |-> "none"]
  /\ lead = [w \in Workers |-> w]
  /\ guard = "check" /\ plan = desired
  /\ stop = "no"

Goto(w, l) == pc' = [pc EXCEPT ![w] = l]
Surplus == Cardinality(registry) > desired
(* A call on the socket returns: the peer or a shutdown has ended it.      *)
Woken(s) == s \in {"dead", "shut"}

------------------------------------------------------------------------------
(* Spawning: a test under the lock, a registration under another one.      *)

At(p, l) == IF p = Guardian THEN guard = l ELSE pc[p] = l

(* Where a worker goes once it has asked for its replacement. *)
AfterSpawn(w) ==
  CASE kind[w] = "mux"  -> "mux_join"
    [] kind[w] = "bond" -> "group"
    [] OTHER            -> "dial_local"

(* spawner() returned r. *)
Spawned(p, r) ==
  IF p = Guardian
  THEN /\ plan' = IF r THEN plan - 1 ELSE 0
       /\ guard' = IF plan' = 0 THEN "idle" ELSE "check"
  ELSE UNCHANGED <<guard, plan>>

(* Mutant: one worker too many. *)
MaySpawnOneMore == running /\ Cardinality(registry) <= desired

MaySpawn == running /\ Cardinality(registry) < desired

SpawnCheck(p) ==
  /\ At(p, "check")
  /\ IF MaySpawn
     THEN IF p = Guardian
          THEN guard' = "start" /\ UNCHANGED <<pc, plan>>
          ELSE Goto(p, "start") /\ UNCHANGED <<guard, plan>>
     ELSE /\ Spawned(p, FALSE)
          /\ IF p = Guardian THEN UNCHANGED pc ELSE Goto(p, AfterSpawn(p))
  /\ UNCHANGED <<linkVars, kind, conn, local, lead, stop>>

(* start_link_thread. *)
StartThread(p) ==
  /\ At(p, "start") /\ running
  /\ \E t \in Workers :
       /\ pc[t] = "none"
       /\ registry' = registry \cup {t}
       /\ pc' = [x \in Workers |-> IF x = t THEN "top"
                                   ELSE IF x = p THEN AfterSpawn(p) ELSE pc[x]]
  /\ Spawned(p, TRUE)
  /\ UNCHANGED <<running, desired, tracked, sessions, kind, conn, local, lead, stop>>

(* The link is stopping: None. *)
StartRefused(p) ==
  /\ At(p, "start") /\ ~running
  /\ IF p = Guardian THEN UNCHANGED pc ELSE Goto(p, AfterSpawn(p))
  /\ Spawned(p, FALSE)
  /\ UNCHANGED <<linkVars, kind, conn, local, lead, stop>>

(* The system has no thread to give: a worker drops its connection.        *)
StartRaises(p) ==
  /\ ThreadsFail /\ At(p, "start") /\ running
  /\ IF p = Guardian THEN UNCHANGED pc ELSE Goto(p, "failed")
  /\ Spawned(p, FALSE)
  /\ UNCHANGED <<linkVars, kind, conn, local, lead, stop>>

------------------------------------------------------------------------------
(* Sockets: "none" before the iteration has dialled, "open", "dead" when   *)
(* the far end has left, "shut" by the stop, and "closed".                 *)

(* The worker closes its socket. *)
Closed(s) == IF s = "none" THEN s ELSE "closed"
(* Another thread closes it without a shutdown: the descriptor is gone,    *)
(* but a call on it that has not returned yet still waits.                 *)
ClosedUnder(s) == IF s = "open" THEN "closed" ELSE s

(* Mutant: a socket is tracked whether the link is stopping or not. *)
TrackAnyway(w, end, failed, next) ==
  /\ tracked' = tracked \cup {<<w, end>>}
  /\ Goto(w, next)
  /\ UNCHANGED <<conn, local>>

(* track_link_socket: closes what it cannot track, and raises. *)
Track(w, end, failed, next) ==
  IF running
  THEN /\ tracked' = tracked \cup {<<w, end>>}
       /\ Goto(w, next)
       /\ UNCHANGED <<conn, local>>
  ELSE /\ IF end = "conn"
          THEN conn' = [conn EXCEPT ![w] = "closed"] /\ UNCHANGED local
          ELSE local' = [local EXCEPT ![w] = "closed"] /\ UNCHANGED conn
       /\ Goto(w, failed)
       /\ UNCHANGED tracked

(* close and untrack_link_socket for the tunnel of w.                      *)
CloseConn(w) ==
  /\ conn' = [conn EXCEPT ![w] = Closed(@)]
  /\ tracked' = tracked \ {<<w, "conn">>}
  /\ UNCHANGED local

(* The same for the tunnel and the service.                                *)
CloseBoth(w) ==
  /\ conn' = [conn EXCEPT ![w] = Closed(@)]
  /\ local' = [local EXCEPT ![w] = Closed(@)]
  /\ tracked' = tracked \ {<<w, "conn">>, <<w, "local">>}

(* should_retire_reverse_worker, after a failure. *)
Retry(w) == Goto(w, IF Surplus THEN "exit" ELSE "top")

------------------------------------------------------------------------------
(* reverse_link_worker: up to the header that assigns the connection.      *)

Top(w) ==
  /\ pc[w] = "top"
  /\ IF ~running \/ Surplus
     THEN Goto(w, "exit") /\ UNCHANGED <<conn, local>>
     ELSE /\ Goto(w, "dial")
          /\ conn' = [conn EXCEPT ![w] = "none"]
          /\ local' = [local EXCEPT ![w] = "none"]
  /\ UNCHANGED <<linkVars, kind, lead, guard, plan, stop>>

Dial(w) ==
  /\ pc[w] = "dial"
  /\ \/ conn' = [conn EXCEPT ![w] = "open"] /\ Goto(w, "track")
     \/ Goto(w, "failed") /\ UNCHANGED conn
  /\ UNCHANGED <<linkVars, kind, local, lead, guard, plan, stop>>

TrackConn(w) ==
  /\ pc[w] = "track"
  /\ Track(w, "conn", "failed", IF Tls THEN "wrap" ELSE "header")
  /\ UNCHANGED <<running, desired, registry, sessions, kind, lead, guard, plan, stop>>

(* wrap_socket takes the descriptor away from the tracked socket.          *)
Wrap(w) ==
  /\ pc[w] = "wrap"
  /\ Goto(w, IF conn[w] = "open" THEN "shake" ELSE "tls_failed")
  /\ UNCHANGED <<linkVars, kind, conn, local, lead, guard, plan, stop>>

(* The peer answers the handshake, and the raw socket is untracked; or it  *)
(* fails, which closes the descriptor.                                     *)
Handshake(w) ==
  /\ pc[w] = "shake"
  /\ \/ /\ Goto(w, "track_tls") /\ UNCHANGED conn
        /\ tracked' = tracked \ {<<w, "conn">>}
     \/ /\ Goto(w, "tls_failed") /\ UNCHANGED tracked
        /\ conn' = [conn EXCEPT ![w] = "closed"]
  /\ UNCHANGED <<running, desired, registry, sessions, kind, local, lead, guard, plan, stop>>

TrackTls(w) ==
  /\ pc[w] = "track_tls"
  /\ Track(w, "conn", "tls_failed", "header")
  /\ UNCHANGED <<running, desired, registry, sessions, kind, lead, guard, plan, stop>>

TlsFails(w) ==
  /\ pc[w] = "tls_failed"
  /\ CloseConn(w) /\ Retry(w)
  /\ UNCHANGED <<running, desired, registry, sessions, kind, lead, guard, plan, stop>>

(* perform_handshake is refused. *)
HandshakeFails(w) ==
  /\ pc[w] = "header" /\ conn[w] = "open"
  /\ CloseConn(w) /\ Retry(w)
  /\ UNCHANGED <<running, desired, registry, sessions, kind, lead, guard, plan, stop>>

(* The connection ended before recv_exact had the header.                  *)
NoHeader(w) ==
  /\ pc[w] = "header" /\ conn[w] # "open"
  /\ CloseConn(w) /\ Retry(w)
  /\ UNCHANGED <<running, desired, registry, sessions, kind, lead, guard, plan, stop>>

(* The internal node assigns the connection. *)
Header(w) ==
  /\ pc[w] = "header" /\ conn[w] = "open"
  /\ \E k \in Kinds : kind' = [kind EXCEPT ![w] = k]
  /\ Goto(w, "grow")
  /\ UNCHANGED <<linkVars, conn, local, lead, guard, plan, stop>>

(* Make room for a replacement of the connection just consumed. *)
Grow(w) ==
  /\ pc[w] = "grow"
  /\ LET a == Reserve(desired, 1)
         b == Reserve(Cardinality(sessions) + 1, MinReady)
     IN  desired' = IF a > b THEN a ELSE b
  /\ Goto(w, "check")
  /\ UNCHANGED <<running, registry, tracked, sessions, kind, conn, local, lead, guard, plan, stop>>

(* A join header does not arrive: the connection has ended.                *)
NoJoin(w) ==
  /\ pc[w] \in {"mux_join", "group"} /\ conn[w] # "open"
  /\ Goto(w, IF kind[w] = "mux" THEN "mux_failed" ELSE "bond_failed")
  /\ UNCHANGED <<linkVars, kind, conn, local, lead, guard, plan, stop>>

------------------------------------------------------------------------------
(* A shared mux carrier *)

(* receive_mux_join; the header may be invalid, and the start of the       *)
(* heartbeat may raise out of carrier.run().                               *)
MuxJoin(w) ==
  /\ pc[w] = "mux_join" /\ conn[w] = "open"
  /\ pc' \in {[pc EXCEPT ![w] = "carrier"], [pc EXCEPT ![w] = "mux_failed"]}
  /\ UNCHANGED <<linkVars, kind, conn, local, lead, guard, plan, stop>>

(* carrier.run() returns, its close() done. *)
CarrierEnds(w) ==
  /\ pc[w] = "carrier" /\ Woken(conn[w])
  /\ CloseConn(w) /\ Goto(w, "top")
  /\ UNCHANGED <<running, desired, registry, sessions, kind, lead, guard, plan, stop>>

(* carrier.close() by its heartbeat: on_close untracks what run() reads.   *)
HeartbeatCloses(w) ==
  /\ pc[w] = "carrier"
  /\ conn' = [conn EXCEPT ![w] = ClosedUnder(@)]
  /\ tracked' = tracked \ {<<w, "conn">>}
  /\ UNCHANGED <<running, desired, registry, sessions, pc, kind, local, lead, guard, plan, stop>>

MuxFails(w) ==
  /\ pc[w] = "mux_failed"
  /\ CloseConn(w) /\ Goto(w, "top")
  /\ UNCHANGED <<running, desired, registry, sessions, kind, lead, guard, plan, stop>>

------------------------------------------------------------------------------
(* A lane of a bond *)

(* receive_bond_join, from where the group owns the lane; the header or    *)
(* the group may be wrong.                                                 *)
BondJoin(w) ==
  /\ pc[w] = "group" /\ conn[w] = "open"
  /\ \/ Goto(w, "bond_failed") /\ UNCHANGED tracked
     \/ /\ tracked' = tracked \ {<<w, "conn">>}
        /\ pc' \in {[pc EXCEPT ![w] = "lanes"], [pc EXCEPT ![w] = "bond_failed"]}
  /\ UNCHANGED <<running, desired, registry, sessions, kind, conn, local, lead, guard, plan, stop>>

Waiting == {w \in Workers : pc[w] = "lanes"}
Followers(w) == {v \in Workers \ {w} : lead[v] = w}

(* All lanes of a group are there.  One worker claims it, the others wait  *)
(* for group.done, with no timeout.                                        *)
Lead(w) ==
  /\ pc[w] = "lanes"
  /\ \E S \in SUBSET (Waiting \ {w}) \ {{}} :
       /\ lead' = [v \in Workers |-> IF v \in S THEN w ELSE lead[v]]
       /\ pc' = [v \in Workers |-> IF v \in S THEN "follow"
                                   ELSE IF v = w THEN "dial_local" ELSE pc[v]]
  /\ UNCHANGED <<linkVars, kind, conn, local, guard, plan, stop>>

(* group.ready.wait(BONDING_JOIN_TIMEOUT) is over. *)
LanesTimeout(w) ==
  /\ pc[w] = "lanes"
  /\ Goto(w, "bond_failed")
  /\ UNCHANGED <<linkVars, kind, conn, local, lead, guard, plan, stop>>

(* group.done is set: the leader has closed the lane.                      *)
FollowerWakes(w) ==
  /\ pc[w] = "follow" /\ lead[w] = w
  /\ Goto(w, "top")
  /\ UNCHANGED <<linkVars, kind, conn, local, lead, guard, plan, stop>>

(* group.done.set() *)
ReleaseFollowers(w) == lead' = [v \in Workers |-> IF lead[v] = w THEN v ELSE lead[v]]

(* bonded_bridge ends with any of its sockets, and closes them all.        *)
BondEnds(w) ==
  /\ pc[w] = "bonded"
  /\ Woken(local[w]) \/ \E v \in {w} \cup Followers(w) : Woken(conn[v])
  /\ local' = [local EXCEPT ![w] = Closed(@)]
  /\ conn' = [v \in Workers |->
       IF v \in {w} \cup Followers(w) THEN Closed(conn[v]) ELSE conn[v]]
  /\ sessions' = sessions \ {w}
  /\ Goto(w, "bond_over")
  /\ UNCHANGED <<running, desired, registry, tracked, kind, lead, guard, plan, stop>>

(* The finally of the leader; bonded_bridge may have raised.               *)
BondOver(w) ==
  /\ pc[w] = "bond_over"
  /\ tracked' = tracked \ {<<w, "local">>}
  /\ ReleaseFollowers(w)
  /\ pc' \in {[pc EXCEPT ![w] = "top"], [pc EXCEPT ![w] = "bond_failed"]}
  /\ UNCHANGED <<running, desired, registry, sessions, kind, conn, local, guard, plan, stop>>

(* group.close() on the lanes that have joined, those of workers that      *)
(* still wait for the rest included; then the worker's own sockets.        *)
BondFails(w) ==
  /\ pc[w] = "bond_failed"
  /\ \E S \in SUBSET Waiting :
       conn' = [v \in Workers |->
         IF v \in {w} \cup Followers(w) \cup S THEN Closed(conn[v]) ELSE conn[v]]
  /\ local' = [local EXCEPT ![w] = Closed(@)]
  /\ tracked' = tracked \ {<<w, "conn">>, <<w, "local">>}
  /\ ReleaseFollowers(w)
  /\ Goto(w, "top")
  /\ UNCHANGED <<running, desired, registry, sessions, kind, guard, plan, stop>>

------------------------------------------------------------------------------
(* The service, and the session *)

DialLocal(w) ==
  /\ pc[w] = "dial_local"
  /\ \/ local' = [local EXCEPT ![w] = "open"] /\ Goto(w, "track_local")
     \/ Goto(w, IF kind[w] = "bond" THEN "bond_failed" ELSE "failed") /\ UNCHANGED local
  /\ UNCHANGED <<linkVars, kind, conn, lead, guard, plan, stop>>

TrackLocal(w) ==
  /\ pc[w] = "track_local"
  /\ Track(w, "local", IF kind[w] = "bond" THEN "bond_failed" ELSE "failed", "enter")
  /\ UNCHANGED <<running, desired, registry, sessions, kind, lead, guard, plan, stop>>

(* Mutant: the tunnel is forgotten. *)
ConnectFailsLocal(w) ==
  /\ pc[w] = "failed"
  /\ local' = [local EXCEPT ![w] = Closed(@)]
  /\ tracked' = tracked \ {<<w, "local">>}
  /\ UNCHANGED conn
  /\ Retry(w)
  /\ UNCHANGED <<running, desired, registry, sessions, kind, lead, guard, plan, stop>>

(* Whatever was raised from the dial on. *)
ConnectFails(w) ==
  /\ pc[w] = "failed"
  /\ CloseBoth(w) /\ Retry(w)
  /\ UNCHANGED <<running, desired, registry, sessions, kind, lead, guard, plan, stop>>

(* bridge and bonded_bridge register their session, stopping or not. *)
EnterBridge(w) ==
  /\ pc[w] = "enter"
  /\ sessions' = sessions \cup {w}
  /\ Goto(w, IF kind[w] = "bond" THEN "bonded" ELSE "select")
  /\ UNCHANGED <<running, desired, registry, tracked, kind, conn, local, lead, guard, plan, stop>>

(* bridge's loop leaves select and waits in a recv of the framed or TLS    *)
(* tunnel, or in a sendall, ...                                            *)
CallWaits(w) ==
  /\ pc[w] = "select" /\ Stalls
  /\ \/ conn[w] = "open" /\ Goto(w, "on_conn")
     \/ local[w] = "open" /\ Goto(w, "on_local")
  /\ UNCHANGED <<linkVars, kind, conn, local, lead, guard, plan, stop>>

(* ... which returns when its socket has ended, ... *)
CallEnds(w) ==
  /\ \/ pc[w] = "on_conn" /\ Woken(conn[w])
     \/ pc[w] = "on_local" /\ Woken(local[w])
  /\ Goto(w, "select")
  /\ UNCHANGED <<linkVars, kind, conn, local, lead, guard, plan, stop>>

(* ... or when the far end sends the rest or makes room. *)
CallReturns(w) ==
  /\ \/ pc[w] = "on_conn" /\ conn[w] = "open"
     \/ pc[w] = "on_local" /\ local[w] = "open"
  /\ Goto(w, "select")
  /\ UNCHANGED <<linkVars, kind, conn, local, lead, guard, plan, stop>>

(* select returns every second and fails on a descriptor that is closed.   *)
(* session.close() *)
BridgeEnds(w) ==
  /\ pc[w] = "select" /\ (conn[w] # "open" \/ local[w] # "open")
  /\ conn' = [conn EXCEPT ![w] = Closed(@)]
  /\ local' = [local EXCEPT ![w] = Closed(@)]
  /\ sessions' = sessions \ {w}
  /\ Goto(w, "bridged")
  /\ UNCHANGED <<running, desired, registry, tracked, kind, lead, guard, plan, stop>>

(* The finally after bridge: both are untracked. *)
BridgeOver(w) ==
  /\ pc[w] = "bridged"
  /\ tracked' = tracked \ {<<w, "conn">>, <<w, "local">>}
  /\ Goto(w, "top")
  /\ UNCHANGED <<running, desired, registry, sessions, kind, conn, local, lead, guard, plan, stop>>

(* The finally of the worker and that of its runner. *)
Exit(w) ==
  /\ pc[w] = "exit"
  /\ CloseBoth(w)
  /\ registry' = registry \ {w}
  /\ Goto(w, "none")
  /\ UNCHANGED <<running, desired, sessions, kind, lead, guard, plan, stop>>

------------------------------------------------------------------------------
(* run_thread_guardian_for_link *)

(* Mutant: the guardian does not look for missing workers. *)
GuardianObserves ==
  /\ guard = "idle" /\ running
  /\ desired' \in DesiredWorkers(Cardinality(sessions))
  /\ plan' = 0 /\ guard' = "idle"
  /\ UNCHANGED <<running, registry, tracked, sessions, workerVars, stop>>

GuardianScan ==
  /\ guard = "idle" /\ running
  /\ desired' \in DesiredWorkers(Cardinality(sessions))
  /\ plan' = IF Cardinality(registry) < desired' THEN desired' - Cardinality(registry) ELSE 0
  /\ guard' = IF plan' = 0 THEN "idle" ELSE "check"
  /\ UNCHANGED <<running, registry, tracked, sessions, workerVars, stop>>

------------------------------------------------------------------------------
(* stop_link_lifecycle, and the monitor of the sessions. *)

(* BridgeSession.close and BondBridgeSession.close for the sessions of S,  *)
(* by another thread: no shutdown, so no thread in a call is woken.        *)
CloseSessions(S) ==
  /\ conn' = [w \in Workers |->
       IF w \in S \/ lead[w] \in S THEN ClosedUnder(conn[w]) ELSE conn[w]]
  /\ local' = [w \in Workers |-> IF w \in S THEN ClosedUnder(local[w]) ELSE local[w]]
  /\ sessions' = sessions \ S

StopFlag ==
  /\ Stoppable /\ stop = "no"
  /\ running' = FALSE /\ stop' = "sessions"
  /\ UNCHANGED <<desired, registry, tracked, sessions, workerVars, guard, plan>>

(* close_link_bridge_sessions *)
StopSessions ==
  /\ stop = "sessions" /\ stop' = "sockets"
  /\ CloseSessions(sessions)
  /\ UNCHANGED <<running, desired, registry, tracked, pc, kind, lead, guard, plan>>

(* Every socket still tracked is shut down and closed, unless its          *)
(* descriptor is closed already or wrap_socket has taken it away.          *)
StopSockets ==
  /\ stop = "sockets" /\ stop' = "join"
  /\ conn' = [w \in Workers |->
       IF <<w, "conn">> \in tracked /\ conn[w] \in {"open", "dead"} /\ pc[w] # "shake"
       THEN "shut" ELSE conn[w]]
  /\ local' = [w \in Workers |->
       IF <<w, "local">> \in tracked /\ local[w] \in {"open", "dead"}
       THEN "shut" ELSE local[w]]
  /\ UNCHANGED <<linkVars, pc, kind, lead, guard, plan>>

(* The joins have a deadline, so they end whatever the threads do. *)
StopJoin ==
  /\ stop = "join" /\ stop' = "done"
  /\ tracked' = {}
  /\ UNCHANGED <<running, desired, registry, sessions, workerVars, guard, plan>>

(* start_bridge_monitor finds the session of w idle. *)
IdleCloses(w) ==
  /\ w \in sessions /\ Stalls
  /\ CloseSessions({w})
  /\ UNCHANGED <<running, desired, registry, tracked, pc, kind, lead, guard, plan, stop>>

------------------------------------------------------------------------------
(* The internal node and the service leave. *)

PeerLeaves(w) ==
  /\ conn[w] = "open"
  /\ conn' = [conn EXCEPT ![w] = "dead"]
  /\ UNCHANGED <<linkVars, pc, kind, local, lead, guard, plan, stop>>

ServiceLeaves(w) ==
  /\ local[w] = "open"
  /\ local' = [local EXCEPT ![w] = "dead"]
  /\ UNCHANGED <<linkVars, pc, kind, conn, lead, guard, plan, stop>>

(* w is in a call on a descriptor that another thread has closed.          *)
HeldUp(w) ==
  \/ pc[w] \in {"carrier", "on_conn"} /\ conn[w] = "closed"
  \/ pc[w] = "on_local" /\ local[w] = "closed"
  \/ pc[w] = "bonded" /\ local[w] = "closed" /\ \A v \in {w} \cup Followers(w) : ~Woken(conn[v])

(* The far end of such a call leaves: it returns. *)
FarEndLeaves(w) ==
  /\ HeldUp(w)
  /\ IF pc[w] \in {"on_local", "bonded"}
     THEN local' = [local EXCEPT ![w] = "dead"] /\ UNCHANGED conn
     ELSE conn' = [conn EXCEPT ![w] = "dead"] /\ UNCHANGED local
  /\ UNCHANGED <<linkVars, pc, kind, lead, guard, plan, stop>>

------------------------------------------------------------------------------
WorkerSteps(w) ==
  \/ SpawnCheck(w) \/ StartThread(w) \/ StartRefused(w) \/ StartRaises(w)
  \/ Top(w) \/ Dial(w) \/ TrackConn(w) \/ Wrap(w) \/ TrackTls(w) \/ TlsFails(w)
  \/ NoHeader(w) \/ Grow(w) \/ NoJoin(w)
  \/ CarrierEnds(w) \/ MuxFails(w)
  \/ Lead(w) \/ LanesTimeout(w) \/ FollowerWakes(w) \/ BondEnds(w) \/ BondOver(w) \/ BondFails(w)
  \/ DialLocal(w) \/ TrackLocal(w) \/ ConnectFails(w)
  \/ EnterBridge(w) \/ CallEnds(w) \/ BridgeEnds(w) \/ BridgeOver(w) \/ Exit(w)

GuardianSteps ==
  \/ SpawnCheck(Guardian) \/ StartThread(Guardian)
  \/ StartRefused(Guardian) \/ StartRaises(Guardian) \/ GuardianScan

StopSteps == StopSessions \/ StopSockets \/ StopJoin

(* What the far ends owe a thread that waits for them after a stop. *)
PeerAnswers(w) == Handshake(w) \/ FarEndLeaves(w)

(* What the internal node and the service may do at any time. *)
PeerSteps(w) ==
  \/ Header(w) \/ HandshakeFails(w) \/ MuxJoin(w) \/ BondJoin(w)
  \/ CallWaits(w) \/ CallReturns(w) \/ PeerLeaves(w) \/ ServiceLeaves(w)

Next ==
  \/ \E w \in Workers :
       WorkerSteps(w) \/ PeerSteps(w) \/ PeerAnswers(w) \/ HeartbeatCloses(w) \/ IdleCloses(w)
  \/ GuardianSteps \/ StopFlag \/ StopSteps

(* Threads run; the internal node, the services and the operator need not. *)
Spec ==
  /\ Init /\ [][Next]_vars
  /\ \A w \in Workers : WF_vars(WorkerSteps(w))
  /\ WF_vars(GuardianSteps) /\ WF_vars(StopSteps)

(* The far ends answer a handshake and leave a session this node has left. *)
PeerSpec == Spec /\ \A w \in Workers : WF_vars(PeerAnswers(w))

------------------------------------------------------------------------------
SocketState == {"none", "open", "dead", "closed", "shut"}
Place == {"none", "top", "dial", "track", "wrap", "shake", "track_tls", "tls_failed",
          "header", "grow", "check", "start", "mux_join", "carrier", "mux_failed",
          "group", "lanes", "follow", "bonded", "bond_over", "bond_failed",
          "dial_local", "track_local", "enter", "select", "on_conn", "on_local",
          "bridged", "failed", "exit"}

(* Every variable keeps its type; desired_workers stays within the         *)
(* configured maximum and a thread is registered exactly while it runs.    *)
TypeOK ==
  /\ running \in BOOLEAN /\ desired \in 1 .. Max
  /\ pc \in [Workers -> Place] /\ registry = {w \in Workers : pc[w] # "none"}
  /\ tracked \subseteq Workers \X {"conn", "local"} /\ sessions \subseteq Workers
  /\ kind \in [Workers -> {"tcp", "mux", "bond"}] /\ lead \in [Workers -> Workers]
  /\ conn \in [Workers -> SocketState] /\ local \in [Workers -> SocketState]
  /\ guard \in {"idle", "check", "start"} /\ plan \in 0 .. Max
  /\ stop \in {"no", "sessions", "sockets", "join", "done"}

(* spawn_reverse_worker tests and registers under two acquisitions of the  *)
(* lock, so max_workers can be exceeded, but only by the spawns that were  *)
(* under way when the last place was taken.                                *)
WorkersBounded == Cardinality(registry) <= 2 * Max - 1

(* A worker that starts over, retires or is gone holds no socket, open or  *)
(* tracked: each of the exits of the loop, and the leader of a bond for    *)
(* its followers, has closed and untracked what that iteration opened.     *)
NothingLeaks ==
  \A w \in Workers : pc[w] \in {"none", "exit", "top"} =>
    /\ conn[w] \notin {"open", "dead"} /\ local[w] \notin {"open", "dead"}
    /\ <<w, "conn">> \notin tracked /\ <<w, "local">> \notin tracked

(* What a worker may still wait for when a stop is over: the far end of a  *)
(* call on a descriptor that was closed under it (by                       *)
(* close_link_bridge_sessions, the monitor or a heartbeat: shutdown no     *)
(* longer reaches that one) or of a TLS handshake, or, as a lane of a bond *)
(* whose leader is held up so, that leader.                                *)
Excused(w) == HeldUp(w) \/ pc[w] = "shake" \/ (pc[w] = "follow" /\ HeldUp(lead[w]))
=============================================================================
