------------------------------ MODULE MuxPool ------------------------------
(***************************************************************************)
(* The carriers of a link's shared mux on the internal node, and the user  *)
(* threads that open streams on them (SharedMuxPool, register_stream,      *)
(* maintain_mux_carriers and handle_user in P00RIJA.py).  What travels on  *)
(* a carrier is the subject of MuxCarrier; here several carriers come and  *)
(* go while users choose one, fail, and try the next with the same socket. *)
(*                                                                         *)
(* A session is <<u, k>>: user u's k-th attempt.                           *)
(***************************************************************************)
EXTENDS Integers, FiniteSets

CONSTANTS
  Users,        (* User connections.                                       *)
  Tries,        (* Attempts POOL_WAIT allows a user at most.               *)
  Carriers,     (* Carrier objects.                                        *)
  NoCarrier,
  Limit,        (* MUX_MAX_STREAMS_PER_CARRIER.                            *)
  MinCarriers, MaxCarriers,
  MinStreams,   (* Streams per carrier the pool aims at.                   *)
  Cuttable,     (* Carriers' connections may be lost.                      *)
  ThreadsFail,  (* Thread.start may fail.                                  *)
  Stoppable     (* The link may be stopped.                                *)

ASSUME NoCarrierAssumption == NoCarrier \notin Carriers
ASSUME TriesAssumption     == Tries \in Nat \ {0} /\ Limit \in Nat \ {0}
ASSUME SizesAssumption     == /\ MinCarriers \in Nat \ {0} /\ MaxCarriers \in Nat
                              /\ MinCarriers <= MaxCarriers /\ MinStreams \in Nat \ {0}

Sessions == Users \X (1 .. Tries)
Ids == 0 .. MaxCarriers - 1

VARIABLES
  (* handle_user *)
  upc, try, chosen,
  sock,        (* The user's socket is open.                               *)
  left,        (* The user has left (history).                             *)
  uncounted,   (* Sessions whose writer could not start (history).         *)
  (* MuxStreamSession *)
  sess,        (* "none", "open" or "closed".                              *)
  on,          (* The session's carrier.                                   *)
  active,      (* active_bridges.                                          *)
  mux_streams,
  (* SharedMuxCarrier *)
  phase,       (* "unused", "join", "made", "run", "closing", "closed".    *)
  cid, streams, lost,
  (* SharedMuxPool and maintain_mux_carriers *)
  carriers,    (* [carrier id -> carrier].                                 *)
  desired, mpc, cand, excess,
  (* The link *)
  running, stop

userVars    == <<upc, try, chosen, left, uncounted>>
sessionVars == <<sock, sess, on, active, mux_streams>>
carrierVars == <<phase, cid, lost>>
poolVars    == <<carriers, desired, mpc, cand, excess>>
linkVars    == <<running, stop>>
vars == <<userVars, sessionVars, carrierVars, streams, poolVars, linkVars>>

Init ==
  /\ upc = [u \in Users |-> "try"] /\ try \in [Users -> 1 .. Tries]
  /\ chosen = [u \in Users |-> NoCarrier]
  /\ sock = [u \in Users |-> TRUE] /\ left = [u \in Users |-> FALSE]
  /\ uncounted = {}
  /\ sess = [s \in Sessions |-> "none"] /\ on = [s \in Sessions |-> NoCarrier]
  /\ active = {} /\ mux_streams = 0
  /\ phase = [c \in Carriers |-> "unused"] /\ cid = [c \in Carriers |-> 0]
  /\ streams = [c \in Carriers |-> {}] /\ lost = [c \in Carriers |-> FALSE]
  /\ carriers = [i \in Ids |-> NoCarrier] /\ desired = MinCarriers
  /\ mpc = "balance" /\ cand = NoCarrier /\ excess = 0
  /\ running = TRUE /\ stop = "no"

Runs(c) == phase[c] \in {"made", "run"}
(* live_carriers *)
Live == {c \in {carriers[i] : i \in Ids} \ {NoCarrier} : Runs(c)}
Load(c) == Cardinality(streams[c])
Session(u) == <<u, try[u]>>
Step(u, l) == upc' = [upc EXCEPT ![u] = l]
Floor(n) == IF n > 0 THEN n ELSE 0

------------------------------------------------------------------------------
(* MuxStreamSession.close, of the sessions of S not yet closed: the user's *)
(* socket, the stream, the counter and active_bridges.                     *)

(* Mutant: a session may be closed twice. *)
CloseTwice(S) ==
  /\ sess' = [s \in Sessions |-> IF s \in S THEN "closed" ELSE sess[s]]
  /\ sock' = [u \in Users |-> sock[u] /\ ~\E s \in S : s[1] = u]
  /\ streams' = [c \in Carriers |-> streams[c] \ S]
  /\ mux_streams' = Floor(mux_streams - Cardinality(S))
  /\ active' = active \ S

CloseSessions(S) ==
  LET open == {s \in S : sess[s] = "open"}
  IN  /\ sess' = [s \in Sessions |-> IF s \in open THEN "closed" ELSE sess[s]]
      /\ sock' = [u \in Users |-> sock[u] /\ ~\E s \in open : s[1] = u]
      /\ streams' = [c \in Carriers |-> streams[c] \ open]
      /\ mux_streams' = Floor(mux_streams - Cardinality(open))
      /\ active' = active \ S

------------------------------------------------------------------------------
(* handle_user: attempts until POOL_WAIT has passed. *)

NextTry(u) ==
  IF try[u] < Tries
  THEN Step(u, "try") /\ try' = [try EXCEPT ![u] = @ + 1]
  ELSE Step(u, "fallback") /\ UNCHANGED try

(* open_stream: the least loaded of the carriers with room. *)
Choose(u) ==
  /\ upc[u] = "try"
  /\ LET room == {c \in Live : Load(c) < Limit}
     IN  IF room = {}
         THEN NextTry(u) /\ UNCHANGED chosen
         ELSE /\ \E c \in room : /\ \A d \in room : Load(c) <= Load(d)
                                 /\ chosen' = [chosen EXCEPT ![u] = c]
              /\ Step(u, "register") /\ UNCHANGED try
  /\ UNCHANGED <<left, uncounted, sessionVars, carrierVars, streams, poolVars, linkVars>>

(* register_stream: a stopping link and a full carrier close the socket.   *)
RegisterStream(u) ==
  /\ upc[u] = "register"
  /\ LET s == Session(u)
         c == chosen[u]
     IN  IF running /\ Load(c) < Limit
         THEN /\ sess' = [sess EXCEPT ![s] = "open"]
              /\ on' = [on EXCEPT ![s] = c]
              /\ streams' = [streams EXCEPT ![c] = @ \cup {s}]
              /\ Step(u, "count")
              /\ UNCHANGED <<try, sock>>
         ELSE /\ sock' = [sock EXCEPT ![u] = FALSE]
              /\ NextTry(u)
              /\ UNCHANGED <<sess, on, streams>>
  /\ UNCHANGED <<chosen, left, uncounted, active, mux_streams, carrierVars, poolVars, linkVars>>

(* The writer's thread starts, and the counter follows under another lock. *)
CountStream(u) ==
  /\ upc[u] = "count"
  /\ mux_streams' = mux_streams + 1
  /\ Step(u, "enlist")
  /\ UNCHANGED <<try, chosen, left, uncounted, sock, sess, on, active, carrierVars, streams, poolVars, linkVars>>

(* The writer cannot start: the session stays registered, uncounted and    *)
(* unknown to the monitor.                                                 *)
WriterFails(u) ==
  /\ upc[u] = "count" /\ ThreadsFail /\ running
  /\ uncounted' = uncounted \cup {Session(u)}
  /\ NextTry(u)
  /\ UNCHANGED <<chosen, left, sessionVars, carrierVars, streams, poolVars, linkVars>>

(* Mutant: the session is not known to the monitor. *)
EnlistNot(u) ==
  /\ upc[u] = "enlist" /\ Step(u, "open")
  /\ UNCHANGED <<try, chosen, left, uncounted, sessionVars, carrierVars, streams, poolVars, linkVars>>

Enlist(u) ==
  /\ upc[u] = "enlist"
  /\ active' = active \cup {Session(u)}
  /\ Step(u, "open")
  /\ UNCHANGED <<try, chosen, left, uncounted, sock, sess, on, mux_streams, carrierVars, streams, poolVars, linkVars>>

(* Mutant: a frame is sent on a carrier that is closed. *)
SendOpenAnyway(u) ==
  /\ upc[u] = "open" /\ Step(u, "pump")
  /\ UNCHANGED <<try, chosen, left, uncounted, sessionVars, carrierVars, streams, poolVars, linkVars>>

(* The OPEN frame: on a carrier that is closed or lost, send_frame raises, *)
(* and the session stays as it is.                                         *)
SendOpen(u) ==
  /\ upc[u] = "open"
  /\ IF Runs(chosen[u]) /\ ~lost[chosen[u]]
     THEN Step(u, "pump") /\ UNCHANGED try
     ELSE NextTry(u)
  /\ UNCHANGED <<chosen, left, uncounted, sessionVars, carrierVars, streams, poolVars, linkVars>>

(* start_pump: without a thread for it the session stays as it is, too;    *)
(* for a link that is stopping none is started, and the user waits.        *)
StartPump(u) ==
  /\ upc[u] = "pump" /\ Step(u, "wait")
  /\ UNCHANGED <<try, chosen, left, uncounted, sessionVars, carrierVars, streams, poolVars, linkVars>>

PumpFails(u) ==
  /\ upc[u] = "pump" /\ ThreadsFail /\ running
  /\ NextTry(u)
  /\ UNCHANGED <<chosen, left, uncounted, sessionVars, carrierVars, streams, poolVars, linkVars>>

(* session.done is set. *)
UserDone(u) ==
  /\ upc[u] = "wait" /\ sess[Session(u)] = "closed"
  /\ Step(u, "done")
  /\ UNCHANGED <<try, chosen, left, uncounted, sessionVars, carrierVars, streams, poolVars, linkVars>>

(* The rest of handle_user serves the user over a tunnel of its own. *)
SingleTunnel(u) ==
  /\ upc[u] = "fallback"
  /\ Step(u, "single")
  /\ UNCHANGED <<try, chosen, left, uncounted, sessionVars, carrierVars, streams, poolVars, linkVars>>

(* The pump and the remote writer end a session whose socket is closed.    *)
StreamFails(u) ==
  /\ upc[u] = "wait" /\ ~sock[u] /\ sess[Session(u)] = "open"
  /\ CloseSessions({Session(u)})
  /\ UNCHANGED <<userVars, on, carrierVars, poolVars, linkVars>>

(* The stream ends in its own time. *)
StreamEnds(u) ==
  /\ upc[u] = "wait" /\ sess[Session(u)] = "open"
  /\ left' = [left EXCEPT ![u] = TRUE]
  /\ CloseSessions({Session(u)})
  /\ UNCHANGED <<upc, try, chosen, uncounted, on, carrierVars, poolVars, linkVars>>

(* The idle monitor takes a session out of active_bridges and closes it.   *)
Monitor(s) ==
  /\ s \in active
  /\ CloseSessions({s})
  /\ UNCHANGED <<userVars, on, carrierVars, poolVars, linkVars>>

------------------------------------------------------------------------------
(* SharedMuxCarrier.close: running first, the rest later. *)

CloseStarts(c) == phase' = [phase EXCEPT ![c] = "closing"]

(* Mutant: whatever carrier has the identifier is removed. *)
RemoveById(c) == carriers' = [carriers EXCEPT ![cid[c]] = NoCarrier]

RemoveCarrier(c) ==
  carriers' = IF carriers[cid[c]] = c
              THEN [carriers EXCEPT ![cid[c]] = NoCarrier] ELSE carriers

CarrierClears(c) ==
  /\ phase[c] = "closing"
  /\ CloseSessions(streams[c])
  /\ RemoveCarrier(c)
  /\ phase' = [phase EXCEPT ![c] = "closed"]
  /\ UNCHANGED <<userVars, on, cid, lost, desired, mpc, cand, excess, linkVars>>

(* The reader finds the connection lost. *)
ReaderFails(c) ==
  /\ phase[c] = "run" /\ lost[c]
  /\ CloseStarts(c)
  /\ UNCHANGED <<userVars, sessionVars, cid, lost, streams, poolVars, linkVars>>

Lose(c) ==
  /\ Cuttable /\ Runs(c) /\ ~lost[c]
  /\ lost' = [lost EXCEPT ![c] = TRUE]
  /\ UNCHANGED <<userVars, sessionVars, phase, cid, streams, poolVars, linkVars>>

------------------------------------------------------------------------------
(* maintain_mux_carriers *)

Maintain(l) == mpc' = l

(* rebalance, under some memory and thread pressure. *)
Caps == {MaxCarriers, MinCarriers,
         IF MaxCarriers \div 2 > MinCarriers THEN MaxCarriers \div 2 ELSE MinCarriers}

Rebalance ==
  /\ mpc = "balance" /\ running
  /\ LET used == Cardinality(UNION {streams[c] : c \in Live})
         aim == MinCarriers + Floor(used - 1) \div MinStreams
     IN  \E cap \in Caps : desired' = IF aim < cap THEN aim ELSE cap
  /\ excess' = Floor(Cardinality(Live) - desired')
  /\ Maintain("reap")
  /\ UNCHANGED <<userVars, sessionVars, carrierVars, streams, carriers, cand, linkVars>>

(* An old carrier without streams is one too many. *)
FindIdle ==
  /\ mpc = "reap" /\ excess > 0
  /\ \E c \in Live : Load(c) = 0 /\ cand' = c
  /\ excess' = excess - 1
  /\ Maintain("close")
  /\ UNCHANGED <<userVars, sessionVars, carrierVars, streams, carriers, desired, linkVars>>

CloseIdle ==
  /\ mpc = "close"
  /\ IF Runs(cand) THEN CloseStarts(cand) ELSE UNCHANGED phase
  /\ Maintain("reap")
  /\ UNCHANGED <<userVars, sessionVars, cid, lost, streams, carriers, desired, cand, excess, linkVars>>

(* None is left to close, or all are too young. *)
Reaped ==
  /\ mpc = "reap"
  /\ Maintain("fill")
  /\ UNCHANGED <<userVars, sessionVars, carrierVars, streams, carriers, desired, cand, excess, linkVars>>

Missing == {i \in 0 .. desired - 1 : ~\E c \in Live : cid[c] = i}

NothingMissing ==
  /\ mpc = "fill" /\ Missing = {}
  /\ Maintain("balance")
  /\ UNCHANGED <<userVars, sessionVars, carrierVars, streams, carriers, desired, cand, excess, linkVars>>

(* A carrier object nobody holds any more. *)
Fresh(c) ==
  /\ phase[c] \in {"unused", "closed"} /\ streams[c] = {}
  /\ \A i \in Ids : carriers[i] # c
  /\ \A u \in Users : chosen[u] = c => upc[u] \in {"single", "done"}

(* A reserve tunnel is taken from the pool for the first missing carrier.  *)
TakeTunnel ==
  /\ mpc = "fill"
  /\ \E i \in Missing, c \in Carriers :
       /\ \A j \in Missing : i <= j
       /\ Fresh(c)
       /\ cand' = c /\ cid' = [cid EXCEPT ![c] = i]
       /\ phase' = [phase EXCEPT ![c] = "join"]
       /\ lost' = [lost EXCEPT ![c] = FALSE]
  /\ Maintain("join")
  /\ UNCHANGED <<userVars, sessionVars, streams, carriers, desired, excess, linkVars>>

(* The pool is empty, or its tunnel dead. *)
NoTunnel ==
  /\ mpc = "fill" /\ Missing # {}
  /\ Maintain("balance")
  /\ UNCHANGED <<userVars, sessionVars, carrierVars, streams, carriers, desired, cand, excess, linkVars>>

JoinSent ==
  /\ mpc = "join"
  /\ phase' = [phase EXCEPT ![cand] = "made"]
  /\ carriers' = [carriers EXCEPT ![cid[cand]] = cand]
  /\ Maintain("start")
  /\ UNCHANGED <<userVars, sessionVars, cid, lost, streams, desired, cand, excess, linkVars>>

JoinFails ==
  /\ mpc = "join"
  /\ phase' = [phase EXCEPT ![cand] = "closed"]
  /\ Maintain("balance")
  /\ UNCHANGED <<userVars, sessionVars, cid, lost, streams, carriers, desired, cand, excess, linkVars>>

(* start_link_thread starts nothing for a link that is stopping. *)
StartCarrier ==
  /\ mpc = "start"
  /\ phase' = IF running /\ phase[cand] = "made" THEN [phase EXCEPT ![cand] = "run"] ELSE phase
  /\ Maintain("balance")
  /\ UNCHANGED <<userVars, sessionVars, cid, lost, streams, carriers, desired, cand, excess, linkVars>>

(* Without a thread for the carrier its connection is closed, without one  *)
(* for its heartbeat it is not: either way the carrier stays among those   *)
(* that run, with nobody to read it, and is not replaced.                  *)
StartCarrierFails ==
  /\ mpc = "start" /\ ThreadsFail /\ running
  /\ lost' \in {lost, [lost EXCEPT ![cand] = TRUE]}
  /\ Maintain("balance")
  /\ UNCHANGED <<userVars, sessionVars, phase, cid, streams, carriers, desired, cand, excess, linkVars>>

MaintainEnds ==
  /\ mpc = "balance" /\ ~running
  /\ Maintain("done")
  /\ UNCHANGED <<userVars, sessionVars, carrierVars, streams, carriers, desired, cand, excess, linkVars>>

------------------------------------------------------------------------------
(* stop_link_lifecycle *)

StopFlag ==
  /\ Stoppable /\ stop = "no"
  /\ running' = FALSE /\ stop' = "sessions"
  /\ UNCHANGED <<userVars, sessionVars, carrierVars, streams, poolVars>>

StopSessions ==
  /\ stop = "sessions" /\ stop' = "pool"
  /\ CloseSessions(active)
  /\ UNCHANGED <<userVars, on, carrierVars, poolVars, running>>

(* Mutant: the pool is not closed. *)
StopForgetsPool ==
  /\ stop = "pool" /\ stop' = "sockets"
  /\ UNCHANGED <<userVars, sessionVars, carrierVars, streams, poolVars, running>>

(* mux_pool.close: the carriers that are live now. *)
StopPool ==
  /\ stop = "pool" /\ stop' = "sockets"
  /\ phase' = [c \in Carriers |-> IF c \in Live THEN "closing" ELSE phase[c]]
  /\ UNCHANGED <<userVars, sessionVars, cid, lost, streams, poolVars, running>>

(* The users' sockets are tracked. *)
StopSockets ==
  /\ stop = "sockets" /\ stop' = "done"
  /\ sock' = [u \in Users |-> FALSE]
  /\ UNCHANGED <<userVars, sess, on, active, mux_streams, carrierVars, streams, poolVars, running>>

------------------------------------------------------------------------------
UserSteps(u) ==
  \/ Choose(u) \/ RegisterStream(u) \/ CountStream(u) \/ WriterFails(u) \/ Enlist(u)
  \/ SendOpen(u) \/ StartPump(u) \/ PumpFails(u)
  \/ UserDone(u) \/ SingleTunnel(u) \/ StreamFails(u)
MaintainSteps ==
  \/ Rebalance \/ FindIdle \/ CloseIdle \/ Reaped \/ NothingMissing \/ TakeTunnel
  \/ NoTunnel \/ JoinSent \/ JoinFails \/ StartCarrier \/ StartCarrierFails
  \/ MaintainEnds
StopSteps == StopSessions \/ StopPool \/ StopSockets

Next ==
  \/ \E u \in Users : UserSteps(u) \/ StreamEnds(u)
  \/ \E c \in Carriers : CarrierClears(c) \/ ReaderFails(c) \/ Lose(c)
  \/ \E s \in Sessions : Monitor(s)
  \/ MaintainSteps \/ StopFlag \/ StopSteps

(* Threads run: a carrier's, each user's, maintain_mux_carriers and the    *)
(* thread that stops the link.                                             *)
Spec ==
  /\ Init /\ [][Next]_vars
  /\ \A u \in Users : WF_vars(UserSteps(u))
  /\ \A c \in Carriers : WF_vars(CarrierClears(c) \/ ReaderFails(c))
  /\ WF_vars(MaintainSteps) /\ WF_vars(StopSteps)

------------------------------------------------------------------------------

(* The counter that steers new users and the status page misses an open    *)
(* stream only while it is being counted, and one for each stream whose    *)
(* writer could not start (it may count some that have ended).             *)
StreamsCounted ==
  Cardinality({s \in Sessions : sess[s] = "open"})
    <= mux_streams + Cardinality({u \in Users : upc[u] = "count"})
         + Cardinality(uncounted)

(* A carrier that runs is found by the users: the removal of a dead one    *)
(* never takes its replacement, of the same number, out of the pool.       *)
RunningCarriersFound ==
  \A c \in Carriers : phase[c] = "run" => carriers[cid[c]] = c

(* A user that waits for a session is released when its carrier closes.    *)
UsersReleased ==
  <>[](\A u \in Users : upc[u] = "wait" => Runs(chosen[u]))

(* After a stop the carriers that had started all close.  (One that was    *)
(* being made is neither started nor closed: phase "made".)                *)
StopClosesCarriers ==
  <>[](stop = "done" => \A c \in Carriers : phase[c] \notin {"run", "closing"})
=============================================================================
