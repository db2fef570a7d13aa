------------------------------- MODULE Bridge -------------------------------
(***************************************************************************)
(* The per-user data plane (bridge and TunnelSocket in P00RIJA.py): one    *)
(* user, one tunnel, one service.  Both nodes run the same loop, in one    *)
(* thread, between an application's socket and the tunnel.  The loop reads *)
(* a source that select reports, and writes all of it to the other socket  *)
(* before it looks at anything else; both writes can block.                *)
(*                                                                         *)
(* The n-th chunk an application supplies is represented by the number n.  *)
(* The mode of the tunnel decides what a half-close does: nothing over     *)
(* plain TLS, a FIN over TCP, an end frame over WebSocket and chunked HTTP.*)
(***************************************************************************)
EXTENDS Integers, Sequences, FiniteSets

CONSTANTS
  Mode,          (* "tcp", "tls" or "framed".                              *)
  WireCap,       (* Chunks the tunnel holds in flight each way.            *)
  MaxChunks,     (* [end -> chunks its application may supply].            *)
  Breakable,     (* Ends whose application may reset its connection.       *)
  Idle,          (* Ends whose session the idle monitor may close.         *)
  MayCut,        (* The tunnel may be cut.                                 *)
  PauseExpires   (* Applications may pause for the half-close grace.       *)

ASSUME ModeAssumption == Mode \in {"tcp", "tls", "framed"}
ASSUME CapAssumption  == WireCap \in Nat \ {0}

Sides == {"internal", "external"}
ASSUME ChunksAssumption == MaxChunks \in [Sides -> Nat]

Peer(e) == IF e = "internal" THEN "external" ELSE "internal"
EndFrame == 0

VARIABLES
  (* The applications (history). *)
  sent,        (* Chunks the bridge has read from the application.         *)
  fin,         (* The bridge has read the application's end of stream.     *)
  delivered,   (* Chunks written to the application.                       *)
  ended,       (* The bridge has half-closed the application's socket.     *)
  broken,      (* The application has reset its connection.                *)
  (* bridge *)
  loop,        (* "select", "to_tunnel", "to_app", "half", "close", "done".*)
  hand,        (* The chunk being written.                                 *)
  directions,  (* The sources still read: "app", "tunnel".                 *)
  half_closed, (* half_closed_at is set.                                   *)
  over,        (* The session's sockets have been closed.                  *)
  gave_up,     (* History: the end dropped a stream that was not over.     *)
  (* The tunnel: wire[e] is what e has sent and Peer(e) has not read. *)
  wire,
  lost         (* e has been told that the tunnel's connection is lost.    *)

appVars  == <<sent, fin, delivered, ended, broken>>
bridgeVars == <<appVars, loop, hand, directions, half_closed, over, gave_up, wire, lost>>

Each(v) == [e \in Sides |-> v]

BridgeInit ==
  /\ sent = Each(0) /\ fin = Each(FALSE) /\ delivered = Each(<<>>)
  /\ ended = Each(FALSE) /\ broken = Each(FALSE)
  /\ loop = Each("select") /\ hand = Each(0)
  /\ directions = Each({"app", "tunnel"}) /\ half_closed = Each(FALSE)
  /\ over = Each(FALSE) /\ gave_up = Each(FALSE)
  /\ wire = Each(<<>>) /\ lost = Each(FALSE)

(* The peer sees e's sockets closed: not while a thread of e is blocked in *)
(* a system call on them, which close() does not interrupt.                *)
Shut(e) == over[e] /\ loop[e] # "to_tunnel"
Gone(e) == lost[e] \/ Shut(Peer(e))
Room(e) == Len(wire[e]) < WireCap

LoopAt(e, pc) == loop' = [loop EXCEPT ![e] = pc]
Selecting(e, src) == loop[e] = "select" /\ src \in directions[e] /\ ~over[e]

(* A source has ended: it is read no more.                                 *)
Drop(e, src) ==
  /\ directions' = [directions EXCEPT ![e] = @ \ {src}]
  /\ half_closed' = [half_closed EXCEPT ![e] = TRUE]

(* Mutant: only a bare TCP tunnel is told.                                 *)
HalfCloseTcp(e) ==
  /\ wire' = [wire EXCEPT ![e] = IF Mode = "tcp" THEN Append(@, EndFrame) ELSE @]
  /\ LoopAt(e, "select")

(* shutdown(SHUT_WR) on the tunnel (endpoint_supports_half_close and       *)
(* TunnelSocket.shutdown): an end frame needs room on the connection.      *)
HalfCloseTunnel(e) ==
  CASE Mode = "tls"    -> LoopAt(e, "select") /\ UNCHANGED wire
    [] Mode = "tcp"    -> /\ wire' = [wire EXCEPT ![e] = Append(@, EndFrame)]
                          /\ LoopAt(e, "select")
    [] Mode = "framed" -> LoopAt(e, "half") /\ UNCHANGED wire

-----------------------------------------------------------------------------

ReadApp(e) ==
  /\ Selecting(e, "app") /\ ~broken[e] /\ sent[e] < MaxChunks[e]
  /\ sent' = [sent EXCEPT ![e] = @ + 1]
  /\ hand' = [hand EXCEPT ![e] = sent'[e]]
  /\ LoopAt(e, "to_tunnel")
  /\ UNCHANGED <<fin, delivered, ended, broken, directions, half_closed, over,
                 gave_up, wire, lost>>

ReadAppEof(e) ==
  /\ Selecting(e, "app") /\ ~broken[e]
  /\ fin' = [fin EXCEPT ![e] = TRUE]
  /\ Drop(e, "app") /\ HalfCloseTunnel(e)
  /\ UNCHANGED <<sent, delivered, ended, broken, hand, over, gave_up, lost>>

(* recv raises: the code takes it for an end of stream.                    *)
ReadAppReset(e) ==
  /\ Selecting(e, "app") /\ broken[e]
  /\ gave_up' = [gave_up EXCEPT ![e] = TRUE]
  /\ Drop(e, "app") /\ HalfCloseTunnel(e)
  /\ UNCHANGED <<appVars, hand, over, lost>>

ReadTunnel(e) ==
  /\ Selecting(e, "tunnel") /\ wire[Peer(e)] # <<>> /\ Head(wire[Peer(e)]) # EndFrame
  /\ hand' = [hand EXCEPT ![e] = Head(wire[Peer(e)])]
  /\ wire' = [wire EXCEPT ![Peer(e)] = Tail(@)]
  /\ LoopAt(e, "to_app")
  /\ UNCHANGED <<appVars, directions, half_closed, over, gave_up, lost>>

(* Mutant: a closed peer is noticed before what it had sent is read.       *)
ReadTunnelEofEarly(e) ==
  /\ Selecting(e, "tunnel")
  /\ \/ wire[Peer(e)] # <<>> /\ Head(wire[Peer(e)]) = EndFrame
     \/ Gone(e)
  /\ Drop(e, "tunnel")
  /\ ended' = [ended EXCEPT ![e] = @ \/ ~broken[e]]
  /\ UNCHANGED <<sent, fin, delivered, broken, loop, hand, over, gave_up, wire, lost>>

(* An end frame, or the end of a connection the peer has closed, or the    *)
(* error of one that was cut.  The application's socket is half-closed.    *)
ReadTunnelEof(e) ==
  LET in == wire[Peer(e)] IN
  /\ Selecting(e, "tunnel")
  /\ \/ in # <<>> /\ Head(in) = EndFrame
     \/ in = <<>> /\ Gone(e)
     \/ lost[e]
  /\ Drop(e, "tunnel")
  /\ ended' = [ended EXCEPT ![e] = @ \/ ~broken[e]]
  /\ UNCHANGED <<sent, fin, delivered, broken, loop, hand, over, gave_up, wire, lost>>

SendTunnel(e) ==
  /\ loop[e] = "to_tunnel" /\ Room(e) /\ ~Gone(e) /\ ~over[e]
  /\ wire' = [wire EXCEPT ![e] = Append(@, hand[e])]
  /\ LoopAt(e, "select")
  /\ UNCHANGED <<appVars, hand, directions, half_closed, over, gave_up, lost>>

(* sendall raises; a thread blocked in it notices its own end's close only *)
(* when the connection moves.                                              *)
SendTunnelFails(e) ==
  /\ loop[e] = "to_tunnel"
  /\ \/ Gone(e)
     \/ over[e] /\ Room(e)
  /\ directions' = [directions EXCEPT ![e] = {}]
  /\ gave_up' = [gave_up EXCEPT ![e] = TRUE]
  /\ LoopAt(e, "close")
  /\ UNCHANGED <<appVars, hand, half_closed, over, wire, lost>>

(* The end frame; its failure is ignored.                                  *)
SendEndFrame(e) ==
  /\ loop[e] = "half" /\ (Room(e) \/ Gone(e))
  /\ wire' = [wire EXCEPT ![e] = IF Gone(e) THEN @ ELSE Append(@, EndFrame)]
  /\ LoopAt(e, "select")
  /\ UNCHANGED <<appVars, hand, directions, half_closed, over, gave_up, lost>>

Deliver(e) ==
  /\ loop[e] = "to_app" /\ ~broken[e] /\ ~over[e]
  /\ delivered' = [delivered EXCEPT ![e] = Append(@, hand[e])]
  /\ LoopAt(e, "select")
  /\ UNCHANGED <<sent, fin, ended, broken, hand, directions, half_closed, over,
                 gave_up, wire, lost>>

DeliverFails(e) ==
  /\ loop[e] = "to_app" /\ (broken[e] \/ over[e])
  /\ directions' = [directions EXCEPT ![e] = {}]
  /\ gave_up' = [gave_up EXCEPT ![e] = TRUE]
  /\ LoopAt(e, "close")
  /\ UNCHANGED <<appVars, hand, half_closed, over, wire, lost>>

(* Nothing was readable for a second and one source ended long enough ago. *)
GraceExpires(e) ==
  /\ PauseExpires /\ loop[e] = "select" /\ ~over[e]
  /\ half_closed[e] /\ directions[e] # {}
  /\ "tunnel" \in directions[e] => wire[Peer(e)] = <<>> /\ ~Gone(e)
  /\ gave_up' = [gave_up EXCEPT ![e] = TRUE]
  /\ LoopAt(e, "close")
  /\ UNCHANGED <<appVars, hand, directions, half_closed, over, wire, lost>>

(* No source is left, or select raises on a closed socket.                 *)
LoopEnds(e) ==
  /\ loop[e] = "select" /\ (directions[e] = {} \/ over[e])
  /\ LoopAt(e, "close")
  /\ UNCHANGED <<appVars, hand, directions, half_closed, over, gave_up, wire, lost>>

CloseSession(e) ==
  /\ loop[e] = "close"
  /\ over' = [over EXCEPT ![e] = TRUE]
  /\ LoopAt(e, "done")
  /\ UNCHANGED <<appVars, hand, directions, half_closed,
                 gave_up, wire, lost>>

(* BridgeSession.close by the monitor, in its own thread.                  *)
MonitorCloses(e) ==
  /\ e \in Idle /\ ~over[e] /\ loop[e] \notin {"close", "done"}
  /\ over' = [over EXCEPT ![e] = TRUE]
  /\ gave_up' = [gave_up EXCEPT ![e] = TRUE]
  /\ UNCHANGED <<appVars, loop, hand, directions, half_closed, wire, lost>>

Break(e) ==
  /\ e \in Breakable /\ ~broken[e]
  /\ broken' = [broken EXCEPT ![e] = TRUE]
  /\ UNCHANGED <<sent, fin, delivered, ended, loop, hand, directions, half_closed,
                 over, gave_up, wire, lost>>

(* Each end learns of a lost connection by itself.                         *)
LoseTunnel(e) ==
  /\ MayCut /\ ~lost[e]
  /\ lost' = [lost EXCEPT ![e] = TRUE]
  /\ UNCHANGED <<appVars, loop, hand, directions, half_closed, over, gave_up, wire>>

Loop(e) ==
  \/ ReadAppReset(e) \/ ReadTunnel(e) \/ ReadTunnelEof(e)
  \/ SendTunnel(e) \/ SendTunnelFails(e) \/ SendEndFrame(e)
  \/ Deliver(e) \/ DeliverFails(e) \/ GraceExpires(e) \/ LoopEnds(e) \/ CloseSession(e)

Application(e) == ReadApp(e) \/ ReadAppEof(e) \/ Break(e)

BridgeThreads == \E e \in Sides : Loop(e)
BridgeNext ==
  \/ BridgeThreads
  \/ \E e \in Sides : Application(e) \/ MonitorCloses(e) \/ LoseTunnel(e)

BridgeSpec == BridgeInit /\ [][BridgeNext]_bridgeVars
BridgeFairSpec == BridgeSpec /\ WF_bridgeVars(BridgeThreads)
(* The applications also end their streams. *)
LiveSpec == BridgeFairSpec /\ \A e \in Sides : WF_bridgeVars(ReadAppEof(e))

-----------------------------------------------------------------------------

(* Once both applications have ended their streams, or one of them has     *)
(* reset its connection, both loops end and release their threads, in      *)
(* every mode: over TLS the end of one stream never crosses the tunnel.    *)
(* The exception is a tunnel full both ways, which each loop waits to      *)
(* write to and neither reads.                                             *)
SessionEnds ==
  <>[]((\A e \in Sides : fin[e]) \/ (\E e \in Sides : broken[e]) =>
         \/ \A e \in Sides : loop[e] = "done"
         \/ \A e \in Sides : loop[e] \in {"to_tunnel", "half"})

(* The bridge refines the streams every data plane promises. *)
Stream == INSTANCE TunnelStream WITH
  Chunk <- 1 .. MaxChunks["internal"] + MaxChunks["external"],
  sent <- [e \in Sides |-> [i \in 1 .. sent[e] |-> i]],
  got <- delivered,
  aborted <- [e \in Sides |-> gave_up[e] \/ lost[Peer(e)]]
ImplementsStream == Stream!Spec
=============================================================================
