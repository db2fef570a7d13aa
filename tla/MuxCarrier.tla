----------------------------- MODULE MuxCarrier -----------------------------
(***************************************************************************)
(* Shared mux: many user connections over one carrier connection           *)
(* (MuxStreamSession and SharedMuxCarrier in P00RIJA.py).  Both ends of a  *)
(* carrier run the same code.  Each end runs                               *)
(*   - one reader (SharedMuxCarrier.run), which handles every frame itself *)
(*     and answers some of them before it reads the next;                  *)
(*   - a heartbeat;                                                        *)
(*   - per stream, a pump (application to carrier) and a remote writer     *)
(*     (remote_queue to application).                                      *)
(* All of them write to the carrier with send_frame, which blocks while    *)
(* the connection has no room.  Streams are opened by the internal end.    *)
(* The n-th chunk an application supplies is represented by the number n.  *)
(***************************************************************************)
EXTENDS Integers, Sequences, FiniteSets

CONSTANTS
  QueueSize,    (* Slots of a session's remote_queue (8 in the code).      *)
  WireCap,      (* Frames the connection can hold in flight each way.      *)
  MaxSupply,    (* Bound: chunks an application supplies.                  *)
  Settings      (* Streams and what may happen to them, a record with      *)
                (*   streams   identifiers: positive numbers,              *)
                (*   chunks    [end -> [stream -> chunks supplied]],       *)
                (*   pings     [end -> heartbeats it may send],            *)
                (*   breakable <<end, stream>> whose application may reset,*)
                (*   idle      <<end, stream>> the monitor may find idle,  *)
                (*   refusable streams whose service may refuse,           *)
                (*   cuttable  the carrier's connection may be cut,        *)
                (*   slow      <<end, stream>> whose application may stop  *)
                (*             reading.                                    *)

Ends == {"internal", "external"}

ASSUME BoundsAssumption  ==
  QueueSize \in Nat \ {0} /\ WireCap \in Nat \ {0} /\ MaxSupply \in Nat
ASSUME StreamsAssumption ==
  \A g \in Settings :
    /\ g.streams \subseteq Nat \ {0} /\ 1 \in g.streams
    /\ \A e \in Ends, s \in g.streams : g.chunks[e][s] \in 0 .. MaxSupply

Peer(e) == IF e = "internal" THEN "external" ELSE "internal"

VARIABLE setting   (* One of Settings, for good. *)
Streams == setting.streams

(* The stream whose refinement is stated. *)
Watched == 1

Frame == [type : {"OPEN", "DATA", "FIN", "RST", "PING", "PONG"},
          stream : Streams \cup {0}, chunk : Nat]
F(t, s) == [type |-> t, stream |-> s, chunk |-> 0]
NoFrame == F("PONG", 0)
Data(s, n) == [type |-> "DATA", stream |-> s, chunk |-> n]

(* The None item of a remote_queue. *)
EofItem == 0

VARIABLES
  (* The applications (history). *)
  sent,           (* Chunks recv has returned so far.                      *)
  fin,            (* recv has returned the application's end of stream.    *)
  delivered,      (* The chunks written to the application.                *)
  ended,          (* shutdown(SHUT_WR) was made on the open session.       *)
  broken,         (* The application has reset its connection.             *)
  (* MuxStreamSession *)
  sess,           (* "none", "open" or "closed" (session.closed).          *)
  listed,         (* The session is in carrier.streams.                    *)
  remote_queue, local_eof, remote_drained,
  writer,         (* "none", "get", "write", "close", "rst" or "done".     *)
  hand,           (* The item the writer is sending to the application.    *)
  pump,           (* "none", "recv", "data", "fin", "mark", "rst", "done"; *)
                  (* and of the user's thread, "chosen", "open", "failed". *)
  (* SharedMuxCarrier *)
  reader,         (* "recv", "dial", "reply" or "done".                    *)
  handling,       (* The frame the reader dials for, or replies with.      *)
  running,
  cleared,        (* close() has emptied streams and closed the endpoint.  *)
  pings,
  (* The connection: wire[e] is what e sent and Peer(e) has not read.      *)
  wire, cut

appVars     == <<sent, fin, delivered, ended, broken>>
sessionVars == <<sess, listed, remote_queue>>
threadVars  == <<local_eof, remote_drained, writer, hand, pump>>
carrierVars == <<reader, handling, running, cleared>>
vars == <<appVars, sessionVars, threadVars, carrierVars, pings, wire, cut>>

Each(v) == [e \in Ends |-> [s \in Streams |-> v]]

Init ==
  /\ setting \in Settings
  /\ sent = Each(0) /\ fin = Each(FALSE) /\ delivered = Each(<<>>)
  /\ ended = Each(FALSE) /\ broken = Each(FALSE)
  /\ sess = Each("none") /\ listed = Each(FALSE) /\ remote_queue = Each(<<>>)
  /\ local_eof = Each(FALSE) /\ remote_drained = Each(FALSE)
  /\ writer = Each("none") /\ hand = Each(EofItem) /\ pump = Each("none")
  /\ reader = [e \in Ends |-> "recv"]
  /\ handling = [e \in Ends |-> NoFrame]
  /\ running = [e \in Ends |-> TRUE] /\ cleared = [e \in Ends |-> FALSE]
  /\ pings = [e \in Ends |-> 0]
  /\ wire = [e \in Ends |-> <<>>] /\ cut = FALSE

-----------------------------------------------------------------------------
(* send_frame: raises when the carrier has stopped or its connection is    *)
(* gone, and otherwise waits for write_lock and for room on the wire.  A   *)
(* thread past its test of running, or inside sendall, still sends.        *)

Unusable(e) == ~running[e] \/ cut
CanSend(e)  == ~cut /\ Len(wire[e]) < WireCap
Put(e, f)   == wire' = [wire EXCEPT ![e] = Append(@, f)]

(* MuxStreamSession.close without notify, of those of S not yet closed.    *)
Close(e, S) ==
  /\ sess' = [sess EXCEPT ![e] =
       [s \in Streams |-> IF s \in S /\ @[s] = "open" THEN "closed" ELSE @[s]]]
  /\ listed' = [listed EXCEPT ![e] =
       [s \in Streams |-> @[s] /\ ~(s \in S /\ sess[e][s] = "open")]]
  /\ remote_queue' = [remote_queue EXCEPT ![e] =
       [s \in Streams |-> IF s \in S /\ sess[e][s] = "open" /\ Len(@[s]) < QueueSize
                          THEN Append(@[s], EofItem) ELSE @[s]]]

(* The session's socket has been shut down and closed.                     *)
SockClosed(e, s) == sess[e][s] = "closed" /\ writer[e][s] # "rst"

(* register_stream: the session is listed and its remote writer starts.    *)
Register(e, s, p) ==
  /\ sess' = [sess EXCEPT ![e][s] = "open"]
  /\ listed' = [listed EXCEPT ![e][s] = TRUE]
  /\ writer' = [writer EXCEPT ![e][s] = "get"]
  /\ pump' = [pump EXCEPT ![e][s] = p]

-----------------------------------------------------------------------------
(* SharedMuxPool.open_stream and start_local_stream, on the internal end,  *)
(* by the thread of the user.                                              *)

(* live_carriers: the carrier runs when it is chosen.                      *)
ChooseCarrier(s) ==
  /\ pump["internal"][s] = "none" /\ running["internal"]
  /\ pump' = [pump EXCEPT !["internal"][s] = "chosen"]
  /\ UNCHANGED <<appVars, sessionVars, local_eof, remote_drained, writer, hand,
                 carrierVars, pings, wire, cut>>

StartLocalStream(s) ==
  /\ pump["internal"][s] = "chosen"
  /\ Register("internal", s, "open")
  /\ UNCHANGED <<appVars, remote_queue, local_eof, remote_drained, hand,
                 carrierVars, pings, wire, cut>>

(* The OPEN frame is sent and the pump starts.                             *)
SendOpen(s) ==
  /\ pump["internal"][s] = "open" /\ CanSend("internal") /\ running["internal"]
  /\ Put("internal", F("OPEN", s))
  /\ pump' = [pump EXCEPT !["internal"][s] =
       IF sess["internal"][s] = "open" THEN "recv" ELSE "done"]
  /\ UNCHANGED <<appVars, sessionVars, local_eof, remote_drained, writer, hand,
                 carrierVars, pings, cut>>

(* send_frame raises out of start_local_stream: nobody closes the session. *)
SendOpenFails(s) ==
  /\ pump["internal"][s] = "open" /\ Unusable("internal")
  /\ pump' = [pump EXCEPT !["internal"][s] = "failed"]
  /\ UNCHANGED <<appVars, sessionVars, local_eof, remote_drained, writer, hand,
                 carrierVars, pings, wire, cut>>

UserThread(s) ==
  ChooseCarrier(s) \/ StartLocalStream(s) \/ SendOpen(s) \/ SendOpenFails(s)

-----------------------------------------------------------------------------
(* The pump *)

PumpRead(e, s) ==
  /\ pump[e][s] = "recv" /\ ~broken[e][s] /\ ~SockClosed(e, s)
  /\ sent[e][s] < setting.chunks[e][s]
  /\ sent' = [sent EXCEPT ![e][s] = @ + 1]
  /\ pump' = [pump EXCEPT ![e][s] = "data"]
  /\ UNCHANGED <<fin, delivered, ended, broken, sessionVars, local_eof,
                 remote_drained, writer, hand, carrierVars, pings, wire, cut>>

PumpSendData(e, s) ==
  /\ pump[e][s] = "data" /\ CanSend(e)
  /\ Put(e, Data(s, sent[e][s]))
  /\ pump' = [pump EXCEPT ![e][s] = IF sess[e][s] = "open" THEN "recv" ELSE "done"]
  /\ UNCHANGED <<appVars, sessionVars, local_eof, remote_drained, writer, hand,
                 carrierVars, pings, cut>>

PumpEof(e, s) ==
  /\ pump[e][s] = "recv" /\ ~broken[e][s] /\ ~SockClosed(e, s)
  /\ fin' = [fin EXCEPT ![e][s] = TRUE]
  /\ pump' = [pump EXCEPT ![e][s] = "fin"]
  /\ UNCHANGED <<sent, delivered, ended, broken, sessionVars, local_eof,
                 remote_drained, writer, hand, carrierVars, pings, wire, cut>>

(* The session was closed under the pump: its recv is woken by shutdown    *)
(* and returns b"", or raises, or the loop's test of session.closed ends.  *)
PumpWoken(e, s) ==
  /\ pump[e][s] = "recv" /\ SockClosed(e, s)
  /\ \E p \in {"fin", "rst", "done"} : pump' = [pump EXCEPT ![e][s] = p]
  /\ UNCHANGED <<appVars, sessionVars, local_eof, remote_drained, writer, hand,
                 carrierVars, pings, wire, cut>>

PumpBroken(e, s) ==
  /\ pump[e][s] = "recv" /\ broken[e][s]
  /\ pump' = [pump EXCEPT ![e][s] = "rst"]
  /\ UNCHANGED <<appVars, sessionVars, local_eof, remote_drained, writer, hand,
                 carrierVars, pings, wire, cut>>

PumpSendFin(e, s) ==
  /\ pump[e][s] = "fin" /\ CanSend(e)
  /\ Put(e, F("FIN", s))
  /\ pump' = [pump EXCEPT ![e][s] = "mark"]
  /\ UNCHANGED <<appVars, sessionVars, local_eof, remote_drained, writer, hand,
                 carrierVars, pings, cut>>

(* Mutant: the pump leaves the close to the writer.                        *)
PumpMarkOnly(e, s) ==
  /\ pump[e][s] = "mark"
  /\ local_eof' = [local_eof EXCEPT ![e][s] = TRUE]
  /\ pump' = [pump EXCEPT ![e][s] = "done"]
  /\ UNCHANGED <<appVars, sessionVars, remote_drained, writer, hand, carrierVars,
                 pings, wire, cut>>

(* if session.mark_local_eof(): session.close() *)
PumpMark(e, s) ==
  /\ pump[e][s] = "mark"
  /\ local_eof' = [local_eof EXCEPT ![e][s] = TRUE]
  /\ pump' = [pump EXCEPT ![e][s] = "done"]
  /\ Close(e, IF remote_drained[e][s] THEN {s} ELSE {})
  /\ UNCHANGED <<appVars, remote_drained, writer, hand, carrierVars, pings, wire, cut>>

PumpSendRst(e, s) ==
  /\ pump[e][s] = "rst" /\ CanSend(e)
  /\ Put(e, F("RST", s))
  /\ pump' = [pump EXCEPT ![e][s] = "done"]
  /\ Close(e, {s})
  /\ UNCHANGED <<appVars, local_eof, remote_drained, writer, hand, carrierVars, pings, cut>>

(* send_frame raises, and so does that of the RST frame.                   *)
PumpSendFails(e, s) ==
  /\ pump[e][s] \in {"data", "fin", "rst"} /\ Unusable(e)
  /\ pump' = [pump EXCEPT ![e][s] = "done"]
  /\ Close(e, {s})
  /\ UNCHANGED <<appVars, local_eof, remote_drained, writer, hand, carrierVars,
                 pings, wire, cut>>

(* while self.running and not session.closed *)
PumpStops(e, s) ==
  /\ pump[e][s] = "recv" /\ ~running[e]
  /\ pump' = [pump EXCEPT ![e][s] = "done"]
  /\ UNCHANGED <<appVars, sessionVars, local_eof, remote_drained, writer, hand,
                 carrierVars, pings, wire, cut>>

Pump(e, s) ==
  \/ PumpRead(e, s) \/ PumpEof(e, s)
  \/ PumpSendData(e, s) \/ PumpWoken(e, s) \/ PumpBroken(e, s) \/ PumpSendFin(e, s)
  \/ PumpMark(e, s) \/ PumpSendRst(e, s) \/ PumpSendFails(e, s) \/ PumpStops(e, s)

-----------------------------------------------------------------------------
(* The remote writer *)

WriterTake(e, s) ==
  /\ writer[e][s] = "get" /\ remote_queue[e][s] # <<>>
  /\ Head(remote_queue[e][s]) # EofItem
  /\ hand' = [hand EXCEPT ![e][s] = Head(remote_queue[e][s])]
  /\ remote_queue' = [remote_queue EXCEPT ![e][s] = Tail(@)]
  /\ writer' = [writer EXCEPT ![e][s] = "write"]
  /\ UNCHANGED <<appVars, sess, listed, local_eof, remote_drained, pump,
                 carrierVars, pings, wire, cut>>

(* payload is None: shutdown(SHUT_WR), and under the session's lock        *)
(* remote_drained is set and local_eof read.                               *)
WriterEof(e, s) ==
  /\ writer[e][s] = "get" /\ remote_queue[e][s] # <<>>
  /\ Head(remote_queue[e][s]) = EofItem
  /\ ended' = [ended EXCEPT ![e][s] = @ \/ sess[e][s] = "open"]
  /\ remote_drained' = [remote_drained EXCEPT ![e][s] = TRUE]
  /\ remote_queue' = [remote_queue EXCEPT ![e][s] = Tail(@)]
  /\ writer' = [writer EXCEPT ![e][s] = IF local_eof[e][s] THEN "close" ELSE "done"]
  /\ UNCHANGED <<sent, fin, delivered, broken, sess, listed, local_eof, hand, pump,
                 carrierVars, pings, wire, cut>>

WriterClose(e, s) ==
  /\ writer[e][s] = "close"
  /\ writer' = [writer EXCEPT ![e][s] = "done"]
  /\ Close(e, {s})
  /\ UNCHANGED <<appVars, local_eof, remote_drained, hand, pump, carrierVars,
                 pings, wire, cut>>

WriterDeliver(e, s) ==
  /\ writer[e][s] = "write" /\ ~broken[e][s] /\ ~SockClosed(e, s)
  /\ delivered' = [delivered EXCEPT ![e][s] = Append(@, hand[e][s])]
  /\ hand' = [hand EXCEPT ![e][s] = EofItem]
  /\ writer' = [writer EXCEPT ![e][s] =
       IF running[e] /\ sess[e][s] = "open" THEN "get" ELSE "done"]
  /\ UNCHANGED <<sent, fin, ended, broken, sessionVars, local_eof, remote_drained,
                 pump, carrierVars, pings, wire, cut>>

(* sendall raises: close(notify=True) sends RST before it shuts the socket.*)
WriterFails(e, s) ==
  /\ writer[e][s] = "write"
  /\ broken[e][s] \/ SockClosed(e, s)
  /\ sess' = [sess EXCEPT ![e][s] = "closed"]
  /\ IF sess[e][s] = "open" /\ running[e]
     THEN writer' = [writer EXCEPT ![e][s] = "rst"] /\ UNCHANGED listed
     ELSE /\ writer' = [writer EXCEPT ![e][s] = "done"]
          /\ listed' = [listed EXCEPT ![e][s] = @ /\ sess[e][s] = "closed"]
  /\ remote_queue' = [remote_queue EXCEPT ![e][s] =
       IF sess[e][s] = "open" /\ Len(@) < QueueSize THEN Append(@, EofItem) ELSE @]
  /\ hand' = [hand EXCEPT ![e][s] = EofItem]
  /\ UNCHANGED <<appVars, local_eof, remote_drained, pump,
                 carrierVars, pings, wire, cut>>

WriterSendRst(e, s) ==
  /\ writer[e][s] = "rst"
  /\ \/ CanSend(e) /\ Put(e, F("RST", s))
     \/ Unusable(e) /\ UNCHANGED wire
  /\ listed' = [listed EXCEPT ![e][s] = FALSE]
  /\ writer' = [writer EXCEPT ![e][s] = "done"]
  /\ UNCHANGED <<appVars, sess, remote_queue, local_eof, remote_drained, hand,
                 pump, carrierVars, pings, cut>>

(* while self.carrier.running and not self.closed *)
WriterStops(e, s) ==
  /\ writer[e][s] = "get" /\ ~running[e]
  /\ writer' = [writer EXCEPT ![e][s] = "done"]
  /\ UNCHANGED <<appVars, sessionVars, local_eof, remote_drained, hand, pump,
                 carrierVars, pings, wire, cut>>

Writer(e, s) ==
  \/ WriterTake(e, s) \/ WriterEof(e, s) \/ WriterClose(e, s) \/ WriterFails(e, s)
  \/ WriterSendRst(e, s) \/ WriterStops(e, s)

-----------------------------------------------------------------------------
(* The reader: recv_exact and handle_frame.                                *)

Incoming(e) == Head(wire[Peer(e)])

(* A frame of type t is read; whether the reader answers it with f.        *)
Receive(e, t) ==
  /\ reader[e] = "recv" /\ wire[Peer(e)] # <<>> /\ Incoming(e).type = t
  /\ wire' = [wire EXCEPT ![Peer(e)] = Tail(@)]
Answer(e, f) ==
  /\ reader' = [reader EXCEPT ![e] = "reply"]
  /\ handling' = [handling EXCEPT ![e] = f]
  /\ UNCHANGED <<running, cleared>>

(* handle_open: on_open dials the service in the reader's own thread.      *)
ReadOpen(e) ==
  /\ Receive(e, "OPEN")
  /\ reader' = [reader EXCEPT ![e] = "dial"]
  /\ handling' = [handling EXCEPT ![e] = Incoming(e)]
  /\ UNCHANGED <<appVars, sessionVars, threadVars, running, cleared, pings, cut>>

Dialled(e) ==
  LET s == handling[e].stream
  IN  /\ reader[e] = "dial"
      /\ Register(e, s, "recv")
      /\ reader' = [reader EXCEPT ![e] = "recv"]
      /\ handling' = [handling EXCEPT ![e] = NoFrame]
      /\ UNCHANGED <<appVars, remote_queue, local_eof, remote_drained, hand, running, cleared, pings, wire, cut>>

DialFails(e) ==
  /\ reader[e] = "dial" /\ handling[e].stream \in setting.refusable
  /\ Answer(e, F("RST", handling[e].stream))
  /\ UNCHANGED <<appVars, sessionVars, threadVars, pings, wire, cut>>

ReadPing(e) ==
  /\ Receive(e, "PING") /\ Answer(e, F("PONG", 0))
  /\ UNCHANGED <<appVars, sessionVars, threadVars, pings, cut>>

ReadPong(e) ==
  /\ Receive(e, "PONG")
  /\ UNCHANGED <<appVars, sessionVars, threadVars, carrierVars, pings, cut>>

(* Mutant: a chunk that finds the queue full is dropped.                   *)
ReadDataDropped(e) ==
  LET s == Incoming(e).stream
  IN  /\ Receive(e, "DATA")
      /\ remote_queue' = IF listed[e][s] /\ Len(remote_queue[e][s]) < QueueSize
           THEN [remote_queue EXCEPT ![e][s] = Append(@, Incoming(e).chunk)]
           ELSE remote_queue
      /\ UNCHANGED <<appVars, sess, listed, threadVars, carrierVars, pings, cut>>

(* queue_remote_data; a full queue resets the stream, and data for an      *)
(* unknown stream is refused with RST.                                     *)
ReadData(e) ==
  LET s == Incoming(e).stream
  IN  /\ Receive(e, "DATA")
      /\ IF listed[e][s] /\ Len(remote_queue[e][s]) < QueueSize
         THEN /\ remote_queue' = [remote_queue EXCEPT ![e][s] = Append(@, Incoming(e).chunk)]
              /\ UNCHANGED carrierVars
         ELSE Answer(e, F("RST", s)) /\ UNCHANGED remote_queue
      /\ UNCHANGED <<appVars, sess, listed, threadVars, pings, cut>>

(* queue_remote_eof; FIN for an unknown stream is ignored.                 *)
ReadFin(e) ==
  LET s == Incoming(e).stream
  IN  /\ Receive(e, "FIN")
      /\ CASE ~listed[e][s] -> UNCHANGED <<remote_queue, carrierVars>>
           [] listed[e][s] /\ Len(remote_queue[e][s]) < QueueSize ->
                /\ remote_queue' = [remote_queue EXCEPT ![e][s] = Append(@, EofItem)]
                /\ UNCHANGED carrierVars
           [] OTHER -> Answer(e, F("RST", s)) /\ UNCHANGED remote_queue
      /\ UNCHANGED <<appVars, sess, listed, threadVars, pings, cut>>

ReadRst(e) ==
  LET s == Incoming(e).stream
  IN  /\ Receive(e, "RST")
      /\ Close(e, {x \in {s} : listed[e][x]})
      /\ UNCHANGED <<appVars, threadVars, carrierVars, pings, cut>>

(* The reader's own send_frame returns, and the stream it reset, if it is  *)
(* one the carrier knows, is closed.                                       *)
SendReply(e) ==
  LET s == handling[e].stream
  IN  /\ reader[e] = "reply" /\ CanSend(e)
      /\ Put(e, handling[e])
      /\ reader' = [reader EXCEPT ![e] = "recv"]
      /\ handling' = [handling EXCEPT ![e] = NoFrame]
      /\ Close(e, {x \in {s} \cap Streams : listed[e][x]})
      /\ UNCHANGED <<appVars, threadVars, running, cleared, pings, cut>>

(* The loop ends: its connection is gone or send_frame raised; finally:    *)
(* self.close().                                                           *)
ReaderEnds(e) ==
  /\ reader[e] \in {"recv", "reply"} /\ Unusable(e)
  /\ reader' = [reader EXCEPT ![e] = "done"]
  /\ running' = [running EXCEPT ![e] = FALSE]
  /\ UNCHANGED <<appVars, sessionVars, threadVars, handling, cleared, pings, wire, cut>>

Reader(e) ==
  \/ ReadOpen(e) \/ Dialled(e) \/ DialFails(e) \/ ReadPing(e) \/ ReadPong(e)
  \/ ReadData(e) \/ ReadFin(e) \/ ReadRst(e) \/ SendReply(e) \/ ReaderEnds(e)

-----------------------------------------------------------------------------
(* The heartbeat, close, and the connection.                               *)

SendPing(e) ==
  /\ running[e] /\ CanSend(e) /\ pings[e] < setting.pings[e]
  /\ Put(e, F("PING", 0))
  /\ pings' = [pings EXCEPT ![e] = @ + 1]
  /\ UNCHANGED <<appVars, sessionVars, threadVars, carrierVars, cut>>

(* A heartbeat that cannot send closes the carrier.                        *)
HeartbeatFails(e) ==
  /\ running[e] /\ cut
  /\ running' = [running EXCEPT ![e] = FALSE]
  /\ UNCHANGED <<appVars, sessionVars, threadVars, reader, handling, cleared,
                 pings, wire, cut>>

(* Mutant: the streams are cleared before they are listed for closing.     *)
ClearStreamsFirst(e) ==
  /\ ~running[e] /\ ~cleared[e]
  /\ cleared' = [cleared EXCEPT ![e] = TRUE]
  /\ listed' = [listed EXCEPT ![e] = [s \in Streams |-> FALSE]]
  /\ UNCHANGED <<appVars, sess, remote_queue, threadVars, reader, handling,
                 running, pings, wire, cut>>

(* close(): streams.clear(), every session it held closed, the endpoint    *)
(* closed.                                                                 *)
ClearStreams(e) ==
  /\ ~running[e] /\ ~cleared[e]
  /\ cleared' = [cleared EXCEPT ![e] = TRUE]
  /\ sess' = [sess EXCEPT ![e] =
       [s \in Streams |-> IF listed[e][s] THEN "closed" ELSE @[s]]]
  /\ listed' = [listed EXCEPT ![e] = [s \in Streams |-> FALSE]]
  /\ remote_queue' = [remote_queue EXCEPT ![e] =
       [s \in Streams |->
          IF listed[e][s] /\ sess[e][s] = "open" /\ Len(@[s]) < QueueSize
          THEN Append(@[s], EofItem) ELSE @[s]]]
  /\ UNCHANGED <<appVars, threadVars, reader, handling, running, pings, wire, cut>>

Carrier(e) == HeartbeatFails(e) \/ ClearStreams(e)

(* The connection is cut, and what is in flight is lost.                   *)
Cut ==
  /\ setting.cuttable /\ ~cut /\ cut' = TRUE
  /\ wire' = [e \in Ends |-> <<>>]
  /\ UNCHANGED <<appVars, sessionVars, threadVars, carrierVars, pings>>

(* The bridge monitor closes a session that was idle for too long.         *)
MonitorCloses(e, s) ==
  /\ <<e, s>> \in setting.idle /\ sess[e][s] = "open"
  /\ Close(e, {s})
  /\ UNCHANGED <<appVars, threadVars, carrierVars, pings, wire, cut>>

(* An application resets its connection.                                   *)
Break(e, s) ==
  /\ <<e, s>> \in setting.breakable /\ sess[e][s] = "open" /\ ~broken[e][s]
  /\ broken' = [broken EXCEPT ![e][s] = TRUE]
  /\ UNCHANGED <<sent, fin, delivered, ended, sessionVars, threadVars, carrierVars,
                 pings, wire, cut>>

Next ==
  \/ \E s \in Streams : UserThread(s)
  \/ \E e \in Ends, s \in Streams :
       \/ Pump(e, s) \/ Writer(e, s) \/ WriterDeliver(e, s)
       \/ MonitorCloses(e, s) \/ Break(e, s)
  \/ \E e \in Ends : Reader(e) \/ SendPing(e) \/ Carrier(e)
  \/ Cut

Spec == Init /\ [][Next /\ UNCHANGED setting]_<<vars, setting>>

(* As long as some thread can take a step, some thread takes one; the      *)
(* applications finish their streams, and all but the slow ones read what  *)
(* is written to them.  Every thread of this model has a bounded amount of *)
(* work, so this weakest of schedulers runs them all to where they block.  *)
Threads ==
  \/ \E s \in Streams : UserThread(s)
  \/ \E e \in Ends, s \in Streams :
       \/ Pump(e, s) \/ Writer(e, s)
       \/ <<e, s>> \notin setting.slow /\ WriterDeliver(e, s)
  \/ \E e \in Ends : Reader(e) \/ Carrier(e)

FairSpec == Spec /\ WF_vars(Threads)

-----------------------------------------------------------------------------
(* Properties *)

(* mark_local_eof and the writer race to close the session of a stream     *)
(* both of whose directions have ended; one of them does, so on a carrier  *)
(* that runs no session outlives its pump and its writer.                  *)
OneThreadCloses ==
  \A e \in Ends, s \in Streams :
    pump[e][s] = "done" /\ writer[e][s] = "done" /\ running[e] => sess[e][s] = "closed"

(* Every stream ends at both ends once its applications have finished,     *)
(* even if the application of another stream never reads, as long as at    *)
(* most one end sends more than a stream's queue holds (see                *)
(* CarrierNeverBlocks for both).  Where the monitor closes a session for   *)
(* being idle it sends no frame, and the other end keeps its own as long   *)
(* as its application is silent.  A carrier whose connection is cut        *)
(* releases every user thread that waits on one of its sessions            *)
(* (session.done.wait() in handle_user).                                   *)
Waiting(s) == pump["internal"][s] \notin {"none", "chosen", "open", "failed"}
HasEnded(e, s) ==
  \/ sess[e][s] # "open"
  \/ <<e, s>> \in setting.slow \/ <<Peer(e), s>> \in setting.idle
  \/ cut /\ (e = "external" \/ ~Waiting(s))
StreamsEnd == <>[](\A e \in Ends, s \in Streams : HasEnded(e, s))

(* "Bound each stream independently: slow clients are reset without        *)
(* blocking the shared carrier" (the comment on remote_queue): the readers *)
(* of a carrier are not for ever both in the send_frame that resets a      *)
(* stream, each waiting for room that only the other's reading would make. *)
CarrierNeverBlocks == []<>(\E e \in Ends : reader[e] # "reply" \/ CanSend(e))

(* The Watched stream is one of TunnelStream's pairs of streams, whatever  *)
(* the carrier does for the others.                                        *)
Stream == INSTANCE TunnelStream WITH
  Chunk <- 1 .. MaxSupply,
  sent <- [e \in Ends |-> [i \in 1 .. sent[e][Watched] |-> i]],
  fin <- [e \in Ends |-> fin[e][Watched]],
  got <- [e \in Ends |-> delivered[e][Watched]],
  ended <- [e \in Ends |-> ended[e][Watched]],
  aborted <- [e \in Ends |-> sess[e][Watched] = "closed"]
ImplementsStream == Stream!Spec
=============================================================================
