---------------------------- MODULE BondedBridge ----------------------------
(***************************************************************************)
(* Adaptive bonding: one user connection carried by NLanes tunnel lanes    *)
(* (bonded_bridge in P00RIJA.py).  The function runs at both ends of a     *)
(* link, on the internal node with the user's socket as its endpoint and   *)
(* on the external node with the service's socket.  Each end runs          *)
(*   - one sender thread (send_direction), which numbers the chunks it     *)
(*     reads from the endpoint and hands each to the least loaded lane;    *)
(*   - a lane sender and a lane reader thread per lane;                    *)
(*   - the calling thread, which puts the chunks back in order.            *)
(* Every action is a step of one of these threads of one end e.            *)
(***************************************************************************)
EXTENDS Integers, Sequences, FiniteSets

CONSTANTS
  Payload,      (* What recv may return: the contents of a chunk.          *)
  NoData,       (* The empty payload: marks the EOF frame.                 *)
  NLanes,       (* Number of lanes of the group.                           *)
  QueueSize,    (* Slots of a lane queue (8 in the code).                  *)
  Window,       (* Chunks kept out of order before a reader waits (256).   *)
  WireCap,      (* Frames a lane's connection can hold in flight.          *)
  MaxChunks,    (* Chunks each endpoint may supply: bounds the model.      *)
  Breakable,    (* The ends whose endpoint may break.                      *)
  Cuttable,     (* The lanes whose connection may be cut.                  *)
  Closable,     (* The ends whose session may be closed from outside.      *)
  JoinExpires   (* A join with a timeout may expire before its thread ends.*)

ASSUME LanesAssumption   == NLanes \in Nat \ {0}
ASSUME SizesAssumption   == QueueSize \in Nat /\ Window \in Nat /\ WireCap \in Nat
ASSUME PayloadAssumption == NoData \notin Payload

Ends  == {"internal", "external"}
Peer(e) == IF e = "internal" THEN "external" ELSE "internal"
Lanes == 0 .. NLanes - 1

(* A queue item and a frame on a lane.  data = NoData is the None item of  *)
(* a queue and the zero-length EOF frame on a lane.                        *)
Frame == [seq : Nat, data : Payload \cup {NoData}]
EofItem == [seq |-> 0, data |-> NoData]

VARIABLES
  (* The applications at the two endpoints. *)
  sent,           (* Chunks the endpoint has supplied so far (history).    *)
  delivered,      (* Chunks written to the endpoint, in order (history).   *)
  fin,            (* recv has returned b"": no more input.                 *)
  broken,         (* The application has reset the connection.             *)
  shut,           (* Another thread has closed the session's descriptors.  *)
  (* send_direction *)
  send_pc,        (* "recv", "put", "eof" or "done".                       *)
  sequence, lane_cursor, send_sequence,
  putting,        (* [lane, item] being enqueued.                          *)
  (* lane_sender *)
  lane_queues,
  lane_pc,        (* "get", "send" or "done", per lane.                    *)
  hand,           (* The item a lane sender has taken.                     *)
  (* the lanes: wire[e][l] is what e has sent and Peer(e) has not read *)
  wire, cut,
  (* read_lane *)
  read_pc,        (* "recv" or "done", per lane.                           *)
  pending, eof_sequence, eof_lanes,
  (* the calling thread *)
  phase,          (* "run", "wait", "join", "stopping", "closing", "closed"*)
  expected, out, receive_complete,
  (* shared by all threads of an end *)
  stop_event, error_box

appVars   == <<sent, fin, broken, shut>>
sendVars  == <<send_pc, sequence, lane_cursor, send_sequence, putting>>
laneVars  == <<lane_queues, lane_pc, hand>>
readVars  == <<read_pc, eof_sequence, eof_lanes>>
mainVars  == <<phase, expected, out, receive_complete, delivered>>
stopVars  == <<stop_event, error_box>>
vars == <<appVars, cut, wire, pending,
          sendVars, laneVars, readVars, mainVars, stopVars>>

NoEof == -1

Init ==
  /\ sent = [e \in Ends |-> <<>>] /\ delivered = [e \in Ends |-> <<>>]
  /\ fin = [e \in Ends |-> FALSE] /\ broken = [e \in Ends |-> FALSE]
  /\ shut = [e \in Ends |-> FALSE]
  /\ send_pc = [e \in Ends |-> "recv"]
  /\ sequence = [e \in Ends |-> 0]
  /\ lane_cursor = [e \in Ends |-> 0]
  /\ send_sequence = [e \in Ends |-> 0]
  /\ putting = [e \in Ends |-> [lane |-> 0, item |-> EofItem]]
  /\ lane_queues = [e \in Ends |-> [l \in Lanes |-> <<>>]]
  /\ lane_pc = [e \in Ends |-> [l \in Lanes |-> "get"]]
  /\ hand = [e \in Ends |-> [l \in Lanes |-> EofItem]]
  /\ wire = [e \in Ends |-> [l \in Lanes |-> <<>>]]
  /\ cut = [l \in Lanes |-> FALSE]
  /\ read_pc = [e \in Ends |-> [l \in Lanes |-> "recv"]]
  /\ pending = [e \in Ends |-> {}]
  /\ eof_sequence = [e \in Ends |-> NoEof]
  /\ eof_lanes = [e \in Ends |-> {}]
  /\ phase = [e \in Ends |-> "run"]
  /\ expected = [e \in Ends |-> 0]
  /\ out = [e \in Ends |-> NoData]
  /\ receive_complete = [e \in Ends |-> FALSE]
  /\ stop_event = [e \in Ends |-> FALSE]
  /\ error_box = [e \in Ends |-> FALSE]

Closed(e) == phase[e] = "closed"

(* Closing a descriptor does not wake the threads blocked in recv or send  *)
(* on it: e's side of lane l is gone once both its threads have returned.  *)
LaneShut(e, l) ==
  (Closed(e) \/ shut[e]) /\ read_pc[e][l] = "done" /\ lane_pc[e][l] # "send"

LaneDown(e, l) == cut[l] \/ LaneShut(Peer(e), l)

(* except Exception: error_box.append(...); stop_event.set().  Once the    *)
(* session has closed nothing depends on either.                           *)
Fail(e) ==
  IF Closed(e) THEN UNCHANGED stopVars
  ELSE /\ error_box' = [error_box EXCEPT ![e] = TRUE]
       /\ stop_event' = [stop_event EXCEPT ![e] = TRUE]

-----------------------------------------------------------------------------
(* send_direction *)

(* candidates[0]: the shortest lane queue, ties broken from the cursor.    *)
Preferred(e, l) ==
  LET turn(m) == (m - lane_cursor[e]) % NLanes
      load(m) == Len(lane_queues[e][m])
  IN  \A m \in Lanes : \/ load(l) < load(m)
                       \/ load(l) = load(m) /\ turn(l) <= turn(m)

ReadChunk(e) ==
  /\ send_pc[e] = "recv" /\ ~broken[e]
  /\ Len(sent[e]) < MaxChunks[e]
  /\ \E p \in Payload, l \in Lanes :
       /\ Preferred(e, l)
       /\ sent' = [sent EXCEPT ![e] = Append(@, p)]
       /\ lane_cursor' = [lane_cursor EXCEPT ![e] = (l + 1) % NLanes]
       /\ putting' = [putting EXCEPT
            ![e] = [lane |-> l, item |-> [seq |-> sequence[e], data |-> p]]]
  /\ send_pc' = [send_pc EXCEPT ![e] = "put"]
  /\ UNCHANGED <<fin, broken, shut, cut, wire, pending, sequence, send_sequence,
                 laneVars, readVars, mainVars, stopVars>>

(* Mutant: the sequence number is not advanced. *)
PutChunkUnnumbered(e) ==
  LET l == putting[e].lane
  IN  /\ send_pc[e] = "put"
      /\ Len(lane_queues[e][l]) < QueueSize
      /\ lane_queues' = [lane_queues EXCEPT ![e][l] = Append(@, putting[e].item)]
      /\ send_pc' = [send_pc EXCEPT ![e] = IF stop_event[e] THEN "done" ELSE "recv"]
      /\ UNCHANGED <<appVars, cut, wire, pending, sequence, lane_cursor, send_sequence,
                     putting, lane_pc, hand, readVars, mainVars, stopVars>>

(* enqueue(lane_queues[selected], ...) succeeds; the loop tests stop_event. *)
PutChunk(e) ==
  LET l == putting[e].lane
  IN  /\ send_pc[e] = "put"
      /\ Len(lane_queues[e][l]) < QueueSize
      /\ lane_queues' = [lane_queues EXCEPT ![e][l] = Append(@, putting[e].item)]
      /\ sequence' = [sequence EXCEPT ![e] = @ + 1]
      /\ send_pc' = [send_pc EXCEPT ![e] = IF stop_event[e] THEN "done" ELSE "recv"]
      /\ UNCHANGED <<appVars, cut, wire, pending, lane_cursor, send_sequence,
                     putting, lane_pc, hand, readVars, mainVars, stopVars>>

(* enqueue gives up once stop_event is set. *)
AbandonPut(e) ==
  /\ send_pc[e] \in {"put", "eof"} /\ stop_event[e]
  /\ send_pc' = [send_pc EXCEPT ![e] = "done"]
  /\ UNCHANGED <<appVars, cut, wire, pending, sequence, lane_cursor,
                 send_sequence, putting, laneVars, readVars, mainVars, stopVars>>

(* recv returned b"": the end of the stream is published, then one None is *)
(* put on every lane queue.                                                *)
ReadEof(e) ==
  /\ send_pc[e] = "recv" /\ ~broken[e]
  /\ fin' = [fin EXCEPT ![e] = TRUE]
  /\ send_sequence' = [send_sequence EXCEPT ![e] = sequence[e]]
  /\ putting' = [putting EXCEPT ![e] = [lane |-> 0, item |-> EofItem]]
  /\ send_pc' = [send_pc EXCEPT ![e] = "eof"]
  /\ UNCHANGED <<sent, broken, shut, cut, wire, pending, sequence, lane_cursor,
                 laneVars, readVars, mainVars, stopVars>>

PutEof(e) ==
  LET l == putting[e].lane
  IN  /\ send_pc[e] = "eof"
      /\ Len(lane_queues[e][l]) < QueueSize
      /\ lane_queues' = [lane_queues EXCEPT ![e][l] = Append(@, EofItem)]
      /\ IF l + 1 \in Lanes
         THEN putting' = [putting EXCEPT ![e] = [lane |-> l + 1, item |-> EofItem]] /\ UNCHANGED send_pc
         ELSE send_pc' = [send_pc EXCEPT ![e] = "done"] /\ UNCHANGED putting
      /\ UNCHANGED <<appVars, cut, wire, pending, sequence, lane_cursor,
                     send_sequence, lane_pc, hand, readVars, mainVars, stopVars>>

(* recv raises: the application reset the connection, or the descriptor    *)
(* was closed before the call.                                             *)
ReadFails(e) ==
  /\ send_pc[e] = "recv" /\ (broken[e] \/ shut[e])
  /\ send_pc' = [send_pc EXCEPT ![e] = "done"]
  /\ Fail(e)
  /\ UNCHANGED <<appVars, cut, wire, pending, sequence, lane_cursor,
                 send_sequence, putting, laneVars, readVars, mainVars>>

SendDirection(e) ==
  \/ ReadChunk(e) \/ PutChunk(e) \/ AbandonPut(e)
  \/ ReadEof(e) \/ PutEof(e) \/ ReadFails(e)

-----------------------------------------------------------------------------
(* lane_sender *)

TakeItem(e, l) ==
  /\ lane_pc[e][l] = "get" /\ lane_queues[e][l] # <<>> /\ ~shut[e]
  /\ hand' = [hand EXCEPT ![e][l] = Head(lane_queues[e][l])]
  /\ lane_queues' = [lane_queues EXCEPT ![e][l] = Tail(@)]
  /\ lane_pc' = [lane_pc EXCEPT ![e][l] = "send"]
  /\ UNCHANGED <<appVars, cut, wire, pending,
                 sendVars, readVars, mainVars, stopVars>>

(* The EOF frame carries send_sequence[0] as it is when the frame is sent. *)
Wire(e, item) == IF item.data = NoData
                 THEN [seq |-> send_sequence[e], data |-> NoData]
                 ELSE item

(* lane.sendall returned: it waits for room unless the peer's side is gone.*)
(* A None item ends the thread, and so does stop_event.                    *)
SendItem(e, l) ==
  /\ lane_pc[e][l] = "send" /\ ~cut[l]
  /\ IF Len(wire[e][l]) < WireCap
     THEN wire' = [wire EXCEPT ![e][l] = Append(@, Wire(e, hand[e][l]))]
     ELSE LaneShut(Peer(e), l) /\ UNCHANGED wire
  /\ lane_pc' = [lane_pc EXCEPT ![e][l] =
       IF hand[e][l].data = NoData \/ stop_event[e] THEN "done" ELSE "get"]
  /\ hand' = [hand EXCEPT ![e][l] = EofItem]
  /\ UNCHANGED <<appVars, cut, pending, sendVars, lane_queues,
                 readVars, mainVars, stopVars>>

SendFails(e, l) ==
  /\ lane_pc[e][l] = "send" /\ LaneDown(e, l)
  /\ lane_pc' = [lane_pc EXCEPT ![e][l] = "done"]
  /\ Fail(e)
  /\ UNCHANGED <<appVars, cut, wire, pending, sendVars, lane_queues, hand,
                 readVars, mainVars>>

(* The item is lost on a descriptor that another thread has closed.        *)
TakeFails(e, l) ==
  /\ lane_pc[e][l] = "get" /\ lane_queues[e][l] # <<>> /\ shut[e]
  /\ lane_queues' = [lane_queues EXCEPT ![e][l] = Tail(@)]
  /\ lane_pc' = [lane_pc EXCEPT ![e][l] = "done"]
  /\ Fail(e)
  /\ UNCHANGED <<appVars, cut, wire, pending, sendVars, hand, readVars, mainVars>>

LaneSender(e, l) ==
  TakeItem(e, l) \/ SendItem(e, l) \/ SendFails(e, l) \/ TakeFails(e, l)

-----------------------------------------------------------------------------
(* read_lane: what e reads from lane l was sent by Peer(e). *)

Readable(e, l) ==
  read_pc[e][l] = "recv" /\ wire[Peer(e)][l] # <<>> /\ ~Closed(e)

LowerOf(m, n) == IF m <= n THEN m ELSE n

(* payload_size == 0 *)
ReadEofFrame(e, l) ==
  LET frame == Head(wire[Peer(e)][l])
  IN  /\ Readable(e, l) /\ frame.data = NoData
      /\ eof_lanes' = [eof_lanes EXCEPT ![e] = @ \cup {l}]
      /\ eof_sequence' = [eof_sequence EXCEPT ![e] =
           IF @ = NoEof THEN frame.seq ELSE LowerOf(@, frame.seq)]
      /\ wire' = [wire EXCEPT ![Peer(e)][l] = Tail(@)]
      /\ read_pc' = [read_pc EXCEPT ![e][l] = "done"]
      /\ UNCHANGED <<appVars, cut, pending, sendVars, laneVars, mainVars, stopVars>>

MayInsertInWindow(e, frame) == Cardinality(pending[e]) < Window \/ stop_event[e]

(* The reader of a full window waits, unless it holds the expected chunk. *)
MayInsert(e, frame) ==
  \/ Cardinality(pending[e]) < Window
  \/ frame.seq = expected[e]
  \/ stop_event[e]

ReadFrame(e, l) ==
  LET frame == Head(wire[Peer(e)][l])
  IN  /\ Readable(e, l) /\ frame.data # NoData /\ MayInsert(e, frame)
      /\ pending' = [pending EXCEPT ![e] = {f \in @ : f.seq # frame.seq} \cup {frame}]
      /\ wire' = [wire EXCEPT ![Peer(e)][l] = Tail(@)]
      /\ read_pc' = [read_pc EXCEPT ![e][l] = IF stop_event[e] THEN "done" ELSE "recv"]
      /\ UNCHANGED <<appVars, cut, sendVars, laneVars, eof_sequence, eof_lanes,
                     mainVars, stopVars>>

(* Mutant: a closed lane is taken for the end of its stream. *)
ClosedIsEof(e, l) ==
  /\ read_pc[e][l] = "recv" /\ wire[Peer(e)][l] = <<>> /\ LaneDown(e, l)
  /\ read_pc' = [read_pc EXCEPT ![e][l] = "done"]
  /\ eof_lanes' = [eof_lanes EXCEPT ![e] = @ \cup {l}]
  /\ eof_sequence' = [eof_sequence EXCEPT ![e] = 0]
  /\ UNCHANGED <<appVars, cut, wire, pending, sendVars, laneVars, mainVars, stopVars>>

(* Mutant: the end of a lane stops its reader and nothing else. *)
ClosedIsIgnored(e, l) ==
  /\ read_pc[e][l] = "recv" /\ wire[Peer(e)][l] = <<>> /\ LaneDown(e, l)
  /\ read_pc' = [read_pc EXCEPT ![e][l] = "done"]
  /\ UNCHANGED <<appVars, cut, wire, pending, sendVars, laneVars,
                 eof_sequence, eof_lanes, mainVars, stopVars>>

(* recv_exact found the lane closed, by the peer or under its feet.        *)
LaneClosed(e, l) ==
  /\ read_pc[e][l] = "recv"
  /\ shut[e] \/ (wire[Peer(e)][l] = <<>> /\ LaneDown(e, l))
  /\ read_pc' = [read_pc EXCEPT ![e][l] = "done"]
  /\ Fail(e)
  /\ UNCHANGED <<appVars, cut, wire, pending, sendVars, laneVars,
                 eof_sequence, eof_lanes, mainVars>>

(* Bytes wake a reader whose session has closed, and its next recv fails.  *)
ReadAfterClose(e, l) ==
  /\ Closed(e) /\ read_pc[e][l] = "recv" /\ wire[Peer(e)][l] # <<>>
  /\ read_pc' = [read_pc EXCEPT ![e][l] = "done"]
  /\ UNCHANGED <<appVars, cut, wire, pending, sendVars, laneVars,
                 eof_sequence, eof_lanes, mainVars, stopVars>>

ReadLane(e, l) ==
  \/ ReadEofFrame(e, l) \/ ReadFrame(e, l)
  \/ LaneClosed(e, l) \/ ReadAfterClose(e, l)

-----------------------------------------------------------------------------
(* The calling thread *)

(* Mutant: whatever is pending is delivered. *)
PopAny(e) ==
  /\ phase[e] = "run" /\ out[e] = NoData
  /\ \E f \in pending[e] :
       /\ out' = [out EXCEPT ![e] = f.data]
       /\ pending' = [pending EXCEPT ![e] = @ \ {f}]
  /\ UNCHANGED <<appVars, cut, wire, sendVars, laneVars, readVars,
                 phase, expected, receive_complete, delivered, stopVars>>

PopExpected(e) ==
  /\ phase[e] = "run" /\ out[e] = NoData
  /\ \E f \in pending[e] :
       /\ f.seq = expected[e]
       /\ out' = [out EXCEPT ![e] = f.data]
       /\ pending' = [pending EXCEPT ![e] = @ \ {f}]
  /\ UNCHANGED <<appVars, cut, wire, sendVars, laneVars, readVars,
                 phase, expected, receive_complete, delivered, stopVars>>

(* endpoint.sendall(payload); expected += 1 *)
Deliver(e) ==
  /\ phase[e] = "run" /\ out[e] # NoData /\ ~broken[e]
  /\ delivered' = [delivered EXCEPT ![e] = Append(@, out[e])]
  /\ expected' = [expected EXCEPT ![e] = @ + 1]
  /\ out' = [out EXCEPT ![e] = NoData]
  /\ UNCHANGED <<appVars, cut, wire, pending, sendVars, laneVars, readVars,
                 phase, receive_complete, stopVars>>

(* endpoint.sendall raises and the finally block runs. *)
DeliverFails(e) ==
  /\ phase[e] = "run" /\ out[e] # NoData /\ (broken[e] \/ shut[e])
  /\ phase' = [phase EXCEPT ![e] = "stopping"]
  /\ stop_event' = [stop_event EXCEPT ![e] = TRUE]
  /\ UNCHANGED <<appVars, cut, wire, pending, sendVars, laneVars, readVars,
                 expected, out, receive_complete, delivered, error_box>>

(* Mutant: the first end-of-stream frame ends the stream. *)
EndAtFirstEof(e) ==
  /\ phase[e] = "run" /\ out[e] = NoData /\ ~stop_event[e]
  /\ \A f \in pending[e] : f.seq # expected[e]
  /\ eof_sequence[e] # NoEof
  /\ receive_complete' = [receive_complete EXCEPT ![e] = TRUE]
  /\ phase' = [phase EXCEPT ![e] = "wait"]
  /\ UNCHANGED <<appVars, cut, wire, pending, sendVars, laneVars, readVars,
                 expected, out, delivered, stopVars>>

(* endpoint.shutdown(SHUT_WR): the application sees a clean end of stream. *)
EndOfStream(e) ==
  /\ phase[e] = "run" /\ out[e] = NoData /\ ~stop_event[e]
  /\ \A f \in pending[e] : f.seq # expected[e]
  /\ eof_sequence[e] # NoEof /\ expected[e] >= eof_sequence[e]
  /\ Cardinality(eof_lanes[e]) = NLanes
  /\ receive_complete' = [receive_complete EXCEPT ![e] = TRUE]
  /\ phase' = [phase EXCEPT ![e] = "wait"]
  /\ UNCHANGED <<appVars, cut, wire, pending, sendVars, laneVars, readVars,
                 expected, out, delivered, stopVars>>

(* A thread of this end failed while the reassembly loop was running. *)
LeaveLoop(e) ==
  /\ phase[e] = "run" /\ out[e] = NoData /\ stop_event[e]
  /\ phase' = [phase EXCEPT ![e] = "stopping"]
  /\ UNCHANGED <<appVars, cut, wire, pending, sendVars, laneVars, readVars,
                 expected, out, receive_complete, delivered, stopVars>>

WaitForSendThread(e) ==
  /\ phase[e] = "wait" /\ send_pc[e] = "done"
  /\ phase' = [phase EXCEPT ![e] = "join"]
  /\ UNCHANGED <<appVars, cut, wire, pending, sendVars, laneVars, readVars,
                 expected, out, receive_complete, delivered, stopVars>>

(* while receive_complete and send_thread.is_alive() and not stop_event,   *)
(* then the test that chooses between the two branches of finally.         *)
SendThreadEnded(e) ==
  /\ phase[e] = "wait"
  /\ send_pc[e] = "done" \/ stop_event[e]
  /\ IF error_box[e]
     THEN /\ phase' = [phase EXCEPT ![e] = "stopping"]
          /\ stop_event' = [stop_event EXCEPT ![e] = TRUE]
     ELSE phase' = [phase EXCEPT ![e] = "join"] /\ UNCHANGED stop_event
  /\ UNCHANGED <<appVars, cut, wire, pending, sendVars, laneVars, readVars,
                 expected, out, receive_complete, delivered, error_box>>

(* The joins of the successful path, each of which may expire. *)
JoinLaneSenders(e) ==
  /\ phase[e] = "join"
  /\ JoinExpires \/ \A l \in Lanes : lane_pc[e][l] = "done"
  /\ phase' = [phase EXCEPT ![e] = "stopping"]
  /\ stop_event' = [stop_event EXCEPT ![e] = TRUE]
  /\ UNCHANGED <<appVars, cut, wire, pending, sendVars, laneVars, readVars,
                 expected, out, receive_complete, delivered, error_box>>

(* if not receive_complete or error_box: put_nowait(None) on every lane.   *)
WakeLaneSenders(e) ==
  /\ phase[e] = "stopping"
  /\ lane_queues' = [lane_queues EXCEPT ![e] =
       [l \in Lanes |->
          IF (~receive_complete[e] \/ error_box[e]) /\ Len(@[l]) < QueueSize
          THEN Append(@[l], EofItem) ELSE @[l]]]
  /\ phase' = [phase EXCEPT ![e] = "closing"]
  /\ UNCHANGED <<appVars, cut, wire, pending, sendVars, lane_pc, hand, readVars,
                 expected, out, receive_complete, delivered, stopVars>>

(* session.close() and the joins after it, which may expire.  Any thread   *)
(* of this end ends at its next use of a socket; one that is blocked in    *)
(* send or recv on a lane stays there.                                     *)
CloseSession(e) ==
  /\ phase[e] = "closing"
  /\ phase' = [phase EXCEPT ![e] = "closed"]
  /\ send_pc' = [send_pc EXCEPT ![e] = "done"]
  /\ \E sending \in SUBSET {l \in Lanes : lane_pc[e][l] = "send"},
        reading \in SUBSET {l \in Lanes : read_pc[e][l] = "recv"} :
       /\ lane_pc' = [lane_pc EXCEPT ![e] =
            [l \in Lanes |-> IF l \in sending THEN "send" ELSE "done"]]
       /\ read_pc' = [read_pc EXCEPT ![e] =
            [l \in Lanes |-> IF l \in reading THEN "recv" ELSE "done"]]
  /\ UNCHANGED <<appVars, cut, wire, pending, sequence, lane_cursor, send_sequence,
                 putting, lane_queues, hand, eof_sequence, eof_lanes,
                 expected, out, receive_complete, delivered, stopVars>>

Main(e) ==
  \/ PopExpected(e) \/ Deliver(e) \/ DeliverFails(e) \/ EndOfStream(e)
  \/ LeaveLoop(e) \/ SendThreadEnded(e) \/ JoinLaneSenders(e)
  \/ WakeLaneSenders(e) \/ CloseSession(e)

-----------------------------------------------------------------------------
(* The environment: connections that break. *)

(* The application resets its connection. *)
EndpointBreaks(e) ==
  /\ e \in Breakable /\ ~broken[e] /\ ~Closed(e)
  /\ broken' = [broken EXCEPT ![e] = TRUE]
  /\ UNCHANGED <<sent, fin, shut, cut, wire, pending, sendVars, laneVars, readVars, mainVars, stopVars>>

(* The idle monitor or a stop of the link calls BondBridgeSession.close(): *)
(* no thread is woken.  A call under way goes on, and later ones raise.    *)
SessionCloses(e) ==
  /\ e \in Closable /\ ~shut[e] /\ ~Closed(e)
  /\ shut' = [shut EXCEPT ![e] = TRUE]
  /\ UNCHANGED <<sent, fin, broken, cut, wire, pending, sendVars, laneVars, readVars,
                 mainVars, stopVars>>

(* A lane is cut: what is in flight on it, either way, is lost. *)
LaneCut(l) ==
  /\ l \in Cuttable /\ ~cut[l]
  /\ cut' = [cut EXCEPT ![l] = TRUE]
  /\ wire' = [e \in Ends |-> [wire[e] EXCEPT ![l] = <<>>]]
  /\ UNCHANGED <<appVars, pending, sendVars, laneVars, readVars, mainVars, stopVars>>

(* A lane released by e with data unread is reset: what e sent may be lost.*)
LaneReset(e, l) ==
  /\ LaneShut(e, l) /\ wire[Peer(e)][l] # <<>>
  /\ wire' = [x \in Ends |-> [wire[x] EXCEPT ![l] = <<>>]]
  /\ UNCHANGED <<appVars, cut, pending, sendVars, laneVars, readVars, mainVars, stopVars>>

Next ==
  \/ \E e \in Ends : SendDirection(e) \/ Main(e) \/ EndpointBreaks(e) \/ SessionCloses(e)
  \/ \E e \in Ends, l \in Lanes : LaneSender(e, l) \/ ReadLane(e, l) \/ LaneReset(e, l)
  \/ \E l \in Lanes : LaneCut(l)

Spec == Init /\ [][Next]_vars

(* As long as some thread can take a step, some thread takes one, and an   *)
(* application reads what is written to it.  Every thread of this model    *)
(* has a bounded amount of work, so this weakest of schedulers runs them   *)
(* all to where they block.  Nothing is obliged to break.                  *)
Threads ==
  \/ \E e \in Ends : \/ PutChunk(e) \/ AbandonPut(e) \/ PutEof(e) \/ ReadFails(e)
                     \/ Main(e)
  \/ \E e \in Ends, l \in Lanes : LaneSender(e, l) \/ ReadLane(e, l)

FairSpec == Spec /\ WF_vars(Threads)

(* Both applications also supply their chunks and end their streams.       *)
LiveSpec ==
  Spec /\ WF_vars(Threads \/ \E e \in Ends : ReadChunk(e) \/ ReadEof(e))

-----------------------------------------------------------------------------
(* Properties *)

TypeOK ==
  /\ sent \in [Ends -> Seq(Payload)] /\ delivered \in [Ends -> Seq(Payload)]
  /\ fin \in [Ends -> BOOLEAN] /\ broken \in [Ends -> BOOLEAN]
  /\ shut \in [Ends -> BOOLEAN]
  /\ send_pc \in [Ends -> {"recv", "put", "eof", "done"}]
  /\ sequence \in [Ends -> Nat] /\ send_sequence \in [Ends -> Nat]
  /\ lane_cursor \in [Ends -> Lanes]
  /\ putting \in [Ends -> [lane : Lanes, item : Frame]]
  /\ lane_queues \in [Ends -> [Lanes -> Seq(Frame)]]
  /\ lane_pc \in [Ends -> [Lanes -> {"get", "send", "done"}]]
  /\ hand \in [Ends -> [Lanes -> Frame]]
  /\ wire \in [Ends -> [Lanes -> Seq(Frame)]]
  /\ cut \in [Lanes -> BOOLEAN]
  /\ read_pc \in [Ends -> [Lanes -> {"recv", "done"}]]
  /\ pending \in [Ends -> SUBSET [seq : Nat, data : Payload]]
  /\ eof_sequence \in [Ends -> Nat \cup {NoEof}]
  /\ eof_lanes \in [Ends -> SUBSET Lanes]
  /\ phase \in [Ends -> {"run", "wait", "join", "stopping", "closing", "closed"}]
  /\ expected \in [Ends -> Nat]
  /\ out \in [Ends -> Payload \cup {NoData}]
  /\ receive_complete \in [Ends -> BOOLEAN]
  /\ stop_event \in [Ends -> BOOLEAN] /\ error_box \in [Ends -> BOOLEAN]

(* The application at one end receives the chunks the application at the   *)
(* other end supplied: none lost, repeated or overtaken, whatever the      *)
(* lanes carried them and however the threads interleaved.                 *)
InOrder ==
  \A e \in Ends :
    /\ Len(delivered[e]) <= Len(sent[Peer(e)])
    /\ \A i \in 1 .. Len(delivered[e]) : delivered[e][i] = sent[Peer(e)][i]

(* The finally block took its abort branch and poisoned the lane queues.   *)
Aborted(e) == /\ phase[e] \in {"closing", "closed"}
              /\ ~receive_complete[e] \/ error_box[e]

(* A clean end of stream is shown to an application only after everything  *)
(* the other application supplied, unless the other end gave up: the EOF   *)
(* frames of all lanes must agree on where the stream ends, although each  *)
(* lane reads send_sequence[0] on its own.                                 *)
CleanEndIsComplete ==
  \A e \in Ends : receive_complete[e] /\ ~Aborted(Peer(e)) =>
    fin[Peer(e)] /\ Len(delivered[e]) = Len(sent[Peer(e)])

(* While no connection fails and nobody closes the session from outside,   *)
(* an end that leaves by the successful path has let its last frames reach *)
(* the peer, none of whose lanes closes before it has read them: what the  *)
(* comment in the finally block says.                                      *)
TailArrives ==
  \A e \in Ends : Closed(e) /\ ~Aborted(e) => ~error_box[Peer(e)]

(* With no connection failing, every chunk an application supplies is      *)
(* eventually delivered, and both ends leave by the successful path: the   *)
(* bounded queues, the bounded reorder buffer and the flow control of the  *)
(* lanes never wait on each other in a circle.                             *)
AllDelivered ==
  <>[](\/ \E e \in Ends : broken[e]
       \/ \A e \in Ends : /\ Closed(e) /\ ~error_box[e]
                           /\ Len(delivered[e]) = Len(sent[Peer(e)]))

(* The bonded connection is one of TunnelStream's pairs of streams.        *)
Stream == INSTANCE TunnelStream WITH
  Chunk <- Payload, got <- delivered, ended <- receive_complete,
  aborted <- [e \in Ends |-> Aborted(e)]
ImplementsStream == Stream!Spec

(* However one end left, the other leaves too once its application has     *)
(* finished: no thread of it waits for a peer that is gone.                *)
CloseReachesPeer == <>[](\A e \in Ends : Closed(e) => Closed(Peer(e)))

(* Once any thread of an end fails, that end closes its sockets.           *)
StopLeadsToClose == <>[](\A e \in Ends : stop_event[e] => Closed(e))

-----------------------------------------------------------------------------
(* The inductive invariant behind InOrder and CleanEndIsComplete: every    *)
(* frame of e, wherever it is, is a chunk of e's stream under its own      *)
(* number, and an end-of-stream mark is made only by an end whose stream   *)
(* has ended, with its length, or by one that aborted.                     *)

IsChunk(e, f) == f.seq < Len(sent[e]) /\ f.data = sent[e][f.seq + 1]

QueueItems(e) ==
  {f \in Frame : IF f.data = NoData THEN fin[e] \/ Aborted(e) ELSE IsChunk(e, f)}

WireFrames(e) ==
  {f \in Frame : IF f.data = NoData
                 THEN (fin[e] /\ f.seq = Len(sent[e])) \/ Aborted(e)
                 ELSE IsChunk(e, f)}

FramesGenuine(e) ==
  /\ lane_queues[e] \in [Lanes -> Seq(QueueItems(e))]
  /\ \A l \in Lanes : lane_pc[e][l] = "send" => hand[e][l] \in QueueItems(e)
  /\ wire[e] \in [Lanes -> Seq(WireFrames(e))]
  /\ pending[Peer(e)] \subseteq WireFrames(e)

SenderCounts(e) ==
  /\ send_pc[e] = "recv" => ~fin[e] /\ sequence[e] = Len(sent[e])
  /\ send_pc[e] = "put" => /\ ~fin[e] /\ sequence[e] + 1 = Len(sent[e])
                           /\ putting[e].item.data # NoData
                           /\ IsChunk(e, putting[e].item)
  /\ send_pc[e] = "eof" => fin[e]
  /\ fin[e] => send_sequence[e] = Len(sent[e])

ReceiverCounts(e) ==
  /\ Len(delivered[e]) = expected[e]
  /\ out[e] # NoData => IsChunk(Peer(e), [seq |-> expected[e], data |-> out[e]])
  /\ eof_sequence[e] # NoEof =>
       \/ fin[Peer(e)] /\ eof_sequence[e] = Len(sent[Peer(e)])
       \/ Aborted(Peer(e))
  /\ receive_complete[e] => phase[e] # "run"

StreamInv ==
  /\ TypeOK /\ InOrder /\ CleanEndIsComplete
  /\ \A e \in Ends : FramesGenuine(e) /\ SenderCounts(e) /\ ReceiverCounts(e)
=============================================================================
