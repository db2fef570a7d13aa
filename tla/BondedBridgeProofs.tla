------------------------- MODULE BondedBridgeProofs -------------------------
(***************************************************************************)
(* Theorems about BondedBridge, for every number of lanes and every size   *)
(* of its queues and buffers.                                              *)
(***************************************************************************)
EXTENDS BondedBridge, TLAPS, SequenceTheorems

LEMMA PeerType == \A e \in Ends : Peer(e) \in Ends /\ Peer(e) # e /\ Peer(Peer(e)) = e
BY DEF Ends, Peer

LEMMA EofItemType == EofItem \in Frame /\ EofItem.data = NoData
BY DEF EofItem, Frame

LEMMA UpdateType ==
  ASSUME NEW S, NEW f \in [Ends -> [Lanes -> S]],
         NEW e \in Ends, NEW l \in Lanes, NEW v \in S
  PROVE  [f EXCEPT ![e][l] = v] \in [Ends -> [Lanes -> S]]
OBVIOUS

LEMMA SeqType ==
  ASSUME NEW S, NEW q \in Seq(S)
  PROVE  /\ \A v \in S : Append(q, v) \in Seq(S)
         /\ q # <<>> => Head(q) \in S /\ Tail(q) \in Seq(S)
OBVIOUS

LEMMA InitType == Init => TypeOK
BY LanesAssumption, SizesAssumption, EofItemType DEF Init, TypeOK, Lanes, NoEof

LEMMA CursorType == \A l \in Lanes : (l + 1) % NLanes \in Lanes
BY LanesAssumption DEF Lanes

LEMMA SendDirectionType ==
  ASSUME TypeOK, NEW e \in Ends, SendDirection(e)
  PROVE  TypeOK'
<1>. USE DEF TypeOK, stopVars, mainVars, readVars, laneVars, sendVars, appVars
<1>1. CASE ReadChunk(e)
  <2>1. PICK p \in Payload, l \in Lanes :
          /\ sent' = [sent EXCEPT ![e] = Append(@, p)]
          /\ lane_cursor' = [lane_cursor EXCEPT ![e] = (l + 1) % NLanes]
          /\ putting' = [putting EXCEPT
               ![e] = [lane |-> l, item |-> [seq |-> sequence[e], data |-> p]]]
    BY <1>1 DEF ReadChunk
  <2>2. sent' \in [Ends -> Seq(Payload)]
    BY <2>1
  <2>3. lane_cursor' \in [Ends -> Lanes]
    BY <2>1, CursorType
  <2>4. putting' \in [Ends -> [lane : Lanes, item : Frame]]
    BY <2>1 DEF Frame
  <2>. QED BY <1>1, <2>2, <2>3, <2>4 DEF ReadChunk
<1>2. CASE PutChunk(e)
  <2>. DEFINE l == putting[e].lane
  <2>1. l \in Lanes /\ putting[e].item \in Frame
    OBVIOUS
  <2>2. Append(lane_queues[e][l], putting[e].item) \in Seq(Frame)
    BY <2>1, SeqType
  <2>3. lane_queues' = [lane_queues EXCEPT
                         ![e][l] = Append(lane_queues[e][l], putting[e].item)]
    BY <1>2 DEF PutChunk
  <2>4. lane_queues' \in [Ends -> [Lanes -> Seq(Frame)]]
    BY <2>1, <2>2, <2>3, UpdateType
  <2>5. /\ sequence' \in [Ends -> Nat]
        /\ send_pc' \in [Ends -> {"recv", "put", "eof", "done"}]
    BY <1>2 DEF PutChunk
  <2>. QED BY <1>2, <2>4, <2>5 DEF PutChunk
<1>3. CASE AbandonPut(e)
  BY <1>3 DEF AbandonPut
<1>4. CASE ReadEof(e)
  <2>1. 0 \in Lanes
    BY LanesAssumption DEF Lanes
  <2>2. putting' \in [Ends -> [lane : Lanes, item : Frame]]
    BY <1>4, <2>1, EofItemType DEF ReadEof
  <2>3. /\ fin' \in [Ends -> BOOLEAN] /\ send_sequence' \in [Ends -> Nat]
        /\ send_pc' \in [Ends -> {"recv", "put", "eof", "done"}]
    BY <1>4 DEF ReadEof
  <2>. QED BY <1>4, <2>2, <2>3 DEF ReadEof
<1>5. CASE PutEof(e)
  <2>. DEFINE l == putting[e].lane
  <2>1. l \in Lanes
    OBVIOUS
  <2>2. Append(lane_queues[e][l], EofItem) \in Seq(Frame)
    BY <2>1, SeqType, EofItemType
  <2>3. lane_queues' = [lane_queues EXCEPT ![e][l] = Append(lane_queues[e][l], EofItem)]
    BY <1>5 DEF PutEof
  <2>4. lane_queues' \in [Ends -> [Lanes -> Seq(Frame)]]
    BY <2>1, <2>2, <2>3, UpdateType
  <2>5. CASE l + 1 \in Lanes
    <3>1. /\ putting' = [putting EXCEPT ![e] = [lane |-> l + 1, item |-> EofItem]]
          /\ UNCHANGED send_pc
      BY <1>5, <2>5 DEF PutEof
    <3>2. putting' \in [Ends -> [lane : Lanes, item : Frame]]
      BY <2>5, <3>1, EofItemType
    <3>. QED BY <1>5, <2>4, <3>1, <3>2 DEF PutEof
  <2>6. CASE l + 1 \notin Lanes
    <3>1. /\ send_pc' = [send_pc EXCEPT ![e] = "done"]
          /\ UNCHANGED putting
      BY <1>5, <2>6 DEF PutEof
    <3>. QED BY <1>5, <2>4, <3>1 DEF PutEof
  <2>. QED BY <2>5, <2>6
<1>6. CASE ReadFails(e)
  BY <1>6 DEF ReadFails, Fail
<1>. QED BY <1>1, <1>2, <1>3, <1>4, <1>5, <1>6 DEF SendDirection

LEMMA LaneSenderType ==
  ASSUME TypeOK, NEW e \in Ends, NEW l \in Lanes, LaneSender(e, l)
  PROVE  TypeOK'
<1>. USE DEF TypeOK, stopVars, mainVars, readVars, laneVars, sendVars, appVars
<1>1. CASE TakeItem(e, l)
  <2>1. /\ Head(lane_queues[e][l]) \in Frame
        /\ Tail(lane_queues[e][l]) \in Seq(Frame)
    BY <1>1, SeqType DEF TakeItem
  <2>2. lane_queues' = [lane_queues EXCEPT ![e][l] = Tail(lane_queues[e][l])]
    BY <1>1 DEF TakeItem
  <2>3. lane_queues' \in [Ends -> [Lanes -> Seq(Frame)]]
    BY <2>1, <2>2, UpdateType
  <2>4. /\ hand' \in [Ends -> [Lanes -> Frame]]
        /\ lane_pc' \in [Ends -> [Lanes -> {"get", "send", "done"}]]
    BY <1>1, <2>1 DEF TakeItem
  <2>. QED BY <1>1, <2>3, <2>4 DEF TakeItem
<1>2. CASE SendItem(e, l)
  <2>1. Wire(e, hand[e][l]) \in Frame
    BY DEF Wire, Frame
  <2>2. Append(wire[e][l], Wire(e, hand[e][l])) \in Seq(Frame)
    BY <2>1, SeqType
  <2>3. wire' \in [Ends -> [Lanes -> Seq(Frame)]]
    <3>1. CASE wire' = wire
      BY <3>1
    <3>2. CASE wire' # wire
      <4>1. wire' = [wire EXCEPT ![e][l] = Append(wire[e][l], Wire(e, hand[e][l]))]
        BY <1>2, <3>2 DEF SendItem
      <4>. QED BY <4>1, <2>2, UpdateType
    <3>. QED BY <3>1, <3>2
  <2>4. /\ hand' \in [Ends -> [Lanes -> Frame]]
        /\ lane_pc' \in [Ends -> [Lanes -> {"get", "send", "done"}]]
    BY <1>2, EofItemType DEF SendItem
  <2>. QED BY <1>2, <2>3, <2>4 DEF SendItem
<1>3. CASE SendFails(e, l)
  BY <1>3 DEF SendFails, Fail
<1>4. CASE TakeFails(e, l)
  <2>1. Tail(lane_queues[e][l]) \in Seq(Frame)
    BY <1>4, SeqType DEF TakeFails
  <2>2. lane_queues' = [lane_queues EXCEPT ![e][l] = Tail(lane_queues[e][l])]
    BY <1>4 DEF TakeFails
  <2>3. lane_queues' \in [Ends -> [Lanes -> Seq(Frame)]]
    BY <2>1, <2>2, UpdateType
  <2>4. lane_pc' \in [Ends -> [Lanes -> {"get", "send", "done"}]]
    BY <1>4 DEF TakeFails
  <2>5. /\ stop_event' \in [Ends -> BOOLEAN] /\ error_box' \in [Ends -> BOOLEAN]
        /\ UNCHANGED <<appVars, cut, wire, pending, sendVars, hand, readVars, mainVars>>
    BY <1>4 DEF TakeFails, Fail
  <2>. QED BY <2>3, <2>4, <2>5
<1>. QED BY <1>1, <1>2, <1>3, <1>4 DEF LaneSender

LEMMA ReadLaneType ==
  ASSUME TypeOK, NEW e \in Ends, NEW l \in Lanes, ReadLane(e, l)
  PROVE  TypeOK'
<1>. USE PeerType DEF TypeOK, stopVars, mainVars, readVars, laneVars, sendVars, appVars
<1>. DEFINE incoming == wire[Peer(e)][l]
<1>a. ASSUME Readable(e, l),
             wire' = [wire EXCEPT ![Peer(e)][l] = Tail(@)]
      PROVE  Head(incoming) \in Frame /\ wire' \in [Ends -> [Lanes -> Seq(Frame)]]
  <2>1. Head(incoming) \in Frame /\ Tail(incoming) \in Seq(Frame)
    BY <1>a, SeqType DEF Readable
  <2>2. wire' = [wire EXCEPT ![Peer(e)][l] = Tail(incoming)]
    BY <1>a
  <2>3. wire' \in [Ends -> [Lanes -> Seq(Frame)]]
    <3>1. Peer(e) \in Ends /\ wire \in [Ends -> [Lanes -> Seq(Frame)]]
      OBVIOUS
    <3>. HIDE DEF incoming, TypeOK
    <3>. QED BY <2>1, <2>2, <3>1, UpdateType
  <2>. QED BY <2>1, <2>3
<1>1. CASE ReadEofFrame(e, l)
  <2>1. Head(incoming) \in Frame /\ wire' \in [Ends -> [Lanes -> Seq(Frame)]]
    BY <1>a, <1>1 DEF ReadEofFrame
  <2>2. Head(incoming).seq \in Nat
    BY <2>1 DEF Frame
  <2>3. eof_sequence' \in [Ends -> Nat \cup {NoEof}]
    BY <1>1, <2>2 DEF ReadEofFrame, LowerOf
  <2>4. /\ eof_lanes' \in [Ends -> SUBSET Lanes]
        /\ read_pc' \in [Ends -> [Lanes -> {"recv", "done"}]]
    BY <1>1 DEF ReadEofFrame
  <2>. QED BY <1>1, <2>1, <2>3, <2>4 DEF ReadEofFrame
<1>2. CASE ReadFrame(e, l)
  <2>1. Head(incoming) \in Frame /\ wire' \in [Ends -> [Lanes -> Seq(Frame)]]
    BY <1>a, <1>2 DEF ReadFrame
  <2>2. Head(incoming) \in [seq : Nat, data : Payload]
    BY <1>2, <2>1 DEF ReadFrame, Frame
  <2>3. pending' \in [Ends -> SUBSET [seq : Nat, data : Payload]]
    BY <1>2, <2>2 DEF ReadFrame
  <2>4. read_pc' \in [Ends -> [Lanes -> {"recv", "done"}]]
    BY <1>2 DEF ReadFrame
  <2>. QED BY <1>2, <2>1, <2>3, <2>4 DEF ReadFrame
<1>3. CASE LaneClosed(e, l)
  BY <1>3 DEF LaneClosed, Fail
<1>4. CASE ReadAfterClose(e, l)
  BY <1>4 DEF ReadAfterClose
<1>. QED BY <1>1, <1>2, <1>3, <1>4 DEF ReadLane

LEMMA MainType ==
  ASSUME TypeOK, NEW e \in Ends, Main(e)
  PROVE  TypeOK'
<1>. USE DEF TypeOK, stopVars, mainVars, readVars, laneVars, sendVars, appVars
<1>1. CASE PopExpected(e)
  <2>1. PICK f \in pending[e] :
          /\ out' = [out EXCEPT ![e] = f.data]
          /\ pending' = [pending EXCEPT ![e] = @ \ {f}]
    BY <1>1 DEF PopExpected
  <2>2. f.data \in Payload
    OBVIOUS
  <2>3. out' \in [Ends -> Payload \cup {NoData}]
    BY <2>1, <2>2
  <2>4. pending' \in [Ends -> SUBSET [seq : Nat, data : Payload]]
    BY <2>1
  <2>. QED BY <1>1, <2>3, <2>4 DEF PopExpected
<1>2. CASE Deliver(e)
  <2>1. out[e] \in Payload
    BY <1>2 DEF Deliver
  <2>2. Append(delivered[e], out[e]) \in Seq(Payload)
    BY <2>1, SeqType
  <2>3. delivered' \in [Ends -> Seq(Payload)]
    BY <1>2, <2>2 DEF Deliver
  <2>4. /\ expected' \in [Ends -> Nat]
        /\ out' \in [Ends -> Payload \cup {NoData}]
    BY <1>2 DEF Deliver
  <2>. QED BY <1>2, <2>3, <2>4 DEF Deliver
<1>3. CASE DeliverFails(e)
  BY <1>3 DEF DeliverFails
<1>4. CASE EndOfStream(e)
  BY <1>4 DEF EndOfStream
<1>5. CASE LeaveLoop(e)
  BY <1>5 DEF LeaveLoop
<1>6. CASE SendThreadEnded(e)
  BY <1>6 DEF SendThreadEnded
<1>7. CASE JoinLaneSenders(e)
  BY <1>7 DEF JoinLaneSenders
<1>8. CASE WakeLaneSenders(e)
  <2>1. ASSUME NEW l \in Lanes
        PROVE  /\ lane_queues[e][l] \in Seq(Frame)
               /\ Append(lane_queues[e][l], EofItem) \in Seq(Frame)
    BY EofItemType, SeqType
  <2>2. lane_queues' \in [Ends -> [Lanes -> Seq(Frame)]]
    BY <1>8, <2>1 DEF WakeLaneSenders
  <2>3. phase' \in [Ends -> {"run", "wait", "join", "stopping", "closing", "closed"}]
    BY <1>8 DEF WakeLaneSenders
  <2>. QED BY <1>8, <2>2, <2>3 DEF WakeLaneSenders
<1>9. CASE CloseSession(e)
  <2>2. /\ phase' \in [Ends -> {"run", "wait", "join", "stopping", "closing", "closed"}]
        /\ send_pc' \in [Ends -> {"recv", "put", "eof", "done"}]
        /\ lane_pc' \in [Ends -> [Lanes -> {"get", "send", "done"}]]
        /\ read_pc' \in [Ends -> [Lanes -> {"recv", "done"}]]
    BY <1>9 DEF CloseSession
  <2>. QED BY <1>9, <2>2 DEF CloseSession
<1>. QED BY <1>1, <1>2, <1>3, <1>4, <1>5, <1>6, <1>7, <1>8, <1>9 DEF Main

LEMMA EnvironmentType ==
  ASSUME TypeOK
  PROVE  /\ \A e \in Ends : EndpointBreaks(e) \/ SessionCloses(e) => TypeOK'
         /\ \A l \in Lanes : LaneCut(l) => TypeOK'
         /\ \A e \in Ends, l \in Lanes : LaneReset(e, l) => TypeOK'
<1>. USE DEF TypeOK, stopVars, mainVars, readVars, laneVars, sendVars, appVars
<1>1. ASSUME NEW e \in Ends, EndpointBreaks(e) \/ SessionCloses(e) PROVE TypeOK'
  BY <1>1 DEF EndpointBreaks, SessionCloses
<1>2. ASSUME NEW l \in Lanes, LaneCut(l) PROVE TypeOK'
  BY <1>2 DEF LaneCut
<1>3. ASSUME NEW e \in Ends, NEW l \in Lanes, LaneReset(e, l) PROVE TypeOK'
  <2>1. wire' = [x \in Ends |-> [wire[x] EXCEPT ![l] = <<>>]]
    BY <1>3 DEF LaneReset
  <2>2. wire' \in [Ends -> [Lanes -> Seq(Frame)]]
    BY <2>1
  <2>. QED BY <1>3, <2>2 DEF LaneReset
<1>. QED BY <1>1, <1>2, <1>3

(* Every variable keeps its type, whatever the threads of the two ends do. *)
THEOREM TypeCorrect == Spec => []TypeOK
<1>1. TypeOK /\ [Next]_vars => TypeOK'
  <2> SUFFICES ASSUME TypeOK, [Next]_vars PROVE TypeOK'
    OBVIOUS
  <2>1. CASE UNCHANGED vars
    BY <2>1 DEF TypeOK, vars, stopVars, mainVars, readVars, laneVars, sendVars, appVars
  <2>2. CASE Next
    BY <2>2, SendDirectionType, LaneSenderType, ReadLaneType, MainType, EnvironmentType
       DEF Next
  <2>. QED BY <2>1, <2>2
<1>. QED BY InitType, <1>1, PTL DEF Spec

-----------------------------------------------------------------------------
(* The inductive invariant StreamInv.                                      *)

LEMMA SeqMonotone ==
  ASSUME NEW S, NEW T, S \subseteq T, NEW q \in Seq(S)
  PROVE  q \in Seq(T)
OBVIOUS

LEMMA InitStream == Init => StreamInv
<1> SUFFICES ASSUME Init PROVE StreamInv
  OBVIOUS
<1>. USE PeerType
<1>1. TypeOK
  BY InitType
<1>2. InOrder /\ CleanEndIsComplete
  BY DEF Init, InOrder, CleanEndIsComplete
<1>3. ASSUME NEW e \in Ends
      PROVE  FramesGenuine(e) /\ SenderCounts(e) /\ ReceiverCounts(e)
  <2>1. FramesGenuine(e)
    BY DEF Init, FramesGenuine
  <2>2. SenderCounts(e)
    BY DEF Init, SenderCounts
  <2>3. ReceiverCounts(e)
    BY DEF Init, ReceiverCounts
  <2>. QED BY <2>1, <2>2, <2>3
<1>. QED BY <1>1, <1>2, <1>3 DEF StreamInv

(* An end that took the abort branch stays aborted. *)
LEMMA AbortedStays ==
  ASSUME TypeOK, Next, NEW x \in Ends, Aborted(x)
  PROVE  Aborted(x)'
<1>. USE DEF stopVars, mainVars
<1>. DEFINE Quiet == /\ phase' = phase /\ receive_complete' = receive_complete
                     /\ \A y \in Ends : error_box[y] => error_box'[y]
<1>0. Quiet => Aborted(x)'
  BY DEF Aborted
<1>f. ASSUME NEW e \in Ends, Fail(e) PROVE \A y \in Ends : error_box[y] => error_box'[y]
  BY <1>f DEF TypeOK, Fail
<1>1. ASSUME NEW e \in Ends, SendDirection(e) PROVE Quiet
  <2>1. CASE ReadFails(e) BY <2>1, <1>f DEF ReadFails
  <2>2. CASE ReadChunk(e) BY <2>2 DEF ReadChunk
  <2>3. CASE PutChunk(e) BY <2>3 DEF PutChunk
  <2>4. CASE AbandonPut(e) BY <2>4 DEF AbandonPut
  <2>5. CASE ReadEof(e) BY <2>5 DEF ReadEof
  <2>6. CASE PutEof(e) BY <2>6 DEF PutEof
  <2>. QED BY <1>1, <2>1, <2>2, <2>3, <2>4, <2>5, <2>6 DEF SendDirection
<1>2. ASSUME NEW e \in Ends, Main(e) PROVE Aborted(x)'
  <2>. USE DEF TypeOK, Aborted
  <2>1. CASE PopExpected(e) BY <2>1 DEF PopExpected
  <2>2. CASE Deliver(e) BY <2>2 DEF Deliver
  <2>3. CASE DeliverFails(e) BY <2>3 DEF DeliverFails
  <2>4. CASE EndOfStream(e) BY <2>4 DEF EndOfStream
  <2>5. CASE LeaveLoop(e) BY <2>5 DEF LeaveLoop
  <2>6. CASE SendThreadEnded(e) BY <2>6 DEF SendThreadEnded
  <2>7. CASE JoinLaneSenders(e) BY <2>7 DEF JoinLaneSenders
  <2>8. CASE WakeLaneSenders(e) BY <2>8 DEF WakeLaneSenders
  <2>9. CASE CloseSession(e) BY <2>9 DEF CloseSession
  <2>. QED BY <1>2, <2>1, <2>2, <2>3, <2>4, <2>5, <2>6, <2>7, <2>8, <2>9 DEF Main
<1>3. ASSUME NEW e \in Ends, EndpointBreaks(e) \/ SessionCloses(e) PROVE Quiet
  BY <1>3 DEF EndpointBreaks, SessionCloses
<1>4. ASSUME NEW e \in Ends, NEW l \in Lanes, LaneSender(e, l) PROVE Quiet
  <2>1. CASE SendFails(e, l) BY <2>1, <1>f DEF SendFails
  <2>2. CASE TakeItem(e, l) BY <2>2 DEF TakeItem
  <2>3. CASE SendItem(e, l) BY <2>3 DEF SendItem
  <2>4. CASE TakeFails(e, l) BY <2>4, <1>f DEF TakeFails
  <2>. QED BY <1>4, <2>1, <2>2, <2>3, <2>4 DEF LaneSender
<1>5. ASSUME NEW e \in Ends, NEW l \in Lanes, ReadLane(e, l) PROVE Quiet
  <2>1. CASE LaneClosed(e, l) BY <2>1, <1>f DEF LaneClosed
  <2>2. CASE ReadEofFrame(e, l) BY <2>2 DEF ReadEofFrame
  <2>3. CASE ReadFrame(e, l) BY <2>3 DEF ReadFrame
  <2>4. CASE ReadAfterClose(e, l) BY <2>4 DEF ReadAfterClose
  <2>. QED BY <1>5, <2>1, <2>2, <2>3, <2>4 DEF ReadLane
<1>6. ASSUME NEW l \in Lanes, LaneCut(l) PROVE Quiet
  BY <1>6 DEF LaneCut
<1>7. ASSUME NEW e \in Ends, NEW l \in Lanes, LaneReset(e, l) PROVE Quiet
  BY <1>7 DEF LaneReset
<1>. QED BY <1>0, <1>1, <1>2, <1>3, <1>4, <1>5, <1>6, <1>7 DEF Next

(* What is genuine stays so: the history only grows, and not after fin.    *)
LEMMA FramesStayGenuine ==
  ASSUME TypeOK, TypeOK', NEW x \in Ends,
         Aborted(x) => Aborted(x)', fin[x] => fin'[x],
         \/ sent'[x] = sent[x]
         \/ ~fin[x] /\ \E p \in Payload : sent'[x] = Append(sent[x], p)
  PROVE  /\ QueueItems(x) \subseteq QueueItems(x)'
         /\ WireFrames(x) \subseteq WireFrames(x)'
         /\ \A f \in Frame : IsChunk(x, f) => IsChunk(x, f)'
<1>1. ASSUME NEW f \in Frame, IsChunk(x, f) PROVE IsChunk(x, f)'
  <2>1. PICK s \in Seq(Payload) : s = sent[x]
    BY DEF TypeOK
  <2>2. f.seq \in Nat /\ f.seq < Len(s) /\ f.data = s[f.seq + 1]
    BY <1>1, <2>1 DEF IsChunk, Frame
  <2>3. CASE sent'[x] = s
    BY <2>2, <2>3 DEF IsChunk
  <2>4. ASSUME NEW p \in Payload, sent'[x] = Append(s, p) PROVE IsChunk(x, f)'
    <3>1. Len(Append(s, p)) = Len(s) + 1 /\ Append(s, p)[f.seq + 1] = s[f.seq + 1]
      BY <2>2
    <3>2. f.seq < Len(sent'[x]) /\ f.data = sent'[x][f.seq + 1]
      BY <2>2, <2>4, <3>1
    <3>. QED BY <3>2 DEF IsChunk
  <2>. QED BY <2>1, <2>3, <2>4
<1>2. fin[x] => fin'[x] /\ Len(sent'[x]) = Len(sent[x])
  OBVIOUS
<1>3. QueueItems(x) \subseteq QueueItems(x)'
  BY <1>1 DEF QueueItems
<1>4. WireFrames(x) \subseteq WireFrames(x)'
  BY <1>1, <1>2 DEF WireFrames
<1>. QED BY <1>1, <1>3, <1>4

LEMMA GenuineUnchanged ==
  ASSUME TypeOK, NEW x \in Ends, FramesGenuine(x),
         QueueItems(x) \subseteq QueueItems(x)', WireFrames(x) \subseteq WireFrames(x)'
  PROVE  /\ lane_queues[x] \in [Lanes -> Seq(QueueItems(x)')]
         /\ \A l \in Lanes : lane_pc[x][l] = "send" => hand[x][l] \in QueueItems(x)'
         /\ wire[x] \in [Lanes -> Seq(WireFrames(x)')]
         /\ pending[Peer(x)] \subseteq WireFrames(x)'
<1>1. \A l \in Lanes : /\ lane_queues[x][l] \in Seq(QueueItems(x)')
                       /\ wire[x][l] \in Seq(WireFrames(x)')
  BY SeqMonotone DEF FramesGenuine
<1>2. /\ lane_queues[x] \in [Lanes -> Seq(QueueItems(x)')]
      /\ wire[x] \in [Lanes -> Seq(WireFrames(x)')]
  BY <1>1 DEF TypeOK
<1>. QED BY <1>2 DEF FramesGenuine

(* A step that moves no data and only ends threads keeps the invariant.    *)
LEMMA ControlStep ==
  ASSUME StreamInv, Next, TypeOK',
         UNCHANGED <<sent, fin, sequence, send_sequence, putting, lane_queues, hand,
                     wire, pending, delivered, expected, out, eof_sequence,
                     receive_complete>>,
         \A x \in Ends : send_pc'[x] \in {send_pc[x], "done"},
         \A x \in Ends, l \in Lanes : lane_pc'[x][l] = "send" => lane_pc[x][l] = "send",
         \A x \in Ends : phase'[x] = "run" => phase[x] = "run"
  PROVE  StreamInv'
<1>. USE PeerType
<1>1. \A x \in Ends : Aborted(x) => Aborted(x)'
  BY AbortedStays DEF StreamInv
<1>2. InOrder' /\ CleanEndIsComplete'
  BY <1>1 DEF StreamInv, InOrder, CleanEndIsComplete
<1>3. ASSUME NEW x \in Ends
      PROVE  FramesGenuine(x)' /\ SenderCounts(x)' /\ ReceiverCounts(x)'
  <2>1. /\ QueueItems(x) \subseteq QueueItems(x)' /\ WireFrames(x) \subseteq WireFrames(x)'
        /\ \A f \in Frame : IsChunk(x, f) => IsChunk(x, f)'
    BY <1>1, FramesStayGenuine DEF StreamInv
  <2>2. FramesGenuine(x)'
    BY <2>1, GenuineUnchanged DEF StreamInv, FramesGenuine
  <2>3. SenderCounts(x)'
    BY DEF StreamInv, SenderCounts, IsChunk
  <2>4. ReceiverCounts(x)'
    BY <1>1 DEF StreamInv, ReceiverCounts, IsChunk
  <2>. QED BY <2>2, <2>3, <2>4
<1>. QED BY <1>2, <1>3 DEF StreamInv

(* Steps that leave both histories of the applications' input alone.       *)
LEMMA HistoryUnchanged ==
  ASSUME StreamInv, Next, TypeOK', sent' = sent, fin' = fin, NEW x \in Ends
  PROVE  /\ Aborted(x) => Aborted(x)'
         /\ QueueItems(x) \subseteq QueueItems(x)'
         /\ WireFrames(x) \subseteq WireFrames(x)'
         /\ \A f : IsChunk(x, f)' <=> IsChunk(x, f)
<1>1. Aborted(x) => Aborted(x)'
  BY AbortedStays DEF StreamInv
<1>2. \A f : IsChunk(x, f)' <=> IsChunk(x, f)
  BY DEF IsChunk
<1>. QED BY <1>1, <1>2, FramesStayGenuine DEF StreamInv

LEMMA ReadChunkStep ==
  ASSUME StreamInv, Next, TypeOK', NEW e \in Ends, ReadChunk(e)
  PROVE  StreamInv'
<1>. USE PeerType DEF stopVars, mainVars, readVars, laneVars, sendVars, appVars
<1>1. PICK p \in Payload, l \in Lanes :
        /\ sent' = [sent EXCEPT ![e] = Append(@, p)]
        /\ putting' = [putting EXCEPT
             ![e] = [lane |-> l, item |-> [seq |-> sequence[e], data |-> p]]]
  BY DEF ReadChunk
<1>2. ~fin[e] /\ sequence[e] = Len(sent[e]) /\ fin' = fin
  BY DEF ReadChunk, StreamInv, SenderCounts
<1>3. /\ \A x \in Ends : x # e => sent'[x] = sent[x]
      /\ sent'[e] = Append(sent[e], p)
      /\ Len(sent'[e]) = Len(sent[e]) + 1 /\ sent'[e][Len(sent[e]) + 1] = p
      /\ \A i \in 1 .. Len(sent[e]) : sent'[e][i] = sent[e][i]
  BY <1>1 DEF StreamInv, TypeOK
<1>4. ASSUME NEW x \in Ends
      PROVE  /\ Aborted(x) => Aborted(x)'
             /\ QueueItems(x) \subseteq QueueItems(x)'
             /\ WireFrames(x) \subseteq WireFrames(x)'
             /\ \A f \in Frame : IsChunk(x, f) => IsChunk(x, f)'
  <2>1. Aborted(x) => Aborted(x)'
    BY AbortedStays DEF StreamInv
  <2>2. \/ sent'[x] = sent[x]
        \/ ~fin[x] /\ \E q \in Payload : sent'[x] = Append(sent[x], q)
    BY <1>2, <1>3
  <2>. QED BY <1>2, <2>1, <2>2, FramesStayGenuine DEF StreamInv
<1>5. InOrder'
  <2> SUFFICES ASSUME NEW x \in Ends
               PROVE  /\ Len(delivered[x]) <= Len(sent'[Peer(x)])
                      /\ \A i \in 1 .. Len(delivered[x]) : delivered[x][i] = sent'[Peer(x)][i]
    BY DEF ReadChunk, InOrder
  <2>1. /\ Len(delivered[x]) <= Len(sent[Peer(x)])
        /\ \A i \in 1 .. Len(delivered[x]) : delivered[x][i] = sent[Peer(x)][i]
    BY DEF StreamInv, InOrder
  <2>2. Len(delivered[x]) \in Nat /\ Len(sent[Peer(x)]) \in Nat
    <3>1. Peer(x) \in Ends
      BY PeerType
    <3>2. delivered[x] \in Seq(Payload) /\ sent[Peer(x)] \in Seq(Payload)
      BY <3>1 DEF StreamInv, TypeOK
    <3>. QED BY <3>2
  <2>3. CASE Peer(x) = e
    BY <1>3, <2>1, <2>2, <2>3
  <2>4. CASE Peer(x) # e
    BY <1>3, <2>1, <2>4
  <2>. QED BY <2>3, <2>4
<1>6. CleanEndIsComplete'
  BY <1>2, <1>3, <1>4 DEF ReadChunk, StreamInv, CleanEndIsComplete
<1>7. ASSUME NEW x \in Ends PROVE FramesGenuine(x)'
  BY <1>4, GenuineUnchanged DEF ReadChunk, StreamInv, FramesGenuine
<1>8. ASSUME NEW x \in Ends PROVE SenderCounts(x)'
  <2>1. CASE x = e
    <3>1. putting'[e].item = [seq |-> sequence[e], data |-> p]
      BY <1>1 DEF StreamInv, TypeOK
    <3>2. IsChunk(e, putting[e].item)' /\ putting'[e].item.data # NoData
      <4>1. Len(sent[e]) \in Nat
        BY DEF StreamInv, TypeOK
      <4>2. /\ putting'[e].item.seq = Len(sent[e])
            /\ putting'[e].item.data = p
        BY <1>2, <3>1
      <4>. QED BY <1>3, <4>1, <4>2, PayloadAssumption DEF IsChunk
    <3>3. send_pc'[e] = "put" /\ sequence'[e] + 1 = Len(sent'[e])
      BY <1>2, <1>3 DEF ReadChunk, StreamInv, TypeOK
    <3>. QED BY <1>2, <2>1, <3>2, <3>3 DEF SenderCounts
  <2>2. CASE x # e
    BY <1>1, <1>2, <1>3, <2>2 DEF ReadChunk, StreamInv, TypeOK, SenderCounts, IsChunk
  <2>. QED BY <2>1, <2>2
<1>9. ASSUME NEW x \in Ends PROVE ReceiverCounts(x)'
  <2>1. [seq |-> expected[x], data |-> out[x]] \in Frame
    BY DEF StreamInv, TypeOK, Frame
  <2>2. Peer(x) \in Ends /\ ReceiverCounts(x)
    BY DEF StreamInv
  <2>. QED BY <1>2, <1>3, <1>4, <2>1, <2>2 DEF ReadChunk, ReceiverCounts
<1>. QED BY <1>5, <1>6, <1>7, <1>8, <1>9 DEF StreamInv

LEMMA PutChunkStep ==
  ASSUME StreamInv, Next, TypeOK', NEW e \in Ends, PutChunk(e)
  PROVE  StreamInv'
<1>. USE PeerType DEF stopVars, mainVars, readVars, laneVars, sendVars, appVars
<1>1. ASSUME NEW x \in Ends
      PROVE  /\ Aborted(x) => Aborted(x)'
             /\ QueueItems(x) \subseteq QueueItems(x)'
             /\ WireFrames(x) \subseteq WireFrames(x)'
             /\ \A f : IsChunk(x, f)' <=> IsChunk(x, f)
  BY HistoryUnchanged DEF PutChunk
<1>2. InOrder' /\ CleanEndIsComplete'
  BY <1>1 DEF PutChunk, StreamInv, InOrder, CleanEndIsComplete
<1>3. ASSUME NEW x \in Ends PROVE FramesGenuine(x)'
  <2>1. lane_queues'[x] \in [Lanes -> Seq(QueueItems(x)')]
    <3>. DEFINE l == putting[e].lane
                item == putting[e].item
    <3>1. l \in Lanes /\ item \in QueueItems(e)
      <4>1. l \in Lanes /\ item \in Frame
        BY DEF StreamInv, TypeOK
      <4>2. item.data # NoData /\ IsChunk(e, item)
        BY DEF PutChunk, StreamInv, SenderCounts
      <4>. QED BY <4>1, <4>2 DEF QueueItems
    <3>2. lane_queues[x] \in [Lanes -> Seq(QueueItems(x)')]
      BY <1>1, GenuineUnchanged DEF StreamInv
    <3>3. CASE x = e
      <4>1. lane_queues'[e] = [lane_queues[e] EXCEPT ![l] = Append(lane_queues[e][l], item)]
        BY DEF PutChunk, StreamInv, TypeOK
      <4>2. Append(lane_queues[e][l], item) \in Seq(QueueItems(e)')
        <5>1. lane_queues[e][l] \in Seq(QueueItems(e)') /\ item \in QueueItems(e)'
          BY <1>1, <3>1, <3>2, <3>3
        <5>. QED BY <5>1, SeqType
      <4>. QED BY <3>1, <3>2, <3>3, <4>1, <4>2
    <3>4. CASE x # e
      <4>1. lane_queues'[x] = lane_queues[x]
        BY <3>4 DEF PutChunk, StreamInv, TypeOK
      <4>. QED BY <3>2, <4>1
    <3>. QED BY <3>3, <3>4
  <2>. QED BY <1>1, <2>1, GenuineUnchanged DEF PutChunk, StreamInv, FramesGenuine
<1>4. ASSUME NEW x \in Ends PROVE SenderCounts(x)'
  <2>1. /\ send_pc[e] = "put" /\ send_pc'[e] \in {"done", "recv"}
        /\ sequence'[e] = sequence[e] + 1
        /\ x # e => send_pc'[x] = send_pc[x] /\ sequence'[x] = sequence[x]
        /\ UNCHANGED <<sent, fin, putting, send_sequence>>
    BY DEF PutChunk, StreamInv, TypeOK
  <2>2. SenderCounts(x) /\ SenderCounts(e)
    BY DEF StreamInv
  <2>3. CASE x = e
    BY <2>1, <2>2, <2>3 DEF SenderCounts
  <2>4. CASE x # e
    BY <1>1, <2>1, <2>2, <2>4 DEF SenderCounts
  <2>. QED BY <2>3, <2>4
<1>5. ASSUME NEW x \in Ends PROVE ReceiverCounts(x)'
  BY <1>1 DEF PutChunk, StreamInv, ReceiverCounts
<1>. QED BY <1>2, <1>3, <1>4, <1>5 DEF StreamInv

LEMMA ReadEofStep ==
  ASSUME StreamInv, Next, TypeOK', NEW e \in Ends, ReadEof(e)
  PROVE  StreamInv'
<1>. USE PeerType DEF stopVars, mainVars, readVars, laneVars, sendVars, appVars
<1>1. ASSUME NEW x \in Ends
      PROVE  /\ Aborted(x) => Aborted(x)'
             /\ QueueItems(x) \subseteq QueueItems(x)'
             /\ WireFrames(x) \subseteq WireFrames(x)'
             /\ fin[x] => fin'[x]
             /\ \A f : IsChunk(x, f)' <=> IsChunk(x, f)
  <2>1. sent' = sent /\ (fin[x] => fin'[x])
    BY DEF ReadEof, StreamInv, TypeOK
  <2>2. Aborted(x) => Aborted(x)'
    BY AbortedStays DEF StreamInv
  <2>. QED BY <2>1, <2>2, FramesStayGenuine DEF StreamInv, IsChunk
<1>2. InOrder' /\ CleanEndIsComplete'
  BY <1>1 DEF ReadEof, StreamInv, InOrder, CleanEndIsComplete
<1>3. ASSUME NEW x \in Ends PROVE FramesGenuine(x)'
  BY <1>1, GenuineUnchanged DEF ReadEof, StreamInv, FramesGenuine
<1>4. ASSUME NEW x \in Ends PROVE SenderCounts(x)'
  <2>1. /\ send_pc'[e] = "eof" /\ fin'[e] /\ send_sequence'[e] = sequence[e]
        /\ send_pc[e] = "recv"
        /\ x # e => /\ send_pc'[x] = send_pc[x] /\ fin'[x] = fin[x]
                    /\ putting'[x] = putting[x] /\ send_sequence'[x] = send_sequence[x]
        /\ UNCHANGED <<sent, sequence>>
    <3>1. /\ fin \in [Ends -> BOOLEAN] /\ send_sequence \in [Ends -> Nat]
          /\ send_pc \in [Ends -> {"recv", "put", "eof", "done"}]
          /\ putting \in [Ends -> [lane : Lanes, item : Frame]]
      BY DEF StreamInv, TypeOK
    <3>. QED BY <3>1 DEF ReadEof
  <2>2. SenderCounts(x) /\ SenderCounts(e)
    BY DEF StreamInv
  <2>3. CASE x = e
    BY <2>1, <2>2, <2>3 DEF SenderCounts
  <2>4. CASE x # e
    BY <1>1, <2>1, <2>2, <2>4 DEF SenderCounts, IsChunk
  <2>. QED BY <2>3, <2>4
<1>5. ASSUME NEW x \in Ends PROVE ReceiverCounts(x)'
  BY <1>1 DEF ReadEof, StreamInv, ReceiverCounts
<1>. QED BY <1>2, <1>3, <1>4, <1>5 DEF StreamInv

LEMMA PutEofStep ==
  ASSUME StreamInv, Next, TypeOK', NEW e \in Ends, PutEof(e)
  PROVE  StreamInv'
<1>. USE PeerType DEF stopVars, mainVars, readVars, laneVars, sendVars, appVars
<1>1. ASSUME NEW x \in Ends
      PROVE  /\ Aborted(x) => Aborted(x)'
             /\ QueueItems(x) \subseteq QueueItems(x)'
             /\ WireFrames(x) \subseteq WireFrames(x)'
             /\ \A f : IsChunk(x, f)' <=> IsChunk(x, f)
  BY HistoryUnchanged DEF PutEof
<1>2. InOrder' /\ CleanEndIsComplete'
  BY <1>1 DEF PutEof, StreamInv, InOrder, CleanEndIsComplete
<1>3. ASSUME NEW x \in Ends PROVE FramesGenuine(x)'
  <2>1. lane_queues'[x] \in [Lanes -> Seq(QueueItems(x)')]
    <3>. DEFINE l == putting[e].lane
    <3>1. l \in Lanes /\ EofItem \in QueueItems(e)
      <4>1. l \in Lanes
        BY DEF StreamInv, TypeOK
      <4>2. fin[e]
        BY DEF PutEof, StreamInv, SenderCounts
      <4>. QED BY <4>1, <4>2, EofItemType DEF QueueItems
    <3>2. lane_queues[x] \in [Lanes -> Seq(QueueItems(x)')]
      BY <1>1, GenuineUnchanged DEF StreamInv
    <3>3. CASE x = e
      <4>1. lane_queues'[e] = [lane_queues[e] EXCEPT ![l] = Append(lane_queues[e][l], EofItem)]
        BY DEF PutEof, StreamInv, TypeOK
      <4>2. Append(lane_queues[e][l], EofItem) \in Seq(QueueItems(e)')
        <5>1. lane_queues[e][l] \in Seq(QueueItems(e)') /\ EofItem \in QueueItems(e)'
          BY <1>1, <3>1, <3>2, <3>3
        <5>. QED BY <5>1, SeqType
      <4>. QED BY <3>1, <3>2, <3>3, <4>1, <4>2
    <3>4. CASE x # e
      <4>1. lane_queues'[x] = lane_queues[x]
        BY <3>4 DEF PutEof, StreamInv, TypeOK
      <4>. QED BY <3>2, <4>1
    <3>. QED BY <3>3, <3>4
  <2>. QED BY <1>1, <2>1, GenuineUnchanged DEF PutEof, StreamInv, FramesGenuine
<1>4. ASSUME NEW x \in Ends PROVE SenderCounts(x)'
  <2>1. /\ send_pc[e] = "eof" /\ send_pc'[e] \in {"done", "eof"}
        /\ x # e => send_pc'[x] = send_pc[x] /\ putting'[x] = putting[x]
        /\ UNCHANGED <<sent, fin, sequence, send_sequence>>
    <3>1. /\ send_pc \in [Ends -> {"recv", "put", "eof", "done"}]
          /\ putting \in [Ends -> [lane : Lanes, item : Frame]]
      BY DEF StreamInv, TypeOK
    <3>. QED BY <3>1 DEF PutEof
  <2>2. SenderCounts(x) /\ SenderCounts(e)
    BY DEF StreamInv
  <2>3. CASE x = e
    BY <2>1, <2>2, <2>3 DEF SenderCounts
  <2>4. CASE x # e
    BY <1>1, <2>1, <2>2, <2>4 DEF SenderCounts
  <2>. QED BY <2>3, <2>4
<1>5. ASSUME NEW x \in Ends PROVE ReceiverCounts(x)'
  BY <1>1 DEF PutEof, StreamInv, ReceiverCounts
<1>. QED BY <1>2, <1>3, <1>4, <1>5 DEF StreamInv

LEMMA TakeItemStep ==
  ASSUME StreamInv, Next, TypeOK', NEW e \in Ends, NEW l \in Lanes, TakeItem(e, l)
  PROVE  StreamInv'
<1>. USE PeerType DEF stopVars, mainVars, readVars, laneVars, sendVars, appVars
<1>1. ASSUME NEW x \in Ends
      PROVE  /\ Aborted(x) => Aborted(x)'
             /\ QueueItems(x) \subseteq QueueItems(x)'
             /\ WireFrames(x) \subseteq WireFrames(x)'
             /\ \A f : IsChunk(x, f)' <=> IsChunk(x, f)
  BY HistoryUnchanged DEF TakeItem
<1>2. InOrder' /\ CleanEndIsComplete'
  BY <1>1 DEF TakeItem, StreamInv, InOrder, CleanEndIsComplete
<1>3. ASSUME NEW x \in Ends PROVE FramesGenuine(x)'
  <2>1. /\ lane_queues[x] \in [Lanes -> Seq(QueueItems(x)')]
        /\ \A m \in Lanes : lane_pc[x][m] = "send" => hand[x][m] \in QueueItems(x)'
        /\ wire'[x] \in [Lanes -> Seq(WireFrames(x)')]
        /\ pending'[Peer(x)] \subseteq WireFrames(x)'
    BY <1>1, GenuineUnchanged DEF TakeItem, StreamInv
  <2>2. CASE x = e
    <3>1. /\ lane_queues'[e] = [lane_queues[e] EXCEPT ![l] = Tail(lane_queues[e][l])]
          /\ hand'[e] = [hand[e] EXCEPT ![l] = Head(lane_queues[e][l])]
          /\ \A m \in Lanes : m # l => lane_pc'[e][m] = lane_pc[e][m]
      BY DEF TakeItem, StreamInv, TypeOK
    <3>2. /\ Head(lane_queues[e][l]) \in QueueItems(e)'
          /\ Tail(lane_queues[e][l]) \in Seq(QueueItems(e)')
      <4>1. lane_queues[e][l] \in Seq(QueueItems(e)') /\ lane_queues[e][l] # <<>>
        BY <2>1, <2>2 DEF TakeItem
      <4>. QED BY <4>1, SeqType
    <3>3. lane_queues'[e] \in [Lanes -> Seq(QueueItems(e)')]
      BY <2>1, <2>2, <3>1, <3>2
    <3>4. \A m \in Lanes : lane_pc'[e][m] = "send" => hand'[e][m] \in QueueItems(e)'
      BY <2>1, <2>2, <3>1, <3>2 DEF StreamInv, TypeOK
    <3>. QED BY <2>1, <2>2, <3>3, <3>4 DEF FramesGenuine
  <2>3. CASE x # e
    <3>1. /\ lane_queues'[x] = lane_queues[x] /\ hand'[x] = hand[x]
          /\ lane_pc'[x] = lane_pc[x]
      BY <2>3 DEF TakeItem, StreamInv, TypeOK
    <3>. QED BY <2>1, <3>1 DEF FramesGenuine
  <2>. QED BY <2>2, <2>3
<1>4. ASSUME NEW x \in Ends PROVE SenderCounts(x)'
  BY <1>1 DEF TakeItem, StreamInv, SenderCounts
<1>5. ASSUME NEW x \in Ends PROVE ReceiverCounts(x)'
  BY <1>1 DEF TakeItem, StreamInv, ReceiverCounts
<1>. QED BY <1>2, <1>3, <1>4, <1>5 DEF StreamInv

(* The item is taken and lost: the other items stay genuine.               *)
LEMMA TakeFailsStep ==
  ASSUME StreamInv, Next, TypeOK', NEW e \in Ends, NEW l \in Lanes, TakeFails(e, l)
  PROVE  StreamInv'
<1>. USE PeerType DEF stopVars, mainVars, readVars, laneVars, sendVars, appVars
<1>1. ASSUME NEW x \in Ends
      PROVE  /\ Aborted(x) => Aborted(x)'
             /\ QueueItems(x) \subseteq QueueItems(x)'
             /\ WireFrames(x) \subseteq WireFrames(x)'
             /\ \A f : IsChunk(x, f)' <=> IsChunk(x, f)
  BY HistoryUnchanged DEF TakeFails
<1>2. InOrder' /\ CleanEndIsComplete'
  BY <1>1 DEF TakeFails, StreamInv, InOrder, CleanEndIsComplete
<1>3. ASSUME NEW x \in Ends PROVE FramesGenuine(x)'
  <2>1. /\ lane_queues[x] \in [Lanes -> Seq(QueueItems(x)')]
        /\ \A m \in Lanes : lane_pc[x][m] = "send" => hand[x][m] \in QueueItems(x)'
        /\ wire'[x] \in [Lanes -> Seq(WireFrames(x)')]
        /\ pending'[Peer(x)] \subseteq WireFrames(x)'
    BY <1>1, GenuineUnchanged DEF TakeFails, StreamInv
  <2>2. CASE x = e
    <3>1. /\ lane_queues'[e] = [lane_queues[e] EXCEPT ![l] = Tail(lane_queues[e][l])]
          /\ hand' = hand
          /\ \A m \in Lanes : lane_pc'[e][m] = "send" => lane_pc[e][m] = "send"
      BY DEF TakeFails, StreamInv, TypeOK
    <3>2. Tail(lane_queues[e][l]) \in Seq(QueueItems(e)')
      <4>1. lane_queues[e][l] \in Seq(QueueItems(e)') /\ lane_queues[e][l] # <<>>
        BY <2>1, <2>2 DEF TakeFails
      <4>. QED BY <4>1, SeqType
    <3>3. lane_queues'[e] \in [Lanes -> Seq(QueueItems(e)')]
      BY <2>1, <2>2, <3>1, <3>2
    <3>4. \A m \in Lanes : lane_pc'[e][m] = "send" => hand'[e][m] \in QueueItems(e)'
      BY <2>1, <2>2, <3>1, <3>2 DEF StreamInv, TypeOK
    <3>. QED BY <2>1, <2>2, <3>3, <3>4 DEF FramesGenuine
  <2>3. CASE x # e
    <3>1. /\ lane_queues'[x] = lane_queues[x] /\ hand'[x] = hand[x]
          /\ lane_pc'[x] = lane_pc[x]
      BY <2>3 DEF TakeFails, StreamInv, TypeOK
    <3>. QED BY <2>1, <3>1 DEF FramesGenuine
  <2>. QED BY <2>2, <2>3
<1>4. ASSUME NEW x \in Ends PROVE SenderCounts(x)'
  BY <1>1 DEF TakeFails, StreamInv, SenderCounts
<1>5. ASSUME NEW x \in Ends PROVE ReceiverCounts(x)'
  BY <1>1 DEF TakeFails, StreamInv, ReceiverCounts
<1>. QED BY <1>2, <1>3, <1>4, <1>5 DEF StreamInv

LEMMA SendItemStep ==
  ASSUME StreamInv, Next, TypeOK', NEW e \in Ends, NEW l \in Lanes, SendItem(e, l)
  PROVE  StreamInv'
<1>. USE PeerType DEF stopVars, mainVars, readVars, laneVars, sendVars, appVars
<1>1. ASSUME NEW x \in Ends
      PROVE  /\ Aborted(x) => Aborted(x)'
             /\ QueueItems(x) \subseteq QueueItems(x)'
             /\ WireFrames(x) \subseteq WireFrames(x)'
             /\ \A f : IsChunk(x, f)' <=> IsChunk(x, f)
  BY HistoryUnchanged DEF SendItem
<1>2. InOrder' /\ CleanEndIsComplete'
  BY <1>1 DEF SendItem, StreamInv, InOrder, CleanEndIsComplete
<1>3. ASSUME NEW x \in Ends PROVE FramesGenuine(x)'
  <2>1. /\ lane_queues'[x] \in [Lanes -> Seq(QueueItems(x)')]
        /\ \A m \in Lanes : lane_pc[x][m] = "send" => hand[x][m] \in QueueItems(x)'
        /\ wire[x] \in [Lanes -> Seq(WireFrames(x)')]
        /\ pending'[Peer(x)] \subseteq WireFrames(x)'
    BY <1>1, GenuineUnchanged DEF SendItem, StreamInv
  <2>2. \A m \in Lanes : lane_pc'[x][m] = "send" =>
                           lane_pc[x][m] = "send" /\ hand'[x][m] = hand[x][m]
    <3>1. /\ lane_pc \in [Ends -> [Lanes -> {"get", "send", "done"}]]
          /\ hand \in [Ends -> [Lanes -> Frame]]
      BY DEF StreamInv, TypeOK
    <3>. QED BY <3>1 DEF SendItem
  <2>3. wire'[x] \in [Lanes -> Seq(WireFrames(x)')]
    <3>. DEFINE frame == Wire(e, hand[e][l])
    <3>1. frame \in WireFrames(e)
      <4>1. hand[e][l] \in QueueItems(e) /\ send_sequence[e] \in Nat
        BY DEF SendItem, StreamInv, FramesGenuine, TypeOK
      <4>2. fin[e] => send_sequence[e] = Len(sent[e])
        BY DEF StreamInv, SenderCounts
      <4>. QED BY <4>1, <4>2 DEF QueueItems, WireFrames, Wire, Frame
    <3>2. CASE x = e /\ wire' # wire
      <4>1. wire'[e] = [wire[e] EXCEPT ![l] = Append(wire[e][l], frame)]
        <5>1. /\ wire \in [Ends -> [Lanes -> Seq(Frame)]]
          BY DEF StreamInv, TypeOK
        <5>. QED BY <5>1, <3>2 DEF SendItem
      <4>2. Append(wire[e][l], frame) \in Seq(WireFrames(e)')
        <5>1. wire[e][l] \in Seq(WireFrames(e)') /\ frame \in WireFrames(e)'
          BY <1>1, <2>1, <3>1, <3>2
        <5>. QED BY <5>1, SeqType
      <4>. QED BY <2>1, <3>2, <4>1, <4>2
    <3>3. CASE x # e \/ wire' = wire
      <4>1. wire'[x] = wire[x]
        <5>1. /\ wire \in [Ends -> [Lanes -> Seq(Frame)]]
          BY DEF StreamInv, TypeOK
        <5>. QED BY <5>1, <3>3 DEF SendItem
      <4>. QED BY <2>1, <4>1
    <3>. QED BY <3>2, <3>3
  <2>. QED BY <2>1, <2>2, <2>3 DEF FramesGenuine
<1>4. ASSUME NEW x \in Ends PROVE SenderCounts(x)'
  BY <1>1 DEF SendItem, StreamInv, SenderCounts
<1>5. ASSUME NEW x \in Ends PROVE ReceiverCounts(x)'
  BY <1>1 DEF SendItem, StreamInv, ReceiverCounts
<1>. QED BY <1>2, <1>3, <1>4, <1>5 DEF StreamInv

LEMMA ReadEofFrameStep ==
  ASSUME StreamInv, Next, TypeOK', NEW e \in Ends, NEW l \in Lanes, ReadEofFrame(e, l)
  PROVE  StreamInv'
<1>. USE PeerType DEF stopVars, mainVars, readVars, laneVars, sendVars, appVars
<1>1. ASSUME NEW x \in Ends
      PROVE  /\ Aborted(x) => Aborted(x)'
             /\ QueueItems(x) \subseteq QueueItems(x)'
             /\ WireFrames(x) \subseteq WireFrames(x)'
             /\ \A f : IsChunk(x, f)' <=> IsChunk(x, f)
  BY HistoryUnchanged DEF ReadEofFrame
<1>2. InOrder' /\ CleanEndIsComplete'
  BY <1>1 DEF ReadEofFrame, StreamInv, InOrder, CleanEndIsComplete
<1>3. ASSUME NEW x \in Ends PROVE FramesGenuine(x)'
  <2>1. /\ lane_queues[x] \in [Lanes -> Seq(QueueItems(x)')]
        /\ \A m \in Lanes : lane_pc[x][m] = "send" => hand[x][m] \in QueueItems(x)'
        /\ wire[x] \in [Lanes -> Seq(WireFrames(x)')]
        /\ pending[Peer(x)] \subseteq WireFrames(x)'
    BY <1>1, GenuineUnchanged DEF StreamInv
  <2>2. wire'[x] \in [Lanes -> Seq(WireFrames(x)')]
    <3>1. wire \in [Ends -> [Lanes -> Seq(Frame)]]
      BY DEF StreamInv, TypeOK
    <3>2. CASE x = Peer(e)
      <4>1. wire'[x] = [wire[x] EXCEPT ![l] = Tail(wire[x][l])]
        BY <3>1, <3>2 DEF ReadEofFrame
      <4>2. Tail(wire[x][l]) \in Seq(WireFrames(x)')
        <5>1. wire[x][l] \in Seq(WireFrames(x)') /\ wire[x][l] # <<>>
          BY <2>1, <3>2 DEF ReadEofFrame, Readable
        <5>. QED BY <5>1, SeqType
      <4>. QED BY <2>1, <4>1, <4>2
    <3>3. CASE x # Peer(e)
      <4>1. wire'[x] = wire[x]
        BY <3>1, <3>3 DEF ReadEofFrame
      <4>. QED BY <2>1, <4>1
    <3>. QED BY <3>2, <3>3
  <2>. QED BY <2>1, <2>2 DEF ReadEofFrame, FramesGenuine
<1>4. ASSUME NEW x \in Ends PROVE SenderCounts(x)'
  BY <1>1 DEF ReadEofFrame, StreamInv, SenderCounts
<1>5. ASSUME NEW x \in Ends PROVE ReceiverCounts(x)'
  <2>. DEFINE frame == Head(wire[Peer(e)][l])
  <2>1. \/ fin[Peer(e)] /\ frame.seq = Len(sent[Peer(e)])
        \/ Aborted(Peer(e))
    <3>1. wire[Peer(e)][l] \in Seq(WireFrames(Peer(e))) /\ wire[Peer(e)][l] # <<>>
      BY DEF ReadEofFrame, Readable, StreamInv, FramesGenuine
    <3>2. frame \in WireFrames(Peer(e))
      BY <3>1, SeqType
    <3>. QED BY <3>2 DEF ReadEofFrame, WireFrames
  <2>2. /\ x # e => eof_sequence'[x] = eof_sequence[x]
        /\ eof_sequence'[e] \in {eof_sequence[e], frame.seq}
        /\ eof_sequence'[e] = eof_sequence[e] => eof_sequence[e] # NoEof \/ frame.seq = NoEof
    <3>1. eof_sequence \in [Ends -> Nat \cup {NoEof}]
      BY DEF StreamInv, TypeOK
    <3>. QED BY <3>1 DEF ReadEofFrame, LowerOf
  <2>3. ReceiverCounts(x) /\ ReceiverCounts(e)
    BY DEF StreamInv
  <2>4. eof_sequence'[x] # NoEof =>
          \/ fin[Peer(x)] /\ eof_sequence'[x] = Len(sent[Peer(x)])
          \/ Aborted(Peer(x))
    BY <2>1, <2>2, <2>3 DEF ReceiverCounts
  <2>. QED BY <1>1, <2>3, <2>4 DEF ReadEofFrame, ReceiverCounts
<1>. QED BY <1>2, <1>3, <1>4, <1>5 DEF StreamInv

LEMMA ReadFrameStep ==
  ASSUME StreamInv, Next, TypeOK', NEW e \in Ends, NEW l \in Lanes, ReadFrame(e, l)
  PROVE  StreamInv'
<1>. USE PeerType DEF stopVars, mainVars, readVars, laneVars, sendVars, appVars
<1>1. ASSUME NEW x \in Ends
      PROVE  /\ Aborted(x) => Aborted(x)'
             /\ QueueItems(x) \subseteq QueueItems(x)'
             /\ WireFrames(x) \subseteq WireFrames(x)'
             /\ \A f : IsChunk(x, f)' <=> IsChunk(x, f)
  BY HistoryUnchanged DEF ReadFrame
<1>2. InOrder' /\ CleanEndIsComplete'
  BY <1>1 DEF ReadFrame, StreamInv, InOrder, CleanEndIsComplete
<1>3. ASSUME NEW x \in Ends PROVE FramesGenuine(x)'
  <2>1. /\ lane_queues[x] \in [Lanes -> Seq(QueueItems(x)')]
        /\ \A m \in Lanes : lane_pc[x][m] = "send" => hand[x][m] \in QueueItems(x)'
        /\ wire[x] \in [Lanes -> Seq(WireFrames(x)')]
        /\ pending[Peer(x)] \subseteq WireFrames(x)'
    BY <1>1, GenuineUnchanged DEF StreamInv
  <2>2. wire'[x] \in [Lanes -> Seq(WireFrames(x)')]
    <3>1. wire \in [Ends -> [Lanes -> Seq(Frame)]]
      BY DEF StreamInv, TypeOK
    <3>2. CASE x = Peer(e)
      <4>1. wire'[x] = [wire[x] EXCEPT ![l] = Tail(wire[x][l])]
        BY <3>1, <3>2 DEF ReadFrame
      <4>2. Tail(wire[x][l]) \in Seq(WireFrames(x)')
        <5>1. wire[x][l] \in Seq(WireFrames(x)') /\ wire[x][l] # <<>>
          BY <2>1, <3>2 DEF ReadFrame, Readable
        <5>. QED BY <5>1, SeqType
      <4>. QED BY <2>1, <4>1, <4>2
    <3>3. CASE x # Peer(e)
      <4>1. wire'[x] = wire[x]
        BY <3>1, <3>3 DEF ReadFrame
      <4>. QED BY <2>1, <4>1
    <3>. QED BY <3>2, <3>3
  <2>3. pending'[Peer(x)] \subseteq WireFrames(x)'
    <3>. DEFINE frame == Head(wire[Peer(e)][l])
    <3>0. pending \in [Ends -> SUBSET [seq : Nat, data : Payload]]
      BY DEF StreamInv, TypeOK
    <3>1. CASE Peer(x) = e
      <4>1. x = Peer(e)
        BY <3>1
      <4>2. frame \in WireFrames(x)'
        <5>1. wire[x][l] \in Seq(WireFrames(x)') /\ wire[x][l] # <<>>
          BY <2>1, <4>1 DEF ReadFrame, Readable
        <5>. QED BY <4>1, <5>1, SeqType
      <4>3. pending'[e] \subseteq pending[e] \cup {frame}
        BY <3>0 DEF ReadFrame
      <4>. QED BY <2>1, <3>1, <4>2, <4>3
    <3>2. CASE Peer(x) # e
      <4>1. pending'[Peer(x)] = pending[Peer(x)]
        BY <3>0, <3>2 DEF ReadFrame
      <4>. QED BY <2>1, <4>1
    <3>. QED BY <3>1, <3>2
  <2>. QED BY <2>1, <2>2, <2>3 DEF ReadFrame, FramesGenuine
<1>4. ASSUME NEW x \in Ends PROVE SenderCounts(x)'
  BY <1>1 DEF ReadFrame, StreamInv, SenderCounts
<1>5. ASSUME NEW x \in Ends PROVE ReceiverCounts(x)'
  BY <1>1 DEF ReadFrame, StreamInv, ReceiverCounts
<1>. QED BY <1>2, <1>3, <1>4, <1>5 DEF StreamInv

LEMMA PopExpectedStep ==
  ASSUME StreamInv, Next, TypeOK', NEW e \in Ends, PopExpected(e)
  PROVE  StreamInv'
<1>. USE PeerType DEF stopVars, mainVars, readVars, laneVars, sendVars, appVars
<1>1. ASSUME NEW x \in Ends
      PROVE  /\ Aborted(x) => Aborted(x)'
             /\ QueueItems(x) \subseteq QueueItems(x)'
             /\ WireFrames(x) \subseteq WireFrames(x)'
             /\ \A f : IsChunk(x, f)' <=> IsChunk(x, f)
  BY HistoryUnchanged DEF PopExpected
<1>2. InOrder' /\ CleanEndIsComplete'
  BY <1>1 DEF PopExpected, StreamInv, InOrder, CleanEndIsComplete
<1>3. PICK f \in pending[e] :
        /\ f.seq = expected[e]
        /\ out' = [out EXCEPT ![e] = f.data]
        /\ pending' = [pending EXCEPT ![e] = @ \ {f}]
  BY DEF PopExpected
<1>4. ASSUME NEW x \in Ends PROVE FramesGenuine(x)'
  <2>1. /\ lane_queues[x] \in [Lanes -> Seq(QueueItems(x)')]
        /\ \A m \in Lanes : lane_pc[x][m] = "send" => hand[x][m] \in QueueItems(x)'
        /\ wire[x] \in [Lanes -> Seq(WireFrames(x)')]
        /\ pending[Peer(x)] \subseteq WireFrames(x)'
    BY <1>1, GenuineUnchanged DEF StreamInv
  <2>2. pending'[Peer(x)] \subseteq pending[Peer(x)]
    BY <1>3 DEF StreamInv, TypeOK
  <2>. QED BY <2>1, <2>2 DEF PopExpected, FramesGenuine
<1>5. ASSUME NEW x \in Ends PROVE SenderCounts(x)'
  BY <1>1 DEF PopExpected, StreamInv, SenderCounts
<1>6. ASSUME NEW x \in Ends PROVE ReceiverCounts(x)'
  <2>1. IsChunk(Peer(e), f)
    <3>1. f \in WireFrames(Peer(e)) /\ f \in [seq : Nat, data : Payload]
      BY DEF StreamInv, FramesGenuine, TypeOK
    <3>. QED BY <3>1, PayloadAssumption DEF WireFrames
  <2>2. out'[e] = f.data /\ (x # e => out'[x] = out[x])
    BY <1>3 DEF StreamInv, TypeOK
  <2>3. out'[x] # NoData => IsChunk(Peer(x), [seq |-> expected[x], data |-> out'[x]])
    BY <1>3, <2>1, <2>2 DEF StreamInv, ReceiverCounts, IsChunk
  <2>. QED BY <1>1, <2>3 DEF PopExpected, StreamInv, ReceiverCounts
<1>. QED BY <1>2, <1>4, <1>5, <1>6 DEF StreamInv

LEMMA DeliverStep ==
  ASSUME StreamInv, Next, TypeOK', NEW e \in Ends, Deliver(e)
  PROVE  StreamInv'
<1>. USE PeerType DEF stopVars, mainVars, readVars, laneVars, sendVars, appVars
<1>1. ASSUME NEW x \in Ends
      PROVE  /\ Aborted(x) => Aborted(x)'
             /\ QueueItems(x) \subseteq QueueItems(x)'
             /\ WireFrames(x) \subseteq WireFrames(x)'
             /\ \A f : IsChunk(x, f)' <=> IsChunk(x, f)
  BY HistoryUnchanged DEF Deliver
<1>2. /\ out[e] \in Payload /\ ~receive_complete[e]
      /\ Len(delivered[e]) = expected[e] /\ expected[e] \in Nat
      /\ expected[e] < Len(sent[Peer(e)]) /\ out[e] = sent[Peer(e)][expected[e] + 1]
  <2>1. out[e] \in Payload /\ expected[e] \in Nat
    BY DEF Deliver, StreamInv, TypeOK
  <2>2. ReceiverCounts(e)
    BY DEF StreamInv
  <2>. QED BY <2>1, <2>2 DEF Deliver, ReceiverCounts, IsChunk
<1>3. /\ Len(delivered'[e]) = expected[e] + 1
      /\ delivered'[e][expected[e] + 1] = out[e]
      /\ \A i \in 1 .. expected[e] : delivered'[e][i] = delivered[e][i]
      /\ \A x \in Ends : x # e => delivered'[x] = delivered[x]
      /\ expected'[e] = expected[e] + 1 /\ out'[e] = NoData
      /\ \A x \in Ends : x # e => expected'[x] = expected[x] /\ out'[x] = out[x]
  <2>1. /\ delivered \in [Ends -> Seq(Payload)] /\ expected \in [Ends -> Nat]
        /\ out \in [Ends -> Payload \cup {NoData}]
    BY DEF StreamInv, TypeOK
  <2>2. /\ delivered'[e] = Append(delivered[e], out[e])
        /\ \A x \in Ends : x # e => delivered'[x] = delivered[x]
    BY <2>1 DEF Deliver
  <2>3. delivered[e] \in Seq(Payload)
    BY <2>1
  <2>. QED BY <1>2, <2>1, <2>2, <2>3 DEF Deliver
<1>4. InOrder'
  <2> SUFFICES ASSUME NEW x \in Ends
               PROVE  /\ Len(delivered'[x]) <= Len(sent[Peer(x)])
                      /\ \A i \in 1 .. Len(delivered'[x]) :
                           delivered'[x][i] = sent[Peer(x)][i]
    BY DEF Deliver, InOrder
  <2>1. /\ Len(delivered[x]) <= Len(sent[Peer(x)])
        /\ \A i \in 1 .. Len(delivered[x]) : delivered[x][i] = sent[Peer(x)][i]
    BY DEF StreamInv, InOrder
  <2>2. CASE x = e
    <3>1. sent[Peer(e)] \in Seq(Payload)
      BY DEF StreamInv, TypeOK
    <3>2. Len(delivered'[e]) <= Len(sent[Peer(e)])
      BY <1>2, <1>3, <3>1
    <3>3. ASSUME NEW i \in 1 .. Len(delivered'[e])
          PROVE  delivered'[e][i] = sent[Peer(e)][i]
      <4>1. i \in 1 .. expected[e] \/ i = expected[e] + 1
        BY <1>2, <1>3
      <4>. QED BY <1>2, <1>3, <2>1, <2>2, <4>1
    <3>. QED BY <2>2, <3>2, <3>3
  <2>3. CASE x # e
    BY <1>3, <2>1, <2>3
  <2>. QED BY <2>2, <2>3
<1>5. CleanEndIsComplete'
  BY <1>1, <1>2, <1>3 DEF Deliver, StreamInv, CleanEndIsComplete
<1>6. ASSUME NEW x \in Ends PROVE FramesGenuine(x)'
  BY <1>1, GenuineUnchanged DEF Deliver, StreamInv, FramesGenuine
<1>7. ASSUME NEW x \in Ends PROVE SenderCounts(x)'
  BY <1>1 DEF Deliver, StreamInv, SenderCounts
<1>8. ASSUME NEW x \in Ends PROVE ReceiverCounts(x)'
  <2>1. ReceiverCounts(x)
    BY DEF StreamInv
  <2>. QED BY <1>1, <1>2, <1>3, <2>1 DEF Deliver, ReceiverCounts
<1>. QED BY <1>4, <1>5, <1>6, <1>7, <1>8 DEF StreamInv

LEMMA EndOfStreamStep ==
  ASSUME StreamInv, Next, TypeOK', NEW e \in Ends, EndOfStream(e)
  PROVE  StreamInv'
<1>. USE PeerType DEF stopVars, mainVars, readVars, laneVars, sendVars, appVars
<1>1. ASSUME NEW x \in Ends
      PROVE  /\ Aborted(x) => Aborted(x)'
             /\ QueueItems(x) \subseteq QueueItems(x)'
             /\ WireFrames(x) \subseteq WireFrames(x)'
             /\ \A f : IsChunk(x, f)' <=> IsChunk(x, f)
  BY HistoryUnchanged DEF EndOfStream
<1>2. \/ Aborted(Peer(e))
      \/ fin[Peer(e)] /\ Len(delivered[e]) = Len(sent[Peer(e)])
  <2>1. ReceiverCounts(e)
    BY DEF StreamInv
  <2>2. /\ Len(delivered[e]) <= Len(sent[Peer(e)]) /\ Len(sent[Peer(e)]) \in Nat
        /\ expected[e] \in Nat
    <3>1. sent[Peer(e)] \in Seq(Payload) /\ expected[e] \in Nat
      BY DEF StreamInv, TypeOK
    <3>. QED BY <3>1 DEF StreamInv, InOrder
  <2>3. /\ eof_sequence[e] # NoEof /\ expected[e] >= eof_sequence[e]
        /\ Len(delivered[e]) = expected[e]
    BY <2>1 DEF EndOfStream, ReceiverCounts
  <2>4. ASSUME eof_sequence[e] = Len(sent[Peer(e)])
        PROVE  Len(delivered[e]) = Len(sent[Peer(e)])
    BY <2>2, <2>3, <2>4
  <2>5. \/ fin[Peer(e)] /\ eof_sequence[e] = Len(sent[Peer(e)])
        \/ Aborted(Peer(e))
    BY <2>1, <2>3 DEF ReceiverCounts
  <2>6. CASE Aborted(Peer(e))
    BY <2>6
  <2>7. CASE fin[Peer(e)] /\ eof_sequence[e] = Len(sent[Peer(e)])
    <3>1. Len(delivered[e]) = Len(sent[Peer(e)])
      BY <2>4, <2>7
    <3>. QED BY <2>7, <3>1
  <2>. QED BY <2>5, <2>6, <2>7
<1>3. /\ \A x \in Ends : receive_complete'[x] => receive_complete[x] \/ x = e
      /\ phase'[e] = "wait" /\ \A x \in Ends : x # e => phase'[x] = phase[x]
  BY DEF EndOfStream, StreamInv, TypeOK
<1>4. InOrder'
  BY DEF EndOfStream, StreamInv, InOrder
<1>5. CleanEndIsComplete'
  BY <1>1, <1>2, <1>3 DEF EndOfStream, StreamInv, CleanEndIsComplete
<1>6. ASSUME NEW x \in Ends PROVE FramesGenuine(x)'
  BY <1>1, GenuineUnchanged DEF EndOfStream, StreamInv, FramesGenuine
<1>7. ASSUME NEW x \in Ends PROVE SenderCounts(x)'
  BY <1>1 DEF EndOfStream, StreamInv, SenderCounts
<1>8. ASSUME NEW x \in Ends PROVE ReceiverCounts(x)'
  BY <1>1, <1>3 DEF EndOfStream, StreamInv, ReceiverCounts
<1>. QED BY <1>4, <1>5, <1>6, <1>7, <1>8 DEF StreamInv

LEMMA WakeLaneSendersStep ==
  ASSUME StreamInv, Next, TypeOK', NEW e \in Ends, WakeLaneSenders(e)
  PROVE  StreamInv'
<1>. USE PeerType DEF stopVars, mainVars, readVars, laneVars, sendVars, appVars
<1>1. ASSUME NEW x \in Ends
      PROVE  /\ Aborted(x) => Aborted(x)'
             /\ QueueItems(x) \subseteq QueueItems(x)'
             /\ WireFrames(x) \subseteq WireFrames(x)'
             /\ \A f : IsChunk(x, f)' <=> IsChunk(x, f)
  BY HistoryUnchanged DEF WakeLaneSenders
<1>2. InOrder' /\ CleanEndIsComplete'
  BY <1>1 DEF WakeLaneSenders, StreamInv, InOrder, CleanEndIsComplete
<1>3. ASSUME NEW x \in Ends PROVE FramesGenuine(x)'
  <2>1. /\ lane_queues[x] \in [Lanes -> Seq(QueueItems(x)')]
        /\ \A m \in Lanes : lane_pc[x][m] = "send" => hand[x][m] \in QueueItems(x)'
        /\ wire[x] \in [Lanes -> Seq(WireFrames(x)')]
        /\ pending[Peer(x)] \subseteq WireFrames(x)'
    BY <1>1, GenuineUnchanged DEF StreamInv
  <2>2. lane_queues'[x] \in [Lanes -> Seq(QueueItems(x)')]
    <3>1. lane_queues \in [Ends -> [Lanes -> Seq(Frame)]]
      BY DEF StreamInv, TypeOK
    <3>2. CASE x = e /\ (~receive_complete[e] \/ error_box[e])
      <4>1. Aborted(e)'
        <5>1. phase'[e] = "closing"
          BY DEF WakeLaneSenders, StreamInv, TypeOK
        <5>. QED BY <3>2, <5>1 DEF WakeLaneSenders, Aborted
      <4>2. EofItem \in QueueItems(e)'
        BY <4>1, EofItemType DEF QueueItems
      <4>3. lane_queues'[e] =
              [l \in Lanes |-> IF Len(lane_queues[e][l]) < QueueSize
                               THEN Append(lane_queues[e][l], EofItem)
                               ELSE lane_queues[e][l]]
        BY <3>1, <3>2 DEF WakeLaneSenders
      <4>4. \A l \in Lanes : Append(lane_queues[e][l], EofItem) \in Seq(QueueItems(e)')
        BY <2>1, <3>2, <4>2, SeqType
      <4>. QED BY <2>1, <3>2, <4>3, <4>4
    <3>3. CASE ~(x = e /\ (~receive_complete[e] \/ error_box[e]))
      <4>1. lane_queues'[x] = lane_queues[x]
        BY <3>1, <3>3 DEF WakeLaneSenders
      <4>. QED BY <2>1, <4>1
    <3>. QED BY <3>2, <3>3
  <2>. QED BY <2>1, <2>2 DEF WakeLaneSenders, FramesGenuine
<1>4. ASSUME NEW x \in Ends PROVE SenderCounts(x)'
  BY <1>1 DEF WakeLaneSenders, StreamInv, SenderCounts
<1>5. ASSUME NEW x \in Ends PROVE ReceiverCounts(x)'
  <2>1. phase'[x] = "run" => phase[x] = "run"
    BY DEF WakeLaneSenders, StreamInv, TypeOK
  <2>. QED BY <1>1, <2>1 DEF WakeLaneSenders, StreamInv, ReceiverCounts
<1>. QED BY <1>2, <1>3, <1>4, <1>5 DEF StreamInv

LEMMA LaneCutStep ==
  ASSUME StreamInv, Next, TypeOK', NEW l \in Lanes,
         LaneCut(l) \/ \E e \in Ends : LaneReset(e, l)
  PROVE  StreamInv'
<1>. USE PeerType DEF stopVars, mainVars, readVars, laneVars, sendVars, appVars
<1>1. ASSUME NEW x \in Ends
      PROVE  /\ Aborted(x) => Aborted(x)'
             /\ QueueItems(x) \subseteq QueueItems(x)'
             /\ WireFrames(x) \subseteq WireFrames(x)'
             /\ \A f : IsChunk(x, f)' <=> IsChunk(x, f)
  BY HistoryUnchanged DEF LaneCut, LaneReset
<1>2. InOrder' /\ CleanEndIsComplete'
  BY <1>1 DEF LaneCut, LaneReset, StreamInv, InOrder, CleanEndIsComplete
<1>3. ASSUME NEW x \in Ends PROVE FramesGenuine(x)'
  <2>1. /\ lane_queues[x] \in [Lanes -> Seq(QueueItems(x)')]
        /\ \A m \in Lanes : lane_pc[x][m] = "send" => hand[x][m] \in QueueItems(x)'
        /\ wire[x] \in [Lanes -> Seq(WireFrames(x)')]
        /\ pending[Peer(x)] \subseteq WireFrames(x)'
    BY <1>1, GenuineUnchanged DEF StreamInv
  <2>2. wire'[x] = [wire[x] EXCEPT ![l] = <<>>]
    BY DEF LaneCut, LaneReset
  <2>. QED BY <2>1, <2>2 DEF LaneCut, LaneReset, FramesGenuine
<1>4. ASSUME NEW x \in Ends PROVE SenderCounts(x)'
  BY <1>1 DEF LaneCut, LaneReset, StreamInv, SenderCounts
<1>5. ASSUME NEW x \in Ends PROVE ReceiverCounts(x)'
  BY <1>1 DEF LaneCut, LaneReset, StreamInv, ReceiverCounts
<1>. QED BY <1>2, <1>3, <1>4, <1>5 DEF StreamInv

(* The remaining steps only end threads, or break a connection.            *)
LEMMA ThreadEndStep ==
  ASSUME StreamInv, Next, TypeOK', NEW e \in Ends,
         \/ AbandonPut(e) \/ ReadFails(e) \/ EndpointBreaks(e) \/ SessionCloses(e)
         \/ DeliverFails(e) \/ LeaveLoop(e) \/ SendThreadEnded(e) \/ JoinLaneSenders(e)
         \/ CloseSession(e)
         \/ \E l \in Lanes : SendFails(e, l) \/ LaneClosed(e, l) \/ ReadAfterClose(e, l)
  PROVE  StreamInv'
<1>. USE DEF stopVars, mainVars, readVars, laneVars, sendVars, appVars
<1>. DEFINE Control ==
       /\ UNCHANGED <<sent, fin, sequence, send_sequence, putting, lane_queues, hand,
                      wire, pending, delivered, expected, out, eof_sequence,
                      receive_complete>>
       /\ \A x \in Ends : send_pc'[x] \in {send_pc[x], "done"}
       /\ \A x \in Ends, l \in Lanes : lane_pc'[x][l] = "send" => lane_pc[x][l] = "send"
       /\ \A x \in Ends : phase'[x] = "run" => phase[x] = "run"
<1>0. /\ send_pc \in [Ends -> {"recv", "put", "eof", "done"}]
      /\ lane_pc \in [Ends -> [Lanes -> {"get", "send", "done"}]]
      /\ phase \in [Ends -> {"run", "wait", "join", "stopping", "closing", "closed"}]
  BY DEF StreamInv, TypeOK
<1>1. CASE AbandonPut(e)
  <2>1. Control BY <1>0, <1>1 DEF AbandonPut
  <2>. QED BY <2>1, ControlStep
<1>2. CASE ReadFails(e)
  <2>1. Control BY <1>0, <1>2 DEF ReadFails
  <2>. QED BY <2>1, ControlStep
<1>3. CASE EndpointBreaks(e) \/ SessionCloses(e)
  <2>1. Control BY <1>0, <1>3 DEF EndpointBreaks, SessionCloses
  <2>. QED BY <2>1, ControlStep
<1>4. CASE DeliverFails(e)
  <2>1. Control BY <1>0, <1>4 DEF DeliverFails
  <2>. QED BY <2>1, ControlStep
<1>5. CASE LeaveLoop(e)
  <2>1. Control BY <1>0, <1>5 DEF LeaveLoop
  <2>. QED BY <2>1, ControlStep
<1>6. CASE SendThreadEnded(e)
  <2>1. Control BY <1>0, <1>6 DEF SendThreadEnded
  <2>. QED BY <2>1, ControlStep
<1>7. CASE JoinLaneSenders(e)
  <2>1. Control BY <1>0, <1>7 DEF JoinLaneSenders
  <2>. QED BY <2>1, ControlStep
<1>8. ASSUME NEW l \in Lanes, SendFails(e, l) PROVE StreamInv'
  <2>1. Control BY <1>0, <1>8 DEF SendFails
  <2>. QED BY <2>1, ControlStep
<1>9. ASSUME NEW l \in Lanes, LaneClosed(e, l) PROVE StreamInv'
  <2>1. Control BY <1>0, <1>9 DEF LaneClosed
  <2>. QED BY <2>1, ControlStep
<1>10. ASSUME NEW l \in Lanes, ReadAfterClose(e, l) PROVE StreamInv'
  <2>1. Control BY <1>0, <1>10 DEF ReadAfterClose
  <2>. QED BY <2>1, ControlStep
<1>11. CASE CloseSession(e)
  <2>1. \A l \in Lanes : lane_pc'[e][l] = "send" => lane_pc[e][l] = "send"
    BY <1>0, <1>11 DEF CloseSession
  <2>2. Control BY <1>0, <1>11, <2>1 DEF CloseSession
  <2>. QED BY <2>2, ControlStep
<1>. QED BY <1>1, <1>2, <1>3, <1>4, <1>5, <1>6, <1>7, <1>8, <1>9, <1>10, <1>11

LEMMA StreamInductive == StreamInv /\ [Next]_vars => StreamInv'
<1> SUFFICES ASSUME StreamInv, [Next]_vars PROVE StreamInv'
  OBVIOUS
<1>1. CASE UNCHANGED vars
  <2>1. UNCHANGED <<sent, fin, broken, shut, cut, wire, pending, send_pc, sequence,
                    lane_cursor, send_sequence, putting, lane_queues, lane_pc, hand,
                    read_pc, eof_sequence, eof_lanes, phase, expected, out,
                    receive_complete, delivered, stop_event, error_box>>
    BY <1>1 DEF vars, stopVars, mainVars, readVars, laneVars, sendVars, appVars
  <2>2. TypeOK' /\ InOrder' /\ CleanEndIsComplete'
    BY <2>1 DEF StreamInv, TypeOK, InOrder, CleanEndIsComplete, Aborted
  <2>3. ASSUME NEW x \in Ends
        PROVE  FramesGenuine(x)' /\ SenderCounts(x)' /\ ReceiverCounts(x)'
    BY <2>1 DEF StreamInv, FramesGenuine, SenderCounts, ReceiverCounts, QueueItems,
                WireFrames, IsChunk, Aborted
  <2>. QED BY <2>2, <2>3 DEF StreamInv
<1>2. CASE Next
  <2>0. TypeOK'
    BY <1>2, SendDirectionType, LaneSenderType, ReadLaneType, MainType, EnvironmentType
       DEF Next, StreamInv
  <2>1. ASSUME NEW e \in Ends, SendDirection(e) PROVE StreamInv'
    BY <1>2, <2>0, <2>1, ReadChunkStep, PutChunkStep, ReadEofStep, PutEofStep, ThreadEndStep
       DEF SendDirection
  <2>2. ASSUME NEW e \in Ends, Main(e) PROVE StreamInv'
    BY <1>2, <2>0, <2>2, PopExpectedStep, DeliverStep, EndOfStreamStep,
       WakeLaneSendersStep, ThreadEndStep
       DEF Main
  <2>3. ASSUME NEW e \in Ends, EndpointBreaks(e) \/ SessionCloses(e) PROVE StreamInv'
    BY <1>2, <2>0, <2>3, ThreadEndStep
  <2>4. ASSUME NEW e \in Ends, NEW l \in Lanes, LaneSender(e, l) PROVE StreamInv'
    BY <1>2, <2>0, <2>4, TakeItemStep, TakeFailsStep, SendItemStep, ThreadEndStep
       DEF LaneSender
  <2>5. ASSUME NEW e \in Ends, NEW l \in Lanes, ReadLane(e, l) PROVE StreamInv'
    BY <1>2, <2>0, <2>5, ReadEofFrameStep, ReadFrameStep, ThreadEndStep DEF ReadLane
  <2>6. ASSUME NEW l \in Lanes, LaneCut(l) PROVE StreamInv'
    BY <1>2, <2>0, <2>6, LaneCutStep
  <2>7. ASSUME NEW e \in Ends, NEW l \in Lanes, LaneReset(e, l) PROVE StreamInv'
    BY <1>2, <2>0, <2>7, LaneCutStep
  <2>. QED BY <1>2, <2>1, <2>2, <2>3, <2>4, <2>5, <2>6, <2>7 DEF Next
<1>. QED BY <1>1, <1>2

(* The inductive invariant holds: every frame of a session, queued, in     *)
(* hand, in flight or pending, is a genuine chunk of its stream.           *)
THEOREM StreamInvariant == Spec => []StreamInv
BY InitStream, StreamInductive, PTL DEF Spec

(* What an application receives is what the application at the other end   *)
(* supplied, in order and without loss or repetition, whichever of the     *)
(* NLanes lanes carried each chunk (bonded_bridge).                        *)
THEOREM DeliveredInOrder == Spec => []InOrder
<1>1. StreamInv => InOrder
  BY DEF StreamInv
<1>. QED BY StreamInvariant, <1>1, PTL

(* A clean end of stream is shown only for a stream received whole, unless *)
(* the other end of the session took the abort branch.                     *)
THEOREM CleanEnd == Spec => []CleanEndIsComplete
<1>1. StreamInv => CleanEndIsComplete
  BY DEF StreamInv
<1>. QED BY StreamInvariant, <1>1, PTL

-----------------------------------------------------------------------------
(* BondedBridge implements TunnelStream. *)

LEMMA SameEnds == Stream!Ends = Ends /\ \A e : Stream!Peer(e) = Peer(e)
BY DEF Stream!Ends, Ends, Stream!Peer, Peer

LEMMA InitImplements == Init => Stream!Init
BY SameEnds DEF Init, Stream!Init, Aborted

(* A step that moves neither stream changes at most one end's Aborted.     *)
LEMMA AbortOrStutter ==
  ASSUME StreamInv, Next, NEW e \in Ends,
         UNCHANGED <<sent, fin, delivered, receive_complete>>,
         \A x \in Ends : x # e => phase'[x] = phase[x] /\ error_box'[x] = error_box[x]
  PROVE  [Stream!Next]_Stream!vars
<1>1. \A x \in Ends : x # e => (Aborted(x)' <=> Aborted(x))
  BY DEF Aborted
<1>2. Aborted(e) => Aborted(e)'
  BY AbortedStays DEF StreamInv
<1>3. CASE Aborted(e)' /\ ~Aborted(e)
  <2>1. [x \in Ends |-> Aborted(x)]' = [[x \in Ends |-> Aborted(x)] EXCEPT ![e] = TRUE]
    BY <1>1, <1>3 DEF Aborted
  <2>2. Stream!Abort(e)
    BY <1>3, <2>1 DEF Stream!Abort
  <2>. QED BY <2>2, SameEnds DEF Stream!Next
<1>4. CASE ~(Aborted(e)' /\ ~Aborted(e))
  <2>1. [x \in Ends |-> Aborted(x)]' = [x \in Ends |-> Aborted(x)]
    BY <1>1, <1>2, <1>4 DEF Aborted
  <2>. QED BY <2>1 DEF Stream!vars
<1>. QED BY <1>3, <1>4

LEMMA StepImplements ==
  ASSUME StreamInv, StreamInv', [Next]_vars
  PROVE  [Stream!Next]_Stream!vars
<1>. USE PeerType, SameEnds DEF stopVars, mainVars, readVars, laneVars, sendVars, appVars
<1>. DEFINE AbortedFn == [x \in Ends |-> Aborted(x)]
<1>0. TypeOK
  BY DEF StreamInv
<1>1. ASSUME NEW e \in Ends, ReadChunk(e) PROVE [Stream!Next]_Stream!vars
  <2>1. ~fin[e]
    BY <1>1 DEF ReadChunk, StreamInv, SenderCounts
  <2>2. AbortedFn' = AbortedFn
    BY <1>1 DEF ReadChunk, Aborted
  <2>3. Stream!Supply(e)
    BY <1>1, <2>1, <2>2 DEF ReadChunk, Stream!Supply
  <2>. QED BY <2>3 DEF Stream!Next
<1>2. ASSUME NEW e \in Ends, ReadEof(e) PROVE [Stream!Next]_Stream!vars
  <2>1. ~fin[e]
    BY <1>2 DEF ReadEof, StreamInv, SenderCounts
  <2>2. AbortedFn' = AbortedFn
    BY <1>2 DEF ReadEof, Aborted
  <2>3. Stream!Finish(e)
    BY <1>2, <2>1, <2>2 DEF ReadEof, Stream!Finish
  <2>. QED BY <2>3 DEF Stream!Next
<1>3. ASSUME NEW e \in Ends, Deliver(e) PROVE [Stream!Next]_Stream!vars
  <2>1. ReceiverCounts(e)
    BY DEF StreamInv
  <2>2. /\ ~receive_complete[e] /\ expected[e] < Len(sent[Peer(e)])
        /\ out[e] = sent[Peer(e)][Len(delivered[e]) + 1] /\ Len(delivered[e]) = expected[e]
    BY <1>3, <2>1 DEF Deliver, ReceiverCounts, IsChunk
  <2>3. delivered' = [delivered EXCEPT ![e] = Append(@, sent[Peer(e)][Len(@) + 1])]
    BY <1>0, <1>3, <2>2 DEF Deliver, TypeOK
  <2>4. AbortedFn' = AbortedFn
    BY <1>3 DEF Deliver, Aborted
  <2>5. Stream!Arrive(e)
    BY <1>3, <2>2, <2>3, <2>4 DEF Deliver, Stream!Arrive
  <2>. QED BY <2>5 DEF Stream!Next
<1>4. ASSUME NEW e \in Ends, EndOfStream(e) PROVE [Stream!Next]_Stream!vars
  <2>1. ~receive_complete[e]
    BY <1>4 DEF EndOfStream, StreamInv, ReceiverCounts
  <2>2. AbortedFn' = AbortedFn
    BY <1>0, <1>4 DEF EndOfStream, Aborted, TypeOK
  <2>3. receive_complete'[e]
    BY <1>0, <1>4 DEF EndOfStream, TypeOK
  <2>4. \/ AbortedFn[Peer(e)]
        \/ fin[Peer(e)] /\ Len(delivered[e]) = Len(sent[Peer(e)])
    <3>1. \/ Aborted(Peer(e))'
          \/ fin'[Peer(e)] /\ Len(delivered'[e]) = Len(sent'[Peer(e)])
      BY <2>3 DEF StreamInv, CleanEndIsComplete
    <3>2. Aborted(Peer(e))' <=> AbortedFn[Peer(e)]
      BY <1>0, <1>4 DEF EndOfStream, Aborted, TypeOK
    <3>. QED BY <1>4, <3>1, <3>2 DEF EndOfStream
  <2>5. Stream!End(e)
    BY <1>4, <2>1, <2>2, <2>4 DEF EndOfStream, Stream!End
  <2>. QED BY <2>5 DEF Stream!Next
<1>. DEFINE Still(e) ==
       /\ UNCHANGED <<sent, fin, delivered, receive_complete>>
       /\ \A x \in Ends : x # e => phase'[x] = phase[x] /\ error_box'[x] = error_box[x]
<1>a. /\ phase \in [Ends -> {"run", "wait", "join", "stopping", "closing", "closed"}]
      /\ error_box \in [Ends -> BOOLEAN]
  BY <1>0 DEF TypeOK
<1>5. ASSUME NEW e \in Ends, SendDirection(e) PROVE Still(e) \/ ReadChunk(e) \/ ReadEof(e)
  <2>1. CASE PutChunk(e) BY <1>a, <2>1 DEF PutChunk
  <2>2. CASE AbandonPut(e) BY <1>a, <2>2 DEF AbandonPut
  <2>3. CASE PutEof(e) BY <1>a, <2>3 DEF PutEof
  <2>4. CASE ReadFails(e) BY <1>a, <2>4 DEF ReadFails, Fail
  <2>. QED BY <1>5, <2>1, <2>2, <2>3, <2>4 DEF SendDirection
<1>6. ASSUME NEW e \in Ends, Main(e) PROVE Still(e) \/ Deliver(e) \/ EndOfStream(e)
  <2>1. CASE PopExpected(e) BY <1>a, <2>1 DEF PopExpected
  <2>2. CASE DeliverFails(e) BY <1>a, <2>2 DEF DeliverFails
  <2>3. CASE LeaveLoop(e) BY <1>a, <2>3 DEF LeaveLoop
  <2>4. CASE SendThreadEnded(e) BY <1>a, <2>4 DEF SendThreadEnded
  <2>5. CASE JoinLaneSenders(e) BY <1>a, <2>5 DEF JoinLaneSenders
  <2>6. CASE WakeLaneSenders(e) BY <1>a, <2>6 DEF WakeLaneSenders
  <2>7. CASE CloseSession(e) BY <1>a, <2>7 DEF CloseSession
  <2>. QED BY <1>6, <2>1, <2>2, <2>3, <2>4, <2>5, <2>6, <2>7 DEF Main
<1>7. ASSUME NEW e \in Ends, NEW l \in Lanes, LaneSender(e, l) PROVE Still(e)
  <2>1. CASE TakeItem(e, l) BY <1>a, <2>1 DEF TakeItem
  <2>2. CASE SendItem(e, l) BY <1>a, <2>2 DEF SendItem
  <2>3. CASE SendFails(e, l) BY <1>a, <2>3 DEF SendFails, Fail
  <2>4. CASE TakeFails(e, l) BY <1>a, <2>4 DEF TakeFails, Fail
  <2>. QED BY <1>7, <2>1, <2>2, <2>3, <2>4 DEF LaneSender
<1>8. ASSUME NEW e \in Ends, NEW l \in Lanes, ReadLane(e, l) PROVE Still(e)
  <2>1. CASE ReadEofFrame(e, l) BY <1>a, <2>1 DEF ReadEofFrame
  <2>2. CASE ReadFrame(e, l) BY <1>a, <2>2 DEF ReadFrame
  <2>3. CASE LaneClosed(e, l) BY <1>a, <2>3 DEF LaneClosed, Fail
  <2>4. CASE ReadAfterClose(e, l) BY <1>a, <2>4 DEF ReadAfterClose
  <2>. QED BY <1>8, <2>1, <2>2, <2>3, <2>4 DEF ReadLane
<1>9. ASSUME NEW e \in Ends, EndpointBreaks(e) \/ SessionCloses(e) PROVE Still(e)
  BY <1>9 DEF EndpointBreaks, SessionCloses
<1>10. ASSUME NEW l \in Lanes, LaneCut(l) PROVE \E e \in Ends : Still(e)
  <2>1. "internal" \in Ends
    BY DEF Ends
  <2>. QED BY <1>10, <2>1 DEF LaneCut
<1>14. ASSUME NEW e \in Ends, NEW l \in Lanes, LaneReset(e, l) PROVE Still(e)
  BY <1>14 DEF LaneReset
<1>11. ASSUME Next, NEW e \in Ends, Still(e) PROVE [Stream!Next]_Stream!vars
  BY <1>11, AbortOrStutter
<1>12. CASE UNCHANGED vars
  <2>1. /\ UNCHANGED <<sent, fin, delivered, receive_complete>>
        /\ UNCHANGED <<phase, error_box>>
    BY <1>12 DEF vars
  <2>. QED BY <2>1 DEF Stream!vars, Aborted
<1>13. CASE Next
  BY <1>1, <1>2, <1>3, <1>4, <1>5, <1>6, <1>7, <1>8, <1>9, <1>10, <1>11, <1>13,
     <1>14 DEF Next
<1>. QED BY <1>12, <1>13

(* A bonded session, whatever its threads, its lanes and its timeouts do,  *)
(* is a pair of streams as TunnelStream describes them.                    *)
THEOREM BondedImplementsStream == Spec => ImplementsStream
<1>1. StreamInv /\ StreamInv' /\ [Next]_vars => [Stream!Next]_Stream!vars
  BY StepImplements
<1>. QED BY InitImplements, StreamInvariant, <1>1, PTL DEF Spec, ImplementsStream, Stream!Spec
=============================================================================
