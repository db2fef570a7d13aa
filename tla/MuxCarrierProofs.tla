------------------------- MODULE MuxCarrierProofs -------------------------
(***************************************************************************)
(* Proofs about MuxCarrier, for any streams, queue sizes, wires and any of *)
(* the events that Settings allows: a stream is closed by one thread or by *)
(* another, and each stream is one of TunnelStream's pairs of streams.     *)
(*                                                                         *)
(* The chunks that e supplied and its peer p has not yet delivered are in  *)
(* order in p's writer, in its queue and on the wire, and none is missing  *)
(* between them, as long as p can still receive the stream (Intact): what  *)
(* p drops makes it reset the stream before it reads on.                   *)
(***************************************************************************)
EXTENDS MuxCarrier, TLAPS

Frames == {f \in Frame : f.type \notin {"PING", "PONG"} => f.stream \in Streams}

TypeOK ==
  /\ setting \in Settings
  /\ sent \in [Ends -> [Streams -> Nat]] /\ fin \in [Ends -> [Streams -> BOOLEAN]]
  /\ delivered \in [Ends -> [Streams -> Seq(Nat)]]
  /\ ended \in [Ends -> [Streams -> BOOLEAN]] /\ broken \in [Ends -> [Streams -> BOOLEAN]]
  /\ sess \in [Ends -> [Streams -> {"none", "open", "closed"}]]
  /\ listed \in [Ends -> [Streams -> BOOLEAN]]
  /\ remote_queue \in [Ends -> [Streams -> Seq(Nat)]]
  /\ local_eof \in [Ends -> [Streams -> BOOLEAN]]
  /\ remote_drained \in [Ends -> [Streams -> BOOLEAN]]
  /\ writer \in [Ends -> [Streams -> {"none", "get", "write", "close", "rst", "done"}]]
  /\ hand \in [Ends -> [Streams -> Nat]]
  /\ pump \in [Ends -> [Streams -> {"none", "chosen", "open", "failed", "recv", "data", "fin",
                                    "mark", "rst", "done"}]]
  /\ reader \in [Ends -> {"recv", "dial", "reply", "done"}]
  /\ handling \in [Ends -> Frames]
  /\ \A e \in Ends : /\ reader[e] = "dial" => handling[e].type = "OPEN"
                     /\ reader[e] = "reply" => handling[e].type \in {"PONG", "RST"}
  /\ running \in [Ends -> BOOLEAN] /\ cleared \in [Ends -> BOOLEAN]
  /\ pings \in [Ends -> Nat]
  /\ wire \in [Ends -> Seq(Frames)] /\ cut \in BOOLEAN

-----------------------------------------------------------------------------
(* The frames of stream s on a wire w.                                     *)
Holds(w, s, t)   == \E i \in 1 .. Len(w) : w[i].type = t /\ w[i].stream = s
HoldsChunk(w, s, n) == \E i \in 1 .. Len(w) : w[i].type = "DATA" /\ w[i].stream = s /\ w[i].chunk = n
Content(f, s)    == f.type \in {"DATA", "FIN"} /\ f.stream = s

(* OPEN comes first and FIN last, and the chunks are in order.             *)
Ordered(w, s) ==
  \A i, j \in 1 .. Len(w) : i < j =>
    /\ w[i].type = "FIN" /\ w[i].stream = s => ~Content(w[j], s)
    /\ w[i].type = "DATA" /\ w[i].stream = s /\ w[j].type = "DATA" /\ w[j].stream = s =>
         w[i].chunk < w[j].chunk
    /\ w[i].stream = s /\ w[i].type \in {"OPEN", "DATA", "FIN"} =>
         ~(w[j].type = "OPEN" /\ w[j].stream = s)

-----------------------------------------------------------------------------
(* A session, its writer and its pump.                                     *)
SessionOf(e, s) ==
  /\ sess[e][s] = "none" => /\ writer[e][s] = "none" /\ remote_queue[e][s] = <<>>
                            /\ delivered[e][s] = <<>> /\ pump[e][s] \in {"none", "chosen"}
  /\ pump[e][s] \in {"none", "chosen"} => sess[e][s] = "none"
  /\ sess[e][s] = "open" => listed[e][s]
  /\ listed[e][s] => sess[e][s] = "open" \/ writer[e][s] = "rst"
  /\ writer[e][s] = "rst" => sess[e][s] = "closed"
  /\ ended[e][s] => writer[e][s] \in {"close", "done"}
  /\ pump[e][s] \in {"none", "chosen", "open", "failed", "recv", "data"} => ~fin[e][s]
  /\ pump[e][s] \in {"none", "chosen", "open", "failed"} => sent[e][s] = 0
  /\ pump[e][s] = "data" => sent[e][s] > 0
  /\ pump[e][s] \in {"chosen", "open", "failed"} => e = "internal"

(* The OPEN frame of s: not sent yet, under way, or being answered.        *)
Before(s)   == pump["internal"][s] \in {"none", "chosen", "open"}
Dialling(s) == reader["external"] = "dial" /\ handling["external"].stream = s
Opening(s)  == Before(s) \/ Holds(wire["internal"], s, "OPEN") \/ Dialling(s)

(* The reader of p refuses s, or resets it.                                *)
Refusing(p, s) == reader[p] = "reply" /\ handling[p].type = "RST" /\ handling[p].stream = s

OpenOf(s) ==
  /\ \A p \in Ends : Refusing(p, s) => ~Opening(s)
  /\ ~Holds(wire["external"], s, "OPEN")
  /\ Opening(s) => sess["external"][s] = "none"
  /\ Before(s) => ~Holds(wire["internal"], s, "OPEN") /\ ~Dialling(s)
  /\ Holds(wire["internal"], s, "OPEN") => ~Dialling(s)
  /\ pump["internal"][s] = "failed" => ~Holds(wire["internal"], s, "OPEN") /\ ~Dialling(s)

(* The chunks of s that e has supplied, but for the one its pump holds.    *)
Passed(e, s) == IF pump[e][s] = "data" THEN sent[e][s] - 1 ELSE sent[e][s]

(* The frames of s that e has on the wire.                                 *)
SenderOf(e, s) ==
  /\ Ordered(wire[e], s)
  /\ pump[e][s] \in {"none", "chosen", "open", "failed"} =>
       ~Holds(wire[e], s, "DATA") /\ ~Holds(wire[e], s, "FIN")
  /\ Holds(wire[e], s, "FIN") => pump[e][s] \in {"mark", "done"}
                              /\ (sess[e][s] = "closed" \/ fin[e][s])
  /\ pump[e][s] \in {"fin", "mark"} => sess[e][s] = "closed" \/ fin[e][s]
  /\ \A n \in Nat : HoldsChunk(wire[e], s, n) => n <= Passed(e, s)
  /\ cut => wire[e] = <<>>

(* What p's writer has and has had of stream s, and what its queue holds.  *)
Taken(p, s) == Len(delivered[p][s]) + (IF writer[p][s] = "write" THEN 1 ELSE 0)
Queued(p, s) == Taken(p, s) + Len(remote_queue[p][s])

(* The mark of e's end, in the queue of a session that is open.            *)
EndMark(p, s) == LET e == Peer(p) IN
  /\ ~Holds(wire[e], s, "DATA") /\ ~Holds(wire[e], s, "FIN") /\ pump[e][s] \in {"mark", "done"}
  /\ sess[e][s] = "closed" \/ (fin[e][s] /\ Queued(p, s) - 1 = sent[e][s])

QueueOf(p, s) == LET q == remote_queue[p][s] IN
  sess[p][s] # "closed" =>
    /\ writer[p][s] = "write" => hand[p][s] = Len(delivered[p][s]) + 1
    /\ Taken(p, s) <= Passed(Peer(p), s)
    /\ \A k \in 1 .. Len(q) :
         \/ (q[k] = Taken(p, s) + k /\ q[k] <= Passed(Peer(p), s))
         \/ (q[k] = EofItem /\ k = Len(q) /\ EndMark(p, s))

(* p can still receive all that is left of stream s.                       *)
Intact(p, s) ==
  /\ ~cut /\ reader[p] # "done" /\ ~Refusing(p, s)
  /\ \/ /\ sess[p][s] = "open"
        /\ \A k \in 1 .. Len(remote_queue[p][s]) : remote_queue[p][s][k] # EofItem
     \/ sess[p][s] = "none" /\ (p = "external" => Opening(s))

(* Chunks a + 1 .. b of s are all on a wire w.                             *)
OnWire(w, s, a, b) == \A n \in Nat : a < n /\ n <= b => HoldsChunk(w, s, n)

ReceiverOf(p, s) == LET e == Peer(p) IN
  Intact(p, s) =>
    /\ \A n \in Nat : HoldsChunk(wire[e], s, n) => Queued(p, s) < n /\ OnWire(wire[e], s, Queued(p, s), n)
    /\ pump[e][s] \in {"recv", "data", "fin"} => OnWire(wire[e], s, Queued(p, s), Passed(e, s))
    /\ Holds(wire[e], s, "FIN") /\ sess[e][s] # "closed" => OnWire(wire[e], s, Queued(p, s), sent[e][s])
-----------------------------------------------------------------------------
LEMMA PeerEnd == \A e \in Ends : Peer(e) \in Ends /\ Peer(e) # e /\ Peer(Peer(e)) = e
BY DEF Ends, Peer

LEMMA StreamsArePositive == TypeOK => Streams \subseteq Nat \ {0} /\ 1 \in Streams
BY StreamsAssumption DEF TypeOK, Streams

(* What a wire holds after a frame is appended, and after one is read.     *)
LEMMA WireAppend ==
  ASSUME NEW S, NEW w \in Seq(S), NEW f \in S, NEW s
  PROVE  /\ Append(w, f) \in Seq(S)
         /\ \A t : Holds(Append(w, f), s, t) <=> Holds(w, s, t) \/ (f.type = t /\ f.stream = s)
         /\ \A n : HoldsChunk(Append(w, f), s, n) <=>
                     HoldsChunk(w, s, n) \/ (f.type = "DATA" /\ f.stream = s /\ f.chunk = n)
<1>1. /\ Append(w, f) \in Seq(S) /\ Len(Append(w, f)) = Len(w) + 1 /\ Len(w) \in Nat
      /\ \A i \in 1 .. Len(w) : Append(w, f)[i] = w[i]
      /\ Append(w, f)[Len(w) + 1] = f
  OBVIOUS
<1>2. \A i : i \in 1 .. Len(Append(w, f)) <=> i \in 1 .. Len(w) \/ i = Len(w) + 1
  BY <1>1
<1> QED BY <1>1, <1>2 DEF Holds, HoldsChunk

LEMMA WireTail ==
  ASSUME NEW S, NEW w \in Seq(S), w # <<>>, NEW s
  PROVE  /\ Head(w) \in S /\ Tail(w) \in Seq(S)
         /\ \A t : Holds(w, s, t) <=> Holds(Tail(w), s, t) \/ (Head(w).type = t /\ Head(w).stream = s)
         /\ \A n : HoldsChunk(w, s, n) <=>
              HoldsChunk(Tail(w), s, n) \/ (Head(w).type = "DATA" /\ Head(w).stream = s /\ Head(w).chunk = n)
<1>1. /\ Head(w) \in S /\ Tail(w) \in Seq(S) /\ Len(w) \in Nat \ {0} /\ Len(Tail(w)) = Len(w) - 1
      /\ \A i \in 1 .. Len(Tail(w)) : Tail(w)[i] = w[i + 1]
      /\ Head(w) = w[1]
  OBVIOUS
<1>2. \A i \in 1 .. Len(w) : i = 1 \/ (i - 1 \in 1 .. Len(Tail(w)) /\ w[i] = Tail(w)[i - 1])
  BY <1>1
<1>3. 1 \in 1 .. Len(w) /\ \A i \in 1 .. Len(Tail(w)) : i + 1 \in 1 .. Len(w)
  BY <1>1
<1>4. ASSUME NEW t PROVE Holds(w, s, t) <=> Holds(Tail(w), s, t) \/ (Head(w).type = t /\ Head(w).stream = s)
  BY <1>1, <1>2, <1>3 DEF Holds
<1>5. ASSUME NEW n PROVE HoldsChunk(w, s, n) <=>
              HoldsChunk(Tail(w), s, n) \/ (Head(w).type = "DATA" /\ Head(w).stream = s /\ Head(w).chunk = n)
  BY <1>1, <1>2, <1>3 DEF HoldsChunk
<1> QED BY <1>1, <1>4, <1>5

(* The order of a wire is kept by what may be appended, and shows in what  *)
(* is left when its first frame is read.                                   *)
LEMMA OrderedAppend ==
  ASSUME NEW S, NEW w \in Seq(S), NEW f \in S, NEW s, Ordered(w, s),
         f.stream = s => /\ f.type = "OPEN" => /\ ~Holds(w, s, "OPEN") /\ ~Holds(w, s, "DATA")
                                               /\ ~Holds(w, s, "FIN")
                         /\ f.type \in {"DATA", "FIN"} => ~Holds(w, s, "FIN")
                         /\ f.type = "DATA" => f.chunk \in Nat /\ \A i \in 1 .. Len(w) :
                              w[i].type = "DATA" /\ w[i].stream = s => w[i].chunk < f.chunk
  PROVE  Ordered(Append(w, f), s)
<1>1. /\ Append(w, f) \in Seq(S) /\ Len(Append(w, f)) = Len(w) + 1 /\ Len(w) \in Nat
      /\ \A i \in 1 .. Len(w) : Append(w, f)[i] = w[i]
      /\ Append(w, f)[Len(w) + 1] = f
  OBVIOUS
<1>2. ASSUME NEW i \in 1 .. Len(Append(w, f)), NEW j \in 1 .. Len(Append(w, f)), i < j
      PROVE  i \in 1 .. Len(w) /\ (j \in 1 .. Len(w) \/ j = Len(w) + 1)
  BY <1>1, <1>2
<1>3. \A i \in 1 .. Len(w) :
         /\ ~(w[i].type = "FIN" /\ w[i].stream = s /\ Content(f, s))
         /\ w[i].type = "DATA" /\ w[i].stream = s /\ f.type = "DATA" /\ f.stream = s => w[i].chunk < f.chunk
         /\ w[i].stream = s /\ w[i].type \in {"OPEN", "DATA", "FIN"} => ~(f.type = "OPEN" /\ f.stream = s)
  BY DEF Holds, Content
<1> QED BY <1>1, <1>2, <1>3 DEF Ordered

LEMMA OrderedTail ==
  ASSUME NEW S, NEW w \in Seq(S), w # <<>>, NEW s, Ordered(w, s)
  PROVE  /\ Ordered(Tail(w), s)
         /\ Head(w).stream = s => LET t == Head(w).type IN
              /\ t = "FIN" => ~Holds(Tail(w), s, "DATA") /\ ~Holds(Tail(w), s, "FIN")
              /\ t = "DATA" => \A n : HoldsChunk(Tail(w), s, n) => Head(w).chunk < n
              /\ t \in {"OPEN", "DATA", "FIN"} => ~Holds(Tail(w), s, "OPEN")
<1>1. /\ Head(w) \in S /\ Tail(w) \in Seq(S) /\ Len(w) \in Nat \ {0} /\ Len(Tail(w)) = Len(w) - 1
      /\ \A i \in 1 .. Len(Tail(w)) : Tail(w)[i] = w[i + 1]
      /\ Head(w) = w[1]
  OBVIOUS
<1>2. \A i \in 1 .. Len(Tail(w)) : i + 1 \in 1 .. Len(w) /\ 1 < i + 1
  BY <1>1
<1>3. 1 \in 1 .. Len(w) /\ \A i, j \in 1 .. Len(Tail(w)) : i < j => i + 1 < j + 1
  BY <1>1
<1>4. Ordered(Tail(w), s)
  BY <1>1, <1>2, <1>3 DEF Ordered
<1>5. \A i \in 1 .. Len(Tail(w)) : LET f == Tail(w)[i] IN
         /\ Head(w).type = "FIN" /\ Head(w).stream = s => ~Content(f, s)
         /\ Head(w).type = "DATA" /\ Head(w).stream = s /\ f.type = "DATA" /\ f.stream = s => Head(w).chunk < f.chunk
         /\ Head(w).stream = s /\ Head(w).type \in {"OPEN", "DATA", "FIN"} => ~(f.type = "OPEN" /\ f.stream = s)
  BY <1>1, <1>2, <1>3 DEF Ordered
<1>6. Head(w).type = "FIN" /\ Head(w).stream = s => ~Holds(Tail(w), s, "DATA") /\ ~Holds(Tail(w), s, "FIN")
  BY <1>5 DEF Holds, Content
<1>7. Head(w).type = "DATA" /\ Head(w).stream = s => \A n : HoldsChunk(Tail(w), s, n) => Head(w).chunk < n
  BY <1>5 DEF HoldsChunk
<1>8. Head(w).stream = s /\ Head(w).type \in {"OPEN", "DATA", "FIN"} => ~Holds(Tail(w), s, "OPEN")
  BY <1>5 DEF Holds
<1> QED BY <1>4, <1>6, <1>7, <1>8
-----------------------------------------------------------------------------
(* The types.                                                              *)
LEMMA FrameTypes ==
  ASSUME TypeOK
  PROVE  /\ NoFrame \in Frames /\ F("PING", 0) \in Frames /\ F("PONG", 0) \in Frames
         /\ \A s \in Streams : /\ F("OPEN", s) \in Frames /\ F("FIN", s) \in Frames
                               /\ F("RST", s) \in Frames
                               /\ \A n \in Nat : Data(s, n) \in Frames
BY DEF Frames, Frame, F, Data, NoFrame

LEMMA SettingKept == setting' = setting => Streams' = Streams /\ Frames' = Frames
BY DEF Streams, Frames, Frame

LEMMA UpdateType ==
  ASSUME NEW S, NEW f \in [Ends -> [Streams -> S]], NEW e \in Ends, NEW s \in Streams, NEW v \in S
  PROVE  [f EXCEPT ![e][s] = v] \in [Ends -> [Streams -> S]]
OBVIOUS

LEMMA PutType ==
  ASSUME TypeOK, NEW e \in Ends, NEW f \in Frames, Put(e, f)
  PROVE  wire' \in [Ends -> Seq(Frames)]
BY DEF TypeOK, Put

(* What Close does to the sessions of the streams in S.                    *)
LEMMA CloseEffect ==
  ASSUME TypeOK, NEW e \in Ends, NEW S, Close(e, S)
  PROVE  /\ sess' \in [Ends -> [Streams -> {"none", "open", "closed"}]]
         /\ listed' \in [Ends -> [Streams -> BOOLEAN]]
         /\ remote_queue' \in [Ends -> [Streams -> Seq(Nat)]]
         /\ \A x \in Ends, s \in Streams :
              IF x = e /\ s \in S /\ sess[x][s] = "open"
              THEN sess'[x][s] = "closed" /\ ~listed'[x][s]
              ELSE /\ sess'[x][s] = sess[x][s] /\ listed'[x][s] = listed[x][s]
                   /\ remote_queue'[x][s] = remote_queue[x][s]
<1>1. sess' = [sess EXCEPT ![e] =
        [s \in Streams |-> IF s \in S /\ sess[e][s] = "open" THEN "closed" ELSE sess[e][s]]]
  BY DEF Close
<1>2. listed' = [listed EXCEPT ![e] =
        [s \in Streams |-> listed[e][s] /\ ~(s \in S /\ sess[e][s] = "open")]]
  BY DEF Close
<1>3. remote_queue' = [remote_queue EXCEPT ![e] =
        [s \in Streams |-> IF s \in S /\ sess[e][s] = "open" /\ Len(remote_queue[e][s]) < QueueSize
                           THEN Append(remote_queue[e][s], EofItem) ELSE remote_queue[e][s]]]
  BY DEF Close
<1>4. /\ sess'[e] = [s \in Streams |-> IF s \in S /\ sess[e][s] = "open" THEN "closed" ELSE sess[e][s]]
      /\ \A x \in Ends \ {e} : sess'[x] = sess[x]
      /\ sess' \in [Ends -> [Streams -> {"none", "open", "closed"}]]
  BY <1>1 DEF TypeOK
<1>5. /\ listed'[e] = [s \in Streams |-> listed[e][s] /\ ~(s \in S /\ sess[e][s] = "open")]
      /\ \A x \in Ends \ {e} : listed'[x] = listed[x]
      /\ listed' \in [Ends -> [Streams -> BOOLEAN]]
  BY <1>2 DEF TypeOK
<1>6. \A s \in Streams : Append(remote_queue[e][s], EofItem) \in Seq(Nat) /\ remote_queue[e][s] \in Seq(Nat)
  BY DEF TypeOK, EofItem
<1>7. /\ remote_queue'[e] = [s \in Streams |->
           IF s \in S /\ sess[e][s] = "open" /\ Len(remote_queue[e][s]) < QueueSize
           THEN Append(remote_queue[e][s], EofItem) ELSE remote_queue[e][s]]
      /\ \A x \in Ends \ {e} : remote_queue'[x] = remote_queue[x]
  BY <1>3 DEF TypeOK
<1>8. remote_queue'[e] \in [Streams -> Seq(Nat)]
  BY <1>6, <1>7
<1>9. remote_queue' \in [Ends -> [Streams -> Seq(Nat)]]
  BY <1>3, <1>7, <1>8 DEF TypeOK
<1>10. ASSUME NEW x \in Ends, NEW s \in Streams
       PROVE  IF x = e /\ s \in S /\ sess[x][s] = "open"
              THEN sess'[x][s] = "closed" /\ ~listed'[x][s]
              ELSE /\ sess'[x][s] = sess[x][s] /\ listed'[x][s] = listed[x][s]
                   /\ remote_queue'[x][s] = remote_queue[x][s]
  <2>1. CASE x # e
    BY <1>4, <1>5, <1>7, <2>1
  <2>2. CASE x = e
    <3>1. listed[e][s] \in BOOLEAN
      BY DEF TypeOK
    <3>2. sess'[e][s] = IF s \in S /\ sess[e][s] = "open" THEN "closed" ELSE sess[e][s]
      BY <1>4
    <3>3. listed'[e][s] = (listed[e][s] /\ ~(s \in S /\ sess[e][s] = "open"))
      BY <1>5
    <3>4. ~(s \in S /\ sess[e][s] = "open") => remote_queue'[e][s] = remote_queue[e][s]
      BY <1>7
    <3> QED BY <2>2, <3>1, <3>2, <3>3, <3>4
  <2> QED BY <2>1, <2>2
<1> QED BY <1>4, <1>5, <1>9, <1>10
-----------------------------------------------------------------------------
(* What most steps leave of a stream t at x.                               *)

(* As a sender: what it has supplied goes on from its pump, in order.      *)
SenderGoesOn(x, t) ==
  /\ sess'[x][t] = sess[x][t] \/ (sess[x][t] # "none" /\ sess'[x][t] = "closed")
  /\ \/ sent'[x][t] = sent[x][t] /\ fin'[x][t] = fin[x][t]
        /\ \/ pump'[x][t] = pump[x][t]
           \/ pump[x][t] \in {"recv", "data", "fin", "mark", "rst"} /\ pump'[x][t] = "done"
           \/ pump[x][t] = "recv" /\ pump'[x][t] = "rst"
           \/ pump[x][t] = "recv" /\ pump'[x][t] = "fin" /\ sess'[x][t] = "closed"
           \/ pump[x][t] = "none" /\ pump'[x][t] = "chosen"
           \/ pump[x][t] = "open" /\ pump'[x][t] = "failed"
     \/ /\ pump[x][t] = "recv" /\ pump'[x][t] = "data"
        /\ sent'[x][t] = sent[x][t] + 1 /\ fin'[x][t] = fin[x][t]
     \/ /\ pump[x][t] = "recv" /\ pump'[x][t] = "fin"
        /\ sent'[x][t] = sent[x][t] /\ fin'[x][t]

(* As a receiver: nothing is taken or delivered, or the session is closed. *)
ReceiverRests(x, t) ==
  \/ /\ sess'[x][t] = sess[x][t] /\ remote_queue'[x][t] = remote_queue[x][t]
     /\ delivered'[x][t] = delivered[x][t] /\ hand'[x][t] = hand[x][t]
     /\ writer'[x][t] = "write" <=> writer[x][t] = "write"
  \/ sess[x][t] # "none" /\ sess'[x][t] = "closed"

(* The frames that x has on the wire stay in order, and none is new.       *)
WireGoesOn(x, t) ==
  /\ Ordered(wire'[x], t)
  /\ \A k \in {"OPEN", "DATA", "FIN"} : Holds(wire'[x], t, k) => Holds(wire[x], t, k)
  /\ \A n \in Nat : HoldsChunk(wire'[x], t, n) => HoldsChunk(wire[x], t, n)
  /\ cut' => wire'[x] = <<>>
ChunksStay(x, t) == \A n \in Nat : HoldsChunk(wire[x], t, n) => HoldsChunk(wire'[x], t, n)

ReaderGoesOn(x, t) ==
  /\ cut => cut'
  /\ reader[x] = "done" => reader'[x] = "done"
  /\ Refusing(x, t) => Refusing(x, t)' \/ sess'[x][t] # "open" \/ reader'[x] = "done"

StreamInv(t) ==
  /\ \A e \in Ends : SessionOf(e, t) /\ SenderOf(e, t) /\ QueueOf(e, t) /\ ReceiverOf(e, t)
  /\ OpenOf(t)

-----------------------------------------------------------------------------
LEMMA TypesAt ==
  ASSUME TypeOK, NEW e \in Ends, NEW t \in Streams
  PROVE  /\ sent[e][t] \in Nat /\ fin[e][t] \in BOOLEAN /\ delivered[e][t] \in Seq(Nat)
         /\ ended[e][t] \in BOOLEAN /\ broken[e][t] \in BOOLEAN
         /\ sess[e][t] \in {"none", "open", "closed"} /\ listed[e][t] \in BOOLEAN
         /\ remote_queue[e][t] \in Seq(Nat) /\ hand[e][t] \in Nat
         /\ local_eof[e][t] \in BOOLEAN /\ remote_drained[e][t] \in BOOLEAN
         /\ wire[e] \in Seq(Frames)
BY DEF TypeOK

LEMMA PassedGrows ==
  ASSUME TypeOK, NEW e \in Ends, NEW t \in Streams, SenderGoesOn(e, t), SessionOf(e, t)
  PROVE  /\ Passed(e, t) \in Nat /\ Passed(e, t)' \in Nat
         /\ \A n \in Nat : n <= Passed(e, t) => n <= Passed(e, t)'
         /\ pump'[e][t] \in {"recv", "data", "fin"} =>
              pump[e][t] \in {"recv", "data", "fin"} /\ Passed(e, t)' = Passed(e, t)
<1>1. sent[e][t] \in Nat
  BY TypesAt
<1>2. pump[e][t] = "data" => sent[e][t] - 1 \in Nat
  BY <1>1 DEF SessionOf
<1>3. Passed(e, t) \in Nat
  BY <1>1, <1>2 DEF Passed
<1>4. \/ Passed(e, t)' = Passed(e, t)
      \/ pump'[e][t] = "done" /\ Passed(e, t)' = Passed(e, t) + 1
  BY <1>1, <1>2 DEF Passed, SenderGoesOn
<1>5. pump'[e][t] \in {"recv", "data", "fin"} => pump[e][t] \in {"recv", "data", "fin"}
  BY DEF SenderGoesOn
<1> QED BY <1>3, <1>4, <1>5

LEMMA SenderKept ==
  ASSUME TypeOK, TypeOK', NEW e \in Ends, NEW t \in Streams, SenderOf(e, t), SessionOf(e, t),
         SenderGoesOn(e, t), WireGoesOn(e, t)
  PROVE  SenderOf(e, t)'
<1>0. sent[e][t] \in Nat /\ fin[e][t] \in BOOLEAN
  BY DEF TypeOK
<1>1. pump'[e][t] \in {"none", "chosen", "open", "failed"} =>
        ~Holds(wire'[e], t, "DATA") /\ ~Holds(wire'[e], t, "FIN")
  BY DEF SenderOf, SenderGoesOn, WireGoesOn
<1>2. Holds(wire'[e], t, "FIN") => pump'[e][t] \in {"mark", "done"}
                              /\ (sess'[e][t] = "closed" \/ fin'[e][t])
  BY DEF SenderOf, SenderGoesOn, WireGoesOn
<1>3. pump'[e][t] \in {"fin", "mark"} => sess'[e][t] = "closed" \/ fin'[e][t]
  BY DEF SenderOf, SenderGoesOn, WireGoesOn
<1>4. \A n \in Nat : HoldsChunk(wire'[e], t, n) => n <= Passed(e, t)'
  BY PassedGrows DEF SenderOf, WireGoesOn
<1> QED BY <1>1, <1>2, <1>3, <1>4 DEF SenderOf, WireGoesOn

LEMMA OpenKept ==
  ASSUME TypeOK, NEW t \in Streams, OpenOf(t), \A x \in Ends : SessionOf(x, t),
         \A x \in Ends : SenderGoesOn(x, t) /\ WireGoesOn(x, t),
         Dialling(t)' => Dialling(t),
         \A x \in Ends : Refusing(x, t)' => Refusing(x, t) \/ ~Opening(t)'
  PROVE  OpenOf(t)' /\ (Opening(t)' => Opening(t))
<1>0. "internal" \in Ends /\ "external" \in Ends
  BY DEF Ends
<1>1. Before(t)' => Before(t)
  BY <1>0 DEF Before, SenderGoesOn
<1>2. Opening(t)' => Opening(t)
  BY <1>0, <1>1 DEF Opening, WireGoesOn
<1>3. \A p \in Ends : Refusing(p, t)' => ~Opening(t)'
  BY <1>2 DEF OpenOf
<1>4. Opening(t)' => sess'["external"][t] = "none"
  BY <1>0, <1>2 DEF OpenOf, SenderGoesOn
<1>5. pump'["internal"][t] = "failed" => pump["internal"][t] \in {"open", "failed"}
  BY <1>0 DEF SenderGoesOn
<1> QED BY <1>0, <1>1, <1>2, <1>3, <1>4, <1>5 DEF OpenOf, WireGoesOn, Before
LEMMA QueueCounts ==
  ASSUME TypeOK, NEW p \in Ends, NEW t \in Streams
  PROVE  /\ Taken(p, t) \in Nat /\ Queued(p, t) \in Nat /\ Len(remote_queue[p][t]) \in Nat
         /\ remote_queue[p][t] \in Seq(Nat) /\ delivered[p][t] \in Seq(Nat) /\ hand[p][t] \in Nat
         /\ Queued(p, t) = Taken(p, t) + Len(remote_queue[p][t])
<1>1. remote_queue[p][t] \in Seq(Nat) /\ delivered[p][t] \in Seq(Nat) /\ hand[p][t] \in Nat
  BY DEF TypeOK
<1>2. Len(remote_queue[p][t]) \in Nat /\ Len(delivered[p][t]) \in Nat
  BY <1>1
<1>3. Taken(p, t) \in Nat
  <2>1. CASE writer[p][t] = "write"
    BY <1>2, <2>1 DEF Taken
  <2>2. CASE writer[p][t] # "write"
    BY <1>2, <2>2 DEF Taken
  <2> QED BY <2>1, <2>2
<1> QED BY <1>1, <1>2, <1>3 DEF Queued

LEMMA RestCounts ==
  ASSUME TypeOK, TypeOK', NEW p \in Ends, NEW t \in Streams,
         ReceiverRests(p, t), sess'[p][t] # "closed"
  PROVE  /\ Taken(p, t)' = Taken(p, t) /\ Queued(p, t)' = Queued(p, t)
         /\ remote_queue'[p][t] = remote_queue[p][t]
BY DEF ReceiverRests, Taken, Queued

(* The end of a stream that is marked stays marked.                        *)
LEMMA MarkKept ==
  ASSUME TypeOK, TypeOK', NEW p \in Ends, NEW t \in Streams, EndMark(p, t),
         Queued(p, t)' = Queued(p, t),
         SenderGoesOn(Peer(p), t), WireGoesOn(Peer(p), t)
  PROVE  EndMark(p, t)'
<1>1. Peer(p) \in Ends
  BY PeerEnd
<1> DEFINE e == Peer(p)
<1>2. /\ ~Holds(wire[e], t, "DATA") /\ ~Holds(wire[e], t, "FIN") /\ pump[e][t] \in {"mark", "done"}
      /\ sess[e][t] = "closed" \/ (fin[e][t] /\ Queued(p, t) - 1 = sent[e][t])
  BY DEF EndMark
<1>3. ~Holds(wire'[e], t, "DATA") /\ ~Holds(wire'[e], t, "FIN")
  BY <1>2 DEF WireGoesOn
<1>4. /\ pump'[e][t] \in {"mark", "done"}
      /\ sess'[e][t] = "closed" \/ (fin'[e][t] /\ Queued(p, t)' - 1 = sent'[e][t])
  BY <1>2 DEF SenderGoesOn
<1> QED BY <1>3, <1>4 DEF EndMark

LEMMA QueueKept ==
  ASSUME TypeOK, TypeOK', NEW p \in Ends, NEW t \in Streams, QueueOf(p, t),
         SessionOf(Peer(p), t), SenderGoesOn(Peer(p), t), WireGoesOn(Peer(p), t), ReceiverRests(p, t)
  PROVE  QueueOf(p, t)'
<1>1. SUFFICES ASSUME sess'[p][t] # "closed" PROVE QueueOf(p, t)'
  BY DEF QueueOf
<1>2. /\ Taken(p, t)' = Taken(p, t) /\ Queued(p, t)' = Queued(p, t)
      /\ remote_queue'[p][t] = remote_queue[p][t]
  BY <1>1, RestCounts
<1>3. sess[p][t] # "closed"
  BY <1>1 DEF ReceiverRests
<1>4. writer'[p][t] = "write" => hand'[p][t] = Len(delivered'[p][t]) + 1
  BY <1>1, <1>3 DEF QueueOf, ReceiverRests
<1>5. Taken(p, t) \in Nat /\ Peer(p) \in Ends
  BY PeerEnd, QueueCounts
<1>6. \A n \in Nat : n <= Passed(Peer(p), t) => n <= Passed(Peer(p), t)'
  BY <1>5, PassedGrows
<1>7. (Taken(p, t) <= Passed(Peer(p), t))'
  BY <1>2, <1>3, <1>5, <1>6 DEF QueueOf
<1>8. ASSUME NEW k \in 1 .. Len(remote_queue[p][t])
      PROVE  \/ (remote_queue[p][t][k] = Taken(p, t) + k /\ remote_queue[p][t][k] <= Passed(Peer(p), t)')
             \/ (remote_queue[p][t][k] = EofItem /\ k = Len(remote_queue[p][t]) /\ EndMark(p, t)')
  <2>0. remote_queue[p][t][k] \in Nat
    BY QueueCounts
  <2>1. CASE remote_queue[p][t][k] = Taken(p, t) + k /\ remote_queue[p][t][k] <= Passed(Peer(p), t)
    BY <2>0, <2>1, <1>6
  <2>2. CASE remote_queue[p][t][k] = EofItem /\ k = Len(remote_queue[p][t]) /\ EndMark(p, t)
    BY <2>2, <1>2, MarkKept
  <2> QED BY <2>1, <2>2, <1>3 DEF QueueOf
<1> QED BY <1>2, <1>4, <1>7, <1>8 DEF QueueOf

LEMMA IntactKept ==
  ASSUME TypeOK, TypeOK', NEW p \in Ends, NEW t \in Streams, OpenOf(t), SessionOf(p, t),
         Opening(t)' => Opening(t), ReceiverRests(p, t), ReaderGoesOn(p, t), Intact(p, t)'
  PROVE  Intact(p, t)
<1>1. cut \in BOOLEAN /\ cut' \in BOOLEAN
  BY DEF TypeOK
<1>2. ~cut /\ reader[p] # "done"
  BY <1>1 DEF Intact, ReaderGoesOn
<1>3. /\ sess'[p][t] = sess[p][t] /\ sess[p][t] \in {"none", "open"}
      /\ remote_queue'[p][t] = remote_queue[p][t]
  BY DEF Intact, ReceiverRests
<1>4. ~Refusing(p, t)
  <2>1. SUFFICES ASSUME Refusing(p, t) PROVE FALSE
    OBVIOUS
  <2>2. sess[p][t] = "none"
    BY <1>3, <2>1 DEF ReaderGoesOn, Intact
  <2>3. ~Opening(t)
    BY <2>1 DEF OpenOf
  <2>4. CASE p = "internal"
    BY <2>2, <2>3, <2>4 DEF SessionOf, Opening, Before
  <2>5. CASE p = "external"
    BY <2>2, <2>3, <2>5, <1>3 DEF Intact
  <2> QED BY <2>4, <2>5 DEF Ends
<1> QED BY <1>2, <1>3, <1>4 DEF Intact

LEMMA ReceiverKept ==
  ASSUME TypeOK, TypeOK', NEW p \in Ends, NEW t \in Streams, ReceiverOf(p, t),
         SenderOf(Peer(p), t), SessionOf(Peer(p), t),
         SenderGoesOn(Peer(p), t), WireGoesOn(Peer(p), t),
         Intact(p, t)' => /\ Intact(p, t) /\ ChunksStay(Peer(p), t)
                          /\ Queued(p, t)' = Queued(p, t)
  PROVE  ReceiverOf(p, t)'
<1> DEFINE e == Peer(p)
<1>1. SUFFICES ASSUME Intact(p, t)' PROVE ReceiverOf(p, t)'
  BY DEF ReceiverOf
<1>2. Queued(p, t)' = Queued(p, t)
  BY <1>1
<1>3. e \in Ends
  BY PeerEnd
<1>4. ASSUME NEW a, NEW b, OnWire(wire[e], t, a, b) PROVE OnWire(wire'[e], t, a, b)
  BY <1>1, <1>4 DEF OnWire, ChunksStay
<1>5. \A n \in Nat : HoldsChunk(wire'[e], t, n) =>
        Queued(p, t) < n /\ OnWire(wire'[e], t, Queued(p, t), n)
  BY <1>1, <1>4 DEF ReceiverOf, WireGoesOn
<1>6. pump'[e][t] \in {"recv", "data", "fin"} => OnWire(wire'[e], t, Queued(p, t), Passed(e, t)')
  <2>1. SUFFICES ASSUME pump'[e][t] \in {"recv", "data", "fin"}
                 PROVE  OnWire(wire'[e], t, Queued(p, t), Passed(e, t)')
    OBVIOUS
  <2>2. pump[e][t] \in {"recv", "data", "fin"} /\ Passed(e, t)' = Passed(e, t)
    BY <1>3, <2>1, PassedGrows
  <2>3. OnWire(wire[e], t, Queued(p, t), Passed(e, t))
    BY <1>1, <2>2 DEF ReceiverOf
  <2> QED BY <2>2, <2>3, <1>4
<1>8. Holds(wire'[e], t, "FIN") /\ sess'[e][t] # "closed" => OnWire(wire'[e], t, Queued(p, t), sent'[e][t])
  <2>1. SUFFICES ASSUME Holds(wire'[e], t, "FIN"), sess'[e][t] # "closed"
                 PROVE OnWire(wire'[e], t, Queued(p, t), sent'[e][t])
    OBVIOUS
  <2>2. Holds(wire[e], t, "FIN") /\ sess[e][t] # "closed"
    BY <2>1 DEF WireGoesOn, SenderGoesOn
  <2>3. pump[e][t] \in {"mark", "done"}
    BY <2>2 DEF SenderOf
  <2>4. sent'[e][t] = sent[e][t]
    BY <2>3 DEF SenderGoesOn
  <2>5. OnWire(wire[e], t, Queued(p, t), sent[e][t])
    BY <1>1, <2>2 DEF ReceiverOf
  <2> QED BY <2>4, <2>5, <1>4
<1> HIDE DEF e
<1>9. e = Peer(p)
  BY DEF e
<1> QED BY <1>2, <1>5, <1>6, <1>8, <1>9 DEF ReceiverOf
-----------------------------------------------------------------------------
(* The types, step by step.                                                *)
LEMMA TypesOfUser ==
  ASSUME TypeOK, NEW s \in Streams, UserThread(s), setting' = setting
  PROVE  TypeOK'
<1>0. Streams' = Streams /\ Frames' = Frames
  BY SettingKept
<1>1. "internal" \in Ends
  BY DEF Ends
<1>2. CASE ChooseCarrier(s)
  BY <1>0, <1>1, <1>2 DEF TypeOK, ChooseCarrier, appVars, sessionVars, carrierVars
<1>3. CASE StartLocalStream(s)
  BY <1>0, <1>1, <1>3 DEF TypeOK, StartLocalStream, Register, appVars, carrierVars
<1>4. CASE SendOpen(s)
  <2>1. wire' \in [Ends -> Seq(Frames)]
    BY <1>1, <1>4, PutType, FrameTypes DEF SendOpen
  <2> QED BY <1>0, <1>1, <1>4, <2>1 DEF TypeOK, SendOpen, appVars, sessionVars, carrierVars
<1>5. CASE SendOpenFails(s)
  BY <1>0, <1>1, <1>5 DEF TypeOK, SendOpenFails, appVars, sessionVars, carrierVars
<1> QED BY <1>2, <1>3, <1>4, <1>5 DEF UserThread

LEMMA TypesOfPump ==
  ASSUME TypeOK, NEW e \in Ends, NEW s \in Streams, Pump(e, s), setting' = setting
  PROVE  TypeOK'
<1>0. Streams' = Streams /\ Frames' = Frames
  BY SettingKept
<1>a. sent[e][s] \in Nat
  BY TypesAt
<1>1. CASE PumpRead(e, s)
  BY <1>0, <1>1 DEF TypeOK, PumpRead, sessionVars, carrierVars
<1>2. CASE PumpEof(e, s)
  BY <1>0, <1>2 DEF TypeOK, PumpEof, sessionVars, carrierVars
<1>3. CASE PumpSendData(e, s)
  <2>1. wire' \in [Ends -> Seq(Frames)]
    BY <1>3, <1>a, PutType, FrameTypes DEF PumpSendData
  <2> QED BY <1>0, <1>3, <2>1 DEF TypeOK, PumpSendData, appVars, sessionVars, carrierVars
<1>4. CASE PumpWoken(e, s)
  BY <1>0, <1>4 DEF TypeOK, PumpWoken, appVars, sessionVars, carrierVars
<1>5. CASE PumpBroken(e, s)
  BY <1>0, <1>5 DEF TypeOK, PumpBroken, appVars, sessionVars, carrierVars
<1>6. CASE PumpSendFin(e, s)
  <2>1. wire' \in [Ends -> Seq(Frames)]
    BY <1>6, PutType, FrameTypes DEF PumpSendFin
  <2> QED BY <1>0, <1>6, <2>1 DEF TypeOK, PumpSendFin, appVars, sessionVars, carrierVars
<1>7. CASE PumpMark(e, s)
  <2>1. PICK S : Close(e, S)
    BY <1>7 DEF PumpMark
  <2>2. /\ sess' \in [Ends -> [Streams -> {"none", "open", "closed"}]]
        /\ listed' \in [Ends -> [Streams -> BOOLEAN]]
        /\ remote_queue' \in [Ends -> [Streams -> Seq(Nat)]]
    BY <2>1, CloseEffect
  <2> QED BY <1>0, <1>7, <2>2 DEF TypeOK, PumpMark, appVars, carrierVars
<1>8. CASE PumpSendRst(e, s)
  <2>1. /\ sess' \in [Ends -> [Streams -> {"none", "open", "closed"}]]
        /\ listed' \in [Ends -> [Streams -> BOOLEAN]]
        /\ remote_queue' \in [Ends -> [Streams -> Seq(Nat)]]
    BY <1>8, CloseEffect DEF PumpSendRst
  <2>2. wire' \in [Ends -> Seq(Frames)]
    BY <1>8, PutType, FrameTypes DEF PumpSendRst
  <2> QED BY <1>0, <1>8, <2>1, <2>2 DEF TypeOK, PumpSendRst, appVars, carrierVars
<1>9. CASE PumpSendFails(e, s)
  <2>1. /\ sess' \in [Ends -> [Streams -> {"none", "open", "closed"}]]
        /\ listed' \in [Ends -> [Streams -> BOOLEAN]]
        /\ remote_queue' \in [Ends -> [Streams -> Seq(Nat)]]
    BY <1>9, CloseEffect DEF PumpSendFails
  <2> QED BY <1>0, <1>9, <2>1 DEF TypeOK, PumpSendFails, appVars, carrierVars
<1>10. CASE PumpStops(e, s)
  BY <1>0, <1>10 DEF TypeOK, PumpStops, appVars, sessionVars, carrierVars
<1> QED BY <1>1, <1>2, <1>3, <1>4, <1>5, <1>6, <1>7, <1>8, <1>9, <1>10 DEF Pump

LEMMA TypesOfWriter ==
  ASSUME TypeOK, NEW e \in Ends, NEW s \in Streams, Writer(e, s) \/ WriterDeliver(e, s),
         setting' = setting
  PROVE  TypeOK'
<1>0. Streams' = Streams /\ Frames' = Frames
  BY SettingKept
<1>a. remote_queue[e][s] \in Seq(Nat) /\ hand[e][s] \in Nat /\ delivered[e][s] \in Seq(Nat)
  BY TypesAt
<1>b. EofItem \in Nat
  BY DEF EofItem
<1>c. remote_queue[e][s] # <<>> => Head(remote_queue[e][s]) \in Nat /\ Tail(remote_queue[e][s]) \in Seq(Nat)
  BY <1>a
<1>d. Append(delivered[e][s], hand[e][s]) \in Seq(Nat) /\ Append(remote_queue[e][s], EofItem) \in Seq(Nat)
  BY <1>a, <1>b
<1>1. CASE WriterTake(e, s)
  BY <1>0, <1>c, <1>1 DEF TypeOK, WriterTake, appVars, carrierVars
<1>2. CASE WriterEof(e, s)
  BY <1>0, <1>c, <1>2 DEF TypeOK, WriterEof, carrierVars
<1>3. CASE WriterClose(e, s)
  <2>1. /\ sess' \in [Ends -> [Streams -> {"none", "open", "closed"}]]
        /\ listed' \in [Ends -> [Streams -> BOOLEAN]]
        /\ remote_queue' \in [Ends -> [Streams -> Seq(Nat)]]
    BY <1>3, CloseEffect DEF WriterClose
  <2> QED BY <1>0, <1>3, <2>1 DEF TypeOK, WriterClose, appVars, carrierVars
<1>4. CASE WriterDeliver(e, s)
  BY <1>0, <1>b, <1>d, <1>4 DEF TypeOK, WriterDeliver, sessionVars, carrierVars
<1>5. CASE WriterFails(e, s)
  <2>1. remote_queue' \in [Ends -> [Streams -> Seq(Nat)]]
    BY <1>5, <1>a, <1>d, UpdateType DEF TypeOK, WriterFails
  <2>2. writer' \in [Ends -> [Streams -> {"none", "get", "write", "close", "rst", "done"}]]
    <3>1. \E v \in {"rst", "done"} : writer' = [writer EXCEPT ![e][s] = v]
      BY <1>5 DEF WriterFails
    <3> QED BY <3>1 DEF TypeOK
  <2>3. listed' \in [Ends -> [Streams -> BOOLEAN]]
    <3>1. (listed[e][s] /\ sess[e][s] = "closed") \in BOOLEAN
      OBVIOUS
    <3>2. UNCHANGED listed \/ listed' = [listed EXCEPT ![e][s] = listed[e][s] /\ sess[e][s] = "closed"]
      BY <1>5 DEF WriterFails
    <3>3. listed \in [Ends -> [Streams -> BOOLEAN]]
      BY DEF TypeOK
    <3>4. \A b \in BOOLEAN : [listed EXCEPT ![e][s] = b] \in [Ends -> [Streams -> BOOLEAN]]
      BY <3>3, UpdateType
    <3> QED BY <3>1, <3>2, <3>3, <3>4
  <2> QED BY <1>0, <1>b, <1>5, <2>1, <2>2, <2>3 DEF TypeOK, WriterFails, appVars, carrierVars
<1>6. CASE WriterSendRst(e, s)
  <2>1. wire' \in [Ends -> Seq(Frames)]
    <3>1. CASE Put(e, F("RST", s))
      BY <3>1, PutType, FrameTypes
    <3>2. CASE UNCHANGED wire
      BY <3>2 DEF TypeOK
    <3> QED BY <1>6, <3>1, <3>2 DEF WriterSendRst
  <2> QED BY <1>0, <1>6, <2>1 DEF TypeOK, WriterSendRst, appVars, carrierVars
<1>7. CASE WriterStops(e, s)
  BY <1>0, <1>7 DEF TypeOK, WriterStops, appVars, sessionVars, carrierVars
<1> QED BY <1>1, <1>2, <1>3, <1>4, <1>5, <1>6, <1>7 DEF Writer
LEMMA ReceiveType ==
  ASSUME TypeOK, NEW e \in Ends, NEW k, Receive(e, k)
  PROVE  /\ Peer(e) \in Ends /\ wire[Peer(e)] \in Seq(Frames) /\ wire[Peer(e)] # <<>>
         /\ Incoming(e) \in Frames /\ Incoming(e) = Head(wire[Peer(e)]) /\ Incoming(e).type = k
         /\ Incoming(e).chunk \in Nat
         /\ wire'[Peer(e)] = Tail(wire[Peer(e)])
         /\ \A x \in Ends : x # Peer(e) => wire'[x] = wire[x]
         /\ wire' \in [Ends -> Seq(Frames)]
<1>1. Peer(e) \in Ends
  BY PeerEnd
<1>2. wire[Peer(e)] \in Seq(Frames) /\ wire \in [Ends -> Seq(Frames)]
  BY <1>1 DEF TypeOK
<1>3. wire[Peer(e)] # <<>> /\ wire' = [wire EXCEPT ![Peer(e)] = Tail(wire[Peer(e)])] /\ Incoming(e).type = k
  BY DEF Receive
<1>4. Incoming(e) \in Frames /\ Tail(wire[Peer(e)]) \in Seq(Frames)
  BY <1>2, <1>3 DEF Incoming
<1>5. Incoming(e).chunk \in Nat
  BY <1>4 DEF Frames, Frame
<1> QED BY <1>1, <1>2, <1>3, <1>4, <1>5 DEF Incoming

LEMMA FrameStream ==
  ASSUME NEW f \in Frames, f.type \notin {"PING", "PONG"} PROVE f.stream \in Streams
BY DEF Frames

LEMMA TypesOfReader ==
  ASSUME TypeOK, NEW e \in Ends, Reader(e), setting' = setting
  PROVE  TypeOK'
<1>0. Streams' = Streams /\ Frames' = Frames
  BY SettingKept
<1>n. NoFrame \in Frames /\ F("PONG", 0) \in Frames /\ \A s \in Streams : F("RST", s) \in Frames
  BY FrameTypes
<1>f. /\ NoFrame.type = "PONG" /\ F("PONG", 0).type = "PONG" /\ \A s : F("RST", s).type = "RST"
  BY DEF NoFrame, F
<1>h. handling[e] \in Frames /\ (reader[e] = "dial" => handling[e].type = "OPEN")
  BY DEF TypeOK
<1>1. CASE ReadOpen(e)
  <2>1. wire' \in [Ends -> Seq(Frames)] /\ Incoming(e) \in Frames /\ Incoming(e).type = "OPEN"
    BY <1>1, ReceiveType DEF ReadOpen
  <2> QED BY <1>0, <1>1, <2>1 DEF TypeOK, ReadOpen, appVars, sessionVars, threadVars
<1>2. CASE Dialled(e)
  <2>1. PICK s : s = handling[e].stream
    OBVIOUS
  <2>2. s \in Streams
    BY <1>2, <1>h, <2>1, FrameStream DEF Dialled
  <2>3. Register(e, s, "recv")
    BY <1>2, <2>1 DEF Dialled
  <2>4. /\ sess' \in [Ends -> [Streams -> {"none", "open", "closed"}]]
        /\ listed' \in [Ends -> [Streams -> BOOLEAN]]
        /\ writer' \in [Ends -> [Streams -> {"none", "get", "write", "close", "rst", "done"}]]
        /\ pump' \in [Ends -> [Streams -> {"none", "chosen", "open", "failed", "recv", "data", "fin",
                                    "mark", "rst", "done"}]]
    BY <2>2, <2>3 DEF Register, TypeOK
  <2> QED BY <1>0, <1>2, <1>n, <1>f, <2>4 DEF TypeOK, Dialled, appVars
<1>3. CASE DialFails(e)
  <2>1. handling[e].stream \in Streams
    BY <1>3, <1>h, FrameStream DEF DialFails
  <2> QED BY <1>0, <1>3, <1>n, <1>f, <2>1 DEF TypeOK, DialFails, Answer, appVars, sessionVars, threadVars
<1>4. CASE ReadPing(e)
  <2>1. wire' \in [Ends -> Seq(Frames)]
    BY <1>4, ReceiveType DEF ReadPing
  <2> QED BY <1>0, <1>4, <1>n, <1>f, <2>1 DEF TypeOK, ReadPing, Answer, appVars, sessionVars, threadVars
<1>5. CASE ReadPong(e)
  <2>1. wire' \in [Ends -> Seq(Frames)]
    BY <1>5, ReceiveType DEF ReadPong
  <2> QED BY <1>0, <1>5, <2>1 DEF TypeOK, ReadPong, appVars, sessionVars, threadVars, carrierVars
<1>6. CASE ReadData(e) \/ ReadFin(e)
  <2>0. PICK k \in {"DATA", "FIN"} : Receive(e, k)
    BY <1>6 DEF ReadData, ReadFin
  <2>1. /\ wire' \in [Ends -> Seq(Frames)] /\ Incoming(e) \in Frames /\ Incoming(e).type = k
        /\ Incoming(e).chunk \in Nat
    BY <2>0, ReceiveType
  <2>2. PICK s \in Streams : s = Incoming(e).stream
    BY <2>0, <2>1, FrameStream
  <2>3. \/ UNCHANGED <<remote_queue, carrierVars>>
        \/ Answer(e, F("RST", s)) /\ UNCHANGED remote_queue
        \/ /\ UNCHANGED carrierVars
           /\ \E n \in Nat : remote_queue' = [remote_queue EXCEPT ![e][s] = Append(@, n)]
    BY <1>6, <2>1, <2>2 DEF ReadData, ReadFin, EofItem
  <2>4. remote_queue' \in [Ends -> [Streams -> Seq(Nat)]]
    <3>1. \A n \in Nat : Append(remote_queue[e][s], n) \in Seq(Nat)
      BY TypesAt
    <3>2. CASE UNCHANGED remote_queue
      BY <3>2 DEF TypeOK
    <3>3. CASE \E n \in Nat : remote_queue' = [remote_queue EXCEPT ![e][s] = Append(@, n)]
      BY <3>1, <3>3, UpdateType DEF TypeOK
    <3> QED BY <2>3, <3>2, <3>3
  <2>5. UNCHANGED <<appVars, sess, listed, threadVars, pings, cut>>
    BY <1>6 DEF ReadData, ReadFin
  <2>6. CASE UNCHANGED carrierVars
    BY <1>0, <2>1, <2>4, <2>5, <2>6 DEF TypeOK, appVars, threadVars, carrierVars
  <2>7. CASE Answer(e, F("RST", s))
    <3>1. F("RST", s) \in Frames /\ F("RST", s).type = "RST"
      BY <1>n, <1>f
    <3> QED BY <1>0, <2>1, <2>4, <2>5, <2>7, <3>1 DEF TypeOK, appVars, threadVars, Answer
  <2> QED BY <2>3, <2>6, <2>7
<1>7. CASE ReadRst(e)
  <2>1. wire' \in [Ends -> Seq(Frames)]
    BY <1>7, ReceiveType DEF ReadRst
  <2>2. PICK S : Close(e, S)
    BY <1>7 DEF ReadRst
  <2>3. /\ sess' \in [Ends -> [Streams -> {"none", "open", "closed"}]]
        /\ listed' \in [Ends -> [Streams -> BOOLEAN]]
        /\ remote_queue' \in [Ends -> [Streams -> Seq(Nat)]]
    BY <2>2, CloseEffect
  <2> QED BY <1>0, <1>7, <2>1, <2>3 DEF TypeOK, ReadRst, appVars, threadVars, carrierVars
<1>8. CASE SendReply(e)
  <2>1. wire' \in [Ends -> Seq(Frames)]
    BY <1>8, <1>h, PutType DEF SendReply
  <2>2. PICK S : Close(e, S)
    BY <1>8 DEF SendReply
  <2>3. /\ sess' \in [Ends -> [Streams -> {"none", "open", "closed"}]]
        /\ listed' \in [Ends -> [Streams -> BOOLEAN]]
        /\ remote_queue' \in [Ends -> [Streams -> Seq(Nat)]]
    BY <2>2, CloseEffect
  <2> QED BY <1>0, <1>8, <1>n, <1>f, <2>1, <2>3 DEF TypeOK, SendReply, appVars, threadVars
<1>9. CASE ReaderEnds(e)
  BY <1>0, <1>9 DEF TypeOK, ReaderEnds, appVars, sessionVars, threadVars
<1> QED BY <1>1, <1>2, <1>3, <1>4, <1>5, <1>6, <1>7, <1>8, <1>9 DEF Reader

LEMMA ClearEffect ==
  ASSUME TypeOK, NEW e \in Ends, ClearStreams(e)
  PROVE  /\ sess' \in [Ends -> [Streams -> {"none", "open", "closed"}]]
         /\ listed' \in [Ends -> [Streams -> BOOLEAN]]
         /\ remote_queue' \in [Ends -> [Streams -> Seq(Nat)]]
         /\ \A x \in Ends, s \in Streams :
              IF x = e /\ listed[x][s]
              THEN sess'[x][s] = "closed" /\ ~listed'[x][s]
              ELSE /\ sess'[x][s] = sess[x][s] /\ listed'[x][s] = listed[x][s]
                   /\ remote_queue'[x][s] = remote_queue[x][s]
<1>1. /\ sess' = [sess EXCEPT ![e] = [s \in Streams |-> IF listed[e][s] THEN "closed" ELSE sess[e][s]]]
      /\ listed' = [listed EXCEPT ![e] = [s \in Streams |-> FALSE]]
      /\ remote_queue' = [remote_queue EXCEPT ![e] =
           [s \in Streams |->
              IF listed[e][s] /\ sess[e][s] = "open" /\ Len(remote_queue[e][s]) < QueueSize
              THEN Append(remote_queue[e][s], EofItem) ELSE remote_queue[e][s]]]
  BY DEF ClearStreams
<1>2. \A s \in Streams : Append(remote_queue[e][s], EofItem) \in Seq(Nat) /\ remote_queue[e][s] \in Seq(Nat)
  BY DEF TypeOK, EofItem
<1>3. /\ sess' \in [Ends -> [Streams -> {"none", "open", "closed"}]]
      /\ sess'[e] = [s \in Streams |-> IF listed[e][s] THEN "closed" ELSE sess[e][s]]
      /\ \A x \in Ends \ {e} : sess'[x] = sess[x]
  BY <1>1 DEF TypeOK
<1>4. /\ listed' \in [Ends -> [Streams -> BOOLEAN]]
      /\ listed'[e] = [s \in Streams |-> FALSE]
      /\ \A x \in Ends \ {e} : listed'[x] = listed[x]
  BY <1>1 DEF TypeOK
<1>5. /\ remote_queue'[e] = [s \in Streams |->
              IF listed[e][s] /\ sess[e][s] = "open" /\ Len(remote_queue[e][s]) < QueueSize
              THEN Append(remote_queue[e][s], EofItem) ELSE remote_queue[e][s]]
      /\ \A x \in Ends \ {e} : remote_queue'[x] = remote_queue[x]
  BY <1>1 DEF TypeOK
<1>6. remote_queue'[e] \in [Streams -> Seq(Nat)]
  BY <1>2, <1>5
<1>7. remote_queue' \in [Ends -> [Streams -> Seq(Nat)]]
  BY <1>1, <1>5, <1>6 DEF TypeOK
<1>8. ASSUME NEW x \in Ends, NEW s \in Streams
      PROVE  IF x = e /\ listed[x][s]
              THEN sess'[x][s] = "closed" /\ ~listed'[x][s]
              ELSE /\ sess'[x][s] = sess[x][s] /\ listed'[x][s] = listed[x][s]
                   /\ remote_queue'[x][s] = remote_queue[x][s]
  <2>1. CASE x # e
    BY <1>3, <1>4, <1>5, <2>1
  <2>2. CASE x = e
    <3>1. listed[e][s] \in BOOLEAN
      BY DEF TypeOK
    <3>2. sess'[e][s] = IF listed[e][s] THEN "closed" ELSE sess[e][s]
      BY <1>3
    <3>3. listed'[e][s] = FALSE
      BY <1>4
    <3>4. ~listed[e][s] => remote_queue'[e][s] = remote_queue[e][s]
      BY <1>5
    <3>5. ~listed[e][s] => listed'[e][s] = listed[e][s]
      BY <3>1, <3>3
    <3> QED BY <2>2, <3>2, <3>3, <3>4, <3>5
  <2> QED BY <2>1, <2>2
<1> QED BY <1>3, <1>4, <1>7, <1>8

LEMMA TypeStep == TypeOK /\ Next /\ UNCHANGED setting => TypeOK'
<1> SUFFICES ASSUME TypeOK, Next, setting' = setting PROVE TypeOK'
  OBVIOUS
<1>0. Streams' = Streams /\ Frames' = Frames
  BY SettingKept
<1>1. CASE \E s \in Streams : UserThread(s)
  BY <1>1, TypesOfUser
<1>2. ASSUME NEW e \in Ends, NEW s \in Streams, Pump(e, s) PROVE TypeOK'
  BY <1>2, TypesOfPump
<1>3. ASSUME NEW e \in Ends, NEW s \in Streams, Writer(e, s) \/ WriterDeliver(e, s) PROVE TypeOK'
  BY <1>3, TypesOfWriter
<1>4. ASSUME NEW e \in Ends, NEW s \in Streams, MonitorCloses(e, s) PROVE TypeOK'
  <2>1. /\ sess' \in [Ends -> [Streams -> {"none", "open", "closed"}]]
        /\ listed' \in [Ends -> [Streams -> BOOLEAN]]
        /\ remote_queue' \in [Ends -> [Streams -> Seq(Nat)]]
    BY <1>4, CloseEffect DEF MonitorCloses
  <2> QED BY <1>0, <1>4, <2>1 DEF TypeOK, MonitorCloses, appVars, threadVars, carrierVars
<1>5. ASSUME NEW e \in Ends, NEW s \in Streams, Break(e, s) PROVE TypeOK'
  BY <1>0, <1>5 DEF TypeOK, Break, sessionVars, threadVars, carrierVars
<1>6. ASSUME NEW e \in Ends, Reader(e) PROVE TypeOK'
  BY <1>6, TypesOfReader
<1>7. ASSUME NEW e \in Ends, SendPing(e) PROVE TypeOK'
  <2>1. wire' \in [Ends -> Seq(Frames)]
    BY <1>7, PutType, FrameTypes DEF SendPing
  <2>2. pings' \in [Ends -> Nat]
    BY <1>7 DEF TypeOK, SendPing
  <2> QED BY <1>0, <1>7, <2>1, <2>2 DEF TypeOK, SendPing, appVars, sessionVars, threadVars, carrierVars
<1>8. ASSUME NEW e \in Ends, HeartbeatFails(e) PROVE TypeOK'
  BY <1>0, <1>8 DEF TypeOK, HeartbeatFails, appVars, sessionVars, threadVars
<1>9. ASSUME NEW e \in Ends, ClearStreams(e) PROVE TypeOK'
  <2>1. /\ sess' \in [Ends -> [Streams -> {"none", "open", "closed"}]]
        /\ listed' \in [Ends -> [Streams -> BOOLEAN]]
        /\ remote_queue' \in [Ends -> [Streams -> Seq(Nat)]]
    BY <1>9, ClearEffect
  <2> QED BY <1>0, <1>9, <2>1 DEF TypeOK, ClearStreams, appVars, threadVars
<1>10. CASE Cut
  BY <1>0, <1>10 DEF TypeOK, Cut, appVars, sessionVars, threadVars, carrierVars
<1> QED BY <1>1, <1>2, <1>3, <1>4, <1>5, <1>6, <1>7, <1>8, <1>9, <1>10 DEF Next, Carrier
-----------------------------------------------------------------------------
(* A stream whose two ends go on so, as do the wires and the readers,      *)
(* keeps its invariant.                                                    *)
SessionGoesOn(x, t) ==
  /\ sess'[x][t] = "none" => sess[x][t] = "none" /\ writer'[x][t] = "none"
                             /\ remote_queue'[x][t] = <<>> /\ delivered'[x][t] = <<>>
  /\ sess'[x][t] = "open" => listed'[x][t]
  /\ listed'[x][t] => sess'[x][t] = "open" \/ writer'[x][t] = "rst"
  /\ writer'[x][t] = "rst" => sess'[x][t] = "closed"
  /\ ended'[x][t] => writer'[x][t] \in {"close", "done"}
  /\ pump[x][t] = "none" /\ pump'[x][t] = "chosen" => x = "internal"

Same(x, t) ==
  /\ sess'[x][t] = sess[x][t] /\ remote_queue'[x][t] = remote_queue[x][t]
  /\ listed'[x][t] = listed[x][t] /\ delivered'[x][t] = delivered[x][t]
  /\ sent'[x][t] = sent[x][t] /\ fin'[x][t] = fin[x][t] /\ ended'[x][t] = ended[x][t]
  /\ writer'[x][t] = writer[x][t] /\ hand'[x][t] = hand[x][t] /\ pump'[x][t] = pump[x][t]

GoesOn(x, t) == SenderGoesOn(x, t) /\ ReceiverRests(x, t) /\ SessionGoesOn(x, t)

LEMMA SessionKept ==
  ASSUME TypeOK, TypeOK', NEW e \in Ends, NEW t \in Streams, SessionOf(e, t),
         SenderGoesOn(e, t), SessionGoesOn(e, t)
  PROVE  SessionOf(e, t)'
<1>1. sent[e][t] \in Nat /\ fin[e][t] \in BOOLEAN
  BY TypesAt
<1>2. sess'[e][t] = "none" <=> sess[e][t] = "none"
  BY DEF SenderGoesOn, SessionGoesOn
<1>3. pump'[e][t] \in {"none", "chosen"} <=> pump[e][t] \in {"none", "chosen"}
  BY DEF SenderGoesOn
<1>4. /\ sess'[e][t] = "none" => /\ writer'[e][t] = "none" /\ remote_queue'[e][t] = <<>>
                            /\ delivered'[e][t] = <<>> /\ pump'[e][t] \in {"none", "chosen"}
      /\ pump'[e][t] \in {"none", "chosen"} => sess'[e][t] = "none"
  BY <1>2, <1>3 DEF SessionOf, SessionGoesOn
<1>5. pump'[e][t] \in {"none", "chosen", "open", "failed", "recv", "data"} => ~fin'[e][t]
  BY <1>1 DEF SessionOf, SenderGoesOn
<1>6. /\ pump'[e][t] \in {"none", "chosen", "open", "failed"} => sent'[e][t] = 0
      /\ pump'[e][t] = "data" => sent'[e][t] > 0
  BY <1>1 DEF SessionOf, SenderGoesOn
<1>7. pump'[e][t] \in {"chosen", "open", "failed"} => e = "internal"
  BY DEF SessionOf, SenderGoesOn, SessionGoesOn
<1> QED BY <1>4, <1>5, <1>6, <1>7 DEF SessionOf, SessionGoesOn

LEMMA SameGoesOn ==
  ASSUME NEW e, NEW t, SessionOf(e, t), Same(e, t) PROVE GoesOn(e, t)
<1>1. SenderGoesOn(e, t)
  BY DEF Same, SenderGoesOn
<1>2. ReceiverRests(e, t)
  BY DEF Same, ReceiverRests
<1>3. SessionGoesOn(e, t)
  BY DEF Same, SessionGoesOn, SessionOf
<1> QED BY <1>1, <1>2, <1>3 DEF GoesOn

LEMMA StreamKept ==
  ASSUME TypeOK, TypeOK', NEW t \in Streams, StreamInv(t),
         \A x \in Ends : GoesOn(x, t) /\ WireGoesOn(x, t) /\ ReaderGoesOn(x, t),
         \A x \in Ends : Intact(x, t)' => ChunksStay(Peer(x), t),
         Dialling(t)' => Dialling(t),
         \A x \in Ends : Refusing(x, t)' => Refusing(x, t) \/ ~Opening(t)'
  PROVE  StreamInv(t)'
<1>1. OpenOf(t)' /\ (Opening(t)' => Opening(t))
  BY OpenKept DEF StreamInv, GoesOn
<1>2. ASSUME NEW e \in Ends
      PROVE  SessionOf(e, t)' /\ SenderOf(e, t)' /\ QueueOf(e, t)' /\ ReceiverOf(e, t)'
  <2>1. Peer(e) \in Ends
    BY PeerEnd
  <2>2. SessionOf(e, t)'
    BY SessionKept DEF StreamInv, GoesOn
  <2>3. SenderOf(e, t)'
    BY SenderKept DEF StreamInv, GoesOn
  <2>4. QueueOf(e, t)'
    BY <2>1, QueueKept DEF StreamInv, GoesOn
  <2>5. Intact(e, t)' => Intact(e, t)
    BY <1>1, IntactKept DEF StreamInv, GoesOn
  <2>a. Intact(e, t)' => Queued(e, t)' = Queued(e, t)
    BY RestCounts DEF Intact, GoesOn
  <2>6. ReceiverOf(e, t)'
    BY <2>1, <2>5, <2>a, ReceiverKept DEF StreamInv, GoesOn
  <2> QED BY <2>2, <2>3, <2>4, <2>6
<1> QED BY <1>1, <1>2 DEF StreamInv

-----------------------------------------------------------------------------
(* The wires and the readers.                                              *)
LEMMA WireRests ==
  ASSUME NEW t, NEW x \in Ends, SenderOf(x, t), wire'[x] = wire[x], cut' = cut
  PROVE  WireGoesOn(x, t) /\ ChunksStay(x, t)
BY DEF WireGoesOn, ChunksStay, SenderOf

LEMMA ReaderRests ==
  ASSUME NEW t, UNCHANGED <<reader, handling, cut>>
  PROVE  /\ \A x \in Ends : ReaderGoesOn(x, t) /\ (Refusing(x, t)' => Refusing(x, t))
         /\ Dialling(t)' => Dialling(t)
BY DEF ReaderGoesOn, Refusing, Dialling

(* A frame that is not of stream t, or resets it.                          *)
LEMMA PutOther ==
  ASSUME TypeOK, NEW t, NEW e \in Ends, NEW f \in Frames,
         f.stream = t => f.type \notin {"OPEN", "DATA", "FIN"},
         CanSend(e), Put(e, f), cut' = cut,
         NEW x \in Ends, SenderOf(x, t)
  PROVE  WireGoesOn(x, t) /\ ChunksStay(x, t)
<1>1. CASE x # e
  <2>1. wire'[x] = wire[x]
    BY <1>1 DEF Put, TypeOK
  <2> QED BY <2>1, WireRests
<1>2. CASE x = e
  <2>1. wire[e] \in Seq(Frames) /\ wire'[e] = Append(wire[e], f)
    BY DEF Put, TypeOK
  <2>2. /\ \A k : Holds(wire'[e], t, k) <=> Holds(wire[e], t, k) \/ (f.type = k /\ f.stream = t)
        /\ \A n : HoldsChunk(wire'[e], t, n) <=>
                     HoldsChunk(wire[e], t, n) \/ (f.type = "DATA" /\ f.stream = t /\ f.chunk = n)
    <3>1. /\ \A k : Holds(Append(wire[e], f), t, k) <=> Holds(wire[e], t, k) \/ (f.type = k /\ f.stream = t)
          /\ \A n : HoldsChunk(Append(wire[e], f), t, n) <=>
                     HoldsChunk(wire[e], t, n) \/ (f.type = "DATA" /\ f.stream = t /\ f.chunk = n)
      <4>1. PICK w \in Seq(Frames) : w = wire[e]
        BY <2>1
      <4>2. \A k : Holds(Append(w, f), t, k) <=> Holds(w, t, k) \/ (f.type = k /\ f.stream = t)
        BY WireAppend
      <4>3. \A n : HoldsChunk(Append(w, f), t, n) <=>
                     HoldsChunk(w, t, n) \/ (f.type = "DATA" /\ f.stream = t /\ f.chunk = n)
        BY WireAppend
      <4> QED BY <4>1, <4>2, <4>3, Zenon
    <3> QED BY <2>1, <3>1, Zenon
  <2>3. Ordered(wire'[e], t)
    BY <1>2, <2>1, OrderedAppend DEF SenderOf
  <2>4. ~cut'
    BY DEF CanSend
  <2> QED BY <1>2, <2>2, <2>3, <2>4 DEF WireGoesOn, ChunksStay
<1> QED BY <1>1, <1>2

(* What is left of a wire when its first frame is read.                    *)
LEMMA ReceiveLeaves ==
  ASSUME TypeOK, NEW t, NEW e \in Ends, NEW k, Receive(e, k), cut' = cut,
         NEW x \in Ends, SenderOf(x, t)
  PROVE  /\ WireGoesOn(x, t)
         /\ ~(k = "DATA" /\ x = Peer(e) /\ Incoming(e).stream = t) => ChunksStay(x, t)
<1>1. CASE x # Peer(e)
  <2>1. wire'[x] = wire[x]
    BY <1>1, ReceiveType
  <2> QED BY <2>1, WireRests
<1>2. CASE x = Peer(e)
  <2>1. /\ wire[x] \in Seq(Frames) /\ wire[x] # <<>> /\ wire'[x] = Tail(wire[x])
        /\ Incoming(e) = Head(wire[x]) /\ Incoming(e).type = k
    BY <1>2, ReceiveType
  <2>2. /\ \A j : Holds(wire'[x], t, j) => Holds(wire[x], t, j)
        /\ \A n : HoldsChunk(wire[x], t, n) <=>
             HoldsChunk(wire'[x], t, n) \/ (k = "DATA" /\ Incoming(e).stream = t /\ Incoming(e).chunk = n)
    <3>1. /\ \A j : Holds(wire[x], t, j) <=>
               Holds(Tail(wire[x]), t, j) \/ (Head(wire[x]).type = j /\ Head(wire[x]).stream = t)
          /\ \A n : HoldsChunk(wire[x], t, n) <=>
               HoldsChunk(Tail(wire[x]), t, n)
                 \/ (Head(wire[x]).type = "DATA" /\ Head(wire[x]).stream = t /\ Head(wire[x]).chunk = n)
      BY <2>1, WireTail, Zenon
    <3> QED BY <2>1, <3>1, Zenon
  <2>3. Ordered(wire'[x], t)
    BY <2>1, OrderedTail DEF SenderOf
  <2>4. ~cut \/ wire[x] = <<>>
    BY DEF SenderOf
  <2> QED BY <1>2, <2>1, <2>2, <2>3, <2>4 DEF WireGoesOn, ChunksStay
<1> QED BY <1>1, <1>2
-----------------------------------------------------------------------------
LEMMA ChangedAt ==
  ASSUME NEW S, NEW f \in [Ends -> [Streams -> S]], NEW e \in Ends, NEW s \in Streams, NEW v,
         NEW g, g = [f EXCEPT ![e][s] = v]
  PROVE  /\ g[e][s] = v
         /\ \A x \in Ends, t \in Streams : ~(x = e /\ t = s) => g[x][t] = f[x][t]
OBVIOUS

LEMMA TypesOfAll ==
  ASSUME TypeOK
  PROVE  /\ sent \in [Ends -> [Streams -> Nat]] /\ fin \in [Ends -> [Streams -> BOOLEAN]]
         /\ delivered \in [Ends -> [Streams -> Seq(Nat)]]
         /\ ended \in [Ends -> [Streams -> BOOLEAN]]
         /\ sess \in [Ends -> [Streams -> {"none", "open", "closed"}]]
         /\ listed \in [Ends -> [Streams -> BOOLEAN]]
         /\ remote_queue \in [Ends -> [Streams -> Seq(Nat)]]
         /\ writer \in [Ends -> [Streams -> {"none", "get", "write", "close", "rst", "done"}]]
         /\ hand \in [Ends -> [Streams -> Nat]]
         /\ pump \in [Ends -> [Streams -> {"none", "chosen", "open", "failed", "recv", "data", "fin",
                                    "mark", "rst", "done"}]]
BY DEF TypeOK

(* Steps of one thread that leave the wires and the readers.               *)
LEMMA ThreadStep ==
  ASSUME TypeOK, TypeOK', NEW t \in Streams, StreamInv(t),
         \A x \in Ends : GoesOn(x, t), UNCHANGED <<wire, cut, reader, handling>>
  PROVE  StreamInv(t)'
<1>1. \A x \in Ends : WireGoesOn(x, t) /\ ChunksStay(x, t)
  BY WireRests DEF StreamInv
<1>2. \A x \in Ends : Peer(x) \in Ends
  BY PeerEnd
<1> QED BY <1>1, <1>2, ReaderRests, StreamKept

LEMMA SendStep ==
  ASSUME TypeOK, TypeOK', NEW t \in Streams, StreamInv(t),
         \A x \in Ends : GoesOn(x, t), UNCHANGED <<cut, reader, handling>>,
         NEW e \in Ends, NEW f \in Frames, CanSend(e), Put(e, f),
         f.stream = t => f.type \notin {"OPEN", "DATA", "FIN"}
  PROVE  StreamInv(t)'
<1>1. \A x \in Ends : WireGoesOn(x, t) /\ ChunksStay(x, t)
  BY PutOther DEF StreamInv
<1>2. \A x \in Ends : Peer(x) \in Ends
  BY PeerEnd
<1> QED BY <1>1, <1>2, ReaderRests, StreamKept

(* A stream is closed, by whichever thread.                                *)
LEMMA ClosedGoesOn ==
  ASSUME TypeOK, NEW x \in Ends, NEW t \in Streams, SessionOf(x, t),
         sess[x][t] = "open", sess'[x][t] = "closed", ~listed'[x][t],
         sent'[x][t] = sent[x][t], fin'[x][t] = fin[x][t], ended'[x][t] = ended[x][t],
         writer'[x][t] \in {writer[x][t], "done"},
         \/ pump'[x][t] = pump[x][t]
         \/ pump[x][t] \in {"data", "fin", "mark", "rst"} /\ pump'[x][t] = "done"
  PROVE  GoesOn(x, t)
<1>1. SenderGoesOn(x, t)
  BY DEF SenderGoesOn
<1>2. ReceiverRests(x, t)
  BY DEF ReceiverRests
<1>3. SessionGoesOn(x, t)
  BY DEF SessionGoesOn, SessionOf
<1> QED BY <1>1, <1>2, <1>3 DEF GoesOn

(* What a pump does on its own.                                            *)
LEMMA PumpThreadStep ==
  ASSUME TypeOK, TypeOK', setting' = setting, NEW t \in Streams, StreamInv(t),
         NEW e \in Ends, NEW s \in Streams,
         \/ PumpRead(e, s) \/ PumpEof(e, s) \/ PumpWoken(e, s) \/ PumpBroken(e, s)
         \/ PumpStops(e, s) \/ (e = "internal" /\ (ChooseCarrier(s) \/ SendOpenFails(s)))
  PROVE  StreamInv(t)'
<1>1. UNCHANGED <<wire, cut, reader, handling>>
  BY DEF PumpRead, PumpEof, PumpWoken, PumpBroken, PumpStops, ChooseCarrier, SendOpenFails, carrierVars
<1>2. UNCHANGED <<sess, listed, remote_queue, delivered, ended, writer, hand>>
  BY DEF PumpRead, PumpEof, PumpWoken, PumpBroken, PumpStops, ChooseCarrier, SendOpenFails,
         appVars, sessionVars
<1>3. \E p : pump' = [pump EXCEPT ![e][s] = p]
  BY DEF PumpRead, PumpEof, PumpWoken, PumpBroken, PumpStops, ChooseCarrier, SendOpenFails
<1>4. \E n : sent' = sent \/ sent' = [sent EXCEPT ![e][s] = n]
  BY DEF PumpRead, PumpEof, PumpWoken, PumpBroken, PumpStops, ChooseCarrier, SendOpenFails, appVars
<1>5. fin' = fin \/ fin' = [fin EXCEPT ![e][s] = TRUE]
  BY DEF PumpRead, PumpEof, PumpWoken, PumpBroken, PumpStops, ChooseCarrier, SendOpenFails, appVars
<1>6. ASSUME NEW x \in Ends, ~(x = e /\ t = s) PROVE GoesOn(x, t)
  <2>1. pump'[x][t] = pump[x][t] /\ sent'[x][t] = sent[x][t] /\ fin'[x][t] = fin[x][t]
    <3>1. pump'[x][t] = pump[x][t]
      BY <1>3, <1>6 DEF TypeOK
    <3>2. sent'[x][t] = sent[x][t]
      <4>1. PICK n : sent' = sent \/ sent' = [sent EXCEPT ![e][s] = n]
        BY <1>4
      <4>2. CASE sent' = sent
        BY <4>2
      <4>3. CASE sent' = [sent EXCEPT ![e][s] = n]
        BY <4>3, <1>6, ChangedAt, TypesOfAll
      <4> QED BY <4>1, <4>2, <4>3
    <3>3. fin'[x][t] = fin[x][t]
      <4>1. CASE fin' = fin
        BY <4>1
      <4>2. CASE fin' = [fin EXCEPT ![e][s] = TRUE]
        BY <4>2, <1>6, ChangedAt, TypesOfAll
      <4> QED BY <1>5, <4>1, <4>2
    <3> QED BY <3>1, <3>2, <3>3
  <2> QED BY <1>2, <2>1, SameGoesOn DEF Same, StreamInv
<1>7. ASSUME t = s PROVE GoesOn(e, t)
  <2>0. SessionOf(e, s)
    BY <1>7 DEF StreamInv
  <2>1. CASE PumpRead(e, s)
    <3>1. /\ pump[e][s] = "recv" /\ pump'[e][s] = "data" /\ sent'[e][s] = sent[e][s] + 1
          /\ fin'[e][s] = fin[e][s]
      BY <2>1 DEF PumpRead, TypeOK
    <3>2. SenderGoesOn(e, s)
      BY <1>2, <3>1 DEF SenderGoesOn
    <3> QED BY <1>2, <1>7, <2>0, <3>1, <3>2 DEF GoesOn, ReceiverRests, SessionGoesOn, SessionOf
  <2>2. CASE PumpEof(e, s)
    <3>1. /\ pump[e][s] = "recv" /\ pump'[e][s] = "fin" /\ sent'[e][s] = sent[e][s] /\ fin'[e][s]
      BY <2>2 DEF PumpEof, TypeOK
    <3>2. SenderGoesOn(e, s)
      BY <1>2, <3>1 DEF SenderGoesOn
    <3> QED BY <1>2, <1>7, <2>0, <3>1, <3>2 DEF GoesOn, ReceiverRests, SessionGoesOn, SessionOf
  <2>3. CASE PumpWoken(e, s) \/ PumpBroken(e, s) \/ PumpStops(e, s)
    <3>1. /\ pump[e][s] = "recv" /\ pump'[e][s] \in {"fin", "rst", "done"}
          /\ pump'[e][s] = "fin" => sess[e][s] = "closed"
      <4>1. /\ pump[e][s] = "recv"
            /\ \E p \in {"fin", "rst", "done"} : /\ pump' = [pump EXCEPT ![e][s] = p]
                                                 /\ p = "fin" => sess[e][s] = "closed"
        <5>1. CASE PumpWoken(e, s)
          BY <5>1 DEF PumpWoken, SockClosed
        <5>2. CASE PumpBroken(e, s)
          BY <5>2 DEF PumpBroken
        <5>3. CASE PumpStops(e, s)
          BY <5>3 DEF PumpStops
        <5> QED BY <2>3, <5>1, <5>2, <5>3
      <4>2. PICK p \in {"fin", "rst", "done"} : /\ pump' = [pump EXCEPT ![e][s] = p]
                                                /\ p = "fin" => sess[e][s] = "closed"
        BY <4>1
      <4>3. pump' = [pump EXCEPT ![e][s] = p]
        BY <4>2
      <4>4. pump'[e][s] = p
        BY <4>3, ChangedAt, TypesOfAll
      <4>5. p = "fin" => sess[e][s] = "closed"
        BY <4>2
      <4> QED BY <4>1, <4>4, <4>5
    <3>2. sent'[e][s] = sent[e][s] /\ fin'[e][s] = fin[e][s]
      BY <2>3 DEF PumpWoken, PumpBroken, PumpStops, appVars
    <3>3. SenderGoesOn(e, s)
      BY <1>2, <3>1, <3>2 DEF SenderGoesOn
    <3> QED BY <1>2, <1>7, <2>0, <3>1, <3>3 DEF GoesOn, ReceiverRests, SessionGoesOn, SessionOf
  <2>4. CASE e = "internal" /\ (ChooseCarrier(s) \/ SendOpenFails(s))
    <3>1. \/ pump[e][s] = "none" /\ pump'[e][s] = "chosen"
          \/ pump[e][s] = "open" /\ pump'[e][s] = "failed"
      BY <2>4 DEF ChooseCarrier, SendOpenFails, TypeOK
    <3>2. sent'[e][s] = sent[e][s] /\ fin'[e][s] = fin[e][s]
      BY <2>4 DEF ChooseCarrier, SendOpenFails, appVars
    <3>3. SenderGoesOn(e, s)
      BY <1>2, <3>1, <3>2 DEF SenderGoesOn
    <3> QED BY <1>2, <1>7, <2>0, <2>4, <3>1, <3>3 DEF GoesOn, ReceiverRests, SessionGoesOn, SessionOf
  <2> QED BY <2>1, <2>2, <2>3, <2>4
<1>8. \A x \in Ends : GoesOn(x, t)
  BY <1>6, <1>7
<1> QED BY <1>1, <1>8, ThreadStep

(* A step that closes the session of one stream.                           *)
LEMMA CloserStep ==
  ASSUME TypeOK, TypeOK', setting' = setting, NEW t \in Streams, StreamInv(t),
         NEW e \in Ends, NEW s \in Streams,
         \/ PumpMark(e, s) \/ PumpSendFails(e, s) \/ WriterClose(e, s) \/ MonitorCloses(e, s)
         \/ PumpSendRst(e, s)
  PROVE  StreamInv(t)'
<1>1. PICK S : S \subseteq {s} /\ Close(e, S)
  BY DEF PumpMark, PumpSendFails, WriterClose, MonitorCloses, PumpSendRst
<1>2. UNCHANGED <<cut, reader, handling, sent, fin, delivered, ended, hand>>
  BY DEF PumpMark, PumpSendFails, WriterClose, MonitorCloses, PumpSendRst, appVars, threadVars, carrierVars
<1>3. \/ UNCHANGED pump
      \/ pump[e][s] \in {"data", "fin", "mark", "rst"} /\ pump' = [pump EXCEPT ![e][s] = "done"]
  BY DEF PumpMark, PumpSendFails, WriterClose, MonitorCloses, PumpSendRst, threadVars
<1>4. \/ UNCHANGED writer
      \/ writer[e][s] = "close" /\ writer' = [writer EXCEPT ![e][s] = "done"]
  BY DEF PumpMark, PumpSendFails, WriterClose, MonitorCloses, PumpSendRst, threadVars
<1>5. ASSUME NEW x \in Ends PROVE GoesOn(x, t)
  <2>0. SessionOf(x, t)
    BY DEF StreamInv
  <2>1. IF x = e /\ t \in S /\ sess[x][t] = "open"
        THEN sess'[x][t] = "closed" /\ ~listed'[x][t]
        ELSE /\ sess'[x][t] = sess[x][t] /\ listed'[x][t] = listed[x][t]
             /\ remote_queue'[x][t] = remote_queue[x][t]
    BY <1>1, CloseEffect
  <2>2. /\ pump'[x][t] = pump[x][t] \/ (pump[x][t] \in {"data", "fin", "mark", "rst"} /\ pump'[x][t] = "done")
        /\ writer'[x][t] = writer[x][t] \/ (writer[x][t] = "close" /\ writer'[x][t] = "done")
    <3>1. pump'[x][t] = pump[x][t] \/ (pump[x][t] \in {"data", "fin", "mark", "rst"} /\ pump'[x][t] = "done")
      <4>1. CASE pump' = pump
        BY <4>1
      <4>2. CASE pump[e][s] \in {"data", "fin", "mark", "rst"} /\ pump' = [pump EXCEPT ![e][s] = "done"]
        BY <4>2, ChangedAt, TypesOfAll
      <4> QED BY <1>3, <4>1, <4>2
    <3>2. writer'[x][t] = writer[x][t] \/ (writer[x][t] = "close" /\ writer'[x][t] = "done")
      <4>1. CASE writer' = writer
        BY <4>1
      <4>2. CASE writer[e][s] = "close" /\ writer' = [writer EXCEPT ![e][s] = "done"]
        BY <4>2, ChangedAt, TypesOfAll
      <4> QED BY <1>4, <4>1, <4>2
    <3> QED BY <3>1, <3>2
  <2>3. CASE x = e /\ t \in S /\ sess[x][t] = "open"
    BY <1>2, <2>0, <2>1, <2>2, <2>3, ClosedGoesOn
  <2>4. CASE ~(x = e /\ t \in S /\ sess[x][t] = "open")
    <3>1. SenderGoesOn(x, t)
      BY <1>2, <2>1, <2>2, <2>4 DEF SenderGoesOn
    <3>2. ReceiverRests(x, t)
      BY <1>2, <2>1, <2>2, <2>4 DEF ReceiverRests
    <3>3. SessionGoesOn(x, t)
      BY <1>2, <2>0, <2>1, <2>2, <2>4 DEF SessionGoesOn, SessionOf
    <3> QED BY <3>1, <3>2, <3>3 DEF GoesOn
  <2> QED BY <2>3, <2>4
<1>6. CASE UNCHANGED wire
  BY <1>2, <1>5, <1>6, ThreadStep
<1>7. CASE PumpSendRst(e, s)
  <2>1. CanSend(e) /\ Put(e, F("RST", s)) /\ F("RST", s) \in Frames /\ F("RST", s).type = "RST"
    BY <1>7, FrameTypes DEF PumpSendRst, F
  <2> QED BY <1>2, <1>5, <2>1, SendStep
<1>8. PumpSendRst(e, s) \/ UNCHANGED wire
  BY DEF PumpMark, PumpSendFails, WriterClose, MonitorCloses
<1> QED BY <1>6, <1>7, <1>8
(* The writer gives up, or its carrier has stopped.                        *)
LEMMA WriterGivesUp ==
  ASSUME TypeOK, TypeOK', setting' = setting, NEW t \in Streams, StreamInv(t),
         NEW e \in Ends, NEW s \in Streams,
         WriterStops(e, s) \/ WriterFails(e, s) \/ WriterSendRst(e, s)
  PROVE  StreamInv(t)'
<1>1. UNCHANGED <<sent, fin, delivered, ended, pump, cut, reader, handling>>
  BY DEF WriterStops, WriterFails, WriterSendRst, appVars, carrierVars
<1>2. /\ \E v \in {"done", "rst"} : writer' = [writer EXCEPT ![e][s] = v]
      /\ UNCHANGED hand \/ \E v : hand' = [hand EXCEPT ![e][s] = v]
      /\ UNCHANGED sess \/ \E v : sess' = [sess EXCEPT ![e][s] = v]
      /\ UNCHANGED listed \/ \E v : listed' = [listed EXCEPT ![e][s] = v]
      /\ UNCHANGED remote_queue \/ \E v : remote_queue' = [remote_queue EXCEPT ![e][s] = v]
  <2>1. CASE WriterStops(e, s)
    BY <2>1 DEF WriterStops, sessionVars
  <2>2. CASE WriterFails(e, s)
    BY <2>2 DEF WriterFails
  <2>3. CASE WriterSendRst(e, s)
    BY <2>3 DEF WriterSendRst
  <2> QED BY <2>1, <2>2, <2>3
<1>3. ASSUME NEW x \in Ends, ~(x = e /\ t = s) PROVE GoesOn(x, t)
  <2>1. writer'[x][t] = writer[x][t]
    <3>1. PICK v : writer' = [writer EXCEPT ![e][s] = v]
      BY <1>2
    <3> QED BY <1>3, <3>1, ChangedAt, TypesOfAll
  <2>2. hand'[x][t] = hand[x][t]
    <3>1. CASE UNCHANGED hand
      BY <3>1
    <3>2. CASE \E v : hand' = [hand EXCEPT ![e][s] = v]
      BY <1>3, <3>2, ChangedAt, TypesOfAll
    <3> QED BY <1>2, <3>1, <3>2
  <2>3. sess'[x][t] = sess[x][t]
    <3>1. CASE UNCHANGED sess
      BY <3>1
    <3>2. CASE \E v : sess' = [sess EXCEPT ![e][s] = v]
      BY <1>3, <3>2, ChangedAt, TypesOfAll
    <3> QED BY <1>2, <3>1, <3>2
  <2>4. listed'[x][t] = listed[x][t]
    <3>1. CASE UNCHANGED listed
      BY <3>1
    <3>2. CASE \E v : listed' = [listed EXCEPT ![e][s] = v]
      BY <1>3, <3>2, ChangedAt, TypesOfAll
    <3> QED BY <1>2, <3>1, <3>2
  <2>5. remote_queue'[x][t] = remote_queue[x][t]
    <3>1. CASE UNCHANGED remote_queue
      BY <3>1
    <3>2. CASE \E v : remote_queue' = [remote_queue EXCEPT ![e][s] = v]
      BY <1>3, <3>2, ChangedAt, TypesOfAll
    <3> QED BY <1>2, <3>1, <3>2
  <2> QED BY <1>1, <2>1, <2>2, <2>3, <2>4, <2>5, SameGoesOn DEF Same, StreamInv
<1>4. ASSUME t = s PROVE GoesOn(e, t)
  <2>0. SessionOf(e, s)
    BY <1>4 DEF StreamInv
  <2>1. CASE WriterStops(e, s)
    <3>1. writer[e][s] = "get" /\ writer' = [writer EXCEPT ![e][s] = "done"]
      BY <2>1 DEF WriterStops
    <3>2. writer'[e][s] = "done"
      BY <3>1, ChangedAt, TypesOfAll
    <3>3. UNCHANGED <<sess, listed, remote_queue, hand>>
      BY <2>1 DEF WriterStops, sessionVars
    <3>4. SenderGoesOn(e, s) /\ ReceiverRests(e, s)
      BY <1>1, <3>1, <3>2, <3>3 DEF SenderGoesOn, ReceiverRests
    <3>5. SessionGoesOn(e, s)
      BY <1>1, <2>0, <3>1, <3>2, <3>3 DEF SessionGoesOn, SessionOf
    <3> QED BY <1>4, <3>4, <3>5 DEF GoesOn
  <2>2. CASE WriterFails(e, s)
    <3>1. writer[e][s] = "write" /\ sess' = [sess EXCEPT ![e][s] = "closed"]
      BY <2>2 DEF WriterFails
    <3>2. sess'[e][s] = "closed"
      BY <3>1, ChangedAt, TypesOfAll
    <3>3. sess[e][s] # "none" /\ ~ended[e][s]
      BY <2>0, <3>1 DEF SessionOf
    <3>4. /\ writer'[e][s] \in {"rst", "done"}
          /\ listed'[e][s] => writer'[e][s] = "rst"
      <4>1. CASE sess[e][s] = "open" /\ running[e]
        <5>1. writer' = [writer EXCEPT ![e][s] = "rst"]
          BY <2>2, <4>1 DEF WriterFails
        <5> QED BY <5>1, ChangedAt, TypesOfAll
      <4>2. CASE ~(sess[e][s] = "open" /\ running[e])
        <5>1. /\ writer' = [writer EXCEPT ![e][s] = "done"]
              /\ listed' = [listed EXCEPT ![e][s] = listed[e][s] /\ sess[e][s] = "closed"]
          BY <2>2, <4>2 DEF WriterFails
        <5>2. writer'[e][s] = "done"
          BY <5>1, ChangedAt, TypesOfAll
        <5>3. listed'[e][s] = (listed[e][s] /\ sess[e][s] = "closed")
          BY <5>1 DEF TypeOK
        <5>4. ~(listed[e][s] /\ sess[e][s] = "closed")
          BY <2>0, <3>1 DEF SessionOf
        <5> QED BY <5>2, <5>3, <5>4
      <4> QED BY <4>1, <4>2
    <3>5. SenderGoesOn(e, s) /\ ReceiverRests(e, s)
      BY <1>1, <3>2, <3>3 DEF SenderGoesOn, ReceiverRests
    <3>6. SessionGoesOn(e, s)
      BY <1>1, <3>2, <3>3, <3>4, <2>0 DEF SessionGoesOn, SessionOf
    <3> QED BY <1>4, <3>5, <3>6 DEF GoesOn
  <2>3. CASE WriterSendRst(e, s)
    <3>1. /\ writer[e][s] = "rst" /\ writer' = [writer EXCEPT ![e][s] = "done"]
          /\ listed' = [listed EXCEPT ![e][s] = FALSE] /\ UNCHANGED <<sess, remote_queue, hand>>
      BY <2>3 DEF WriterSendRst
    <3>2. writer'[e][s] = "done" /\ ~listed'[e][s]
      BY <3>1, ChangedAt, TypesOfAll
    <3>3. sess[e][s] = "closed"
      BY <2>0, <3>1 DEF SessionOf
    <3>4. SenderGoesOn(e, s) /\ ReceiverRests(e, s)
      BY <1>1, <3>1, <3>3 DEF SenderGoesOn, ReceiverRests
    <3>5. SessionGoesOn(e, s)
      BY <1>1, <3>1, <3>2, <3>3, <2>0 DEF SessionGoesOn, SessionOf
    <3> QED BY <1>4, <3>4, <3>5 DEF GoesOn
  <2> QED BY <2>1, <2>2, <2>3
<1>5. \A x \in Ends : GoesOn(x, t)
  BY <1>3, <1>4
<1>6. CASE UNCHANGED wire
  BY <1>1, <1>5, <1>6, ThreadStep
<1>7. CASE CanSend(e) /\ Put(e, F("RST", s))
  <2>1. F("RST", s) \in Frames /\ F("RST", s).type = "RST"
    BY FrameTypes DEF F
  <2> QED BY <1>1, <1>5, <1>7, <2>1, SendStep
<1>8. UNCHANGED wire \/ (CanSend(e) /\ Put(e, F("RST", s)))
  BY DEF WriterStops, WriterFails, WriterSendRst
<1> QED BY <1>6, <1>7, <1>8

(* The carrier's own threads, and the applications'.                       *)
LEMMA CarrierStep ==
  ASSUME TypeOK, TypeOK', setting' = setting, NEW t \in Streams, StreamInv(t), NEW e \in Ends,
         \/ SendPing(e) \/ HeartbeatFails(e) \/ ClearStreams(e)
         \/ \E s \in Streams : Break(e, s)
  PROVE  StreamInv(t)'
<1>1. UNCHANGED <<sent, fin, delivered, ended, pump, writer, hand, cut, reader, handling>>
  BY DEF SendPing, HeartbeatFails, ClearStreams, Break, appVars, threadVars, carrierVars
<1>2. ASSUME NEW x \in Ends PROVE GoesOn(x, t)
  <2>0. SessionOf(x, t)
    BY DEF StreamInv
  <2>1. CASE ClearStreams(e)
    <3>1. IF x = e /\ listed[x][t]
          THEN sess'[x][t] = "closed" /\ ~listed'[x][t]
          ELSE /\ sess'[x][t] = sess[x][t] /\ listed'[x][t] = listed[x][t]
               /\ remote_queue'[x][t] = remote_queue[x][t]
      BY <2>1, ClearEffect
    <3>2. CASE x = e /\ listed[x][t]
      <4>1. sess[x][t] # "none"
        BY <2>0, <3>2 DEF SessionOf
      <4>2. SenderGoesOn(x, t) /\ ReceiverRests(x, t)
        BY <1>1, <3>1, <3>2, <4>1 DEF SenderGoesOn, ReceiverRests
      <4>3. SessionGoesOn(x, t)
        BY <1>1, <2>0, <3>1, <3>2, <4>1 DEF SessionGoesOn, SessionOf
      <4> QED BY <4>2, <4>3 DEF GoesOn
    <3>3. CASE ~(x = e /\ listed[x][t])
      BY <1>1, <2>0, <3>1, <3>3, SameGoesOn DEF Same
    <3> QED BY <3>2, <3>3
  <2>2. CASE UNCHANGED <<sess, listed, remote_queue>>
    BY <1>1, <2>0, <2>2, SameGoesOn DEF Same
  <2> QED BY <2>1, <2>2 DEF SendPing, HeartbeatFails, Break, sessionVars
<1>3. CASE UNCHANGED wire
  BY <1>1, <1>2, <1>3, ThreadStep
<1>4. CASE SendPing(e)
  <2>1. CanSend(e) /\ Put(e, F("PING", 0)) /\ F("PING", 0) \in Frames /\ F("PING", 0).type = "PING"
    BY <1>4, FrameTypes DEF SendPing, F
  <2> QED BY <1>1, <1>2, <2>1, SendStep
<1> QED BY <1>3, <1>4 DEF HeartbeatFails, ClearStreams, Break

(* The connection is cut.                                                  *)
LEMMA CutStep ==
  ASSUME TypeOK, TypeOK', setting' = setting, NEW t \in Streams, StreamInv(t), Cut
  PROVE  StreamInv(t)'
<1>1. /\ UNCHANGED <<sent, fin, delivered, ended, pump, writer, hand, reader, handling, sess, listed, remote_queue>>
      /\ cut' /\ wire' = [e \in Ends |-> <<>>]
  BY DEF Cut, appVars, sessionVars, threadVars, carrierVars
<1>2. ASSUME NEW x \in Ends PROVE GoesOn(x, t)
  BY <1>1, SameGoesOn DEF Same, StreamInv
<1>3. ASSUME NEW x \in Ends PROVE WireGoesOn(x, t) /\ ReaderGoesOn(x, t) /\ (Refusing(x, t)' => Refusing(x, t))
  <2>1. wire'[x] = <<>>
    BY <1>1
  <2>2. WireGoesOn(x, t)
    BY <2>1 DEF WireGoesOn, Ordered, Holds, HoldsChunk
  <2> QED BY <1>1, <2>2 DEF ReaderGoesOn, Refusing
<1>4. Dialling(t)' => Dialling(t)
  BY <1>1 DEF Dialling
<1>5. \A x \in Ends : ~Intact(x, t)'
  BY <1>1 DEF Intact
<1> QED BY <1>2, <1>3, <1>4, <1>5, StreamKept
-----------------------------------------------------------------------------
(* Steps of a reader that neither hand a frame to the stream nor open it.  *)
LEMMA CloseGoesOn ==
  ASSUME TypeOK, NEW t \in Streams, NEW e \in Ends, NEW S, Close(e, S),
         UNCHANGED <<appVars, threadVars>>, NEW x \in Ends, SessionOf(x, t)
  PROVE  GoesOn(x, t)
<1>1. IF x = e /\ t \in S /\ sess[x][t] = "open"
      THEN sess'[x][t] = "closed" /\ ~listed'[x][t]
      ELSE /\ sess'[x][t] = sess[x][t] /\ listed'[x][t] = listed[x][t]
           /\ remote_queue'[x][t] = remote_queue[x][t]
  BY CloseEffect
<1>2. UNCHANGED <<sent, fin, delivered, ended, writer, hand, pump>>
  BY DEF appVars, threadVars
<1>3. CASE x = e /\ t \in S /\ sess[x][t] = "open"
  BY <1>1, <1>2, <1>3, ClosedGoesOn
<1>4. CASE ~(x = e /\ t \in S /\ sess[x][t] = "open")
  BY <1>1, <1>2, <1>4, SameGoesOn DEF Same
<1> QED BY <1>3, <1>4

(* The reader of e goes from one place to another, and handles f there.    *)
Turns(e, r, f) ==
  /\ reader' = [reader EXCEPT ![e] = r] /\ handling' = [handling EXCEPT ![e] = f]
  /\ reader[e] # "done"

LEMMA TurnsTo ==
  ASSUME TypeOK, NEW t, NEW e \in Ends, NEW r \in {"recv", "reply", "done"}, NEW f, Turns(e, r, f),
         f.type = "RST" /\ f.stream = t /\ r = "reply" => ~Opening(t)',
         Refusing(e, t) => sess'[e][t] # "open", cut' = cut
  PROVE  /\ Dialling(t)' => Dialling(t)
         /\ \A x \in Ends : /\ ReaderGoesOn(x, t)
                            /\ Refusing(x, t)' => Refusing(x, t) \/ ~Opening(t)'
<1>1. /\ reader'[e] = r /\ handling'[e] = f
      /\ \A x \in Ends : x # e => reader'[x] = reader[x] /\ handling'[x] = handling[x]
  BY DEF Turns, TypeOK
<1>2. Dialling(t)' => Dialling(t)
  <2>1. "external" \in Ends
    BY DEF Ends
  <2> QED BY <1>1, <2>1 DEF Dialling
<1>3. ASSUME NEW x \in Ends
      PROVE  ReaderGoesOn(x, t) /\ (Refusing(x, t)' => Refusing(x, t) \/ ~Opening(t)')
  <2>1. CASE x = e
    <3>1. ReaderGoesOn(x, t)
      BY <2>1 DEF ReaderGoesOn, Turns
    <3>2. Refusing(x, t)' => ~Opening(t)'
      BY <1>1, <2>1 DEF Refusing
    <3> QED BY <3>1, <3>2
  <2>2. CASE x # e
    <3>1. reader'[x] = reader[x] /\ handling'[x] = handling[x]
      BY <1>1, <2>2
    <3> QED BY <3>1 DEF ReaderGoesOn, Refusing
  <2> QED BY <2>1, <2>2
<1> QED BY <1>2, <1>3

LEMMA ReaderOtherStep ==
  ASSUME TypeOK, TypeOK', setting' = setting, NEW t \in Streams, StreamInv(t), NEW e \in Ends,
         ReadPing(e) \/ ReadPong(e) \/ ReadRst(e) \/ ReaderEnds(e)
  PROVE  StreamInv(t)'
<1>1. cut' = cut /\ UNCHANGED <<appVars, threadVars>>
  BY DEF ReadPing, ReadPong, ReadRst, ReaderEnds
<1>2. ASSUME NEW x \in Ends PROVE GoesOn(x, t)
  <2>1. CASE ReadRst(e)
    BY <1>1, <2>1, CloseGoesOn DEF ReadRst, StreamInv
  <2>2. CASE UNCHANGED sessionVars
    BY <1>1, <2>2, SameGoesOn DEF Same, StreamInv, sessionVars, appVars, threadVars
  <2> QED BY <2>1, <2>2 DEF ReadPing, ReadPong, ReaderEnds
<1>3. ASSUME NEW x \in Ends PROVE WireGoesOn(x, t) /\ ChunksStay(x, t)
  <2>1. CASE \E k \in {"PING", "PONG", "RST"} : Receive(e, k)
    BY <1>1, <2>1, ReceiveLeaves DEF StreamInv
  <2>2. CASE UNCHANGED wire
    BY <1>1, <2>2, WireRests DEF StreamInv
  <2> QED BY <2>1, <2>2 DEF ReadPing, ReadPong, ReadRst, ReaderEnds
<1>4. /\ Dialling(t)' => Dialling(t)
      /\ \A x \in Ends : /\ ReaderGoesOn(x, t)
                         /\ Refusing(x, t)' => Refusing(x, t) \/ ~Opening(t)'
  <2>1. CASE ReadPing(e)
    <3>1. Turns(e, "reply", F("PONG", 0)) /\ F("PONG", 0).type = "PONG" /\ ~Refusing(e, t)
      BY <2>1 DEF ReadPing, Answer, Turns, F, Refusing, Receive
    <3> QED BY <1>1, <3>1, TurnsTo
  <2>2. CASE ReaderEnds(e)
    <3>1. reader' = [reader EXCEPT ![e] = "done"] /\ handling' = handling
      BY <2>2 DEF ReaderEnds
    <3>2. /\ reader'[e] = "done" /\ \A x \in Ends : x # e => reader'[x] = reader[x]
      BY <3>1 DEF TypeOK
    <3>3. "external" \in Ends
      BY DEF Ends
    <3> QED BY <1>1, <3>1, <3>2, <3>3 DEF Dialling, ReaderGoesOn, Refusing
  <2>3. CASE UNCHANGED <<reader, handling>>
    BY <1>1, <2>3, ReaderRests
  <2> QED BY <2>1, <2>2, <2>3 DEF ReadPong, ReadRst, carrierVars
<1>5. \A x \in Ends : Peer(x) \in Ends
  BY PeerEnd
<1> QED BY <1>2, <1>3, <1>4, <1>5, StreamKept
(* The reader's answer goes out; the stream it refused, if any, is closed. *)
LEMMA SendReplyStep ==
  ASSUME TypeOK, TypeOK', setting' = setting, NEW t \in Streams, StreamInv(t), NEW e \in Ends,
         SendReply(e)
  PROVE  StreamInv(t)'
<1>1. PICK f : f = handling[e]
  OBVIOUS
<1>2. /\ reader[e] = "reply" /\ CanSend(e) /\ Put(e, f) /\ cut' = cut
      /\ UNCHANGED <<appVars, threadVars>>
      /\ Close(e, {x \in {f.stream} \cap Streams : listed[e][x]})
      /\ Turns(e, "recv", NoFrame)
  BY <1>1 DEF SendReply, Turns
<1>3. f \in Frames /\ f.type \in {"PONG", "RST"}
  BY <1>1, <1>2 DEF TypeOK
<1>4. ASSUME NEW x \in Ends PROVE WireGoesOn(x, t) /\ ChunksStay(x, t)
  <2>1. SenderOf(x, t)
    BY DEF StreamInv
  <2> QED BY <1>2, <1>3, <2>1, PutOther
<1>5. ASSUME NEW x \in Ends PROVE GoesOn(x, t)
  BY <1>2, CloseGoesOn DEF StreamInv
<1>6. ASSUME Refusing(e, t) PROVE sess'[e][t] # "open"
  <2>1. f.stream = t
    BY <1>1, <1>6 DEF Refusing
  <2>2. sess[e][t] = "open" => listed[e][t]
    BY DEF StreamInv, SessionOf
  <2>3. sess[e][t] = "open" => t \in {x \in {f.stream} \cap Streams : listed[e][x]}
    BY <2>1, <2>2
  <2> QED BY <1>2, <2>3, CloseEffect
<1>7. /\ Dialling(t)' => Dialling(t)
      /\ \A x \in Ends : /\ ReaderGoesOn(x, t)
                         /\ Refusing(x, t)' => Refusing(x, t) \/ ~Opening(t)'
  BY <1>2, <1>6, TurnsTo
<1>8. \A x \in Ends : Peer(x) \in Ends
  BY PeerEnd
<1> QED BY <1>4, <1>5, <1>7, <1>8, StreamKept

(* The service refuses the stream that is dialled.                         *)
LEMMA DialFailsStep ==
  ASSUME TypeOK, TypeOK', setting' = setting, NEW t \in Streams, StreamInv(t), NEW e \in Ends,
         DialFails(e), e = "external"
  PROVE  StreamInv(t)'
<1>1. PICK s : s = handling[e].stream
  OBVIOUS
<1>2. /\ reader[e] = "dial" /\ UNCHANGED <<appVars, sessionVars, threadVars, wire, cut>>
      /\ Turns(e, "reply", F("RST", s)) /\ F("RST", s).stream = s
  BY <1>1 DEF DialFails, Answer, Turns, F
<1>3. \A x \in Ends : GoesOn(x, t)
  BY <1>2, SameGoesOn DEF Same, StreamInv, sessionVars, appVars, threadVars
<1>4. \A x \in Ends : WireGoesOn(x, t) /\ ChunksStay(x, t)
  BY <1>2, WireRests DEF StreamInv
<1>5. ASSUME s = t PROVE ~Opening(t)'
  <2>1. Dialling(t)
    BY <1>1, <1>2, <1>5 DEF Dialling
  <2>2. ~Before(t) /\ ~Holds(wire["internal"], t, "OPEN")
    BY <2>1 DEF StreamInv, OpenOf
  <2>3. ~Before(t)' /\ ~Holds(wire["internal"], t, "OPEN")'
    BY <1>2, <2>2 DEF Before, threadVars
  <2>4. reader'["external"] = "reply"
    BY <1>2 DEF Turns, TypeOK
  <2> QED BY <2>3, <2>4 DEF Opening, Dialling
<1>6. ~Refusing(e, t)
  BY <1>2 DEF Refusing
<1>7. /\ Dialling(t)' => Dialling(t)
      /\ \A x \in Ends : /\ ReaderGoesOn(x, t)
                         /\ Refusing(x, t)' => Refusing(x, t) \/ ~Opening(t)'
  BY <1>2, <1>5, <1>6, TurnsTo
<1>8. \A x \in Ends : Peer(x) \in Ends
  BY PeerEnd
<1> QED BY <1>3, <1>4, <1>7, <1>8, StreamKept

(* The OPEN frame is read: the service is dialled.                         *)
LEMMA ReadOpenStep ==
  ASSUME TypeOK, TypeOK', setting' = setting, NEW t \in Streams, StreamInv(t), NEW e \in Ends,
         ReadOpen(e), e = "external"
  PROVE  StreamInv(t)'
<1>1. PICK f : f = Incoming(e)
  OBVIOUS
<1>2. /\ Receive(e, "OPEN") /\ cut' = cut /\ reader[e] = "recv"
      /\ reader' = [reader EXCEPT ![e] = "dial"] /\ handling' = [handling EXCEPT ![e] = f]
      /\ UNCHANGED <<appVars, sessionVars, threadVars>>
  BY <1>1 DEF ReadOpen, Receive
<1>3. \A x \in Ends : WireGoesOn(x, t) /\ ChunksStay(x, t)
  BY <1>2, ReceiveLeaves DEF StreamInv
<1>4. \A x \in Ends : GoesOn(x, t)
  BY <1>2, SameGoesOn DEF Same, StreamInv, sessionVars, appVars, threadVars
<1>5. /\ reader'[e] = "dial" /\ handling'[e] = f
      /\ \A x \in Ends : x # e => reader'[x] = reader[x] /\ handling'[x] = handling[x]
  BY <1>2 DEF TypeOK
<1>6. \A x \in Ends : Refusing(x, t)' <=> Refusing(x, t)
  BY <1>2, <1>5 DEF Refusing
<1>7. \A x \in Ends : ReaderGoesOn(x, t)
  BY <1>2, <1>5, <1>6 DEF ReaderGoesOn
<1>8. \A x \in Ends : Peer(x) \in Ends
  BY PeerEnd
<1>9. ~Dialling(t) /\ (Dialling(t)' <=> f.stream = t)
  BY <1>2, <1>5 DEF Dialling
<1>10. CASE f.stream # t
  BY <1>3, <1>4, <1>6, <1>7, <1>8, <1>9, <1>10, StreamKept
<1>11. CASE f.stream = t
  <2>1. /\ wire["internal"] \in Seq(Frames) /\ wire["internal"] # <<>>
        /\ wire'["internal"] = Tail(wire["internal"]) /\ f = Head(wire["internal"]) /\ f.type = "OPEN"
    BY <1>1, <1>2, ReceiveType DEF Peer
  <2>2. "internal" \in Ends /\ "external" \in Ends
    BY DEF Ends
  <2>3. Holds(wire["internal"], t, "OPEN")
    BY <1>11, <2>1, WireTail
  <2>4. ~Holds(wire'["internal"], t, "OPEN")
    <3>1. Ordered(wire["internal"], t)
      BY <2>2 DEF StreamInv, SenderOf
    <3> QED BY <1>11, <2>1, <3>1, OrderedTail
  <2>5. Opening(t) /\ ~Before(t) /\ sess["external"][t] = "none" /\ \A p \in Ends : ~Refusing(p, t)
    BY <2>3 DEF Opening, StreamInv, OpenOf
  <2>6. /\ pump' = pump /\ sess' = sess /\ ~Before(t)'
    BY <1>2, <2>5 DEF Before, threadVars, sessionVars
  <2>7. OpenOf(t)'
    <3>1. ~Holds(wire'["external"], t, "OPEN")
      BY <1>3, <2>2 DEF StreamInv, OpenOf, WireGoesOn
    <3>2. pump'["internal"][t] # "failed"
      BY <2>3, <2>6 DEF StreamInv, OpenOf
    <3>3. sess'["external"][t] = "none" /\ \A p \in Ends : ~Refusing(p, t)'
      BY <1>6, <2>5, <2>6
    <3> QED BY <2>4, <2>6, <3>1, <3>2, <3>3 DEF OpenOf
  <2>8. ASSUME NEW x \in Ends
        PROVE  SessionOf(x, t)' /\ SenderOf(x, t)' /\ QueueOf(x, t)' /\ ReceiverOf(x, t)'
    <3>1. SessionOf(x, t)' /\ SenderOf(x, t)'
      BY <1>3, <1>4, SessionKept, SenderKept DEF StreamInv, GoesOn
    <3>2. QueueOf(x, t)'
      BY <1>3, <1>4, <1>8, QueueKept DEF StreamInv, GoesOn
    <3>3. Intact(x, t)' => Intact(x, t)
      BY <1>4, <1>7, <2>5, IntactKept DEF StreamInv, GoesOn
    <3>4. Intact(x, t)' => Queued(x, t)' = Queued(x, t)
      BY <1>4, RestCounts DEF Intact, GoesOn
    <3>5. ReceiverOf(x, t)'
      BY <1>3, <1>4, <1>8, <3>3, <3>4, ReceiverKept DEF StreamInv, GoesOn
    <3> QED BY <3>1, <3>2, <3>5
  <2> QED BY <2>7, <2>8 DEF StreamInv
<1> QED BY <1>10, <1>11

LEMMA RegisterEffect ==
  ASSUME TypeOK, NEW e \in Ends, NEW s \in Streams, NEW p, Register(e, s, p)
  PROVE  /\ sess'[e][s] = "open" /\ listed'[e][s] /\ writer'[e][s] = "get" /\ pump'[e][s] = p
         /\ \A x \in Ends, t \in Streams : ~(x = e /\ t = s) =>
              /\ sess'[x][t] = sess[x][t] /\ listed'[x][t] = listed[x][t]
              /\ writer'[x][t] = writer[x][t] /\ pump'[x][t] = pump[x][t]
<1>1. /\ sess'[e][s] = "open"
      /\ \A x \in Ends, t \in Streams : ~(x = e /\ t = s) => sess'[x][t] = sess[x][t]
  BY TypesOfAll, ChangedAt DEF Register
<1>2. /\ listed'[e][s] = TRUE
      /\ \A x \in Ends, t \in Streams : ~(x = e /\ t = s) => listed'[x][t] = listed[x][t]
  BY TypesOfAll, ChangedAt DEF Register
<1>3. /\ writer'[e][s] = "get"
      /\ \A x \in Ends, t \in Streams : ~(x = e /\ t = s) => writer'[x][t] = writer[x][t]
  BY TypesOfAll, ChangedAt DEF Register
<1>4. /\ pump'[e][s] = p
      /\ \A x \in Ends, t \in Streams : ~(x = e /\ t = s) => pump'[x][t] = pump[x][t]
  BY TypesOfAll, ChangedAt DEF Register
<1> QED BY <1>1, <1>2, <1>3, <1>4

(* The service is dialled: the session opens and its pump starts.          *)
LEMMA DialledStep ==
  ASSUME TypeOK, TypeOK', setting' = setting, NEW t \in Streams, StreamInv(t), NEW e \in Ends,
         Dialled(e), e = "external"
  PROVE  StreamInv(t)'
<1>1. PICK s : s = handling[e].stream
  OBVIOUS
<1>2. /\ reader[e] = "dial" /\ Register(e, s, "recv") /\ Turns(e, "recv", NoFrame)
      /\ UNCHANGED <<appVars, remote_queue, hand, wire, cut>>
  BY <1>1 DEF Dialled, Turns
<1>3. s \in Streams
  <2>1. handling[e] \in Frames /\ handling[e].type = "OPEN"
    BY <1>2 DEF TypeOK
  <2> QED BY <1>1, <2>1, FrameStream
<1>4. UNCHANGED <<sent, fin, delivered, ended>>
  BY <1>2 DEF appVars
<1>5. \A x \in Ends : ~(x = e /\ t = s) =>
        /\ sess'[x][t] = sess[x][t] /\ listed'[x][t] = listed[x][t]
        /\ writer'[x][t] = writer[x][t] /\ pump'[x][t] = pump[x][t]
  BY <1>2, <1>3, RegisterEffect
<1>6. \A x \in Ends : ~(x = e /\ t = s) => GoesOn(x, t)
  BY <1>2, <1>4, <1>5, SameGoesOn DEF Same, StreamInv
<1>7. ~Refusing(e, t)
  BY <1>2 DEF Refusing
<1>8. /\ Dialling(t)' => Dialling(t)
      /\ \A x \in Ends : /\ ReaderGoesOn(x, t)
                         /\ Refusing(x, t)' => Refusing(x, t) \/ ~Opening(t)'
  BY <1>2, <1>7, TurnsTo
<1>9. \A x \in Ends : Peer(x) \in Ends /\ WireGoesOn(x, t) /\ ChunksStay(x, t)
  BY <1>2, WireRests, PeerEnd DEF StreamInv
<1>10. CASE t # s
  BY <1>6, <1>8, <1>9, <1>10, StreamKept
<1>11. CASE t = s
  <2>1. Dialling(t)
    BY <1>1, <1>2, <1>11 DEF Dialling
  <2>2. /\ Opening(t) /\ ~Before(t) /\ ~Holds(wire["internal"], t, "OPEN")
        /\ sess["external"][t] = "none" /\ ~Holds(wire["external"], t, "OPEN")
        /\ \A p \in Ends : ~Refusing(p, t)
    BY <2>1 DEF Opening, StreamInv, OpenOf
  <2>3. /\ writer[e][t] = "none" /\ remote_queue[e][t] = <<>> /\ delivered[e][t] = <<>>
        /\ pump[e][t] \in {"none", "chosen"} /\ ~ended[e][t] /\ ~fin[e][t] /\ sent[e][t] = 0
    BY <2>2 DEF StreamInv, SessionOf
  <2>4. sess'[e][t] = "open" /\ listed'[e][t] /\ writer'[e][t] = "get" /\ pump'[e][t] = "recv"
    BY <1>2, <1>3, <1>11, RegisterEffect
  <2>5. SessionOf(e, t)'
    BY <1>2, <1>4, <2>3, <2>4 DEF SessionOf
  <2>6. ~Holds(wire[e], t, "DATA") /\ ~Holds(wire[e], t, "FIN") /\ \A n : ~HoldsChunk(wire[e], t, n)
    <3>1. ~Holds(wire[e], t, "DATA") /\ ~Holds(wire[e], t, "FIN")
      BY <2>3 DEF StreamInv, SenderOf
    <3> QED BY <3>1 DEF Holds, HoldsChunk
  <2>7. SenderOf(e, t)'
    BY <1>2, <2>4, <2>6 DEF SenderOf, StreamInv
  <2>8. PICK i \in Ends : i = "internal"
    BY DEF Ends
  <2>9. Peer(e) = i /\ Peer(i) = e /\ i # e /\ GoesOn(i, t)
    BY <1>6, <2>8 DEF Peer
  <2>10. SessionOf(i, t)' /\ SenderOf(i, t)'
    BY <1>9, <2>9, SessionKept, SenderKept DEF StreamInv, GoesOn
  <2>11. ~Opening(t)'
    <3>1. ~Before(t)' /\ ~Holds(wire["internal"], t, "OPEN")'
      BY <1>2, <1>5, <2>2, <2>8, <2>9 DEF Before
    <3>2. reader'["external"] = "recv"
      BY <1>2 DEF Turns, TypeOK
    <3> QED BY <3>1, <3>2 DEF Opening, Dialling
  <2>12. OpenOf(t)'
    <3>1. ~Holds(wire["internal"], t, "OPEN")' /\ ~Before(t)' /\ ~Dialling(t)'
      BY <2>11 DEF Opening
    <3> QED BY <1>2, <2>2, <2>11, <3>1 DEF OpenOf
  <2>13. Queued(e, t) = 0 /\ Taken(e, t) = 0 /\ Queued(e, t)' = 0 /\ Taken(e, t)' = 0
    BY <1>2, <1>4, <2>3, <2>4 DEF Queued, Taken
  <2>14. Passed(i, t)' \in Nat
    BY <2>9, PassedGrows DEF StreamInv, GoesOn
  <2>15. QueueOf(e, t)'
    BY <1>2, <2>3, <2>4, <2>9, <2>13, <2>14 DEF QueueOf
  <2>16. Passed(e, t)' = 0
    BY <1>4, <2>3, <2>4 DEF Passed
  <2>17. QueueOf(i, t)'
    <3>1. SUFFICES ASSUME sess'[i][t] # "closed" PROVE QueueOf(i, t)'
      BY DEF QueueOf
    <3>2. /\ Taken(i, t)' = Taken(i, t) /\ remote_queue'[i][t] = remote_queue[i][t]
          /\ sess[i][t] # "closed" /\ Queued(i, t)' = Queued(i, t)
      BY <1>2, <1>5, <2>9, <3>1, RestCounts DEF GoesOn
    <3>3. Passed(e, t) = 0
      BY <2>3 DEF Passed
    <3>4. pump[e][t] \notin {"mark", "done"}
      BY <2>3
    <3>5. ~EndMark(i, t)
      BY <2>9, <3>4 DEF EndMark
    <3>6. writer'[i][t] = "write" => hand'[i][t] = Len(delivered'[i][t]) + 1
      BY <1>2, <1>4, <1>5, <2>9, <3>2 DEF QueueOf, StreamInv
    <3>7. /\ Taken(i, t) <= 0
          /\ \A k \in 1 .. Len(remote_queue[i][t]) :
               remote_queue[i][t][k] = Taken(i, t) + k /\ remote_queue[i][t][k] <= 0
      BY <2>9, <3>2, <3>3, <3>5 DEF QueueOf, StreamInv
    <3> QED BY <2>9, <2>16, <3>2, <3>6, <3>7 DEF QueueOf
  <2>18. ReceiverOf(i, t)'
    <3>1. Queued(i, t)' \in Nat
      <4>1. Taken(i, t)' \in Nat /\ Queued(i, t)' \in Nat
        BY <1>2, <1>4, <1>5, <2>9, QueueCounts DEF Taken, Queued
      <4> QED BY <4>1
    <3>2. OnWire(wire'[e], t, Queued(i, t)', 0)
      BY <3>1 DEF OnWire
    <3>3. ~Holds(wire'[e], t, "FIN") /\ \A n : ~HoldsChunk(wire'[e], t, n)
      BY <1>2, <2>6
    <3> QED BY <2>9, <2>16, <3>2, <3>3 DEF ReceiverOf
  <2>19. ReceiverOf(e, t)'
    <3>1. SUFFICES ASSUME Intact(e, t)' PROVE ReceiverOf(e, t)'
      BY DEF ReceiverOf
    <3>2. Intact(e, t)
      <4>1. ~cut
        BY <1>2, <3>1 DEF Intact
      <4> QED BY <1>2, <2>2, <4>1 DEF Intact
    <3>3. ReceiverOf(e, t)
      BY DEF StreamInv
    <3> QED BY <1>9, <2>9, <2>10, <2>13, <3>2, <3>3, ReceiverKept DEF StreamInv, GoesOn
  <2> QED BY <2>5, <2>7, <2>8, <2>9, <2>10, <2>12, <2>15, <2>17, <2>18, <2>19 DEF StreamInv, Ends
<1> QED BY <1>10, <1>11
-----------------------------------------------------------------------------
(* Steps of the user's thread and of the pump that write to the wire.      *)

(* What the steps that append a frame of stream t itself leave.            *)
LEMMA FrameSent ==
  ASSUME TypeOK, NEW e \in Ends, NEW f \in Frames, NEW t, CanSend(e), Put(e, f), f.stream = t
  PROVE  /\ wire[e] \in Seq(Frames) /\ wire'[e] = Append(wire[e], f) /\ ~cut
         /\ \A x \in Ends : x # e => wire'[x] = wire[x]
         /\ \A k : Holds(wire'[e], t, k) <=> Holds(wire[e], t, k) \/ f.type = k
         /\ \A n : HoldsChunk(wire'[e], t, n) <=>
                     HoldsChunk(wire[e], t, n) \/ (f.type = "DATA" /\ f.chunk = n)
<1>1. PICK w \in Seq(Frames) : w = wire[e]
  BY DEF TypeOK
<1>2. wire'[e] = Append(w, f) /\ \A x \in Ends : x # e => wire'[x] = wire[x]
  BY <1>1 DEF Put, TypeOK
<1>3. \A k : Holds(Append(w, f), t, k) <=> Holds(w, t, k) \/ (f.type = k /\ f.stream = t)
  BY WireAppend
<1>4. \A n : HoldsChunk(Append(w, f), t, n) <=>
               HoldsChunk(w, t, n) \/ (f.type = "DATA" /\ f.stream = t /\ f.chunk = n)
  BY WireAppend
<1>5. \A k : Holds(wire'[e], t, k) <=> Holds(wire[e], t, k) \/ f.type = k
  BY <1>1, <1>2, <1>3, Zenon
<1>6. \A n : HoldsChunk(wire'[e], t, n) <=>
                     HoldsChunk(wire[e], t, n) \/ (f.type = "DATA" /\ f.chunk = n)
  BY <1>1, <1>2, <1>4, Zenon
<1>7. ~cut
  BY DEF CanSend
<1> QED BY <1>1, <1>2, <1>5, <1>6, <1>7

(* Steps of a sender: all of the stream that is not its own goes on.       *)
LEMMA SenderStep ==
  ASSUME TypeOK, TypeOK', NEW t \in Streams, StreamInv(t), NEW e \in Ends,
         UNCHANGED <<cut, reader, handling>>,
         \A x \in Ends : x # e => GoesOn(x, t) /\ wire'[x] = wire[x],
         ReceiverRests(e, t),
         SessionOf(e, t)', SenderOf(e, t)', OpenOf(t)', Opening(t)' => Opening(t),
         QueueOf(Peer(e), t)', ReceiverOf(Peer(e), t)'
  PROVE  StreamInv(t)'
<1>1. PICK p \in Ends : p = Peer(e) /\ p # e /\ Peer(p) = e
  BY PeerEnd
<1>2. \A x \in Ends : x = e \/ x = p
  BY <1>1 DEF Ends, Peer
<1>3. GoesOn(p, t) /\ WireGoesOn(p, t) /\ ChunksStay(p, t)
  BY <1>1, WireRests DEF StreamInv
<1>4. SessionOf(p, t)' /\ SenderOf(p, t)'
  BY <1>3, SessionKept, SenderKept DEF StreamInv, GoesOn
<1>5. QueueOf(e, t)'
  BY <1>1, <1>3, QueueKept DEF StreamInv, GoesOn
<1>6. Intact(e, t)' => Intact(e, t)
  BY ReaderRests, IntactKept DEF StreamInv
<1>7. Intact(e, t)' => Queued(e, t)' = Queued(e, t)
  BY RestCounts DEF Intact
<1>8. ReceiverOf(e, t)'
  BY <1>1, <1>3, <1>6, <1>7, ReceiverKept DEF StreamInv, GoesOn
<1> QED BY <1>1, <1>2, <1>4, <1>5, <1>8 DEF StreamInv

LEMMA QueuedBound ==
  ASSUME TypeOK, NEW p \in Ends, NEW t \in Streams, QueueOf(p, t), SessionOf(p, t), Intact(p, t)
  PROVE  /\ Queued(p, t) <= Passed(Peer(p), t)
         /\ \A k \in 1 .. Len(remote_queue[p][t]) :
              /\ remote_queue[p][t][k] = Taken(p, t) + k
              /\ remote_queue[p][t][k] <= Passed(Peer(p), t)
<1>1. /\ Taken(p, t) \in Nat /\ Len(remote_queue[p][t]) \in Nat
      /\ Queued(p, t) = Taken(p, t) + Len(remote_queue[p][t])
  BY QueueCounts
<1>2. \A k \in 1 .. Len(remote_queue[p][t]) : remote_queue[p][t][k] # EofItem
  BY DEF Intact, SessionOf
<1>3. sess[p][t] # "closed"
  BY DEF Intact
<1>4. \A k \in 1 .. Len(remote_queue[p][t]) :
        remote_queue[p][t][k] = Taken(p, t) + k /\ remote_queue[p][t][k] <= Passed(Peer(p), t)
  BY <1>2, <1>3 DEF QueueOf
<1>5. CASE Len(remote_queue[p][t]) = 0
  BY <1>1, <1>3, <1>5 DEF QueueOf
<1>6. CASE Len(remote_queue[p][t]) # 0
  BY <1>1, <1>4, <1>6
<1> QED BY <1>4, <1>5, <1>6

LEMMA StartLocalStep ==
  ASSUME TypeOK, TypeOK', setting' = setting, NEW t \in Streams, StreamInv(t),
         NEW s \in Streams, StartLocalStream(s)
  PROVE  StreamInv(t)'
<1>1. PICK e \in Ends : e = "internal"
  BY DEF Ends
<1>2. /\ pump[e][s] = "chosen" /\ Register(e, s, "open")
      /\ UNCHANGED <<sent, fin, delivered, ended, remote_queue, hand, wire, cut, reader, handling>>
  BY <1>1 DEF StartLocalStream, appVars, carrierVars
<1>3. \A x \in Ends : ~(x = e /\ t = s) => GoesOn(x, t)
  BY <1>2, RegisterEffect, SameGoesOn DEF Same, StreamInv
<1>4. CASE t # s
  BY <1>2, <1>3, <1>4, ThreadStep
<1>5. CASE t = s
  <2>1. sess'[e][t] = "open" /\ listed'[e][t] /\ writer'[e][t] = "get" /\ pump'[e][t] = "open"
    BY <1>2, <1>5, RegisterEffect
  <2>2. /\ sess[e][t] = "none" /\ writer[e][t] = "none" /\ remote_queue[e][t] = <<>>
        /\ delivered[e][t] = <<>> /\ ~ended[e][t] /\ ~fin[e][t] /\ sent[e][t] = 0
    BY <1>2, <1>5 DEF StreamInv, SessionOf
  <2>3. PICK p \in Ends : p = "external" /\ p = Peer(e) /\ Peer(p) = e /\ p # e
    BY <1>1 DEF Ends, Peer
  <2>4. Before(t) /\ Before(t)'
    BY <1>1, <1>2, <1>5, <2>1 DEF Before
  <2>5. Opening(t) /\ OpenOf(t)
    BY <2>4 DEF Opening, StreamInv
  <2>6. sess'[p][t] = sess[p][t] /\ GoesOn(p, t)
    BY <1>2, <1>3, <2>3, RegisterEffect
  <2>7. UNCHANGED wire /\ \A x \in Ends : (Refusing(x, t)' <=> Refusing(x, t))
    BY <1>2 DEF Refusing
  <2>8. Dialling(t)' <=> Dialling(t)
    BY <1>2 DEF Dialling
  <2>9. OpenOf(t)'
    BY <1>1, <2>1, <2>3, <2>4, <2>5, <2>6, <2>7, <2>8 DEF OpenOf
  <2>10. SessionOf(e, t)'
    BY <1>1, <1>2, <2>1, <2>2 DEF SessionOf
  <2>11. ~Holds(wire[e], t, "DATA") /\ ~Holds(wire[e], t, "FIN") /\ \A n : ~HoldsChunk(wire[e], t, n)
    <3>1. ~Holds(wire[e], t, "DATA") /\ ~Holds(wire[e], t, "FIN")
      BY <1>2, <1>5 DEF StreamInv, SenderOf
    <3> QED BY <3>1 DEF Holds, HoldsChunk
  <2>12. SenderOf(e, t)'
    BY <1>2, <2>1, <2>11 DEF SenderOf, StreamInv
  <2>13. Queued(e, t) = 0 /\ Taken(e, t) = 0 /\ Queued(e, t)' = 0 /\ Taken(e, t)' = 0
    BY <1>2, <2>1, <2>2 DEF Queued, Taken
  <2>14. SessionOf(p, t)' /\ SenderOf(p, t)'
    <3>1. WireGoesOn(p, t)
      BY <1>2, WireRests DEF StreamInv
    <3> QED BY <2>6, <3>1, SessionKept, SenderKept DEF StreamInv, GoesOn
  <2>15. Passed(p, t)' \in Nat
    BY <2>6, PassedGrows DEF StreamInv, GoesOn
  <2>16. QueueOf(e, t)'
    BY <1>2, <2>1, <2>2, <2>3, <2>13, <2>15 DEF QueueOf
  <2>17. ReceiverOf(e, t)'
    <3>1. Intact(e, t)' => Intact(e, t)
      BY <1>1, <1>2, <2>2, <2>7 DEF Intact
    <3>2. WireGoesOn(p, t) /\ ChunksStay(p, t)
      BY <1>2, WireRests DEF StreamInv
    <3> QED BY <2>3, <2>6, <2>13, <3>1, <3>2, ReceiverKept DEF StreamInv, GoesOn
  <2>18. sess'[p][t] = "none" /\ remote_queue'[p][t] = <<>> /\ delivered'[p][t] = <<>> /\ writer'[p][t] = "none"
    <3>1. sess'[p][t] = "none"
      BY <2>3, <2>4, <2>9 DEF OpenOf, Opening
    <3> QED BY <2>14, <3>1 DEF SessionOf
  <2>19. Queued(p, t)' = 0 /\ Taken(p, t)' = 0
    BY <2>18 DEF Queued, Taken
  <2>20. Passed(e, t)' = 0
    BY <1>2, <2>1, <2>2 DEF Passed
  <2>21. QueueOf(p, t)' /\ ReceiverOf(p, t)'
    <3>1. QueueOf(p, t)'
      BY <2>3, <2>18, <2>19, <2>20 DEF QueueOf
    <3>2. /\ \A n \in Nat : ~HoldsChunk(wire[e], t, n)'
          /\ ~Holds(wire[e], t, "FIN")' /\ pump'[e][t] = "open"
      BY <1>2, <2>1, <2>11
    <3> QED BY <2>3, <3>1, <3>2 DEF ReceiverOf
  <2> QED BY <1>1, <2>3, <2>9, <2>10, <2>12, <2>14, <2>16, <2>17, <2>21 DEF StreamInv, Ends
<1> QED BY <1>4, <1>5

LEMMA SendOpenStep ==
  ASSUME TypeOK, TypeOK', setting' = setting, NEW t \in Streams, StreamInv(t),
         NEW s \in Streams, SendOpen(s)
  PROVE  StreamInv(t)'
<1>1. PICK e \in Ends : e = "internal"
  BY DEF Ends
<1>2. PICK f \in Frames : f = F("OPEN", s) /\ f.type = "OPEN" /\ f.stream = s
  BY FrameTypes DEF F
<1>3. /\ pump[e][s] = "open" /\ CanSend(e) /\ Put(e, f)
      /\ UNCHANGED <<appVars, sessionVars, writer, hand, reader, handling, cut>>
      /\ \E v \in {"recv", "done"} : pump' = [pump EXCEPT ![e][s] = v]
  BY <1>1, <1>2 DEF SendOpen, carrierVars
<1>4. /\ pump'[e][s] \in {"recv", "done"}
      /\ \A x \in Ends : ~(x = e /\ t = s) => pump'[x][t] = pump[x][t]
  <2>1. PICK v \in {"recv", "done"} : pump' = [pump EXCEPT ![e][s] = v]
    BY <1>3
  <2> QED BY <2>1, ChangedAt, TypesOfAll
<1>5. UNCHANGED <<sent, fin, delivered, ended, sess, listed, remote_queue>>
  BY <1>3 DEF appVars, sessionVars
<1>6. \A x \in Ends : ~(x = e /\ t = s) => GoesOn(x, t)
  BY <1>3, <1>4, <1>5, SameGoesOn DEF Same, StreamInv
<1>7. CASE t # s
  BY <1>2, <1>3, <1>6, <1>7, SendStep
<1>8. CASE t = s
  <2>1. /\ wire[e] \in Seq(Frames) /\ wire'[e] = Append(wire[e], f) /\ ~cut
        /\ \A x \in Ends : x # e => wire'[x] = wire[x]
        /\ \A k : Holds(wire'[e], t, k) <=> Holds(wire[e], t, k) \/ f.type = k
        /\ \A n : HoldsChunk(wire'[e], t, n) <=>
                     HoldsChunk(wire[e], t, n) \/ (f.type = "DATA" /\ f.chunk = n)
    BY <1>2, <1>3, <1>8, FrameSent
  <2>2. PICK p \in Ends : p = "external" /\ p = Peer(e) /\ Peer(p) = e /\ p # e
    BY <1>1 DEF Ends, Peer
  <2>3. Before(t) /\ Opening(t) /\ OpenOf(t)
    BY <1>1, <1>3, <1>8 DEF Before, Opening, StreamInv
  <2>4. /\ sess[p][t] = "none" /\ ~Holds(wire[e], t, "OPEN") /\ ~Dialling(t)
        /\ ~Holds(wire[p], t, "OPEN") /\ \A x \in Ends : ~Refusing(x, t)
    BY <1>1, <2>2, <2>3 DEF OpenOf
  <2>5. /\ ~fin[e][t] /\ sent[e][t] = 0 /\ SessionOf(e, t)
    BY <1>3, <1>8 DEF StreamInv, SessionOf
  <2>6. SessionOf(e, t)'
    BY <1>3, <1>4, <1>5, <1>8, <2>5 DEF SessionOf
  <2>7. ~Holds(wire[e], t, "DATA") /\ ~Holds(wire[e], t, "FIN") /\ \A n : ~HoldsChunk(wire[e], t, n)
    <3>1. ~Holds(wire[e], t, "DATA") /\ ~Holds(wire[e], t, "FIN")
      BY <1>3, <1>8 DEF StreamInv, SenderOf
    <3> QED BY <3>1 DEF Holds, HoldsChunk
  <2>8. ~Holds(wire'[e], t, "DATA") /\ ~Holds(wire'[e], t, "FIN") /\ \A n : ~HoldsChunk(wire'[e], t, n)
    BY <1>2, <2>1, <2>7
  <2>9. Ordered(wire'[e], t)
    <3>1. Ordered(wire[e], t)
      BY DEF StreamInv, SenderOf
    <3> QED BY <1>2, <2>1, <2>4, <2>7, <3>1, OrderedAppend
  <2>10. SenderOf(e, t)'
    BY <1>3, <1>4, <1>8, <2>1, <2>8, <2>9 DEF SenderOf
  <2>11. sess'[p][t] = "none" /\ ~Holds(wire'[p], t, "OPEN") /\ ~Dialling(t)'
         /\ \A x \in Ends : ~Refusing(x, t)'
    BY <1>3, <1>5, <2>1, <2>2, <2>4 DEF Dialling, Refusing
  <2>12. ~Before(t)' /\ pump'["internal"][t] # "failed"
    BY <1>1, <1>4, <1>8 DEF Before
  <2>13. OpenOf(t)'
    BY <2>2, <2>11, <2>12 DEF OpenOf
  <2>14. /\ sess'[p][t] = "none" /\ remote_queue'[p][t] = <<>> /\ delivered'[p][t] = <<>>
         /\ writer'[p][t] = "none"
    BY <1>3, <1>5, <2>4 DEF StreamInv, SessionOf
  <2>15. Queued(p, t)' = 0 /\ Taken(p, t)' = 0
    BY <2>14 DEF Queued, Taken
  <2>16. Passed(e, t)' = 0 /\ sent'[e][t] = 0
    BY <1>4, <1>5, <1>8, <2>5 DEF Passed
  <2>17. QueueOf(p, t)'
    BY <2>2, <2>14, <2>15, <2>16 DEF QueueOf
  <2>18. ReceiverOf(p, t)'
    <3>1. OnWire(wire'[e], t, 0, 0)
      BY DEF OnWire
    <3> QED BY <2>2, <2>8, <2>15, <2>16, <3>1 DEF ReceiverOf
  <2>19. ReceiverRests(e, t)
    BY <1>3, <1>5 DEF ReceiverRests
  <2>20. \A x \in Ends : x # e => GoesOn(x, t) /\ wire'[x] = wire[x]
    BY <1>6, <2>1
  <2> QED BY <1>3, <2>2, <2>3, <2>6, <2>10, <2>13, <2>17, <2>18, <2>19, <2>20, SenderStep
<1> QED BY <1>7, <1>8

LEMMA PumpSendsStep ==
  ASSUME TypeOK, TypeOK', setting' = setting, NEW t \in Streams, StreamInv(t), NEW e \in Ends,
         NEW s \in Streams, PumpSendData(e, s) \/ PumpSendFin(e, s)
  PROVE  StreamInv(t)'
<1>1. sent[e][s] \in Nat
  BY TypesAt
<1>2. PICK f \in Frames : /\ Put(e, f) /\ f.stream = s
                          /\ PumpSendData(e, s) => f.type = "DATA" /\ f.chunk = sent[e][s]
                          /\ PumpSendFin(e, s) => f.type = "FIN"
  <2>1. CASE PumpSendData(e, s)
    <3>1. Data(s, sent[e][s]) \in Frames /\ Data(s, sent[e][s]).type = "DATA"
          /\ Data(s, sent[e][s]).chunk = sent[e][s] /\ Data(s, sent[e][s]).stream = s
      BY <1>1, FrameTypes DEF Data
    <3>2. ~PumpSendFin(e, s)
      BY <2>1 DEF PumpSendData, PumpSendFin
    <3> QED BY <2>1, <3>1, <3>2 DEF PumpSendData
  <2>2. CASE PumpSendFin(e, s)
    <3>1. F("FIN", s) \in Frames /\ F("FIN", s).type = "FIN" /\ F("FIN", s).stream = s
      BY FrameTypes DEF F
    <3>2. ~PumpSendData(e, s)
      BY <2>2 DEF PumpSendData, PumpSendFin
    <3> QED BY <2>2, <3>1, <3>2 DEF PumpSendFin
  <2> QED BY <2>1, <2>2
<1>3. /\ CanSend(e) /\ UNCHANGED <<appVars, sessionVars, writer, hand, reader, handling, cut>>
      /\ \E v \in {"recv", "done", "mark"} : pump' = [pump EXCEPT ![e][s] = v]
  BY DEF PumpSendData, PumpSendFin, carrierVars
<1>4. \A x \in Ends : ~(x = e /\ t = s) => pump'[x][t] = pump[x][t]
  <2>1. PICK v : pump' = [pump EXCEPT ![e][s] = v]
    BY <1>3
  <2> QED BY <2>1, ChangedAt, TypesOfAll
<1>5. UNCHANGED <<sent, fin, delivered, ended, sess, listed, remote_queue>>
  BY <1>3 DEF appVars, sessionVars
<1>6. \A x \in Ends : ~(x = e /\ t = s) => GoesOn(x, t)
  BY <1>3, <1>4, <1>5, SameGoesOn DEF Same, StreamInv
<1>7. CASE t # s
  BY <1>2, <1>3, <1>6, <1>7, SendStep
<1>8. CASE t = s
  <2>1. /\ wire[e] \in Seq(Frames) /\ wire'[e] = Append(wire[e], f) /\ ~cut
        /\ \A x \in Ends : x # e => wire'[x] = wire[x]
        /\ \A k : Holds(wire'[e], t, k) <=> Holds(wire[e], t, k) \/ f.type = k
        /\ \A n : HoldsChunk(wire'[e], t, n) <=>
                     HoldsChunk(wire[e], t, n) \/ (f.type = "DATA" /\ f.chunk = n)
    <3>1. CanSend(e) /\ Put(e, f) /\ f.stream = t
      BY <1>2, <1>3, <1>8
    <3> QED BY <3>1, FrameSent
  <2>2. PICK p \in Ends : p = Peer(e) /\ Peer(p) = e /\ p # e
    BY PeerEnd
  <2>3. \/ PumpSendData(e, s) /\ pump[e][t] = "data" /\ pump'[e][t] \in {"recv", "done"}
        \/ PumpSendFin(e, s) /\ pump[e][t] = "fin" /\ pump'[e][t] = "mark"
    <3>1. CASE PumpSendData(e, s)
      <4>1. PICK v \in {"recv", "done"} : pump' = [pump EXCEPT ![e][s] = v]
        BY <3>1 DEF PumpSendData
      <4>2. pump'[e][s] = v
        BY <4>1, ChangedAt, TypesOfAll
      <4> QED BY <1>8, <3>1, <4>2 DEF PumpSendData
    <3>2. CASE PumpSendFin(e, s)
      <4>1. pump'[e][s] = "mark"
        BY <3>2, ChangedAt, TypesOfAll DEF PumpSendFin
      <4> QED BY <1>8, <3>2, <4>1 DEF PumpSendFin
    <3> QED BY <3>1, <3>2
  <2>4. SessionOf(e, t) /\ SenderOf(e, t) /\ OpenOf(t) /\ QueueOf(p, t) /\ ReceiverOf(p, t)
    BY DEF StreamInv
  <2>5. /\ sent[e][t] \in Nat /\ Passed(e, t) \in Nat /\ Queued(p, t) \in Nat
        /\ PumpSendData(e, s) => Passed(e, t) = sent[e][t] - 1
        /\ PumpSendFin(e, s) => Passed(e, t) = sent[e][t]
        /\ Passed(e, t)' = sent[e][t]
    <3>1. sent[e][t] \in Nat /\ Queued(p, t) \in Nat
      BY TypesAt, QueueCounts
    <3>2. pump[e][t] = "data" => sent[e][t] - 1 \in Nat
      BY <2>4, <3>1 DEF SessionOf
    <3>3. Passed(e, t)' = sent[e][t]
      BY <1>5, <2>3 DEF Passed
    <3>4. PumpSendData(e, s) => pump[e][s] = "data"
      BY DEF PumpSendData
    <3>5. PumpSendFin(e, s) => pump[e][s] = "fin"
      BY DEF PumpSendFin
    <3> QED BY <1>8, <3>1, <3>2, <3>3, <3>4, <3>5 DEF Passed
  <2>6. SessionOf(e, t)'
    BY <1>3, <1>5, <2>3, <2>4 DEF SessionOf
  <2>7. ReceiverRests(e, t)
    BY <1>3, <1>5 DEF ReceiverRests
  <2>8. f.type \in {"DATA", "FIN"}
    BY <1>2, <2>3
  <2>9. OpenOf(t)' /\ (Opening(t)' => Opening(t))
    <3>1. Before(t)' <=> Before(t)
      BY <1>4, <2>3 DEF Before, Ends
    <3>2. \A x \in Ends : Holds(wire'[x], t, "OPEN") <=> Holds(wire[x], t, "OPEN")
      BY <2>1, <2>8
    <3>3. /\ Dialling(t)' <=> Dialling(t)
          /\ \A x \in Ends : Refusing(x, t)' <=> Refusing(x, t)
      BY <1>3 DEF Dialling, Refusing
    <3>4. "internal" \in Ends /\ "external" \in Ends
      BY DEF Ends
    <3>5. Opening(t)' <=> Opening(t)
      BY <3>1, <3>2, <3>3, <3>4 DEF Opening
    <3>6. pump'["internal"][t] = "failed" => pump["internal"][t] = "failed"
      BY <1>4, <2>3, <3>4
    <3> QED BY <1>5, <2>4, <3>1, <3>2, <3>3, <3>4, <3>5, <3>6 DEF OpenOf
  <2>10. ~Holds(wire[e], t, "FIN")
    BY <2>3, <2>4 DEF SenderOf
  <2>11. SenderOf(e, t)'
    <3>1. PICK w \in Seq(Frames) : w = wire[e]
      BY <2>1
    <3>2. ASSUME NEW i \in 1 .. Len(w), f.type = "DATA", w[i].type = "DATA", w[i].stream = t
          PROVE  w[i].chunk < f.chunk
      <4>1. w[i] \in Frames /\ w[i].chunk \in Nat
        BY <3>1 DEF Frames, Frame
      <4>2. HoldsChunk(wire[e], t, w[i].chunk)
        BY <3>1, <3>2 DEF HoldsChunk
      <4>3. PumpSendData(e, s) /\ f.chunk = sent[e][t]
        BY <1>2, <1>8, <2>3, <3>2
      <4> QED BY <2>4, <2>5, <4>1, <4>2, <4>3 DEF SenderOf
    <3>3. f.type = "DATA" => f.chunk \in Nat
      BY DEF Frames, Frame
    <3>4. Ordered(w, t)
      BY <2>4, <3>1 DEF SenderOf
    <3>5. Ordered(Append(w, f), t)
      BY <1>2, <1>8, <2>8, <2>10, <3>1, <3>2, <3>3, <3>4, OrderedAppend
    <3>6. \A n \in Nat : HoldsChunk(wire'[e], t, n) => n <= Passed(e, t)'
      BY <1>2, <1>8, <2>1, <2>3, <2>4, <2>5 DEF SenderOf
    <3>7. Holds(wire'[e], t, "FIN") => pump'[e][t] \in {"mark", "done"}
                              /\ (sess'[e][t] = "closed" \/ fin'[e][t])
      BY <1>2, <1>5, <2>1, <2>3, <2>4, <2>10 DEF SenderOf
    <3>8. pump'[e][t] \in {"fin", "mark"} => sess'[e][t] = "closed" \/ fin'[e][t]
      BY <1>5, <2>3, <2>4 DEF SenderOf
    <3> QED BY <1>3, <2>1, <2>3, <3>1, <3>5, <3>6, <3>7, <3>8 DEF SenderOf
  <2>12. GoesOn(p, t)
    BY <1>6, <2>2
  <2>13. ~EndMark(p, t)
    BY <2>2, <2>3 DEF EndMark
  <2>14. QueueOf(p, t)'
    <3>1. SUFFICES ASSUME sess'[p][t] # "closed" PROVE QueueOf(p, t)'
      BY DEF QueueOf
    <3>2. /\ Taken(p, t)' = Taken(p, t) /\ remote_queue'[p][t] = remote_queue[p][t]
          /\ sess[p][t] # "closed" /\ writer' = writer /\ hand' = hand /\ delivered' = delivered
      BY <1>3, <1>5, <2>12, <3>1, RestCounts DEF GoesOn
    <3>3. \A n \in Nat : n <= Passed(e, t) => n <= Passed(e, t)'
      BY <2>3, <2>5
    <3>4. Taken(p, t) \in Nat /\ remote_queue[p][t] \in Seq(Nat)
      BY QueueCounts
    <3>5. \A k \in 1 .. Len(remote_queue[p][t]) :
               remote_queue[p][t][k] = Taken(p, t) + k /\ remote_queue[p][t][k] <= Passed(e, t)'
      BY <2>2, <2>4, <2>13, <3>2, <3>3, <3>4 DEF QueueOf
    <3>6. Taken(p, t)' <= Passed(e, t)'
      BY <2>2, <2>4, <3>2, <3>3, <3>4 DEF QueueOf
    <3>7. writer'[p][t] = "write" => hand'[p][t] = Len(delivered'[p][t]) + 1
      BY <2>4, <3>2 DEF QueueOf
    <3> QED BY <2>2, <3>2, <3>5, <3>6, <3>7 DEF QueueOf
  <2>15. ReceiverOf(p, t)'
    <3>1. SUFFICES ASSUME Intact(p, t)' PROVE ReceiverOf(p, t)'
      BY DEF ReceiverOf
    <3>2. Intact(p, t)
      <4>1. ReceiverRests(p, t) /\ ReaderGoesOn(p, t) /\ SessionOf(p, t)
        BY <1>3, <2>12, ReaderRests DEF GoesOn, StreamInv
      <4> QED BY <2>4, <2>9, <3>1, <4>1, IntactKept
    <3>3. Queued(p, t)' = Queued(p, t)
      BY <2>12, <3>1, RestCounts DEF GoesOn, Intact
    <3>4. Queued(p, t) <= Passed(e, t)
      BY <2>2, <2>4, <3>2, QueuedBound DEF StreamInv
    <3>5. OnWire(wire[e], t, Queued(p, t), Passed(e, t))
      BY <2>2, <2>3, <2>4, <3>2 DEF ReceiverOf
    <3>6. \A n : HoldsChunk(wire[e], t, n) => HoldsChunk(wire'[e], t, n)
      BY <2>1
    <3>7. OnWire(wire'[e], t, Queued(p, t), sent[e][t])
      <4>1. ASSUME NEW n \in Nat, Queued(p, t) < n, n <= sent[e][t] PROVE HoldsChunk(wire'[e], t, n)
        <5>1. CASE n <= Passed(e, t)
          BY <3>5, <3>6, <4>1, <5>1 DEF OnWire
        <5>2. CASE ~(n <= Passed(e, t))
          <6>1. PumpSendData(e, s) /\ n = sent[e][t]
            BY <2>3, <2>5, <4>1, <5>2
          <6> QED BY <1>2, <1>8, <2>1, <6>1
        <5> QED BY <5>1, <5>2
      <4> QED BY <4>1 DEF OnWire
    <3>8. ASSUME NEW n \in Nat, HoldsChunk(wire'[e], t, n)
          PROVE  Queued(p, t) < n /\ OnWire(wire'[e], t, Queued(p, t), n)
      <4>1. CASE HoldsChunk(wire[e], t, n)
        BY <2>2, <2>4, <3>2, <3>6, <4>1 DEF ReceiverOf, OnWire
      <4>2. CASE ~HoldsChunk(wire[e], t, n)
        <5>1. f.type = "DATA" /\ n = f.chunk
          BY <2>1, <3>8, <4>2
        <5>2. PumpSendData(e, s) /\ n = sent[e][t]
          BY <1>2, <1>8, <2>3, <5>1
        <5> QED BY <2>5, <3>4, <3>7, <5>2
      <4> QED BY <4>1, <4>2
    <3>9. Passed(e, t)' = sent[e][t] /\ sent'[e][t] = sent[e][t]
      BY <1>5, <2>5
    <3> QED BY <2>2, <3>3, <3>7, <3>8, <3>9 DEF ReceiverOf
  <2>16. \A x \in Ends : x # e => GoesOn(x, t) /\ wire'[x] = wire[x]
    BY <1>6, <2>1
  <2> QED BY <1>3, <2>2, <2>6, <2>7, <2>9, <2>11, <2>14, <2>15, <2>16, SenderStep
<1> QED BY <1>7, <1>8
-----------------------------------------------------------------------------
(* Steps of the writer that take, deliver or end.                          *)
LEMMA TailOf ==
  ASSUME NEW q \in Seq(Nat), q # <<>>
  PROVE  /\ Head(q) = q[1] /\ Tail(q) \in Seq(Nat) /\ Len(q) \in Nat \ {0}
         /\ Len(Tail(q)) = Len(q) - 1 /\ 1 \in 1 .. Len(q)
         /\ \A k \in 1 .. Len(Tail(q)) : k + 1 \in 1 .. Len(q) /\ Tail(q)[k] = q[k + 1]
OBVIOUS

LEMMA WriterStep ==
  ASSUME TypeOK, TypeOK', NEW t \in Streams, StreamInv(t), NEW e \in Ends,
         UNCHANGED <<sent, fin, sess, listed, pump, cut, reader, handling, wire>>,
         \A x \in Ends : x # e => GoesOn(x, t),
         SessionOf(e, t)', QueueOf(e, t)', ReceiverOf(e, t)'
  PROVE  StreamInv(t)'
<1>1. PICK p \in Ends : p = Peer(e) /\ p # e /\ Peer(p) = e
  BY PeerEnd
<1>2. \A x \in Ends : x = e \/ x = p
  BY <1>1 DEF Ends, Peer
<1>3. SenderGoesOn(e, t)
  BY DEF SenderGoesOn
<1>4. \A x \in Ends : SenderGoesOn(x, t) /\ WireGoesOn(x, t) /\ ChunksStay(x, t)
  BY <1>1, <1>2, <1>3, WireRests DEF StreamInv, GoesOn
<1>5. SenderOf(e, t)' /\ SenderOf(p, t)'
  BY <1>4, SenderKept DEF StreamInv
<1>6. OpenOf(t)' /\ (Opening(t)' => Opening(t))
  BY <1>4, ReaderRests, OpenKept DEF StreamInv
<1>7. GoesOn(p, t)
  BY <1>1
<1>8. SessionOf(p, t)' /\ QueueOf(p, t)'
  BY <1>1, <1>4, <1>7, SessionKept, QueueKept DEF StreamInv, GoesOn
<1>9. Intact(p, t)' => Intact(p, t) /\ Queued(p, t)' = Queued(p, t)
  <2>1. Intact(p, t)' => Intact(p, t)
    BY <1>6, <1>7, ReaderRests, IntactKept DEF StreamInv, GoesOn
  <2>2. Intact(p, t)' => Queued(p, t)' = Queued(p, t)
    BY <1>7, RestCounts DEF Intact, GoesOn
  <2> QED BY <2>1, <2>2
<1>10. ReceiverOf(p, t)'
  BY <1>1, <1>4, <1>9, ReceiverKept DEF StreamInv
<1> QED BY <1>1, <1>2, <1>5, <1>6, <1>8, <1>10 DEF StreamInv

LEMMA WriterTakeStep ==
  ASSUME TypeOK, TypeOK', setting' = setting, NEW t \in Streams, StreamInv(t), NEW e \in Ends,
         NEW s \in Streams, WriterTake(e, s)
  PROVE  StreamInv(t)'
<1>1. PICK q \in Seq(Nat) : q = remote_queue[e][s]
  BY TypesAt
<1>2. /\ writer[e][s] = "get" /\ q # <<>> /\ Head(q) # EofItem
      /\ hand' = [hand EXCEPT ![e][s] = Head(q)]
      /\ remote_queue' = [remote_queue EXCEPT ![e][s] = Tail(q)]
      /\ writer' = [writer EXCEPT ![e][s] = "write"]
      /\ UNCHANGED <<sent, fin, delivered, ended, sess, listed, pump, cut, reader, handling, wire>>
  BY <1>1 DEF WriterTake, appVars, carrierVars
<1>3. /\ writer'[e][s] = "write" /\ hand'[e][s] = Head(q) /\ remote_queue'[e][s] = Tail(q)
      /\ \A x \in Ends : ~(x = e /\ t = s) => /\ writer'[x][t] = writer[x][t]
                                              /\ hand'[x][t] = hand[x][t]
                                              /\ remote_queue'[x][t] = remote_queue[x][t]
  <2>1. /\ writer'[e][s] = "write"
        /\ \A x \in Ends : ~(x = e /\ t = s) => writer'[x][t] = writer[x][t]
    BY <1>2, ChangedAt, TypesOfAll
  <2>2. hand'[e][s] = Head(q) /\ \A x \in Ends : ~(x = e /\ t = s) => hand'[x][t] = hand[x][t]
    BY <1>2, ChangedAt, TypesOfAll
  <2>3. /\ remote_queue'[e][s] = Tail(q)
        /\ \A x \in Ends : ~(x = e /\ t = s) => remote_queue'[x][t] = remote_queue[x][t]
    BY <1>2, ChangedAt, TypesOfAll
  <2> QED BY <2>1, <2>2, <2>3
<1>4. \A x \in Ends : ~(x = e /\ t = s) => GoesOn(x, t)
  BY <1>2, <1>3, SameGoesOn DEF Same, StreamInv
<1>5. CASE t # s
  BY <1>2, <1>4, <1>5, ThreadStep
<1>6. CASE t = s
  <2>1. SessionOf(e, t) /\ QueueOf(e, t) /\ ReceiverOf(e, t)
    BY DEF StreamInv
  <2>a. /\ writer[e][t] = "get" /\ q = remote_queue[e][t] /\ writer'[e][t] = "write"
        /\ hand'[e][t] = Head(q) /\ remote_queue'[e][t] = Tail(q)
        /\ delivered'[e][t] = delivered[e][t] /\ sess'[e][t] = sess[e][t]
    BY <1>1, <1>2, <1>3, <1>6
  <2>2. sess[e][t] # "none" /\ ~ended[e][t]
    BY <1>2, <1>6, <2>1 DEF SessionOf
  <2>3. SessionOf(e, t)'
    BY <1>2, <1>3, <1>6, <2>1, <2>2 DEF SessionOf
  <2>4. CASE sess[e][t] = "closed"
    BY <1>2, <2>3, <2>4, <1>4, WriterStep DEF QueueOf, ReceiverOf, Intact
  <2>5. CASE sess[e][t] # "closed"
    <3>1. /\ Head(q) = q[1] /\ Tail(q) \in Seq(Nat) /\ Len(q) \in Nat \ {0}
          /\ Len(Tail(q)) = Len(q) - 1 /\ 1 \in 1 .. Len(q)
          /\ \A k \in 1 .. Len(Tail(q)) : k + 1 \in 1 .. Len(q) /\ Tail(q)[k] = q[k + 1]
      BY <1>2, TailOf
    <3>2. PICK d \in Nat : d = Len(delivered[e][t])
      BY TypesAt
    <3>3. /\ Taken(e, t) = d /\ Taken(e, t)' = d + 1 /\ Queued(e, t) = d + Len(q)
          /\ Queued(e, t)' = d + Len(q)
      <4>1. Taken(e, t) = d + 0 /\ Taken(e, t)' = d + 1
        BY <2>a, <3>2 DEF Taken
      <4>2. Queued(e, t) = Taken(e, t) + Len(q) /\ Queued(e, t)' = Taken(e, t)' + Len(Tail(q))
        BY <2>a DEF Queued
      <4>3. PICK n \in Nat : Len(q) = n /\ Len(Tail(q)) = n - 1
        BY <3>1
      <4>4. d + 0 = d /\ (d + 1) + (n - 1) = d + n
        BY <3>2
      <4> QED BY <4>1, <4>2, <4>3, <4>4
    <3>4. q[1] = d + 1 /\ q[1] <= Passed(Peer(e), t)
      BY <1>1, <1>2, <1>6, <2>1, <2>5, <3>1, <3>3 DEF QueueOf
    <3>5. Passed(Peer(e), t)' = Passed(Peer(e), t)
      BY <1>2 DEF Passed
    <3>6. EndMark(e, t) => EndMark(e, t)'
      BY <1>2, <3>3 DEF EndMark
    <3>7. ASSUME NEW k \in 1 .. Len(Tail(q))
          PROVE  \/ (Tail(q)[k] = d + 1 + k /\ Tail(q)[k] <= Passed(Peer(e), t))
                 \/ (Tail(q)[k] = EofItem /\ k = Len(Tail(q)) /\ EndMark(e, t)')
      <4>1. k \in Nat /\ k + 1 \in 1 .. Len(q) /\ Tail(q)[k] = q[k + 1]
        BY <3>1
      <4>2. \/ (q[k + 1] = d + (k + 1) /\ q[k + 1] <= Passed(Peer(e), t))
            \/ (q[k + 1] = EofItem /\ k + 1 = Len(q) /\ EndMark(e, t))
        BY <2>a, <2>1, <2>5, <3>3, <4>1 DEF QueueOf
      <4>3. d + (k + 1) = d + 1 + k /\ (k + 1 = Len(q) => k = Len(Tail(q)))
        <5>1. PICK n \in Nat : Len(q) = n /\ Len(Tail(q)) = n - 1
          BY <3>1
        <5>2. d + (k + 1) = d + 1 + k
          <6>1. \A a, b \in Nat : a + (b + 1) = a + 1 + b
            OBVIOUS
          <6>2. k \in Nat
            BY <4>1
          <6> QED BY ONLY <6>1, <6>2, d \in Nat
        <5>3. k + 1 = n => k = n - 1
          BY <4>1
        <5> QED BY <5>1, <5>2, <5>3
      <4> QED BY <3>6, <4>1, <4>2, <4>3
    <3>8. QueueOf(e, t)'
      <4>1. hand'[e][t] = Len(delivered'[e][t]) + 1
        BY <2>a, <3>1, <3>2, <3>4
      <4>2. Taken(e, t)' <= Passed(Peer(e), t)'
        BY <3>3, <3>4, <3>5
      <4>3. \A k \in 1 .. Len(remote_queue'[e][t]) :
              \/ (remote_queue'[e][t][k] = Taken(e, t)' + k /\ remote_queue'[e][t][k] <= Passed(Peer(e), t)')
              \/ (remote_queue'[e][t][k] = EofItem /\ k = Len(remote_queue'[e][t]) /\ EndMark(e, t)')
        BY <2>a, <3>3, <3>5, <3>7
      <4> QED BY <4>1, <4>2, <4>3 DEF QueueOf
    <3>9. Intact(e, t)' => Intact(e, t)
      <4>1. SUFFICES ASSUME Intact(e, t)' PROVE Intact(e, t)
        OBVIOUS
      <4>2. ~cut /\ reader[e] # "done" /\ ~Refusing(e, t) /\ sess[e][t] = "open"
        BY <1>2, <2>2, <2>5, <4>1 DEF Intact, Refusing
      <4>3. ASSUME NEW k \in 1 .. Len(q) PROVE q[k] # EofItem
        <5>1. CASE k = 1
          BY <1>2, <3>1, <5>1
        <5>2. CASE k # 1
          <6>1. k - 1 \in 1 .. Len(Tail(q)) /\ Tail(q)[k - 1] = q[k]
            BY <3>1, <5>2
          <6>2. Tail(q)[k - 1] # EofItem
            <7>1. sess'[e][t] # "none"
              BY <2>2, <2>a
            <7>2. \A j \in 1 .. Len(Tail(q)) : Tail(q)[j] # EofItem
              BY <2>a, <4>1, <7>1 DEF Intact
            <7> QED BY <6>1, <7>2
          <6> QED BY <6>1, <6>2
        <5> QED BY <5>1, <5>2
      <4> QED BY <1>1, <1>6, <4>2, <4>3 DEF Intact
    <3>10. ReceiverOf(e, t)'
      <4>1. Peer(e) \in Ends
        BY PeerEnd
      <4>2. SenderGoesOn(Peer(e), t)
        BY <1>2 DEF SenderGoesOn
      <4>3. WireGoesOn(Peer(e), t) /\ ChunksStay(Peer(e), t)
        BY <1>2, <4>1, WireRests DEF StreamInv
      <4> QED BY <2>1, <3>3, <3>9, <4>1, <4>2, <4>3, ReceiverKept DEF StreamInv
    <3> QED BY <1>2, <1>4, <2>3, <3>8, <3>10, WriterStep
  <2> QED BY <2>4, <2>5
<1> QED BY <1>5, <1>6

LEMMA WriterEofStep ==
  ASSUME TypeOK, TypeOK', setting' = setting, NEW t \in Streams, StreamInv(t), NEW e \in Ends,
         NEW s \in Streams, WriterEof(e, s)
  PROVE  StreamInv(t)'
<1>1. PICK q \in Seq(Nat) : q = remote_queue[e][s]
  BY TypesAt
<1>2. /\ writer[e][s] = "get" /\ q # <<>> /\ Head(q) = EofItem
      /\ \E v : ended' = [ended EXCEPT ![e][s] = v]
      /\ remote_queue' = [remote_queue EXCEPT ![e][s] = Tail(q)]
      /\ \E v \in {"close", "done"} : writer' = [writer EXCEPT ![e][s] = v]
      /\ UNCHANGED <<sent, fin, delivered, hand, sess, listed, pump, cut, reader, handling, wire>>
  BY <1>1 DEF WriterEof, carrierVars
<1>3. /\ writer'[e][s] \in {"close", "done"} /\ remote_queue'[e][s] = Tail(q)
      /\ \A x \in Ends : ~(x = e /\ t = s) => /\ writer'[x][t] = writer[x][t]
                                              /\ ended'[x][t] = ended[x][t]
                                              /\ remote_queue'[x][t] = remote_queue[x][t]
  <2>1. /\ writer'[e][s] \in {"close", "done"}
        /\ \A x \in Ends : ~(x = e /\ t = s) => writer'[x][t] = writer[x][t]
    <3>1. PICK v \in {"close", "done"} : writer' = [writer EXCEPT ![e][s] = v]
      BY <1>2
    <3> QED BY <3>1, ChangedAt, TypesOfAll
  <2>2. \A x \in Ends : ~(x = e /\ t = s) => ended'[x][t] = ended[x][t]
    <3>1. PICK v : ended' = [ended EXCEPT ![e][s] = v]
      BY <1>2
    <3> QED BY <3>1, ChangedAt, TypesOfAll
  <2>3. /\ remote_queue'[e][s] = Tail(q)
        /\ \A x \in Ends : ~(x = e /\ t = s) => remote_queue'[x][t] = remote_queue[x][t]
    BY <1>2, ChangedAt, TypesOfAll
  <2> QED BY <2>1, <2>2, <2>3
<1>4. \A x \in Ends : ~(x = e /\ t = s) => GoesOn(x, t)
  BY <1>2, <1>3, SameGoesOn DEF Same, StreamInv
<1>5. CASE t # s
  BY <1>2, <1>4, <1>5, ThreadStep
<1>6. CASE t = s
  <2>1. SessionOf(e, t) /\ QueueOf(e, t)
    BY DEF StreamInv
  <2>a. /\ writer[e][t] = "get" /\ q = remote_queue[e][t] /\ writer'[e][t] \in {"close", "done"}
        /\ remote_queue'[e][t] = Tail(q) /\ delivered'[e][t] = delivered[e][t]
        /\ Head(q) = EofItem
    BY <1>1, <1>2, <1>3, <1>6
  <2>2. sess[e][t] # "none"
    BY <1>2, <1>6, <2>1 DEF SessionOf
  <2>3. SessionOf(e, t)'
    BY <1>2, <1>3, <1>6, <2>1, <2>2 DEF SessionOf
  <2>4. CASE sess[e][t] = "closed"
    BY <1>2, <2>3, <2>4, <1>4, WriterStep DEF QueueOf, ReceiverOf, Intact
  <2>5. CASE sess[e][t] # "closed"
    <3>1. /\ Head(q) = q[1] /\ Len(q) \in Nat \ {0} /\ Tail(q) \in Seq(Nat)
          /\ Len(Tail(q)) = Len(q) - 1 /\ 1 \in 1 .. Len(q)
      BY <1>2, TailOf
    <3>2. Taken(e, t) = Len(delivered[e][t]) /\ Taken(e, t) \in Nat /\ Taken(e, t)' = Taken(e, t)
      <4>1. Len(delivered[e][t]) \in Nat
        BY TypesAt
      <4>2. Taken(e, t) = Len(delivered[e][t]) + 0 /\ Taken(e, t)' = Len(delivered[e][t]) + 0
        BY <2>a DEF Taken
      <4> QED BY <4>1, <4>2
    <3>3. Len(q) = 1 /\ EndMark(e, t)
      <4>1. \/ (q[1] = Taken(e, t) + 1 /\ q[1] <= Passed(Peer(e), t))
            \/ (q[1] = EofItem /\ 1 = Len(q) /\ EndMark(e, t))
        BY <2>a, <2>1, <2>5, <3>1 DEF QueueOf
      <4>2. q[1] = 0
        BY <2>a, <3>1 DEF EofItem
      <4> QED BY <3>2, <4>1, <4>2
    <3>4. Tail(q) = <<>>
      BY <3>1, <3>3
    <3>5. Taken(e, t) <= Passed(Peer(e), t) /\ Passed(Peer(e), t)' = Passed(Peer(e), t)
      BY <1>2, <2>1, <2>5 DEF QueueOf, Passed
    <3>6. QueueOf(e, t)'
      <4>1. remote_queue'[e][t] = <<>> /\ writer'[e][t] # "write"
        BY <2>a, <3>4
      <4>2. Taken(e, t)' <= Passed(Peer(e), t)'
        BY <3>2, <3>5
      <4> QED BY <4>1, <4>2 DEF QueueOf
    <3>7. /\ ~Holds(wire[Peer(e)], t, "DATA") /\ ~Holds(wire[Peer(e)], t, "FIN")
          /\ pump[Peer(e)][t] \in {"mark", "done"} /\ \A n : ~HoldsChunk(wire[Peer(e)], t, n)
      BY <3>3 DEF EndMark, Holds, HoldsChunk
    <3>8. ReceiverOf(e, t)'
      BY <1>2, <3>7 DEF ReceiverOf
    <3> QED BY <1>2, <1>4, <2>3, <3>6, <3>8, WriterStep
  <2> QED BY <2>4, <2>5
<1> QED BY <1>5, <1>6

LEMMA WriterDeliverStep ==
  ASSUME TypeOK, TypeOK', setting' = setting, NEW t \in Streams, StreamInv(t), NEW e \in Ends,
         NEW s \in Streams, WriterDeliver(e, s)
  PROVE  StreamInv(t)'
<1>1. /\ writer[e][s] = "write" /\ ~SockClosed(e, s)
      /\ delivered' = [delivered EXCEPT ![e][s] = Append(delivered[e][s], hand[e][s])]
      /\ hand' = [hand EXCEPT ![e][s] = EofItem]
      /\ \E v \in {"get", "done"} : writer' = [writer EXCEPT ![e][s] = v]
      /\ UNCHANGED <<sent, fin, ended, sess, listed, remote_queue, pump, cut, reader, handling, wire>>
  BY DEF WriterDeliver, sessionVars, carrierVars
<1>2. /\ writer'[e][s] \in {"get", "done"} /\ delivered'[e][s] = Append(delivered[e][s], hand[e][s])
      /\ \A x \in Ends : ~(x = e /\ t = s) => /\ writer'[x][t] = writer[x][t]
                                              /\ hand'[x][t] = hand[x][t]
                                              /\ delivered'[x][t] = delivered[x][t]
  <2>1. /\ writer'[e][s] \in {"get", "done"}
        /\ \A x \in Ends : ~(x = e /\ t = s) => writer'[x][t] = writer[x][t]
    <3>1. PICK v \in {"get", "done"} : writer' = [writer EXCEPT ![e][s] = v]
      BY <1>1
    <3> QED BY <3>1, ChangedAt, TypesOfAll
  <2>2. \A x \in Ends : ~(x = e /\ t = s) => hand'[x][t] = hand[x][t]
    BY <1>1, ChangedAt, TypesOfAll
  <2>3. /\ delivered'[e][s] = Append(delivered[e][s], hand[e][s])
        /\ \A x \in Ends : ~(x = e /\ t = s) => delivered'[x][t] = delivered[x][t]
    BY <1>1, ChangedAt, TypesOfAll
  <2> QED BY <2>1, <2>2, <2>3
<1>3. \A x \in Ends : ~(x = e /\ t = s) => GoesOn(x, t)
  BY <1>1, <1>2, SameGoesOn DEF Same, StreamInv
<1>4. CASE t # s
  BY <1>1, <1>3, <1>4, ThreadStep
<1>5. CASE t = s
  <2>1. SessionOf(e, t) /\ QueueOf(e, t) /\ ReceiverOf(e, t)
    BY DEF StreamInv
  <2>2. sess[e][t] = "open" /\ ~ended[e][t]
    <3>1. sess[e][t] \in {"none", "open", "closed"}
      BY TypesAt
    <3> QED BY <1>1, <1>5, <2>1, <3>1 DEF SessionOf, SockClosed
  <2>3. SessionOf(e, t)'
    BY <1>1, <1>2, <1>5, <2>1, <2>2 DEF SessionOf
  <2>4. Len(delivered[e][t]) \in Nat /\ Len(delivered'[e][t]) = Len(delivered[e][t]) + 1
    <3>1. delivered[e][t] \in Seq(Nat) /\ hand[e][t] \in Nat
      BY TypesAt
    <3> QED BY <1>2, <1>5, <3>1
  <2>5. Taken(e, t)' = Taken(e, t) /\ Queued(e, t)' = Queued(e, t)
    <3>1. writer[e][t] = "write" /\ writer'[e][t] # "write" /\ remote_queue' = remote_queue
      BY <1>1, <1>2, <1>5
    <3>2. Taken(e, t) = Len(delivered[e][t]) + 1 /\ Taken(e, t)' = Len(delivered[e][t]) + 1 + 0
      BY <2>4, <3>1 DEF Taken
    <3>3. Taken(e, t)' = Taken(e, t)
      BY <2>4, <3>2
    <3> QED BY <3>1, <3>3 DEF Queued
  <2>6. Passed(Peer(e), t)' = Passed(Peer(e), t)
    BY <1>1 DEF Passed
  <2>7. EndMark(e, t) => EndMark(e, t)'
    BY <1>1, <2>5 DEF EndMark
  <2>8. QueueOf(e, t)'
    BY <1>1, <1>2, <1>5, <2>1, <2>2, <2>5, <2>6, <2>7 DEF QueueOf
  <2>9. Intact(e, t)' => Intact(e, t)
    BY <1>1, <2>2 DEF Intact, Refusing
  <2>10. ReceiverOf(e, t)'
    <3>1. Peer(e) \in Ends
      BY PeerEnd
    <3>2. SenderGoesOn(Peer(e), t)
      BY <1>1 DEF SenderGoesOn
    <3>3. WireGoesOn(Peer(e), t) /\ ChunksStay(Peer(e), t)
      BY <1>1, <3>1, WireRests DEF StreamInv
    <3> QED BY <2>1, <2>5, <2>9, <3>1, <3>2, <3>3, ReceiverKept DEF StreamInv
  <2> QED BY <1>1, <1>3, <2>3, <2>8, <2>10, WriterStep
<1> QED BY <1>4, <1>5
-----------------------------------------------------------------------------
(* Steps of the reader that hand a chunk or a mark to the stream, or refuse *)
(* it.                                                                      *)

(* A stream of which there is DATA or FIN to read has been opened.         *)
LEMMA ContentMeansOpened ==
  ASSUME TypeOK, NEW t \in Streams, StreamInv(t), NEW e \in Ends, NEW k \in {"DATA", "FIN"},
         Receive(e, k), Incoming(e).stream = t
  PROVE  /\ ~Opening(t) /\ ~cut /\ Holds(wire[Peer(e)], t, k) /\ ~EndMark(e, t)
<1>1. /\ Peer(e) \in Ends /\ wire[Peer(e)] \in Seq(Frames) /\ wire[Peer(e)] # <<>>
      /\ Incoming(e) = Head(wire[Peer(e)]) /\ Incoming(e).type = k
  BY ReceiveType
<1>2. Holds(wire[Peer(e)], t, k)
  BY <1>1, WireTail
<1>3. SenderOf(Peer(e), t) /\ SessionOf(Peer(e), t) /\ OpenOf(t)
  BY <1>1 DEF StreamInv
<1>4. ~cut
  BY <1>1, <1>3 DEF SenderOf
<1>5. pump[Peer(e)][t] \notin {"none", "chosen", "open", "failed"}
  BY <1>2, <1>3 DEF SenderOf
<1>6. ~EndMark(e, t)
  BY <1>2 DEF EndMark
<1>7. ~Opening(t)
  <2>1. CASE e = "external"
    <3>1. Peer(e) = "internal"
      BY <2>1 DEF Peer
    <3>2. ~Before(t)
      BY <1>5, <3>1 DEF Before
    <3>3. ~Holds(wire["internal"], t, "OPEN")
      <4>1. ~Holds(Tail(wire["internal"]), t, "OPEN")
        BY <1>1, <1>3, <3>1, OrderedTail DEF SenderOf
      <4>2. Head(wire["internal"]).type # "OPEN"
        BY <1>1, <3>1
      <4> QED BY <1>1, <3>1, <4>1, <4>2, WireTail
    <3>4. reader["external"] # "dial"
      BY <2>1 DEF Receive
    <3> QED BY <3>2, <3>3, <3>4 DEF Opening, Dialling
  <2>2. CASE e = "internal"
    <3>1. Peer(e) = "external"
      BY <2>2 DEF Peer
    <3>2. sess["external"][t] # "none"
      BY <1>3, <1>5, <3>1 DEF SessionOf
    <3> QED BY <1>3, <3>2 DEF OpenOf
  <2> QED BY <2>1, <2>2 DEF Ends
<1> QED BY <1>2, <1>4, <1>6, <1>7

(* A frame of another stream is handed over, or nothing is.                *)
LEMMA ReaderCalm ==
  ASSUME TypeOK, TypeOK', NEW t \in Streams, StreamInv(t), NEW e \in Ends, NEW k,
         Receive(e, k), UNCHANGED <<reader, handling, cut>>,
         \A x \in Ends : GoesOn(x, t),
         k = "DATA" /\ Incoming(e).stream = t => ~Intact(e, t)'
  PROVE  StreamInv(t)'
<1>1. \A x \in Ends : Peer(x) \in Ends /\ Peer(Peer(x)) = x
  BY PeerEnd
<1>2. \A x \in Ends : /\ WireGoesOn(x, t)
                      /\ ~(k = "DATA" /\ x = Peer(e) /\ Incoming(e).stream = t) => ChunksStay(x, t)
  BY ReceiveLeaves DEF StreamInv
<1>3. \A x \in Ends : Intact(x, t)' => ChunksStay(Peer(x), t)
  BY <1>1, <1>2
<1> QED BY <1>2, <1>3, ReaderRests, StreamKept

(* A chunk is refused: the stream is not known, or its queue is full.      *)
LEMMA RefuseStep ==
  ASSUME TypeOK, TypeOK', NEW t \in Streams, StreamInv(t), NEW e \in Ends,
         NEW k \in {"DATA", "FIN"}, NEW s, Receive(e, k), Incoming(e).stream = s,
         UNCHANGED <<appVars, sessionVars, threadVars, cut>>,
         Turns(e, "reply", F("RST", s)), reader[e] = "recv"
  PROVE  StreamInv(t)'
<1>1. \A x \in Ends : GoesOn(x, t)
  BY SameGoesOn DEF Same, StreamInv, sessionVars, appVars, threadVars
<1>2. \A x \in Ends : Peer(x) \in Ends /\ Peer(Peer(x)) = x
  BY PeerEnd
<1>3. \A x \in Ends : /\ WireGoesOn(x, t)
                      /\ ~(x = Peer(e) /\ s = t) => ChunksStay(x, t)
  BY ReceiveLeaves DEF StreamInv
<1>4. F("RST", s).type = "RST" /\ F("RST", s).stream = s
  BY DEF F
<1>5. /\ reader'[e] = "reply" /\ handling'[e] = F("RST", s)
      /\ \A x \in Ends : x # e => reader'[x] = reader[x] /\ handling'[x] = handling[x]
  BY DEF Turns, TypeOK
<1>6. s = t => ~Opening(t)'
  <2>1. SUFFICES ASSUME s = t, Opening(t)' PROVE FALSE
    OBVIOUS
  <2>2. ~Opening(t)
    BY <2>1, ContentMeansOpened
  <2>3. "internal" \in Ends /\ "external" \in Ends
    BY DEF Ends
  <2>4. ~Before(t)' /\ ~Holds(wire'["internal"], t, "OPEN")
    BY <1>3, <2>2, <2>3 DEF Opening, Before, WireGoesOn, threadVars
  <2>5. ~Dialling(t)'
    BY <1>5, <2>2, <2>3 DEF Opening, Dialling
  <2> QED BY <2>1, <2>4, <2>5 DEF Opening
<1>7. /\ Dialling(t)' => Dialling(t)
      /\ \A x \in Ends : /\ ReaderGoesOn(x, t)
                         /\ Refusing(x, t)' => Refusing(x, t) \/ ~Opening(t)'
  <2>1. ~Refusing(e, t)
    BY DEF Refusing
  <2> QED BY <1>4, <1>6, <2>1, TurnsTo
<1>8. \A x \in Ends : Intact(x, t)' => ChunksStay(Peer(x), t)
  <2>1. SUFFICES ASSUME NEW x \in Ends, Intact(x, t)' PROVE ChunksStay(Peer(x), t)
    OBVIOUS
  <2>2. CASE Peer(x) = Peer(e) /\ s = t
    <3>1. x = e
      BY <1>2, <2>2
    <3>2. Refusing(e, t)'
      BY <1>4, <1>5, <2>2 DEF Refusing
    <3> QED BY <2>1, <3>1, <3>2 DEF Intact
  <2>3. CASE ~(Peer(x) = Peer(e) /\ s = t)
    BY <1>2, <1>3, <2>3
  <2> QED BY <2>2, <2>3
<1> QED BY <1>1, <1>3, <1>7, <1>8, StreamKept
-----------------------------------------------------------------------------
(* A chunk or a mark is queued for the writer of e.                        *)
LEMMA HandedOver ==
  ASSUME TypeOK, TypeOK', NEW t \in Streams, StreamInv(t), NEW e \in Ends, NEW k,
         Receive(e, k), UNCHANGED <<appVars, sess, listed, threadVars, carrierVars, cut>>,
         \A x \in Ends : x # e => remote_queue'[x][t] = remote_queue[x][t],
         sess[e][t] = "open", QueueOf(e, t)', ReceiverOf(e, t)'
  PROVE  StreamInv(t)'
<1>1. PICK p \in Ends : p = Peer(e) /\ p # e /\ Peer(p) = e
  BY PeerEnd
<1>2. \A x \in Ends : x = e \/ x = p
  BY <1>1 DEF Ends, Peer
<1>3. UNCHANGED <<sent, fin, delivered, ended, sess, listed, writer, hand, pump,
                  reader, handling, cut>>
  BY DEF appVars, threadVars, carrierVars
<1>4. \A x \in Ends : SenderGoesOn(x, t)
  BY <1>3 DEF SenderGoesOn
<1>5. WireGoesOn(e, t) /\ WireGoesOn(p, t) /\ ChunksStay(e, t)
  BY <1>1, ReceiveLeaves DEF StreamInv
<1>6. SenderOf(e, t)' /\ SenderOf(p, t)'
  BY <1>4, <1>5, <1>1, SenderKept DEF StreamInv
<1>7. OpenOf(t)' /\ (Opening(t)' => Opening(t))
  BY <1>1, <1>2, <1>3, <1>4, <1>5, ReaderRests, OpenKept DEF StreamInv
<1>8. GoesOn(p, t)
  BY <1>1, <1>3, SameGoesOn DEF Same, StreamInv
<1>9. SessionOf(p, t)' /\ QueueOf(p, t)'
  BY <1>1, <1>4, <1>5, <1>8, SessionKept, QueueKept DEF StreamInv, GoesOn
<1>10. SessionOf(e, t)'
  BY <1>3 DEF SessionOf, StreamInv
<1>11. Intact(p, t)' => Intact(p, t) /\ Queued(p, t)' = Queued(p, t)
  <2>1. Intact(p, t)' => Intact(p, t)
    BY <1>3, <1>7, <1>8, ReaderRests, IntactKept DEF StreamInv, GoesOn
  <2>2. Intact(p, t)' => Queued(p, t)' = Queued(p, t)
    BY <1>8, RestCounts DEF Intact, GoesOn
  <2> QED BY <2>1, <2>2
<1>12. ReceiverOf(p, t)'
  BY <1>1, <1>4, <1>5, <1>11, ReceiverKept DEF StreamInv
<1> QED BY <1>1, <1>2, <1>6, <1>7, <1>9, <1>10, <1>12 DEF StreamInv

LEMMA ChunkTail ==
  ASSUME NEW w \in Seq(Frames), w # <<>>, NEW s
  PROVE  \A n : HoldsChunk(w, s, n) <=>
            HoldsChunk(Tail(w), s, n) \/ (Head(w).type = "DATA" /\ Head(w).stream = s /\ Head(w).chunk = n)
BY WireTail, Zenon

(* What is read of a stream that is open finds all before it in the queue. *)
LEMMA ContentIsNext ==
  ASSUME TypeOK, NEW t \in Streams, StreamInv(t), NEW e \in Ends, NEW k \in {"DATA", "FIN"},
         Receive(e, k), Incoming(e).stream = t, sess[e][t] = "open"
  PROVE  /\ Intact(e, t) /\ Queued(e, t) <= Passed(Peer(e), t)
         /\ k = "DATA" => Incoming(e).chunk = Queued(e, t) + 1
         /\ k = "FIN" => sess[Peer(e)][t] = "closed" \/ Queued(e, t) = sent[Peer(e)][t]
<1>1. PICK p \in Ends : p = Peer(e)
  BY PeerEnd
<1>2. PICK w \in Seq(Frames) : w = wire[p] /\ w # <<>> /\ Incoming(e) = Head(w) /\ Head(w).type = k
                               /\ Head(w).stream = t /\ Head(w).chunk \in Nat
  BY <1>1, ReceiveType
<1>3. Holds(w, t, k) /\ ~EndMark(e, t) /\ ~cut
  BY <1>1, <1>2, ContentMeansOpened
<1>4. QueueOf(e, t) /\ SessionOf(e, t) /\ ReceiverOf(e, t) /\ SenderOf(p, t) /\ SessionOf(p, t)
  BY DEF StreamInv
<1>5. Taken(e, t) \in Nat /\ Queued(e, t) \in Nat /\ sent[p][t] \in Nat
      /\ remote_queue[e][t] \in Seq(Nat)
  BY QueueCounts, TypesAt
<1>6. Intact(e, t)
  <2>1. ASSUME NEW j \in 1 .. Len(remote_queue[e][t]) PROVE remote_queue[e][t][j] # EofItem
    <3>1. remote_queue[e][t][j] = Taken(e, t) + j /\ j \in Nat /\ j > 0
      BY <1>3, <1>4, <1>5 DEF QueueOf
    <3> QED BY <1>5, <3>1 DEF EofItem
  <2> QED BY <1>3, <2>1 DEF Intact, Receive, Refusing
<1>7. Queued(e, t) <= Passed(p, t)
  BY <1>1, <1>4, <1>6, QueuedBound
<1>8. ASSUME k = "DATA" PROVE Incoming(e).chunk = Queued(e, t) + 1
  <2>1. PICK n \in Nat : n = Incoming(e).chunk /\ n = Head(w).chunk
    BY <1>2
  <2>2. HoldsChunk(w, t, n)
    BY <1>2, <1>8, <2>1, WireTail
  <2>3. Queued(e, t) < n /\ OnWire(w, t, Queued(e, t), n)
    BY <1>1, <1>2, <1>4, <1>6, <2>2 DEF ReceiverOf
  <2>4. ASSUME Queued(e, t) + 1 < n PROVE FALSE
    <3>1. HoldsChunk(w, t, Queued(e, t) + 1)
      BY <1>5, <2>3, <2>4 DEF OnWire
    <3>2. HoldsChunk(Tail(w), t, Queued(e, t) + 1)
      <4>1. \A x : HoldsChunk(w, t, x) => HoldsChunk(Tail(w), t, x) \/ Head(w).chunk = x
        BY <1>2, ChunkTail
      <4>2. Head(w).chunk # Queued(e, t) + 1
        BY <1>5, <2>1, <2>4
      <4> QED BY <3>1, <4>1, <4>2
    <3>3. Head(w).chunk < Queued(e, t) + 1
      BY <1>2, <1>4, <1>8, <3>2, OrderedTail DEF SenderOf
    <3> QED BY <1>5, <2>1, <2>4, <3>3
  <2> QED BY <1>5, <2>1, <2>3, <2>4
<1>9. ASSUME k = "FIN", sess[p][t] # "closed" PROVE Queued(e, t) = sent[p][t]
  <2>1. OnWire(w, t, Queued(e, t), sent[p][t])
    BY <1>1, <1>2, <1>3, <1>4, <1>6, <1>9 DEF ReceiverOf
  <2>2. \A n : ~HoldsChunk(w, t, n)
    <3>1. ~Holds(Tail(w), t, "DATA")
      BY <1>2, <1>4, <1>9, OrderedTail DEF SenderOf
    <3>2. \A n : ~HoldsChunk(Tail(w), t, n)
      BY <3>1 DEF Holds, HoldsChunk
    <3> QED BY <1>2, <1>9, <3>2, WireTail
  <2>3. ~(Queued(e, t) < sent[p][t])
    <3>1. \A a, b \in Nat : a < b => a + 1 \in Nat /\ a < a + 1 /\ a + 1 <= b
      OBVIOUS
    <3> QED BY <1>5, <2>1, <2>2, <3>1 DEF OnWire
  <2>4. Passed(p, t) = sent[p][t]
    BY <1>2, <1>3, <1>4, <1>9 DEF SenderOf, Passed
  <2> QED BY <1>5, <1>7, <2>3, <2>4
<1> QED BY <1>1, <1>6, <1>7, <1>8, <1>9

LEMMA QueuedStep ==
  ASSUME TypeOK, TypeOK', NEW t \in Streams, StreamInv(t), NEW e \in Ends, NEW s \in Streams,
         NEW k \in {"DATA", "FIN"}, NEW v \in Nat, v = IF k = "DATA" THEN Incoming(e).chunk ELSE EofItem,
         Receive(e, k), Incoming(e).stream = s, listed[e][s],
         remote_queue' = [remote_queue EXCEPT ![e][s] = Append(remote_queue[e][s], v)],
         UNCHANGED <<appVars, sess, listed, threadVars, carrierVars, cut>>
  PROVE  StreamInv(t)'
<1>1. UNCHANGED <<sent, fin, delivered, ended, sess, listed, writer, hand, pump,
                  reader, handling, cut>>
  BY DEF appVars, threadVars, carrierVars
<1>2. /\ remote_queue'[e][s] = Append(remote_queue[e][s], v)
      /\ \A x \in Ends : ~(x = e /\ t = s) => remote_queue'[x][t] = remote_queue[x][t]
  BY ChangedAt, TypesOfAll
<1>3. \A x \in Ends : ~(x = e /\ t = s) => GoesOn(x, t)
  BY <1>1, <1>2, SameGoesOn DEF Same, StreamInv
<1>4. CASE t # s
  BY <1>1, <1>3, <1>4, ReaderCalm
<1>5. CASE t = s /\ sess[e][t] # "open"
  <2>1. sess[e][t] = "closed" /\ SessionOf(e, t)
    BY <1>5 DEF SessionOf, StreamInv
  <2>2. GoesOn(e, t)
    BY <1>1, <2>1 DEF GoesOn, SenderGoesOn, ReceiverRests, SessionGoesOn, SessionOf
  <2>3. ~Intact(e, t)'
    BY <1>1, <2>1 DEF Intact
  <2> QED BY <1>1, <1>3, <2>2, <2>3, ReaderCalm
<1>6. CASE t = s /\ sess[e][t] = "open"
  <2>1. PICK p \in Ends : p = Peer(e)
    BY PeerEnd
  <2>2. PICK w \in Seq(Frames) : /\ w = wire[p] /\ w # <<>> /\ Incoming(e) = Head(w)
                                 /\ Head(w).type = k /\ Head(w).stream = t /\ wire'[p] = Tail(w)
    BY <1>6, <2>1, ReceiveType
  <2>3. QueueOf(e, t) /\ ReceiverOf(e, t) /\ SenderOf(p, t) /\ SessionOf(p, t) /\ SessionOf(e, t)
    BY DEF StreamInv
  <2>4. /\ Intact(e, t) /\ Queued(e, t) <= Passed(p, t)
        /\ k = "DATA" => v = Queued(e, t) + 1
        /\ k = "FIN" => v = EofItem /\ (sess[p][t] = "closed" \/ Queued(e, t) = sent[p][t])
    BY <1>6, <2>1, ContentIsNext
  <2>a. PICK q \in Seq(Nat) : q = remote_queue[e][t]
    BY TypesAt
  <2>5. q = remote_queue[e][t] /\ remote_queue'[e][t] = Append(q, v)
    BY <1>2, <1>6, <2>a
  <2>6. /\ Len(q) \in Nat /\ Len(Append(q, v)) = Len(q) + 1 /\ Append(q, v)[Len(q) + 1] = v
        /\ \A j \in 1 .. Len(q) : Append(q, v)[j] = q[j]
        /\ \A j \in 1 .. Len(q) + 1 : j \in 1 .. Len(q) \/ j = Len(q) + 1
        /\ Len(q) + 1 \in 1 .. Len(q) + 1
    OBVIOUS
  <2>7. PICK d \in Nat : d = Taken(e, t) /\ d = Taken(e, t)'
    BY <1>1, QueueCounts DEF Taken
  <2>8. PICK u \in Nat : u = Queued(e, t) /\ u = d + Len(q) /\ Queued(e, t)' = u + 1
    <3>1. Queued(e, t) = d + Len(q)
      BY <2>5, <2>7 DEF Queued
    <3>2. Queued(e, t)' = d + (Len(q) + 1)
      BY <2>5, <2>6, <2>7 DEF Queued
    <3>3. d + (Len(q) + 1) = (d + Len(q)) + 1 /\ d + Len(q) \in Nat
      <4>1. \A a, b \in Nat : a + (b + 1) = (a + b) + 1 /\ a + b \in Nat
        OBVIOUS
      <4>2. Len(q) \in Nat
        BY <2>6
      <4> QED BY ONLY <4>1, <4>2, d \in Nat
    <3> QED BY <3>1, <3>2, <3>3
  <2>9. Passed(p, t)' = Passed(p, t) /\ Passed(p, t) \in Nat
    <3>1. sent[p][t] \in Nat /\ (pump[p][t] = "data" => sent[p][t] > 0)
      BY <2>3, TypesAt DEF SessionOf
    <3>2. Passed(p, t) \in Nat
      BY <3>1 DEF Passed
    <3> QED BY <1>1, <3>2 DEF Passed
  <2>10. \A j \in 1 .. Len(q) : q[j] = d + j /\ q[j] <= Passed(p, t)
    <3>1. \A j \in 1 .. Len(remote_queue[e][t]) :
              /\ remote_queue[e][t][j] = Taken(e, t) + j
              /\ remote_queue[e][t][j] <= Passed(Peer(e), t)
      BY <2>3, <2>4, QueuedBound
    <3> QED BY <2>1, <2>5, <2>7, <3>1
  <2>11. k = "FIN" => EndMark(e, t)'
    <3>1. SUFFICES ASSUME k = "FIN" PROVE EndMark(e, t)'
      OBVIOUS
    <3>2. ~Holds(wire'[p], t, "DATA") /\ ~Holds(wire'[p], t, "FIN")
      BY <2>2, <2>3, <3>1, OrderedTail DEF SenderOf
    <3>3. Holds(w, t, "FIN")
      BY <2>2, <3>1, WireTail
    <3>4. pump[p][t] \in {"mark", "done"} /\ (sess[p][t] = "closed" \/ fin[p][t])
      BY <2>2, <2>3, <3>3 DEF SenderOf
    <3>5. Queued(e, t)' - 1 = u
      BY <2>8
    <3> QED BY <1>1, <2>1, <2>4, <2>8, <3>1, <3>2, <3>4, <3>5 DEF EndMark
  <2>12. k = "DATA" => v <= Passed(p, t)
    <3>1. SUFFICES ASSUME k = "DATA" PROVE v <= Passed(p, t)
      OBVIOUS
    <3>2. HoldsChunk(w, t, v)
      <4>1. \A n : HoldsChunk(w, t, n) <=> HoldsChunk(Tail(w), t, n)
                     \/ (Head(w).type = "DATA" /\ Head(w).stream = t /\ Head(w).chunk = n)
        BY <2>2, ChunkTail
      <4>2. Head(w).chunk = v
        BY <2>2, <3>1
      <4> QED BY <2>2, <3>1, <4>1, <4>2
    <3> QED BY <2>2, <2>3, <3>2 DEF SenderOf
  <2>13. QueueOf(e, t)'
    <3>1. ASSUME NEW j \in 1 .. Len(q) + 1
          PROVE  \/ (Append(q, v)[j] = d + j /\ Append(q, v)[j] <= Passed(p, t))
                 \/ (Append(q, v)[j] = EofItem /\ j = Len(Append(q, v)) /\ EndMark(e, t)')
      <4>1. CASE j \in 1 .. Len(q)
        BY <2>6, <2>10, <4>1
      <4>2. CASE j = Len(q) + 1 /\ k = "DATA"
        <5>1. v = d + j
          <6>1. v = (d + Len(q)) + 1 /\ Len(q) \in Nat
            BY <2>4, <2>6, <2>8, <4>2
          <6> QED BY <4>2, <6>1
        <5> QED BY <2>6, <2>12, <4>2, <5>1
      <4>3. CASE j = Len(q) + 1 /\ k = "FIN"
        BY <2>4, <2>6, <2>11, <4>3
      <4> QED BY <2>6, <4>1, <4>2, <4>3
    <3>2. writer'[e][t] = "write" => hand'[e][t] = Len(delivered'[e][t]) + 1
      BY <1>1, <1>6, <2>3 DEF QueueOf
    <3>3. Taken(e, t)' <= Passed(p, t)'
      BY <1>6, <2>1, <2>3, <2>7, <2>9 DEF QueueOf
    <3>4. \A j \in 1 .. Len(remote_queue'[e][t]) :
            \/ (remote_queue'[e][t][j] = Taken(e, t)' + j /\ remote_queue'[e][t][j] <= Passed(p, t)')
            \/ (remote_queue'[e][t][j] = EofItem /\ j = Len(remote_queue'[e][t]) /\ EndMark(e, t)')
      BY <2>5, <2>6, <2>7, <2>9, <3>1
    <3> QED BY <2>1, <3>2, <3>3, <3>4 DEF QueueOf
  <2>14. ReceiverOf(e, t)'
    <3>1. CASE k = "FIN"
      <4>1. remote_queue'[e][t][Len(q) + 1] = EofItem
        BY <2>4, <2>5, <2>6, <3>1
      <4>2. Len(q) + 1 \in 1 .. Len(remote_queue'[e][t])
        BY <2>5, <2>6
      <4>3. ~Intact(e, t)'
        BY <1>1, <1>6, <4>1, <4>2 DEF Intact
      <4> QED BY <4>3 DEF ReceiverOf
    <3>2. CASE k = "DATA"
      <4>1. Head(w).chunk = u + 1
        BY <2>2, <2>4, <2>8, <3>2
      <4>2. \A n : HoldsChunk(wire'[p], t, n) => u + 1 < n /\ HoldsChunk(w, t, n)
        BY <2>2, <2>3, <3>2, <4>1, OrderedTail, WireTail DEF SenderOf
      <4>3. ASSUME NEW b, OnWire(w, t, u, b) PROVE OnWire(wire'[p], t, u + 1, b)
        <5>1. SUFFICES ASSUME NEW n \in Nat, u + 1 < n, n <= b PROVE HoldsChunk(wire'[p], t, n)
          BY DEF OnWire
        <5>2. u < n /\ n # u + 1
          BY <5>1
        <5>3. HoldsChunk(w, t, n)
          BY <4>3, <5>1, <5>2 DEF OnWire
        <5>4. \A x : HoldsChunk(w, t, x) => HoldsChunk(Tail(w), t, x) \/ Head(w).chunk = x
          BY <2>2, ChunkTail

        <5> QED BY <2>2, <4>1, <5>2, <5>3, <5>4
      <4>4. ASSUME NEW n \in Nat, HoldsChunk(wire'[p], t, n)
            PROVE  u + 1 < n /\ OnWire(wire'[p], t, u + 1, n)
        <5>1. u + 1 < n /\ HoldsChunk(w, t, n)
          BY <4>2, <4>4
        <5>2. OnWire(w, t, u, n)
          BY <2>1, <2>2, <2>3, <2>4, <2>8, <5>1 DEF ReceiverOf
        <5> QED BY <4>3, <5>1, <5>2
      <4>5. pump'[p][t] \in {"recv", "data", "fin"} => OnWire(wire'[p], t, u + 1, Passed(p, t)')
        BY <1>1, <2>1, <2>2, <2>3, <2>4, <2>8, <2>9, <4>3 DEF ReceiverOf
      <4>6. Holds(wire'[p], t, "FIN") /\ sess'[p][t] # "closed" => OnWire(wire'[p], t, u + 1, sent'[p][t])
        <5>1. Holds(wire'[p], t, "FIN") => Holds(w, t, "FIN")
          <6>1. \A x : Holds(Tail(w), t, x) => Holds(w, t, x)
            BY <2>2, WireTail
          <6> QED BY <2>2, <6>1

        <5>2. Holds(w, t, "FIN") /\ sess[p][t] # "closed" => OnWire(w, t, u, sent[p][t])
          BY <2>1, <2>2, <2>3, <2>4, <2>8 DEF ReceiverOf
        <5> QED BY <1>1, <4>3, <5>1, <5>2
      <4> QED BY <2>1, <2>8, <4>4, <4>5, <4>6 DEF ReceiverOf
    <3> QED BY <3>1, <3>2
  <2> QED BY <1>2, <1>6, <2>13, <2>14, HandedOver
<1> QED BY <1>4, <1>5, <1>6
LEMMA ReadContentStep ==
  ASSUME TypeOK, TypeOK', setting' = setting, NEW t \in Streams, StreamInv(t), NEW e \in Ends,
         ReadData(e) \/ ReadFin(e)
  PROVE  StreamInv(t)'
<1>1. PICK k \in {"DATA", "FIN"} :
        Receive(e, k) /\ ((k = "DATA" /\ ReadData(e)) \/ (k = "FIN" /\ ReadFin(e)))
  <2>1. ReadData(e) => Receive(e, "DATA")
    BY DEF ReadData
  <2>2. ReadFin(e) => Receive(e, "FIN")
    BY DEF ReadFin
  <2>3. CASE ReadData(e)
    BY <2>1, <2>3


  <2>4. CASE ReadFin(e)
    BY <2>2, <2>4

  <2> QED BY <2>3, <2>4
<1>2. PICK s \in Streams : s = Incoming(e).stream
  <2>1. Incoming(e) \in Frames /\ Incoming(e).type = k
    BY <1>1, ReceiveType
  <2> QED BY <2>1, FrameStream
<1>3. PICK v \in Nat : v = IF k = "DATA" THEN Incoming(e).chunk ELSE EofItem
  <2>1. Incoming(e).chunk \in Nat /\ EofItem \in Nat
    BY <1>1, ReceiveType DEF EofItem
  <2> QED BY <2>1
<1>4. /\ UNCHANGED <<appVars, sess, listed, threadVars, cut>>
      /\ \/ /\ listed[e][s] /\ UNCHANGED carrierVars
            /\ remote_queue' = [remote_queue EXCEPT ![e][s] = Append(remote_queue[e][s], v)]
         \/ Answer(e, F("RST", s)) /\ UNCHANGED remote_queue
         \/ k = "FIN" /\ UNCHANGED <<carrierVars, remote_queue>>
  <2>1. CASE k = "DATA" /\ ReadData(e)
    BY <1>2, <1>3, <2>1 DEF ReadData
  <2>2. CASE k = "FIN" /\ ReadFin(e)
    <3>1. CASE ~listed[e][s]
      BY <1>2, <2>2, <3>1 DEF ReadFin
    <3>2. CASE listed[e][s] /\ Len(remote_queue[e][s]) < QueueSize
      BY <1>2, <1>3, <2>2, <3>2 DEF ReadFin
    <3>3. CASE listed[e][s] /\ ~(Len(remote_queue[e][s]) < QueueSize)
      BY <1>2, <2>2, <3>3 DEF ReadFin
    <3> QED BY <3>1, <3>2, <3>3
  <2> QED BY <1>1, <2>1, <2>2
<1>5. CASE /\ listed[e][s] /\ UNCHANGED carrierVars
           /\ remote_queue' = [remote_queue EXCEPT ![e][s] = Append(remote_queue[e][s], v)]
  <2>1. UNCHANGED <<appVars, sess, listed, threadVars, carrierVars, cut>>
    BY <1>4, <1>5
  <2>2. Receive(e, k) /\ Incoming(e).stream = s
    BY <1>1, <1>2
  <2> QED BY <1>3, <1>5, <2>1, <2>2, QueuedStep
<1>6. CASE Answer(e, F("RST", s)) /\ UNCHANGED remote_queue
  <2>1. reader[e] = "recv"
    BY <1>1 DEF Receive
  <2>2. Turns(e, "reply", F("RST", s))
    BY <1>6, <2>1 DEF Answer, Turns
  <2>3. UNCHANGED <<appVars, sessionVars, threadVars, cut>>
    BY <1>4, <1>6 DEF sessionVars
  <2> QED BY <1>1, <1>2, <2>1, <2>2, <2>3, RefuseStep
<1>7. CASE k = "FIN" /\ UNCHANGED <<carrierVars, remote_queue>>
  <2>1. \A x \in Ends : GoesOn(x, t)
    BY <1>4, <1>7, SameGoesOn DEF Same, StreamInv, appVars, threadVars
  <2>2. UNCHANGED <<reader, handling, cut>>
    BY <1>4, <1>7 DEF carrierVars
  <2> QED BY <1>1, <1>7, <2>1, <2>2, ReaderCalm
<1> QED BY <1>4, <1>5, <1>6, <1>7

-----------------------------------------------------------------------------
(* The invariant.  Only the external end dials: OPEN is sent by the other. *)
MuxInv ==
  /\ TypeOK
  /\ \A t \in Streams : StreamInv(t)
  /\ reader["internal"] # "dial"

LEMMA OnlyExternalDials ==
  ASSUME MuxInv PROVE ~ReadOpen("internal") /\ ~Dialled("internal") /\ ~DialFails("internal")
<1>1. "internal" \in Ends /\ Peer("internal") = "external"
  BY DEF Ends, Peer
<1>2. ASSUME ReadOpen("internal") PROVE FALSE
  <2>1. Receive("internal", "OPEN")
    BY <1>2 DEF ReadOpen
  <2>2. PICK w \in Seq(Frames) : w = wire["external"] /\ w # <<>> /\ Head(w) \in Frames
                                 /\ Head(w).type = "OPEN"
    BY <1>1, <2>1, ReceiveType DEF MuxInv
  <2>3. PICK s \in Streams : s = Head(w).stream
    BY <2>2, FrameStream
  <2>4. Holds(w, s, "OPEN")
    BY <2>2, <2>3, WireTail
  <2> QED BY <2>2, <2>4 DEF MuxInv, StreamInv, OpenOf
<1> QED BY <1>2 DEF MuxInv, Dialled, DialFails

LEMMA StreamStep ==
  ASSUME MuxInv, TypeOK', setting' = setting, Next, NEW t \in Streams
  PROVE  StreamInv(t)'
<1> TypeOK /\ StreamInv(t)
  BY DEF MuxInv
<1>0. "internal" \in Ends
  BY DEF Ends
<1>1. CASE \E s \in Streams : UserThread(s)
  BY <1>0, <1>1, PumpThreadStep, StartLocalStep, SendOpenStep DEF UserThread
<1>2. ASSUME NEW e \in Ends, NEW s \in Streams, Pump(e, s) PROVE StreamInv(t)'
  BY <1>2, PumpThreadStep, PumpSendsStep, CloserStep DEF Pump
<1>3. ASSUME NEW e \in Ends, NEW s \in Streams, Writer(e, s) PROVE StreamInv(t)'
  BY <1>3, WriterTakeStep, WriterEofStep, CloserStep, WriterGivesUp DEF Writer
<1>4. ASSUME NEW e \in Ends, NEW s \in Streams,
             WriterDeliver(e, s) \/ MonitorCloses(e, s) \/ Break(e, s)
      PROVE StreamInv(t)'
  BY <1>4, WriterDeliverStep, CloserStep, CarrierStep
<1>5. ASSUME NEW e \in Ends, Reader(e) PROVE StreamInv(t)'
  <2>1. CASE ReadOpen(e)
    <3>1. e = "external"
      BY <2>1, OnlyExternalDials DEF Ends
    <3> QED BY <2>1, <3>1, ReadOpenStep
  <2>3. CASE Dialled(e) \/ DialFails(e)
    <3>1. e = "external"
      BY <2>3, OnlyExternalDials DEF Ends
    <3> QED BY <2>3, <3>1, DialledStep, DialFailsStep
  <2>4. CASE ReadPing(e) \/ ReadPong(e) \/ ReadRst(e) \/ ReaderEnds(e)
    BY <2>4, ReaderOtherStep
  <2>5. CASE ReadData(e) \/ ReadFin(e)
    BY <2>5, ReadContentStep
  <2>6. CASE SendReply(e)
    BY <2>6, SendReplyStep
  <2> QED BY <1>5, <2>1, <2>3, <2>4, <2>5, <2>6 DEF Reader
<1>6. ASSUME NEW e \in Ends, SendPing(e) \/ Carrier(e) PROVE StreamInv(t)'
  BY <1>6, CarrierStep DEF Carrier
<1>7. CASE Cut
  BY <1>7, CutStep
<1> QED BY <1>1, <1>2, <1>3, <1>4, <1>5, <1>6, <1>7 DEF Next

LEMMA DialStep ==
  ASSUME MuxInv, Next PROVE reader'["internal"] # "dial"
<1>0. reader \in [Ends -> {"recv", "dial", "reply", "done"}] /\ reader["internal"] # "dial"
      /\ "internal" \in Ends
  BY DEF MuxInv, TypeOK, Ends
<1>1. CASE \E s \in Streams : UserThread(s)
  BY <1>0, <1>1 DEF UserThread, ChooseCarrier, StartLocalStream, SendOpen, SendOpenFails, carrierVars
<1>2. ASSUME NEW e \in Ends, NEW s \in Streams, Pump(e, s) PROVE reader'["internal"] # "dial"
  BY <1>0, <1>2 DEF Pump, PumpRead, PumpEof, PumpSendData, PumpWoken, PumpBroken, PumpSendFin,
     PumpMark, PumpSendRst, PumpSendFails, PumpStops, carrierVars
<1>3. ASSUME NEW e \in Ends, NEW s \in Streams, Writer(e, s) \/ WriterDeliver(e, s)
      PROVE reader'["internal"] # "dial"
  BY <1>0, <1>3 DEF Writer, WriterTake, WriterEof, WriterClose, WriterFails, WriterSendRst,
     WriterStops, WriterDeliver, carrierVars
<1>4. ASSUME NEW e \in Ends, NEW s \in Streams, MonitorCloses(e, s) \/ Break(e, s)
      PROVE reader'["internal"] # "dial"
  BY <1>0, <1>4 DEF MonitorCloses, Break, carrierVars
<1>5. ASSUME NEW e \in Ends, Reader(e) PROVE reader'["internal"] # "dial"
  <2>1. CASE ReadOpen(e)
    <3>1. e # "internal"
      BY <2>1, OnlyExternalDials
    <3> QED BY <1>0, <2>1, <3>1 DEF ReadOpen
  <2>2. CASE Dialled(e) \/ DialFails(e) \/ ReadPing(e) \/ ReadPong(e)
    BY <1>0, <2>2 DEF Dialled, DialFails, ReadPing, ReadPong, Answer, carrierVars
  <2>3. CASE ReadData(e)
    BY <1>0, <2>3 DEF ReadData, Answer, carrierVars
  <2>4. CASE ReadFin(e)
    <3>1. CASE ~listed[e][Incoming(e).stream]
      BY <1>0, <2>4, <3>1 DEF ReadFin, carrierVars
    <3>2. CASE listed[e][Incoming(e).stream] /\ Len(remote_queue[e][Incoming(e).stream]) < QueueSize
      BY <1>0, <2>4, <3>2 DEF ReadFin, carrierVars
    <3>3. CASE listed[e][Incoming(e).stream] /\ ~(Len(remote_queue[e][Incoming(e).stream]) < QueueSize)
      BY <1>0, <2>4, <3>3 DEF ReadFin, Answer
    <3> QED BY <3>1, <3>2, <3>3
  <2>5. CASE ReadRst(e) \/ SendReply(e) \/ ReaderEnds(e)
    BY <1>0, <2>5 DEF ReadRst, SendReply, ReaderEnds, carrierVars
  <2> QED BY <1>5, <2>1, <2>2, <2>3, <2>4, <2>5 DEF Reader
<1>6. ASSUME NEW e \in Ends, SendPing(e) \/ Carrier(e) PROVE reader'["internal"] # "dial"
  BY <1>0, <1>6 DEF SendPing, Carrier, HeartbeatFails, ClearStreams, carrierVars
<1>7. CASE Cut
  BY <1>0, <1>7 DEF Cut, carrierVars
<1> QED BY <1>1, <1>2, <1>3, <1>4, <1>5, <1>6, <1>7 DEF Next

LEMMA InitInv == Init => MuxInv
<1> SUFFICES ASSUME Init PROVE MuxInv
  OBVIOUS
<1>1. TypeOK
  <2>1. NoFrame \in Frames
    BY DEF NoFrame, F, Frames, Frame
  <2>2. /\ sent \in [Ends -> [Streams -> Nat]] /\ hand \in [Ends -> [Streams -> Nat]]
        /\ delivered \in [Ends -> [Streams -> Seq(Nat)]]
        /\ remote_queue \in [Ends -> [Streams -> Seq(Nat)]]
    BY DEF Init, Each, EofItem
  <2>3. /\ fin \in [Ends -> [Streams -> BOOLEAN]] /\ ended \in [Ends -> [Streams -> BOOLEAN]]
        /\ broken \in [Ends -> [Streams -> BOOLEAN]] /\ listed \in [Ends -> [Streams -> BOOLEAN]]
        /\ local_eof \in [Ends -> [Streams -> BOOLEAN]]
        /\ remote_drained \in [Ends -> [Streams -> BOOLEAN]]
    BY DEF Init, Each
  <2>4. /\ sess \in [Ends -> [Streams -> {"none", "open", "closed"}]]
        /\ writer \in [Ends -> [Streams -> {"none", "get", "write", "close", "rst", "done"}]]
        /\ pump \in [Ends -> [Streams -> {"none", "chosen", "open", "failed", "recv", "data", "fin",
                                    "mark", "rst", "done"}]]
    BY DEF Init, Each
  <2>5. /\ reader \in [Ends -> {"recv", "dial", "reply", "done"}] /\ handling \in [Ends -> Frames]
        /\ \A e \in Ends : reader[e] = "recv"
        /\ running \in [Ends -> BOOLEAN] /\ cleared \in [Ends -> BOOLEAN] /\ pings \in [Ends -> Nat]
        /\ wire \in [Ends -> Seq(Frames)] /\ cut \in BOOLEAN /\ setting \in Settings
    <3>1. handling \in [Ends -> Frames] /\ wire \in [Ends -> Seq(Frames)]
      BY <2>1 DEF Init
    <3> QED BY <3>1 DEF Init

  <2> QED BY <2>2, <2>3, <2>4, <2>5 DEF TypeOK
<1>2. ASSUME NEW t \in Streams PROVE StreamInv(t)
  <2>1. \A e \in Ends : /\ sess[e][t] = "none" /\ ~listed[e][t] /\ remote_queue[e][t] = <<>>
                        /\ delivered[e][t] = <<>> /\ ~ended[e][t] /\ ~fin[e][t] /\ sent[e][t] = 0
                        /\ writer[e][t] = "none" /\ pump[e][t] = "none" /\ wire[e] = <<>>
                        /\ reader[e] = "recv"
    BY DEF Init, Each
  <2>2. \A s, k : ~Holds(<<>>, s, k) /\ ~HoldsChunk(<<>>, s, k)
    BY DEF Holds, HoldsChunk
  <2>3. Ordered(<<>>, t)
    BY DEF Ordered
  <2>4. "internal" \in Ends /\ "external" \in Ends /\ \A e \in Ends : Peer(e) \in Ends
    BY PeerEnd DEF Ends
  <2>5. OpenOf(t)
    BY <2>1, <2>2, <2>4 DEF OpenOf, Opening, Before, Dialling, Refusing
  <2>6. ASSUME NEW e \in Ends PROVE SessionOf(e, t) /\ SenderOf(e, t)
    BY <2>1, <2>2, <2>3 DEF SessionOf, SenderOf
  <2>7. ASSUME NEW e \in Ends PROVE QueueOf(e, t) /\ ReceiverOf(e, t)
    <3>1. Len(remote_queue[e][t]) = 0 /\ Taken(e, t) = 0
      <4>1. Len(remote_queue[e][t]) = 0 /\ Len(delivered[e][t]) = 0 /\ writer[e][t] # "write"
        BY <2>1
      <4>2. Taken(e, t) = 0 + 0
        BY <4>1 DEF Taken
      <4> QED BY <4>1, <4>2
    <3>2. Passed(Peer(e), t) = 0 /\ pump[Peer(e)][t] = "none" /\ wire[Peer(e)] = <<>>
      BY <2>1, <2>4 DEF Passed
    <3> QED BY <2>1, <2>2, <3>1, <3>2 DEF QueueOf, ReceiverOf
  <2> QED BY <2>5, <2>6, <2>7 DEF StreamInv
<1>3. reader["internal"] # "dial"
  BY DEF Init, Ends
<1> QED BY <1>1, <1>2, <1>3 DEF MuxInv

LEMMA NextInv == MuxInv /\ Next /\ UNCHANGED setting => MuxInv'
<1> SUFFICES ASSUME MuxInv, Next, setting' = setting PROVE MuxInv'
  OBVIOUS
<1>1. TypeOK'
  BY TypeStep DEF MuxInv
<1>2. Streams' = Streams
  BY SettingKept
<1>3. \A t \in Streams : StreamInv(t)'
  BY <1>1, StreamStep
<1>4. reader'["internal"] # "dial"
  BY DialStep
<1> QED BY <1>1, <1>2, <1>3, <1>4 DEF MuxInv

LEMMA StutterInv == MuxInv /\ UNCHANGED <<vars, setting>> => MuxInv'
<1> SUFFICES ASSUME MuxInv, UNCHANGED <<vars, setting>> PROVE MuxInv'
  OBVIOUS
<1>1. /\ UNCHANGED <<setting, sent, fin, delivered, ended, broken, sess, listed, remote_queue>>
      /\ UNCHANGED <<local_eof, remote_drained, writer, hand, pump, reader, handling>>
      /\ UNCHANGED <<running, cleared, pings, wire, cut>>
  BY DEF vars, appVars, sessionVars, threadVars, carrierVars
<1>2. Streams' = Streams /\ Frames' = Frames
  BY <1>1, SettingKept
<1>3. TypeOK'
  BY <1>1, <1>2 DEF MuxInv, TypeOK
<1>4. ASSUME NEW t \in Streams PROVE StreamInv(t)'
  <2>1. \A x \in Ends : Same(x, t)
    BY <1>1 DEF Same
  <2> QED BY <1>1, <1>3, <2>1, SameGoesOn, ThreadStep DEF MuxInv, StreamInv
<1> QED BY <1>1, <1>2, <1>3, <1>4 DEF MuxInv


LEMMA Invariance == Spec => []MuxInv
<1>1. MuxInv /\ [Next /\ UNCHANGED setting]_<<vars, setting>> => MuxInv'
  BY NextInv, StutterInv
<1> QED BY InitInv, <1>1, PTL DEF Spec
-----------------------------------------------------------------------------
(* Theorems *)

(* Sessions, queues, threads and frames have their types in every state.   *)
THEOREM TypeCorrect == Spec => []TypeOK
<1>1. MuxInv => TypeOK
  BY DEF MuxInv
<1> QED BY <1>1, Invariance, PTL

(* mark_local_eof and the end of the writer, each under the session's      *)
(* lock: whichever comes last closes the session.                          *)
CloseOf(e, s) ==
  sess[e][s] = "open" /\ running[e] =>
    /\ pump[e][s] = "done" => local_eof[e][s]
    /\ writer[e][s] = "done" => remote_drained[e][s] /\ ~local_eof[e][s]
CloseInv == \A e \in Ends, s \in Streams : CloseOf(e, s)

CloseRests(x, t) ==
  sess'[x][t] = "open" /\ running'[x] =>
    /\ sess[x][t] = "open" /\ running[x]
    /\ pump'[x][t] = "done" => pump[x][t] = "done"
    /\ writer'[x][t] = "done" => writer[x][t] = "done"
    /\ local_eof'[x][t] = local_eof[x][t] /\ remote_drained'[x][t] = remote_drained[x][t]

LEMMA CloseKept ==
  ASSUME NEW x, NEW t, CloseOf(x, t), CloseRests(x, t) PROVE CloseOf(x, t)'
BY DEF CloseOf, CloseRests

LEMMA ClosesSession ==
  ASSUME TypeOK, NEW e \in Ends, NEW S, Close(e, S), NEW x \in Ends, NEW t \in Streams
  PROVE  /\ sess'[x][t] = "open" => sess[x][t] = "open"
         /\ x = e /\ t \in S => sess'[x][t] # "open"
<1>1. IF x = e /\ t \in S /\ sess[x][t] = "open"
      THEN sess'[x][t] = "closed" /\ ~listed'[x][t]
      ELSE /\ sess'[x][t] = sess[x][t] /\ listed'[x][t] = listed[x][t]
           /\ remote_queue'[x][t] = remote_queue[x][t]
  BY CloseEffect
<1> QED BY <1>1

(* A step that changes a pump and a writer, and opens no session.          *)
LEMMA ThreadCloses ==
  ASSUME TypeOK, NEW e \in Ends, NEW s \in Streams, NEW x \in Ends, NEW t \in Streams,
         UNCHANGED <<running, local_eof, remote_drained>>,
         sess'[x][t] = "open" => sess[x][t] = "open",
         UNCHANGED pump \/ \E v : pump' = [pump EXCEPT ![e][s] = v],
         UNCHANGED writer \/ \E v : writer' = [writer EXCEPT ![e][s] = v],
         sess'[e][s] = "open" /\ running[e] =>
           /\ pump'[e][s] = "done" => pump[e][s] = "done"
           /\ writer'[e][s] = "done" => writer[e][s] = "done"
  PROVE  CloseRests(x, t)
<1>1. (x = e /\ t = s) \/ pump'[x][t] = pump[x][t]
  BY ChangedAt, TypesOfAll
<1>2. (x = e /\ t = s) \/ writer'[x][t] = writer[x][t]
  BY ChangedAt, TypesOfAll
<1> QED BY <1>1, <1>2 DEF CloseRests

LEMMA UserCloses ==
  ASSUME TypeOK, CloseInv, NEW s \in Streams, UserThread(s), NEW x \in Ends, NEW t \in Streams
  PROVE  CloseOf(x, t)'
<1>1. "internal" \in Ends
  BY DEF Ends
<1>2. CASE ChooseCarrier(s)
  <2>1. pump'["internal"][s] = "chosen"
    BY <1>1, <1>2, ChangedAt, TypesOfAll DEF ChooseCarrier
  <2> QED BY <1>1, <1>2, <2>1, ThreadCloses, CloseKept DEF ChooseCarrier, sessionVars, carrierVars, CloseInv
<1>3. CASE StartLocalStream(s)
  <2>1. CASE x = "internal" /\ t = s
    BY <1>1, <1>3, <2>1, RegisterEffect DEF StartLocalStream, CloseOf
  <2>2. CASE ~(x = "internal" /\ t = s)
    <3>1. CloseRests(x, t)
      BY <1>1, <1>3, <2>2, RegisterEffect DEF StartLocalStream, CloseRests, carrierVars
    <3> QED BY <3>1, CloseKept DEF CloseInv
  <2> QED BY <2>1, <2>2
<1>4. CASE SendOpen(s)
  <2>1. /\ UNCHANGED <<running, local_eof, remote_drained, sess, writer>>
        /\ \E v : pump' = [pump EXCEPT !["internal"][s] = v]
    BY <1>4 DEF SendOpen, sessionVars, carrierVars
  <2>2. pump'["internal"][s] = IF sess["internal"][s] = "open" THEN "recv" ELSE "done"
    <3>1. pump' = [pump EXCEPT !["internal"][s] = IF sess["internal"][s] = "open" THEN "recv" ELSE "done"]
      BY <1>4 DEF SendOpen
    <3> QED BY <1>1, <3>1, ChangedAt, TypesOfAll
  <2>3. CloseRests(x, t)
    BY <1>1, <2>1, <2>2, ThreadCloses
  <2> QED BY <2>3, CloseKept DEF CloseInv
<1>5. CASE SendOpenFails(s)
  <2>1. pump'["internal"][s] = "failed"
    BY <1>1, <1>5, ChangedAt, TypesOfAll DEF SendOpenFails
  <2> QED BY <1>1, <1>5, <2>1, ThreadCloses, CloseKept DEF SendOpenFails, sessionVars, carrierVars, CloseInv
<1> QED BY <1>2, <1>3, <1>4, <1>5 DEF UserThread

LEMMA PumpCloses ==
  ASSUME TypeOK, CloseInv, NEW e \in Ends, NEW s \in Streams, Pump(e, s),
         NEW x \in Ends, NEW t \in Streams
  PROVE  CloseOf(x, t)'
<1>0. CloseOf(x, t) /\ CloseOf(e, s)
  BY DEF CloseInv
<1>1. CASE \/ PumpRead(e, s) \/ PumpEof(e, s) \/ PumpSendData(e, s) \/ PumpWoken(e, s)
           \/ PumpBroken(e, s) \/ PumpSendFin(e, s) \/ PumpStops(e, s)
  <2>1. UNCHANGED <<running, local_eof, remote_drained, sess, writer>>
    BY <1>1 DEF PumpRead, PumpEof, PumpSendData, PumpWoken, PumpBroken, PumpSendFin, PumpStops,
       sessionVars, carrierVars
  <2>2. \E v : pump' = [pump EXCEPT ![e][s] = v]
    BY <1>1 DEF PumpRead, PumpEof, PumpSendData, PumpWoken, PumpBroken, PumpSendFin, PumpStops
  <2>3. pump'[e][s] = "done" => sess[e][s] # "open" \/ ~running[e]
    <3>1. CASE PumpRead(e, s) \/ PumpEof(e, s) \/ PumpBroken(e, s) \/ PumpSendFin(e, s)
      <4>1. \E v \in {"data", "fin", "rst", "mark"} : pump' = [pump EXCEPT ![e][s] = v]
        BY <3>1 DEF PumpRead, PumpEof, PumpBroken, PumpSendFin
      <4> QED BY <4>1, ChangedAt, TypesOfAll
    <3>2. CASE PumpSendData(e, s)
      <4>1. pump' = [pump EXCEPT ![e][s] = IF sess[e][s] = "open" THEN "recv" ELSE "done"]
        BY <3>2 DEF PumpSendData
      <4>2. pump'[e][s] = IF sess[e][s] = "open" THEN "recv" ELSE "done"
        BY <4>1, ChangedAt, TypesOfAll
      <4> QED BY <4>2
    <3>3. CASE PumpWoken(e, s) \/ PumpStops(e, s)
      BY <3>3 DEF PumpWoken, PumpStops, SockClosed
    <3> QED BY <1>1, <3>1, <3>2, <3>3
  <2>4. CloseRests(x, t)
    BY <2>1, <2>2, <2>3, ThreadCloses
  <2> QED BY <1>0, <2>4, CloseKept
<1>2. CASE PumpSendRst(e, s) \/ PumpSendFails(e, s)
  <2>1. /\ Close(e, {s}) /\ UNCHANGED <<running, local_eof, remote_drained, writer>>
        /\ pump' = [pump EXCEPT ![e][s] = "done"]
    BY <1>2 DEF PumpSendRst, PumpSendFails, carrierVars
  <2>2. sess'[e][s] # "open" /\ (sess'[x][t] = "open" => sess[x][t] = "open")
    BY <2>1, ClosesSession
  <2>3. CloseRests(x, t)
    BY <2>1, <2>2, ThreadCloses
  <2> QED BY <1>0, <2>3, CloseKept
<1>3. CASE PumpMark(e, s)
  <2>1. PICK S : Close(e, S) /\ S = IF remote_drained[e][s] THEN {s} ELSE {}
    BY <1>3 DEF PumpMark
  <2>2. /\ sess'[x][t] = "open" => sess[x][t] = "open"
        /\ sess'[e][s] = "open" => ~remote_drained[e][s]
    BY <2>1, ClosesSession
  <2>3. /\ pump'[e][s] = "done" /\ local_eof'[e][s]
        /\ ~(x = e /\ t = s) => pump'[x][t] = pump[x][t] /\ local_eof'[x][t] = local_eof[x][t]
    <3>1. local_eof \in [Ends -> [Streams -> BOOLEAN]] /\ local_eof' = [local_eof EXCEPT ![e][s] = TRUE]
          /\ pump' = [pump EXCEPT ![e][s] = "done"]
      BY <1>3 DEF PumpMark, TypeOK
    <3>2. /\ pump'[e][s] = "done"
          /\ ~(x = e /\ t = s) => pump'[x][t] = pump[x][t]
      BY <3>1, ChangedAt, TypesOfAll
    <3>3. /\ local_eof'[e][s]
          /\ ~(x = e /\ t = s) => local_eof'[x][t] = local_eof[x][t]
      BY <3>1
    <3> QED BY <3>2, <3>3
  <2>4. UNCHANGED <<running, remote_drained, writer>>
    BY <1>3 DEF PumpMark, carrierVars
  <2>5. CASE x = e /\ t = s
    BY <1>0, <2>2, <2>3, <2>4, <2>5 DEF CloseOf
  <2>6. CASE ~(x = e /\ t = s)
    <3>1. CloseRests(x, t)
      BY <2>2, <2>3, <2>4, <2>6 DEF CloseRests
    <3> QED BY <1>0, <3>1, CloseKept
  <2> QED BY <2>5, <2>6
<1> QED BY <1>1, <1>2, <1>3 DEF Pump

LEMMA WriterCloses ==
  ASSUME TypeOK, CloseInv, NEW e \in Ends, NEW s \in Streams, Writer(e, s) \/ WriterDeliver(e, s),
         SessionOf(e, s), NEW x \in Ends, NEW t \in Streams
  PROVE  CloseOf(x, t)'
<1>0. CloseOf(x, t) /\ CloseOf(e, s)
  BY DEF CloseInv
<1>1. CASE \/ WriterTake(e, s) \/ WriterDeliver(e, s) \/ WriterSendRst(e, s) \/ WriterStops(e, s)
  <2>1. UNCHANGED <<running, local_eof, remote_drained, sess, pump>>
    BY <1>1 DEF WriterTake, WriterDeliver, WriterSendRst, WriterStops, sessionVars, carrierVars
  <2>2. \E v : writer' = [writer EXCEPT ![e][s] = v]
    BY <1>1 DEF WriterTake, WriterDeliver, WriterSendRst, WriterStops
  <2>3. writer'[e][s] = "done" => sess[e][s] # "open" \/ ~running[e]
    <3>1. CASE WriterTake(e, s)
      <4>1. writer' = [writer EXCEPT ![e][s] = "write"]
        BY <3>1 DEF WriterTake
      <4>2. writer'[e][s] = "write"
        BY <4>1, ChangedAt, TypesOfAll
      <4> QED BY <4>2
    <3>2. CASE WriterDeliver(e, s)
      <4>1. writer' = [writer EXCEPT ![e][s] = IF running[e] /\ sess[e][s] = "open" THEN "get" ELSE "done"]
        BY <3>2 DEF WriterDeliver
      <4>2. writer'[e][s] = IF running[e] /\ sess[e][s] = "open" THEN "get" ELSE "done"
        BY <4>1, ChangedAt, TypesOfAll
      <4> QED BY <4>2
    <3>3. CASE WriterSendRst(e, s) \/ WriterStops(e, s)
      BY <3>3 DEF WriterSendRst, WriterStops, SessionOf
    <3> QED BY <1>1, <3>1, <3>2, <3>3
  <2>4. CloseRests(x, t)
    BY <2>1, <2>2, <2>3, ThreadCloses
  <2> QED BY <1>0, <2>4, CloseKept
<1>2. CASE WriterClose(e, s) \/ WriterFails(e, s)
  <2>1. /\ UNCHANGED <<running, local_eof, remote_drained, pump>>
        /\ \E v : writer' = [writer EXCEPT ![e][s] = v]
    <3>1. CASE WriterClose(e, s)
      BY <3>1 DEF WriterClose, carrierVars
    <3>2. CASE WriterFails(e, s) /\ sess[e][s] = "open" /\ running[e]
      BY <3>2 DEF WriterFails, carrierVars
    <3>3. CASE WriterFails(e, s) /\ ~(sess[e][s] = "open" /\ running[e])
      BY <3>3 DEF WriterFails, carrierVars
    <3> QED BY <1>2, <3>1, <3>2, <3>3
  <2>2. sess'[e][s] # "open" /\ (sess'[x][t] = "open" => sess[x][t] = "open")
    <3>1. CASE WriterClose(e, s)
      BY <3>1, ClosesSession DEF WriterClose

    <3>2. CASE WriterFails(e, s)
      <4>1. sess' = [sess EXCEPT ![e][s] = "closed"]
        BY <3>2 DEF WriterFails
      <4> QED BY <4>1, ChangedAt, TypesOfAll
    <3> QED BY <1>2, <3>1, <3>2
  <2>3. CloseRests(x, t)
    BY <2>1, <2>2, ThreadCloses
  <2> QED BY <1>0, <2>3, CloseKept
<1>3. CASE WriterEof(e, s)
  <2>1. /\ UNCHANGED <<running, local_eof, pump, sess>>
        /\ writer' = [writer EXCEPT ![e][s] = IF local_eof[e][s] THEN "close" ELSE "done"]
        /\ remote_drained' = [remote_drained EXCEPT ![e][s] = TRUE]
    BY <1>3 DEF WriterEof, carrierVars
  <2>2. /\ writer'[e][s] = IF local_eof[e][s] THEN "close" ELSE "done"
        /\ ~(x = e /\ t = s) => writer'[x][t] = writer[x][t]
    BY <2>1, ChangedAt, TypesOfAll
  <2>3. /\ remote_drained'[e][s]
        /\ ~(x = e /\ t = s) => remote_drained'[x][t] = remote_drained[x][t]
    BY <2>1 DEF TypeOK
  <2>4. CASE x = e /\ t = s
    BY <1>0, <2>1, <2>2, <2>3, <2>4 DEF CloseOf
  <2>5. CASE ~(x = e /\ t = s)
    <3>1. CloseRests(x, t)
      BY <2>1, <2>2, <2>3, <2>5 DEF CloseRests
    <3> QED BY <1>0, <3>1, CloseKept
  <2> QED BY <2>4, <2>5
<1> QED BY <1>1, <1>2, <1>3 DEF Writer
(* The steps that leave the threads of the streams alone.                  *)
LEMMA OtherCloses ==
  ASSUME NEW x \in Ends, NEW t \in Streams, CloseInv, UNCHANGED threadVars,
         sess'[x][t] = "open" => sess[x][t] = "open", running'[x] => running[x]
  PROVE  CloseOf(x, t)'
<1>1. CloseRests(x, t)
  BY DEF CloseRests, threadVars
<1> QED BY <1>1, CloseKept DEF CloseInv

LEMMA ReaderCloses ==
  ASSUME TypeOK, CloseInv, NEW e \in Ends, Reader(e), NEW x \in Ends, NEW t \in Streams
  PROVE  CloseOf(x, t)'
<1>1. CASE ReadOpen(e) \/ DialFails(e) \/ ReadPing(e) \/ ReadPong(e)
  BY <1>1, OtherCloses DEF ReadOpen, DialFails, ReadPing, ReadPong, Answer, sessionVars, carrierVars
<1>2. CASE Dialled(e)
  <2>1. PICK s \in Streams : s = handling[e].stream
    <3>1. handling[e] \in Frames /\ handling[e].type = "OPEN"
      BY <1>2 DEF Dialled, TypeOK
    <3> QED BY <3>1, FrameStream
  <2>2. Register(e, s, "recv") /\ UNCHANGED <<local_eof, remote_drained, running>>
    BY <1>2, <2>1 DEF Dialled
  <2>3. CASE x = e /\ t = s
    BY <2>2, <2>3, RegisterEffect DEF CloseOf
  <2>4. CASE ~(x = e /\ t = s)
    <3>1. CloseRests(x, t)
      BY <2>2, <2>4, RegisterEffect DEF CloseRests
    <3> QED BY <3>1, CloseKept DEF CloseInv
  <2> QED BY <2>3, <2>4
<1>3. CASE ReadData(e)
  BY <1>3, OtherCloses DEF ReadData, Answer, carrierVars
<1>4. CASE ReadFin(e)
  <2>1. UNCHANGED <<sess, threadVars>>
    BY <1>4 DEF ReadFin
  <2>2. running' = running
    <3>1. CASE ~listed[e][Incoming(e).stream]
      BY <1>4, <3>1 DEF ReadFin, carrierVars
    <3>2. CASE listed[e][Incoming(e).stream] /\ Len(remote_queue[e][Incoming(e).stream]) < QueueSize
      BY <1>4, <3>2 DEF ReadFin, carrierVars
    <3>3. CASE listed[e][Incoming(e).stream] /\ ~(Len(remote_queue[e][Incoming(e).stream]) < QueueSize)
      BY <1>4, <3>3 DEF ReadFin, Answer
    <3> QED BY <3>1, <3>2, <3>3
  <2> QED BY <2>1, <2>2, OtherCloses
<1>5. CASE ReadRst(e) \/ SendReply(e)
  <2>1. UNCHANGED <<threadVars, running>> /\ \E S : Close(e, S)
    BY <1>5 DEF ReadRst, SendReply, carrierVars
  <2>2. sess'[x][t] = "open" => sess[x][t] = "open"
    BY <2>1, ClosesSession
  <2> QED BY <2>1, <2>2, OtherCloses
<1>6. CASE ReaderEnds(e)
  <2>1. running'[x] => running[x]
    BY <1>6 DEF ReaderEnds, TypeOK
  <2> QED BY <1>6, <2>1, OtherCloses DEF ReaderEnds, sessionVars
<1> QED BY <1>1, <1>2, <1>3, <1>4, <1>5, <1>6 DEF Reader

LEMMA CarrierCloses ==
  ASSUME TypeOK, CloseInv, NEW x \in Ends, NEW t \in Streams,
         \/ Cut
         \/ \E e \in Ends : SendPing(e) \/ Carrier(e)
         \/ \E e \in Ends, s \in Streams : MonitorCloses(e, s) \/ Break(e, s)
  PROVE  CloseOf(x, t)'
<1>1. CASE Cut \/ (\E e \in Ends : SendPing(e)) \/ (\E e \in Ends, s \in Streams : Break(e, s))
  <2>1. UNCHANGED <<sess, threadVars, running>>
    BY <1>1 DEF Cut, SendPing, Break, sessionVars, carrierVars
  <2> QED BY <2>1, OtherCloses
<1>2. ASSUME NEW e \in Ends, Carrier(e) PROVE CloseOf(x, t)'
  <2>1. CASE HeartbeatFails(e)
    <3>1. running'[x] => running[x]
      BY <2>1 DEF HeartbeatFails, TypeOK
    <3> QED BY <2>1, <3>1, OtherCloses DEF HeartbeatFails, sessionVars
  <2>2. CASE ClearStreams(e)
    <3>1. IF x = e /\ listed[x][t]
          THEN sess'[x][t] = "closed" /\ ~listed'[x][t]
          ELSE /\ sess'[x][t] = sess[x][t] /\ listed'[x][t] = listed[x][t]
               /\ remote_queue'[x][t] = remote_queue[x][t]
      BY <2>2, ClearEffect
    <3>2. UNCHANGED <<threadVars, running>>
      BY <2>2 DEF ClearStreams
    <3> QED BY <3>1, <3>2, OtherCloses
  <2> QED BY <1>2, <2>1, <2>2 DEF Carrier
<1>3. ASSUME NEW e \in Ends, NEW s \in Streams, MonitorCloses(e, s) PROVE CloseOf(x, t)'
  <2>1. UNCHANGED <<threadVars, running>> /\ Close(e, {s})
    BY <1>3 DEF MonitorCloses, carrierVars
  <2>2. sess'[x][t] = "open" => sess[x][t] = "open"
    BY <2>1, ClosesSession
  <2> QED BY <2>1, <2>2, OtherCloses
<1> QED BY <1>1, <1>2, <1>3

LEMMA CloseStep == MuxInv /\ CloseInv /\ [Next /\ UNCHANGED setting]_<<vars, setting>> => CloseInv'
<1> SUFFICES ASSUME MuxInv, CloseInv, [Next /\ UNCHANGED setting]_<<vars, setting>> PROVE CloseInv'
  OBVIOUS
<1>1. TypeOK /\ Streams' = Streams /\ \A e \in Ends, s \in Streams : SessionOf(e, s)
  BY SettingKept DEF MuxInv, StreamInv
<1>2. SUFFICES ASSUME NEW x \in Ends, NEW t \in Streams PROVE CloseOf(x, t)'
  BY <1>1 DEF CloseInv
<1>3. CASE UNCHANGED <<vars, setting>>
  BY <1>3 DEF CloseInv, CloseOf, vars, sessionVars, threadVars, carrierVars
<1>4. CASE Next
  <2>1. CASE \E s \in Streams : UserThread(s)
    BY <1>1, <2>1, UserCloses
  <2>2. CASE \E e \in Ends, s \in Streams : Pump(e, s)
    BY <1>1, <2>2, PumpCloses
  <2>3. CASE \E e \in Ends, s \in Streams : Writer(e, s) \/ WriterDeliver(e, s)
    BY <1>1, <2>3, WriterCloses
  <2>4. CASE \E e \in Ends : Reader(e)
    BY <1>1, <2>4, ReaderCloses
  <2>5. CASE \/ Cut
             \/ \E e \in Ends : SendPing(e) \/ Carrier(e)
             \/ \E e \in Ends, s \in Streams : MonitorCloses(e, s) \/ Break(e, s)
    BY <1>1, <2>5, CarrierCloses
  <2> QED BY <1>4, <2>1, <2>2, <2>3, <2>4, <2>5 DEF Next
<1> QED BY <1>3, <1>4

(* Of the two threads that end a session one closes it: on a carrier that  *)
(* runs, no session is left open whose pump and writer are done.           *)
THEOREM ClosedByOne == Spec => []OneThreadCloses
<1>1. Init => CloseInv
  BY DEF Init, Each, CloseInv, CloseOf
<1>2. MuxInv /\ CloseInv => OneThreadCloses
  <2> SUFFICES ASSUME MuxInv, CloseInv, NEW e \in Ends, NEW s \in Streams,
                      pump[e][s] = "done", writer[e][s] = "done", running[e]
               PROVE  sess[e][s] = "closed"
    BY DEF OneThreadCloses
  <2>1. SessionOf(e, s) /\ CloseOf(e, s)
    BY DEF MuxInv, StreamInv, CloseInv
  <2>2. sess[e][s] \in {"none", "open", "closed"}
    BY TypesAt DEF MuxInv
  <2> QED BY <2>1, <2>2 DEF SessionOf, CloseOf
<1> QED BY <1>1, <1>2, CloseStep, Invariance, PTL DEF Spec
-----------------------------------------------------------------------------
(* A carrier that is closed releases the users' threads. *)

(* session.done is set for every user that waits on a carrier whose close  *)
(* has cleared its streams.                                                *)
LostCarrierReleases ==
  cleared["internal"] => \A s \in Streams : Waiting(s) => sess["internal"][s] = "closed"

(* A session registered after that is one whose OPEN frame cannot be sent. *)
ClearedOf(s) ==
  cleared["internal"] =>
    /\ ~running["internal"]
    /\ sess["internal"][s] = "open" => pump["internal"][s] \in {"open", "failed"}
ClearedInv == \A s \in Streams : ClearedOf(s)

ClearedRests(t) ==
  cleared'["internal"] =>
    /\ cleared["internal"] /\ (running'["internal"] => running["internal"])
    /\ sess'["internal"][t] = "open" =>
         \/ sess["internal"][t] = "open" /\ pump'["internal"][t] = pump["internal"][t]
         \/ pump'["internal"][t] \in {"open", "failed"}

LEMMA ClearedKept == ASSUME NEW t, ClearedOf(t), ClearedRests(t) PROVE ClearedOf(t)'
BY DEF ClearedOf, ClearedRests

LEMMA UserReleased ==
  ASSUME TypeOK, ClearedInv, NEW s \in Streams, SessionOf("internal", s), UserThread(s), NEW t \in Streams
  PROVE  ClearedOf(t)'
<1>0. "internal" \in Ends /\ ClearedOf(t)
  BY DEF Ends, ClearedInv
<1>1. UNCHANGED carrierVars
  BY DEF UserThread, ChooseCarrier, StartLocalStream, SendOpen, SendOpenFails
<1>2. CASE StartLocalStream(s)
  BY <1>0, <1>1, <1>2, RegisterEffect, ClearedKept DEF StartLocalStream, ClearedRests, carrierVars
<1>3. CASE ChooseCarrier(s) \/ SendOpen(s)
  BY <1>0, <1>1, <1>3 DEF ChooseCarrier, SendOpen, ClearedOf, carrierVars
<1>4. CASE SendOpenFails(s)
  <2>1. UNCHANGED sess /\ pump' = [pump EXCEPT !["internal"][s] = "failed"]
    BY <1>4 DEF SendOpenFails, sessionVars
  <2>2. pump'["internal"][t] \in {pump["internal"][t], "failed"}
    BY <1>0, <2>1, ChangedAt, TypesOfAll
  <2> QED BY <1>0, <1>1, <2>1, <2>2, ClearedKept DEF ClearedRests, carrierVars
<1> QED BY <1>2, <1>3, <1>4 DEF UserThread

(* The steps of a stream's pump and writer, which open no session.         *)
LEMMA ThreadReleased ==
  ASSUME TypeOK, ClearedInv, NEW e \in Ends, NEW s \in Streams,
         Pump(e, s) \/ Writer(e, s) \/ WriterDeliver(e, s), NEW t \in Streams
  PROVE  ClearedOf(t)'
<1>0. "internal" \in Ends /\ ClearedOf(t) /\ ClearedOf(s)
  BY DEF Ends, ClearedInv
<1>1. UNCHANGED <<running, cleared>>
  BY DEF Pump, PumpRead, PumpEof, PumpSendData, PumpWoken, PumpBroken, PumpSendFin, PumpMark,
     PumpSendRst, PumpSendFails, PumpStops, Writer, WriterTake, WriterEof, WriterClose, WriterFails,
     WriterSendRst, WriterStops, WriterDeliver, carrierVars
<1>2. sess'["internal"][t] = "open" => sess["internal"][t] = "open"
  <2>1. \/ UNCHANGED sess
        \/ \E S : Close(e, S)
        \/ sess' = [sess EXCEPT ![e][s] = "closed"]
    BY DEF Pump, PumpRead, PumpEof, PumpSendData, PumpWoken, PumpBroken, PumpSendFin, PumpMark,
       PumpSendRst, PumpSendFails, PumpStops, Writer, WriterTake, WriterEof, WriterClose, WriterFails,
       WriterSendRst, WriterStops, WriterDeliver, sessionVars
  <2>2. CASE \E S : Close(e, S)
    BY <1>0, <2>2, ClosesSession
  <2>3. CASE sess' = [sess EXCEPT ![e][s] = "closed"]
    BY <1>0, <2>3 DEF TypeOK
  <2> QED BY <2>1, <2>2, <2>3
<1>3. CASE Writer(e, s) \/ WriterDeliver(e, s)
  <2>1. UNCHANGED pump
    BY <1>3 DEF Writer, WriterTake, WriterEof, WriterClose, WriterFails, WriterSendRst, WriterStops,
       WriterDeliver
  <2> QED BY <1>0, <1>1, <1>2, <2>1, ClearedKept DEF ClearedRests
<1>4. CASE Pump(e, s)
  <2>1. pump[e][s] \notin {"open", "failed"} /\ \E v : pump' = [pump EXCEPT ![e][s] = v]
    BY <1>4 DEF Pump, PumpRead, PumpEof, PumpSendData, PumpWoken, PumpBroken, PumpSendFin, PumpMark,
       PumpSendRst, PumpSendFails, PumpStops
  <2>2. CASE e = "internal" /\ t = s
    BY <1>0, <1>1, <1>2, <2>1, <2>2 DEF ClearedOf
  <2>3. CASE ~(e = "internal" /\ t = s)
    <3>1. pump'["internal"][t] = pump["internal"][t]
      BY <1>0, <2>1, <2>3, ChangedAt, TypesOfAll
    <3> QED BY <1>0, <1>1, <1>2, <3>1, ClearedKept DEF ClearedRests
  <2> QED BY <2>2, <2>3
<1> QED BY <1>3, <1>4

(* The reader of the internal end dials nothing.                           *)
LEMMA ReaderReleased ==
  ASSUME MuxInv, ClearedInv, NEW e \in Ends, Reader(e), NEW t \in Streams
  PROVE  ClearedOf(t)'
<1>0. TypeOK /\ "internal" \in Ends /\ ClearedOf(t)
  BY DEF Ends, ClearedInv, MuxInv
<1>1. cleared' = cleared /\ (running'["internal"] => running["internal"])
  <2>1. CASE ReaderEnds(e)
    BY <1>0, <2>1 DEF ReaderEnds, TypeOK
  <2>2. CASE ReadFin(e)
    <3>1. UNCHANGED carrierVars \/ Answer(e, F("RST", Incoming(e).stream))
      BY <2>2 DEF ReadFin
    <3> QED BY <3>1 DEF Answer, carrierVars
  <2>3. CASE ~ReaderEnds(e) /\ ~ReadFin(e)
    BY <2>3 DEF Reader, ReadOpen, Dialled, DialFails, ReadPing, ReadPong, ReadData, ReadRst,
       SendReply, Answer, carrierVars
  <2> QED BY <2>1, <2>2, <2>3
<1>2. CASE Dialled(e)
  <2>1. PICK s \in Streams : s = handling[e].stream
    <3>1. handling[e] \in Frames /\ handling[e].type = "OPEN"
      BY <1>0, <1>2 DEF Dialled, TypeOK
    <3> QED BY <3>1, FrameStream
  <2>2. e # "internal" /\ Register(e, s, "recv")
    BY <1>2, <2>1, OnlyExternalDials DEF Dialled
  <2>3. sess'["internal"][t] = sess["internal"][t] /\ pump'["internal"][t] = pump["internal"][t]
    BY <1>0, <2>2, RegisterEffect
  <2> QED BY <1>0, <1>1, <2>3, ClearedKept DEF ClearedRests
<1>3. CASE ~Dialled(e)
  <2>1. pump' = pump /\ (sess' = sess \/ \E S : Close(e, S))
    BY <1>3 DEF Reader, ReadOpen, DialFails, ReadPing, ReadPong, ReadData, ReadFin, ReadRst,
       SendReply, ReaderEnds, threadVars, sessionVars
  <2>2. sess'["internal"][t] = "open" => sess["internal"][t] = "open"
    BY <1>0, <2>1, ClosesSession
  <2> QED BY <1>0, <1>1, <2>1, <2>2, ClearedKept DEF ClearedRests
<1> QED BY <1>2, <1>3

LEMMA CarrierReleased ==
  ASSUME TypeOK, ClearedInv, NEW t \in Streams, SessionOf("internal", t),
         \/ Cut
         \/ \E e \in Ends : SendPing(e) \/ Carrier(e)
         \/ \E e \in Ends, s \in Streams : MonitorCloses(e, s) \/ Break(e, s)
  PROVE  ClearedOf(t)'
<1>0. "internal" \in Ends /\ ClearedOf(t)
  BY DEF Ends, ClearedInv
<1>1. CASE Cut \/ (\E e \in Ends : SendPing(e)) \/ (\E e \in Ends, s \in Streams : Break(e, s))
  <2>1. UNCHANGED <<sess, pump, running, cleared>>
    BY <1>1 DEF Cut, SendPing, Break, sessionVars, threadVars, carrierVars
  <2> QED BY <1>0, <2>1, ClearedKept DEF ClearedRests
<1>2. ASSUME NEW e \in Ends, HeartbeatFails(e) PROVE ClearedOf(t)'
  <2>1. /\ UNCHANGED <<sess, pump, cleared>>
        /\ running'["internal"] => running["internal"]
    BY <1>0, <1>2 DEF HeartbeatFails, sessionVars, threadVars, TypeOK
  <2> QED BY <1>0, <2>1, ClearedKept DEF ClearedRests
<1>3. ASSUME NEW e \in Ends, ClearStreams(e) PROVE ClearedOf(t)'
  <2>1. /\ UNCHANGED <<pump, running>> /\ ~running[e] /\ cleared' = [cleared EXCEPT ![e] = TRUE]
        /\ sess'["internal"][t] = IF e = "internal" /\ listed["internal"][t]
                                  THEN "closed" ELSE sess["internal"][t]
    BY <1>0, <1>3, ClearEffect DEF ClearStreams, threadVars
  <2>2. CASE e = "internal"
    BY <2>1, <2>2 DEF ClearedOf, SessionOf
  <2>3. CASE e # "internal"
    <3>1. cleared'["internal"] = cleared["internal"]
      BY <1>0, <2>1, <2>3 DEF TypeOK
    <3> QED BY <1>0, <2>1, <2>3, <3>1, ClearedKept DEF ClearedRests
  <2> QED BY <2>2, <2>3
<1>4. ASSUME NEW e \in Ends, NEW s \in Streams, MonitorCloses(e, s) PROVE ClearedOf(t)'
  <2>1. UNCHANGED <<pump, running, cleared>> /\ Close(e, {s})
    BY <1>4 DEF MonitorCloses, threadVars, carrierVars
  <2>2. sess'["internal"][t] = "open" => sess["internal"][t] = "open"
    BY <1>0, <2>1, ClosesSession
  <2> QED BY <1>0, <2>1, <2>2, ClearedKept DEF ClearedRests
<1> QED BY <1>1, <1>2, <1>3, <1>4 DEF Carrier

LEMMA ReleaseStep ==
  MuxInv /\ ClearedInv /\ [Next /\ UNCHANGED setting]_<<vars, setting>> => ClearedInv'
<1> SUFFICES ASSUME MuxInv, ClearedInv, [Next /\ UNCHANGED setting]_<<vars, setting>> PROVE ClearedInv'
  OBVIOUS
<1>1. TypeOK /\ Streams' = Streams /\ \A s \in Streams : SessionOf("internal", s)
  BY SettingKept DEF MuxInv, StreamInv, Ends
<1>2. SUFFICES ASSUME NEW t \in Streams PROVE ClearedOf(t)'
  BY <1>1 DEF ClearedInv
<1>3. CASE UNCHANGED <<vars, setting>>
  BY <1>3 DEF ClearedInv, ClearedOf, vars, sessionVars, threadVars, carrierVars
<1>4. CASE Next
  <2>1. CASE \E s \in Streams : UserThread(s)
    BY <1>1, <2>1, UserReleased
  <2>2. CASE \E e \in Ends, s \in Streams : Pump(e, s) \/ Writer(e, s) \/ WriterDeliver(e, s)
    BY <1>1, <2>2, ThreadReleased
  <2>3. CASE \E e \in Ends : Reader(e)
    BY <2>3, ReaderReleased
  <2>4. CASE \/ Cut
             \/ \E e \in Ends : SendPing(e) \/ Carrier(e)
             \/ \E e \in Ends, s \in Streams : MonitorCloses(e, s) \/ Break(e, s)
    BY <1>1, <2>4, CarrierReleased
  <2> QED BY <1>4, <2>1, <2>2, <2>3, <2>4 DEF Next
<1> QED BY <1>3, <1>4

(* A carrier whose connection is lost releases every user thread that      *)
(* waits on one of its sessions: close() closes the sessions it has listed,*)
(* and one registered behind its back is not waited for, since its OPEN    *)
(* frame is refused.                                                       *)
THEOREM LostCarrierReleasesUsers == Spec => []LostCarrierReleases
<1>1. Init => ClearedInv
  BY DEF Init, ClearedInv, ClearedOf, Ends
<1>2. MuxInv /\ ClearedInv => LostCarrierReleases
  <2> SUFFICES ASSUME MuxInv, ClearedInv, cleared["internal"], NEW s \in Streams, Waiting(s)
               PROVE  sess["internal"][s] = "closed"
    BY DEF LostCarrierReleases
  <2>1. "internal" \in Ends /\ SessionOf("internal", s) /\ ClearedOf(s)
    BY DEF Ends, MuxInv, StreamInv, ClearedInv
  <2>2. sess["internal"][s] \in {"none", "open", "closed"}
    BY <2>1, TypesAt DEF MuxInv
  <2> QED BY <2>1, <2>2 DEF SessionOf, ClearedOf, Waiting
<1> QED BY <1>1, <1>2, ReleaseStep, Invariance, PTL DEF Spec
-----------------------------------------------------------------------------
(* The Watched stream is a pair of TunnelStream's streams.                 *)
AbsSent    == [e \in Ends |-> [i \in 1 .. sent[e][Watched] |-> i]]
AbsFin     == [e \in Ends |-> fin[e][Watched]]
AbsGot     == [e \in Ends |-> delivered[e][Watched]]
AbsEnded   == [e \in Ends |-> ended[e][Watched]]
AbsAborted == [e \in Ends |-> sess[e][Watched] = "closed"]

LEMMA SameEnds == Stream!Ends = Ends /\ \A e : Stream!Peer(e) = Peer(e)
BY DEF Stream!Ends, Ends, Stream!Peer, Peer

(* The chunks 1 .. n.                                                      *)
LEMMA Numbers ==
  ASSUME NEW n \in Nat
  PROVE  /\ [i \in 1 .. n |-> i] \in Seq(Nat) /\ Len([i \in 1 .. n |-> i]) = n
         /\ \A j \in 1 .. n : [i \in 1 .. n |-> i][j] = j
         /\ [i \in 1 .. n + 1 |-> i] = Append([i \in 1 .. n |-> i], n + 1)
<1>1. PICK q : q = [i \in 1 .. n |-> i]
  OBVIOUS
<1>2. q \in Seq(Nat) /\ Len(q) = n /\ \A j \in 1 .. n : q[j] = j
  BY <1>1
<1>3. /\ Append(q, n + 1) \in Seq(Nat) /\ Len(Append(q, n + 1)) = n + 1
      /\ \A j \in 1 .. n : Append(q, n + 1)[j] = j
      /\ Append(q, n + 1)[n + 1] = n + 1
  BY <1>2
<1>4. [i \in 1 .. n + 1 |-> i] \in Seq(Nat) /\ Len([i \in 1 .. n + 1 |-> i]) = n + 1
  OBVIOUS
<1>5. \A j \in 1 .. n + 1 : j \in 1 .. n \/ j = n + 1
  OBVIOUS
<1>6. \A j \in 1 .. n + 1 : [i \in 1 .. n + 1 |-> i][j] = Append(q, n + 1)[j]
  BY <1>3, <1>5
<1>7. [i \in 1 .. n + 1 |-> i] = Append(q, n + 1)
  BY <1>3, <1>4, <1>6
<1> QED BY <1>1, <1>2, <1>7

LEMMA InitImplements == Init => Stream!Init
<1> SUFFICES ASSUME Init PROVE Stream!Init
  OBVIOUS
<1>1. Watched \in Streams
  BY StreamsAssumption DEF Init, Streams, Watched
<1>2. \A e \in Ends : /\ sent[e][Watched] = 0 /\ fin[e][Watched] = FALSE
                      /\ delivered[e][Watched] = <<>>
                      /\ ended[e][Watched] = FALSE /\ sess[e][Watched] = "none"
  BY <1>1 DEF Init, Each
<1>3. [i \in 1 .. 0 |-> i] = <<>>
  OBVIOUS
<1>4. AbsSent = [e \in Ends |-> <<>>]
  BY <1>2, <1>3 DEF AbsSent
<1>5. AbsGot = [e \in Ends |-> <<>>]
  BY <1>2 DEF AbsGot
<1>6. AbsFin = [e \in Ends |-> FALSE]
  BY <1>2 DEF AbsFin
<1>7. AbsEnded = [e \in Ends |-> FALSE]
  BY <1>2 DEF AbsEnded
<1>8. AbsAborted = [e \in Ends |-> FALSE]
  BY <1>2 DEF AbsAborted
<1> QED BY <1>4, <1>5, <1>6, <1>7, <1>8, SameEnds
     DEF Stream!Init, AbsSent, AbsFin, AbsGot, AbsEnded, AbsAborted

LEMMA AbsStays ==
  /\ (\A x \in Ends : sent'[x][Watched] = sent[x][Watched]) => AbsSent' = AbsSent
  /\ (\A x \in Ends : fin'[x][Watched] = fin[x][Watched]) => AbsFin' = AbsFin
  /\ (\A x \in Ends : delivered'[x][Watched] = delivered[x][Watched]) => AbsGot' = AbsGot
  /\ (\A x \in Ends : ended'[x][Watched] = ended[x][Watched]) => AbsEnded' = AbsEnded
  /\ (\A x \in Ends : sess'[x][Watched] = sess[x][Watched]) => AbsAborted' = AbsAborted
BY DEF AbsSent, AbsFin, AbsGot, AbsEnded, AbsAborted

LEMMA AbsStutter ==
  ASSUME AbsSent' = AbsSent, AbsFin' = AbsFin, AbsGot' = AbsGot, AbsEnded' = AbsEnded,
         AbsAborted' = AbsAborted
  PROVE  [Stream!Next]_Stream!vars
BY DEF AbsSent, AbsFin, AbsGot, AbsEnded, AbsAborted, Stream!vars

(* A step in which no chunk and no end is supplied or delivered: at most   *)
(* one end closes the stream.                                              *)
Quiet(e) ==
  /\ UNCHANGED <<sent, fin, delivered, ended>>
  /\ \A x \in Ends : x # e => sess'[x] = sess[x]
  /\ sess[e][Watched] = "closed" => sess'[e][Watched] = "closed"

LEMMA QuietImplements ==
  ASSUME TypeOK, NEW e \in Ends, Quiet(e) PROVE [Stream!Next]_Stream!vars
<1>1. AbsSent' = AbsSent /\ AbsFin' = AbsFin /\ AbsGot' = AbsGot /\ AbsEnded' = AbsEnded
  BY AbsStays DEF Quiet
<1>2. CASE sess'[e][Watched] = "closed" /\ sess[e][Watched] # "closed"
  <2>1. AbsAborted' = [AbsAborted EXCEPT ![e] = TRUE]
    BY <1>2 DEF AbsAborted, Quiet
  <2>2. ~AbsAborted[e]
    BY <1>2 DEF AbsAborted
  <2>3. Stream!Abort(e)
    BY <1>1, <2>1, <2>2 DEF Stream!Abort, AbsSent, AbsFin, AbsGot, AbsEnded, AbsAborted
  <2> QED BY <2>3, SameEnds DEF Stream!Next
<1>3. CASE ~(sess'[e][Watched] = "closed" /\ sess[e][Watched] # "closed")
  <2>1. AbsAborted' = AbsAborted
    BY <1>3 DEF AbsAborted, Quiet
  <2> QED BY <1>1, <2>1, AbsStutter
<1> QED BY <1>2, <1>3
(* The steps that supply, finish, deliver and end.                         *)
LEMMA SupplyImplements ==
  ASSUME MuxInv, NEW e \in Ends, NEW s \in Streams, PumpRead(e, s) \/ PumpEof(e, s)
  PROVE  [Stream!Next]_Stream!vars
<1>1. TypeOK /\ SessionOf(e, s) /\ sent[e][s] \in Nat
  BY TypesAt DEF MuxInv, StreamInv
<1>2. pump[e][s] = "recv" /\ ~fin[e][s] /\ UNCHANGED <<delivered, ended, sess>>
  BY <1>1 DEF PumpRead, PumpEof, SessionOf, sessionVars
<1>3. AbsGot' = AbsGot /\ AbsEnded' = AbsEnded /\ AbsAborted' = AbsAborted
  BY <1>2, AbsStays
<1>4. CASE PumpRead(e, s)
  <2>1. /\ sent' = [sent EXCEPT ![e][s] = sent[e][s] + 1] /\ UNCHANGED fin
        /\ sent[e][s] < setting.chunks[e][s]
    BY <1>4 DEF PumpRead
  <2>2. /\ sent'[e][s] = sent[e][s] + 1
        /\ \A x \in Ends : ~(x = e /\ Watched = s) => sent'[x][Watched] = sent[x][Watched]
    <3>1. Watched \in Streams
      BY <1>1, StreamsArePositive DEF Watched
    <3> QED BY <2>1, <3>1, <1>1, ChangedAt, TypesOfAll
  <2>3. AbsFin' = AbsFin
    BY <2>1, AbsStays
  <2>4. CASE s # Watched
    <3>1. AbsSent' = AbsSent
      BY <2>2, <2>4, AbsStays
    <3> QED BY <1>3, <2>3, <3>1, AbsStutter
  <2>5. CASE s = Watched
    <3>1. PICK n \in Nat : n = sent[e][Watched]
      BY <1>1, <2>5
    <3>2. n + 1 \in 1 .. MaxSupply
      <4>1. setting \in Settings /\ s \in setting.streams
        BY <1>1 DEF TypeOK, Streams
      <4>2. setting.chunks[e][s] \in 0 .. MaxSupply
        BY <4>1, StreamsAssumption
      <4> QED BY <2>1, <2>5, <3>1, <4>2, BoundsAssumption
    <3>3. AbsSent[e] = [i \in 1 .. n |-> i] /\ AbsSent'[e] = [i \in 1 .. n + 1 |-> i]
      BY <2>2, <2>5, <3>1 DEF AbsSent
    <3>4. AbsSent'[e] = Append(AbsSent[e], n + 1)
      BY <3>3, Numbers
    <3>5. \A x \in Ends : x # e => AbsSent'[x] = AbsSent[x]
      BY <2>2 DEF AbsSent
    <3>6. AbsSent' = [AbsSent EXCEPT ![e] = Append(AbsSent[e], n + 1)]
      BY <3>4, <3>5 DEF AbsSent
    <3>7. ~AbsFin[e]
      BY <1>2, <2>5 DEF AbsFin
    <3>8. Stream!Supply(e)
      BY <1>3, <2>3, <3>2, <3>6, <3>7 DEF Stream!Supply, AbsSent, AbsFin, AbsGot, AbsEnded, AbsAborted
    <3> QED BY <3>8, SameEnds DEF Stream!Next
  <2> QED BY <2>4, <2>5
<1>5. CASE PumpEof(e, s)
  <2>1. fin' = [fin EXCEPT ![e][s] = TRUE] /\ UNCHANGED sent
    BY <1>5 DEF PumpEof
  <2>2. /\ fin'[e][s] = TRUE
        /\ \A x \in Ends : ~(x = e /\ Watched = s) => fin'[x][Watched] = fin[x][Watched]
    <3>1. Watched \in Streams
      BY <1>1, StreamsArePositive DEF Watched
    <3> QED BY <2>1, <3>1, <1>1, ChangedAt, TypesOfAll
  <2>3. AbsSent' = AbsSent
    BY <2>1, AbsStays
  <2>4. CASE s # Watched
    <3>1. AbsFin' = AbsFin
      BY <2>2, <2>4, AbsStays
    <3> QED BY <1>3, <2>3, <3>1, AbsStutter
  <2>5. CASE s = Watched
    <3>1. AbsFin'[e] = TRUE /\ ~AbsFin[e] /\ \A x \in Ends : x # e => AbsFin'[x] = AbsFin[x]
      BY <1>2, <2>2, <2>5 DEF AbsFin
    <3>2. AbsFin' = [AbsFin EXCEPT ![e] = TRUE]
      BY <3>1 DEF AbsFin
    <3>3. Stream!Finish(e)
      BY <1>3, <2>3, <3>1, <3>2 DEF Stream!Finish, AbsSent, AbsFin, AbsGot, AbsEnded, AbsAborted
    <3> QED BY <3>3, SameEnds DEF Stream!Next
  <2> QED BY <2>4, <2>5
<1> QED BY <1>4, <1>5

LEMMA ArriveImplements ==
  ASSUME MuxInv, NEW e \in Ends, NEW s \in Streams, WriterDeliver(e, s)
  PROVE  [Stream!Next]_Stream!vars
<1>1. TypeOK /\ SessionOf(e, s) /\ QueueOf(e, s)
  BY DEF MuxInv, StreamInv
<1>2. /\ writer[e][s] = "write" /\ ~SockClosed(e, s) /\ UNCHANGED <<sent, fin, ended, sess>>
      /\ delivered' = [delivered EXCEPT ![e][s] = Append(delivered[e][s], hand[e][s])]
  BY DEF WriterDeliver, sessionVars
<1>3. AbsSent' = AbsSent /\ AbsFin' = AbsFin /\ AbsEnded' = AbsEnded /\ AbsAborted' = AbsAborted
  BY <1>2, AbsStays
<1>4. /\ delivered'[e][s] = Append(delivered[e][s], hand[e][s])
      /\ \A x \in Ends : ~(x = e /\ Watched = s) => delivered'[x][Watched] = delivered[x][Watched]
  <2>1. Watched \in Streams
    BY <1>1, StreamsArePositive DEF Watched
  <2> QED BY <1>2, <2>1, <1>1, ChangedAt, TypesOfAll
<1>5. CASE s # Watched
  <2>1. AbsGot' = AbsGot
    BY <1>4, <1>5, AbsStays
  <2> QED BY <1>3, <2>1, AbsStutter
<1>6. CASE s = Watched
  <2>1. sess[e][s] # "closed" /\ ~ended[e][s]
    BY <1>1, <1>2 DEF SessionOf, SockClosed
  <2>2. PICK p \in Ends : p = Peer(e)
    BY PeerEnd
  <2>3. PICK n \in Nat : n = sent[p][s]
    BY <1>1, TypesAt
  <2>4. PICK d \in Nat : d = Len(delivered[e][s])
    BY <1>1, TypesAt
  <2>5. hand[e][s] = d + 1 /\ d + 1 <= n
    <3>1. hand[e][s] = d + 1 /\ d + 1 <= Passed(p, s)
      BY <1>1, <1>2, <2>1, <2>2, <2>4 DEF QueueOf, Taken
    <3>2. Passed(p, s) = n - 1 \/ Passed(p, s) = n
      BY <2>3 DEF Passed
    <3> QED BY <3>1, <3>2
  <2>6. AbsSent[p] = [i \in 1 .. n |-> i] /\ AbsGot[e] = delivered[e][s] /\ ~AbsEnded[e]
    BY <1>6, <2>1, <2>3 DEF AbsSent, AbsGot, AbsEnded
  <2>7. Len(AbsGot[e]) = d /\ Len(AbsSent[p]) = n /\ AbsSent[p][d + 1] = d + 1 /\ d < n
    <3>1. d + 1 \in 1 .. n /\ d < n
      BY <2>5
    <3> QED BY <2>4, <2>6, <3>1, Numbers
  <2>8. AbsGot'[e] = Append(AbsGot[e], AbsSent[p][d + 1])
    BY <1>4, <1>6, <2>5, <2>6, <2>7 DEF AbsGot
  <2>9. AbsGot' = [AbsGot EXCEPT ![e] = Append(AbsGot[e], AbsSent[p][Len(AbsGot[e]) + 1])]
    <3>1. \A x \in Ends : x # e => AbsGot'[x] = AbsGot[x]
      BY <1>4 DEF AbsGot
    <3> QED BY <2>7, <2>8, <3>1 DEF AbsGot
  <2>10. Stream!Arrive(e)
    <3>1. Len(AbsGot[e]) < Len(AbsSent[p])
      BY <2>7
    <3>2. p = Stream!Peer(e)
      BY <2>2, SameEnds
    <3> QED BY <1>3, <2>6, <2>9, <3>1, <3>2
         DEF Stream!Arrive, AbsSent, AbsFin, AbsGot, AbsEnded, AbsAborted
  <2> QED BY <2>10, SameEnds DEF Stream!Next
<1> QED BY <1>5, <1>6

LEMMA EndImplements ==
  ASSUME MuxInv, NEW e \in Ends, NEW s \in Streams, WriterEof(e, s)
  PROVE  [Stream!Next]_Stream!vars
<1>1. TypeOK /\ SessionOf(e, s) /\ QueueOf(e, s)
  BY DEF MuxInv, StreamInv
<1>2. PICK q \in Seq(Nat) : q = remote_queue[e][s]
  BY <1>1, TypesAt
<1>3. /\ writer[e][s] = "get" /\ q # <<>> /\ Head(q) = EofItem /\ UNCHANGED <<sent, fin, delivered, sess>>
      /\ ended' = [ended EXCEPT ![e][s] = ended[e][s] \/ sess[e][s] = "open"]
  BY <1>2 DEF WriterEof
<1>4. AbsSent' = AbsSent /\ AbsFin' = AbsFin /\ AbsGot' = AbsGot /\ AbsAborted' = AbsAborted
  BY <1>3, AbsStays
<1>5. ended[e][s] = FALSE
  BY <1>1, <1>3, TypesAt DEF SessionOf
<1>6. /\ ended'[e][s] = (ended[e][s] \/ sess[e][s] = "open")
      /\ \A x \in Ends : ~(x = e /\ Watched = s) => ended'[x][Watched] = ended[x][Watched]
  <2>1. Watched \in Streams
    BY <1>1, StreamsArePositive DEF Watched
  <2> QED BY <1>3, <2>1, <1>1, ChangedAt, TypesOfAll
<1>7. CASE s # Watched \/ sess[e][s] # "open"
  <2>1. AbsEnded' = AbsEnded
    BY <1>5, <1>6, <1>7, AbsStays
  <2> QED BY <1>4, <2>1, AbsStutter
<1>8. CASE s = Watched /\ sess[e][s] = "open"
  <2>1. PICK p \in Ends : p = Peer(e)
    BY PeerEnd
  <2>2. PICK n \in Nat : n = sent[p][s]
    BY <1>1, TypesAt
  <2>3. PICK d \in Nat : d = Len(delivered[e][s])
    <3>1. delivered[e][s] \in Seq(Nat)
      BY <1>1, TypesAt
    <3>2. Len(delivered[e][s]) \in Nat
      BY <3>1
    <3> QED BY <3>2
  <2>4. Taken(e, s) = d
    BY <1>3, <2>3 DEF Taken
  <2>5. Head(q) = q[1] /\ Len(q) \in Nat /\ 1 \in 1 .. Len(q)
    BY <1>3, TailOf
  <2>6. Len(q) = 1 /\ EndMark(e, s)
    <3>1. \/ (q[1] = Taken(e, s) + 1 /\ q[1] <= Passed(Peer(e), s))
          \/ (q[1] = EofItem /\ 1 = Len(q) /\ EndMark(e, s))
      BY <1>1, <1>2, <1>8, <2>5 DEF QueueOf
    <3>2. q[1] = 0 /\ Taken(e, s) + 1 # 0
      BY <1>3, <2>4, <2>5 DEF EofItem
    <3> QED BY <3>1, <3>2
  <2>7. sess[p][s] = "closed" \/ (fin[p][s] /\ d = n)
    <3>1. sess[p][s] = "closed" \/ (fin[p][s] /\ Queued(e, s) - 1 = sent[p][s])
      BY <2>1, <2>6 DEF EndMark
    <3>2. Queued(e, s) = d + 1
      BY <1>2, <2>4, <2>6 DEF Queued
    <3> QED BY <2>2, <3>1, <3>2
  <2>8. /\ ~AbsEnded[e]
        /\ AbsAborted[p] \/ (AbsFin[p] /\ Len(AbsGot[e]) = Len(AbsSent[p]))
    <3>1. AbsSent[p] = [i \in 1 .. n |-> i] /\ AbsGot[e] = delivered[e][s]
      BY <1>8, <2>2 DEF AbsSent, AbsGot
    <3>2. Len(AbsSent[p]) = n /\ Len(AbsGot[e]) = d
      BY <2>3, <3>1, Numbers
    <3>3. ~AbsEnded[e] /\ (sess[p][s] = "closed" => AbsAborted[p]) /\ (fin[p][s] => AbsFin[p])
      BY <1>5, <1>8 DEF AbsEnded, AbsAborted, AbsFin
    <3> QED BY <2>7, <3>2, <3>3
  <2>9. AbsEnded' = [AbsEnded EXCEPT ![e] = TRUE]
    <3>1. AbsEnded'[e] = TRUE /\ \A x \in Ends : x # e => AbsEnded'[x] = AbsEnded[x]
      BY <1>5, <1>6, <1>8 DEF AbsEnded
    <3> QED BY <3>1 DEF AbsEnded
  <2>10. Stream!End(e)
    <3>1. p = Stream!Peer(e)
      BY <2>1, SameEnds
    <3> QED BY <1>4, <2>8, <2>9, <3>1
         DEF Stream!End, AbsSent, AbsFin, AbsGot, AbsEnded, AbsAborted
  <2> QED BY <2>10, SameEnds DEF Stream!Next
<1> QED BY <1>7, <1>8
(* All other steps are quiet.                                              *)
LEMMA StillQuiet ==
  ASSUME NEW e \in Ends, UNCHANGED <<sent, fin, delivered, ended, sess>> PROVE Quiet(e)
BY DEF Quiet

LEMMA CloseQuiet ==
  ASSUME TypeOK, NEW e \in Ends, NEW S, Close(e, S), UNCHANGED <<sent, fin, delivered, ended>>
  PROVE  Quiet(e)
<1>1. Watched \in Streams
  BY StreamsArePositive DEF Watched
<1>2. \A x \in Ends : x # e => sess'[x] = sess[x]
  BY DEF Close, TypeOK
<1>3. sess[e][Watched] = "closed" => sess'[e][Watched] = "closed"
  <2>1. IF e = e /\ Watched \in S /\ sess[e][Watched] = "open"
        THEN sess'[e][Watched] = "closed" /\ ~listed'[e][Watched]
        ELSE /\ sess'[e][Watched] = sess[e][Watched] /\ listed'[e][Watched] = listed[e][Watched]
             /\ remote_queue'[e][Watched] = remote_queue[e][Watched]
    BY <1>1, CloseEffect
  <2> QED BY <2>1
<1> QED BY <1>2, <1>3 DEF Quiet

LEMMA RegisterQuiet ==
  ASSUME TypeOK, NEW e \in Ends, NEW s \in Streams, NEW p, Register(e, s, p),
         sess[e][s] = "none", UNCHANGED <<sent, fin, delivered, ended>>
  PROVE  Quiet(e)
<1>1. sess' = [sess EXCEPT ![e][s] = "open"]
  BY DEF Register
<1>2. \A x \in Ends : x # e => sess'[x] = sess[x]
  BY <1>1 DEF TypeOK
<1>3. s # Watched => sess'[e][Watched] = sess[e][Watched]
  <2>1. Watched \in Streams
    BY StreamsArePositive DEF Watched
  <2> QED BY <1>1, <2>1, ChangedAt, TypesOfAll
<1> QED BY <1>2, <1>3 DEF Quiet

LEMMA UserQuiet ==
  ASSUME MuxInv, NEW s \in Streams, UserThread(s) PROVE Quiet("internal")
<1>1. "internal" \in Ends /\ TypeOK /\ SessionOf("internal", s)
  BY DEF Ends, MuxInv, StreamInv
<1>2. CASE StartLocalStream(s)
  <2>1. sess["internal"][s] = "none"
    BY <1>1, <1>2 DEF StartLocalStream, SessionOf
  <2> QED BY <1>1, <1>2, <2>1, RegisterQuiet DEF StartLocalStream, appVars
<1>3. CASE ChooseCarrier(s) \/ SendOpen(s) \/ SendOpenFails(s)
  BY <1>1, <1>3, StillQuiet DEF ChooseCarrier, SendOpen, SendOpenFails, appVars, sessionVars
<1> QED BY <1>2, <1>3 DEF UserThread

LEMMA PumpQuiet ==
  ASSUME TypeOK, NEW e \in Ends, NEW s \in Streams, Pump(e, s)
  PROVE  PumpRead(e, s) \/ PumpEof(e, s) \/ Quiet(e)
<1>1. CASE \/ PumpSendData(e, s) \/ PumpWoken(e, s) \/ PumpBroken(e, s) \/ PumpSendFin(e, s)
           \/ PumpStops(e, s)
  BY <1>1, StillQuiet DEF PumpSendData, PumpWoken, PumpBroken, PumpSendFin, PumpStops,
     appVars, sessionVars
<1>2. CASE PumpMark(e, s) \/ PumpSendRst(e, s) \/ PumpSendFails(e, s)
  <2>1. (\E S : Close(e, S)) /\ UNCHANGED <<sent, fin, delivered, ended>>
    BY <1>2 DEF PumpMark, PumpSendRst, PumpSendFails, appVars
  <2> QED BY <2>1, CloseQuiet
<1> QED BY <1>1, <1>2 DEF Pump

LEMMA WriterQuiet ==
  ASSUME TypeOK, NEW e \in Ends, NEW s \in Streams, Writer(e, s) PROVE WriterEof(e, s) \/ Quiet(e)
<1>1. CASE WriterTake(e, s) \/ WriterSendRst(e, s) \/ WriterStops(e, s)
  BY <1>1, StillQuiet DEF WriterTake, WriterSendRst, WriterStops, appVars, sessionVars
<1>2. CASE WriterClose(e, s)
  BY <1>2, CloseQuiet DEF WriterClose, appVars
<1>3. CASE WriterFails(e, s)
  <2>1. sess' = [sess EXCEPT ![e][s] = "closed"] /\ UNCHANGED <<sent, fin, delivered, ended>>
    BY <1>3 DEF WriterFails, appVars
  <2>2. \A x \in Ends : x # e => sess'[x] = sess[x]
    BY <2>1 DEF TypeOK
  <2>3. sess[e][Watched] = "closed" => sess'[e][Watched] = "closed"
    <3>1. Watched \in Streams
      BY StreamsArePositive DEF Watched
    <3>2. s = Watched \/ sess'[e][Watched] = sess[e][Watched]
      BY <2>1, <3>1, ChangedAt, TypesOfAll
    <3>3. sess'[e][s] = "closed"
      BY <2>1, ChangedAt, TypesOfAll
    <3> QED BY <3>2, <3>3
  <2> QED BY <2>1, <2>2, <2>3 DEF Quiet
<1> QED BY <1>1, <1>2, <1>3 DEF Writer

LEMMA ReaderQuiet ==
  ASSUME MuxInv, NEW e \in Ends, Reader(e) PROVE Quiet(e)
<1>0. TypeOK
  BY DEF MuxInv
<1>1. CASE \/ ReadOpen(e) \/ DialFails(e) \/ ReadPing(e) \/ ReadPong(e) \/ ReadData(e)
           \/ ReadFin(e) \/ ReaderEnds(e)
  BY <1>1, StillQuiet DEF ReadOpen, DialFails, ReadPing, ReadPong, ReadData, ReadFin, ReaderEnds,
     appVars, sessionVars
<1>2. CASE Dialled(e)
  <2>1. e = "external" /\ reader[e] = "dial"
    BY <1>2, OnlyExternalDials DEF Ends, Dialled
  <2>2. PICK s \in Streams : s = handling[e].stream
    <3>1. handling[e] \in Frames /\ handling[e].type = "OPEN"
      BY <1>0, <2>1 DEF TypeOK
    <3> QED BY <3>1, FrameStream
  <2>3. Register(e, s, "recv") /\ UNCHANGED <<sent, fin, delivered, ended>>
    BY <1>2, <2>2 DEF Dialled, appVars
  <2>4. sess[e][s] = "none"
    BY <2>1, <2>2 DEF MuxInv, StreamInv, OpenOf, Opening, Dialling
  <2> QED BY <1>0, <2>3, <2>4, RegisterQuiet
<1>3. CASE ReadRst(e) \/ SendReply(e)
  <2>1. (\E S : Close(e, S)) /\ UNCHANGED <<sent, fin, delivered, ended>>
    BY <1>3 DEF ReadRst, SendReply, appVars
  <2> QED BY <1>0, <2>1, CloseQuiet
<1> QED BY <1>1, <1>2, <1>3 DEF Reader

LEMMA CarrierQuiet ==
  ASSUME TypeOK, NEW e \in Ends, SendPing(e) \/ Carrier(e) PROVE Quiet(e)
<1>1. CASE SendPing(e) \/ HeartbeatFails(e)
  BY <1>1, StillQuiet DEF SendPing, HeartbeatFails, appVars, sessionVars
<1>2. CASE ClearStreams(e)
  <2>1. UNCHANGED <<sent, fin, delivered, ended>>
    BY <1>2 DEF ClearStreams, appVars
  <2>2. \A x \in Ends : x # e => sess'[x] = sess[x]
    BY <1>2 DEF ClearStreams, TypeOK
  <2>3. sess[e][Watched] = "closed" => sess'[e][Watched] = "closed"
    <3>1. Watched \in Streams
      BY StreamsArePositive DEF Watched
    <3>2. IF e = e /\ listed[e][Watched]
          THEN sess'[e][Watched] = "closed" /\ ~listed'[e][Watched]
          ELSE /\ sess'[e][Watched] = sess[e][Watched] /\ listed'[e][Watched] = listed[e][Watched]
               /\ remote_queue'[e][Watched] = remote_queue[e][Watched]
      BY <1>2, <3>1, ClearEffect
    <3> QED BY <3>2
  <2> QED BY <2>1, <2>2, <2>3 DEF Quiet
<1> QED BY <1>1, <1>2 DEF Carrier

LEMMA StepImplements ==
  MuxInv /\ [Next /\ UNCHANGED setting]_<<vars, setting>> => [Stream!Next]_Stream!vars
<1> SUFFICES ASSUME MuxInv, [Next /\ UNCHANGED setting]_<<vars, setting>>
             PROVE  [Stream!Next]_Stream!vars
  OBVIOUS
<1>0. TypeOK
  BY DEF MuxInv
<1>1. CASE UNCHANGED <<vars, setting>>
  <2>1. UNCHANGED <<sent, fin, delivered, ended, sess>>
    BY <1>1 DEF vars, appVars, sessionVars
  <2> QED BY <2>1, AbsStays, AbsStutter
<1>2. ASSUME NEW s \in Streams, UserThread(s) PROVE [Stream!Next]_Stream!vars
  BY <1>0, <1>2, UserQuiet, QuietImplements DEF Ends
<1>3. ASSUME NEW e \in Ends, NEW s \in Streams, Pump(e, s) PROVE [Stream!Next]_Stream!vars
  BY <1>0, <1>3, PumpQuiet, SupplyImplements, QuietImplements
<1>4. ASSUME NEW e \in Ends, NEW s \in Streams, Writer(e, s) PROVE [Stream!Next]_Stream!vars
  BY <1>0, <1>4, WriterQuiet, EndImplements, QuietImplements
<1>5. ASSUME NEW e \in Ends, NEW s \in Streams, WriterDeliver(e, s) PROVE [Stream!Next]_Stream!vars
  BY <1>5, ArriveImplements
<1>6. ASSUME NEW e \in Ends, NEW s \in Streams, MonitorCloses(e, s) \/ Break(e, s)
      PROVE [Stream!Next]_Stream!vars
  <2>1. CASE MonitorCloses(e, s)
    BY <1>0, <2>1, CloseQuiet, QuietImplements DEF MonitorCloses, appVars
  <2>2. CASE Break(e, s)
    BY <1>0, <2>2, StillQuiet, QuietImplements DEF Break, sessionVars
  <2> QED BY <1>6, <2>1, <2>2
<1>7. ASSUME NEW e \in Ends, Reader(e) PROVE [Stream!Next]_Stream!vars
  BY <1>0, <1>7, ReaderQuiet, QuietImplements
<1>8. ASSUME NEW e \in Ends, SendPing(e) \/ Carrier(e) PROVE [Stream!Next]_Stream!vars
  BY <1>0, <1>8, CarrierQuiet, QuietImplements
<1>9. CASE Cut
  <2>1. "internal" \in Ends /\ UNCHANGED <<sent, fin, delivered, ended, sess>>
    BY <1>9 DEF Cut, appVars, sessionVars, Ends
  <2> QED BY <1>0, <2>1, StillQuiet, QuietImplements
<1> QED BY <1>1, <1>2, <1>3, <1>4, <1>5, <1>6, <1>7, <1>8, <1>9 DEF Next

(* Whatever the carrier does for the other streams, and whichever thread   *)
(* closes a session, the two ends of a stream are a pair of streams as     *)
(* TunnelStream describes them.                                            *)
THEOREM MuxImplementsStream == Spec => ImplementsStream
BY InitImplements, StepImplements, Invariance, PTL DEF Spec, ImplementsStream, Stream!Spec
-----------------------------------------------------------------------------
(* What the two applications see: TunnelStream keeps its own promise, of   *)
(* any five values its variables may have.                                 *)
Joins(s, f, g, d, a) ==
  /\ s \in [Ends -> Seq(Nat)] /\ g \in [Ends -> Seq(Nat)]
  /\ f \in [Ends -> BOOLEAN] /\ d \in [Ends -> BOOLEAN] /\ a \in [Ends -> BOOLEAN]
  /\ \A e \in Ends :
       /\ Len(g[e]) <= Len(s[Peer(e)])
       /\ \A i \in 1 .. Len(g[e]) : g[e][i] = s[Peer(e)][i]
       /\ d[e] => a[Peer(e)] \/ (f[Peer(e)] /\ Len(g[e]) = Len(s[Peer(e)]))

LEMMA SupplyJoins ==
  ASSUME NEW s, NEW f, NEW g, NEW d, NEW a, Joins(s, f, g, d, a),
         NEW e \in Ends, ~f[e], NEW c \in Nat, NEW t, t = [s EXCEPT ![e] = Append(s[e], c)]
  PROVE  Joins(t, f, g, d, a)
<1>1. /\ t \in [Ends -> Seq(Nat)] /\ \A x \in Ends \ {e} : t[x] = s[x]
      /\ Len(t[e]) = Len(s[e]) + 1 /\ Len(s[e]) \in Nat
      /\ \A i \in 1 .. Len(s[e]) : t[e][i] = s[e][i]
  BY DEF Joins
<1> SUFFICES ASSUME NEW x \in Ends
             PROVE  /\ Len(g[x]) <= Len(t[Peer(x)])
                    /\ \A i \in 1 .. Len(g[x]) : g[x][i] = t[Peer(x)][i]
                    /\ d[x] => a[Peer(x)] \/ (f[Peer(x)] /\ Len(g[x]) = Len(t[Peer(x)]))
  BY <1>1 DEF Joins
<1>2. Peer(x) \in Ends /\ Len(g[x]) \in Nat
  BY PeerEnd DEF Joins
<1>3. CASE Peer(x) = e
  BY <1>1, <1>2, <1>3 DEF Joins
<1>4. CASE Peer(x) /= e
  BY <1>1, <1>2, <1>4 DEF Joins
<1> QED BY <1>3, <1>4

LEMMA ChunkAt ==
  ASSUME NEW q \in Seq(Nat), NEW i \in 1 .. Len(q)
  PROVE  q[i] \in Nat
OBVIOUS

LEMMA ArriveJoins ==
  ASSUME NEW s, NEW f, NEW g, NEW d, NEW a, Joins(s, f, g, d, a),
         NEW e \in Ends, ~d[e], Len(g[e]) < Len(s[Peer(e)]),
         NEW h, h = [g EXCEPT ![e] = Append(g[e], s[Peer(e)][Len(g[e]) + 1])]
  PROVE  Joins(s, f, h, d, a)
<1>1. Peer(e) \in Ends /\ Len(g[e]) \in Nat /\ s[Peer(e)] \in Seq(Nat)
  BY PeerEnd DEF Joins
<1>2. s[Peer(e)][Len(g[e]) + 1] \in Nat
  <2>1. Len(s[Peer(e)]) \in Nat
    BY <1>1
  <2>2. Len(g[e]) + 1 \in 1 .. Len(s[Peer(e)])
    BY <1>1, <2>1
  <2> QED BY <1>1, <2>2, ChunkAt
<1>3. /\ h \in [Ends -> Seq(Nat)] /\ \A x \in Ends \ {e} : h[x] = g[x]
      /\ Len(h[e]) = Len(g[e]) + 1
      /\ \A i \in 1 .. Len(g[e]) : h[e][i] = g[e][i]
      /\ h[e][Len(g[e]) + 1] = s[Peer(e)][Len(g[e]) + 1]
  BY <1>1, <1>2 DEF Joins
<1>4. /\ Len(h[e]) <= Len(s[Peer(e)])
      /\ \A i \in 1 .. Len(h[e]) : h[e][i] = s[Peer(e)][i]
  <2>1. \A i \in 1 .. Len(g[e]) : g[e][i] = s[Peer(e)][i]
    BY DEF Joins
  <2>2. ASSUME NEW i \in 1 .. Len(h[e]) PROVE h[e][i] = s[Peer(e)][i]
    <3>1. i \in 1 .. Len(g[e]) \/ i = Len(g[e]) + 1
      BY <1>1, <1>3
    <3> QED BY <1>3, <2>1, <3>1
  <2>3. Len(s[Peer(e)]) \in Nat
    BY <1>1
  <2> QED BY <1>1, <1>3, <2>2, <2>3
<1> QED BY <1>3, <1>4 DEF Joins

LEMMA OthersJoin ==
  ASSUME NEW s, NEW f, NEW g, NEW d, NEW a, Joins(s, f, g, d, a), NEW e \in Ends
  PROVE  /\ Joins(s, [f EXCEPT ![e] = TRUE], g, d, a)
         /\ Joins(s, f, g, d, [a EXCEPT ![e] = TRUE])
         /\ a[Peer(e)] \/ (f[Peer(e)] /\ Len(g[e]) = Len(s[Peer(e)])) =>
              Joins(s, f, g, [d EXCEPT ![e] = TRUE], a)
<1>1. \A x \in Ends : Peer(x) \in Ends
  BY PeerEnd
<1> QED BY <1>1 DEF Joins

StreamJoins == Joins(AbsSent, AbsFin, AbsGot, AbsEnded, AbsAborted)

LEMMA StreamStepJoins == StreamJoins /\ [Stream!Next]_Stream!vars => StreamJoins'
<1> SUFFICES ASSUME StreamJoins, [Stream!Next]_Stream!vars PROVE StreamJoins'
  OBVIOUS
<1>1. CASE UNCHANGED Stream!vars
  <2>1. /\ AbsSent' = AbsSent /\ AbsFin' = AbsFin /\ AbsGot' = AbsGot
        /\ AbsEnded' = AbsEnded /\ AbsAborted' = AbsAborted
    BY <1>1 DEF Stream!vars, AbsSent, AbsFin, AbsGot, AbsEnded, AbsAborted
  <2> QED BY <2>1 DEF StreamJoins
<1>2. ASSUME NEW e \in Ends, Stream!Supply(e) PROVE StreamJoins'
  <2>1. /\ ~AbsFin[e]
        /\ \E c \in 1 .. MaxSupply : AbsSent' = [AbsSent EXCEPT ![e] = Append(AbsSent[e], c)]
        /\ AbsFin' = AbsFin /\ AbsGot' = AbsGot /\ AbsEnded' = AbsEnded /\ AbsAborted' = AbsAborted
    BY <1>2 DEF Stream!Supply, AbsSent, AbsFin, AbsGot, AbsEnded, AbsAborted
  <2>2. 1 .. MaxSupply \subseteq Nat
    BY BoundsAssumption
  <2>3. PICK c \in Nat : AbsSent' = [AbsSent EXCEPT ![e] = Append(AbsSent[e], c)]
    BY <2>1, <2>2
  <2> QED BY <2>1, <2>3, SupplyJoins DEF StreamJoins
<1>3. ASSUME NEW e \in Ends, Stream!Finish(e) PROVE StreamJoins'
  <2>1. /\ AbsFin' = [AbsFin EXCEPT ![e] = TRUE]
        /\ AbsSent' = AbsSent /\ AbsGot' = AbsGot /\ AbsEnded' = AbsEnded /\ AbsAborted' = AbsAborted
    BY <1>3 DEF Stream!Finish, AbsSent, AbsFin, AbsGot, AbsEnded, AbsAborted
  <2> QED BY <2>1, OthersJoin DEF StreamJoins
<1>4. ASSUME NEW e \in Ends, Stream!Arrive(e) PROVE StreamJoins'
  <2>1. /\ ~AbsEnded[e] /\ Len(AbsGot[e]) < Len(AbsSent[Peer(e)])
        /\ AbsGot' = [AbsGot EXCEPT ![e] = Append(AbsGot[e], AbsSent[Peer(e)][Len(AbsGot[e]) + 1])]
        /\ AbsSent' = AbsSent /\ AbsFin' = AbsFin /\ AbsEnded' = AbsEnded /\ AbsAborted' = AbsAborted
    BY <1>4, SameEnds DEF Stream!Arrive, AbsSent, AbsFin, AbsGot, AbsEnded, AbsAborted
  <2> QED BY <2>1, ArriveJoins DEF StreamJoins
<1>5. ASSUME NEW e \in Ends, Stream!End(e) PROVE StreamJoins'
  <2>1. /\ AbsAborted[Peer(e)] \/ (AbsFin[Peer(e)] /\ Len(AbsGot[e]) = Len(AbsSent[Peer(e)]))
        /\ AbsEnded' = [AbsEnded EXCEPT ![e] = TRUE]
        /\ AbsSent' = AbsSent /\ AbsFin' = AbsFin /\ AbsGot' = AbsGot /\ AbsAborted' = AbsAborted
    BY <1>5, SameEnds DEF Stream!End, AbsSent, AbsFin, AbsGot, AbsEnded, AbsAborted
  <2> QED BY <2>1, OthersJoin DEF StreamJoins
<1>6. ASSUME NEW e \in Ends, Stream!Abort(e) PROVE StreamJoins'
  <2>1. /\ AbsAborted' = [AbsAborted EXCEPT ![e] = TRUE]
        /\ AbsSent' = AbsSent /\ AbsFin' = AbsFin /\ AbsGot' = AbsGot /\ AbsEnded' = AbsEnded
    BY <1>6 DEF Stream!Abort, AbsSent, AbsFin, AbsGot, AbsEnded, AbsAborted
  <2> QED BY <2>1, OthersJoin DEF StreamJoins
<1> QED BY <1>1, <1>2, <1>3, <1>4, <1>5, <1>6, SameEnds DEF Stream!Next

LEMMA InitJoins == Stream!Init => StreamJoins
<1> SUFFICES ASSUME Stream!Init PROVE StreamJoins
  OBVIOUS
<1>1. /\ AbsSent = [e \in Ends |-> <<>>] /\ AbsGot = [e \in Ends |-> <<>>]
      /\ AbsFin = [e \in Ends |-> FALSE] /\ AbsEnded = [e \in Ends |-> FALSE]
      /\ AbsAborted = [e \in Ends |-> FALSE]
  BY SameEnds DEF Stream!Init, AbsSent, AbsFin, AbsGot, AbsEnded, AbsAborted
<1>2. <<>> \in Seq(Nat) /\ Len(<<>>) = 0
  OBVIOUS
<1>3. \A e \in Ends : Peer(e) \in Ends
  BY PeerEnd
<1> QED BY <1>1, <1>2, <1>3 DEF StreamJoins, Joins

LEMMA JoinsPromise == StreamJoins => Stream!InOrder /\ Stream!CleanEnd
<1> SUFFICES ASSUME StreamJoins PROVE Stream!InOrder /\ Stream!CleanEnd
  OBVIOUS
<1>1. \A e \in Ends :
        /\ Len(AbsGot[e]) <= Len(AbsSent[Peer(e)])
        /\ \A i \in 1 .. Len(AbsGot[e]) : AbsGot[e][i] = AbsSent[Peer(e)][i]
        /\ AbsEnded[e] => AbsAborted[Peer(e)] \/ (AbsFin[Peer(e)] /\ Len(AbsGot[e]) = Len(AbsSent[Peer(e)]))
  BY DEF StreamJoins, Joins
<1>2. Stream!InOrder
  <2>1. ASSUME NEW e \in Stream!Ends
        PROVE  /\ Len(AbsGot[e]) <= Len(AbsSent[Stream!Peer(e)])
               /\ \A i \in 1 .. Len(AbsGot[e]) : AbsGot[e][i] = AbsSent[Stream!Peer(e)][i]
    <3>1. e \in Ends /\ Stream!Peer(e) = Peer(e)
      BY SameEnds
    <3> QED BY <1>1, <3>1
  <2> QED BY <2>1, Zenon DEF Stream!InOrder, AbsSent, AbsGot
<1>3. Stream!CleanEnd
  BY <1>1, SameEnds, Zenon DEF Stream!CleanEnd, AbsSent, AbsFin, AbsGot, AbsEnded, AbsAborted
<1> QED BY <1>2, <1>3

(* Any stream of a shared carrier, whatever the others do: each application*)
(* receives a prefix of what the other one supplied, and an end of stream  *)
(* after all of it, unless the other end closed the stream.                *)
THEOREM MuxJoinsTheApplications == Spec => [](Stream!InOrder /\ Stream!CleanEnd)
BY InitImplements, StepImplements, Invariance, InitJoins, StreamStepJoins, JoinsPromise,
   PTL DEF Spec
=============================================================================
