---------------------------- MODULE BridgeProofs ----------------------------
(***************************************************************************)
(* Proofs about Bridge, for every mode, wire and number of chunks, and     *)
(* whichever events the settings allow: a user's tunnel is one of          *)
(* TunnelStream's pairs of streams.                                        *)
(*                                                                         *)
(* As long as an end reads the tunnel, what the tunnel holds for it        *)
(* continues what it has read, without a gap, up to what the other end     *)
(* has written (FlowOf).  An end that closes in good order has read the    *)
(* end of both its sources (LoopOf), so that a reader who finds the tunnel *)
(* empty and its peer gone has all of the stream, or the peer gave up.     *)
(***************************************************************************)
EXTENDS Bridge, TLAPS
(* The values of the variables, whatever the bounds. *)
TypeOK ==
  /\ sent \in [Sides -> Nat] /\ fin \in [Sides -> BOOLEAN]
  /\ delivered \in [Sides -> Seq(Nat)] /\ ended \in [Sides -> BOOLEAN]
  /\ broken \in [Sides -> BOOLEAN]
  /\ loop \in [Sides -> {"select", "to_tunnel", "to_app", "half", "close", "done"}]
  /\ hand \in [Sides -> Nat]
  /\ directions \in [Sides -> SUBSET {"app", "tunnel"}]
  /\ half_closed \in [Sides -> BOOLEAN] /\ over \in [Sides -> BOOLEAN]
  /\ gave_up \in [Sides -> BOOLEAN] /\ wire \in [Sides -> Seq(Nat)]
  /\ lost \in [Sides -> BOOLEAN]

(* W holds no end frame.                                                   *)
Unmarked(W) == \A i \in 1 .. Len(W) : W[i] # EndFrame

(* W holds the chunks after the r-th, in order; an end frame is its last.  *)
Ordered(r, W) ==
  \A i \in 1 .. Len(W) : W[i] = r + i \/ (W[i] = EndFrame /\ i = Len(W))

(* The chunks W holds.                                                     *)
Carried(W) == IF Len(W) > 0 /\ W[Len(W)] = EndFrame THEN Len(W) - 1 ELSE Len(W)

(* The chunks e has read from the tunnel, and those it has written to it.  *)
Reached(e) == IF loop[e] = "to_app" THEN Len(delivered[e]) + 1 ELSE Len(delivered[e])
Put(e) == IF loop[e] = "to_tunnel" THEN sent[e] - 1 ELSE sent[e]

(* What the loop of an end knows of its own streams: it stops reading the  *)
(* application when that ended, or when it gives up, and closes in good    *)
(* order only when both sources have ended.                                *)
LoopOf(e) ==
  /\ sent[e] <= MaxChunks[e]
  /\ fin[e] => "app" \notin directions[e]
  /\ "app" \notin directions[e] => fin[e] \/ gave_up[e]
  /\ ended[e] => "tunnel" \notin directions[e]
  /\ loop[e] = "to_app" => "tunnel" \in directions[e]
  /\ loop[e] = "to_tunnel" =>
       "app" \in directions[e] /\ hand[e] = sent[e] /\ sent[e] > 0
  /\ loop[e] = "half" => "app" \notin directions[e]
  /\ "app" \in directions[e] \/ loop[e] = "half" => Unmarked(wire[e])
  /\ gave_up[e] => \/ over[e] \/ "app" \notin directions[e]
                   \/ loop[e] \in {"close", "done"}
  /\ ~gave_up[e] /\ (over[e] \/ loop[e] \in {"close", "done"}) =>
       directions[e] = {} /\ (over[e] => loop[e] = "done")

(* As long as e reads the tunnel: what it holds continues what e has read, *)
(* and is all the other end has written.                                   *)
FlowOf(e) ==
  "tunnel" \in directions[e] =>
    /\ loop[e] = "to_app" => hand[e] = Len(delivered[e]) + 1
    /\ Ordered(Reached(e), wire[Peer(e)])
    /\ Reached(e) + Carried(wire[Peer(e)]) <= Put(Peer(e))
    /\ ~gave_up[Peer(e)] => Reached(e) + Carried(wire[Peer(e)]) = Put(Peer(e))

BridgeInv == TypeOK /\ \A e \in Sides : LoopOf(e) /\ FlowOf(e)

-----------------------------------------------------------------------------
LEMMA PeerEnd ==
  ASSUME NEW e \in Sides
  PROVE  /\ Peer(e) \in Sides /\ Peer(e) # e /\ Peer(Peer(e)) = e
         /\ \A x \in Sides : x = e \/ x = Peer(e)
BY DEF Sides, Peer

LEMMA TypesAt ==
  ASSUME TypeOK, NEW e \in Sides
  PROVE  /\ sent[e] \in Nat /\ fin[e] \in BOOLEAN /\ delivered[e] \in Seq(Nat)
         /\ Len(delivered[e]) \in Nat /\ hand[e] \in Nat /\ wire[e] \in Seq(Nat)
         /\ loop[e] \in {"select", "to_tunnel", "to_app", "half", "close", "done"}
         /\ Len(wire[e]) \in Nat
<1>1. delivered[e] \in Seq(Nat) /\ wire[e] \in Seq(Nat)
  BY DEF TypeOK
<1>2. Len(delivered[e]) \in Nat /\ Len(wire[e]) \in Nat
  BY <1>1
<1> QED BY <1>1, <1>2 DEF TypeOK

LEMMA HeadTail ==
  ASSUME NEW W \in Seq(Nat), W # <<>>
  PROVE  /\ Len(W) \in Nat \ {0} /\ Head(W) = W[1] /\ Tail(W) \in Seq(Nat)
         /\ Len(Tail(W)) = Len(W) - 1 /\ \A i \in 1 .. Len(W) - 1 : Tail(W)[i] = W[i + 1]
OBVIOUS

LEMMA AppendAt ==
  ASSUME NEW W \in Seq(Nat), NEW n \in Nat
  PROVE  /\ Append(W, n) \in Seq(Nat) /\ Len(Append(W, n)) = Len(W) + 1
         /\ \A i \in 1 .. Len(W) : Append(W, n)[i] = W[i]
         /\ Append(W, n)[Len(W) + 1] = n
OBVIOUS

(* What is left after the first chunk has been read.                       *)
LEMMA TailOrdered ==
  ASSUME NEW r \in Nat, NEW W \in Seq(Nat), W # <<>>, Head(W) # EndFrame, Ordered(r, W)
  PROVE  Head(W) = r + 1 /\ Ordered(r + 1, Tail(W)) /\ Carried(Tail(W)) = Carried(W) - 1
<1>1. PICK n \in Nat \ {0} : n = Len(W)
  BY HeadTail
<1>2. /\ W[1] # EndFrame /\ Head(W) = W[1] /\ Tail(W) \in Seq(Nat) /\ Len(Tail(W)) = n - 1
      /\ \A i \in 1 .. n - 1 : Tail(W)[i] = W[i + 1]
  BY <1>1, HeadTail
<1>3. Head(W) = r + 1
  BY <1>1, <1>2 DEF Ordered
<1>4. ASSUME NEW i \in 1 .. n - 1
      PROVE  Tail(W)[i] = r + 1 + i \/ (Tail(W)[i] = EndFrame /\ i = n - 1)
  <2>1. i + 1 \in 1 .. n
    OBVIOUS
  <2>2. W[i + 1] = r + (i + 1) \/ (W[i + 1] = EndFrame /\ i + 1 = n)
    BY <1>1, <2>1 DEF Ordered
  <2> QED BY <1>2, <2>2
<1>5. Ordered(r + 1, Tail(W))
  BY <1>2, <1>4 DEF Ordered
<1>6. CASE n = 1
  <2>1. Len(W) = 1 /\ W[1] # EndFrame /\ Len(Tail(W)) = 0
    BY <1>1, <1>2, <1>6
  <2>2. Carried(W) = 1
    BY <2>1 DEF Carried
  <2>3. Carried(Tail(W)) = 0
    <3>1. PICK T \in Seq(Nat) : T = Tail(W) /\ Len(T) = 0
      BY <1>2, <2>1
    <3>2. Carried(T) = 0
      BY <3>1 DEF Carried
    <3> QED BY <3>1, <3>2
  <2> QED BY <1>3, <1>5, <2>2, <2>3
<1>7. CASE n # 1
  <2>1. Tail(W)[n - 1] = W[n] /\ Len(W) = n /\ Len(Tail(W)) = n - 1 /\ n > 0 /\ n - 1 > 0
    BY <1>1, <1>2, <1>7
  <2>2. Carried(W) = (IF W[n] = EndFrame THEN n - 1 ELSE n)
    BY <2>1 DEF Carried
  <2>3. Carried(Tail(W)) = (IF W[n] = EndFrame THEN n - 1 - 1 ELSE n - 1)
    BY <2>1 DEF Carried
  <2> QED BY <1>3, <1>5, <2>2, <2>3
<1> QED BY <1>6, <1>7

LEMMA CarriedNat == ASSUME NEW W \in Seq(Nat) PROVE Carried(W) \in Nat
<1>1. PICK n \in Nat : n = Len(W)
  OBVIOUS
<1> QED BY <1>1 DEF Carried

LEMMA UnmarkedCarried ==
  ASSUME NEW W \in Seq(Nat), Unmarked(W) PROVE Carried(W) = Len(W)
<1>1. PICK n \in Nat : n = Len(W)
  OBVIOUS
<1>2. n > 0 => W[n] # EndFrame
  BY <1>1 DEF Unmarked
<1> QED BY <1>1, <1>2 DEF Carried

(* The next chunk, or the end frame, goes behind what the tunnel holds.    *)
LEMMA AppendOrdered ==
  ASSUME NEW r \in Nat, NEW W \in Seq(Nat), Unmarked(W), Ordered(r, W), NEW x \in Nat,
         x = r + Len(W) + 1 \/ x = EndFrame
  PROVE  /\ Ordered(r, Append(W, x))
         /\ Carried(Append(W, x)) = IF x = EndFrame THEN Carried(W) ELSE Carried(W) + 1
<1>1. PICK n \in Nat : n = Len(W)
  OBVIOUS
<1>2. PICK V \in Seq(Nat) : V = Append(W, x)
  BY AppendAt
<1>3. Len(V) = n + 1 /\ V[n + 1] = x /\ \A i \in 1 .. n : V[i] = W[i] /\ W[i] # EndFrame
  BY <1>1, <1>2, AppendAt DEF Unmarked
<1>4. ASSUME NEW i \in 1 .. n + 1
      PROVE  V[i] = r + i \/ (V[i] = EndFrame /\ i = n + 1)
  <2>1. CASE i \in 1 .. n
    BY <1>1, <1>3, <2>1 DEF Ordered
  <2>2. CASE i = n + 1
    BY <1>1, <1>3, <2>2
  <2> QED BY <2>1, <2>2
<1>5. Carried(W) = n
  BY <1>1, UnmarkedCarried
<1>6. Carried(V) = IF x = EndFrame THEN n ELSE n + 1
  BY <1>3 DEF Carried
<1> QED BY <1>2, <1>3, <1>4, <1>5, <1>6 DEF Ordered

(* An end frame that comes first is all there is.                          *)
LEMMA EndFrameAlone ==
  ASSUME NEW r \in Nat, NEW W \in Seq(Nat), W # <<>>, Head(W) = EndFrame, Ordered(r, W)
  PROVE  Carried(W) = 0
<1>1. PICK n \in Nat \ {0} : n = Len(W) /\ W[1] = EndFrame
  BY HeadTail
<1>2. n = 1
  BY <1>1 DEF Ordered, EndFrame
<1> QED BY <1>1, <1>2 DEF Carried
-----------------------------------------------------------------------------
LEMMA InitInv == BridgeInit => BridgeInv
<1> SUFFICES ASSUME BridgeInit PROVE BridgeInv
  OBVIOUS
<1>1. TypeOK
  BY DEF BridgeInit, Each, TypeOK
<1>2. ASSUME NEW e \in Sides PROVE LoopOf(e) /\ FlowOf(e)
  <2>1. /\ sent[e] = 0 /\ sent[Peer(e)] = 0 /\ wire[e] = <<>> /\ wire[Peer(e)] = <<>>
        /\ delivered[e] = <<>> /\ loop[e] = "select" /\ loop[Peer(e)] = "select"
        /\ fin[e] = FALSE /\ ended[e] = FALSE /\ over[e] = FALSE
        /\ directions[e] = {"app", "tunnel"}
    BY PeerEnd DEF BridgeInit, Each
  <2>2. sent[e] <= MaxChunks[e]
    BY <2>1, ChunksAssumption
  <2>3. LoopOf(e)
    <3>1. Unmarked(<<>>)
      BY DEF Unmarked
    <3>2. ~gave_up[e]
      BY DEF BridgeInit, Each
    <3> QED BY <2>1, <2>2, <3>1, <3>2 DEF LoopOf
  <2>4. Ordered(0, <<>>) /\ Carried(<<>>) = 0
    BY DEF Ordered, Carried
  <2>5. Reached(e) = 0 /\ Put(Peer(e)) = 0
    BY <2>1 DEF Reached, Put
  <2> QED BY <2>1, <2>3, <2>4, <2>5 DEF FlowOf
<1> QED BY <1>1, <1>2 DEF BridgeInv

(* What a half-close sends, and when.                                      *)
LEMMA HalfCloseEffect ==
  ASSUME TypeOK, NEW e \in Sides, HalfCloseTunnel(e)
  PROVE  \/ loop' = [loop EXCEPT ![e] = "half"] /\ wire' = wire
         \/ /\ loop' = [loop EXCEPT ![e] = "select"]
            /\ wire' = wire \/ wire' = [wire EXCEPT ![e] = Append(wire[e], EndFrame)]
BY ModeAssumption DEF HalfCloseTunnel, LoopAt

LEMMA TypeStep == TypeOK /\ [BridgeNext]_bridgeVars => TypeOK'
<1> SUFFICES ASSUME TypeOK, [BridgeNext]_bridgeVars PROVE TypeOK'
  OBVIOUS
<1>1. CASE UNCHANGED bridgeVars
  BY <1>1 DEF bridgeVars, appVars, TypeOK
<1>2. ASSUME NEW e \in Sides, Loop(e) PROVE TypeOK'
  <2>1. /\ Peer(e) \in Sides /\ hand[e] \in Nat /\ Append(wire[e], hand[e]) \in Seq(Nat)
        /\ Append(wire[e], EndFrame) \in Seq(Nat) /\ Append(delivered[e], hand[e]) \in Seq(Nat)
    <3>1. hand[e] \in Nat /\ wire[e] \in Seq(Nat) /\ delivered[e] \in Seq(Nat) /\ EndFrame \in Nat
      BY TypesAt DEF EndFrame
    <3> QED BY <3>1, PeerEnd, AppendAt
  <2>2. CASE ReadAppReset(e)
    <3>1. \/ loop' = [loop EXCEPT ![e] = "half"] /\ wire' = wire
          \/ /\ loop' = [loop EXCEPT ![e] = "select"]
             /\ wire' = wire \/ wire' = [wire EXCEPT ![e] = Append(wire[e], EndFrame)]
      BY <2>2, HalfCloseEffect DEF ReadAppReset
    <3>2. wire' \in [Sides -> Seq(Nat)]
      BY <2>1, <3>1 DEF TypeOK
    <3>3. loop' \in [Sides -> {"select", "to_tunnel", "to_app", "half", "close", "done"}]
      BY <3>1 DEF TypeOK
    <3>4. directions' \in [Sides -> SUBSET {"app", "tunnel"}] /\ half_closed' \in [Sides -> BOOLEAN]
      BY <2>2 DEF ReadAppReset, Drop, TypeOK
    <3> QED BY <2>2, <3>2, <3>3, <3>4 DEF ReadAppReset, appVars, TypeOK
  <2>3. CASE ReadTunnel(e)
    <3>1. Head(wire[Peer(e)]) \in Nat /\ Tail(wire[Peer(e)]) \in Seq(Nat)
      BY <2>1, <2>3 DEF ReadTunnel, TypeOK
    <3> QED BY <2>1, <2>3, <3>1 DEF ReadTunnel, LoopAt, appVars, TypeOK
  <2>4. CASE ReadTunnelEof(e)
    BY <2>4 DEF ReadTunnelEof, Drop, TypeOK
  <2>5. CASE SendTunnel(e) \/ SendEndFrame(e)
    <3>1. \/ wire' = wire \/ wire' = [wire EXCEPT ![e] = Append(wire[e], hand[e])]
          \/ wire' = [wire EXCEPT ![e] = Append(wire[e], EndFrame)]
      <4>1. CASE Gone(e)
        BY <2>5, <4>1 DEF SendTunnel, SendEndFrame, TypeOK
      <4> QED BY <2>5, <4>1 DEF SendTunnel, SendEndFrame
    <3>2. wire' \in [Sides -> Seq(Nat)]
      BY <2>1, <3>1 DEF TypeOK
    <3> QED BY <2>5, <3>2 DEF SendTunnel, SendEndFrame, LoopAt, appVars, TypeOK
  <2>6. CASE Deliver(e)
    BY <2>1, <2>6 DEF Deliver, LoopAt, TypeOK
  <2>7. CASE SendTunnelFails(e) \/ DeliverFails(e)
    BY <2>7 DEF SendTunnelFails, DeliverFails, LoopAt, appVars, TypeOK
  <2>8. CASE GraceExpires(e) \/ LoopEnds(e) \/ CloseSession(e)
    BY <2>8 DEF GraceExpires, LoopEnds, CloseSession, LoopAt, appVars, TypeOK
  <2> QED BY <1>2, <2>2, <2>3, <2>4, <2>5, <2>6, <2>7, <2>8 DEF Loop
<1>3. ASSUME NEW e \in Sides, Application(e) PROVE TypeOK'
  <2>1. CASE ReadApp(e)
    <3>1. sent[e] + 1 \in Nat
      BY TypesAt
    <3>2. sent' = [sent EXCEPT ![e] = sent[e] + 1] /\ sent' \in [Sides -> Nat] /\ sent'[e] \in Nat
      BY <2>1, <3>1 DEF ReadApp, TypeOK
    <3> QED BY <2>1, <3>2 DEF ReadApp, LoopAt, TypeOK
  <2>2. CASE ReadAppEof(e)
    <3>1. \/ loop' = [loop EXCEPT ![e] = "half"] /\ wire' = wire
          \/ /\ loop' = [loop EXCEPT ![e] = "select"]
             /\ wire' = wire \/ wire' = [wire EXCEPT ![e] = Append(wire[e], EndFrame)]
      BY <2>2, HalfCloseEffect DEF ReadAppEof
    <3>2. Append(wire[e], EndFrame) \in Seq(Nat)
      BY TypesAt, AppendAt DEF EndFrame
    <3>3. wire' \in [Sides -> Seq(Nat)]
      BY <3>1, <3>2 DEF TypeOK
    <3>4. loop' \in [Sides -> {"select", "to_tunnel", "to_app", "half", "close", "done"}]
      BY <3>1 DEF TypeOK
    <3>5. directions' \in [Sides -> SUBSET {"app", "tunnel"}] /\ half_closed' \in [Sides -> BOOLEAN]
      BY <2>2 DEF ReadAppEof, Drop, TypeOK
    <3> QED BY <2>2, <3>3, <3>4, <3>5 DEF ReadAppEof, TypeOK
  <2>3. CASE Break(e)
    BY <2>3 DEF Break, TypeOK
  <2> QED BY <1>3, <2>1, <2>2, <2>3 DEF Application
<1>4. ASSUME NEW e \in Sides, MonitorCloses(e) \/ LoseTunnel(e) PROVE TypeOK'
  BY <1>4 DEF MonitorCloses, LoseTunnel, appVars, TypeOK
<1> QED BY <1>1, <1>2, <1>3, <1>4 DEF BridgeNext, BridgeThreads

-----------------------------------------------------------------------------
(* Only e acts; the other end's loop and its streams are as they were.     *)
Acts(e) ==
  \A x \in Sides : x # e =>
    /\ sent'[x] = sent[x] /\ fin'[x] = fin[x] /\ delivered'[x] = delivered[x]
    /\ ended'[x] = ended[x] /\ loop'[x] = loop[x] /\ hand'[x] = hand[x]
    /\ directions'[x] = directions[x] /\ over'[x] = over[x] /\ gave_up'[x] = gave_up[x]

LEMMA OneEndActs ==
  ASSUME TypeOK, NEW e \in Sides, Loop(e) \/ Application(e) \/ MonitorCloses(e) \/ LoseTunnel(e)
  PROVE  Acts(e)
<1>1. CASE ReadAppReset(e) \/ ReadAppEof(e)
  <2>1. \/ loop' = [loop EXCEPT ![e] = "half"] /\ wire' = wire
        \/ /\ loop' = [loop EXCEPT ![e] = "select"]
           /\ wire' = wire \/ wire' = [wire EXCEPT ![e] = Append(wire[e], EndFrame)]
    BY <1>1, HalfCloseEffect DEF ReadAppReset, ReadAppEof
  <2> QED BY <1>1, <2>1 DEF ReadAppReset, ReadAppEof, Drop, appVars, TypeOK, Acts
<1>2. CASE ReadTunnel(e) \/ ReadTunnelEof(e)
  BY <1>2 DEF ReadTunnel, ReadTunnelEof, Drop, LoopAt, appVars, TypeOK, Acts
<1>3. CASE SendTunnel(e) \/ SendTunnelFails(e) \/ SendEndFrame(e)
  BY <1>3 DEF SendTunnel, SendTunnelFails, SendEndFrame, LoopAt, appVars, TypeOK, Acts
<1>4. CASE Deliver(e) \/ DeliverFails(e) \/ GraceExpires(e)
  BY <1>4 DEF Deliver, DeliverFails, GraceExpires, LoopAt, appVars, TypeOK, Acts
<1>5. CASE LoopEnds(e) \/ CloseSession(e) \/ MonitorCloses(e) \/ LoseTunnel(e) \/ Break(e)
  BY <1>5 DEF LoopEnds, CloseSession, MonitorCloses, LoseTunnel, Break, LoopAt, appVars, TypeOK, Acts
<1>6. CASE ReadApp(e)
  BY <1>6 DEF ReadApp, LoopAt, TypeOK, Acts
<1> QED BY <1>1, <1>2, <1>3, <1>4, <1>5, <1>6 DEF Loop, Application

(* What the other end keeps of its loop: its part of the tunnel is the     *)
(* same, or has been read from.                                            *)
LEMMA PeerLoop ==
  ASSUME BridgeInv, NEW e \in Sides, Acts(e),
         \/ wire'[Peer(e)] = wire[Peer(e)]
         \/ wire[Peer(e)] # <<>> /\ wire'[Peer(e)] = Tail(wire[Peer(e)])
  PROVE  LoopOf(Peer(e))'
<1>1. PICK p \in Sides : p = Peer(e) /\ p # e
  BY PeerEnd
<1>2. LoopOf(p) /\ TypeOK
  BY DEF BridgeInv
<1>3. Unmarked(wire[p]) => Unmarked(wire'[p])
  <2>1. CASE wire'[p] = wire[p]
    BY <2>1
  <2>2. CASE wire[p] # <<>> /\ wire'[p] = Tail(wire[p])
    <3>1. PICK n \in Nat \ {0} : n = Len(wire[p])
      BY <1>2, <2>2, TypesAt, HeadTail
    <3>2. Len(wire'[p]) = n - 1 /\ \A i \in 1 .. n - 1 : wire'[p][i] = wire[p][i + 1]
      BY <1>2, <2>2, <3>1, TypesAt, HeadTail
    <3>3. \A i \in 1 .. n - 1 : i + 1 \in 1 .. n
      OBVIOUS
    <3> QED BY <3>1, <3>2, <3>3 DEF Unmarked
  <2> QED BY <1>1, <2>1, <2>2
<1>4. /\ sent'[p] = sent[p] /\ fin'[p] = fin[p] /\ delivered'[p] = delivered[p]
      /\ ended'[p] = ended[p] /\ loop'[p] = loop[p] /\ hand'[p] = hand[p]
      /\ directions'[p] = directions[p] /\ over'[p] = over[p] /\ gave_up'[p] = gave_up[p]
  BY <1>1 DEF Acts
<1>5. LoopOf(p)'
  BY <1>2, <1>3, <1>4 DEF LoopOf
<1> QED BY <1>1, <1>5

(* What the other end receives: e has written the same, or no more than    *)
(* it had, and given up.                                                   *)
LEMMA PeerFlow ==
  ASSUME BridgeInv, NEW e \in Sides, Acts(e),
         \/ wire'[e] = wire[e]
         \/ Unmarked(wire[e]) /\ wire'[e] = Append(wire[e], EndFrame),
         Put(e)' = Put(e) \/ (Put(e) <= Put(e)' /\ gave_up'[e]),
         gave_up[e] => gave_up'[e], sent'[e] \in Nat
  PROVE  FlowOf(Peer(e))'
<1>1. PICK p \in Sides : p = Peer(e) /\ p # e /\ Peer(p) = e
  BY PeerEnd
<1>2. FlowOf(p) /\ TypeOK /\ LoopOf(e)
  BY DEF BridgeInv
<1>3. PICK W \in Seq(Nat) : W = wire[e]
  BY <1>2, TypesAt
<1>4. PICK d \in Nat : d = Len(delivered[p])
  BY <1>2, TypesAt
<1>5. PICK r \in Nat : r = Reached(p)
  BY <1>4 DEF Reached
<1>6. /\ delivered'[p] = delivered[p] /\ loop'[p] = loop[p] /\ hand'[p] = hand[p]
      /\ directions'[p] = directions[p]
  BY <1>1 DEF Acts
<1>7. Reached(p)' = r
  BY <1>5, <1>6 DEF Reached
<1> SUFFICES ASSUME "tunnel" \in directions[p]
             PROVE  /\ Ordered(r, wire'[e]) /\ r + Carried(wire'[e]) <= Put(e)'
                    /\ ~gave_up'[e] => r + Carried(wire'[e]) = Put(e)'
  BY <1>1, <1>2, <1>6, <1>7 DEF FlowOf
<1>8. PICK c \in Nat : c = Carried(W)
  BY CarriedNat
<1>9. Ordered(r, W) /\ r + c <= Put(e) /\ (~gave_up[e] => r + c = Put(e))
  BY <1>1, <1>2, <1>3, <1>5, <1>8 DEF FlowOf
<1>10. Ordered(r, wire'[e]) /\ Carried(wire'[e]) = c
  <2>1. CASE wire'[e] = wire[e]
    BY <1>3, <1>8, <1>9, <2>1
  <2>2. CASE Unmarked(wire[e]) /\ wire'[e] = Append(wire[e], EndFrame)
    <3>1. EndFrame \in Nat
      BY DEF EndFrame
    <3> QED BY <1>3, <1>8, <1>9, <2>2, <3>1, AppendOrdered
  <2> QED BY <2>1, <2>2
<1>11. Put(e) \in Int /\ Put(e)' \in Int
  BY <1>2, TypesAt DEF Put
<1>12. r + c <= Put(e)' /\ (~gave_up'[e] => r + c = Put(e)')
  <2>1. PICK x, y \in Int : x = Put(e) /\ y = Put(e)'
    BY <1>11
  <2>2. r + c <= x /\ (~gave_up[e] => r + c = x) /\ (y = x \/ (x <= y /\ gave_up'[e]))
    BY <1>9, <2>1
  <2> QED BY <2>1, <2>2
<1> QED BY <1>10, <1>12

(* What e receives, in a step in which it reads nothing.                   *)
LEMMA OwnFlow ==
  ASSUME BridgeInv, NEW e \in Sides, Acts(e), wire'[Peer(e)] = wire[Peer(e)],
         \/ "tunnel" \notin directions'[e]
         \/ /\ directions'[e] \subseteq directions[e]
            /\ delivered'[e] = delivered[e] /\ loop[e] # "to_app" /\ loop'[e] # "to_app"
         \/ /\ directions'[e] = directions[e] /\ hand'[e] = hand[e]
            /\ delivered'[e] = delivered[e] /\ loop'[e] = loop[e]
  PROVE  FlowOf(e)'
<1>1. PICK p \in Sides : p = Peer(e) /\ p # e
  BY PeerEnd
<1>2. FlowOf(e)
  BY DEF BridgeInv
<1>3. gave_up'[p] = gave_up[p] /\ Put(p)' = Put(p)
  BY <1>1 DEF Acts, Put
<1>4. CASE "tunnel" \notin directions'[e]
  BY <1>4 DEF FlowOf
<1>5. CASE /\ directions'[e] \subseteq directions[e]
           /\ delivered'[e] = delivered[e] /\ loop[e] # "to_app" /\ loop'[e] # "to_app"
  <2>1. Reached(e)' = Reached(e)
    BY <1>5 DEF Reached
  <2> QED BY <1>1, <1>2, <1>3, <1>5, <2>1 DEF FlowOf
<1>6. CASE /\ directions'[e] = directions[e] /\ hand'[e] = hand[e]
           /\ delivered'[e] = delivered[e] /\ loop'[e] = loop[e]
  <2>1. Reached(e)' = Reached(e)
    BY <1>6 DEF Reached
  <2> QED BY <1>1, <1>2, <1>3, <1>6, <2>1 DEF FlowOf
<1> QED BY <1>4, <1>5, <1>6
-----------------------------------------------------------------------------
(* What each step of an end keeps.                                         *)
Kept(e) == LoopOf(e)' /\ FlowOf(e)' /\ FlowOf(Peer(e))'

LEMMA KeptByReadApp ==
  ASSUME BridgeInv, NEW e \in Sides, Acts(e), ReadApp(e) PROVE Kept(e)
<1>1. LoopOf(e) /\ TypeOK /\ MaxChunks[e] \in Nat
  BY ChunksAssumption DEF BridgeInv
<1>2. PICK n \in Nat : n = sent[e]
  BY <1>1, TypesAt
<1>3. /\ sent'[e] = n + 1 /\ hand'[e] = n + 1 /\ loop[e] = "select" /\ loop'[e] = "to_tunnel"
      /\ n < MaxChunks[e] /\ "app" \in directions[e] /\ ~over[e]
      /\ UNCHANGED <<fin, delivered, ended, directions, over, gave_up, wire>>
  BY <1>1, <1>2 DEF ReadApp, Selecting, LoopAt, TypeOK
<1>4. n + 1 <= MaxChunks[e] /\ n + 1 > 0
  BY <1>1, <1>3
<1>5. LoopOf(e)'
  BY <1>1, <1>3, <1>4 DEF LoopOf
<1>6. FlowOf(e)'
  BY <1>3, OwnFlow
<1>7. Put(e)' = Put(e)
  BY <1>2, <1>3 DEF Put
<1>8. FlowOf(Peer(e))'
  BY <1>3, <1>7, PeerFlow
<1> QED BY <1>5, <1>6, <1>8 DEF Kept

LEMMA KeptByReadAppEnd ==
  ASSUME BridgeInv, NEW e \in Sides, Acts(e), ReadAppEof(e) \/ ReadAppReset(e) PROVE Kept(e)
<1>1. LoopOf(e) /\ TypeOK /\ sent[e] \in Nat
  BY TypesAt DEF BridgeInv
<1>2. /\ loop[e] = "select" /\ "app" \in directions[e] /\ ~over[e]
      /\ directions'[e] = directions[e] \ {"app"}
      /\ UNCHANGED <<sent, delivered, ended, hand, over>>
  BY <1>1 DEF ReadAppEof, ReadAppReset, Selecting, Drop, appVars, TypeOK
<1>3. (fin'[e] \/ gave_up'[e]) /\ (gave_up[e] => gave_up'[e])
  BY <1>1 DEF ReadAppEof, ReadAppReset, appVars, TypeOK
<1>4. /\ loop'[e] \in {"half", "select"}
      /\ wire'[e] = wire[e] \/ (loop'[e] = "select" /\ wire'[e] = Append(wire[e], EndFrame))
      /\ wire'[Peer(e)] = wire[Peer(e)]
  <2>1. HalfCloseTunnel(e) /\ Peer(e) \in Sides /\ Peer(e) # e
    BY PeerEnd DEF ReadAppEof, ReadAppReset
  <2>2. \/ loop' = [loop EXCEPT ![e] = "half"] /\ wire' = wire
        \/ /\ loop' = [loop EXCEPT ![e] = "select"]
           /\ wire' = wire \/ wire' = [wire EXCEPT ![e] = Append(wire[e], EndFrame)]
    BY <1>1, <2>1, HalfCloseEffect
  <2> QED BY <1>1, <2>1, <2>2 DEF TypeOK
<1>5. Unmarked(wire[e])
  BY <1>1, <1>2 DEF LoopOf
<1>6. LoopOf(e)'
  <2>1. loop'[e] = "half" => Unmarked(wire'[e])
    BY <1>4, <1>5
  <2>2. "app" \notin directions'[e]
    BY <1>2
  <2>3. ~gave_up'[e] => ~(over'[e] \/ loop'[e] \in {"close", "done"})
    BY <1>2, <1>4
  <2>4. ended'[e] => "tunnel" \notin directions'[e]
    BY <1>1, <1>2 DEF LoopOf
  <2>5. sent'[e] <= MaxChunks[e]
    BY <1>1, <1>2 DEF LoopOf
  <2> QED BY <1>3, <1>4, <2>1, <2>2, <2>3, <2>4, <2>5 DEF LoopOf
<1>7. FlowOf(e)'
  BY <1>2, <1>4, OwnFlow
<1>8. Put(e)' = Put(e)
  BY <1>2, <1>4 DEF Put
<1>9. FlowOf(Peer(e))'
  BY <1>1, <1>2, <1>3, <1>4, <1>5, <1>8, PeerFlow
<1> QED BY <1>6, <1>7, <1>9 DEF Kept

LEMMA KeptByReadTunnel ==
  ASSUME BridgeInv, NEW e \in Sides, Acts(e), ReadTunnel(e) PROVE Kept(e)
<1>1. LoopOf(e) /\ FlowOf(e) /\ TypeOK
  BY DEF BridgeInv
<1>2. PICK p \in Sides : p = Peer(e) /\ p # e
  BY PeerEnd
<1>3. PICK W \in Seq(Nat) : W = wire[p]
  BY <1>1, TypesAt
<1>4. /\ loop[e] = "select" /\ "tunnel" \in directions[e] /\ ~over[e]
      /\ W # <<>> /\ Head(W) # EndFrame /\ loop'[e] = "to_app" /\ hand'[e] = Head(W)
      /\ wire'[p] = Tail(W) /\ wire'[e] = wire[e]
      /\ UNCHANGED <<sent, fin, delivered, ended, directions, over, gave_up>>
  BY <1>1, <1>2, <1>3 DEF ReadTunnel, Selecting, LoopAt, appVars, TypeOK
<1>5. PICK d \in Nat : d = Len(delivered[e])
  BY <1>1, TypesAt
<1>6. PICK c \in Nat : c = Carried(W)
  BY CarriedNat
<1>7. Reached(e) = d /\ Reached(e)' = d + 1
  BY <1>4, <1>5 DEF Reached
<1>8. Ordered(d, W) /\ d + c <= Put(p) /\ (~gave_up[p] => d + c = Put(p))
  BY <1>1, <1>2, <1>3, <1>4, <1>6, <1>7 DEF FlowOf
<1>9. Head(W) = d + 1 /\ Ordered(d + 1, Tail(W)) /\ Carried(Tail(W)) = c - 1
  BY <1>4, <1>6, <1>8, TailOrdered
<1>10. Put(p)' = Put(p) /\ gave_up'[p] = gave_up[p] /\ Put(p) \in Int
  BY <1>1, <1>2, TypesAt DEF Acts, Put
<1>11. d + 1 + (c - 1) <= Put(p) /\ (~gave_up[p] => d + 1 + (c - 1) = Put(p))
  BY <1>8, <1>10
<1>12. FlowOf(e)'
  BY <1>2, <1>4, <1>5, <1>7, <1>9, <1>10, <1>11 DEF FlowOf
<1>13. LoopOf(e)'
  BY <1>1, <1>4 DEF LoopOf
<1>14. Put(e)' = Put(e) /\ sent'[e] \in Nat
  BY <1>1, <1>4, TypesAt DEF Put
<1>15. FlowOf(Peer(e))'
  BY <1>4, <1>14, PeerFlow
<1> QED BY <1>12, <1>13, <1>15 DEF Kept

LEMMA KeptBySendTunnel ==
  ASSUME BridgeInv, NEW e \in Sides, Acts(e), SendTunnel(e) PROVE Kept(e)
<1>1. LoopOf(e) /\ TypeOK
  BY DEF BridgeInv
<1>2. PICK p \in Sides : p = Peer(e) /\ p # e /\ Peer(p) = e
  BY PeerEnd
<1>3. PICK W \in Seq(Nat) : W = wire[e]
  BY <1>1, TypesAt
<1>4. PICK n \in Nat : n = sent[e]
  BY <1>1, TypesAt
<1>5. /\ loop[e] = "to_tunnel" /\ ~over[e] /\ loop'[e] = "select"
      /\ wire'[e] = Append(W, hand[e]) /\ wire'[p] = wire[p]
      /\ UNCHANGED <<sent, fin, delivered, ended, hand, directions, over, gave_up>>
  BY <1>1, <1>2, <1>3 DEF SendTunnel, LoopAt, appVars, TypeOK
<1>6. /\ "app" \in directions[e] /\ hand[e] = n /\ n > 0 /\ Unmarked(W) /\ ~gave_up[e]
  BY <1>1, <1>3, <1>4, <1>5 DEF LoopOf
<1>7. Unmarked(wire'[e])
  <2>1. PICK k \in Nat : k = Len(W)
    BY <1>3
  <2>2. /\ Len(wire'[e]) = k + 1 /\ wire'[e][k + 1] = n
        /\ \A i \in 1 .. k : wire'[e][i] = W[i] /\ W[i] # EndFrame
    BY <1>5, <1>6, <2>1, AppendAt DEF Unmarked
  <2>3. \A i \in 1 .. k + 1 : i \in 1 .. k \/ i = k + 1
    BY <2>1
  <2> QED BY <1>6, <2>2, <2>3 DEF Unmarked, EndFrame
<1>8. LoopOf(e)'
  BY <1>1, <1>5, <1>6, <1>7 DEF LoopOf
<1>9. FlowOf(e)'
  BY <1>2, <1>5, OwnFlow
<1>10. FlowOf(p)'
  <2>1. FlowOf(p)
    BY DEF BridgeInv
  <2>2. /\ delivered'[p] = delivered[p] /\ loop'[p] = loop[p] /\ hand'[p] = hand[p]
        /\ directions'[p] = directions[p]
    BY <1>2 DEF Acts
  <2>3. PICK d \in Nat : d = Len(delivered[p])
    BY <1>1, TypesAt
  <2>4. PICK r \in Nat : r = Reached(p)
    BY <2>3 DEF Reached
  <2>5. Reached(p)' = r
    BY <2>2, <2>4 DEF Reached
  <2>6. Put(e) = n - 1 /\ Put(e)' = n
    BY <1>4, <1>5 DEF Put
  <2>7. PICK k \in Nat : k = Len(W) /\ Carried(W) = k
    BY <1>6, UnmarkedCarried
  <2> SUFFICES ASSUME "tunnel" \in directions[p]
               PROVE  Ordered(r, wire'[e]) /\ r + Carried(wire'[e]) = n
    <3>1. n <= n
      OBVIOUS
    <3> QED BY <1>2, <2>1, <2>2, <2>5, <2>6, <3>1 DEF FlowOf
  <2>8. Ordered(r, W) /\ r + k = n - 1
    BY <1>2, <1>3, <1>6, <2>1, <2>4, <2>6, <2>7 DEF FlowOf
  <2>9. n = r + k + 1 /\ n # EndFrame
    BY <1>6, <2>8 DEF EndFrame
  <2>10. Ordered(r, wire'[e]) /\ Carried(wire'[e]) = k + 1
    BY <1>5, <1>6, <2>7, <2>8, <2>9, AppendOrdered
  <2> QED BY <2>9, <2>10
<1> QED BY <1>2, <1>8, <1>9, <1>10 DEF Kept
LEMMA KeptBySendEndFrame ==
  ASSUME BridgeInv, NEW e \in Sides, Acts(e), SendEndFrame(e) PROVE Kept(e)
<1>1. LoopOf(e) /\ TypeOK
  BY DEF BridgeInv
<1>2. /\ loop[e] = "half" /\ loop'[e] = "select" /\ wire'[Peer(e)] = wire[Peer(e)]
      /\ wire'[e] = wire[e] \/ wire'[e] = Append(wire[e], EndFrame)
      /\ UNCHANGED <<sent, fin, delivered, ended, hand, directions, over, gave_up>>
  <2>1. wire' = [wire EXCEPT ![e] = wire[e]] \/ wire' = [wire EXCEPT ![e] = Append(wire[e], EndFrame)]
    BY DEF SendEndFrame
  <2>2. wire'[Peer(e)] = wire[Peer(e)] /\ (wire'[e] = wire[e] \/ wire'[e] = Append(wire[e], EndFrame))
    BY <1>1, <2>1, PeerEnd DEF TypeOK
  <2> QED BY <1>1, <2>2 DEF SendEndFrame, LoopAt, appVars, TypeOK
<1>3. "app" \notin directions[e] /\ Unmarked(wire[e])
  BY <1>1, <1>2 DEF LoopOf
<1>4. LoopOf(e)'
  BY <1>1, <1>2, <1>3 DEF LoopOf
<1>5. FlowOf(e)'
  BY <1>2, OwnFlow
<1>6. Put(e)' = Put(e) /\ sent'[e] \in Nat
  BY <1>1, <1>2, TypesAt DEF Put
<1>7. FlowOf(Peer(e))'
  BY <1>2, <1>3, <1>6, PeerFlow
<1> QED BY <1>4, <1>5, <1>7 DEF Kept

LEMMA KeptByFailure ==
  ASSUME BridgeInv, NEW e \in Sides, Acts(e), SendTunnelFails(e) \/ DeliverFails(e) PROVE Kept(e)
<1>1. LoopOf(e) /\ TypeOK
  BY DEF BridgeInv
<1>2. /\ loop[e] \in {"to_tunnel", "to_app"} /\ loop'[e] = "close"
      /\ directions'[e] = {} /\ gave_up'[e] = TRUE
      /\ UNCHANGED <<sent, fin, delivered, ended, hand, over, wire>>
  BY <1>1 DEF SendTunnelFails, DeliverFails, LoopAt, appVars, TypeOK
<1>3. LoopOf(e)'
  BY <1>1, <1>2 DEF LoopOf
<1>4. FlowOf(e)'
  BY <1>2, OwnFlow
<1>5. PICK n \in Nat : n = sent[e]
  BY <1>1, TypesAt
<1>6. (Put(e) = n \/ Put(e) = n - 1) /\ Put(e)' = n
  BY <1>2, <1>5 DEF Put
<1>7. Put(e) <= Put(e)'
  BY <1>6
<1>8. FlowOf(Peer(e))'
  BY <1>2, <1>5, <1>7, PeerFlow
<1> QED BY <1>3, <1>4, <1>8 DEF Kept

LEMMA KeptByDeliver ==
  ASSUME BridgeInv, NEW e \in Sides, Acts(e), Deliver(e) PROVE Kept(e)
<1>1. LoopOf(e) /\ FlowOf(e) /\ TypeOK
  BY DEF BridgeInv
<1>2. PICK p \in Sides : p = Peer(e) /\ p # e
  BY PeerEnd
<1>3. PICK D \in Seq(Nat) : D = delivered[e]
  BY <1>1, TypesAt
<1>4. PICK d \in Nat : d = Len(D)
  BY <1>3
<1>5. /\ loop[e] = "to_app" /\ loop'[e] = "select" /\ delivered'[e] = Append(D, hand[e])
      /\ UNCHANGED <<sent, fin, ended, hand, directions, over, gave_up, wire>>
  BY <1>1, <1>3 DEF Deliver, LoopAt, TypeOK
<1>6. LoopOf(e)'
  BY <1>1, <1>5 DEF LoopOf
<1>7. hand[e] \in Nat /\ Len(delivered'[e]) = d + 1
  BY <1>1, <1>3, <1>4, <1>5, TypesAt, AppendAt
<1>8. Reached(e)' = Reached(e)
  BY <1>3, <1>4, <1>5, <1>7 DEF Reached
<1>9. Put(p)' = Put(p) /\ gave_up'[p] = gave_up[p]
  BY <1>2 DEF Acts, Put
<1>10. FlowOf(e)'
  BY <1>1, <1>2, <1>5, <1>8, <1>9 DEF FlowOf
<1>11. Put(e)' = Put(e) /\ sent'[e] \in Nat
  BY <1>1, <1>5, TypesAt DEF Put
<1>12. FlowOf(Peer(e))'
  BY <1>5, <1>11, PeerFlow
<1> QED BY <1>6, <1>10, <1>12 DEF Kept

(* The end of the tunnel, and the steps that neither read nor write.       *)
LEMMA KeptByEnding ==
  ASSUME BridgeInv, NEW e \in Sides, Acts(e),
         \/ ReadTunnelEof(e) \/ GraceExpires(e) \/ LoopEnds(e) \/ CloseSession(e)
         \/ MonitorCloses(e) \/ Break(e) \/ LoseTunnel(e)
  PROVE  Kept(e)
<1>1. LoopOf(e) /\ TypeOK /\ sent[e] \in Nat
  BY TypesAt DEF BridgeInv
<1>2. UNCHANGED <<sent, fin, delivered, hand, wire>> /\ (gave_up[e] => gave_up'[e])
  BY <1>1 DEF ReadTunnelEof, GraceExpires, LoopEnds, CloseSession, MonitorCloses, Break,
     LoseTunnel, appVars, TypeOK
<1>3. /\ directions'[e] \subseteq directions[e]
      /\ loop'[e] = loop[e] \/ (loop[e] \in {"select", "close"} /\ loop'[e] \in {"close", "done"})
      /\ directions'[e] = directions[e] \/ (loop[e] = "select" /\ "tunnel" \notin directions'[e])
  BY <1>1 DEF ReadTunnelEof, GraceExpires, LoopEnds, CloseSession, MonitorCloses, Break,
     LoseTunnel, Drop, Selecting, LoopAt, TypeOK
<1>4. FlowOf(e)'
  BY <1>2, <1>3, OwnFlow
<1>5. Put(e)' = Put(e)
  BY <1>2, <1>3 DEF Put
<1>6. FlowOf(Peer(e))'
  BY <1>1, <1>2, <1>5, PeerFlow
<1>7. LoopOf(e)'
  <2>1. CASE ReadTunnelEof(e)
    <3>1. /\ loop[e] = "select" /\ loop'[e] = "select" /\ ~over[e] /\ over'[e] = over[e]
          /\ directions'[e] = directions[e] \ {"tunnel"} /\ gave_up'[e] = gave_up[e]
      BY <1>1, <2>1 DEF ReadTunnelEof, Selecting, Drop, TypeOK
    <3> QED BY <1>1, <1>2, <3>1 DEF LoopOf
  <2>2. CASE GraceExpires(e)
    <3>1. /\ loop'[e] = "close" /\ gave_up'[e] = TRUE
          /\ UNCHANGED <<ended, directions, over>>
      BY <1>1, <2>2 DEF GraceExpires, LoopAt, appVars, TypeOK
    <3> QED BY <1>1, <1>2, <3>1 DEF LoopOf
  <2>3. CASE LoopEnds(e)
    <3>1. loop[e] = "select" /\ UNCHANGED <<ended, directions, over, gave_up>>
      BY <2>3 DEF LoopEnds, appVars
    <3>2. ~gave_up[e] => directions[e] = {} /\ ~over[e]
      BY <1>1, <2>3 DEF LoopOf, LoopEnds
    <3>3. loop'[e] = "close"
      BY <1>1, <2>3 DEF LoopEnds, LoopAt, TypeOK
    <3> QED BY <1>1, <1>2, <3>1, <3>2, <3>3 DEF LoopOf
  <2>4. CASE CloseSession(e)
    <3>1. /\ loop[e] = "close" /\ loop'[e] = "done" /\ over'[e] = TRUE
          /\ UNCHANGED <<ended, directions, gave_up>>
      BY <1>1, <2>4 DEF CloseSession, LoopAt, appVars, TypeOK
    <3> QED BY <1>1, <1>2, <3>1 DEF LoopOf
  <2>5. CASE MonitorCloses(e)
    <3>1. /\ over'[e] = TRUE /\ gave_up'[e] = TRUE /\ UNCHANGED <<ended, directions, loop>>
      BY <1>1, <2>5 DEF MonitorCloses, appVars, TypeOK
    <3> QED BY <1>1, <1>2, <3>1 DEF LoopOf
  <2>6. CASE Break(e) \/ LoseTunnel(e)
    <3>1. UNCHANGED <<ended, loop, directions, over, gave_up>>
      BY <2>6 DEF Break, LoseTunnel, appVars
    <3> QED BY <1>1, <1>2, <3>1 DEF LoopOf
  <2> QED BY <2>1, <2>2, <2>3, <2>4, <2>5, <2>6
<1> QED BY <1>4, <1>6, <1>7 DEF Kept

LEMMA StepInv == BridgeInv /\ [BridgeNext]_bridgeVars => BridgeInv'
<1> SUFFICES ASSUME BridgeInv, [BridgeNext]_bridgeVars PROVE BridgeInv'
  OBVIOUS
<1>1. TypeOK /\ TypeOK'
  BY TypeStep DEF BridgeInv
<1>2. CASE UNCHANGED bridgeVars
  BY <1>1, <1>2 DEF bridgeVars, appVars, BridgeInv, LoopOf, FlowOf, Reached, Put
<1>3. ASSUME NEW e \in Sides, Loop(e) \/ Application(e) \/ MonitorCloses(e) \/ LoseTunnel(e)
      PROVE  BridgeInv'
  <2>1. Acts(e)
    BY <1>1, <1>3, OneEndActs
  <2>2. Kept(e)
    BY <1>3, <2>1, KeptByReadApp, KeptByReadAppEnd, KeptByReadTunnel, KeptBySendTunnel,
       KeptBySendEndFrame, KeptByFailure, KeptByDeliver, KeptByEnding DEF Loop, Application
  <2>3. LoopOf(Peer(e))'
    <3>1. \/ wire'[Peer(e)] = wire[Peer(e)]
          \/ wire[Peer(e)] # <<>> /\ wire'[Peer(e)] = Tail(wire[Peer(e)])
      <4>1. Peer(e) \in Sides /\ Peer(e) # e
        BY PeerEnd
      <4>2. CASE ReadTunnel(e)
        BY <1>1, <4>1, <4>2 DEF ReadTunnel, TypeOK
      <4>3. CASE ReadAppEof(e) \/ ReadAppReset(e)
        <5>1. \/ wire' = wire
              \/ wire' = [wire EXCEPT ![e] = Append(wire[e], EndFrame)]
          BY <1>1, <4>3, HalfCloseEffect DEF ReadAppEof, ReadAppReset
        <5> QED BY <1>1, <4>1, <5>1 DEF TypeOK
      <4>4. CASE SendTunnel(e) \/ SendEndFrame(e)
        BY <1>1, <4>1, <4>4 DEF SendTunnel, SendEndFrame, TypeOK
      <4>5. CASE \/ ReadApp(e) \/ ReadTunnelEof(e) \/ SendTunnelFails(e) \/ Deliver(e)
                 \/ DeliverFails(e) \/ GraceExpires(e) \/ LoopEnds(e) \/ CloseSession(e)
                 \/ MonitorCloses(e) \/ Break(e) \/ LoseTunnel(e)
        BY <4>5 DEF ReadApp, ReadTunnelEof, SendTunnelFails, Deliver, DeliverFails,
           GraceExpires, LoopEnds, CloseSession, MonitorCloses, Break, LoseTunnel
      <4> QED BY <1>3, <4>2, <4>3, <4>4, <4>5 DEF Loop, Application
    <3> QED BY <2>1, <3>1, PeerLoop
  <2>4. \A x \in Sides : LoopOf(x)' /\ FlowOf(x)'
    BY <2>2, <2>3, PeerEnd DEF Kept
  <2> QED BY <1>1, <2>4 DEF BridgeInv
<1> QED BY <1>2, <1>3 DEF BridgeNext, BridgeThreads

LEMMA Invariance == BridgeSpec => []BridgeInv
BY InitInv, StepInv, PTL DEF BridgeSpec

(* Every variable keeps to its values, whatever the bounds: the types the  *)
(* two ends' loops rely on.                                                *)
THEOREM TypeCorrect == BridgeSpec => []TypeOK
<1>1. BridgeInv => TypeOK
  BY DEF BridgeInv
<1> QED BY <1>1, Invariance, PTL
-----------------------------------------------------------------------------
(* The tunnel is a pair of TunnelStream's streams.                         *)
AbsSent    == [e \in Sides |-> [i \in 1 .. sent[e] |-> i]]
AbsAborted == [e \in Sides |-> gave_up[e] \/ lost[Peer(e)]]

LEMMA SameEnds == Stream!Ends = Sides /\ \A e : Stream!Peer(e) = Peer(e)
BY DEF Stream!Ends, Sides, Stream!Peer, Peer

(* The chunks 1 .. n.                                                      *)
LEMMA Numbers ==
  ASSUME NEW n \in Nat
  PROVE  /\ [i \in 1 .. n |-> i] \in Seq(Nat) /\ Len([i \in 1 .. n |-> i]) = n
         /\ \A j \in 1 .. n : [i \in 1 .. n |-> i][j] = j
         /\ [i \in 1 .. n + 1 |-> i] = Append([i \in 1 .. n |-> i], n + 1)
<1>1. PICK q : q = [i \in 1 .. n |-> i]
  OBVIOUS
<1>2. q \in Seq(Nat) /\ Len(q) = n /\ \A j \in 1 .. n : q[j] = j
  BY <1>1
<1>3. /\ Append(q, n + 1) \in Seq(Nat) /\ Len(Append(q, n + 1)) = n + 1
      /\ \A j \in 1 .. n : Append(q, n + 1)[j] = j
      /\ Append(q, n + 1)[n + 1] = n + 1
  BY <1>2
<1>4. [i \in 1 .. n + 1 |-> i] \in Seq(Nat) /\ Len([i \in 1 .. n + 1 |-> i]) = n + 1
  OBVIOUS
<1>5. \A j \in 1 .. n + 1 : j \in 1 .. n \/ j = n + 1
  OBVIOUS
<1>6. \A j \in 1 .. n + 1 : [i \in 1 .. n + 1 |-> i][j] = Append(q, n + 1)[j]
  BY <1>3, <1>5
<1>7. [i \in 1 .. n + 1 |-> i] = Append(q, n + 1)
  BY <1>3, <1>4, <1>6
<1> QED BY <1>1, <1>2, <1>7

LEMMA InitImplements == BridgeInit => Stream!Init
<1> SUFFICES ASSUME BridgeInit PROVE Stream!Init
  OBVIOUS
<1>1. [i \in 1 .. 0 |-> i] = <<>>
  OBVIOUS
<1>2. \A e \in Sides : sent[e] = 0 /\ gave_up[e] = FALSE /\ lost[Peer(e)] = FALSE
  BY PeerEnd DEF BridgeInit, Each
<1>3. AbsSent = [e \in Sides |-> <<>>] /\ AbsAborted = [e \in Sides |-> FALSE]
  BY <1>1, <1>2 DEF AbsSent, AbsAborted
<1> QED BY <1>3, SameEnds DEF BridgeInit, Each, Stream!Init, AbsSent, AbsAborted

LEMMA AbsSentStays ==
  ASSUME UNCHANGED sent PROVE AbsSent' = AbsSent
BY DEF AbsSent

LEMMA AbsAbortedStays ==
  ASSUME UNCHANGED <<gave_up, lost>> PROVE AbsAborted' = AbsAborted
BY DEF AbsAborted

(* A step in which nothing is supplied or delivered: the tunnel's end at   *)
(* e, and no other, may give up, or be told that it cannot be reached.     *)
Quiet(e) ==
  /\ UNCHANGED <<sent, fin, delivered, ended>>
  /\ \A x \in Sides : x # e => AbsAborted'[x] = AbsAborted[x]
  /\ AbsAborted[e] => AbsAborted'[e]

LEMMA QuietImplements ==
  ASSUME TypeOK, NEW e \in Sides, Quiet(e) PROVE [Stream!Next]_Stream!vars
<1>1. AbsSent' = AbsSent /\ UNCHANGED <<fin, delivered, ended>>
  BY AbsSentStays DEF Quiet
<1>2. AbsAborted[e] \in BOOLEAN /\ AbsAborted'[e] \in BOOLEAN
  BY DEF AbsAborted
<1>3. CASE AbsAborted'[e] = AbsAborted[e]
  <2>1. AbsAborted' = AbsAborted
    BY <1>3 DEF AbsAborted, Quiet
  <2> QED BY <1>1, <2>1 DEF AbsSent, AbsAborted, Stream!vars
<1>4. CASE AbsAborted'[e] # AbsAborted[e]
  <2>1. AbsAborted[e] = FALSE /\ AbsAborted'[e] = TRUE
    BY <1>2, <1>4 DEF Quiet
  <2>2. AbsAborted' = [AbsAborted EXCEPT ![e] = TRUE]
    BY <2>1 DEF AbsAborted, Quiet
  <2>3. Stream!Abort(e)
    BY <1>1, <2>1, <2>2 DEF Stream!Abort, AbsSent, AbsAborted
  <2> QED BY <2>3, SameEnds DEF Stream!Next
<1> QED BY <1>3, <1>4

LEMMA SupplyImplements ==
  ASSUME BridgeInv, NEW e \in Sides, ReadApp(e) PROVE [Stream!Next]_Stream!vars
<1>1. LoopOf(e) /\ TypeOK
  BY DEF BridgeInv
<1>2. PICK n \in Nat : n = sent[e]
  BY <1>1, TypesAt
<1>3. /\ n < MaxChunks[e] /\ "app" \in directions[e]
      /\ sent' = [sent EXCEPT ![e] = n + 1]
      /\ UNCHANGED <<fin, delivered, ended, gave_up, lost>>
  BY <1>1, <1>2 DEF ReadApp, Selecting
<1>4. ~fin[e]
  BY <1>1, <1>3 DEF LoopOf
<1>5. n + 1 \in 1 .. MaxChunks["internal"] + MaxChunks["external"]
  <2>1. PICK a, b \in Nat : a = MaxChunks["internal"] /\ b = MaxChunks["external"]
    BY ChunksAssumption DEF Sides
  <2>2. MaxChunks[e] = a \/ MaxChunks[e] = b
    BY <2>1 DEF Sides
  <2> QED BY <1>3, <2>1, <2>2
<1>6. AbsSent'[e] = Append(AbsSent[e], n + 1) /\ \A x \in Sides : x # e => AbsSent'[x] = AbsSent[x]
  <2>1. sent'[e] = n + 1 /\ \A x \in Sides : x # e => sent'[x] = sent[x]
    BY <1>1, <1>3 DEF TypeOK
  <2>2. AbsSent'[e] = [i \in 1 .. n + 1 |-> i] /\ AbsSent[e] = [i \in 1 .. n |-> i]
    BY <1>2, <2>1 DEF AbsSent
  <2>3. \A x \in Sides : x # e => AbsSent'[x] = AbsSent[x]
    BY <2>1 DEF AbsSent
  <2> QED BY <2>2, <2>3, Numbers
<1>7. AbsSent' = [AbsSent EXCEPT ![e] = Append(AbsSent[e], n + 1)]
  BY <1>6 DEF AbsSent
<1>8. AbsAborted' = AbsAborted
  BY <1>3, AbsAbortedStays
<1>9. Stream!Supply(e)
  BY <1>3, <1>4, <1>5, <1>7, <1>8 DEF Stream!Supply, AbsSent, AbsAborted
<1> QED BY <1>9, SameEnds DEF Stream!Next

LEMMA FinishImplements ==
  ASSUME BridgeInv, NEW e \in Sides, ReadAppEof(e) PROVE [Stream!Next]_Stream!vars
<1>1. LoopOf(e) /\ TypeOK
  BY DEF BridgeInv
<1>2. /\ "app" \in directions[e] /\ fin' = [fin EXCEPT ![e] = TRUE]
      /\ UNCHANGED <<sent, delivered, ended, gave_up, lost>>
  BY DEF ReadAppEof, Selecting
<1>3. ~fin[e]
  BY <1>1, <1>2 DEF LoopOf
<1>4. AbsSent' = AbsSent /\ AbsAborted' = AbsAborted
  BY <1>2, AbsSentStays, AbsAbortedStays
<1>5. Stream!Finish(e)
  BY <1>2, <1>3, <1>4 DEF Stream!Finish, AbsSent, AbsAborted
<1> QED BY <1>5, SameEnds DEF Stream!Next

LEMMA ArriveImplements ==
  ASSUME BridgeInv, NEW e \in Sides, Deliver(e) PROVE [Stream!Next]_Stream!vars
<1>1. LoopOf(e) /\ FlowOf(e) /\ TypeOK
  BY DEF BridgeInv
<1>2. PICK p \in Sides : p = Peer(e) /\ p # e
  BY PeerEnd
<1>3. PICK n \in Nat : n = sent[p]
  BY <1>1, TypesAt
<1>4. PICK D \in Seq(Nat) : D = delivered[e]
  BY <1>1, TypesAt
<1>5. PICK d \in Nat : d = Len(D)
  BY <1>4
<1>6. /\ loop[e] = "to_app" /\ delivered' = [delivered EXCEPT ![e] = Append(D, hand[e])]
      /\ UNCHANGED <<sent, fin, ended, gave_up, lost>>
  BY <1>4 DEF Deliver
<1>7. "tunnel" \in directions[e] /\ ~ended[e]
  BY <1>1, <1>6 DEF LoopOf
<1>8. hand[e] = d + 1 /\ d + 1 <= n
  <2>1. PICK c \in Nat : c = Carried(wire[p])
    BY <1>1, TypesAt, CarriedNat
  <2>2. Reached(e) = d + 1
    BY <1>4, <1>5, <1>6 DEF Reached
  <2>3. hand[e] = d + 1 /\ d + 1 + c <= Put(p)
    BY <1>1, <1>2, <1>4, <1>5, <1>6, <1>7, <2>1, <2>2 DEF FlowOf
  <2>4. Put(p) = n \/ Put(p) = n - 1
    BY <1>3 DEF Put
  <2> QED BY <2>3, <2>4
<1>9. AbsSent[p] = [i \in 1 .. n |-> i]
  BY <1>3 DEF AbsSent
<1>10. Len(AbsSent[p]) = n /\ AbsSent[p][d + 1] = d + 1
  <2>1. d + 1 \in 1 .. n
    BY <1>8
  <2> QED BY <1>9, <2>1, Numbers
<1>11. AbsSent' = AbsSent /\ AbsAborted' = AbsAborted
  BY <1>6, AbsSentStays, AbsAbortedStays
<1>12. Len(delivered[e]) < Len(AbsSent[p])
  BY <1>4, <1>5, <1>8, <1>10
<1>13. delivered' = [delivered EXCEPT ![e] = Append(delivered[e], AbsSent[p][Len(delivered[e]) + 1])]
  BY <1>4, <1>5, <1>6, <1>8, <1>10
<1>14. Stream!Arrive(e)
  <2>1. p = Stream!Peer(e)
    BY <1>2, SameEnds
  <2> QED BY <1>6, <1>7, <1>11, <1>12, <1>13, <2>1 DEF Stream!Arrive, AbsSent, AbsAborted
<1> QED BY <1>14, SameEnds DEF Stream!Next

LEMMA EndImplements ==
  ASSUME BridgeInv, NEW e \in Sides, ReadTunnelEof(e) PROVE [Stream!Next]_Stream!vars
<1>1. LoopOf(e) /\ FlowOf(e) /\ TypeOK
  BY DEF BridgeInv
<1>2. PICK p \in Sides : p = Peer(e) /\ p # e /\ Peer(p) = e
  BY PeerEnd
<1>3. LoopOf(p)
  BY DEF BridgeInv
<1>4. PICK n, d \in Nat : n = sent[p] /\ d = Len(delivered[e])
  BY <1>1, TypesAt
<1>5. PICK W \in Seq(Nat) : W = wire[p]
  BY <1>1, TypesAt
<1>6. /\ loop[e] = "select" /\ "tunnel" \in directions[e]
      /\ \/ W # <<>> /\ Head(W) = EndFrame
         \/ W = <<>> /\ Gone(e)
         \/ lost[e]
      /\ ended' = [ended EXCEPT ![e] = ended[e] \/ ~broken[e]]
      /\ UNCHANGED <<sent, fin, delivered, gave_up, lost>>
  BY <1>2, <1>5 DEF ReadTunnelEof, Selecting
<1>7. ended[e] = FALSE
  BY <1>1, <1>6, PeerEnd DEF LoopOf, TypeOK
<1>8. AbsSent' = AbsSent /\ AbsAborted' = AbsAborted
  BY <1>6, AbsSentStays, AbsAbortedStays
<1>9. CASE broken[e]
  <2>1. ended' = ended
    BY <1>1, <1>6, <1>7, <1>9 DEF TypeOK
  <2> QED BY <1>6, <1>8, <2>1 DEF AbsSent, AbsAborted, Stream!vars
<1>10. CASE ~broken[e]
  <2>1. ended' = [ended EXCEPT ![e] = TRUE]
    BY <1>6, <1>10
  <2>2. gave_up[p] \/ lost[e] \/ (fin[p] /\ d = n)
    <3> SUFFICES ASSUME ~gave_up[p], ~lost[e] PROVE fin[p] /\ d = n
      OBVIOUS
    <3>1. Ordered(d, W) /\ d + Carried(W) = Put(p)
      BY <1>1, <1>2, <1>4, <1>5, <1>6 DEF FlowOf, Reached
    <3>2. Carried(W) = 0 /\ "app" \notin directions[p]
      <4>1. CASE W # <<>> /\ Head(W) = EndFrame
        <5>1. Carried(W) = 0
          BY <1>4, <3>1, <4>1, EndFrameAlone
        <5>2. ~Unmarked(W)
          BY <4>1, HeadTail DEF Unmarked
        <5> QED BY <1>3, <1>5, <5>1, <5>2 DEF LoopOf
      <4>2. CASE W = <<>> /\ Gone(e)
        <5>1. Carried(<<>>) = 0
          BY DEF Carried
        <5>2. over[p]
          BY <1>2, <4>2 DEF Gone, Shut
        <5> QED BY <1>3, <4>2, <5>1, <5>2 DEF LoopOf
      <4> QED BY <1>6, <4>1, <4>2
    <3>3. fin[p] /\ loop[p] # "to_tunnel"
      BY <1>3, <3>2 DEF LoopOf
    <3>4. Put(p) = n
      BY <1>4, <3>3 DEF Put
    <3> QED BY <1>4, <3>1, <3>2, <3>3, <3>4
  <2>3. AbsAborted[p] \/ (fin[p] /\ Len(delivered[e]) = Len(AbsSent[p]))
    <3>1. Len(AbsSent[p]) = n
      BY <1>4, Numbers DEF AbsSent
    <3> QED BY <1>2, <1>4, <2>2, <3>1 DEF AbsAborted
  <2>4. Stream!End(e)
    <3>1. p = Stream!Peer(e)
      BY <1>2, SameEnds
    <3> QED BY <1>6, <1>7, <1>8, <2>1, <2>3, <3>1 DEF Stream!End, AbsSent, AbsAborted
  <2> QED BY <2>4, SameEnds DEF Stream!Next
<1> QED BY <1>9, <1>10

LEMMA GiveUpQuiet ==
  ASSUME TypeOK, NEW e \in Sides, UNCHANGED <<sent, fin, delivered, ended, lost>>,
         gave_up' = gave_up \/ gave_up' = [gave_up EXCEPT ![e] = TRUE]
  PROVE  Quiet(e)
BY DEF Quiet, AbsAborted, TypeOK

LEMMA StepImplements == BridgeInv /\ [BridgeNext]_bridgeVars => [Stream!Next]_Stream!vars
<1> SUFFICES ASSUME BridgeInv, [BridgeNext]_bridgeVars PROVE [Stream!Next]_Stream!vars
  OBVIOUS
<1>0. TypeOK
  BY DEF BridgeInv
<1>1. CASE UNCHANGED bridgeVars
  BY <1>1 DEF bridgeVars, appVars, Stream!vars
<1>2. ASSUME NEW e \in Sides, Loop(e) \/ Application(e) \/ MonitorCloses(e) \/ LoseTunnel(e)
      PROVE  [Stream!Next]_Stream!vars
  <2>1. CASE ReadApp(e) \/ ReadAppEof(e) \/ Deliver(e) \/ ReadTunnelEof(e)
    BY <2>1, SupplyImplements, FinishImplements, ArriveImplements, EndImplements
  <2>2. CASE \/ ReadAppReset(e) \/ ReadTunnel(e) \/ SendTunnel(e) \/ SendTunnelFails(e)
             \/ SendEndFrame(e) \/ DeliverFails(e) \/ GraceExpires(e) \/ LoopEnds(e)
             \/ CloseSession(e) \/ MonitorCloses(e) \/ Break(e)
    <3>1. /\ UNCHANGED <<sent, fin, delivered, ended, lost>>
          /\ gave_up' = gave_up \/ gave_up' = [gave_up EXCEPT ![e] = TRUE]
      BY <2>2 DEF ReadAppReset, ReadTunnel, SendTunnel, SendTunnelFails, SendEndFrame,
         DeliverFails, GraceExpires, LoopEnds, CloseSession, MonitorCloses, Break, appVars
    <3> QED BY <1>0, <3>1, GiveUpQuiet, QuietImplements
  <2>3. CASE LoseTunnel(e)
    <3>1. /\ UNCHANGED <<sent, fin, delivered, ended, gave_up>>
          /\ lost' = [lost EXCEPT ![e] = TRUE]
      BY <2>3 DEF LoseTunnel, appVars
    <3>2. Quiet(Peer(e))
      BY <1>0, <3>1, PeerEnd DEF Quiet, AbsAborted, TypeOK
    <3> QED BY <1>0, <3>2, PeerEnd, QuietImplements
  <2> QED BY <1>2, <2>1, <2>2, <2>3 DEF Loop, Application
<1> QED BY <1>1, <1>2 DEF BridgeNext, BridgeThreads

(* Whatever kind of half-close its tunnel has, and whichever end resets,   *)
(* pauses, is found idle or loses the tunnel, a user's bridge joins the    *)
(* two applications by a pair of streams as TunnelStream describes them.   *)
THEOREM BridgeImplementsStream == BridgeSpec => ImplementsStream
BY InitImplements, StepImplements, Invariance, PTL DEF BridgeSpec, ImplementsStream, Stream!Spec
-----------------------------------------------------------------------------
(* What the two applications see: TunnelStream keeps its own promise, of   *)
(* any five values its variables may have.                                 *)
Joins(s, f, g, d, a) ==
  /\ s \in [Sides -> Seq(Nat)] /\ g \in [Sides -> Seq(Nat)]
  /\ f \in [Sides -> BOOLEAN] /\ d \in [Sides -> BOOLEAN] /\ a \in [Sides -> BOOLEAN]
  /\ \A e \in Sides :
       /\ Len(g[e]) <= Len(s[Peer(e)])
       /\ \A i \in 1 .. Len(g[e]) : g[e][i] = s[Peer(e)][i]
       /\ d[e] => a[Peer(e)] \/ (f[Peer(e)] /\ Len(g[e]) = Len(s[Peer(e)]))

LEMMA SupplyJoins ==
  ASSUME NEW s, NEW f, NEW g, NEW d, NEW a, Joins(s, f, g, d, a),
         NEW e \in Sides, ~f[e], NEW c \in Nat, NEW t, t = [s EXCEPT ![e] = Append(s[e], c)]
  PROVE  Joins(t, f, g, d, a)
<1>1. /\ t \in [Sides -> Seq(Nat)] /\ \A x \in Sides \ {e} : t[x] = s[x]
      /\ Len(t[e]) = Len(s[e]) + 1 /\ Len(s[e]) \in Nat
      /\ \A i \in 1 .. Len(s[e]) : t[e][i] = s[e][i]
  BY DEF Joins
<1> SUFFICES ASSUME NEW x \in Sides
             PROVE  /\ Len(g[x]) <= Len(t[Peer(x)])
                    /\ \A i \in 1 .. Len(g[x]) : g[x][i] = t[Peer(x)][i]
                    /\ d[x] => a[Peer(x)] \/ (f[Peer(x)] /\ Len(g[x]) = Len(t[Peer(x)]))
  BY <1>1 DEF Joins
<1>2. Peer(x) \in Sides /\ Len(g[x]) \in Nat
  BY PeerEnd DEF Joins
<1>3. CASE Peer(x) = e
  BY <1>1, <1>2, <1>3 DEF Joins
<1>4. CASE Peer(x) /= e
  BY <1>1, <1>2, <1>4 DEF Joins
<1> QED BY <1>3, <1>4

LEMMA ChunkAt ==
  ASSUME NEW q \in Seq(Nat), NEW i \in 1 .. Len(q)
  PROVE  q[i] \in Nat
OBVIOUS

LEMMA ArriveJoins ==
  ASSUME NEW s, NEW f, NEW g, NEW d, NEW a, Joins(s, f, g, d, a),
         NEW e \in Sides, ~d[e], Len(g[e]) < Len(s[Peer(e)]),
         NEW h, h = [g EXCEPT ![e] = Append(g[e], s[Peer(e)][Len(g[e]) + 1])]
  PROVE  Joins(s, f, h, d, a)
<1>1. Peer(e) \in Sides /\ Len(g[e]) \in Nat /\ s[Peer(e)] \in Seq(Nat)
  BY PeerEnd DEF Joins
<1>2. s[Peer(e)][Len(g[e]) + 1] \in Nat
  <2>1. Len(s[Peer(e)]) \in Nat
    BY <1>1
  <2>2. Len(g[e]) + 1 \in 1 .. Len(s[Peer(e)])
    BY <1>1, <2>1
  <2> QED BY <1>1, <2>2, ChunkAt
<1>3. /\ h \in [Sides -> Seq(Nat)] /\ \A x \in Sides \ {e} : h[x] = g[x]
      /\ Len(h[e]) = Len(g[e]) + 1
      /\ \A i \in 1 .. Len(g[e]) : h[e][i] = g[e][i]
      /\ h[e][Len(g[e]) + 1] = s[Peer(e)][Len(g[e]) + 1]
  BY <1>1, <1>2 DEF Joins
<1>4. /\ Len(h[e]) <= Len(s[Peer(e)])
      /\ \A i \in 1 .. Len(h[e]) : h[e][i] = s[Peer(e)][i]
  <2>1. \A i \in 1 .. Len(g[e]) : g[e][i] = s[Peer(e)][i]
    BY DEF Joins
  <2>2. ASSUME NEW i \in 1 .. Len(h[e]) PROVE h[e][i] = s[Peer(e)][i]
    <3>1. i \in 1 .. Len(g[e]) \/ i = Len(g[e]) + 1
      BY <1>1, <1>3
    <3> QED BY <1>3, <2>1, <3>1
  <2>3. Len(s[Peer(e)]) \in Nat
    BY <1>1
  <2> QED BY <1>1, <1>3, <2>2, <2>3
<1> QED BY <1>3, <1>4 DEF Joins

LEMMA OthersJoin ==
  ASSUME NEW s, NEW f, NEW g, NEW d, NEW a, Joins(s, f, g, d, a), NEW e \in Sides
  PROVE  /\ Joins(s, [f EXCEPT ![e] = TRUE], g, d, a)
         /\ Joins(s, f, g, d, [a EXCEPT ![e] = TRUE])
         /\ a[Peer(e)] \/ (f[Peer(e)] /\ Len(g[e]) = Len(s[Peer(e)])) =>
              Joins(s, f, g, [d EXCEPT ![e] = TRUE], a)
<1>1. \A x \in Sides : Peer(x) \in Sides
  BY PeerEnd
<1> QED BY <1>1 DEF Joins

StreamJoins == Joins(AbsSent, fin, delivered, ended, AbsAborted)

LEMMA StreamStepJoins == StreamJoins /\ [Stream!Next]_Stream!vars => StreamJoins'
<1> SUFFICES ASSUME StreamJoins, [Stream!Next]_Stream!vars PROVE StreamJoins'
  OBVIOUS
<1>1. CASE UNCHANGED Stream!vars
  <2>1. /\ AbsSent' = AbsSent /\ fin' = fin /\ delivered' = delivered
        /\ ended' = ended /\ AbsAborted' = AbsAborted
    BY <1>1 DEF Stream!vars, AbsSent, AbsAborted
  <2> QED BY <2>1 DEF StreamJoins
<1>2. ASSUME NEW e \in Sides, Stream!Supply(e) PROVE StreamJoins'
  <2>1. /\ ~fin[e]
        /\ \E c \in 1 .. MaxChunks["internal"] + MaxChunks["external"] : AbsSent' = [AbsSent EXCEPT ![e] = Append(AbsSent[e], c)]
        /\ fin' = fin /\ delivered' = delivered /\ ended' = ended /\ AbsAborted' = AbsAborted
    BY <1>2 DEF Stream!Supply, AbsSent, AbsAborted
  <2>2. MaxChunks["internal"] \in Nat /\ MaxChunks["external"] \in Nat
    BY ChunksAssumption DEF Sides
  <2>3. 1 .. MaxChunks["internal"] + MaxChunks["external"] \subseteq Nat
    BY <2>2
  <2>4. PICK c \in Nat : AbsSent' = [AbsSent EXCEPT ![e] = Append(AbsSent[e], c)]
    BY <2>1, <2>3
  <2> QED BY <2>1, <2>4, SupplyJoins DEF StreamJoins
<1>3. ASSUME NEW e \in Sides, Stream!Finish(e) PROVE StreamJoins'
  <2>1. /\ fin' = [fin EXCEPT ![e] = TRUE]
        /\ AbsSent' = AbsSent /\ delivered' = delivered /\ ended' = ended /\ AbsAborted' = AbsAborted
    BY <1>3 DEF Stream!Finish, AbsSent, AbsAborted
  <2> QED BY <2>1, OthersJoin DEF StreamJoins
<1>4. ASSUME NEW e \in Sides, Stream!Arrive(e) PROVE StreamJoins'
  <2>1. /\ ~ended[e] /\ Len(delivered[e]) < Len(AbsSent[Peer(e)])
        /\ delivered' = [delivered EXCEPT ![e] = Append(delivered[e], AbsSent[Peer(e)][Len(delivered[e]) + 1])]
        /\ AbsSent' = AbsSent /\ fin' = fin /\ ended' = ended /\ AbsAborted' = AbsAborted
    BY <1>4, SameEnds DEF Stream!Arrive, AbsSent, AbsAborted
  <2> QED BY <2>1, ArriveJoins DEF StreamJoins
<1>5. ASSUME NEW e \in Sides, Stream!End(e) PROVE StreamJoins'
  <2>1. /\ AbsAborted[Peer(e)] \/ (fin[Peer(e)] /\ Len(delivered[e]) = Len(AbsSent[Peer(e)]))
        /\ ended' = [ended EXCEPT ![e] = TRUE]
        /\ AbsSent' = AbsSent /\ fin' = fin /\ delivered' = delivered /\ AbsAborted' = AbsAborted
    BY <1>5, SameEnds DEF Stream!End, AbsSent, AbsAborted
  <2> QED BY <2>1, OthersJoin DEF StreamJoins
<1>6. ASSUME NEW e \in Sides, Stream!Abort(e) PROVE StreamJoins'
  <2>1. /\ AbsAborted' = [AbsAborted EXCEPT ![e] = TRUE]
        /\ AbsSent' = AbsSent /\ fin' = fin /\ delivered' = delivered /\ ended' = ended
    BY <1>6 DEF Stream!Abort, AbsSent, AbsAborted
  <2> QED BY <2>1, OthersJoin DEF StreamJoins
<1> QED BY <1>1, <1>2, <1>3, <1>4, <1>5, <1>6, SameEnds DEF Stream!Next

LEMMA InitJoins == Stream!Init => StreamJoins
<1> SUFFICES ASSUME Stream!Init PROVE StreamJoins
  OBVIOUS
<1>1. /\ AbsSent = [e \in Sides |-> <<>>] /\ delivered = [e \in Sides |-> <<>>]
      /\ fin = [e \in Sides |-> FALSE] /\ ended = [e \in Sides |-> FALSE]
      /\ AbsAborted = [e \in Sides |-> FALSE]
  BY SameEnds DEF Stream!Init, AbsSent, AbsAborted
<1>2. <<>> \in Seq(Nat) /\ Len(<<>>) = 0
  OBVIOUS
<1>3. \A e \in Sides : Peer(e) \in Sides
  BY PeerEnd
<1> QED BY <1>1, <1>2, <1>3 DEF StreamJoins, Joins

LEMMA JoinsPromise == StreamJoins => Stream!InOrder /\ Stream!CleanEnd
<1> SUFFICES ASSUME StreamJoins PROVE Stream!InOrder /\ Stream!CleanEnd
  OBVIOUS
<1>1. \A e \in Sides :
        /\ Len(delivered[e]) <= Len(AbsSent[Peer(e)])
        /\ \A i \in 1 .. Len(delivered[e]) : delivered[e][i] = AbsSent[Peer(e)][i]
        /\ ended[e] => AbsAborted[Peer(e)] \/ (fin[Peer(e)] /\ Len(delivered[e]) = Len(AbsSent[Peer(e)]))
  BY DEF StreamJoins, Joins
<1>2. Stream!InOrder
  <2>1. ASSUME NEW e \in Stream!Ends
        PROVE  /\ Len(delivered[e]) <= Len(AbsSent[Stream!Peer(e)])
               /\ \A i \in 1 .. Len(delivered[e]) : delivered[e][i] = AbsSent[Stream!Peer(e)][i]
    <3>1. e \in Sides /\ Stream!Peer(e) = Peer(e)
      BY SameEnds
    <3> QED BY <1>1, <3>1
  <2> QED BY <2>1, Zenon DEF Stream!InOrder, AbsSent
<1>3. Stream!CleanEnd
  BY <1>1, SameEnds, Zenon DEF Stream!CleanEnd, AbsSent, AbsAborted
<1> QED BY <1>2, <1>3

(* A user's connection over a bridge of its own: each application receives *)
(* a prefix of what the other one supplied, and an end of stream after all *)
(* of it, unless the other node gave the connection up or lost it.         *)
THEOREM BridgeJoinsTheApplications == BridgeSpec => [](Stream!InOrder /\ Stream!CleanEnd)
BY InitImplements, StepImplements, Invariance, InitJoins, StreamStepJoins, JoinsPromise,
   PTL DEF BridgeSpec
=============================================================================
