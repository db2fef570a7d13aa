---------------------------- MODULE MCMuxCarrier ----------------------------
(* Instances of MuxCarrier for TLC. *)
EXTENDS MuxCarrier

Supply(S, up, down) ==
  [e \in Ends |-> [s \in S |-> IF e = "internal" THEN up[s] ELSE down[s]]]
NoPings == [e \in Ends |-> 0]
OnePing == [e \in Ends |-> IF e = "external" THEN 1 ELSE 0]
User1     == <<"internal", 1>>
Service1  == <<"external", 1>>

Quiet(S, up, down) ==
  [streams |-> S, chunks |-> Supply(S, up, down), pings |-> NoPings,
   breakable |-> {}, idle |-> {}, refusable |-> {}, cuttable |-> FALSE, slow |-> {}]

(* A stream with data both ways that the user or the service may spoil.    *)
Reset == [Quiet({1}, <<1>>, <<1>>) EXCEPT
            !.breakable = {User1}, !.refusable = {1}]
(* A stream whose service the monitor may find idle.                       *)
Idle == [Quiet({1}, <<1>>, <<0>>) EXCEPT !.idle = {Service1}]
(* A carrier that is lost. *)
Lost == [Quiet({1}, <<1>>, <<0>>) EXCEPT !.cuttable = TRUE]
(* A carrier that is lost between a heartbeat and its answer. *)
Pinged == [Quiet({1}, <<0>>, <<0>>) EXCEPT !.pings = OnePing, !.cuttable = TRUE]
(* Two streams, the service of one of which does not read. *)
Share == [Quiet({1, 2}, <<2, 0>>, <<0, 0>>) EXCEPT !.slow = {Service1}]
(* A stream on which both ends send more than the queue of a session and   *)
(* the wire hold; both applications read, in their own time.               *)
Crossed == Quiet({1}, <<2>>, <<2>>)

Sparing  == {Reset, Idle, Lost, Pinged, Share}
Crossing == {Crossed}
=============================================================================
