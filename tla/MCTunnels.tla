----------------------------- MODULE MCTunnels -----------------------------
(* The tunnels a user is given.  Bridge: one tunnel, of each kind.         *)
(* BondGroup: two users who want two lanes each, or one who wants three.   *)
EXTENDS Bridge, BondGroup, TLC

VARIABLE setting
CONSTANTS t1, t2, t3, u1, u2

Chunks(up, down) == [e \in Sides |-> IF e = "internal" THEN up ELSE down]
Both == Chunks(2, 2)

(* Over TCP a user may reset, a session may be found idle, and the tunnel  *)
(* may be lost; framed tunnels only close in good order; over TLS a user   *)
(* may reset, and the applications may pause.                              *)
Tcp == INSTANCE Bridge WITH
  Mode <- "tcp", Breakable <- {"internal"}, Idle <- {"external"}, MayCut <- TRUE
Framed == INSTANCE Bridge WITH Mode <- "framed"
Tls == INSTANCE Bridge WITH
  Mode <- "tls", MaxChunks <- Chunks(2, 1), Breakable <- {"internal"},
  PauseExpires <- TRUE

Alone == INSTANCE BondGroup WITH Requested <- 3, LaneSteps <- {2, 3}

all == <<bridgeVars, vars, setting>>
OneTunnel(s, A) == setting = s /\ A /\ UNCHANGED <<vars, setting>>
OnBridge(A, B, C) == OneTunnel("tcp", A) \/ OneTunnel("framed", B) \/ OneTunnel("tls", C)
OnGroups(s, A) == setting = s /\ A /\ UNCHANGED <<bridgeVars, setting>>
Grouped(A, B) == OnGroups("together", A) \/ (OnGroups("alone", B) /\ user'[u2] = "new")

AllInit ==
  /\ BridgeInit /\ Init
  /\ setting \in {"tcp", "framed", "tls", "together", "alone"}
AllNext ==
  \/ OnBridge(Tcp!BridgeNext, Framed!BridgeNext, Tls!BridgeNext)
  \/ Grouped(Next, Alone!Next)
AllSpec ==
  /\ AllInit /\ [][AllNext]_all
  /\ WF_all(OnBridge(Tcp!BridgeThreads, Framed!BridgeThreads, Tls!BridgeThreads))
  /\ \A e \in Sides :
       WF_all(OnBridge(Tcp!ReadAppEof(e), Framed!ReadAppEof(e), Tls!ReadAppEof(e)))
  /\ WF_all(Grouped(Threads, Alone!Threads))
=============================================================================
