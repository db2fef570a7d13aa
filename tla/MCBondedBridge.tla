--------------------------- MODULE MCBondedBridge ---------------------------
(* Instances of BondedBridge for TLC: one set of constants per setting.    *)
EXTENDS BondedBridge

VARIABLE setting
CONSTANTS p, q

(* Chunks supplied by each endpoint. *)
Chunks(up, down) == [e \in Ends |-> IF e = "internal" THEN up ELSE down]
Upload == Chunks(3, 0)

(* An application may reset its connection, and joins may expire. *)
Break == INSTANCE BondedBridge WITH
  Payload <- {p}, MaxChunks <- Chunks(1, 0), Breakable <- {"external"}
(* A lane may be cut. *)
Lost == INSTANCE BondedBridge WITH
  Payload <- {p}, MaxChunks <- Chunks(1, 0), Cuttable <- {0}
(* The monitor or a stop closes the session of either end, over one lane. *)
Shut == INSTANCE BondedBridge WITH
  Payload <- {p}, MaxChunks <- Chunks(2, 0), NLanes <- 1, Closable <- Ends
(* Both applications supply, and nothing fails. *)
Exchange == INSTANCE BondedBridge WITH
  Payload <- {p}, MaxChunks <- Chunks(2, 1), JoinExpires <- FALSE
(* An application may reset its connection, and joins do not expire. *)
Leave == INSTANCE BondedBridge WITH
  Payload <- {p}, MaxChunks <- Chunks(1, 0), Breakable <- {"external"},
  JoinExpires <- FALSE

In(s, A) == setting = s /\ A /\ UNCHANGED setting

SafeInit ==
  \/ Init /\ setting \in {"order", "break", "lost"}
  \/ Shut!Init /\ setting = "shut"
SafeSpec ==
  /\ SafeInit
  /\ [][\/ In("order", Next) \/ In("break", Break!Next)
        \/ In("lost", Lost!Next) \/ In("shut", Shut!Next)]_<<vars, setting>>

(* The first setting alone, where a join expires only because a lane does  *)
(* not take its frames.                                                    *)
Blocked(e, l) == lane_pc[e][l] = "send" /\ Len(wire[e][l]) = WireCap
Expires(e) == JoinLaneSenders(e) /\ \E l \in Lanes : lane_pc[e][l] # "done"
TailNext ==
  /\ In("order", Next)
  /\ \A e \in Ends : Expires(e) => \E l \in Lanes : Blocked(e, l)
TailSpec ==
  /\ Init /\ setting = "order"
  /\ [][TailNext]_<<vars, setting>>

LiveNext == In("exchange", Exchange!Next) \/ In("leave", Leave!Next)
LiveThreads ==
  \/ In("exchange", \/ Exchange!Threads
                    \/ \E e \in Ends : Exchange!ReadChunk(e) \/ Exchange!ReadEof(e))
  \/ In("leave", \/ Leave!Threads
                 \/ \E e \in Ends : Leave!ReadChunk(e) \/ Leave!ReadEof(e))
LiveInit == Init /\ setting \in {"exchange", "leave"}
BothLiveSpec ==
  /\ LiveInit
  /\ [][LiveNext]_<<vars, setting>>
  /\ WF_<<vars, setting>>(LiveThreads)
=============================================================================
