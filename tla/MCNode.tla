------------------------------- MODULE MCNode -------------------------------
(* A node: the commands that the panel queues for it (NodeCommands) and the *)
(* endpoint of the panel that its loops share (PanelFailover).              *)
EXTENDS NodeCommands, PanelFailover

VARIABLE setting
CONSTANTS t1, t2, c1, c2, o1, e1, h1, config_sync, report

all == <<queueVars, raced, failoverVars, setting>>

------------------------------------------------------------------------------
(* Commands: two updates, or one and a payload test, on a node that fails; *)
(* a handoff that is waited for; and two threads of the panel with two     *)
(* updates and an optimisation.                                            *)

KindDef == [c \in Commands |->
  CASE c \in {c1, c2} -> "update" [] c = o1 -> "optimize"
    [] c = e1 -> "test" [] c = h1 -> "handoff"]

Handoff == INSTANCE NodeCommands WITH MaxAge <- 0, MaxLosses <- 1, Waits <- TRUE
Ageing  == INSTANCE NodeCommands WITH MaxAge <- 1, MaxLosses <- 0
Working == INSTANCE NodeCommands WITH MaxAge <- 0, MaxLosses <- 0

(* The threads of the panel are alike: a request takes the first free one. *)
In(s, C, T, A) ==
  /\ setting = s /\ A /\ UNCHANGED <<failoverVars, setting>> /\ used' \subseteq C
  /\ thread[t2] = Free /\ thread'[t2] # Free => t2 \in T /\ thread[t1] # Free
OneOf(F, W, A, P) ==
  \/ In("updates", {c1, c2}, {t1}, F) \/ In("test", {c1, e1}, {t1}, F)
  \/ In("handoff", {c1, e1, h1}, {t1}, W) \/ In("ageing", {c1, o1}, {t1, t2}, A)
  \/ In("threads", {c1, c2, o1}, {t1, t2}, P) /\ (reported = {} \/ node' = node)
OnQueue(A) == OneOf(A, A, A, A)

Serial == {"updates", "test", "handoff"}

(* The endpoint that the loops of the node share. *)
OnPanels(A) == setting = "panels" /\ A /\ UNCHANGED <<queueVars, raced, setting>>

------------------------------------------------------------------------------
AllInit ==
  /\ QueueInit /\ FailoverInit
  /\ setting \in Serial \union {"ageing", "threads", "panels"}
AllNext ==
  \/ OneOf(QueueNext, Handoff!QueueNext, Ageing!QueueNext, Working!QueueNext)
  \/ OnPanels(FailoverNext)
AllSpec ==
  /\ AllInit /\ [][AllNext]_all
  /\ WF_<<queueVars, setting>>(OnQueue(NodeStep))
  /\ WF_<<queueVars, setting>>(OnQueue(Restart))
  /\ \A t \in Threads : WF_<<queueVars, setting>>(OnQueue(PanelStep(t)))
  /\ SF_<<queueVars, setting>>(OnQueue(\E t \in Threads, m \in inbox : ReceiveResult(t, m)))
  /\ \A l \in Loops : WF_all(OnPanels(Request(l)))
  /\ WF_all(OnPanels(Execute)) /\ WF_all(OnPanels(RetryDue))

(* The node works through the list, bounded window or not: whatever is in  *)
(* it leaves it, unless the node has moved to another panel.               *)
EveryCommandLeaves ==
  <>[](setting \in Serial => queue = <<>> \/ moved = "moved")
=============================================================================
