----------------------------- MODULE MCMuxPool -----------------------------
(* Small pools for MuxPool: two users with one attempt each and two        *)
(* carriers that may be cut, one user with two attempts and one carrier at *)
(* a time, and a link that is stopped.                                     *)
EXTENDS MuxPool

VARIABLE setting
CONSTANTS u1, u2

Two   == INSTANCE MuxPool WITH Cuttable <- TRUE, ThreadsFail <- TRUE
Retry == INSTANCE MuxPool WITH Cuttable <- TRUE, MaxCarriers <- 1, ThreadsFail <- TRUE
Stop  == INSTANCE MuxPool WITH Stoppable <- TRUE

In(s, A) == setting = s /\ A /\ UNCHANGED setting
One(s, A) == In(s, A) /\ upc'[u2] = "try"
Either(A, B, C) == In("two", A) \/ One("retry", B) \/ One("stop", C)

AllInit ==
  /\ Init /\ setting \in {"two", "retry", "stop"}
  /\ \A u \in Users : try[u] = IF setting = "two" THEN Tries ELSE 1

(* The idle monitor closes what stays idle: relied on only where said.     *)
AllSpec ==
  /\ AllInit
  /\ [][Either(Two!Next, Retry!Next, Stop!Next)]_<<vars, setting>>
  /\ \A u \in Users : WF_<<vars, setting>>(In(setting, UserSteps(u)) /\ (setting = "two" \/ u = u1))
  /\ \A c \in Carriers : WF_<<vars, setting>>(In(setting, CarrierClears(c) \/ ReaderFails(c)))
  /\ \A s \in Sessions : WF_<<vars, setting>>(One("retry", Monitor(s)))
  /\ WF_<<vars, setting>>(Either(Two!MaintainSteps, Retry!MaintainSteps, Stop!MaintainSteps))
  /\ WF_<<vars, setting>>(In(setting, StopSteps))

(* A stream left behind on a dead carrier by a failed attempt is ended at  *)
(* last, by the idle monitor, unless its writer could not start and the    *)
(* monitor never heard of it.                                              *)
LeftoversEnd ==
  <>[](setting = "retry" =>
         \A s \in Sessions : sess[s] = "open" /\ s \notin uncounted => phase[on[s]] # "closed")
=============================================================================
