--------------------------- MODULE MCLinkWorkers ---------------------------
(* Small links for LinkWorkers: two workers of a link that is stopped, over *)
(* plain and TLS tunnels, and four of one that runs.                       *)
EXTENDS LinkWorkers

VARIABLE setting
CONSTANTS w1, w2, w3, w4

Plain == INSTANCE LinkWorkers WITH
  Kinds <- {"tcp", "mux"}, ThreadsFail <- TRUE, Stoppable <- TRUE, Stalls <- TRUE
Secure == INSTANCE LinkWorkers WITH
  Kinds <- {"tcp", "bond"}, Tls <- TRUE, ThreadsFail <- TRUE, Stoppable <- TRUE, Stalls <- TRUE
Running == INSTANCE LinkWorkers WITH MinReady <- 2

(* Thread slots are interchangeable: a new thread takes the first free one. *)
Slots == <<w1, w2, w3, w4>>
FirstFree ==
  \A i, j \in 1 .. 4 :
    i < j /\ pc[Slots[i]] = "none" /\ pc[Slots[j]] = "none" => pc'[Slots[j]] = "none"
In(s, A)  == setting = s /\ A /\ FirstFree /\ UNCHANGED setting
Two(s, A) == In(s, A) /\ pc'[w3] = "none" /\ pc'[w4] = "none"

AllNext ==
  Two("plain", Plain!Next) \/ Two("secure", Secure!Next) \/ In("running", Running!Next)
Steps(w) ==
  \/ Two("plain", Plain!WorkerSteps(w)) \/ Two("secure", Secure!WorkerSteps(w))
  \/ In("running", Running!WorkerSteps(w))
Guard ==
  \/ Two("plain", Plain!GuardianSteps) \/ Two("secure", Secure!GuardianSteps)
  \/ In("running", Running!GuardianSteps)

AllInit == Init /\ setting \in {"plain", "secure", "running"}
(* The far ends owe something over TLS only. *)
AllSpec ==
  /\ AllInit
  /\ [][AllNext]_<<vars, setting>>
  /\ \A w \in Workers : WF_<<vars, setting>>(Steps(w))
  /\ \A w \in {w1, w2} : WF_<<vars, setting>>(Two("secure", Secure!PeerAnswers(w)))
  /\ WF_<<vars, setting>>(Guard)
  /\ WF_<<vars, setting>>(In(setting, StopSteps))

(* A stopped link ends: whatever its threads were doing, they all return,  *)
(* except those that wait for a far end (Excused); and where the far ends  *)
(* answer (the setting over TLS) without exception.                        *)
StopEnds ==
  <>[](stop = "done" => \A w \in registry : Excused(w) /\ setting # "secure")

(* Workers that retire together may leave fewer than desired_workers, but  *)
(* the guardian restores them again and again while the link runs, as long *)
(* as threads can be started.                                              *)
WorkersRecover ==
  []<>(setting = "running" => Cardinality(registry) >= desired)
=============================================================================
