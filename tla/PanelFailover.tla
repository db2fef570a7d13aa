--------------------------- MODULE PanelFailover ---------------------------
(***************************************************************************)
(* PanelEndpointFailoverMixin of P00RIJA.py: a node that was handed over   *)
(* to another panel keeps that one as its primary and the old one as its   *)
(* fallback.  The report loop and the configuration loop send requests at  *)
(* the same time and share the active endpoint; the configuration loop     *)
(* then executes the commands it was given.                                *)
(***************************************************************************)
EXTENDS Naturals, Sequences

CONSTANTS
  Loops,      (* The loops that send requests.                             *)
  Sync,       (* The one of them that executes commands.                   *)
  MaxFlaps    (* Bound: how often a panel goes down or comes back.         *)

ASSUME SyncAssumption == Sync \in Loops
ASSUME FlapsAssumption == MaxFlaps \in Nat

Primary == "primary"
Fallback == "fallback"
Panels == {Primary, Fallback}

VARIABLES
  activePanel,(* active_panel_url, and panel_url with it.                  *)
  failures,   (* primary_panel_failures, up to 5: the delay grows no more. *)
  backoff,    (* primary_panel_retry_at is still to come.                  *)
  loop,       (* Per loop: what it does, the candidates left, the outcome. *)
  confirmed,  (* Per loop: since its request was sent, the last outcome    *)
              (* recorded for the primary is a success.                    *)
  reachable, flaps

endpoint == <<activePanel, failures, backoff>>
failoverVars == <<endpoint, loop, confirmed, reachable, flaps>>

Asleep == [pc |-> "asleep", left |-> <<>>, ok |-> FALSE]

FailoverInit ==
  /\ activePanel = Primary /\ failures = 0 /\ backoff = FALSE
  /\ loop = [l \in Loops |-> Asleep]
  /\ confirmed = [l \in Loops |-> FALSE]
  /\ reachable = [p \in Panels |-> TRUE] /\ flaps = 0

(* Mutant: the back-off is never over. *)
AlwaysFallbackFirst ==
  IF activePanel /= Primary THEN <<Fallback, Primary>> ELSE <<Primary, Fallback>>

(* _panel_candidates: the primary first, unless it failed a moment ago. *)
Candidates ==
  IF activePanel /= Primary /\ backoff
  THEN <<Fallback, Primary>> ELSE <<Primary, Fallback>>

Wake(l) ==
  /\ loop[l].pc = "asleep"
  /\ loop' = [loop EXCEPT ![l] = [@ EXCEPT !.pc = "send", !.left = Candidates]]
  /\ UNCHANGED <<endpoint, confirmed, reachable, flaps>>

SendRequest(l) ==
  /\ loop[l].pc = "send" /\ loop[l].left /= <<>>
  /\ loop' = [loop EXCEPT ![l].pc = "sent"]
  /\ confirmed' = [confirmed EXCEPT ![l] = FALSE]
  /\ UNCHANGED <<endpoint, reachable, flaps>>

(* The answer, or the error, is there; it is recorded a moment later. *)
Outcome(l) ==
  /\ loop[l].pc = "sent"
  /\ loop' = [loop EXCEPT ![l] =
       [@ EXCEPT !.pc = "record", !.ok = reachable[Head(loop[l].left)]]]
  /\ UNCHANGED <<endpoint, confirmed, reachable, flaps>>

Count(n) == IF n < 5 THEN n + 1 ELSE 5

RecordFailure(l) ==
  /\ loop[l].pc = "record" /\ ~loop[l].ok
  /\ loop' = [loop EXCEPT ![l] = [@ EXCEPT !.pc = "send", !.left = Tail(loop[l].left)]]
  /\ IF Head(loop[l].left) = Primary
     THEN /\ failures' = Count(failures)
          /\ backoff' = TRUE
          /\ confirmed' = [k \in Loops |-> FALSE]
     ELSE UNCHANGED <<failures, backoff, confirmed>>
  /\ UNCHANGED <<activePanel, reachable, flaps>>

(* Mutant: the answer of the fallback always counts. *)
NeverStale(p) == FALSE

(* "Never let that stale fallback response overwrite the confirmed primary *)
(* endpoint."                                                              *)
Stale(p) == p = Fallback /\ activePanel = Primary /\ failures = 0

RecordSuccess(l) ==
  LET p == Head(loop[l].left) IN
    /\ loop[l].pc = "record" /\ loop[l].ok
    /\ IF Stale(p) THEN UNCHANGED endpoint
       ELSE /\ activePanel' = p
            /\ IF p = Primary THEN failures' = 0 /\ backoff' = FALSE
               ELSE UNCHANGED <<failures, backoff>>
    /\ confirmed' = IF p = Primary THEN [k \in Loops |-> TRUE] ELSE confirmed
    /\ loop' = [loop EXCEPT ![l] =
         [Asleep EXCEPT !.pc = IF l = Sync THEN "apply" ELSE "asleep"]]
    /\ UNCHANGED <<reachable, flaps>>

(* No candidate answered. *)
GiveUp(l) ==
  /\ loop[l].pc = "send" /\ loop[l].left = <<>>
  /\ loop' = [loop EXCEPT ![l] = Asleep]
  /\ UNCHANGED <<endpoint, confirmed, reachable, flaps>>

(* apply_config and execute_node_commands are done.                        *)
Execute ==
  /\ loop[Sync].pc = "apply"
  /\ loop' = [loop EXCEPT ![Sync] = Asleep]
  /\ UNCHANGED <<endpoint, confirmed, reachable, flaps>>

RetryDue ==
  /\ backoff
  /\ backoff' = FALSE
  /\ UNCHANGED <<activePanel, failures, loop, confirmed, reachable, flaps>>

Flap(p) ==
  /\ flaps < MaxFlaps
  /\ flaps' = flaps + 1
  /\ reachable' = [reachable EXCEPT ![p] = ~@]
  /\ UNCHANGED <<endpoint, loop, confirmed>>

Request(l) ==
  \/ Wake(l) \/ SendRequest(l) \/ Outcome(l) \/ RecordFailure(l)
  \/ RecordSuccess(l) \/ GiveUp(l)

FailoverNext ==
  \/ \E l \in Loops : Request(l)
  \/ Execute \/ RetryDue
  \/ \E p \in Panels : Flap(p)

(* Both loops run for ever and the clock passes the retry time; a panel    *)
(* need never come back.                                                   *)
FailoverSpec ==
  /\ FailoverInit /\ [][FailoverNext]_failoverVars
  /\ \A l \in Loops : WF_failoverVars(Request(l))
  /\ WF_failoverVars(Execute) /\ WF_failoverVars(RetryDue)

-----------------------------------------------------------------------------
EndpointOK ==
  /\ activePanel \in Panels /\ failures \in 0 .. 5 /\ backoff \in BOOLEAN
  /\ loop \in [Loops -> [pc : {"asleep", "send", "sent", "record", "apply"},
                         left : {<<Primary, Fallback>>, <<Fallback, Primary>>,
                                 <<Primary>>, <<Fallback>>, <<>>},
                         ok : BOOLEAN]]
  /\ confirmed \in [Loops -> BOOLEAN]
  /\ reachable \in [Panels -> BOOLEAN] /\ flaps \in 0 .. MaxFlaps

(* "A fallback request may have started in another thread before a newer   *)
(* primary request recovered": when its answer arrives and no request to   *)
(* the primary has failed since, the primary stays the active endpoint.    *)
StaleFallbackIgnored ==
  [][\A l \in Loops :
       /\ loop[l].pc = "record" /\ loop[l].ok /\ confirmed[l]
       /\ loop'[l].pc /= "record" /\ activePanel = Primary
       => activePanel' = Primary]_failoverVars

(* "Keep the migrated panel primary while using the old panel temporarily":*)
(* a primary that comes back for good is the active endpoint for good,     *)
(* whatever late failures and answers of the fallback come in between.     *)
ReturnsToPrimary ==
  <>[]reachable[Primary] => <>[](activePanel = Primary)

=============================================================================
