---------------------------- MODULE NodeCommands ----------------------------
(***************************************************************************)
(* The command queue of one node: the queue_* functions of P00RIJA.py,     *)
(* /api/node-config and /api/node-command-result of handler_runtime.py,    *)
(* the two prunings, execute_node_commands on the node, and the restart it *)
(* schedules.                                                              *)
(*                                                                         *)
(* db.data["node_commands"][node] is a Python list.  The queue functions   *)
(* hold a reference to it and change it in place; the result handler and   *)
(* the prunings bind a filtered copy in its stead.  A thread between its   *)
(* two halves holds "fresh", whether the list it refers to is still the    *)
(* bound one.                                                              *)
(***************************************************************************)
EXTENDS Integers, Sequences, FiniteSets, SequencesExt

CONSTANTS
  Commands,     (* Command identifiers.                                    *)
  Kind,         (* Their type: see Kinds.                                  *)
  Threads,      (* The panel's request and maintenance threads.            *)
  Window,       (* Commands in one answer to /api/node-config: 8.          *)
  HistoryHigh,  (* command_results is cut when it is longer than this: 24, *)
  HistoryKeep,  (* and then keeps this many: 16.                           *)
  MaxAge,       (* Bound: the oldest a command grows, see Fresh.           *)
  MaxLosses,    (* Bound: lost or late requests and crashes of the node.   *)
  Waits         (* The panel waits for the result of a handoff.            *)

Kinds == {"test", "close", "handoff", "optimize", "update"}
ASSUME KindAssumption == Kind \in [Commands -> Kinds]
ASSUME WindowAssumption == Window \in Nat \ {0}
ASSUME HistoryAssumption ==
  HistoryKeep \in Nat \ {0} /\ HistoryHigh \in Nat /\ HistoryKeep <= HistoryHigh
ASSUME AgeAssumption == MaxAge \in 0 .. 3 /\ MaxLosses \in Nat

None == "none"
ASSUME NoneAssumption == None \notin Commands

VARIABLES
  (* The panel. *)
  queue,    (* The bound list of commands.                                 *)
  history,  (* command_results by received_at; last_command_result ends it.*)
  age,      (* Per command: 0 fresh, 1 after 20 s, 2 after 900 s, 3 1800 s.*)
  used,     (* Commands created so far.                                    *)
  lock,     (* Holder of the database's lock, or None.                     *)
  thread,   (* Per thread: what it does, with which list.                  *)
  waiter,   (* wait_for_panel_handoff_results.                             *)
  (* The network and the node. *)
  inbox,    (* Results on their way: <<command, losses at the time>>.      *)
  answered, (* The one the node waits for was handled.                     *)
  node,     (* execute_node_commands.                                      *)
  restart,  (* schedule_node_process_restart is waiting.                   *)
  moved,    (* "no", "written" with the handoff in the file, "moved".      *)
  losses,
  (* History of the run. *)
  accepted, (* Commands whose queue function was done.                     *)
  reported, (* Commands whose result was handled.                          *)
  expired,  (* Commands dropped for their age.                             *)
  cut,      (* A scheduled restart came while an update was applied.       *)
  raced     (* What two threads of the panel have done at a time: Overlaps.*)

panelVars == <<queue, history, age, used, lock, thread>>
nodeVars == <<inbox, answered, node, restart, moved, losses>>
seenVars == <<accepted, reported, expired, cut>>
queueVars == <<panelVars, nodeVars, seenVars, waiter>>

Free == [op |-> "free", cmd |-> None, fresh |-> TRUE, copy |-> <<>>]
Idle == [pc |-> "idle", batch |-> <<>>, cmd |-> None, tag |-> 0,
         restart |-> FALSE]

QueueInit ==
  /\ queue = <<>> /\ history = <<>> /\ used = {} /\ lock = None
  /\ age = [c \in Commands |-> 0]
  /\ thread = [t \in Threads |-> Free]
  /\ waiter = [cmd |-> None, state |-> "idle"]
  /\ inbox = {} /\ answered = FALSE /\ node = Idle /\ restart = FALSE
  /\ moved = "no" /\ losses = 0
  /\ accepted = {} /\ reported = {} /\ expired = {} /\ cut = FALSE
  /\ raced = {}

(* The commands of s outside C, in their order: the n-th stands where n of *)
(* them have been met.                                                     *)
Met(s, C, i) == {j \in 1 .. i : s[j] \notin C}
Without(s, C) ==
  [n \in 1 .. Cardinality(Met(s, C, Len(s))) |->
     s[CHOOSE i \in 1 .. Len(s) : s[i] \notin C /\ Cardinality(Met(s, C, i)) = n]]
Queued(c) == \E i \in 1 .. Len(queue) : queue[i] = c
Older(limit) == {c \in Commands : age[c] >= limit}
OfKind(k) == {c \in ToSet(queue) : Kind[c] = k}
Unused(c) == c \notin used

(* An action binds another list: what the others refer to is now detached. *)
Bind(t, list) ==
  /\ queue' = list
  /\ thread' = [u \in Threads |->
       IF u = t \/ thread[u] = Free THEN Free
       ELSE [thread[u] EXCEPT !.fresh = FALSE]]

(* An action ends with a change of the list the thread refers to. *)
ChangeInPlace(t, list) ==
  /\ queue' = IF thread[t].fresh THEN list ELSE queue
  /\ thread' = [thread EXCEPT ![t] = Free]

Begins(t, op, c, copy) ==
  /\ thread[t] = Free
  /\ thread' = [thread EXCEPT
       ![t] = [op |-> op, cmd |-> c, fresh |-> TRUE, copy |-> copy]]

-----------------------------------------------------------------------------
(* queue_node_session_close and queue_panel_handoff take the list without  *)
(* the database's lock.                                                    *)
TakeList(t, c) ==
  /\ Unused(c) /\ Kind[c] \in {"close", "handoff"}
  /\ Begins(t, "append", c, <<>>)
  /\ used' = used \union {c}
  /\ UNCHANGED <<queue, history, age, lock, nodeVars, seenVars, waiter>>

(* The functions that go through db.update hold its lock meanwhile. *)
TakeListLocked(t, c) ==
  /\ Unused(c) /\ Kind[c] = "test" /\ lock = None
  /\ lock' = t
  /\ Begins(t, "append", c, <<>>)
  /\ used' = used \union {c}
  /\ UNCHANGED <<queue, history, age, nodeVars, seenVars, waiter>>

(* queue_node_optimization and queue_node_link_guardian look for an update *)
(* and for a recent command like theirs first.                             *)
Optimize(t, c) ==
  /\ Unused(c) /\ Kind[c] = "optimize"
  /\ OfKind("update") = {}
  /\ OfKind("optimize") \subseteq Older(1)
  /\ Begins(t, "append", c, <<>>)
  /\ used' = used \union {c}
  /\ UNCHANGED <<queue, history, age, lock, nodeVars, seenVars, waiter>>

Unlock(t) == lock' = IF lock = t THEN None ELSE lock

AppendCommand(t) ==
  /\ thread[t].op = "append"
  /\ ChangeInPlace(t, Append(queue, thread[t].cmd))
  /\ Unlock(t)
  /\ accepted' = accepted \union {thread[t].cmd}
  /\ waiter' = IF Waits /\ Kind[thread[t].cmd] = "handoff"
               THEN [cmd |-> thread[t].cmd, state |-> "waiting"] ELSE waiter
  /\ UNCHANGED <<history, age, used, nodeVars, reported, expired, cut>>

(* queue_node_update looks for a pending update, without the lock ...      *)
FindUpdate(t, c) ==
  /\ Unused(c) /\ Kind[c] = "update"
  /\ LET pending == OfKind("update") \ Older(3) IN
       IF pending = {}
       THEN Begins(t, "build", c, <<>>) /\ used' = used \union {c}
       ELSE /\ Begins(t, "promote",
                     queue[CHOOSE i \in 1 .. Len(queue) :
                             /\ queue[i] \in pending
                             /\ \A j \in 1 .. i - 1 : queue[j] \notin pending],
                     <<>>)
            /\ UNCHANGED used
  /\ UNCHANGED <<queue, history, age, lock, nodeVars, seenVars, waiter>>

(* ... builds a package, takes the lock and the list ...                   *)
TakeListForUpdate(t) ==
  /\ thread[t].op \in {"build", "promote"} /\ lock = None
  /\ lock' = t
  /\ thread' = [thread EXCEPT
       ![t] = [op |-> IF thread[t].op = "build" THEN "insert" ELSE "first",
               cmd |-> thread[t].cmd, fresh |-> TRUE,
               copy |-> IF thread[t].op = "build" THEN <<>>
                        ELSE Without(queue, {thread[t].cmd})]]
  /\ UNCHANGED <<queue, history, age, used, nodeVars, seenVars, waiter>>

(* Mutant: the update is appended like any other command. *)
InsertUpdateLast(t) ==
  /\ thread[t].op = "insert"
  /\ ChangeInPlace(t, Append(queue, thread[t].cmd))
  /\ Unlock(t)
  /\ accepted' = accepted \union {thread[t].cmd}
  /\ UNCHANGED <<history, age, used, nodeVars, reported, expired, cut, waiter>>

(* ... and puts the update first. *)
InsertUpdate(t) ==
  /\ thread[t].op = "insert"
  /\ ChangeInPlace(t, <<thread[t].cmd>> \o queue)
  /\ Unlock(t)
  /\ accepted' = accepted \union {thread[t].cmd}
  /\ UNCHANGED <<history, age, used, nodeVars, reported, expired, cut, waiter>>

PromoteUpdate(t) ==
  /\ thread[t].op = "first"
  /\ ChangeInPlace(t, <<thread[t].cmd>> \o thread[t].copy)
  /\ Unlock(t)
  /\ UNCHANGED <<history, age, used, nodeVars, seenVars, waiter>>

-----------------------------------------------------------------------------
(* Mutant: every command of the same type is removed. *)
SameKind(c) == {d \in Commands : Kind[d] = Kind[c]}

(* Mutant: the list is kept as it is. *)
NothingReported(c) == {}

(* The commands a result removes. *)
Reporting(c) == {c}

Evict(h) ==
  IF Len(h) <= HistoryHigh THEN h
  ELSE SubSeq(h, Len(h) - HistoryKeep + 1, Len(h))

(* The result handler notes the result and copies the list ...             *)
ReceiveResult(t, m) ==
  /\ m \in inbox
  /\ Begins(t, "report", m[1], Without(queue, Reporting(m[1])))
  /\ inbox' = inbox \ {m}
  /\ answered' = (answered \/ (m = <<node.cmd, node.tag>> /\ node.pc = "wait"))
  /\ history' = Evict(Append(Without(history, {m[1]}), m[1]))
  /\ UNCHANGED <<queue, age, used, lock, node, restart, moved, losses,
                 seenVars, waiter>>

(* ... which then takes the place of the list. *)
ReplaceList(t) ==
  /\ thread[t].op = "report"
  /\ Bind(t, thread[t].copy)
  /\ reported' = reported \union {thread[t].cmd}
  /\ UNCHANGED <<history, age, used, lock, nodeVars, accepted, expired, cut,
                 waiter>>

(* optimize_runtime_resources drops what is older than 900 s, the          *)
(* maintenance thread what is older than 1800 s.                           *)
Prune(t, limit) ==
  /\ limit \in 2 .. 3
  /\ ToSet(queue) \intersect Older(limit) /= {}
  /\ Begins(t, "prune", None, Without(queue, Older(limit)))
  /\ UNCHANGED <<queue, history, age, used, lock, nodeVars, seenVars, waiter>>

PruneReplaces(t) ==
  /\ thread[t].op = "prune"
  /\ expired' = expired \union
       {c \in ToSet(queue) \ ToSet(thread[t].copy) : age[c] >= 2}
  /\ Bind(t, thread[t].copy)
  /\ UNCHANGED <<history, age, used, lock, nodeVars, accepted, reported, cut,
                 waiter>>

(* Time passes, whatever the order in which the commands were created.     *)
Grow(c) ==
  /\ Queued(c) /\ age[c] < MaxAge
  /\ age' = [age EXCEPT ![c] = @ + 1]
  /\ UNCHANGED <<queue, history, used, lock, thread, nodeVars, seenVars, waiter>>

-----------------------------------------------------------------------------
(* The panel waits for the handoff: it looks at last_command_result, and   *)
(* gives up when the deadline has passed since.                            *)
WaiterLooks ==
  /\ waiter.state = "waiting"
  /\ history /= <<>> /\ Last(history) = waiter.cmd
  /\ waiter' = [waiter EXCEPT !.state = "answered"]
  /\ UNCHANGED <<panelVars, nodeVars, seenVars>>

WaiterGivesUp ==
  /\ waiter.state = "waiting"
  /\ history /= <<>> => Last(history) /= waiter.cmd
  /\ waiter' = [waiter EXCEPT !.state = "gave up"]
  /\ UNCHANGED <<panelVars, nodeVars, seenVars>>

-----------------------------------------------------------------------------
(* The node fetches a batch; a scheduled restart comes 1.5 s after it was  *)
(* scheduled, and the loop sleeps 5 s before the next request.             *)
Poll ==
  /\ node.pc = "idle" /\ ~restart /\ moved /= "moved" /\ queue /= <<>>
  /\ node' = [Idle EXCEPT
       !.pc = "next",
       !.batch = SubSeq(queue, 1, IF Len(queue) < Window THEN Len(queue)
                                  ELSE Window)]
  /\ UNCHANGED <<panelVars, inbox, answered, restart, moved, losses, seenVars,
                 waiter>>

NextCommand ==
  /\ node.pc = "next"
  /\ node' = IF node.batch = <<>> THEN Idle
             ELSE [node EXCEPT !.pc = "run", !.cmd = Head(node.batch),
                               !.batch = Tail(node.batch), !.restart = FALSE]
  /\ UNCHANGED <<panelVars, inbox, answered, restart, moved, losses, seenVars,
                 waiter>>

Send(c, wantsRestart) ==
  /\ inbox' = inbox \union {<<c, losses>>}
  /\ answered' = FALSE
  /\ node' = [node EXCEPT !.pc = "wait", !.tag = losses,
                          !.restart = wantsRestart]

(* Any command may fail; one without restart may succeed as well. *)
RunCommand ==
  /\ node.pc = "run"
  /\ Send(node.cmd, FALSE)
  /\ UNCHANGED <<panelVars, restart, moved, losses, seenVars, waiter>>

(* Mutant: the node restarts before it reports. *)
StartUpdateAndRestart ==
  /\ node.pc = "run" /\ Kind[node.cmd] = "update" /\ Queued(node.cmd)
  /\ node' = [node EXCEPT !.pc = "apply"]
  /\ restart' = TRUE
  /\ UNCHANGED <<panelVars, inbox, answered, moved, losses, seenVars, waiter>>

(* A package is served while its command is queued. *)
StartUpdate ==
  /\ node.pc = "run" /\ Kind[node.cmd] = "update" /\ Queued(node.cmd)
  /\ node' = [node EXCEPT !.pc = "apply"]
  /\ UNCHANGED <<panelVars, inbox, answered, restart, moved, losses, seenVars,
                 waiter>>

EndUpdate ==
  /\ node.pc = "apply"
  /\ Send(node.cmd, TRUE)
  /\ UNCHANGED <<panelVars, restart, moved, losses, seenVars, waiter>>

(* apply_panel_handoff writes the new endpoint, the restart adopts it. *)
RunHandoff ==
  /\ node.pc = "run" /\ Kind[node.cmd] = "handoff"
  /\ Send(node.cmd, TRUE)
  /\ moved' = "written"
  /\ UNCHANGED <<panelVars, restart, losses, seenVars, waiter>>

ResultPosted ==
  /\ node.pc = "wait" /\ answered
  /\ restart' = (restart \/ node.restart)
  /\ node' = [node EXCEPT !.pc = "next"]
  /\ UNCHANGED <<panelVars, inbox, answered, moved, losses, seenVars, waiter>>

(* No answer within 5 s: the request may be lost, late or answered. *)
PostFails ==
  /\ node.pc = "wait" /\ losses < MaxLosses
  /\ losses' = losses + 1
  /\ \E gone \in BOOLEAN :
       inbox' = IF gone THEN inbox \ {<<node.cmd, node.tag>>} ELSE inbox
  /\ node' = [node EXCEPT !.pc = "next"]
  /\ UNCHANGED <<panelVars, answered, restart, moved, seenVars, waiter>>

NewProcess ==
  /\ node' = Idle
  /\ restart' = FALSE
  /\ moved' = IF moved = "written" THEN "moved" ELSE moved
  /\ UNCHANGED <<panelVars, inbox, answered, accepted, reported, expired,
                 waiter>>

Restart ==
  /\ restart
  /\ NewProcess
  /\ cut' = (cut \/ node.pc = "apply")
  /\ UNCHANGED losses

Crash ==
  /\ losses < MaxLosses
  /\ losses' = losses + 1
  /\ NewProcess
  /\ UNCHANGED cut

-----------------------------------------------------------------------------
PanelStep(t) ==
  \/ AppendCommand(t) \/ TakeListForUpdate(t) \/ InsertUpdate(t)
  \/ PromoteUpdate(t) \/ ReplaceList(t) \/ PruneReplaces(t)

PanelStarts(t) ==
  \/ \E c \in Commands :
       TakeList(t, c) \/ TakeListLocked(t, c) \/ Optimize(t, c) \/ FindUpdate(t, c)
  \/ \E m \in inbox : ReceiveResult(t, m)
  \/ \E limit \in 2 .. 3 : Prune(t, limit)

NodeStep ==
  \/ Poll \/ NextCommand \/ RunCommand \/ StartUpdate \/ EndUpdate
  \/ RunHandoff \/ ResultPosted

QueueSteps ==
  \/ \E t \in Threads : PanelStep(t) \/ PanelStarts(t)
  \/ \E c \in Commands : Grow(c)
  \/ WaiterLooks \/ WaiterGivesUp
  \/ NodeStep \/ PostFails \/ Restart \/ Crash

(* The panel serialises neither of these: a thread that holds the list,    *)
(* between its two halves, while another is about to replace its content;  *)
(* and two requests for an update.                                         *)
HoldsList(t) == thread[t].op \in {"append", "insert", "first", "report", "prune"}
Replaces(t) == thread[t].op \in {"first", "report", "prune"}
RequestsUpdate(t) == thread[t].op \in {"build", "promote", "insert", "first"}
Overlap(kind, t, u) ==
  \/ kind = "list" /\ HoldsList(t) /\ Replaces(u)
  \/ kind = "update" /\ RequestsUpdate(t) /\ RequestsUpdate(u)
Overlaps == {kind \in {"list", "update"} :
               \E t, u \in Threads : t /= u /\ Overlap(kind, t, u)}

QueueNext == QueueSteps /\ raced' = raced \union Overlaps'

(* The node's loop runs, a scheduled restart happens, a request that keeps *)
(* arriving is handled, and a thread does not stop half-way.               *)
Fairness ==
  /\ WF_queueVars(NodeStep) /\ WF_queueVars(Restart)
  /\ \A t \in Threads : WF_queueVars(PanelStep(t))
  /\ SF_queueVars(\E t \in Threads, m \in inbox : ReceiveResult(t, m))

QueueSpec == QueueInit /\ [][QueueNext]_<<queueVars, raced>> /\ Fairness

-----------------------------------------------------------------------------
Ops == {"free", "append", "build", "promote", "insert", "first", "report",
        "prune"}

(* "Updates ... must not be starved behind periodic optimizer/guardian     *)
(* work": whatever the threads do, only updates come before an update, so  *)
(* that it is in the next answer to the node.                              *)
UpdatesFirst ==
  \A i, j \in 1 .. Len(queue) :
    i < j /\ Kind[queue[j]] = "update" => Kind[queue[i]] = "update"

(* Unless a thread has replaced the list while another one held it, a      *)
(* command whose queue function has returned stays in the list until its   *)
(* result was handled or it was pruned for its age.                        *)
KeptUntilDone ==
  "list" \notin raced =>
    \A c \in accepted : Queued(c) \/ c \in reported \/ c \in expired

(* The restart that a reported update schedules, 1.5 s later and in        *)
(* another thread, never comes while the node replaces the files of        *)
(* another update, unless the panel's threads raced, or an update waited   *)
(* so long that queue_node_update takes it for stale.                      *)
RestartSparesUpdates == raced = {} /\ Older(3) = {} => ~cut
=============================================================================
