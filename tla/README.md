# Verification of P00RIJA TUNNEL

TLA+ specifications of the parts of P00RIJA TUNNEL whose correctness depends on
the order in which threads, messages and failures happen, with TLC runs and
TLAPS proofs. Every definition that stands for code names its lines in
`PROJECT.json` under `map`.

## 1. The system

A **panel** (HTTPS server with a JSON database) manages **nodes**: internal ones
next to the users, external ones next to the services. Nodes poll the panel for
their configuration and their commands, report their state, and run **links**. A
link has a server side (bridge listener, a pool of idle reserve tunnels, the user
ports) and a client side (reverse workers that dial the bridge port). When a user
connects, the server side picks one of four data planes: a tunnel per user,
several tunnels bonded into one stream, a stream on a shared mux carrier, or a mix.

| Component (files) | State | Operations | Hard behaviour | What makes it correct | Modules |
|---|---|---|---|---|---|
| Bonded session (`bonded_bridge`) | lane queues, reorder buffer, EOF marks, stop event, errors | read and number chunks, send, receive, reorder, abort, join, close | 2N+2 threads per end, bounded queues, lanes of different speed, cuts, resets, joins that expire | the stream arrives whole and in order; a clean end is a true end; nobody waits forever | `BondedBridge` |
| Mux session and carrier (`MuxStreamSession`, `SharedMuxCarrier`) | sessions, their queues and flags, running, wire | open, data, FIN, RST, ping, close | two threads race to close a session; one reader serves all streams; full queues; carrier loss | as above, per stream; one stream cannot stop another; user threads are released | `MuxCarrier` |
| Mux pool and user dispatch (`SharedMuxPool`, `handle_user`) | carriers, targets, counters | choose, retry, rebalance, fall back | the same socket offered to a second carrier; stream limit; idle carriers closed while chosen | running carriers are found; counters miss no stream; users are released | `MuxPool` |
| Bond group rendezvous (`PendingBondGroup`) | groups, lanes, leader, ready and done events | join, wait, lead, dial, time out | lanes arrive in separate workers while the wait expires | one leader, with all lanes alive; every worker is released; counters are exact | `BondGroup` |
| Per-user bridge (`bridge`, `TunnelSocket`) | one loop per node, half-close marks | copy, half-close, grace period, idle close | half-close through TLS and framing | the same stream promise; sessions end | `Bridge` |
| Link lifecycle (`start_link_thread`, `stop_link_lifecycle`, reverse workers) | threads, sockets, pool, desired workers | track, start, spawn, retire, stop | stop against registration; check-then-act on the number of workers | after a stop nothing is left running; workers stay bounded; no path leaks a socket | `LinkWorkers` |
| Node commands (queue, `/api/node-config`, `execute_node_commands`, results) | command list per node, results | queue, fetch, execute, post, expire | lost answers, repeated execution, unlocked replacement of the list, a scheduled restart | no accepted command is lost; updates first; a restart cuts no update | `NodeCommands` |
| Panel failover (`PanelEndpointFailoverMixin`) | primary, fallback, active, failures, retry time | request, record success or failure, handoff | two loops share the endpoint; stale answers | the primary wins back; a stale answer does not undo it | `PanelFailover` |
| Configuration sync (`apply_config`, watchdog) | active links, signatures, listeners | start, restart, stop, hot-reload | watchdog and sync on the same links; ports that move, starts that fail | what listens is owned; the node follows the panel | `ConfigSync` |
| Panel database (`P00RIJADB`) | data, file | load, save, update | concurrent writers, writers outside the process, crash in save | a saved update stays; the file is always a complete state | `PanelState` |
| Backup, restore, migration | state files, rollback copy | stage, swap, roll back | crash or a live save between the steps | the old state or the new one, never a mix | `BackupRestore` |
| Host agent and host control | request and result files, panel files | submit, execute, answer | kill between execution and removal, failing writes, ports that others take | a request is answered; published ports and configuration agree | `HostControl` |
| Links and ports API, payload tests | links, port mappings | create, edit, delete, test | test-then-write without the lock; a test purges the mappings of others | no two links of a node listen on one port; a test keeps its mapping | `LinkTable` |
| Node update packages | package, window for its download | queue, download, replace files, restart | restart against another update | as for commands | `NodeCommands` |
| Update-all jobs, request slots, sessions | small tables under locks | start, evict, acquire, release | test-then-act over two lock sections | one job at a time; slots balance | - |
| UI, engine builders, metrics, installers, vendored engines | none that concurrent actors share | formatting, input/output | - | - | - |

Interactions: user connection -> dispatch (`MuxPool`) -> carrier -> session
(`MuxCarrier`), or reserve tunnels -> bond group (`BondGroup`) -> bonded session
(`BondedBridge`), or reserve tunnel -> bridge (`Bridge`); all three data planes
implement `TunnelStream`. The tunnels are what the reverse workers (`LinkWorkers`)
bring; links are started and stopped by configuration sync (`ConfigSync`), whose
configuration comes from the panel's database (`PanelState`, `LinkTable`) through
the endpoint that failover selects (`PanelFailover`); commands (`NodeCommands`) use
the same path in the other direction; restore (`BackupRestore`) and the host agent
(`HostControl`) replace the files under the panel.

## 2. Plan and status

| # | Module | Composes / implements | Checked | Proved |
|---|---|---|---|---|
| 1 | `TunnelStream` | abstract: what any data plane promises two applications | - | - |
| 2 | `BondedBridge` | implements `TunnelStream` | yes | `BondedBridgeProofs` |
| 3 | `MuxCarrier` | implements `TunnelStream`, per stream | yes | `MuxCarrierProofs` |
| 4 | `Bridge` | implements `TunnelStream` | yes | `BridgeProofs` |
| 5 | `MuxPool` | carriers at the level of open, leak and close, under users | yes | `MuxPoolProofs` |
| 6 | `BondGroup` | rendezvous of lanes on both nodes | yes | `BondGroupProofs` |
| 7 | `LinkWorkers` | threads, sockets, guardian, stop | yes | `LinkWorkersProofs` |
| 8 | `NodeCommands` | panel's list, node, restart, handoff | yes | `NodeProofs` |
| 9 | `PanelFailover` | two loops, two panels | yes | `NodeProofs` |
| 10 | `ConfigSync` | links of a node over its ports | yes | `NodeProofs` |
| 11 | `PanelState` | memory, file, threads, writers outside | yes | `PanelProofs` |
| 12 | `BackupRestore` | EXTENDS `PanelState` | yes | `PanelProofs` |
| 13 | `HostControl` | agent, container, configuration | yes | `PanelProofs` |
| 14 | `LinkTable` | links API and payload tests over the database | yes | `PanelProofs` |

Every safety invariant and action property that a passing run checks is also a
theorem (section 7), and none of them is stated in an `MC` module. What
a continuation would add: the update-all jobs and the
request slots as small modules of their own, and a composition of `NodeCommands`
with `PanelFailover` in which results may go to the other panel.

## 3. The modules

Each module describes one component: its variables are the code's, its actions are
the steps between two points where a thread can block or another can interfere,
and its theorems are in the module of proofs named above. Where a component is
instantiated several ways for TLC, the `MC` module chooses the constants by a
variable `setting` that never changes. Components that share a run have names of their
own for what each has (`BridgeInit`, `SyncNext`, `QueueSpec`, ...).

### TunnelStream (abstract)

A pair of streams, as TCP gives them: `Supply` and `Finish` by the application at
one end, `Arrive` and `End` at the other, `Abort` when an end of the tunnel gives
up. An end of stream arrives after everything that was supplied, or after the
other end of the tunnel gave up (the code closes sockets in both cases, and the
application cannot tell). Bytes are grouped into the chunks that `recv` returns.

### BondedBridge

`bonded_bridge` runs at both ends with the same code, so the model has two ends
and `N` lanes. The variables are the function's locals (`lane_queues`, `pending`,
`eof_sequence`, `eof_lanes`, `expected`, `receive_complete`, `stop_event`,
`error_box`, ...), a program counter per thread, the connections `wire` and the
history of the two applications. Actions: `ReadChunk`, `PutChunk`, `ReadEof`,
`PutEof`, `AbandonPut`, `ReadFails` (send_direction); `TakeItem`, `SendItem`,
`SendFails`, ... (lane senders); `ReadFrame`, `ReadEofFrame`, `LaneClosed`,
`ReadAfterClose` (lane readers); `PopExpected`, `Deliver`, `EndOfStream`,
`LeaveLoop`, `SendThreadEnded`, `JoinLaneSenders`, `WakeLaneSenders`,
`CloseSession` (the calling thread); `SessionCloses` and `TakeFails` (another thread,
the monitor or a stop, calls `BondBridgeSession.close()`: a call under way goes on,
later ones raise); and the environment: `EndpointBreaks`, `LaneCut`, `LaneReset`. That
one of the threads cannot be started is left out.

Closing a descriptor in another thread does not wake a thread blocked in `recv` or
`send` on it, and the kernel keeps the connection until that thread returns; so a
lane goes down for the peer only when both threads of the closed end have left it
(`LaneShut`). Timeouts of `join` are a choice (`JoinExpires`), since nothing bounds
how slowly a peer reads. The aborting end puts the same `None` item into the lane
queues that marks an end of stream: its EOF frames are indistinguishable from true
ones, and `CleanEndIsComplete` and `TunnelStream!End` except the streams of an end
that has aborted.

### MuxCarrier

Both ends of one carrier connection with any number of streams. State per end and
stream: the session (`sess`, `listed`, `remote_queue`, `local_eof`,
`remote_drained`), its pump and its remote writer; per end: the reader, `running`,
`cleared`; and the wire, which holds `WireCap` frames each way, so that
`send_frame` blocks when it is full. The reader is one thread: while it answers a
frame (`reader = "reply"`) or dials for an OPEN (`"dial"`) it reads nothing.
Sessions close from six places (RST received, queue full, pump failure, both ends
finished, writer failure, carrier closed) plus the idle monitor; `Close` is the
common part, with its test of `closed`. A setting (one of `Settings`, chosen by
`Init`) says what may go wrong. The stream limit, a link that stops and carriers
closed by `rebalance` are in `MuxPool`; the 45 s timeout of a dead carrier only
adds another moment for `HeartbeatFails`. Threads always start here; what a thread
that cannot be started leaves behind is in `MuxPool`.

### Bridge

One loop per node, in one thread, between an application and the tunnel: `select`
reports a source, the loop reads it and writes all of it before it looks at
anything else, and both writes may block. `Mode` decides what a half-close does:
a FIN over TCP, an end frame over the framed transports, nothing over plain TLS.
The 15 s grace period starts with the first end of stream and ends at the first
second without data thereafter (`PauseExpires`).

### MuxPool

Several carriers over their life: created by the maintenance thread, found by users
(`best`), lost, cleared, replaced under the same number, closed by `rebalance`, and
stopped with the link. A session is `<<u, k>>`: user u's k-th attempt, since
`handle_user` retries with the same socket while the session of a failed attempt
may still be registered. `mux_streams` is incremented after the session is visible
and decremented with a floor of zero, as in the code. With `ThreadsFail` a thread may
not start: a session whose writer cannot (`WriterFails`) stays registered, uncounted
and unknown to the monitor; one whose pump cannot (`PumpFails`) stays as it is; a
carrier whose reader or heartbeat cannot (`StartCarrierFails`) stays in the pool with
nobody to read it.

### BondGroup

The internal node takes tunnels from its pool, writes a join header on each, and
gives back what it cannot use; every tunnel has a worker on the external node that
joins the group named in the header, waits, and leads or follows. A group object is
named after the tunnel whose worker created it, because two objects can exist for
one id after a timeout. The session itself is `BondedBridge`.

### LinkWorkers

The workers of one link on the external node: registration in two critical sections
(test, then register), the connection, the header, the replacement, retirement; the
guardian with its adjustment of `desired_workers`; the idle monitor; and
`stop_link_lifecycle`, which takes its lists one after the other. Each exit of
`reverse_link_worker` is an action of its own that closes and untracks what its code
does: `TlsFails`, `HandshakeFails`, `NoHeader`, `CarrierEnds`, `MuxFails`, `BondOver`,
`BondFails`, `ConnectFails`, `BridgeOver`, `Exit`. A worker that starts over forgets its
sockets (`Top`), so one that an exit leaves open is lost.

Sockets are "open", "dead" (the far end has left), "shut" (shut down by the stop) or
"closed". `close()` without a shutdown by another thread (`ClosedUnder`: a session
closed by the stop or the monitor, a carrier closed by its heartbeat) wakes no call:
a loop of `bridge` that waits in a `sendall` or in a `recv` of a framed or TLS tunnel
(`CallWaits`) is then held up (`HeldUp`) until the far end leaves or answers. A loop in
`select` notices within a second. A socket wrapped in TLS no longer belongs to the
tracked object, so a stop in between closes nothing. Of the lanes of a bond one worker
leads (`Lead`) and the others wait for `group.done` without a timeout until the
leader's `finally` or its failure (`ReleaseFollowers`).

### NodeCommands, PanelFailover, ConfigSync (a node)

`NodeCommands`: the panel's list of one node, changed by threads in two halves (read
the list, write it), with `fresh` for whether the list a thread refers to is still
the bound one; the bounded window of commands handed out; results that are late or
lost; pruning by age and by history; the node that executes a batch, replaces its
files and schedules a restart; the wait for a handoff.
`PanelFailover`: the report loop and the configuration loop share `active`,
failures and the time of the next retry of the primary.
`ConfigSync`: which link listens on which TCP port of a node, through start,
restart, hot-reload, removal, engines that die, starts that fail, listeners closed
while a thread is in `accept` (which linger), and other programs on the ports.

### PanelState, BackupRestore, HostControl, LinkTable (the panel)

`PanelState`: what the process holds and the files as inodes, so that opening a
temporary name truncates the inode that is there and `os.replace` gives it the
database's name; writers outside the process (the host agent, `reset_panel_admin`)
save a copy they read. `BackupRestore` extends it by the artifacts of a backup, their
snapshot, the swap and the rollback, with the panel's own saves in between.
`HostControl`: request and result files, the change of ports (write configuration,
recreate the container, publish, go back), kills anywhere, ports taken by others.
`LinkTable`: the requests of the links API in two halves (`Check...` under the
tests of the handler, `Store...` at its write), mappings, deletions, and payload
tests with their temporary mappings.

## 4. The runs

Bounds are the smallest at which queues fill, buffers overflow and actors meet: one
slot per queue, one frame per connection and direction, two lanes, streams, users or
links, and each failure at most once or twice. Components that share no state are
checked in one run under different settings. Deadlock checking is off, because the
systems end (a session is over, a link stopped) or a bound of
the environment is used up; that they do not end early is what the liveness
properties say.

| Run | Settings | Properties | What it shows |
|---|---|---|---|
| bond | queues, window and connections of 1. `order`: 2 lanes, 3 chunks with two contents; `break`: 1 chunk, the service may reset, joins expire; `lost`: 1 chunk, a lane may be cut, joins expire; `shut`: 1 lane, 2 chunks, a session closed from outside at either end | InOrder, CleanEndIsComplete, ImplementsStream | the stream is whole, no early end, refinement of `TunnelStream` |
| bond_live | `exchange`: 2 and 1 chunks, no failure; `leave`: 1 chunk, the service may reset; joins do not expire | AllDelivered, CloseReachesPeer, StopLeadsToClose | no circular wait; a failed thread takes its end and its peer down |
| mux | queues and wire of 1. `Reset`: a stream with data both ways that is reset or refused; `Idle`: a session the monitor finds idle; `Lost`, `Pinged`: the carrier is cut, between a heartbeat and its answer too; `Share`: two streams, one service does not read | OneThreadCloses, ImplementsStream, StreamsEnd | genuine streams, a session is closed by one of its threads, streams end; a slow one stops no other while one direction is loaded |
| tunnels | wire of 1. `tcp`: 2 + 2 chunks, reset, idle close, cut; `framed`: 2 + 2, clean; `tls`: 2 + 1, reset, pauses expire; `together`: 2 users with 2 lanes, 3 tunnels, one cuttable, budget 4; `alone`: 1 user with 3 lanes | ImplementsStream, SessionEnds (`Bridge`); OneServicePerUser, LeaderHasTheLanes, CountersExact, LanesReleased (`BondGroup`) | each half-close keeps the promise and sessions end; one leader with all lanes, exact counters, nobody left waiting |
| link | `plain`: 2 workers, TCP and mux, thread starts fail, calls wait, idle closes, stop; `secure`: the same over TLS with TCP and bonding, far ends answer; `running`: up to 4 workers, min_ready 2 | WorkersBounded, NothingLeaks, StopEnds, WorkersRecover | bounded workers, no exit leaks, a stop ends all but who waits for a far end (and these where far ends answer), recovery |
| mux_pool | `two`: 2 users, one attempt, 2 carriers, limit 1; `retry`: 1 user, two attempts, one carrier at a time; in both carriers may be cut and threads may not start; `stop` | StreamsCounted, RunningCarriersFound, UsersReleased, LeftoversEnd, StopClosesCarriers | counters miss no stream, running carriers are found, users and leftovers end |
| node | `updates`, `test`, `handoff`: one thread of the panel at a time; `ageing`, `threads`: two; window 2, history 1, 2 losses; `panels`: 2 loops, 5 flaps | UpdatesFirst, KeptUntilDone, RestartSparesUpdates, EveryCommandLeaves (`NodeCommands`); StaleFallbackIgnored, ReturnsToPrimary (`PanelFailover`) | no command is forgotten, updates first and uncut; the primary wins |
| panel | `alone`, `unreadable`, `agent`, `reset` (`PanelState`), `restore` (`BackupRestore`), `killed`, `crowded` (`HostControl`), `links` (`LinkTable`), `sync` (`ConfigSync`: 2 links, 4 ports, 4 configurations, 2 changes, 3 faults) | SavedStays, MemoryIsAhead, OriginalsReturn, OriginalsSurvive, PortsAgree, RequestsAnswered, BridgePortsDistinct, ListenersOwned, NodeFollows | the database, restores, the agent, the table of links; what a node listens on is owned, and it follows the panel |
| panel_corrupt | a database file that becomes unreadable, two restarts | FailsClosed (violated) | section 5 |
| payload_tests | one administrator, two payload tests | RunningTestsKeepTheirs (violated) | section 5 |
| bond_tail | `order` of bond, where a join expires only while a lane sender is blocked on a full lane | TailArrives (violated) | section 5 |
| mux_crossed | one stream on which both ends send more than queue and wire hold, to applications that read in their own time | CarrierNeverBlocks (violated) | section 5 |

Some properties excuse what section 6 lists, because the code does not promise
more, and two variables record what the code itself forgets so that they excuse no
more than that. `raced` notes that two threads of the panel overlapped: one replaced
the list while another held it, or two requested an update. `KeptUntilDone` excuses
the first of these, `RestartSparesUpdates` both and an update so old that it is taken
for stale. `saved` holds the updates whose save has returned since anything but the
panel wrote the file (the agent, `reset_panel_admin`, a restore, a fault of the disk);
`SavedStays` says that these are in the file, and is silent only while the writer
outside is between opening the temporary file and its restart of the panel.
`BridgePortsDistinct` is run with one administrator at a time. Hypotheses of theorems
are about the number of threads, requests or writers, not about the run's settings.

**Why the bounds are enough.** The data planes repeat the same steps for every
chunk: with one slot everywhere and two or three chunks each thread blocks on each
resource, and the proofs cover all sizes. Two users, two attempts and two carriers
give every pairing of a late start with a closing session; three tunnels give a
group that times out beside its replacement. Two changes of configuration out of
four let each kind of link replace each other one and a port move between links.

**Fairness.** In `BondedBridge`, `MuxCarrier`, `BondGroup` and `Bridge` there is one
weak fairness condition over all steps of threads: while some thread can take a
step, some thread does. Each has a bounded amount of work, so this runs them all to
where they block, and assumes less of the scheduler than fairness per thread. The
live runs of `BondedBridge` and `Bridge` add that the applications finish their
streams. `LinkWorkers` has weak fairness per worker, for the guardian and the stop,
and over TLS for the far end, which answers a handshake or fails it, and leaves a
bonded session in the end. `MuxPool`:
per user, per carrier (its reader notices a loss, its clean-up ends), for
maintenance and stop; the idle monitor is relied upon only in `retry`.
`NodeCommands`: the node's steps, its restart and each panel thread, and strong
fairness for the reception of a result: the node posts again as long as the command
comes back, and a result that keeps arriving is handled at last. `PanelFailover`: the
loops' requests, the execution of commands and the passing of the retry time.
`ConfigSync`: the sync loop; strong fairness per link for the watchdog, which finds a
dead engine again and again; and other programs and lingering connections leave the
ports in the end. `HostControl`: the agent's steps, as it is started again whenever
it is killed. Losses, cuts, resets, kills and the requests of users are never forced.

## 5. Findings

* `panel_corrupt`: the comment at database.py:103 says that a corrupt file must fail
  closed. `load` moves the unreadable file away (database.py:114) and the process
  ends; the container is restarted, the next process finds no file and starts with
  the default administrator.
* `payload_tests`: handler_runtime.py:474 calls the mappings that a payload test
  purges stale; they include those of a test that runs (handler_runtime.py:482),
  although P00RIJA.py:3611 expects several tests.
* `bond_tail`: the comment at P00RIJA.py:4765 says that on the successful path the
  frames left in the lane queues reach the peer before `session.close()`. The joins
  take 2.0 s at most (4773), so a lane that the peer reads slowly is closed before its
  EOF frame is sent, and the peer fails although no connection did.
* `mux_crossed`: the comment at P00RIJA.py:4814 says that slow clients are reset without
  blocking the shared carrier. The reader sends that reset with `send_frame` (5046),
  which waits for room: with both directions full of data for applications that read slowly, both readers
  wait for each other, and every stream of the carrier with them.

## 6. Behaviours met that no property contradicts

The models contain these; they are listed because the properties are stated around
them.

* Data planes. The two loops of a bridge wait for each other when the tunnel is full
  both ways (P00RIJA.py:5291), so `SessionEnds` is checked with wires that hold what one
  direction sends; a `close()` by the monitor or a stop does not wake them (4472), which
  `LinkWorkers` has (`HeldUp`, excused by `StopEnds`). Likewise a heartbeat closes its
  carrier without a shutdown while `run` still reads it, and untracks it, so that a stop
  no longer reaches it (5064, 6857). A session whose writer thread cannot be started
  stays open, uncounted and unknown to the monitor (4959), and a carrier whose thread
  cannot stays in the pool (6103). The grace period of a bridge cuts a slow
  answer after a half-close (5269). At the stream limit a user's socket is closed
  before the fallback gets it (4953).
* Commands. Two threads of the panel can lose a command between the filtered copy
  and its binding (handler_runtime.py:1379), and two concurrent requests can queue two
  updates, the first of which restarts the node during the second. The results of a
  batch go to the panel that is active then, not to the one that asked
  (P00RIJA.py:5773).
* Node. A listener closed while a thread is in `accept` lingers; a client's fallback
  listener that could not start is not tried again (6650-6665); a watchdog restart
  stores no signature, so the next configuration restarts the engine once more
  (5838-5859, 5797); a start that raises ends that round of `apply_config`.
* Panel. The host agent writes back the database it read before the panel saved, and
  through the same temporary name (p00rija-host-agent.py:98, database.py:136);
  `reset_panel_admin` is undone by a save of the running panel
  (p00rija-control.sh:234). A live save between snapshot and rollback is rolled back
  on disk until the next save, and one in the 2 s after a successful restore
  overwrites the restored database. An artifact without an original stays after a
  failed restore; one of another kind, or a symlink, is removed without a copy
  (backup_migration.py:508, 515), so no property speaks of it. Two concurrent restores share the staging directory; the model has
  one restore.
* Host agent. A kill during the rollback while another program takes the port leaves
  no container. `save_panel_state` writes the configuration and then the database,
  before the `try` (95-98, 313): when only the database cannot be written the answer is
  "failed", nothing is rolled back, and the new ports stay in the configuration. So does
  a rollback that cannot be written leave the two apart. `stuck` records both. A
  request executed again after a kill takes the new port for the previous one. A
  result that cannot be written leaves its request renamed and its status pending.
  `PortsAgree` is therefore checked and proved for one kind of trouble at a time, and
  silent while `stuck`.
* Table of links. Two requests may take the same bridge port, and an edit may bring
  back a link deleted meanwhile (links_api.py:651), although database.py:168 offers
  `update` for this. Mapping ports are not compared with bridge ports. Editing a
  temporary mapping makes it permanent.

## 7. Proofs

All theorems hold for every value of the constants that satisfies the named
assumptions of the modules (sizes are numbers, at least one lane or slot, the
placeholder values are not members of the sets). They follow one pattern: an
inductive invariant, a lemma per action (or per variable that several actions
change) for each of its parts, and a temporal step at the end. The refinements add a
lemma per action saying to which step of `TunnelStream`, or to which stutter, it maps.

**BondedBridgeProofs** (`TypeCorrect`, `StreamInvariant`, `DeliveredInOrder`,
`CleanEnd`, `BondedImplementsStream`). `InOrder` and
`CleanEndIsComplete` say nothing about frames under way, so `StreamInv` adds that
every frame, in a queue, in a sender's hand, on a lane or in the reorder buffer, is a
chunk of its sender's stream under its own number, that an end mark is made only by
an end whose stream has ended or that aborted (`FramesGenuine`), and that the
counters agree with the histories. A session that another thread closes
(`SessionCloses`) changes none of this.

**MuxCarrierProofs** (`TypeCorrect`, `ClosedByOne`, `MuxImplementsStream`,
`MuxJoinsTheApplications`, `LostCarrierReleasesUsers`). `MuxInv`
follows a stream from the pump over the wire and the remote queue to the writer
(`SenderOf`, `QueueOf`, `ReceiverOf`), relates it to the state of the session
(`SessionOf`) and to its OPEN frame (`OpenOf`). `CloseInv` is the argument that one
of two threads closes a session: a pump that is done has set `local_eof`, a writer
that is done has set `remote_drained` and saw `local_eof` unset; both cannot have
left an open session. `LostCarrierReleasesUsers` rests on `ClearedInv`: after a
carrier has closed the streams it knew, a session that is still open is one
registered since, whose OPEN frame `send_frame` refuses.

**BridgeProofs** (`TypeCorrect`, `BridgeImplementsStream`,
`BridgeJoinsTheApplications`). `BridgeInv` says what a loop holds in each of its states
and when it no longer reads a side (`LoopOf`), and that what the tunnel carries
continues, in order and without a gap, what has been delivered (`FlowOf`), for the
three kinds of tunnel. `BridgeJoinsTheApplications` and `MuxJoinsTheApplications` use
the refinement: `TunnelStream!InOrder` and `TunnelStream!CleanEnd` are invariants of
the abstract streams (`StreamJoins`), so each application of a bridge or of a shared
carrier receives a prefix of what the other one supplied, and a clean end only after
all of it.

**BondGroupProofs** (`TypeCorrect`, `ServiceDialledOnce`, `LeaderIsComplete`,
`CountersStayExact`, `NobodyIsLeftBehind`). The lanes of different users are apart, the groups of a user
are named after its lanes and hold only these (`LanesApart`, `Headers`,
`WorkersFollow`, `GroupsOfUser`), and a group that is claimed has all lanes of its
user and one leader (`Claims`): so no second group of that user can be claimed, and
whoever dials is its leader or the worker of a single lane (`Dials`). `Counters` is
the property with the finiteness of the sets it counts. `NobodyIsLeftBehind`: the
event and the close of its lanes that a claimed group is owed it has had, or a worker
that can go on owes them (`Owed`); a group that can be found has a worker that will
remove it (`Removed`); and a worker leaves with its lane closed, or leaves that to the
leader (`Leaves`, `LanesClosed`).

**MuxPoolProofs** (`CarriersFound`, `NoStreamUncounted`, `NobodyIsStranded`,
`StopReachesEveryCarrier`). `PInv`: a carrier that is
being made is in the hands of the maintenance thread, which makes one at a time, and
no other of its number runs (`Joining`); a carrier that runs is in the pool under its
number (`Placed`). `CInv` adds the types of the counter and of the sessions it counts, those whose writer
could not start apart (`uncounted`).
`Users` is finite, so those sets are. `NobodyIsStranded` adds that a user holds the
carrier it chose, which is then not used again (`Choices`), and that its session is
among that carrier's streams until it is closed (`Registered`): the carrier's close
takes it, or the user finds the carrier closed when it sends the OPEN frame.
`StopReachesEveryCarrier` rests on `Placed` (a stop finds every carrier that runs) and
on `running`, without which the maintenance thread starts none.

**LinkWorkersProofs** (`TypeCorrect`, `WorkersStayBounded`, `NoSocketLeaks`,
`StopReachesEveryWorker`). A spawn
begins while fewer than `max_workers` are registered, and only these and the guardian
spawn; so registered workers and spawns under way are together at most 2 max - 1
(`SpawnsBounded`), which, unlike the bound on workers alone, every step preserves.
`NoSocketLeaks` follows each place of the worker to the exits that lead from it:
`HeldInv` says which sockets a worker may hold open and which may be tracked in each place
(`Holds`), so that each exit closes and untracks at least these, and that the lanes of
followers are closed when their leader lets them go (`Followed`).
`StopReachesEveryWorker`: where the link tracks a socket, an open one is in the list
that the stop closes, until it has (`Covered`); whoever registers later finds the link
stopping. A tunnel is not tracked in a TLS handshake and once a bond group owns it; the
theorem says nothing of it there.

**NodeProofs**.
* `PanelFailover`: `EndpointsCorrect`, and `ConfirmedPrimaryStays` for any number of
  loops: while a loop counts the primary as confirmed no failure is recorded
  (`ConfirmedIsClean`), and an answer of the fallback then changes nothing.
* `ConfigSync`: `SyncTypes`, `PortsStayOwned` and `RoundsAreExact`. The invariant of
  the second is stated on the intermediate states of a whole round (`Good(Now)`),
  since a round starts, stops and hot-reloads links one after the other. The third
  has `MapInv`: a user port that a link has open leads where the configuration the
  link runs with says (`Mapped`), and a link that the round has been at has the
  round's configuration (`Exact`).
* `NodeCommands`: `CommandTypes`; `UpdatesComeFirst` for any interleaving of any
  threads, with `Sorted(queue)` and what each thread between its halves has read
  (`HalfDone`). `AcceptedAreKept` and `UpdatesAreSpared` have no hypothesis about
  the threads. Their invariants hold as long as the history `raced` excludes the
  overlap in question: what a thread holds is then the list that is bound, a
  thread that replaces it is the only one that holds it (`Alone`), and what a request
  for an update has read of the list stays so, whatever others append or take away
  (`OneQueued`). So at most one update is in the list (`OneUpdate`), also in a
  batch the node has fetched, and none is left to run once a restart is scheduled
  (`BatchOK`). The list without some of its commands (`Without`, a filtered copy) is
  shown to keep the order of the rest with the least-number principle.

**PanelProofs**.
* `PanelState`: `SavedUpdatesStay` has no hypothesis. Its invariant `DInv` says that
  one thread saves at a time (`OneSaves`) and what each text under way, in memory, in
  a thread's hand, in a temporary file or in a writer outside, has at least (`Texts`,
  `Ahead`). `DatabaseStaysWhole` and `DefaultsOnlyAfterLoss` take a file that stays
  readable and no host agent, since the agent writes through the panel's own
  temporary name; the latter is the converse of finding `panel_corrupt`. The process
  is never behind its file (`MemoryNeverBehind`) in the three cases of `Mild`: no
  writer outside, whatever is killed or lost; `reset_panel_admin`, while no file is
  lost; the agent, while the process is not killed. In the other cases it may be, and
  its next save takes away what the file had: killed while the agent and a save are in
  the same temporary file, or started without a file that `reset_panel_admin` then
  writes back.
* `BackupRestore`, while no other program writes the database (`Undisturbed`):
  `NothingLost` (killed or rolled back, every original is in its place or in the
  rollback copy), `RollbackRestores` (a restore that reports failure has put every
  original back), and `SavesSurviveRestores`: `SavedStays` and `MemoryIsAhead` hold in
  the composition, because what a restore puts in the place of the database is never
  more than what the process holds (`Copied`, `Within`).

* `HostControl`: `PortsAlwaysAgree`, for any requests, ports and number of kills,
  for requests that the panel lets through (`Sensible`), when either the agent is killed
  or other programs take ports and writes fail, not both (`OneKindOfTrouble`; section 6
  says what both can do), and unless `stuck`: a failed write of the configuration alone
  does no harm, one of the database after it does. `RequestsStayUntilAnswered` needs none of these hypotheses:
  what a busy agent has in its hand is still queued, and the answer is there before
  the file goes (`InHand`).
* `LinkTable`: `TableTypes`; `BridgePortsApart` for one request at a time: the test a
  request made still holds at its write (`LinksApart`, `EntryApart`);
  `OneTestKeepsItsMapping`, the converse of finding `payload_tests`: a single test
  keeps its mapping.

**Only model-checked.** Liveness, since no backend proves fairness or `ENABLED`:
AllDelivered, CloseReachesPeer, StopLeadsToClose, StreamsEnd, LanesReleased,
SessionEnds, StopEnds, WorkersRecover, UsersReleased, LeftoversEnd,
StopClosesCarriers, EveryCommandLeaves, RequestsAnswered, NodeFollows,
ReturnsToPrimary. They hold for the bounds of section 4. Of StopEnds,
LanesReleased, UsersReleased, StopClosesCarriers, NodeFollows, RequestsAnswered and,
where a carrier is lost, StreamsEnd the safety part is proved for every value of the
constants (`StopReachesEveryWorker`, `NobodyIsLeftBehind`, `NobodyIsStranded`,
`StopReachesEveryCarrier`, `RoundsAreExact`, `RequestsStayUntilAnswered`,
`LostCarrierReleasesUsers`): nobody waits for a step that nobody owes any more, no
request is lost, and a finished round left nothing old. That the steps are then taken is
what TLC shows.

## 8. Not modelled

Contents and framing of the tunnels (TLS, WebSocket, HTTP obfuscation, padding),
checksums, authentication and other cryptography, engine processes and their
configuration texts, logging and rendering. Update-all jobs (two can start at once,
handler_runtime.py:1602, and running ones are evicted by age, line 87) and the
panel's request slots (P00RIJA.py:7309) are small tables without interaction with
the rest. HTTP parsing, sessions, the SSH terminal, the web interface, metrics,
installers and vendored engines keep no state that the modelled actors share. What a
modelled component leaves out is said in its entry under `components` in
`PROJECT.json`.
