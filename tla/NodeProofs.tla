----------------------------- MODULE NodeProofs -----------------------------
(* Proofs about a node: what PanelFailover says of its panel endpoints,    *)
(* ConfigSync of its links and the ports they listen on, and NodeCommands  *)
(* of the commands that the panel queues for it.                           *)
EXTENDS ConfigSync, PanelFailover, NodeCommands,
        WellFoundedInduction, NaturalsInduction, FiniteSetTheorems,
        SequenceTheorems, TLAPS

(* The panel endpoints (PanelFailover).                                    *)

(* A loop that saw the primary confirmed sees no failure counted: the next *)
(* failure that is recorded takes the confirmation back from every loop.   *)
ConfirmedIsClean == \A l \in Loops : confirmed[l] => failures = 0

LEMMA FailoverInitOK == FailoverInit => EndpointOK /\ ConfirmedIsClean
  <1> SUFFICES ASSUME FailoverInit PROVE EndpointOK /\ ConfirmedIsClean
    OBVIOUS
  <1> USE DEF FailoverInit
  <1>1. Asleep \in [pc : {"asleep", "send", "sent", "record", "apply"},
                    left : {<<Primary, Fallback>>, <<Fallback, Primary>>,
                            <<Primary>>, <<Fallback>>, <<>>},
                    ok : BOOLEAN]
    BY DEF Asleep
  <1>2. activePanel \in Panels /\ failures \in 0 .. 5 /\ flaps \in 0 .. MaxFlaps
    BY FlapsAssumption DEF Panels
  <1>3. QED
    BY <1>1, <1>2 DEF EndpointOK, ConfirmedIsClean

LEMMA CandidatesOK ==
  Candidates \in {<<Primary, Fallback>>, <<Fallback, Primary>>}
  BY DEF Candidates

(* A loop that still has candidates has one of the panels at the head, and *)
(* at most the other one after it.                                         *)
LEMMA HeadAndTail ==
  ASSUME NEW s \in {<<Primary, Fallback>>, <<Fallback, Primary>>,
                    <<Primary>>, <<Fallback>>, <<>>},
         s /= <<>>
  PROVE  /\ Head(s) \in Panels
         /\ Tail(s) \in {<<Primary>>, <<Fallback>>, <<>>}
  <1>1. CASE s = <<Primary, Fallback>>
    BY <1>1 DEF Panels
  <1>2. CASE s = <<Fallback, Primary>>
    BY <1>2 DEF Panels
  <1>3. CASE s = <<Primary>>
    BY <1>3 DEF Panels
  <1>4. CASE s = <<Fallback>>
    BY <1>4 DEF Panels
  <1>5. QED
    BY <1>1, <1>2, <1>3, <1>4

(* A request in flight has a candidate. *)
HasCandidate == \A l \in Loops : loop[l].pc \in {"sent", "record"} => loop[l].left /= <<>>

FInv == EndpointOK /\ ConfirmedIsClean /\ HasCandidate

LEMMA FailoverStepOK == FInv /\ [FailoverNext]_failoverVars => FInv'
  <1> SUFFICES ASSUME EndpointOK, ConfirmedIsClean, HasCandidate, [FailoverNext]_failoverVars
               PROVE  FInv'
    BY DEF FInv
  <1> USE DEF EndpointOK, ConfirmedIsClean, HasCandidate, FInv, endpoint
  <1>1. ASSUME NEW l \in Loops, Wake(l) PROVE FInv'
    BY <1>1, CandidatesOK DEF Wake
  <1>2. ASSUME NEW l \in Loops, SendRequest(l) PROVE FInv'
    BY <1>2 DEF SendRequest
  <1>3. ASSUME NEW l \in Loops, Outcome(l) PROVE FInv'
    <2>1. Head(loop[l].left) \in Panels
      BY <1>3, HeadAndTail DEF Outcome
    <2>2. QED
      BY <1>3, <2>1 DEF Outcome
  <1>4. ASSUME NEW l \in Loops, RecordFailure(l) PROVE FInv'
    <2>1. Tail(loop[l].left) \in {<<Primary>>, <<Fallback>>, <<>>}
      BY <1>4, HeadAndTail DEF RecordFailure
    <2>2. Count(failures) \in 0 .. 5
      BY DEF Count
    <2>3. QED
      BY <1>4, <2>1, <2>2 DEF RecordFailure
  <1>5. ASSUME NEW l \in Loops, RecordSuccess(l) PROVE FInv'
    <2>1. Head(loop[l].left) \in Panels
      BY <1>5, HeadAndTail DEF RecordSuccess
    <2>2. /\ activePanel' \in Panels /\ failures' \in 0 .. 5 /\ backoff' \in BOOLEAN
          /\ UNCHANGED <<reachable, flaps>>
      <3>1. CASE Stale(Head(loop[l].left))
        BY <1>5, <3>1 DEF RecordSuccess
      <3>2. CASE ~Stale(Head(loop[l].left))
        <4>1. activePanel' = Head(loop[l].left) /\ UNCHANGED <<reachable, flaps>>
          BY <1>5, <3>2 DEF RecordSuccess
        <4>2. \/ failures' = 0 /\ backoff' = FALSE
              \/ failures' = failures /\ backoff' = backoff
          BY <1>5, <3>2, Zenon DEF RecordSuccess
        <4>3. failures' \in 0 .. 5
          BY <4>2
        <4>4. backoff' \in BOOLEAN
          BY <4>2, Zenon
        <4>5. QED
          BY <2>1, <4>1, <4>3, <4>4
      <3>3. QED
        BY <3>1, <3>2
    <2>3. confirmed' \in [Loops -> BOOLEAN] /\ ConfirmedIsClean'
      BY <1>5 DEF RecordSuccess, Stale
    <2>4. QED
      BY <1>5, <2>2, <2>3 DEF RecordSuccess, Asleep
  <1>6. ASSUME NEW l \in Loops, GiveUp(l) PROVE FInv'
    BY <1>6 DEF GiveUp, Asleep
  <1>7. CASE Execute
    BY <1>7, SyncAssumption DEF Execute, Asleep
  <1>8. CASE RetryDue
    BY <1>8 DEF RetryDue
  <1>9. ASSUME NEW p \in Panels, Flap(p) PROVE FInv'
    BY <1>9, FlapsAssumption DEF Flap
  <1>10. CASE UNCHANGED failoverVars
    BY <1>10 DEF failoverVars
  <1>11. QED
    BY <1>1, <1>2, <1>3, <1>4, <1>5, <1>6, <1>7, <1>8, <1>9, <1>10 DEF FailoverNext, Request

(* The endpoint, the back-off and the loops of the mixin keep their types. *)
THEOREM EndpointsCorrect == FailoverSpec => []EndpointOK
  <1>1. FailoverInit => FInv
    BY FailoverInitOK DEF FailoverInit, FInv, HasCandidate, Asleep
  <1>2. QED
    BY <1>1, FailoverStepOK, PTL DEF FailoverSpec, FInv

(* StaleFallbackIgnored of _record_panel_success (P00RIJA.py): an answer   *)
(* of the fallback that arrives after the primary was confirmed, and before*)
(* a request to it fails, leaves the primary active.                       *)
LEMMA StaleStep ==
  ASSUME FInv, [FailoverNext]_failoverVars, NEW l \in Loops,
         loop[l].pc = "record", loop[l].ok, confirmed[l],
         loop'[l].pc /= "record", activePanel = Primary
  PROVE  activePanel' = Primary
  <1> USE DEF FInv, EndpointOK, endpoint
  <1>1. failures = 0
    BY DEF ConfirmedIsClean
  <1>2. ASSUME NEW k \in Loops, RecordSuccess(k) PROVE activePanel' = Primary
    <2>1. Head(loop[k].left) \in Panels
      BY <1>2, HeadAndTail DEF RecordSuccess, HasCandidate
    <2>2. QED
      BY <1>1, <1>2, <2>1 DEF RecordSuccess, Stale, Panels
  <1>3. ASSUME NEW k \in Loops,
               Wake(k) \/ SendRequest(k) \/ Outcome(k) \/ RecordFailure(k) \/ GiveUp(k)
        PROVE  activePanel' = Primary
    BY <1>3 DEF Wake, SendRequest, Outcome, RecordFailure, GiveUp
  <1>4. CASE Execute \/ RetryDue \/ UNCHANGED failoverVars
    BY <1>4 DEF Execute, RetryDue, failoverVars
  <1>5. ASSUME NEW p \in Panels, Flap(p) PROVE activePanel' = Primary
    BY <1>5 DEF Flap
  <1>6. QED
    BY <1>2, <1>3, <1>4, <1>5 DEF FailoverNext, Request

(* StaleFallbackIgnored holds whatever the loops and the panels do.        *)
THEOREM ConfirmedPrimaryStays == FailoverSpec => StaleFallbackIgnored
  <1>1. FailoverInit => FInv
    BY FailoverInitOK DEF FailoverInit, FInv, HasCandidate, Asleep
  <1>2. FInv /\ [FailoverNext]_failoverVars =>
          [\A l \in Loops :
             /\ loop[l].pc = "record" /\ loop[l].ok /\ confirmed[l]
             /\ loop'[l].pc /= "record" /\ activePanel = Primary
             => activePanel' = Primary]_failoverVars
    BY StaleStep
  <1>3. QED
    BY <1>1, <1>2, FailoverStepOK, PTL DEF FailoverSpec, StaleFallbackIgnored

-----------------------------------------------------------------------------
(* The links and their ports (ConfigSync).                                 *)

Holders == Links \union {"free", "other", "lingers"}
Signatures == {<<>>} \union {Signature(c) : c \in LinkConfig}
LinkState == [kind : {"server", "client", "engine", "none"},
              raw : LinkConfig \union {Absent}, sig : Signatures, ports : Mapping,
              listens : BOOLEAN, accepts : BOOLEAN, alive : BOOLEAN]
States == [active : [Links -> LinkState], holder : [Ports -> Holders]]

OwnsIn(a, p) ==
  \/ a.listens /\ p = a.raw.bridge
  \/ a.ports[p] /= 0 /\ (a.kind = "engine" => a.alive)

(* A link is of the kind its configuration names, a signature it has is    *)
(* its configuration's, and its bridge port is none of its user ports.     *)
Known(a) ==
  /\ a.raw \in LinkConfig /\ a.kind = a.raw.kind
  /\ a.sig \in {<<>>, Signature(a.raw)}
  /\ a.listens => a.kind /= "engine" /\ a.ports[a.raw.bridge] = 0

(* What every call of apply_config and of the watchdog preserves.          *)
Good(s) ==
  /\ s \in States
  /\ \A l \in Links : s.active[l] = NoLink \/ Known(s.active[l])
  /\ \A l \in Links, p \in Ports : s.holder[p] = l <=> OwnsIn(s.active[l], p)

(* What config_sync_loop works on is a configuration of the panel.         *)
SyncOK ==
  /\ panel \in Configs
  /\ sync \in [pc : {"asleep", "fetched", "links"}, config : Configs, todo : SUBSET Links]
  /\ \A l \in sync.todo : sync.config[l] /= Absent

SInv == Good(Now) /\ SyncOK

-----------------------------------------------------------------------------
LEMMA NoLinkFields ==
  /\ NoLink \in LinkState /\ ~NoLink.listens /\ NoLink.ports = NoPorts
  /\ NoLink.raw = Absent /\ NoLink.kind = "none"
  /\ NoPorts \in Mapping /\ \A p \in Ports : NoPorts[p] = 0
  /\ \A p \in Ports : ~OwnsIn(NoLink, p)
<1>1. NoPorts \in Mapping /\ \A p \in Ports : NoPorts[p] = 0
  BY DEF NoPorts, Mapping
<1>2. <<>> \in Signatures
  BY DEF Signatures
<1>3. /\ NoLink \in LinkState /\ ~NoLink.listens /\ NoLink.ports = NoPorts
      /\ NoLink.raw = Absent /\ NoLink.kind = "none"
  BY <1>1, <1>2 DEF NoLink, LinkState
<1> QED
  BY <1>1, <1>3 DEF OwnsIn

LEMMA SignatureFields ==
  ASSUME NEW c \in LinkConfig, NEW d \in LinkConfig
  PROVE  /\ Signature(c) \in Signatures /\ Signature(c) /= <<>>
         /\ Signature(c) = Signature(d) => c.kind = d.kind /\ c.bridge = d.bridge
BY DEF Signature, Signatures

LEMMA ConfigFields ==
  ASSUME NEW c \in LinkConfig
  PROVE  /\ c.kind \in {"server", "client", "engine"} /\ c.bridge \in Ports
         /\ c.ports \in Mapping
BY DEF LinkConfig

LEMMA RecordFields ==
  ASSUME NEW c \in LinkConfig, NEW sig \in {<<>>, Signature(c)}
  PROVE  LET a == Record(c, sig) IN
         /\ a \in LinkState /\ Known(a) /\ a.kind = c.kind /\ a.raw = c
         /\ ~a.listens /\ a.alive
         /\ \A p \in Ports : a.ports[p] = 0 /\ ~OwnsIn(a, p)
<1>1. sig \in Signatures
  BY SignatureFields DEF Signatures
<1>2. Record(c, sig) \in LinkState
  BY <1>1, ConfigFields, NoLinkFields DEF Record, LinkState
<1> QED
  BY <1>2, NoLinkFields DEF Record, Known, OwnsIn

(* A link without a port may be replaced by another one without.           *)
LEMMA PutOK ==
  ASSUME NEW s, Good(s), NEW l \in Links, s.active[l] = NoLink,
         NEW a \in LinkState, Known(a), \A p \in Ports : ~OwnsIn(a, p)
  PROVE  Good(Put(s, l, a)) /\ Put(s, l, a).active[l] = a /\ Put(s, l, a).holder = s.holder
<1>1. /\ Put(s, l, a).active = [s.active EXCEPT ![l] = a]
      /\ Put(s, l, a).holder = s.holder
      /\ Put(s, l, a) \in States
  BY DEF Good, States, Put
<1>2. \A p \in Ports : s.holder[p] /= l
  BY NoLinkFields DEF Good
<1> QED
  BY <1>1, <1>2 DEF Good, States

(* A listener on a free bridge port. *)
Opened(s, l, a) == [Put(s, l, a) EXCEPT !.holder[a.raw.bridge] = l]

LEMMA ListenOK ==
  ASSUME NEW s, Good(s), NEW l \in Links, s.active[l] = NoLink,
         NEW a \in LinkState, Known(a), a.kind /= "engine", a.listens,
         \A p \in Ports : a.ports[p] = 0,
         s.holder[a.raw.bridge] = "free"
  PROVE  Good(Opened(s, l, a)) /\ Opened(s, l, a).active[l] = a
<1> DEFINE t == Opened(s, l, a)
<1>0. a.raw.bridge \in Ports
  BY ConfigFields DEF Known
<1>1. /\ t.active = [s.active EXCEPT ![l] = a]
      /\ t.holder = [s.holder EXCEPT ![a.raw.bridge] = l]
      /\ t \in States
  BY <1>0 DEF Good, States, Put, Holders, Opened
<1>2. \A p \in Ports : s.holder[p] /= l
  BY NoLinkFields DEF Good
<1>3. \A p \in Ports : OwnsIn(a, p) <=> p = a.raw.bridge
  BY DEF OwnsIn
<1>4. \A k \in Links, p \in Ports : t.holder[p] = k <=> OwnsIn(t.active[k], p)
  <2> SUFFICES ASSUME NEW k \in Links, NEW p \in Ports
               PROVE  t.holder[p] = k <=> OwnsIn(t.active[k], p)
    OBVIOUS
  <2>1. s.holder[p] = k <=> OwnsIn(s.active[k], p)
    BY DEF Good
  <2>2. CASE k = l
    BY <2>2, <1>1, <1>2, <1>3 DEF Good, States
  <2>3. CASE k /= l
    <3>1. t.active[k] = s.active[k]
      BY <2>3, <1>1 DEF Good, States
    <3>2. s.holder[a.raw.bridge] /= k
      BY LinksAssumption
    <3> QED
      BY <2>1, <2>3, <3>1, <3>2, <1>0, <1>1 DEF Good, States
  <2> QED
    BY <2>2, <2>3
<1>5. t.active[l] = a /\ \A k \in Links \ {l} : t.active[k] = s.active[k]
  BY <1>1 DEF Good, States
<1> HIDE DEF t
<1>6. Good(t)
  BY <1>1, <1>4, <1>5 DEF Good
<1> QED
  BY <1>5, <1>6 DEF t

(* Ports are opened when free, retargeted and closed when the link's own.  *)
LEMMA UpdatePortsOK ==
  ASSUME NEW s, Good(s), NEW l \in Links, Known(s.active[l]),
         s.active[l].kind = "engine" => s.active[l].alive, NEW want \in Mapping
  PROVE  Good(UpdatePorts(s, l, want))
<1> DEFINE have == s.active[l].ports
           now == [p \in Ports |-> Reconcile(have, want, p, s.holder[p] = "free")]
           a == [s.active[l] EXCEPT !.ports = now]
           t == UpdatePorts(s, l, want)
<1>0. s.active[l] \in LinkState /\ have \in Mapping
  BY DEF Good, States, LinkState
<1>1. now \in Mapping
  BY <1>0 DEF Mapping, Reconcile
<1>2. /\ a \in LinkState /\ a.ports = now /\ a.kind = s.active[l].kind
      /\ a.raw = s.active[l].raw /\ a.sig = s.active[l].sig
      /\ a.listens = s.active[l].listens /\ a.alive = s.active[l].alive
  BY <1>0, <1>1 DEF LinkState
<1>3. t.active = [s.active EXCEPT ![l] = a]
  BY <1>0 DEF UpdatePorts, Good, States
<1>4. t.holder = [p \in Ports |->
        IF now[p] /= 0 THEN l ELSE IF have[p] /= 0 THEN "free" ELSE s.holder[p]]
  BY DEF UpdatePorts
<1>5. t \in States
  <2>1. t.holder \in [Ports -> Holders]
    BY <1>4 DEF Good, States, Holders
  <2>2. t.active \in [Links -> LinkState]
    BY <1>2, <1>3 DEF Good, States
  <2> QED
    BY <2>1, <2>2 DEF UpdatePorts, States
<1>6. \A p \in Ports : now[p] = Reconcile(have, want, p, s.holder[p] = "free")
  OBVIOUS
<1>7. \A p \in Ports : now[p] /= 0 => s.holder[p] \in {"free", l}
  <2> SUFFICES ASSUME NEW p \in Ports, now[p] /= 0 PROVE s.holder[p] \in {"free", l}
    OBVIOUS
  <2>1. s.holder[p] = "free" \/ have[p] /= 0
    BY <1>6 DEF Reconcile
  <2>2. have[p] /= 0 => OwnsIn(s.active[l], p)
    BY DEF OwnsIn
  <2> QED
    BY <2>1, <2>2 DEF Good
<1>8. s.active[l].listens => /\ s.holder[s.active[l].raw.bridge] = l
                             /\ have[s.active[l].raw.bridge] = 0
                             /\ s.active[l].raw.bridge \in Ports
  BY ConfigFields DEF Good, Known, OwnsIn
<1>9. a.listens => now[a.raw.bridge] = 0
  BY <1>2, <1>6, <1>8, LinksAssumption DEF Reconcile
<1>10. Known(a)
  BY <1>2, <1>9 DEF Known
<1>11. t.active[l] = a /\ \A k \in Links \ {l} : t.active[k] = s.active[k]
  BY <1>3 DEF Good, States
<1> HIDE DEF a, t, now
<1>12. \A k \in Links, p \in Ports : t.holder[p] = k <=> OwnsIn(t.active[k], p)
  <2> SUFFICES ASSUME NEW k \in Links, NEW p \in Ports
               PROVE  t.holder[p] = k <=> OwnsIn(t.active[k], p)
    OBVIOUS
  <2>1. /\ s.holder[p] = k <=> OwnsIn(s.active[k], p)
        /\ s.holder[p] = l <=> OwnsIn(s.active[l], p)
    BY DEF Good
  <2>2. have[p] /= 0 => s.holder[p] = l
    BY <2>1 DEF OwnsIn
  <2>3. /\ t.holder[p] = IF now[p] /= 0 THEN l
                         ELSE IF have[p] /= 0 THEN "free" ELSE s.holder[p]
        /\ "free" \notin {k, l}
    BY <1>4, LinksAssumption
  <2>4. CASE k = l
    <3>1. OwnsIn(a, p) <=> (a.listens /\ p = a.raw.bridge) \/ now[p] /= 0
      BY <1>2 DEF OwnsIn
    <3>2. OwnsIn(s.active[l], p) <=>
            (a.listens /\ p = a.raw.bridge) \/ have[p] /= 0
      BY <1>2 DEF OwnsIn
    <3>3. a.listens /\ p = a.raw.bridge => have[p] = 0 /\ now[p] = 0
      BY <1>2, <1>8, <1>9
    <3> QED
      BY <2>1, <2>3, <2>4, <3>1, <3>2, <3>3, <1>11
  <2>5. CASE k /= l
    BY <2>1, <2>2, <2>3, <2>5, <1>7, <1>11
  <2> QED
    BY <2>4, <2>5
<1> QED
  BY <1>5, <1>10, <1>11, <1>12 DEF Good, t

(* stop_link gives back every port of the link, and of no other. *)
LEMMA StopOK ==
  ASSUME NEW s, Good(s), NEW l \in Links, NEW lingers \in BOOLEAN
  PROVE  Good(Stop(s, l, lingers)) /\ Stop(s, l, lingers).active[l] = NoLink
<1> DEFINE t == Stop(s, l, lingers)
<1>1. t.active = [s.active EXCEPT ![l] = NoLink]
  BY DEF Stop
<1>2. \A p \in Ports : t.holder[p] = s.holder[p] \/
        (s.holder[p] = l /\ t.holder[p] \in {"free", "lingers"})
  BY DEF Stop
<1>3. \A p \in Ports : s.holder[p] = l => t.holder[p] \in {"free", "lingers"}
  BY DEF Stop
<1>4. t \in States
  <2>1. t.active \in [Links -> LinkState]
    BY <1>1, NoLinkFields DEF Good, States
  <2>2. t.holder \in [Ports -> Holders]
    BY DEF Stop, Good, States, Holders
  <2> QED
    BY <2>1, <2>2 DEF Stop, States
<1>5. t.active[l] = NoLink /\ \A k \in Links \ {l} : t.active[k] = s.active[k]
  BY <1>1 DEF Good, States
<1> HIDE DEF t
<1>6. \A k \in Links, p \in Ports : t.holder[p] = k <=> OwnsIn(t.active[k], p)
  <2> SUFFICES ASSUME NEW k \in Links, NEW p \in Ports
               PROVE  t.holder[p] = k <=> OwnsIn(t.active[k], p)
    OBVIOUS
  <2>1. s.holder[p] = k <=> OwnsIn(s.active[k], p)
    BY DEF Good
  <2>2. k \notin {"free", "lingers"} /\ l \notin {"free", "lingers"}
    BY LinksAssumption
  <2>3. CASE k = l
    BY <2>2, <2>3, <1>2, <1>3, <1>5, NoLinkFields
  <2>4. CASE k /= l
    BY <2>1, <2>2, <2>4, <1>2, <1>3, <1>5
  <2> QED
    BY <2>3, <2>4
<1>7. Good(t)
  BY <1>4, <1>5, <1>6 DEF Good
<1> QED
  BY <1>5, <1>7 DEF t

LEMMA StartOK ==
  ASSUME NEW s, Good(s), NEW l \in Links, s.active[l] = NoLink,
         NEW c \in LinkConfig, NEW sig \in {<<>>, Signature(c)}
  PROVE  Good(Start(s, l, c, sig))
<1> DEFINE r == Record(c, sig)
           a == [r EXCEPT !.listens = TRUE, !.accepts = TRUE]
<1>1. /\ r \in LinkState /\ Known(r) /\ r.kind = c.kind /\ r.raw = c
      /\ ~r.listens /\ r.alive /\ \A p \in Ports : r.ports[p] = 0 /\ ~OwnsIn(r, p)
  BY RecordFields
<1>2. c.kind \in {"server", "client", "engine"} /\ c.bridge \in Ports /\ c.ports \in Mapping
  BY ConfigFields
<1> HIDE DEF r
<1>3. /\ a \in LinkState /\ a.kind = c.kind /\ a.raw = c /\ a.listens
      /\ a.alive = r.alive /\ a.sig = r.sig /\ a.ports = r.ports
  BY <1>1 DEF LinkState
<1>4. c.kind /= "engine" => Known(a)
  BY <1>1, <1>2, <1>3 DEF Known
<1> HIDE DEF a
<1>5. Listen(s, l, c, r) = [Put(s, l, a) EXCEPT !.holder[c.bridge] = l]
  BY DEF Listen, a
<1>6. ASSUME c.kind /= "engine", s.holder[c.bridge] = "free"
      PROVE  Good(Listen(s, l, c, r)) /\ Listen(s, l, c, r).active[l] = a
  <2>1. /\ a.kind /= "engine" /\ Known(a) /\ s.holder[a.raw.bridge] = "free"
        /\ \A p \in Ports : a.ports[p] = 0
    BY <1>6, <1>1, <1>3, <1>4
  <2>2. Good(Opened(s, l, a)) /\ Opened(s, l, a).active[l] = a
    BY <2>1, <1>3, ListenOK
  <2>3. Listen(s, l, c, r) = Opened(s, l, a)
    BY <1>3, <1>5 DEF Opened
  <2> QED
    BY <2>2, <2>3
<1>7. Good(Put(s, l, r)) /\ Put(s, l, r).active[l] = r
  BY <1>1, PutOK
<1>8. CASE c.kind = "server"
  <2>1. ASSUME s.holder[c.bridge] = "free"
        PROVE  Good(UpdatePorts(Listen(s, l, c, r), l, c.ports))
    <3>1. Good(Listen(s, l, c, r)) /\ Known(Listen(s, l, c, r).active[l])
          /\ Listen(s, l, c, r).active[l].kind /= "engine"
      BY <2>1, <1>3, <1>4, <1>6, <1>8
    <3> QED
      BY <3>1, <1>2, UpdatePortsOK
  <2> QED
    BY <2>1, <1>8 DEF Start, StartServer, r
<1>9. CASE c.kind = "client"
  BY <1>6, <1>7, <1>9 DEF Start, StartClient, r
<1>10. CASE c.kind = "engine"
  <2>1. Good(UpdatePorts(Put(s, l, r), l, c.ports))
    BY <1>1, <1>2, <1>7, UpdatePortsOK
  <2> QED
    BY <2>1, <1>10 DEF Start, StartEngine, r
<1> QED
  BY <1>2, <1>8, <1>9, <1>10
-----------------------------------------------------------------------------
LEMMA ConfigOK ==
  ASSUME NEW config \in Configs, NEW l \in Links
  PROVE  config[l] \in LinkConfig \/ config[l] = Absent
BY ConfigsAssumption

(* A changed component of a state. *)
LEMMA BecomeOK ==
  ASSUME NEW s, Good(s), Become(s) PROVE Good(Now)'
<1>1. s = [active |-> active', holder |-> holder']
  BY DEF Become, Good, States
<1>2. Good([active |-> active', holder |-> holder'])
  BY <1>1
<1> QED
  BY <1>2 DEF Good, Now
-----------------------------------------------------------------------------
LEMMA InitOK == SyncInit => SInv
<1> SUFFICES ASSUME SyncInit PROVE SInv
  OBVIOUS
<1>1. Now = [active |-> [l \in Links |-> NoLink], holder |-> [p \in Ports |-> "free"]]
  BY DEF SyncInit, Now
<1>2. Good(Now)
  BY <1>1, NoLinkFields, LinksAssumption DEF Good, States, Holders
<1>3. SyncOK
  BY DEF SyncInit, SyncOK
<1> QED
  BY <1>2, <1>3 DEF SInv

LEMMA NowFields == Now.active = active /\ Now.holder = holder
BY DEF Now

LEMMA SyncKept ==
  ASSUME SyncOK, panel' = panel,
         sync' = sync \/ \E l \in Links : Looked(l)
  PROVE  SyncOK'
BY DEF SyncOK, Looked

(* The link that is due has a configuration. *)
LEMMA DueFields ==
  ASSUME SyncOK, NEW l \in Links, Due(l) PROVE sync.config[l] \in LinkConfig
BY ConfigOK DEF SyncOK, Due

LEMMA UnchangedOK ==
  ASSUME Good(Now), UNCHANGED <<active, holder>> PROVE Good(Now)'
BY BecomeOK, NowFields DEF Become

LEMMA LoopOK ==
  ASSUME SInv, Fetch \/ TakeLock \/ ReleaseLock \/ \E c \in Configs : ChangeConfig(c)
  PROVE  SInv'
<1>1. Good(Now)'
  BY UnchangedOK DEF SInv, Fetch, TakeLock, ReleaseLock, ChangeConfig
<1>2. SyncOK'
  <2>1. CASE Fetch
    BY <2>1 DEF SInv, SyncOK, Fetch
  <2>2. CASE TakeLock
    BY <2>2 DEF SInv, SyncOK, TakeLock
  <2>3. CASE ReleaseLock
    <3>1. sync' = [sync EXCEPT !.pc = "asleep"] /\ panel' = panel
      BY <2>3 DEF ReleaseLock
    <3>2. sync'.todo = sync.todo /\ sync'.config = sync.config
      BY <3>1 DEF SInv, SyncOK
    <3> QED
      BY <3>1, <3>2 DEF SInv, SyncOK
  <2>4. CASE \E c \in Configs : ChangeConfig(c)
    BY <2>4 DEF SInv, SyncOK, ChangeConfig
  <2> QED
    BY <2>1, <2>2, <2>3, <2>4
<1> QED
  BY <1>1, <1>2 DEF SInv

LEMMA StartLinkOK == ASSUME SInv, NEW l \in Links, StartLink(l) PROVE SInv'
<1> DEFINE c == sync.config[l]
<1>1. c \in LinkConfig /\ Now.active[l] = NoLink /\ Good(Now)
  BY DueFields, NowFields DEF SInv, StartLink
<1>2. Good(Start(Now, l, c, Signature(c)))
  BY <1>1, StartOK
<1>3. Good(Now)'
  BY <1>2, BecomeOK DEF StartLink
<1>4. SyncOK'
  BY SyncKept DEF SInv, StartLink
<1> QED
  BY <1>3, <1>4 DEF SInv

LEMMA RestartLinkOK == ASSUME SInv, NEW l \in Links, RestartLink(l) PROVE SInv'
<1> DEFINE c == sync.config[l]
<1>1. PICK lingers \in BOOLEAN :
        Become(Start(Stop(Now, l, lingers), l, c, Signature(c)))
  BY DEF RestartLink
<1>2. c \in LinkConfig /\ Good(Now)
  BY DueFields DEF SInv, RestartLink
<1>3. Good(Stop(Now, l, lingers)) /\ Stop(Now, l, lingers).active[l] = NoLink
  BY <1>2, StopOK
<1>4. Good(Start(Stop(Now, l, lingers), l, c, Signature(c)))
  BY <1>2, <1>3, StartOK
<1>5. Good(Now)'
  BY <1>1, <1>4, BecomeOK
<1>6. SyncOK'
  BY SyncKept DEF SInv, RestartLink
<1> QED
  BY <1>5, <1>6 DEF SInv

(* A link of the same signature takes the rest of its new configuration.   *)
LEMMA KeepLinkOK == ASSUME SInv, NEW l \in Links, KeepLink(l) PROVE SInv'
<1> DEFINE c == sync.config[l]
           a == [active[l] EXCEPT !.raw = c]
           kept == [Now EXCEPT !.active[l].raw = c]
<1>1. c \in LinkConfig /\ Good(Now) /\ active[l] = Now.active[l]
  BY DueFields, NowFields DEF SInv, KeepLink
<1>2. active[l] \in LinkState /\ Known(active[l]) /\ active[l].sig = Signature(c)
  BY <1>1 DEF KeepLink, Good, States
<1>3. active[l].raw \in LinkConfig /\ active[l].kind = c.kind /\ active[l].raw.bridge = c.bridge
  BY <1>1, <1>2, SignatureFields DEF Known
<1>4. /\ a \in LinkState /\ a.raw = c /\ a.kind = c.kind /\ a.sig = Signature(c)
      /\ a.ports = active[l].ports /\ a.listens = active[l].listens
      /\ a.alive = active[l].alive
  BY <1>1, <1>2, <1>3 DEF LinkState
<1>5. Known(a)
  BY <1>1, <1>2, <1>3, <1>4 DEF Known
<1>6. \A p \in Ports : OwnsIn(a, p) <=> OwnsIn(active[l], p)
  BY <1>3, <1>4 DEF OwnsIn
<1>7. kept.active = [active EXCEPT ![l] = a] /\ kept.holder = holder
  BY DEF Now
<1>8. kept.active[l] = a /\ \A k \in Links \ {l} : kept.active[k] = active[k]
  BY <1>1, <1>7, NowFields DEF Good, States
<1>9. kept \in States
  <2>1. kept.active \in [Links -> LinkState] /\ kept.holder \in [Ports -> Holders]
    BY <1>1, <1>4, <1>7, NowFields DEF Good, States
  <2>2. kept = [active |-> kept.active, holder |-> kept.holder]
    BY DEF Now
  <2> QED
    BY <2>1, <2>2 DEF States
<1> HIDE DEF kept, a
<1>10. Good(kept)
  BY <1>1, <1>5, <1>6, <1>7, <1>8, <1>9, NowFields DEF Good
<1>11. c.kind = "server" => Good(UpdatePorts(kept, l, c.ports))
  BY <1>1, <1>4, <1>5, <1>8, <1>10, UpdatePortsOK, ConfigFields
<1>12. Good(Now)'
  BY <1>10, <1>11, BecomeOK DEF KeepLink, kept
<1>13. SyncOK'
  BY SyncKept DEF SInv, KeepLink
<1> QED
  BY <1>12, <1>13 DEF SInv

(* A listener whose link did not start is remembered, and so is released.  *)
LEMMA StartRaisesOK == ASSUME SInv, NEW l \in Links, StartRaises(l) PROVE SInv'
<1> DEFINE c == sync.config[l]
           r == Record(c, <<>>)
           a == [r EXCEPT !.listens = TRUE]
<1>1. /\ c \in LinkConfig /\ Good(Now) /\ Now.active[l] = NoLink
      /\ c.kind = "server" /\ Now.holder[c.bridge] = "free"
  BY DueFields, NowFields DEF SInv, StartRaises
<1>2. /\ r \in LinkState /\ Known(r) /\ r.kind = c.kind /\ r.raw = c
      /\ \A p \in Ports : r.ports[p] = 0
  BY <1>1, RecordFields
<1> HIDE DEF r
<1>3. /\ a \in LinkState /\ a.kind = c.kind /\ a.raw = c /\ a.listens
      /\ a.sig = r.sig /\ a.ports = r.ports
  BY <1>2 DEF LinkState
<1>4. Known(a)
  BY <1>1, <1>2, <1>3, ConfigFields DEF Known
<1> HIDE DEF a
<1>5. Good(Opened(Now, l, a))
  BY <1>1, <1>2, <1>3, <1>4, ListenOK
<1>6. Become(Opened(Now, l, a))
  BY <1>3 DEF StartRaises, Opened, a, r
<1>7. Good(Now)'
  BY <1>5, <1>6, BecomeOK
<1>8. SyncOK'
  BY DEF SInv, SyncOK, StartRaises
<1> QED
  BY <1>7, <1>8 DEF SInv

LEMMA RemoveLinkOK == ASSUME SInv, NEW l \in Links, RemoveLink(l) PROVE SInv'
<1>1. PICK lingers \in BOOLEAN : Become(Stop(Now, l, lingers))
  BY DEF RemoveLink
<1>2. Good(Now)'
  BY <1>1, StopOK, BecomeOK DEF SInv
<1>3. SyncOK'
  BY SyncKept DEF SInv, RemoveLink
<1> QED
  BY <1>2, <1>3 DEF SInv

LEMMA WatchdogRestartsOK ==
  ASSUME SInv, NEW l \in Links, WatchdogRestarts(l) PROVE SInv'
<1> DEFINE c == active[l].raw
           sig == IF c.kind = "client" THEN Signature(c) ELSE <<>>
<1>1. PICK lingers \in BOOLEAN : Become(Start(Stop(Now, l, lingers), l, c, sig))
  BY DEF WatchdogRestarts
<1>2. c \in LinkConfig /\ Good(Now) /\ sig \in {<<>>, Signature(c)}
  BY NowFields DEF SInv, WatchdogRestarts, Unhealthy, Good, Known
<1> HIDE DEF c, sig
<1>3. Good(Stop(Now, l, lingers)) /\ Stop(Now, l, lingers).active[l] = NoLink
  BY <1>2, StopOK
<1>4. Good(Start(Stop(Now, l, lingers), l, c, sig))
  BY <1>2, <1>3, StartOK
<1>5. Good(Now)'
  BY <1>1, <1>4, BecomeOK
<1>6. SyncOK'
  BY SyncKept DEF SInv, WatchdogRestarts
<1> QED
  BY <1>5, <1>6 DEF SInv

LEMMA DieOK == ASSUME SInv, NEW l \in Links, Die(l) PROVE SInv'
<1> DEFINE a == [active[l] EXCEPT !.alive = FALSE]
<1>1. /\ active \in [Links -> LinkState] /\ holder \in [Ports -> Holders]
      /\ Known(active[l]) /\ active[l].kind \in {"engine", "client"}
  BY NowFields, NoLinkFields DEF SInv, Good, States, Die
<1>2. /\ a \in LinkState /\ a.raw = active[l].raw /\ a.kind = active[l].kind
      /\ a.sig = active[l].sig /\ a.ports = active[l].ports
      /\ a.listens = active[l].listens /\ ~a.alive
  BY <1>1 DEF LinkState
<1>3. Known(a)
  BY <1>1, <1>2 DEF Known
<1>4. active' = [active EXCEPT ![l] = a]
  BY DEF Die
<1> HIDE DEF a
<1>5. active'[l] = a /\ \A k \in Links \ {l} : active'[k] = active[k]
  BY <1>1, <1>4
<1> DEFINE s == [active |-> active', holder |-> holder']
<1>6. s \in States
  <2>1. holder' \in [Ports -> Holders]
    BY <1>1 DEF Die, Holders
  <2> QED
    BY <2>1, <1>1, <1>2, <1>4 DEF States
<1>7. \A k \in Links, p \in Ports : holder'[p] = k <=> OwnsIn(active'[k], p)
  <2> SUFFICES ASSUME NEW k \in Links, NEW p \in Ports
               PROVE  holder'[p] = k <=> OwnsIn(active'[k], p)
    OBVIOUS
  <2>1. /\ holder[p] = k <=> OwnsIn(active[k], p)
        /\ "free" \notin {k, l}
    BY NowFields, LinksAssumption DEF SInv, Good
  <2>2. holder'[p] = IF active[l].kind = "client" THEN holder[p]
                     ELSE IF holder[p] = l THEN "free" ELSE holder[p]
    BY DEF Die
  <2>3. CASE k /= l
    BY <2>1, <2>2, <2>3, <1>5
  <2>4. CASE k = l
    <3>1. active[l].kind = "client" => (OwnsIn(a, p) <=> OwnsIn(active[l], p))
      BY <1>2 DEF OwnsIn
    <3>2. active[l].kind = "engine" => ~OwnsIn(a, p)
      BY <1>1, <1>2 DEF OwnsIn, Known
    <3> QED
      BY <2>1, <2>2, <2>4, <3>1, <3>2, <1>1, <1>5
  <2> QED
    BY <2>3, <2>4
<1>8. \A k \in Links : active'[k] = NoLink \/ Known(active'[k])
  BY <1>3, <1>5, NowFields DEF SInv, Good
<1>9. Good(s)
  BY <1>6, <1>7, <1>8 DEF Good
<1>10. Good(Now)'
  BY <1>9, BecomeOK DEF Become
<1>11. SyncOK'
  BY SyncKept DEF SInv, Die
<1> QED
  BY <1>10, <1>11 DEF SInv

(* Other programs, and listeners that linger, have ports nobody owns.      *)
LEMMA OthersOK ==
  ASSUME SInv, NEW p \in Ports, OtherListens(p) \/ OtherCloses(p) \/ LingeringEnds(p)
  PROVE  SInv'
<1> DEFINE s == [active |-> active, holder |-> holder']
<1>1. /\ active \in [Links -> LinkState] /\ holder \in [Ports -> Holders]
      /\ \A l \in Links : active[l] = NoLink \/ Known(active[l])
      /\ \A l \in Links, q \in Ports : holder[q] = l <=> OwnsIn(active[l], q)
  BY NowFields DEF SInv, Good, States
<1>2. PICK h \in {"free", "other"} :
        holder' = [holder EXCEPT ![p] = h] /\ UNCHANGED <<active, panel, sync>>
  BY DEF OtherListens, OtherCloses, LingeringEnds
<1>3. \A l \in Links : holder[p] /= l /\ holder'[p] /= l
  BY <1>1, <1>2, LinksAssumption DEF OtherListens, OtherCloses, LingeringEnds
<1>4. s \in States
  BY <1>1, <1>2 DEF States, Holders
<1>5. \A l \in Links, q \in Ports : holder'[q] = l <=> OwnsIn(active[l], q)
  BY <1>1, <1>2, <1>3
<1>6. Good(s)
  BY <1>1, <1>4, <1>5 DEF Good
<1>7. Good(Now)'
  BY <1>2, <1>6, BecomeOK DEF Become
<1>8. SyncOK'
  BY <1>2, SyncKept DEF SInv
<1> QED
  BY <1>7, <1>8 DEF SInv

-----------------------------------------------------------------------------
LEMMA StepOK == SInv /\ [SyncNext]_syncVars => SInv'
<1> SUFFICES ASSUME SInv, [SyncNext]_syncVars PROVE SInv'
  OBVIOUS
<1>1. CASE Fetch \/ TakeLock \/ ReleaseLock \/ \E c \in Configs : ChangeConfig(c)
  BY <1>1, LoopOK
<1>2. CASE \E l \in Links : StartLink(l) \/ RestartLink(l) \/ KeepLink(l) \/ RemoveLink(l)
  BY <1>2, StartLinkOK, RestartLinkOK, KeepLinkOK, RemoveLinkOK
<1>3. CASE \E l \in Links : StartRaises(l) \/ WatchdogRestarts(l) \/ Die(l)
  BY <1>3, StartRaisesOK, WatchdogRestartsOK, DieOK
<1>4. CASE \E p \in Ports : LingeringEnds(p) \/ OtherListens(p) \/ OtherCloses(p)
  BY <1>4, OthersOK
<1>5. CASE UNCHANGED syncVars
  BY <1>5, UnchangedOK, SyncKept DEF syncVars, SInv
<1> QED
  BY <1>1, <1>2, <1>3, <1>4, <1>5 DEF SyncNext, SyncSteps

(* Whatever the loops, dying engines, refused threads and other programs   *)
(* do: a port the node listens on belongs to a link that knows it, and     *)
(* what a link believes to listen on, it listens on.                       *)
THEOREM PortsStayOwned == SyncSpec => []ListenersOwned
<1>1. SInv => ListenersOwned
  BY NowFields DEF SInv, Good, OwnsIn, ListenersOwned, Owns
<1> QED
  BY InitOK, StepOK, <1>1, PTL DEF SyncSpec

(* Every variable but the two bounded counters keeps its type.             *)
THEOREM SyncTypes == SyncSpec => []TypeOK
<1>1. SInv => TypeOK
  <2> SUFFICES ASSUME SInv PROVE TypeOK
    OBVIOUS
  <2>1. active \in [Links -> LinkState] /\ holder \in [Ports -> Holders]
    BY NowFields DEF SInv, Good, States
  <2>2. \A l \in Links : active[l] \in LinkState
    BY <2>1
  <2> QED
    BY <2>1, <2>2 DEF SInv, SyncOK, TypeOK, LinkState, Holders
<1> QED
  BY InitOK, StepOK, <1>1, PTL DEF SyncSpec
-----------------------------------------------------------------------------
(* What a round of config_sync_loop leaves behind.                         *)

(* A user port that a link has open leads where its configuration says: a  *)
(* hot reload retargets it, and nothing else changes it.                   *)
Mapped(a) ==
  \A p \in Ports : a.ports[p] = 0 \/ (a.kind /= "client" /\ a.ports[p] = a.raw.ports[p])

(* Once a round has been at a link that the configuration names, the link  *)
(* either does not run or has that very configuration, whichever one it    *)
(* had before and whatever died, was taken or failed to start meanwhile;   *)
(* and no user port of it has a target the configuration does not give it. *)
RoundIsExact ==
  sync.pc = "links" => \A l \in Links \ sync.todo :
    sync.config[l] /= Absent /\ active[l] /= NoLink =>
      /\ active[l].raw = sync.config[l]
      /\ \A p \in Ports : active[l].ports[p] \in {0, sync.config[l].ports[p]}

Exact(l) ==
  sync.pc = "links" /\ l \notin sync.todo /\ sync.config[l] /= Absent =>
    active[l] = NoLink \/ active[l].raw = sync.config[l]

MapInv ==
  \A l \in Links : (active[l] = NoLink \/ Mapped(active[l])) /\ Exact(l)

LEMMA UpdateMaps ==
  ASSUME NEW s, Good(s), NEW l \in Links, NEW want \in Mapping
  PROVE  LET t == UpdatePorts(s, l, want) IN
         /\ \A k \in Links \ {l} : t.active[k] = s.active[k]
         /\ t.active[l].raw = s.active[l].raw /\ t.active[l].kind = s.active[l].kind
         /\ \A p \in Ports : t.active[l].ports[p] \in {0, want[p]}
<1> DEFINE now == [p \in Ports |-> Reconcile(s.active[l].ports, want, p, s.holder[p] = "free")]
           a == [s.active[l] EXCEPT !.ports = now]
<1>1. s.active \in [Links -> LinkState] /\ s.active[l] \in LinkState
  BY DEF Good, States
<1>2. a.ports = now /\ a.kind = s.active[l].kind /\ a.raw = s.active[l].raw
  BY <1>1 DEF LinkState
<1>3. \A p \in Ports : now[p] \in {0, want[p]}
  BY DEF Reconcile
<1>4. UpdatePorts(s, l, want).active = [s.active EXCEPT ![l] = a]
  BY <1>1 DEF UpdatePorts
<1> HIDE DEF a, now
<1> QED
  BY <1>1, <1>2, <1>3, <1>4

(* start_link starts a link with the configuration it is given, or not.    *)
LEMMA StartMaps ==
  ASSUME NEW s, Good(s), NEW l \in Links, s.active[l] = NoLink,
         NEW c \in LinkConfig, NEW sig \in {<<>>, Signature(c)}
  PROVE  LET t == Start(s, l, c, sig) IN
         /\ \A k \in Links \ {l} : t.active[k] = s.active[k]
         /\ t.active[l] = NoLink \/ (t.active[l].raw = c /\ Mapped(t.active[l]))
<1> DEFINE r == Record(c, sig)
           a == [r EXCEPT !.listens = TRUE, !.accepts = TRUE]
<1>1. /\ r \in LinkState /\ Known(r) /\ r.kind = c.kind /\ r.raw = c
      /\ ~r.listens /\ \A p \in Ports : r.ports[p] = 0 /\ ~OwnsIn(r, p)
  BY RecordFields
<1>2. c.kind \in {"server", "client", "engine"} /\ c.ports \in Mapping
  BY ConfigFields
<1>3. s.active \in [Links -> LinkState]
  BY DEF Good, States
<1> HIDE DEF r
<1>4. a \in LinkState /\ a.kind = c.kind /\ a.raw = c /\ a.ports = r.ports /\ a.listens /\ a.sig = r.sig
  BY <1>1 DEF LinkState
<1> HIDE DEF a
<1>5. /\ Put(s, l, r).active[l] = r /\ Good(Put(s, l, r))
      /\ \A k \in Links \ {l} : Put(s, l, r).active[k] = s.active[k]
  BY <1>1, <1>3, PutOK DEF Put
<1>6. Listen(s, l, c, r).active = [s.active EXCEPT ![l] = a]
  BY DEF Listen, Put, a
<1>7. /\ Listen(s, l, c, r).active[l] = a
      /\ \A k \in Links \ {l} : Listen(s, l, c, r).active[k] = s.active[k]
  BY <1>3, <1>6
<1>8. Mapped(r) /\ Mapped(a)
  BY <1>1, <1>4 DEF Mapped
<1>9. CASE c.kind = "server"
  <2>1. CASE s.holder[c.bridge] = "free"
    <3>1. a.raw.bridge = c.bridge /\ Known(a)
      BY <1>1, <1>4, <1>9, ConfigFields DEF Known
    <3>2. Good(Opened(s, l, a)) /\ Listen(s, l, c, r) = Opened(s, l, a)
      <4>1. a.kind /= "engine" /\ s.holder[a.raw.bridge] = "free" /\ \A p \in Ports : a.ports[p] = 0
        BY <1>1, <1>4, <1>9, <2>1, <3>1
      <4>2. Good(Opened(s, l, a))
        BY <1>4, <3>1, <4>1, ListenOK
      <4>3. Listen(s, l, c, r) = [Put(s, l, a) EXCEPT !.holder[c.bridge] = l]
        BY DEF Listen, a
      <4> QED
        BY <3>1, <4>2, <4>3 DEF Opened
    <3> DEFINE u == Listen(s, l, c, r)
               t == UpdatePorts(u, l, c.ports)
    <3>3. Good(u) /\ u.active[l] = a /\ \A k \in Links \ {l} : u.active[k] = s.active[k]
      BY <1>7, <3>2
    <3> HIDE DEF u
    <3>4. /\ \A k \in Links \ {l} : t.active[k] = s.active[k]
          /\ t.active[l].raw = c /\ t.active[l].kind = c.kind
          /\ \A p \in Ports : t.active[l].ports[p] \in {0, c.ports[p]}
      BY <1>2, <1>4, <3>3, UpdateMaps
    <3>5. Mapped(t.active[l])
      BY <1>9, <3>4 DEF Mapped
    <3>6. Start(s, l, c, sig) = t
      BY <1>9, <2>1 DEF Start, StartServer, u, r
    <3> QED
      BY <3>4, <3>5, <3>6
  <2>2. CASE s.holder[c.bridge] /= "free"
    BY <1>9, <2>2 DEF Start, StartServer
  <2> QED
    BY <2>1, <2>2
<1>10. CASE c.kind = "client"
  <2>1. Start(s, l, c, sig) \in {Put(s, l, r), Listen(s, l, c, r)}
    BY <1>10 DEF Start, StartClient, r
  <2> QED
    BY <2>1, <1>1, <1>4, <1>5, <1>7, <1>8
<1>11. CASE c.kind = "engine"
  <2> DEFINE t == UpdatePorts(Put(s, l, r), l, c.ports)
  <2>1. /\ \A k \in Links \ {l} : t.active[k] = s.active[k]
        /\ t.active[l].raw = c /\ t.active[l].kind = c.kind
        /\ \A p \in Ports : t.active[l].ports[p] \in {0, c.ports[p]}
    BY <1>1, <1>2, <1>5, UpdateMaps
  <2>2. Mapped(t.active[l])
    BY <1>11, <2>1 DEF Mapped
  <2>3. Start(s, l, c, sig) = s \/ Start(s, l, c, sig) = t
    BY <1>11 DEF Start, StartEngine, r
  <2> QED
    BY <2>1, <2>2, <2>3
<1> QED
  BY <1>2, <1>9, <1>10, <1>11

LEMMA StopMaps ==
  ASSUME NEW s, Good(s), NEW l \in Links, NEW lingers
  PROVE  \A k \in Links \ {l} : Stop(s, l, lingers).active[k] = s.active[k]
BY DEF Stop, Good, States

(* A step that changes one link. *)
LEMMA OneLink ==
  ASSUME MapInv, NEW l \in Links,
         \A k \in Links \ {l} : active'[k] = active[k],
         active'[l] = NoLink \/ Mapped(active'[l]),
         sync'.config = sync.config,
         sync'.pc = "links" => sync.pc = "links" /\ sync.todo \ {l} \subseteq sync'.todo,
         Exact(l)'
  PROVE  MapInv'
<1>1. \A k \in Links \ {l} : Exact(k)'
  BY DEF MapInv, Exact
<1> QED
  BY <1>1 DEF MapInv

LEMMA LookedFields ==
  ASSUME SyncOK, NEW l \in Links, Looked(l)
  PROVE  sync'.config = sync.config /\ sync'.pc = sync.pc /\ sync'.todo = sync.todo \ {l}
BY DEF SyncOK, Looked

LEMMA StartsMap ==
  ASSUME SInv, MapInv, NEW l \in Links, StartLink(l) \/ RestartLink(l) PROVE MapInv'
<1> DEFINE c == sync.config[l]
<1>1. c \in LinkConfig /\ Good(Now) /\ Looked(l) /\ SyncOK
  BY DueFields DEF SInv, StartLink, RestartLink
<1>2. PICK s : /\ Good(s) /\ s.active[l] = NoLink
               /\ \A k \in Links \ {l} : s.active[k] = active[k]
               /\ Become(Start(s, l, c, Signature(c)))
  <2>1. CASE StartLink(l)
    BY <1>1, <2>1, NowFields DEF StartLink
  <2>2. CASE RestartLink(l)
    <3>1. PICK lingers \in BOOLEAN : Become(Start(Stop(Now, l, lingers), l, c, Signature(c)))
      BY <2>2 DEF RestartLink
    <3> QED
      BY <1>1, <3>1, StopOK, StopMaps, NowFields
  <2> QED
    BY <2>1, <2>2
<1>3. /\ \A k \in Links \ {l} : active'[k] = active[k]
      /\ active'[l] = NoLink \/ (active'[l].raw = c /\ Mapped(active'[l]))
  BY <1>1, <1>2, StartMaps DEF Become
<1>4. sync'.config = sync.config /\ sync'.pc = sync.pc /\ sync'.todo = sync.todo \ {l}
  BY <1>1, LookedFields
<1>5. Exact(l)'
  BY <1>3, <1>4 DEF Exact
<1>6. sync'.pc = "links" => sync.pc = "links" /\ sync.todo \ {l} \subseteq sync'.todo
  BY <1>4
<1> HIDE DEF c
<1> QED
  BY <1>3, <1>4, <1>5, <1>6, OneLink

LEMMA KeepMaps ==
  ASSUME SInv, MapInv, NEW l \in Links, KeepLink(l) PROVE MapInv'
<1> DEFINE c == sync.config[l]
           a == [active[l] EXCEPT !.raw = c]
           kept == [Now EXCEPT !.active[l].raw = c]
<1>1. /\ c \in LinkConfig /\ Good(Now) /\ Looked(l) /\ SyncOK
      /\ active \in [Links -> LinkState] /\ active[l] \in LinkState
      /\ Known(active[l]) /\ Mapped(active[l]) /\ active[l].sig = Signature(c)
  BY DueFields, NowFields DEF SInv, KeepLink, Good, States, MapInv
<1>2. /\ active[l].raw \in LinkConfig /\ active[l].kind = c.kind
      /\ c.kind = "engine" => active[l].raw.ports = c.ports
  <2>1. active[l].raw \in LinkConfig /\ Signature(active[l].raw) = Signature(c)
        /\ active[l].kind = active[l].raw.kind
    BY <1>1, SignatureFields DEF Known
  <2>2. active[l].raw.kind = c.kind
    BY <1>1, <2>1, SignatureFields
  <2>3. c.kind = "engine" => active[l].raw.ports = c.ports
    BY <2>1, <2>2 DEF Signature
  <2> QED
    BY <2>1, <2>2, <2>3
<1>3. a.raw = c /\ a.kind = c.kind /\ a.ports = active[l].ports
  BY <1>1, <1>2 DEF LinkState
<1>4. c.kind \in {"server", "client", "engine"} /\ c.ports \in Mapping
  BY <1>1, ConfigFields
<1>5. kept.active = [active EXCEPT ![l] = a]
  BY DEF Now
<1>6. kept.active[l] = a /\ \A k \in Links \ {l} : kept.active[k] = active[k]
  BY <1>1, <1>5
<1> HIDE DEF a
<1>7. /\ \A k \in Links \ {l} : active'[k] = active[k]
      /\ active'[l].raw = c /\ Mapped(active'[l])
  <2>1. CASE c.kind /= "server"
    <3>1. active' = kept.active
      BY <2>1 DEF KeepLink, Become
    <3>2. Mapped(a)
      BY <1>1, <1>2, <1>3, <1>4, <2>1 DEF Mapped
    <3> QED
      BY <1>3, <1>6, <3>1, <3>2
  <2>2. CASE c.kind = "server"
    <3>1. active' = UpdatePorts(kept, l, c.ports).active
      BY <2>2 DEF KeepLink, Become
    <3> DEFINE now == [p \in Ports |-> Reconcile(a.ports, c.ports, p, holder[p] = "free")]
               b == [a EXCEPT !.ports = now]
    <3>2. kept.holder = holder
      BY DEF Now
    <3>3. active' = [kept.active EXCEPT ![l] = b]
      BY <1>1, <1>5, <1>6, <3>1, <3>2 DEF UpdatePorts
    <3>4. a \in LinkState
      BY <1>1, <1>2 DEF a, LinkState
    <3>5. b.raw = c /\ b.kind = c.kind /\ b.ports = now
      BY <1>3, <3>4 DEF LinkState
    <3>6. \A p \in Ports : now[p] \in {0, c.ports[p]}
      BY DEF Reconcile
    <3>7. active'[l] = b /\ \A k \in Links \ {l} : active'[k] = active[k]
      BY <1>1, <1>5, <1>6, <3>3
    <3> HIDE DEF b, now
    <3> QED
      BY <2>2, <3>5, <3>6, <3>7 DEF Mapped
  <2> QED
    BY <2>1, <2>2
<1>8. sync'.config = sync.config /\ sync'.pc = sync.pc /\ sync'.todo = sync.todo \ {l}
  BY <1>1, LookedFields
<1>9. Exact(l)'
  BY <1>7, <1>8 DEF Exact
<1>10. sync'.pc = "links" => sync.pc = "links" /\ sync.todo \ {l} \subseteq sync'.todo
  BY <1>8
<1> HIDE DEF c, kept
<1> QED
  BY <1>7, <1>8, <1>9, <1>10, OneLink

(* The watchdog works between rounds, with the configuration a link has;   *)
(* what dies keeps what it had; and a start that raises ends the round.    *)
LEMMA OthersMap ==
  ASSUME SInv, MapInv, NEW l \in Links,
         RemoveLink(l) \/ StartRaises(l) \/ WatchdogRestarts(l) \/ Die(l)
  PROVE  MapInv'
<1>0. /\ Good(Now) /\ SyncOK /\ active \in [Links -> LinkState]
      /\ active[l] = NoLink \/ (Known(active[l]) /\ Mapped(active[l]))
  BY NowFields DEF SInv, Good, States, MapInv
<1>1. CASE RemoveLink(l)
  <2>1. PICK lingers \in BOOLEAN : Become(Stop(Now, l, lingers))
    BY <1>1 DEF RemoveLink
  <2>2. active'[l] = NoLink /\ \A k \in Links \ {l} : active'[k] = active[k]
    BY <1>0, <2>1, StopOK, StopMaps, NowFields DEF Become
  <2>3. sync' = sync
    BY <1>1 DEF RemoveLink
  <2> QED
    BY <2>2, <2>3, OneLink DEF Exact
<1>2. CASE StartRaises(l)
  <2> DEFINE c == sync.config[l]
             r == Record(c, <<>>)
             a == [r EXCEPT !.listens = TRUE]
  <2>1. c \in LinkConfig
    BY <1>0, <1>2, DueFields DEF StartRaises
  <2>2. r \in LinkState /\ \A p \in Ports : r.ports[p] = 0
    BY <2>1, RecordFields
  <2> HIDE DEF r
  <2>3. a.ports = r.ports
    BY <2>2 DEF LinkState
  <2>4. active' = [active EXCEPT ![l] = a]
    BY <1>2 DEF StartRaises, Become, Put, Now, r
  <2> HIDE DEF a
  <2>5. Mapped(active'[l]) /\ \A k \in Links \ {l} : active'[k] = active[k]
    BY <1>0, <2>2, <2>3, <2>4 DEF Mapped
  <2>6. sync'.pc = "asleep" /\ sync'.config = sync.config
    BY <1>0, <1>2 DEF StartRaises, SyncOK
  <2> QED
    BY <2>5, <2>6, OneLink DEF Exact
<1>3. CASE WatchdogRestarts(l)
  <2> DEFINE c == active[l].raw
             sig == IF c.kind = "client" THEN Signature(c) ELSE <<>>
  <2>1. PICK lingers \in BOOLEAN : Become(Start(Stop(Now, l, lingers), l, c, sig))
    BY <1>3 DEF WatchdogRestarts
  <2>2. c \in LinkConfig /\ sig \in {<<>>, Signature(c)}
    BY <1>0, <1>3 DEF WatchdogRestarts, Unhealthy, Known
  <2> HIDE DEF c, sig
  <2>3. /\ Good(Stop(Now, l, lingers)) /\ Stop(Now, l, lingers).active[l] = NoLink
        /\ \A k \in Links \ {l} : Stop(Now, l, lingers).active[k] = active[k]
    BY <1>0, StopOK, StopMaps, NowFields
  <2>4. /\ \A k \in Links \ {l} : active'[k] = active[k]
        /\ active'[l] = NoLink \/ Mapped(active'[l])
    BY <2>1, <2>2, <2>3, StartMaps DEF Become
  <2>5. sync' = sync /\ sync.pc /= "links"
    BY <1>3 DEF WatchdogRestarts
  <2> QED
    BY <2>4, <2>5, OneLink DEF Exact
<1>4. CASE Die(l)
  <2> DEFINE a == [active[l] EXCEPT !.alive = FALSE]
  <2>1. active' = [active EXCEPT ![l] = a] /\ sync' = sync /\ active[l].alive
    BY <1>4 DEF Die
  <2>2. active[l] /= NoLink /\ active[l] \in LinkState
    BY <1>0, <2>1 DEF NoLink
  <2>3. a.raw = active[l].raw /\ a.kind = active[l].kind /\ a.ports = active[l].ports
    BY <2>2 DEF LinkState
  <2> HIDE DEF a
  <2>4. active'[l] = a /\ \A k \in Links \ {l} : active'[k] = active[k]
    BY <1>0, <2>1
  <2>5. Mapped(a)
    BY <1>0, <2>2, <2>3 DEF Mapped
  <2>6. Exact(l)'
    BY <2>1, <2>2, <2>3, <2>4 DEF MapInv, Exact
  <2> QED
    BY <2>1, <2>4, <2>5, <2>6, OneLink
<1> QED
  BY <1>1, <1>2, <1>3, <1>4

LEMMA MapKept == SInv /\ MapInv /\ [SyncNext]_syncVars => MapInv'
<1> SUFFICES ASSUME SInv, MapInv, [SyncNext]_syncVars PROVE MapInv'
  OBVIOUS
<1>1. CASE active' = active /\ sync' = sync
  BY <1>1 DEF MapInv, Exact
<1>2. CASE Fetch
  BY <1>2 DEF Fetch, MapInv, Exact
<1>3. CASE TakeLock
  <2>1. /\ sync' = [sync EXCEPT !.pc = "links", !.todo = {l \in Links : sync.config[l] /= Absent}]
        /\ active' = active
    BY <1>3 DEF TakeLock
  <2>2. sync'.config = sync.config /\ sync'.todo = {l \in Links : sync.config[l] /= Absent}
    BY <2>1 DEF SInv, SyncOK
  <2> QED
    BY <2>1, <2>2 DEF MapInv, Exact
<1>4. CASE ReleaseLock
  <2>1. sync' = [sync EXCEPT !.pc = "asleep"] /\ active' = active
    BY <1>4 DEF ReleaseLock
  <2>2. sync'.pc = "asleep"
    BY <2>1 DEF SInv, SyncOK
  <2> QED
    BY <2>1, <2>2 DEF MapInv, Exact
<1>5. CASE \E l \in Links : StartLink(l) \/ RestartLink(l) \/ KeepLink(l) \/ RemoveLink(l)
  BY <1>5, StartsMap, KeepMaps, OthersMap
<1>6. CASE \E l \in Links : StartRaises(l) \/ WatchdogRestarts(l) \/ Die(l)
  BY <1>6, OthersMap
<1>7. CASE \/ \E p \in Ports : LingeringEnds(p) \/ OtherListens(p) \/ OtherCloses(p)
           \/ \E c \in Configs : ChangeConfig(c)
           \/ UNCHANGED syncVars
  <2>1. active' = active /\ sync' = sync
    BY <1>7 DEF LingeringEnds, OtherListens, OtherCloses, ChangeConfig, syncVars
  <2> QED
    BY <1>1, <2>1
<1> QED
  BY <1>2, <1>3, <1>4, <1>5, <1>6, <1>7 DEF SyncNext, SyncSteps

(* A round of config_sync_loop leaves no link of another version, and no   *)
(* user port with an old target, behind it: hot reloads, restarts and the  *)
(* watchdog's own restarts agree, whatever fails beside them.              *)
THEOREM RoundsAreExact == SyncSpec => []RoundIsExact
<1>1. SyncInit => MapInv
  BY DEF SyncInit, MapInv, Exact
<1>2. SInv /\ MapInv => RoundIsExact
  <2> SUFFICES ASSUME SInv, MapInv, sync.pc = "links", NEW l \in Links \ sync.todo,
                      sync.config[l] /= Absent, active[l] /= NoLink
               PROVE  /\ active[l].raw = sync.config[l]
                      /\ \A p \in Ports : active[l].ports[p] \in {0, sync.config[l].ports[p]}
    BY DEF RoundIsExact
  <2>1. active[l].raw = sync.config[l] /\ Mapped(active[l])
    BY DEF MapInv, Exact
  <2> QED
    BY <2>1 DEF Mapped
<1> QED
  BY InitOK, StepOK, MapKept, <1>1, <1>2, PTL DEF SyncSpec
-----------------------------------------------------------------------------
(* The commands of a node (NodeCommands).                                  *)

ThreadStates == [op : Ops, cmd : Commands \union {None}, fresh : BOOLEAN, copy : Seq(Commands)]
NodeStates   == [pc : {"idle", "next", "run", "apply", "wait"}, batch : Seq(Commands),
                 cmd : Commands \union {None}, tag : Nat, restart : BOOLEAN]
WaiterStates == [cmd : Commands \union {None}, state : {"idle", "waiting", "answered", "gave up"}]

PanelTypeOK ==
  /\ queue \in Seq(Commands) /\ history \in Seq(Commands)
  /\ age \in [Commands -> Nat] /\ used \subseteq Commands
  /\ lock \in Threads \union {None} /\ thread \in [Threads -> ThreadStates]
NodeTypeOK ==
  /\ inbox \subseteq Commands \X Nat /\ answered \in BOOLEAN /\ node \in NodeStates
  /\ node.pc \in {"run", "apply", "wait"} => node.cmd \in Commands
  /\ restart \in BOOLEAN /\ moved \in {"no", "written", "moved"} /\ losses \in Nat
SeenTypeOK ==
  /\ accepted \subseteq Commands /\ reported \subseteq Commands
  /\ expired \subseteq Commands /\ cut \in BOOLEAN /\ waiter \in WaiterStates
QueueTypeOK == PanelTypeOK /\ NodeTypeOK /\ SeenTypeOK

IsUpdate(c) == Kind[c] = "update"

(* Only updates come before an update.                                     *)
Sorted(s) == \A i, j \in 1 .. Len(s) : i < j /\ IsUpdate(s[j]) => IsUpdate(s[i])

(* What a thread between two halves of an operation is about.              *)
HalfDone(t) ==
  /\ thread[t].op \notin {"free", "prune"} => thread[t].cmd \in Commands
  /\ thread[t].op = "append" => ~IsUpdate(thread[t].cmd)
  /\ thread[t].op \in {"build", "promote", "insert", "first"} => IsUpdate(thread[t].cmd)
  /\ Sorted(thread[t].copy)

QueueInv == QueueTypeOK /\ Sorted(queue) /\ \A t \in Threads : HalfDone(t)

(* What a thread knows that holds the list alone, or beside threads that   *)
(* only add to it: nobody has bound another list, or taken a command away, *)
(* since it began.                                                         *)
Alone(t) ==
  /\ thread[t].fresh
  /\ thread[t].op \in {"report", "first"} =>
       \A c \in ToSet(queue) : c \in ToSet(thread[t].copy) \/ c = thread[t].cmd
  /\ thread[t].op = "prune" =>
       \A c \in ToSet(queue) : c \in ToSet(thread[t].copy) \/ age[c] >= 2

Kept == \A c \in accepted : Queued(c) \/ c \in reported \/ c \in expired

(* The history notes an overlap as soon as it begins.                      *)
KeptInv ==
  /\ QueueInv /\ Overlaps \subseteq raced
  /\ "list" \notin raced => /\ Kept
                            /\ \A t \in Threads : HoldsList(t) => Alone(t)

NoUpdate(s)  == \A i \in 1 .. Len(s) : ~IsUpdate(s[i])
OneUpdate(s) == \A i, j \in 1 .. Len(s) : IsUpdate(s[i]) /\ IsUpdate(s[j]) => i = j

(* Threads that do not race queue an update only when there is none, and a *)
(* second half leaves at most the one there was: what a request for an     *)
(* update has read stays so, whatever is appended or taken away meanwhile. *)
OneQueued(t) ==
  /\ thread[t].op \in {"build", "insert"} => NoUpdate(queue)
  /\ thread[t].op = "promote" =>
       \A c \in ToSet(queue) : IsUpdate(c) => c = thread[t].cmd
  /\ OneUpdate(thread[t].copy)
  /\ thread[t].op = "first" => NoUpdate(thread[t].copy)
  /\ thread[t].op \in {"report", "prune"} => ToSet(thread[t].copy) \subseteq ToSet(queue)

(* No update follows the command that runs, and none is left to run once a *)
(* restart has been scheduled.                                             *)
BatchOK ==
  /\ Sorted(node.batch) /\ OneUpdate(node.batch)
  /\ node.pc \in {"run", "apply", "wait"} => NoUpdate(node.batch)
  /\ restart => /\ NoUpdate(node.batch) /\ node.pc # "apply"
                /\ node.pc = "run" => ~IsUpdate(node.cmd)

(* Nothing has raced, and no update is so old that it is taken for stale.  *)
Calm == raced = {} /\ Older(3) = {}

CutCore ==
  /\ OneUpdate(queue) /\ BatchOK /\ ~cut
  /\ \A t \in Threads : (HoldsList(t) => thread[t].fresh) /\ OneQueued(t)

CutInv == QueueInv /\ Overlaps \subseteq raced /\ (Calm => CutCore)

-----------------------------------------------------------------------------
(* Sequences of commands.                                                  *)

LEMMA LeastOf ==
  ASSUME NEW T \in SUBSET Nat, T # {} PROVE \E m \in T : \A n \in T : m <= n
<1>1. IsWellFoundedOn(OpToRel(<, Nat), Nat)
  BY NatLessThanWellFounded
<1>2. PICK m \in T : \A n \in T : <<n, m>> \notin OpToRel(<, Nat)
  BY <1>1, WFMin
<1>3. \A n \in T : ~(n < m)
  BY <1>2 DEF OpToRel
<1> QED BY <1>3

LEMMA MetGrows ==
  ASSUME NEW s \in Seq(Commands), NEW C, NEW i \in 1 .. Len(s)
  PROVE  /\ s[i] \in C => Met(s, C, i) = Met(s, C, i - 1)
         /\ s[i] \notin C => Met(s, C, i) = Met(s, C, i - 1) \union {i}
         /\ i \notin Met(s, C, i - 1)
<1>1. 1 .. i = (1 .. i - 1) \union {i} /\ i \notin 1 .. i - 1
  BY Z3
<1> QED BY <1>1 DEF Met

LEMMA MetCount ==
  ASSUME NEW s \in Seq(Commands), NEW C, NEW i \in 0 .. Len(s)
  PROVE  /\ IsFiniteSet(Met(s, C, i)) /\ Cardinality(Met(s, C, i)) \in 0 .. i
         /\ \A j \in 0 .. i : Cardinality(Met(s, C, j)) <= Cardinality(Met(s, C, i))
<1>1. ASSUME NEW j \in 0 .. Len(s)
      PROVE  IsFiniteSet(Met(s, C, j)) /\ Cardinality(Met(s, C, j)) \in 0 .. j
  <2>1. IsFiniteSet(1 .. j) /\ Cardinality(1 .. j) = j
    BY FS_Interval
  <2>2. Met(s, C, j) \subseteq 1 .. j
    BY DEF Met
  <2>3. /\ IsFiniteSet(Met(s, C, j))
        /\ Cardinality(Met(s, C, j)) <= Cardinality(1 .. j)
    BY <2>1, <2>2, FS_Subset
  <2>4. Cardinality(Met(s, C, j)) \in Nat
    BY <2>3, FS_CardinalityType
  <2> QED BY <2>1, <2>3, <2>4
<1>2. ASSUME NEW j \in 0 .. i PROVE Cardinality(Met(s, C, j)) <= Cardinality(Met(s, C, i))
  <2>1. Met(s, C, j) \subseteq Met(s, C, i)
    <3>1. 1 .. j \subseteq 1 .. i
      OBVIOUS
    <3> QED BY <3>1 DEF Met
  <2> QED BY <1>1, <2>1, FS_Subset
<1> QED BY <1>1, <1>2

LEMMA MetNext ==
  ASSUME NEW s \in Seq(Commands), NEW C, NEW i \in 1 .. Len(s)
  PROVE  Cardinality(Met(s, C, i)) =
           IF s[i] \in C THEN Cardinality(Met(s, C, i - 1))
           ELSE Cardinality(Met(s, C, i - 1)) + 1
<1>1. i - 1 \in 0 .. Len(s)
  OBVIOUS
<1>2. IsFiniteSet(Met(s, C, i - 1))
  BY <1>1, MetCount
<1>3. CASE s[i] \in C
  BY <1>3, MetGrows
<1>4. CASE s[i] \notin C
  <2>1. PICK M : M = Met(s, C, i - 1) /\ IsFiniteSet(M) /\ i \notin M
    BY <1>2, MetGrows
  <2>2. Cardinality(M \union {i}) = Cardinality(M) + 1
    BY <2>1, FS_AddElement
  <2>3. Met(s, C, i) = M \union {i}
    BY <1>4, <2>1, MetGrows
  <2> QED BY <1>4, <2>1, <2>2, <2>3
<1> QED BY <1>3, <1>4

(* Each of the commands kept has a place of its own.                       *)
LEMMA PlaceOf ==
  ASSUME NEW s \in Seq(Commands), NEW C, NEW n \in 1 .. Cardinality(Met(s, C, Len(s)))
  PROVE  \E i \in 1 .. Len(s) : s[i] \notin C /\ Cardinality(Met(s, C, i)) = n
<1>1. PICK L \in Nat : L = Len(s)
  OBVIOUS
<1> DEFINE T == {i \in 0 .. L : n <= Cardinality(Met(s, C, i))}
<1>2. L \in T
  BY <1>1
<1>3. PICK m \in T : \A i \in T : m <= i
  <2>1. T \in SUBSET Nat /\ T # {}
    BY <1>2
  <2> QED BY <2>1, LeastOf
<1>4. m # 0
  <2>1. Cardinality(Met(s, C, 0)) \in 0 .. 0
    BY <1>1, MetCount
  <2> QED BY <2>1
<1>5. m \in 1 .. L /\ m - 1 \in 0 .. L
  BY <1>4
<1>6. m - 1 \notin T
  BY <1>3, <1>5
<1>7. Cardinality(Met(s, C, m - 1)) \in Nat /\ Cardinality(Met(s, C, m)) \in Nat
  BY <1>1, <1>5, MetCount
<1>8. Cardinality(Met(s, C, m - 1)) < n /\ n <= Cardinality(Met(s, C, m))
  BY <1>5, <1>6, <1>7
<1>9. Cardinality(Met(s, C, m)) =
        IF s[m] \in C THEN Cardinality(Met(s, C, m - 1))
        ELSE Cardinality(Met(s, C, m - 1)) + 1
  BY <1>1, <1>5, MetNext
<1>10. s[m] \notin C /\ Cardinality(Met(s, C, m)) = n
  BY <1>7, <1>8, <1>9
<1> QED BY <1>1, <1>5, <1>10

(* What Without keeps, and in which order.                                 *)
LEMMA WithoutPlaces ==
  ASSUME NEW s \in Seq(Commands), NEW C
  PROVE  \E p \in [1 .. Cardinality(Met(s, C, Len(s))) -> 1 .. Len(s)] :
           /\ \A n \in 1 .. Cardinality(Met(s, C, Len(s))) :
                /\ Without(s, C)[n] = s[p[n]] /\ s[p[n]] \notin C
                /\ Cardinality(Met(s, C, p[n])) = n
           /\ \A a, b \in 1 .. Cardinality(Met(s, C, Len(s))) : a < b => p[a] < p[b]
<1>1. PICK L \in Nat : L = Len(s)
  OBVIOUS
<1>2. PICK K \in Nat : K = Cardinality(Met(s, C, L))
  BY <1>1, MetCount
<1> DEFINE p == [n \in 1 .. K |->
                   CHOOSE i \in 1 .. L : s[i] \notin C /\ Cardinality(Met(s, C, i)) = n]
<1>3. ASSUME NEW n \in 1 .. K
      PROVE  p[n] \in 1 .. L /\ s[p[n]] \notin C /\ Cardinality(Met(s, C, p[n])) = n
  BY <1>1, <1>2, PlaceOf
<1>4. ASSUME NEW n \in 1 .. K PROVE Without(s, C)[n] = s[p[n]]
  BY <1>1, <1>2 DEF Without
<1>5. ASSUME NEW a \in 1 .. K, NEW b \in 1 .. K, a < b PROVE p[a] < p[b]
  <2>1. PICK i, j \in 1 .. L : i = p[a] /\ j = p[b]
    BY <1>3
  <2>2. Cardinality(Met(s, C, i)) = a /\ Cardinality(Met(s, C, j)) = b
    BY <1>3, <2>1
  <2>3. j <= i => Cardinality(Met(s, C, j)) <= Cardinality(Met(s, C, i))
    <3>1. i \in 0 .. L /\ (j <= i => j \in 0 .. i)
      OBVIOUS
    <3> QED BY <1>1, <3>1, MetCount
  <2>4. ~(j <= i)
    BY <1>5, <2>2, <2>3
  <2> QED BY <2>1, <2>4
<1>6. p \in [1 .. K -> 1 .. L]
  BY <1>3
<1> HIDE DEF p
<1> QED BY <1>1, <1>2, <1>3, <1>4, <1>5, <1>6

LEMMA WithoutIs ==
  ASSUME NEW s \in Seq(Commands), NEW C
  PROVE  /\ Without(s, C) \in Seq(Commands)
         /\ \A c : c \in ToSet(Without(s, C)) <=> c \in ToSet(s) /\ c \notin C
<1>1. PICK L \in Nat : L = Len(s)
  OBVIOUS
<1>2. PICK K \in Nat : K = Cardinality(Met(s, C, L))
  BY <1>1, MetCount
<1>3. PICK p \in [1 .. K -> 1 .. L] :
        \A n \in 1 .. K : /\ Without(s, C)[n] = s[p[n]] /\ s[p[n]] \notin C
                          /\ Cardinality(Met(s, C, p[n])) = n
  BY <1>1, <1>2, WithoutPlaces
<1>4. \A n \in 1 .. K : p[n] \in 1 .. L /\ s[p[n]] \in Commands
  BY <1>1, <1>3
<1>5. Without(s, C) \in [1 .. K -> Commands]
  <2>1. Without(s, C) = [n \in 1 .. K |-> Without(s, C)[n]]
    BY <1>1, <1>2 DEF Without
  <2> QED BY <1>3, <1>4, <2>1
<1>6. Without(s, C) \in Seq(Commands) /\ DOMAIN Without(s, C) = 1 .. K
  BY <1>5, IsASeq
<1>7. ASSUME NEW c, c \in ToSet(Without(s, C)) PROVE c \in ToSet(s) /\ c \notin C
  <2>1. PICK n \in 1 .. K : c = Without(s, C)[n]
    BY <1>6, <1>7 DEF ToSet
  <2>2. c = s[p[n]] /\ c \notin C /\ p[n] \in 1 .. L
    BY <1>3, <1>4, <2>1
  <2>3. DOMAIN s = 1 .. L
    BY <1>1
  <2> QED BY <2>2, <2>3 DEF ToSet
<1>8. ASSUME NEW c, c \in ToSet(s), c \notin C PROVE c \in ToSet(Without(s, C))
  <2>1. PICK i \in 1 .. L : c = s[i]
    BY <1>1, <1>8 DEF ToSet
  <2>2. PICK n \in Nat : n = Cardinality(Met(s, C, i))
    <3>1. i \in 0 .. L
      OBVIOUS
    <3> QED BY <1>1, <3>1, MetCount
  <2>3. PICK k \in Nat : k = Cardinality(Met(s, C, i - 1)) /\ n = k + 1
    <3>1. i - 1 \in 0 .. L
      OBVIOUS
    <3>2. Cardinality(Met(s, C, i - 1)) \in Nat
      BY <1>1, <3>1, MetCount
    <3>3. n = Cardinality(Met(s, C, i - 1)) + 1
      BY <1>1, <1>8, <2>1, <2>2, MetNext
    <3> QED BY <3>2, <3>3
  <2>4. n \in 1 .. K
    <3>1. i \in 0 .. L /\ L \in 0 .. L
      OBVIOUS
    <3>2. n <= K
      BY <1>1, <1>2, <2>2, <3>1, MetCount
    <3> QED BY <2>3, <3>2
  <2>5. PICK j \in 1 .. L : j = p[n] /\ Cardinality(Met(s, C, j)) = n /\ s[j] \notin C
    BY <1>3, <1>4, <2>4
  <2>6. ~(j < i)
    <3>1. i - 1 \in 0 .. L /\ (j < i => j \in 0 .. i - 1)
      OBVIOUS
    <3>2. \A x \in 0 .. i - 1 : Cardinality(Met(s, C, x)) <= k
      BY <1>1, <2>3, <3>1, MetCount
    <3>3. j < i => n <= k
      BY <2>5, <3>1, <3>2
    <3> QED BY <2>3, <3>3
  <2>7. ~(i < j)
    <3>1. j - 1 \in 0 .. L /\ (i < j => i \in 0 .. j - 1)
      OBVIOUS
    <3>2. i < j => n <= Cardinality(Met(s, C, j - 1))
      BY <1>1, <2>2, <3>1, MetCount
    <3>3. n = Cardinality(Met(s, C, j - 1)) + 1 /\ Cardinality(Met(s, C, j - 1)) \in Nat
      BY <1>1, <2>5, <3>1, MetNext, MetCount
    <3> QED BY <3>2, <3>3
  <2>8. Without(s, C)[n] = c
    BY <1>3, <2>1, <2>4, <2>5, <2>6, <2>7
  <2> QED BY <1>6, <2>4, <2>8 DEF ToSet
<1> QED BY <1>6, <1>7, <1>8

(* Taking commands away keeps the updates in front, and adds none.         *)
LEMMA WithoutSorted ==
  ASSUME NEW s \in Seq(Commands), NEW C
  PROVE  /\ Sorted(s) => Sorted(Without(s, C))
         /\ OneUpdate(s) => OneUpdate(Without(s, C))
<1>1. PICK L \in Nat : L = Len(s)
  OBVIOUS
<1>2. PICK K \in Nat : K = Cardinality(Met(s, C, L))
  BY <1>1, MetCount
<1>3. PICK p \in [1 .. K -> 1 .. L] :
        /\ \A n \in 1 .. K : Without(s, C)[n] = s[p[n]]
        /\ \A a, b \in 1 .. K : a < b => p[a] < p[b]
  BY <1>1, <1>2, WithoutPlaces
<1>4. Len(Without(s, C)) = K
  BY <1>1, <1>2 DEF Without
<1>5. \A n \in 1 .. K : p[n] \in 1 .. L
  OBVIOUS
<1>6. ASSUME Sorted(s) PROVE Sorted(Without(s, C))
  <2>1. ASSUME NEW a \in 1 .. K, NEW b \in 1 .. K, a < b, IsUpdate(Without(s, C)[b])
        PROVE  IsUpdate(Without(s, C)[a])
    <3>1. p[a] < p[b] /\ p[a] \in 1 .. L /\ p[b] \in 1 .. L
      BY <1>3, <1>5, <2>1
    <3>2. IsUpdate(s[p[b]])
      BY <1>3, <2>1
    <3>3. IsUpdate(s[p[a]])
      BY <1>1, <1>6, <3>1, <3>2 DEF Sorted
    <3> QED BY <1>3, <3>3
  <2> QED BY <1>4, <2>1 DEF Sorted
<1>7. ASSUME OneUpdate(s) PROVE OneUpdate(Without(s, C))
  <2>1. ASSUME NEW a \in 1 .. K, NEW b \in 1 .. K,
               IsUpdate(Without(s, C)[a]), IsUpdate(Without(s, C)[b])
        PROVE  a = b
    <3>1. IsUpdate(s[p[a]]) /\ IsUpdate(s[p[b]]) /\ p[a] \in 1 .. L /\ p[b] \in 1 .. L
      BY <1>3, <1>5, <2>1
    <3>2. p[a] = p[b]
      BY <1>1, <1>7, <3>1 DEF OneUpdate
    <3>3. (a < b => p[a] < p[b]) /\ (b < a => p[b] < p[a])
      BY <1>3
    <3>4. ~(p[a] < p[b]) /\ ~(p[b] < p[a])
      BY <3>1, <3>2
    <3> QED BY <3>3, <3>4
  <2> QED BY <1>4, <2>1 DEF OneUpdate
<1> QED BY <1>6, <1>7

-----------------------------------------------------------------------------
LEMMA FreeFields ==
  /\ Free.op = "free" /\ Free.cmd = None /\ Free.fresh = TRUE /\ Free.copy = <<>>
  /\ Free \in ThreadStates
BY DEF Free, Ops, ThreadStates

LEMMA BeginsIs ==
  ASSUME PanelTypeOK, NEW t \in Threads, NEW op \in Ops, NEW c \in Commands \union {None},
         NEW copy \in Seq(Commands), Begins(t, op, c, copy)
  PROVE  /\ thread' \in [Threads -> ThreadStates]
         /\ thread'[t].op = op /\ thread'[t].cmd = c /\ thread'[t].copy = copy
         /\ thread'[t].fresh = TRUE
         /\ \A u \in Threads : u # t => thread'[u] = thread[u]
BY DEF Begins, PanelTypeOK, ThreadStates

(* The second halves: t is done, and the others are where they were, with  *)
(* the list that is bound or with another.                                 *)
Over(t) ==
  /\ thread' \in [Threads -> ThreadStates]
  /\ thread'[t] = Free
  /\ \A u \in Threads : \/ thread'[u] = Free
                        \/ /\ thread'[u].op = thread[u].op /\ thread'[u].cmd = thread[u].cmd
                           /\ thread'[u].copy = thread[u].copy

LEMMA BindOver ==
  ASSUME PanelTypeOK, NEW t \in Threads, NEW list, Bind(t, list)
  PROVE  queue' = list /\ Over(t)
<1>1. ASSUME NEW u \in Threads, u # t, thread[u] # Free
      PROVE  /\ thread'[u] \in ThreadStates
             /\ thread'[u].op = thread[u].op /\ thread'[u].cmd = thread[u].cmd
             /\ thread'[u].copy = thread[u].copy
  <2>1. thread'[u] = [thread[u] EXCEPT !.fresh = FALSE]
    BY <1>1 DEF Bind
  <2>2. thread[u] \in ThreadStates
    BY DEF PanelTypeOK
  <2> QED BY <2>1, <2>2 DEF ThreadStates
<1>2. \A u \in Threads : u = t \/ thread[u] = Free => thread'[u] = Free
  BY DEF Bind
<1>3. thread' \in [Threads -> ThreadStates]
  <2>1. thread' = [u \in Threads |-> thread'[u]]
    BY DEF Bind
  <2>2. \A u \in Threads : thread'[u] \in ThreadStates
    BY <1>1, <1>2, FreeFields
  <2> QED BY <2>1, <2>2
<1> QED BY <1>1, <1>2, <1>3 DEF Bind, Over

LEMMA ChangeOver ==
  ASSUME PanelTypeOK, NEW t \in Threads, NEW list, ChangeInPlace(t, list)
  PROVE  queue' \in {queue, list} /\ (thread[t].fresh => queue' = list) /\ Over(t)
<1>1. thread' = [thread EXCEPT ![t] = Free]
  BY DEF ChangeInPlace
<1>2. thread'[t] = Free /\ \A u \in Threads : u # t => thread'[u] = thread[u]
  BY <1>1 DEF PanelTypeOK
<1>3. thread' \in [Threads -> ThreadStates]
  BY <1>1, FreeFields DEF PanelTypeOK
<1> QED BY <1>2, <1>3 DEF ChangeInPlace, Over

LEMMA UnlockTypes ==
  ASSUME PanelTypeOK, NEW t \in Threads, Unlock(t) PROVE lock' \in Threads \union {None}
BY DEF Unlock, PanelTypeOK

(* queue_node_update finds an update that is in the list.                  *)
LEMMA FirstPending ==
  ASSUME NEW s \in Seq(Commands), NEW P \in SUBSET ToSet(s), P # {},
         NEW c, c = s[CHOOSE i \in 1 .. Len(s) : s[i] \in P /\ \A j \in 1 .. i - 1 : s[j] \notin P]
  PROVE  c \in P
<1>1. PICK L \in Nat : L = Len(s)
  OBVIOUS
<1> DEFINE T == {i \in 1 .. L : s[i] \in P}
<1>2. T \in SUBSET Nat /\ T # {}
  <2>1. PICK x \in P : x \in ToSet(s)
    OBVIOUS
  <2>2. PICK i \in 1 .. L : x = s[i]
    BY <1>1, <2>1 DEF ToSet
  <2>3. i \in T
    BY <2>1, <2>2
  <2> QED BY <2>3
<1>3. PICK m \in T : \A i \in T : m <= i
  BY <1>2, LeastOf
<1>4. m \in 1 .. L /\ s[m] \in P /\ \A j \in 1 .. m - 1 : s[j] \notin P
  <2>1. ASSUME NEW j \in 1 .. m - 1, s[j] \in P PROVE FALSE
    <3>1. j \in T /\ ~(m <= j)
      BY <1>3, <2>1
    <3> QED BY <1>3, <3>1
  <2> QED BY <2>1
<1>5. \E i \in 1 .. L : s[i] \in P /\ \A j \in 1 .. i - 1 : s[j] \notin P
  BY <1>4
<1> QED BY <1>1, <1>5

(* The batch of an answer is the beginning of the list.                    *)
LEMMA BatchIs ==
  ASSUME NEW s \in Seq(Commands), NEW n \in 0 .. Len(s)
  PROVE  /\ SubSeq(s, 1, n) \in Seq(Commands) /\ Len(SubSeq(s, 1, n)) = n
         /\ \A i \in 1 .. n : SubSeq(s, 1, n)[i] = s[i]
OBVIOUS

LEMMA HeadAndTailOf ==
  ASSUME NEW s \in Seq(Commands), s # <<>>
  PROVE  /\ Len(s) \in Nat \ {0} /\ Head(s) = s[1] /\ Head(s) \in Commands
         /\ Tail(s) \in Seq(Commands) /\ Len(Tail(s)) = Len(s) - 1
         /\ \A i \in 1 .. Len(s) - 1 : Tail(s)[i] = s[i + 1]
OBVIOUS

LEMMA EvictTypes == ASSUME NEW h \in Seq(Commands) PROVE Evict(h) \in Seq(Commands)
<1>1. PICK L \in Nat : L = Len(h)
  OBVIOUS
<1>2. CASE ~(L <= HistoryHigh)
  <2>1. L - HistoryKeep + 1 \in 1 .. L
    BY <1>2, HistoryAssumption
  <2> QED BY <1>1, <1>2, <2>1, HistoryAssumption DEF Evict
<1> QED BY <1>1, <1>2 DEF Evict

LEMMA PutFirst ==
  ASSUME NEW s \in Seq(Commands), NEW c \in Commands
  PROVE  /\ <<c>> \o s \in Seq(Commands) /\ Len(<<c>> \o s) = Len(s) + 1
         /\ (<<c>> \o s)[1] = c /\ \A i \in 1 .. Len(s) : (<<c>> \o s)[i + 1] = s[i]
OBVIOUS

LEMMA FindsUpdate ==
  ASSUME PanelTypeOK, NEW t \in Threads, NEW c \in Commands, FindUpdate(t, c)
  PROVE  \/ /\ Begins(t, "build", c, <<>>) /\ Kind[c] = "update"
            /\ OfKind("update") \subseteq Older(3)
         \/ \E d \in OfKind("update") : d \in Commands /\ Begins(t, "promote", d, <<>>)
<1> DEFINE P == OfKind("update") \ Older(3)
<1>1. CASE P = {}
  BY <1>1 DEF FindUpdate
<1>2. CASE P # {}
  <2>1. PICK d : d = queue[CHOOSE i \in 1 .. Len(queue) :
                         queue[i] \in P /\ \A j \in 1 .. i - 1 : queue[j] \notin P]
    OBVIOUS
  <2>2. Begins(t, "promote", d, <<>>)
    BY <1>2, <2>1 DEF FindUpdate
  <2>3. P \in SUBSET ToSet(queue) /\ queue \in Seq(Commands)
    BY DEF OfKind, PanelTypeOK
  <2>4. d \in P
    BY <1>2, <2>1, <2>3, FirstPending
  <2>5. d \in Commands
    BY <2>3, <2>4 DEF ToSet
  <2> QED BY <2>2, <2>4, <2>5
<1> QED BY <1>1, <1>2

LEMMA QueueInitTypes == QueueInit => QueueTypeOK
<1> SUFFICES ASSUME QueueInit PROVE QueueTypeOK
  OBVIOUS
<1>1. PanelTypeOK
  BY FreeFields DEF QueueInit, PanelTypeOK
<1>2. NodeTypeOK
  <2>1. Idle \in NodeStates /\ Idle.pc = "idle"
    BY DEF Idle, NodeStates
  <2>2. node = Idle /\ inbox = {} /\ answered = FALSE /\ restart = FALSE /\ moved = "no" /\ losses = 0
    BY DEF QueueInit
  <2> HIDE DEF Idle
  <2> QED BY <2>1, <2>2 DEF NodeTypeOK
<1>3. SeenTypeOK
  BY DEF QueueInit, SeenTypeOK, WaiterStates
<1> QED BY <1>1, <1>2, <1>3 DEF QueueTypeOK

LEMMA TypesKept ==
  /\ PanelTypeOK /\ UNCHANGED panelVars => PanelTypeOK'
  /\ NodeTypeOK /\ UNCHANGED nodeVars => NodeTypeOK'
  /\ SeenTypeOK /\ UNCHANGED <<seenVars, waiter>> => SeenTypeOK'
BY DEF PanelTypeOK, NodeTypeOK, SeenTypeOK, panelVars, nodeVars, seenVars

LEMMA StartTypes ==
  ASSUME QueueTypeOK, NEW t \in Threads, PanelStarts(t) PROVE QueueTypeOK'
<1>0. PanelTypeOK /\ NodeTypeOK /\ SeenTypeOK
  BY DEF QueueTypeOK
<1>1. ASSUME NEW c \in Commands, TakeList(t, c) \/ TakeListLocked(t, c) \/ Optimize(t, c)
      PROVE  QueueTypeOK'
  <2>1. Begins(t, "append", c, <<>>) /\ "append" \in Ops /\ <<>> \in Seq(Commands)
    BY <1>1 DEF TakeList, TakeListLocked, Optimize, Ops
  <2>2. thread' \in [Threads -> ThreadStates]
    BY <1>0, <2>1, BeginsIs
  <2>3. /\ UNCHANGED <<queue, history, age, nodeVars, seenVars, waiter>>
        /\ used' = used \union {c} /\ lock' \in {lock, t}
    BY <1>1 DEF TakeList, TakeListLocked, Optimize
  <2>4. PanelTypeOK'
    BY <1>0, <2>2, <2>3 DEF PanelTypeOK
  <2> QED BY <1>0, <2>3, <2>4, TypesKept DEF QueueTypeOK
<1>2. ASSUME NEW c \in Commands, FindUpdate(t, c) PROVE QueueTypeOK'
  <2>1. \E op \in {"build", "promote"}, d \in Commands : Begins(t, op, d, <<>>)
    <3>1. CASE Begins(t, "build", c, <<>>)
      BY <3>1
    <3>2. CASE \E d \in OfKind("update") : d \in Commands /\ Begins(t, "promote", d, <<>>)
      BY <3>2
    <3> QED BY <1>0, <1>2, <3>1, <3>2, FindsUpdate
  <2>2. thread' \in [Threads -> ThreadStates]
    <3>1. PICK op \in {"build", "promote"}, d \in Commands : Begins(t, op, d, <<>>)
      BY <2>1
    <3>2. op \in Ops /\ d \in Commands \union {None} /\ <<>> \in Seq(Commands)
      BY DEF Ops
    <3> QED BY <1>0, <3>1, <3>2, BeginsIs
  <2>3. /\ UNCHANGED <<queue, history, age, lock, nodeVars, seenVars, waiter>>
        /\ used' = used \union {c} \/ used' = used
    BY <1>2 DEF FindUpdate
  <2>4. PanelTypeOK'
    BY <1>0, <2>2, <2>3 DEF PanelTypeOK
  <2> QED BY <1>0, <2>3, <2>4, TypesKept DEF QueueTypeOK
<1>3. ASSUME NEW m \in inbox, ReceiveResult(t, m) PROVE QueueTypeOK'
  <2>1. m[1] \in Commands /\ queue \in Seq(Commands) /\ history \in Seq(Commands)
    BY <1>0 DEF PanelTypeOK, NodeTypeOK
  <2>2. Without(queue, Reporting(m[1])) \in Seq(Commands)
    BY <2>1, WithoutIs
  <2>3. Begins(t, "report", m[1], Without(queue, Reporting(m[1]))) /\ "report" \in Ops
    BY <1>3 DEF ReceiveResult, Ops
  <2>4. thread' \in [Threads -> ThreadStates]
    BY <1>0, <2>1, <2>2, <2>3, BeginsIs
  <2>5. history' \in Seq(Commands)
    <3>1. Without(history, {m[1]}) \in Seq(Commands)
      BY <2>1, WithoutIs
    <3>2. Append(Without(history, {m[1]}), m[1]) \in Seq(Commands)
      BY <2>1, <3>1
    <3> QED BY <1>3, <3>2, EvictTypes DEF ReceiveResult
  <2>6. inbox' \subseteq inbox /\ answered' \in BOOLEAN /\ UNCHANGED <<node, restart, moved, losses>>
    BY <1>3 DEF ReceiveResult
  <2>7. UNCHANGED <<queue, age, used, lock, seenVars, waiter>>
    BY <1>3 DEF ReceiveResult
  <2>8. PanelTypeOK'
    BY <1>0, <2>4, <2>5, <2>7 DEF PanelTypeOK
  <2>9. NodeTypeOK'
    BY <1>0, <2>6 DEF NodeTypeOK
  <2> QED BY <1>0, <2>7, <2>8, <2>9, TypesKept DEF QueueTypeOK
<1>4. ASSUME NEW limit \in 2 .. 3, Prune(t, limit) PROVE QueueTypeOK'
  <2>1. Without(queue, Older(limit)) \in Seq(Commands)
    BY <1>0, WithoutIs DEF PanelTypeOK
  <2>2. Begins(t, "prune", None, Without(queue, Older(limit))) /\ "prune" \in Ops
    BY <1>4 DEF Prune, Ops
  <2>3. thread' \in [Threads -> ThreadStates]
    BY <1>0, <2>1, <2>2, BeginsIs
  <2>4. UNCHANGED <<queue, history, age, used, lock, nodeVars, seenVars, waiter>>
    BY <1>4 DEF Prune
  <2>5. PanelTypeOK'
    BY <1>0, <2>3, <2>4 DEF PanelTypeOK
  <2> QED BY <1>0, <2>4, <2>5, TypesKept DEF QueueTypeOK
<1> QED BY <1>1, <1>2, <1>3, <1>4 DEF PanelStarts

LEMMA SecondTypes ==
  ASSUME QueueInv, NEW t \in Threads, PanelStep(t) PROVE QueueTypeOK'
<1>0. PanelTypeOK /\ NodeTypeOK /\ SeenTypeOK /\ HalfDone(t)
  BY DEF QueueInv, QueueTypeOK
<1>1. queue \in Seq(Commands) /\ thread[t].copy \in Seq(Commands)
  BY <1>0 DEF PanelTypeOK, ThreadStates
<1>2. CASE AppendCommand(t)
  <2>1. thread[t].cmd \in Commands
    BY <1>0, <1>2 DEF AppendCommand, HalfDone
  <2>2. Append(queue, thread[t].cmd) \in Seq(Commands)
    BY <1>1, <2>1
  <2>3. queue' \in Seq(Commands) /\ Over(t)
    BY <1>0, <1>1, <1>2, <2>2, ChangeOver DEF AppendCommand
  <2>4. lock' \in Threads \union {None}
    BY <1>0, <1>2, UnlockTypes DEF AppendCommand
  <2>5. UNCHANGED <<history, age, used, nodeVars, reported, expired, cut>>
        /\ accepted' = accepted \union {thread[t].cmd}
    BY <1>2 DEF AppendCommand
  <2>6. waiter' \in WaiterStates
    BY <1>0, <1>2, <2>1 DEF AppendCommand, SeenTypeOK, WaiterStates
  <2>7. PanelTypeOK'
    BY <1>0, <2>3, <2>4, <2>5 DEF PanelTypeOK, Over
  <2>8. SeenTypeOK'
    BY <1>0, <2>1, <2>5, <2>6 DEF SeenTypeOK
  <2> QED BY <1>0, <2>5, <2>7, <2>8, TypesKept DEF QueueTypeOK
<1>3. CASE TakeListForUpdate(t)
  <2>1. Without(queue, {thread[t].cmd}) \in Seq(Commands) /\ <<>> \in Seq(Commands)
    BY <1>1, WithoutIs
  <2>2. thread[t].cmd \in Commands
    BY <1>0, <1>3 DEF TakeListForUpdate, HalfDone
  <2>3. \E op \in {"insert", "first"}, s \in Seq(Commands) :
          thread' = [thread EXCEPT ![t] = [op |-> op, cmd |-> thread[t].cmd, fresh |-> TRUE,
                                           copy |-> s]]
    BY <1>3, <2>1 DEF TakeListForUpdate
  <2>4. thread' \in [Threads -> ThreadStates]
    <3>1. PICK op \in {"insert", "first"}, s \in Seq(Commands) :
            thread' = [thread EXCEPT ![t] = [op |-> op, cmd |-> thread[t].cmd, fresh |-> TRUE,
                                             copy |-> s]]
      BY <2>3
    <3>2. [op |-> op, cmd |-> thread[t].cmd, fresh |-> TRUE, copy |-> s] \in ThreadStates
      BY <2>2 DEF ThreadStates, Ops
    <3> QED BY <1>0, <3>1, <3>2 DEF PanelTypeOK
  <2>5. /\ UNCHANGED <<queue, history, age, used, nodeVars, seenVars, waiter>>
        /\ lock' = t
    BY <1>3 DEF TakeListForUpdate
  <2>6. PanelTypeOK'
    BY <1>0, <2>4, <2>5 DEF PanelTypeOK
  <2> QED BY <1>0, <2>5, <2>6, TypesKept DEF QueueTypeOK
<1>4. CASE InsertUpdate(t) \/ PromoteUpdate(t)
  <2>1. thread[t].cmd \in Commands
    BY <1>0, <1>4 DEF InsertUpdate, PromoteUpdate, HalfDone
  <2>2. <<thread[t].cmd>> \o queue \in Seq(Commands) /\ <<thread[t].cmd>> \o thread[t].copy \in Seq(Commands)
    BY <1>1, <2>1, PutFirst
  <2>3. queue' \in Seq(Commands) /\ Over(t)
    BY <1>0, <1>1, <1>4, <2>2, ChangeOver DEF InsertUpdate, PromoteUpdate
  <2>4. lock' \in Threads \union {None}
    BY <1>0, <1>4, UnlockTypes DEF InsertUpdate, PromoteUpdate
  <2>5. /\ UNCHANGED <<history, age, used, nodeVars, reported, expired, cut, waiter>>
        /\ accepted' \in {accepted, accepted \union {thread[t].cmd}}
    BY <1>4 DEF InsertUpdate, PromoteUpdate, seenVars
  <2>6. PanelTypeOK'
    BY <1>0, <2>3, <2>4, <2>5 DEF PanelTypeOK, Over
  <2>7. SeenTypeOK'
    BY <1>0, <2>1, <2>5 DEF SeenTypeOK
  <2> QED BY <1>0, <2>5, <2>6, <2>7, TypesKept DEF QueueTypeOK
<1>5. CASE ReplaceList(t) \/ PruneReplaces(t)
  <2>1. queue' = thread[t].copy /\ Over(t)
    BY <1>0, <1>5, BindOver DEF ReplaceList, PruneReplaces
  <2>2. UNCHANGED <<history, age, used, lock, nodeVars, accepted, cut, waiter>>
    BY <1>5 DEF ReplaceList, PruneReplaces
  <2>3. reported' \subseteq Commands /\ expired' \subseteq Commands
    <3>1. ToSet(queue) \subseteq Commands
      BY <1>1 DEF ToSet
    <3>2. CASE ReplaceList(t)
      <4>1. thread[t].cmd \in Commands
        BY <1>0, <3>2 DEF ReplaceList, HalfDone
      <4> QED BY <1>0, <3>2, <4>1 DEF ReplaceList, SeenTypeOK
    <3>3. CASE PruneReplaces(t)
      BY <1>0, <3>1, <3>3 DEF PruneReplaces, SeenTypeOK
    <3> QED BY <1>5, <3>2, <3>3
  <2>4. PanelTypeOK'
    BY <1>0, <1>1, <2>1, <2>2 DEF PanelTypeOK, Over
  <2>5. SeenTypeOK'
    BY <1>0, <2>2, <2>3 DEF SeenTypeOK
  <2> QED BY <1>0, <2>2, <2>4, <2>5, TypesKept DEF QueueTypeOK
<1> QED BY <1>2, <1>3, <1>4, <1>5 DEF PanelStep

(* The node, the network and the wait for a handoff.                       *)
LEMMA IdleIs == Idle \in NodeStates /\ Idle.pc = "idle" /\ Idle.batch = <<>>
BY DEF Idle, NodeStates

LEMMA SendTypes ==
  ASSUME NodeTypeOK, NEW want \in BOOLEAN, node.cmd \in Commands, Send(node.cmd, want)
  PROVE  /\ inbox' \subseteq Commands \X Nat /\ answered' \in BOOLEAN /\ node' \in NodeStates
         /\ node'.pc = "wait" /\ node'.cmd = node.cmd /\ node'.batch = node.batch
<1>1. node \in NodeStates /\ losses \in Nat /\ inbox \subseteq Commands \X Nat
  BY DEF NodeTypeOK
<1>2. node' = [node EXCEPT !.pc = "wait", !.tag = losses, !.restart = want]
  BY DEF Send
<1>3. /\ node' \in NodeStates /\ node'.pc = "wait" /\ node'.cmd = node.cmd
      /\ node'.batch = node.batch
  BY <1>1, <1>2 DEF NodeStates
<1>4. <<node.cmd, losses>> \in Commands \X Nat
  BY <1>1
<1>5. inbox' = inbox \union {<<node.cmd, losses>>} /\ answered' = FALSE
  BY DEF Send
<1> QED BY <1>1, <1>3, <1>4, <1>5

LEMMA NodeStepTypes ==
  ASSUME QueueTypeOK, NodeStep PROVE QueueTypeOK'
<1>0. PanelTypeOK /\ NodeTypeOK /\ SeenTypeOK
  BY DEF QueueTypeOK
<1>1. node \in NodeStates /\ node.batch \in Seq(Commands) /\ queue \in Seq(Commands)
  BY <1>0 DEF PanelTypeOK, NodeTypeOK, NodeStates
<1>2. UNCHANGED <<panelVars, seenVars, waiter>>
  BY DEF NodeStep, Poll, NextCommand, RunCommand, StartUpdate, EndUpdate, RunHandoff,
         ResultPosted
<1>3. ASSUME Poll PROVE NodeTypeOK'
  <2>1. PICK n \in 0 .. Len(queue) : node' = [Idle EXCEPT !.pc = "next", !.batch = SubSeq(queue, 1, n)]
    <3>1. (IF Len(queue) < Window THEN Len(queue) ELSE Window) \in 0 .. Len(queue)
      BY <1>1, WindowAssumption
    <3> QED BY <1>3, <3>1 DEF Poll
  <2>2. node' \in NodeStates /\ node'.pc = "next"
    BY <1>1, <2>1, IdleIs, BatchIs DEF NodeStates
  <2> QED BY <1>0, <1>3, <2>2 DEF Poll, NodeTypeOK
<1>4. ASSUME NextCommand PROVE NodeTypeOK'
  <2>1. CASE node.batch = <<>>
    BY <1>0, <1>4, <2>1, IdleIs DEF NextCommand, NodeTypeOK
  <2>2. CASE node.batch # <<>>
    <3>1. Head(node.batch) \in Commands /\ Tail(node.batch) \in Seq(Commands)
      BY <1>1, <2>2, HeadAndTailOf
    <3>2. node' = [node EXCEPT !.pc = "run", !.cmd = Head(node.batch),
                               !.batch = Tail(node.batch), !.restart = FALSE]
      BY <1>4, <2>2 DEF NextCommand
    <3>3. node' \in NodeStates /\ node'.cmd \in Commands
      BY <1>1, <3>1, <3>2 DEF NodeStates
    <3> QED BY <1>0, <1>4, <3>3 DEF NextCommand, NodeTypeOK
  <2> QED BY <2>1, <2>2
<1>5. ASSUME RunCommand \/ EndUpdate \/ RunHandoff PROVE NodeTypeOK'
  <2>1. node.cmd \in Commands
    BY <1>0, <1>5 DEF RunCommand, EndUpdate, RunHandoff, NodeTypeOK
  <2>2. PICK want \in BOOLEAN : Send(node.cmd, want)
    BY <1>5 DEF RunCommand, EndUpdate, RunHandoff
  <2>3. /\ inbox' \subseteq Commands \X Nat /\ answered' \in BOOLEAN /\ node' \in NodeStates
        /\ node'.cmd \in Commands
    BY <1>0, <2>1, <2>2, SendTypes
  <2>4. UNCHANGED <<restart, losses>> /\ moved' \in {moved, "written"}
    BY <1>5 DEF RunCommand, EndUpdate, RunHandoff
  <2> QED BY <1>0, <2>3, <2>4 DEF NodeTypeOK
<1>6. ASSUME StartUpdate PROVE NodeTypeOK'
  <2>1. node' \in NodeStates /\ node'.cmd = node.cmd /\ node'.pc = "apply"
    BY <1>1, <1>6 DEF StartUpdate, NodeStates
  <2> QED BY <1>0, <1>6, <2>1 DEF StartUpdate, NodeTypeOK
<1>7. ASSUME ResultPosted PROVE NodeTypeOK'
  <2>1. node' \in NodeStates /\ node'.cmd = node.cmd /\ node'.pc = "next" /\ node.restart \in BOOLEAN
    BY <1>1, <1>7 DEF ResultPosted, NodeStates
  <2> QED BY <1>0, <1>7, <2>1 DEF ResultPosted, NodeTypeOK
<1>8. NodeTypeOK'
  BY <1>3, <1>4, <1>5, <1>6, <1>7 DEF NodeStep
<1> QED BY <1>0, <1>2, <1>8, TypesKept DEF QueueTypeOK

LEMMA FaultTypes ==
  ASSUME QueueTypeOK, PostFails \/ Restart \/ Crash PROVE QueueTypeOK'
<1>0. PanelTypeOK /\ NodeTypeOK /\ SeenTypeOK
  BY DEF QueueTypeOK
<1>1. UNCHANGED <<panelVars, accepted, reported, expired, waiter>> /\ cut' \in BOOLEAN
  <2>1. CASE PostFails
    BY <1>0, <2>1 DEF PostFails, seenVars, SeenTypeOK
  <2>2. CASE Restart
    BY <1>0, <2>2 DEF Restart, NewProcess, SeenTypeOK
  <2>3. CASE Crash
    BY <1>0, <2>3 DEF Crash, NewProcess, SeenTypeOK
  <2> QED BY <2>1, <2>2, <2>3
<1>2. ASSUME PostFails PROVE NodeTypeOK'
  <2>1. inbox' \subseteq inbox /\ losses' = losses + 1 /\ UNCHANGED <<answered, restart, moved>>
    BY <1>2 DEF PostFails
  <2>2. node' \in NodeStates /\ node'.pc = "next"
    BY <1>0, <1>2 DEF PostFails, NodeTypeOK, NodeStates
  <2> QED BY <1>0, <2>1, <2>2 DEF NodeTypeOK
<1>3. ASSUME Restart \/ Crash PROVE NodeTypeOK'
  <2>1. NewProcess /\ losses' \in {losses, losses + 1}
    BY <1>3 DEF Restart, Crash
  <2>2. losses' \in Nat
    BY <1>0, <2>1 DEF NodeTypeOK
  <2> QED BY <1>0, <2>1, <2>2, IdleIs DEF NewProcess, NodeTypeOK
<1>4. NodeTypeOK'
  BY <1>2, <1>3
<1>5. PanelTypeOK'
  BY <1>0, <1>1, TypesKept
<1>6. SeenTypeOK'
  BY <1>0, <1>1 DEF SeenTypeOK
<1> QED BY <1>4, <1>5, <1>6 DEF QueueTypeOK

LEMMA OtherTypes ==
  ASSUME QueueTypeOK, WaiterLooks \/ WaiterGivesUp \/ \E c \in Commands : Grow(c)
  PROVE  QueueTypeOK'
<1>0. PanelTypeOK /\ NodeTypeOK /\ SeenTypeOK
  BY DEF QueueTypeOK
<1>1. CASE WaiterLooks \/ WaiterGivesUp
  <2>1. UNCHANGED <<panelVars, nodeVars, seenVars>>
    BY <1>1 DEF WaiterLooks, WaiterGivesUp
  <2>2. waiter' \in WaiterStates
    BY <1>0, <1>1 DEF WaiterLooks, WaiterGivesUp, SeenTypeOK, WaiterStates
  <2>3. SeenTypeOK'
    BY <1>0, <2>1, <2>2 DEF SeenTypeOK, seenVars
  <2> QED BY <1>0, <2>1, <2>3, TypesKept DEF QueueTypeOK
<1>2. ASSUME NEW c \in Commands, Grow(c) PROVE QueueTypeOK'
  <2>1. /\ UNCHANGED <<queue, history, used, lock, thread, nodeVars, seenVars, waiter>>
        /\ age' \in [Commands -> Nat]
    BY <1>0, <1>2 DEF Grow, PanelTypeOK
  <2>2. PanelTypeOK'
    BY <1>0, <2>1 DEF PanelTypeOK
  <2> QED BY <1>0, <2>1, <2>2, TypesKept DEF QueueTypeOK
<1> QED BY <1>1, <1>2

-----------------------------------------------------------------------------
(* Only updates come before an update, in the list and in the copies.      *)
LEMMA SortedEmpty == Sorted(<<>>) /\ OneUpdate(<<>>) /\ NoUpdate(<<>>) /\ <<>> \in Seq(Commands)
BY DEF Sorted, OneUpdate, NoUpdate

LEMMA SortedAppend ==
  ASSUME NEW s \in Seq(Commands), NEW c \in Commands, Sorted(s), ~IsUpdate(c)
  PROVE  Sorted(Append(s, c))
<1>1. Len(Append(s, c)) = Len(s) + 1 /\ Append(s, c)[Len(s) + 1] = c
      /\ \A i \in 1 .. Len(s) : Append(s, c)[i] = s[i]
  OBVIOUS
<1>2. PICK w : w = Append(s, c)
  OBVIOUS
<1>3. ASSUME NEW i \in 1 .. Len(w), NEW j \in 1 .. Len(w), i < j, IsUpdate(w[j])
      PROVE  IsUpdate(w[i])
  <2>1. j \in 1 .. Len(s)
    BY <1>1, <1>2, <1>3
  <2>2. i \in 1 .. Len(s) /\ w[i] = s[i] /\ w[j] = s[j]
    BY <1>1, <1>2, <1>3, <2>1
  <2> QED BY <1>3, <2>1, <2>2 DEF Sorted
<1> QED BY <1>2, <1>3 DEF Sorted

LEMMA SortedFirst ==
  ASSUME NEW s \in Seq(Commands), NEW c \in Commands, Sorted(s), IsUpdate(c)
  PROVE  Sorted(<<c>> \o s)
<1>1. PICK w : w = <<c>> \o s
  OBVIOUS
<1>2. Len(w) = Len(s) + 1 /\ w[1] = c /\ \A i \in 1 .. Len(s) : w[i + 1] = s[i]
  BY <1>1, PutFirst
<1>3. ASSUME NEW i \in 1 .. Len(w), NEW j \in 1 .. Len(w), i < j, IsUpdate(w[j])
      PROVE  IsUpdate(w[i])
  <2>1. CASE i = 1
    BY <1>2, <2>1
  <2>2. CASE i # 1
    <3>1. PICK a \in 1 .. Len(s), b \in 1 .. Len(s) : i = a + 1 /\ j = b + 1
      <4>1. i - 1 \in 1 .. Len(s) /\ j - 1 \in 1 .. Len(s) /\ i = (i - 1) + 1 /\ j = (j - 1) + 1
        BY <1>2, <1>3, <2>2
      <4> QED BY <4>1
    <3>2. w[i] = s[a] /\ w[j] = s[b] /\ a < b
      BY <1>2, <1>3, <3>1
    <3> QED BY <1>3, <3>2 DEF Sorted
  <2> QED BY <2>1, <2>2
<1> QED BY <1>1, <1>3 DEF Sorted

(* What a thread is about depends on the thread alone.                     *)
LEMMA HalfDoneKept ==
  ASSUME NEW t \in Threads, HalfDone(t), thread'[t] = thread[t] PROVE HalfDone(t)'
BY DEF HalfDone

LEMMA HalfDoneOver ==
  ASSUME NEW t \in Threads, \A u \in Threads : HalfDone(u), Over(t)
  PROVE  \A u \in Threads : HalfDone(u)'
<1>1. ASSUME NEW u \in Threads, thread'[u] = Free PROVE HalfDone(u)'
  BY <1>1, FreeFields, SortedEmpty DEF HalfDone
<1>2. ASSUME NEW u \in Threads, thread'[u].op = thread[u].op, thread'[u].cmd = thread[u].cmd,
             thread'[u].copy = thread[u].copy
      PROVE  HalfDone(u)'
  BY <1>2 DEF HalfDone
<1> QED BY <1>1, <1>2 DEF Over

LEMMA HalfDoneBegins ==
  ASSUME PanelTypeOK, \A u \in Threads : HalfDone(u), NEW t \in Threads, NEW op \in Ops,
         NEW c \in Commands \union {None}, NEW copy \in Seq(Commands), Begins(t, op, c, copy),
         op \notin {"free", "prune"} => c \in Commands, op = "append" => ~IsUpdate(c),
         op \in {"build", "promote", "insert", "first"} => IsUpdate(c), Sorted(copy)
  PROVE  \A u \in Threads : HalfDone(u)'
<1>1. HalfDone(t)'
  <2>1. thread'[t].op = op /\ thread'[t].cmd = c /\ thread'[t].copy = copy
    BY BeginsIs
  <2> QED BY <2>1 DEF HalfDone
<1>2. \A u \in Threads : u # t => thread'[u] = thread[u]
  BY BeginsIs
<1> QED BY <1>1, <1>2, HalfDoneKept

LEMMA StartKeeps ==
  ASSUME QueueInv, NEW t \in Threads, PanelStarts(t) PROVE QueueInv'
<1>0. PanelTypeOK /\ NodeTypeOK /\ queue \in Seq(Commands)
  BY DEF QueueInv, QueueTypeOK, PanelTypeOK
<1>1. QueueTypeOK' /\ queue' = queue
  BY StartTypes DEF QueueInv, PanelStarts, TakeList, TakeListLocked, Optimize, FindUpdate,
                    ReceiveResult, Prune
<1>2. Sorted(queue) /\ \A u \in Threads : HalfDone(u)
  BY DEF QueueInv
<1>3. Sorted(queue')
  BY <1>1, <1>2
<1>4. ASSUME NEW c \in Commands, TakeList(t, c) \/ TakeListLocked(t, c) \/ Optimize(t, c)
      PROVE  \A u \in Threads : HalfDone(u)'
  <2>1. Begins(t, "append", c, <<>>) /\ ~IsUpdate(c) /\ "append" \in Ops
    BY <1>4 DEF TakeList, TakeListLocked, Optimize, IsUpdate, Ops
  <2> QED BY <1>0, <1>2, <2>1, SortedEmpty, HalfDoneBegins
<1>5. ASSUME NEW c \in Commands, FindUpdate(t, c)
      PROVE  \A u \in Threads : HalfDone(u)'
  <2>1. \E op \in {"build", "promote"}, d \in Commands : Begins(t, op, d, <<>>) /\ IsUpdate(d)
    <3>1. CASE Begins(t, "build", c, <<>>) /\ Kind[c] = "update"
      BY <3>1 DEF IsUpdate
    <3>2. CASE \E d \in OfKind("update") : d \in Commands /\ Begins(t, "promote", d, <<>>)
      BY <3>2 DEF OfKind, IsUpdate
    <3> QED BY <1>0, <1>5, <3>1, <3>2, FindsUpdate
  <2>2. PICK op \in {"build", "promote"}, d \in Commands : Begins(t, op, d, <<>>) /\ IsUpdate(d)
    BY <2>1
  <2>3. op \in Ops /\ op # "append" /\ d \in Commands \union {None}
    BY DEF Ops
  <2> QED BY <1>0, <1>2, <2>2, <2>3, SortedEmpty, HalfDoneBegins
<1>6. ASSUME NEW m \in inbox, ReceiveResult(t, m) PROVE \A u \in Threads : HalfDone(u)'
  <2>1. m[1] \in Commands
    BY <1>0 DEF NodeTypeOK
  <2>2. PICK copy \in Seq(Commands) : Begins(t, "report", m[1], copy) /\ Sorted(copy)
    BY <1>0, <1>2, <1>6, WithoutIs, WithoutSorted DEF ReceiveResult
  <2>3. "report" \in Ops
    BY DEF Ops
  <2> QED BY <1>0, <1>2, <2>1, <2>2, <2>3, HalfDoneBegins
<1>7. ASSUME NEW limit \in 2 .. 3, Prune(t, limit) PROVE \A u \in Threads : HalfDone(u)'
  <2>1. PICK copy \in Seq(Commands) : Begins(t, "prune", None, copy) /\ Sorted(copy)
    BY <1>0, <1>2, <1>7, WithoutIs, WithoutSorted DEF Prune
  <2>2. "prune" \in Ops
    BY DEF Ops
  <2> QED BY <1>0, <1>2, <2>1, <2>2, HalfDoneBegins
<1>8. \A u \in Threads : HalfDone(u)'
  BY <1>4, <1>5, <1>6, <1>7 DEF PanelStarts
<1> QED BY <1>1, <1>3, <1>8 DEF QueueInv, Sorted

LEMMA SecondKeeps ==
  ASSUME QueueInv, NEW t \in Threads, PanelStep(t) PROVE QueueInv'
<1>0. PanelTypeOK /\ queue \in Seq(Commands) /\ thread[t].copy \in Seq(Commands)
  BY DEF QueueInv, QueueTypeOK, PanelTypeOK, ThreadStates
<1>1. QueueTypeOK'
  BY SecondTypes
<1>2. Sorted(queue) /\ HalfDone(t) /\ \A u \in Threads : HalfDone(u)
  BY DEF QueueInv
<1>3. CASE AppendCommand(t)
  <2>1. thread[t].cmd \in Commands /\ ~IsUpdate(thread[t].cmd)
    BY <1>2, <1>3 DEF AppendCommand, HalfDone
  <2>2. Sorted(Append(queue, thread[t].cmd))
    BY <1>0, <1>2, <2>1, SortedAppend
  <2>3. queue' \in {queue, Append(queue, thread[t].cmd)} /\ Over(t)
    BY <1>0, <1>3, ChangeOver DEF AppendCommand
  <2>4. Sorted(queue')
    BY <1>2, <2>2, <2>3
  <2> QED BY <1>1, <1>2, <2>3, <2>4, HalfDoneOver DEF QueueInv, Sorted
<1>4. CASE TakeListForUpdate(t)
  <2>1. /\ thread' = [thread EXCEPT ![t] = thread'[t]] /\ thread'[t].cmd = thread[t].cmd
        /\ thread'[t].op \in {"insert", "first"} /\ Sorted(thread'[t].copy)
    <3>1. Sorted(Without(queue, {thread[t].cmd})) /\ Sorted(<<>>)
      BY <1>0, <1>2, WithoutSorted, SortedEmpty
    <3>2. thread[t].op \in {"build", "promote"} /\ t \in DOMAIN thread
      BY <1>0, <1>4 DEF TakeListForUpdate, PanelTypeOK
    <3>3. CASE thread[t].op = "build"
      <4>1. thread' = [thread EXCEPT ![t] = [op |-> "insert", cmd |-> thread[t].cmd,
                                             fresh |-> TRUE, copy |-> <<>>]]
        BY <1>4, <3>3 DEF TakeListForUpdate
      <4> QED BY <3>1, <3>2, <4>1
    <3>4. CASE thread[t].op = "promote"
      <4>1. thread' = [thread EXCEPT ![t] = [op |-> "first", cmd |-> thread[t].cmd, fresh |-> TRUE,
                                             copy |-> Without(queue, {thread[t].cmd})]]
        BY <1>4, <3>4 DEF TakeListForUpdate
      <4> QED BY <3>1, <3>2, <4>1
    <3> QED BY <3>2, <3>3, <3>4
  <2>2. thread[t].cmd \in Commands /\ IsUpdate(thread[t].cmd)
    BY <1>2, <1>4 DEF TakeListForUpdate, HalfDone
  <2>3. HalfDone(t)'
    BY <2>1, <2>2 DEF HalfDone
  <2>4. \A u \in Threads : u # t => thread'[u] = thread[u]
    BY <1>0, <2>1 DEF PanelTypeOK
  <2>5. \A u \in Threads : HalfDone(u)'
    BY <1>2, <2>3, <2>4, HalfDoneKept
  <2>6. Sorted(queue')
    BY <1>2, <1>4 DEF TakeListForUpdate
  <2> QED BY <1>1, <2>5, <2>6 DEF QueueInv, Sorted
<1>5. CASE InsertUpdate(t) \/ PromoteUpdate(t)
  <2>1. thread[t].cmd \in Commands /\ IsUpdate(thread[t].cmd) /\ Sorted(thread[t].copy)
    BY <1>2, <1>5 DEF InsertUpdate, PromoteUpdate, HalfDone
  <2>2. Sorted(<<thread[t].cmd>> \o queue) /\ Sorted(<<thread[t].cmd>> \o thread[t].copy)
    BY <1>0, <1>2, <2>1, SortedFirst
  <2>3. Over(t) /\ queue' \in {queue, <<thread[t].cmd>> \o queue, <<thread[t].cmd>> \o thread[t].copy}
    BY <1>0, <1>5, ChangeOver DEF InsertUpdate, PromoteUpdate
  <2>4. Sorted(queue')
    BY <1>2, <2>2, <2>3
  <2> QED BY <1>1, <1>2, <2>3, <2>4, HalfDoneOver DEF QueueInv, Sorted
<1>6. CASE ReplaceList(t) \/ PruneReplaces(t)
  <2>1. queue' = thread[t].copy /\ Over(t)
    BY <1>0, <1>6, BindOver DEF ReplaceList, PruneReplaces
  <2>2. Sorted(queue')
    BY <1>2, <2>1 DEF HalfDone
  <2> QED BY <1>1, <1>2, <2>1, <2>2, HalfDoneOver DEF QueueInv, Sorted
<1> QED BY <1>3, <1>4, <1>5, <1>6 DEF PanelStep

LEMMA OthersKeep ==
  ASSUME QueueInv, UNCHANGED <<queue, thread>>, QueueTypeOK' PROVE QueueInv'
BY DEF QueueInv, Sorted, HalfDone

LEMMA QueueStep == QueueInv /\ [QueueSteps]_queueVars => QueueInv'
<1> SUFFICES ASSUME QueueInv, [QueueSteps]_queueVars PROVE QueueInv'
  OBVIOUS
<1>0. QueueTypeOK
  BY DEF QueueInv
<1>1. ASSUME NEW t \in Threads, PanelStep(t) PROVE QueueInv'
  BY <1>1, SecondKeeps
<1>2. ASSUME NEW t \in Threads, PanelStarts(t) PROVE QueueInv'
  BY <1>2, StartKeeps
<1>3. CASE WaiterLooks \/ WaiterGivesUp \/ \E c \in Commands : Grow(c)
  <2>1. UNCHANGED <<queue, thread>>
    BY <1>3 DEF WaiterLooks, WaiterGivesUp, Grow, panelVars
  <2> QED BY <1>0, <1>3, <2>1, OtherTypes, OthersKeep
<1>4. CASE NodeStep
  <2>1. UNCHANGED <<queue, thread>>
    BY <1>4 DEF NodeStep, Poll, NextCommand, RunCommand, StartUpdate, EndUpdate, RunHandoff,
                ResultPosted, panelVars
  <2> QED BY <1>0, <1>4, <2>1, NodeStepTypes, OthersKeep
<1>5. CASE PostFails \/ Restart \/ Crash
  <2>1. UNCHANGED <<queue, thread>>
    BY <1>5 DEF PostFails, Restart, Crash, NewProcess, panelVars
  <2> QED BY <1>0, <1>5, <2>1, FaultTypes, OthersKeep
<1>6. CASE UNCHANGED queueVars
  <2>1. QueueTypeOK'
    BY <1>0, <1>6, TypesKept DEF queueVars, QueueTypeOK
  <2>2. UNCHANGED <<queue, thread>>
    BY <1>6 DEF queueVars, panelVars
  <2> QED BY <2>1, <2>2, OthersKeep
<1> QED BY <1>1, <1>2, <1>3, <1>4, <1>5, <1>6 DEF QueueSteps

(* A step of the queue and of what the history notes of it.                *)
LEMMA StepOfQueue ==
  ASSUME [QueueNext]_<<queueVars, raced>>
  PROVE  [QueueSteps]_queueVars /\ raced \subseteq raced'
BY DEF QueueNext

LEMMA QueueInvStep == QueueInv /\ [QueueNext]_<<queueVars, raced>> => QueueInv'
BY QueueStep, StepOfQueue

LEMMA QueueInitInv == QueueInit => QueueInv
<1> SUFFICES ASSUME QueueInit PROVE QueueInv
  OBVIOUS
<1>1. queue = <<>> /\ \A t \in Threads : thread[t] = Free
  BY DEF QueueInit
<1>2. \A t \in Threads : HalfDone(t)
  BY <1>1, FreeFields, SortedEmpty DEF HalfDone
<1>3. Sorted(queue)
  BY <1>1, SortedEmpty
<1> QED BY <1>2, <1>3, QueueInitTypes DEF QueueInv

(* The state of the command queue of a node and of the node that empties   *)
(* it (queue_node_*, /api/node-config, execute_node_commands) is of its    *)
(* type, for every set of commands, threads and sizes.                     *)
THEOREM CommandTypes == QueueSpec => []QueueTypeOK
<1>1. QueueInv => QueueTypeOK
  BY DEF QueueInv
<1> QED BY <1>1, QueueInitInv, QueueInvStep, PTL DEF QueueSpec

(* Whatever the panel's threads interleave, only updates come before an    *)
(* update: queue_node_update's insert(0) and the copies of the result      *)
(* handler and of the prunings never put other work in front of one.       *)
THEOREM UpdatesComeFirst == QueueSpec => []UpdatesFirst
<1>1. QueueInv => UpdatesFirst
  BY DEF QueueInv, Sorted, IsUpdate, UpdatesFirst
<1> QED BY <1>1, QueueInitInv, QueueInvStep, PTL DEF QueueSpec

-----------------------------------------------------------------------------
(* Threads that never replace the list beside one that holds it lose       *)
(* nothing.                                                                *)
LEMMA InSeq ==
  ASSUME NEW s \in Seq(Commands), NEW c \in Commands
  PROVE  /\ ToSet(Append(s, c)) = ToSet(s) \union {c}
         /\ ToSet(<<c>> \o s) = ToSet(s) \union {c}
<1>1. PICK L \in Nat : L = Len(s)
  OBVIOUS
<1>2. ToSet(Append(s, c)) = ToSet(s) \union {c}
  <2>1. PICK w : w = Append(s, c)
    OBVIOUS
  <2>2. /\ DOMAIN w = 1 .. L + 1 /\ w[L + 1] = c /\ DOMAIN s = 1 .. L
        /\ \A i \in 1 .. L : w[i] = s[i]
    BY <1>1, <2>1
  <2>3. 1 .. L + 1 = (1 .. L) \union {L + 1}
    BY Z3
  <2> QED BY <2>1, <2>2, <2>3 DEF ToSet
<1>3. ToSet(<<c>> \o s) = ToSet(s) \union {c}
  <2>1. PICK w : w = <<c>> \o s
    OBVIOUS
  <2>2. /\ DOMAIN w = 1 .. L + 1 /\ w[1] = c /\ DOMAIN s = 1 .. L
        /\ \A i \in 1 .. L : w[i + 1] = s[i]
    BY <1>1, <2>1, PutFirst
  <2>3. ASSUME NEW x, x \in ToSet(w) PROVE x \in ToSet(s) \union {c}
    <3>1. PICK i \in 1 .. L + 1 : x = w[i]
      BY <2>2, <2>3 DEF ToSet
    <3>2. i = 1 \/ (i - 1 \in 1 .. L /\ i = (i - 1) + 1)
      OBVIOUS
    <3> QED BY <2>2, <3>1, <3>2 DEF ToSet
  <2>4. ASSUME NEW x \in ToSet(s) \union {c} PROVE x \in ToSet(w)
    <3>1. x = c \/ \E i \in 1 .. L : x = s[i]
      BY <2>2 DEF ToSet
    <3>2. 1 \in 1 .. L + 1 /\ \A i \in 1 .. L : i + 1 \in 1 .. L + 1
      OBVIOUS
    <3> QED BY <2>2, <3>1, <3>2 DEF ToSet
  <2> QED BY <2>1, <2>3, <2>4
<1> QED BY <1>2, <1>3

LEMMA QueuedIs == ASSUME queue \in Seq(Commands), NEW c PROVE Queued(c) <=> c \in ToSet(queue)
<1>1. DOMAIN queue = 1 .. Len(queue)
  OBVIOUS
<1> QED BY <1>1 DEF Queued, ToSet

LEMMA QueuedNext == ASSUME queue' \in Seq(Commands), NEW c PROVE Queued(c)' <=> c \in ToSet(queue')
<1>1. DOMAIN queue' = 1 .. Len(queue')
  OBVIOUS
<1> QED BY <1>1 DEF Queued, ToSet

(* What the step of a thread leaves of the others: only one that has held  *)
(* the list changes it, and only one that replaces it touches a thread.    *)
SameWork(u) ==
  /\ thread'[u].op = thread[u].op /\ thread'[u].cmd = thread[u].cmd
  /\ thread'[u].copy = thread[u].copy

LEMMA OthersStay ==
  ASSUME PanelTypeOK, NEW t \in Threads, PanelStep(t) \/ PanelStarts(t)
  PROVE  /\ HoldsList(t) \/ queue' = queue
         /\ \A u \in Threads : u # t => SameWork(u) /\ (Replaces(t) \/ thread'[u] = thread[u])
<1>1. CASE PanelStarts(t)
  <2>1. queue' = queue
    BY <1>1 DEF PanelStarts, TakeList, TakeListLocked, Optimize, FindUpdate, ReceiveResult, Prune
  <2>2. \E op, c, copy : Begins(t, op, c, copy)
    BY <1>1 DEF PanelStarts, TakeList, TakeListLocked, Optimize, FindUpdate, ReceiveResult, Prune
  <2>3. \A u \in Threads : u # t => thread'[u] = thread[u]
    BY <2>2 DEF Begins, PanelTypeOK
  <2> QED BY <2>1, <2>3 DEF SameWork
<1>2. CASE TakeListForUpdate(t)
  <2>1. queue' = queue /\ \E r : thread' = [thread EXCEPT ![t] = r]
    BY <1>2 DEF TakeListForUpdate
  <2>2. \A u \in Threads : u # t => thread'[u] = thread[u]
    BY <2>1 DEF PanelTypeOK
  <2> QED BY <2>1, <2>2 DEF SameWork
<1>3. CASE AppendCommand(t) \/ InsertUpdate(t) \/ PromoteUpdate(t)
  <2>1. HoldsList(t) /\ \E list : ChangeInPlace(t, list)
    BY <1>3 DEF AppendCommand, InsertUpdate, PromoteUpdate, HoldsList
  <2>2. \A u \in Threads : u # t => thread'[u] = thread[u]
    BY <2>1 DEF ChangeInPlace, PanelTypeOK
  <2> QED BY <2>1, <2>2 DEF SameWork
<1>4. CASE ReplaceList(t) \/ PruneReplaces(t)
  <2>1. HoldsList(t) /\ Replaces(t) /\ Bind(t, thread[t].copy)
    BY <1>4 DEF ReplaceList, PruneReplaces, HoldsList, Replaces
  <2>2. ASSUME NEW u \in Threads, u # t PROVE SameWork(u)
    <3>1. CASE thread[u] = Free
      BY <2>1, <2>2, <3>1 DEF Bind, SameWork
    <3>2. CASE thread[u] # Free
      <4>1. thread'[u] = [thread[u] EXCEPT !.fresh = FALSE] /\ thread[u] \in ThreadStates
        BY <2>1, <2>2, <3>2 DEF Bind, PanelTypeOK
      <4> QED BY <4>1 DEF SameWork, ThreadStates
    <3> QED BY <3>1, <3>2
  <2> QED BY <2>1, <2>2
<1> QED BY <1>1, <1>2, <1>3, <1>4 DEF PanelStep

(* What the history excludes.                                              *)
LEMMA Unraced ==
  ASSUME Overlaps \subseteq raced, NEW t \in Threads, NEW u \in Threads, t # u
  PROVE  /\ "list" \notin raced => ~(HoldsList(t) /\ Replaces(u))
         /\ "update" \notin raced => ~(RequestsUpdate(t) /\ RequestsUpdate(u))
BY DEF Overlaps, Overlap

(* And it is complete after every step.                                    *)
LEMMA OverlapsNoted ==
  ASSUME Overlaps \subseteq raced, [QueueNext]_<<queueVars, raced>>
  PROVE  (Overlaps \subseteq raced)'
<1>1. CASE QueueNext
  BY <1>1 DEF QueueNext
<1>2. CASE UNCHANGED <<queueVars, raced>>
  BY <1>2 DEF queueVars, panelVars, Overlaps, Overlap, HoldsList, Replaces, RequestsUpdate
<1> QED BY <1>1, <1>2

(* A thread that begins knows what it has just read.                       *)
LEMMA AloneStart ==
  ASSUME KeptInv, "list" \notin raced, NEW t \in Threads, PanelStarts(t)
  PROVE  Kept' /\ Alone(t)'
<1>0. PanelTypeOK /\ NodeTypeOK /\ queue \in Seq(Commands) /\ age \in [Commands -> Nat]
  BY DEF KeptInv, QueueInv, QueueTypeOK, PanelTypeOK
<1>1. UNCHANGED <<queue, age, accepted, reported, expired>>
  BY DEF PanelStarts, TakeList, TakeListLocked, Optimize, FindUpdate, ReceiveResult, Prune, seenVars
<1>2. Kept'
  BY <1>1 DEF KeptInv, Kept, Queued
<1>3. ASSUME NEW op \in {"append", "build", "promote"}, NEW c \in Commands, Begins(t, op, c, <<>>)
      PROVE  Alone(t)'
  <2>1. thread'[t].op = op /\ thread'[t].fresh = TRUE
    <3>1. op \in Ops /\ <<>> \in Seq(Commands)
      BY DEF Ops
    <3> QED BY <1>0, <1>3, <3>1, BeginsIs
  <2> QED BY <2>1 DEF Alone
<1>4. ASSUME NEW c \in Commands, TakeList(t, c) \/ TakeListLocked(t, c) \/ Optimize(t, c)
      PROVE  Alone(t)'
  <2>1. Begins(t, "append", c, <<>>)
    BY <1>4 DEF TakeList, TakeListLocked, Optimize
  <2> QED BY <1>3, <2>1
<1>5. ASSUME NEW c \in Commands, FindUpdate(t, c) PROVE Alone(t)'
  <2>1. CASE Begins(t, "build", c, <<>>)
    BY <1>3, <2>1
  <2>2. CASE \E d \in OfKind("update") : d \in Commands /\ Begins(t, "promote", d, <<>>)
    BY <1>3, <2>2
  <2> QED BY <1>0, <1>5, <2>1, <2>2, FindsUpdate
<1>6. ASSUME NEW m \in inbox, ReceiveResult(t, m) PROVE Alone(t)'
  <2>1. m[1] \in Commands /\ "report" \in Ops
    BY <1>0 DEF NodeTypeOK, Ops
  <2>2. PICK copy \in Seq(Commands) : /\ Begins(t, "report", m[1], copy)
                                      /\ copy = Without(queue, {m[1]})
    BY <1>0, <1>6, WithoutIs DEF ReceiveResult, Reporting
  <2>3. /\ thread'[t].op = "report" /\ thread'[t].fresh = TRUE /\ thread'[t].copy = copy
        /\ thread'[t].cmd = m[1]
    <3>1. PICK c \in Commands \union {None} : c = m[1]
      BY <2>1
    <3>2. Begins(t, "report", c, copy)
      BY <2>2, <3>1
    <3>3. "report" \in Ops /\ PanelTypeOK
      BY <1>0, <2>1
    <3>4. /\ thread'[t].op = "report" /\ thread'[t].fresh = TRUE /\ thread'[t].copy = copy
          /\ thread'[t].cmd = c
      BY <3>2, <3>3, BeginsIs
    <3> QED BY <3>1, <3>4
  <2>4. \A c \in ToSet(queue) : c \in ToSet(copy) \/ c = m[1]
    BY <1>0, <2>2, WithoutIs
  <2> QED BY <1>1, <2>3, <2>4 DEF Alone
<1>7. ASSUME NEW limit \in 2 .. 3, Prune(t, limit) PROVE Alone(t)'
  <2>1. PICK copy \in Seq(Commands) : /\ Begins(t, "prune", None, copy)
                                      /\ copy = Without(queue, Older(limit))
    BY <1>0, <1>7, WithoutIs DEF Prune
  <2>2. /\ thread'[t].op = "prune" /\ thread'[t].fresh = TRUE /\ thread'[t].copy = copy
    <3>1. "prune" \in Ops
      BY DEF Ops
    <3> QED BY <1>0, <2>1, <3>1, BeginsIs
  <2>3. ASSUME NEW c \in ToSet(queue), c \notin ToSet(copy) PROVE age[c] >= 2
    <3>1. c \in Older(limit)
      BY <1>0, <2>1, <2>3, WithoutIs
    <3>2. c \in Commands /\ age[c] >= limit
      BY <3>1 DEF Older
    <3> QED BY <1>0, <3>2
  <2> QED BY <1>1, <2>2, <2>3 DEF Alone
<1>8. Alone(t)'
  BY <1>4, <1>5, <1>6, <1>7 DEF PanelStarts
<1> QED BY <1>2, <1>8

LEMMA AloneSecond ==
  ASSUME KeptInv, "list" \notin raced, NEW t \in Threads, PanelStep(t)
  PROVE  Kept' /\ Alone(t)'
<1>0. /\ PanelTypeOK /\ queue \in Seq(Commands) /\ HalfDone(t)
      /\ HoldsList(t) => Alone(t) /\ thread[t].fresh
      /\ thread[t].copy \in Seq(Commands) /\ QueueInv
  BY DEF KeptInv, QueueInv, QueueTypeOK, PanelTypeOK, ThreadStates, Alone
<1>1. queue' \in Seq(Commands)
  BY <1>0, SecondTypes DEF QueueTypeOK, PanelTypeOK
<1>2. \A c \in accepted : c \in ToSet(queue) \/ c \in reported \/ c \in expired
  BY <1>0, QueuedIs DEF KeptInv, Kept
<1>3. SUFFICES
        /\ \A c \in accepted' : c \in ToSet(queue') \/ c \in reported' \/ c \in expired'
        /\ Alone(t)'
  BY <1>1, QueuedNext DEF Kept
<1>4. Over(t) => Alone(t)'
  <2>1. Over(t) => thread'[t].op = "free" /\ thread'[t].fresh = TRUE
    BY FreeFields DEF Over
  <2> QED BY <2>1 DEF Alone
<1>b. ASSUME thread[t].op \in {"append", "insert", "first", "report", "prune"}
      PROVE  Alone(t) /\ thread[t].fresh
  BY <1>0, <1>b DEF HoldsList
<1>5. CASE AppendCommand(t) \/ InsertUpdate(t)
  <2>1. thread[t].cmd \in Commands
    BY <1>0, <1>5 DEF AppendCommand, InsertUpdate, HalfDone
  <2>2. /\ queue' \in {Append(queue, thread[t].cmd), <<thread[t].cmd>> \o queue} /\ Over(t)
        /\ accepted' = accepted \union {thread[t].cmd} /\ reported' = reported /\ expired' = expired
    BY <1>0, <1>5, <1>b, ChangeOver DEF AppendCommand, InsertUpdate
  <2>3. ToSet(queue') = ToSet(queue) \union {thread[t].cmd}
    BY <1>0, <2>1, <2>2, InSeq
  <2> QED BY <1>2, <1>4, <2>2, <2>3
<1>6. CASE TakeListForUpdate(t)
  <2>1. UNCHANGED <<queue, accepted, reported, expired>>
    BY <1>6 DEF TakeListForUpdate, seenVars
  <2>2. PICK op, copy : /\ thread' = [thread EXCEPT ![t] = [op |-> op, cmd |-> thread[t].cmd,
                                                           fresh |-> TRUE, copy |-> copy]]
                        /\ op \in {"insert", "first"}
                        /\ op = "first" => copy = Without(queue, {thread[t].cmd})
    <3>1. CASE thread[t].op = "build"
      <4>1. thread' = [thread EXCEPT ![t] = [op |-> "insert", cmd |-> thread[t].cmd,
                                             fresh |-> TRUE, copy |-> <<>>]]
        BY <1>6, <3>1 DEF TakeListForUpdate
      <4>2. "insert" \in {"insert", "first"} /\ "insert" # "first"
        OBVIOUS
      <4> WITNESS "insert", <<>>
      <4> QED BY <4>1, <4>2
    <3>2. CASE thread[t].op = "promote"
      <4>1. thread' = [thread EXCEPT ![t] = [op |-> "first", cmd |-> thread[t].cmd, fresh |-> TRUE,
                                             copy |-> Without(queue, {thread[t].cmd})]]
        BY <1>6, <3>2 DEF TakeListForUpdate
      <4> QED BY <4>1
    <3> QED BY <1>6, <3>1, <3>2 DEF TakeListForUpdate
  <2>3. thread'[t].op = op /\ thread'[t].cmd = thread[t].cmd /\ thread'[t].fresh = TRUE
        /\ thread'[t].copy = copy
    BY <1>0, <2>2 DEF PanelTypeOK
  <2>4. op = "first" => \A c \in ToSet(queue) : c \in ToSet(copy) \/ c = thread[t].cmd
    BY <1>0, <2>2, WithoutIs
  <2>5. Alone(t)'
    BY <2>1, <2>2, <2>3, <2>4 DEF Alone
  <2> QED BY <1>2, <2>1, <2>5
<1>7. CASE PromoteUpdate(t)
  <2>1. thread[t].cmd \in Commands
    BY <1>0, <1>7 DEF PromoteUpdate, HalfDone
  <2>2. /\ queue' = <<thread[t].cmd>> \o thread[t].copy /\ Over(t)
        /\ accepted' = accepted /\ reported' = reported /\ expired' = expired
    BY <1>0, <1>7, <1>b, ChangeOver DEF PromoteUpdate, seenVars
  <2>3. ToSet(queue') = ToSet(thread[t].copy) \union {thread[t].cmd}
    BY <1>0, <2>1, <2>2, InSeq
  <2>4. \A c \in ToSet(queue) : c \in ToSet(queue')
    BY <1>0, <1>7, <1>b, <2>3 DEF PromoteUpdate, Alone
  <2> QED BY <1>2, <1>4, <2>2, <2>4
<1>8. CASE ReplaceList(t)
  <2>1. queue' = thread[t].copy /\ Over(t)
    BY <1>0, <1>8, <1>b, BindOver DEF ReplaceList
  <2>2. /\ accepted' = accepted /\ reported' = reported \union {thread[t].cmd}
        /\ expired' = expired
    BY <1>8 DEF ReplaceList
  <2>3. \A c \in ToSet(queue) : c \in ToSet(queue') \/ c = thread[t].cmd
    BY <1>0, <1>8, <1>b, <2>1 DEF ReplaceList, Alone
  <2> QED BY <1>2, <1>4, <2>1, <2>2, <2>3
<1>9. CASE PruneReplaces(t)
  <2>1. queue' = thread[t].copy /\ Over(t)
    BY <1>0, <1>9, <1>b, BindOver DEF PruneReplaces
  <2>2. /\ accepted' = accepted /\ reported' = reported
        /\ expired' = expired \union {c \in ToSet(queue) \ ToSet(thread[t].copy) : age[c] >= 2}
    BY <1>9 DEF PruneReplaces
  <2>3. \A c \in ToSet(queue) : c \in ToSet(queue') \/ c \in expired'
    BY <1>0, <1>9, <1>b, <2>1, <2>2 DEF PruneReplaces, Alone
  <2> QED BY <1>2, <1>4, <2>1, <2>2, <2>3
<1> QED BY <1>5, <1>6, <1>7, <1>8, <1>9 DEF PanelStep

LEMMA KeptOthers ==
  ASSUME KeptInv, "list" \notin raced, UNCHANGED <<queue, thread, accepted, reported, expired>>,
         \A c \in Commands : age[c] >= 2 => age'[c] >= 2
  PROVE  Kept' /\ \A t \in Threads : HoldsList(t)' => Alone(t)'
<1>1. Kept'
  BY DEF KeptInv, Kept, Queued
<1>2. ToSet(queue) \subseteq Commands
  <2>1. queue \in Seq(Commands)
    BY DEF KeptInv, QueueInv, QueueTypeOK, PanelTypeOK
  <2> QED BY <2>1 DEF ToSet
<1>3. ASSUME NEW t \in Threads, HoldsList(t)' PROVE Alone(t)'
  BY <1>2, <1>3 DEF KeptInv, Alone, HoldsList
<1> QED BY <1>1, <1>3

(* What a thread knows stays true while another one takes its step.        *)
LEMMA AloneOthers ==
  ASSUME KeptInv, "list" \notin raced, NEW t \in Threads, PanelStep(t) \/ PanelStarts(t),
         NEW u \in Threads, u # t, HoldsList(u)'
  PROVE  Alone(u)'
<1>0. PanelTypeOK /\ Overlaps \subseteq raced
  BY DEF KeptInv, QueueInv, QueueTypeOK
<1>1. SameWork(u) /\ (HoldsList(t) \/ queue' = queue) /\ (Replaces(t) \/ thread'[u] = thread[u])
  BY <1>0, OthersStay
<1>2. HoldsList(u) /\ Alone(u)
  BY <1>1 DEF KeptInv, SameWork, HoldsList
<1>3. ~Replaces(t) /\ thread'[u] = thread[u]
  BY <1>0, <1>1, <1>2, Unraced
<1>4. age' = age
  BY DEF PanelStep, PanelStarts, TakeList, TakeListLocked, Optimize, FindUpdate, ReceiveResult,
         Prune, AppendCommand, TakeListForUpdate, InsertUpdate, PromoteUpdate, ReplaceList,
         PruneReplaces
<1>5. CASE Replaces(u)
  <2>1. queue' = queue
    BY <1>0, <1>1, <1>5, Unraced
  <2> QED BY <1>2, <1>3, <1>4, <2>1 DEF Alone
<1>6. CASE ~Replaces(u)
  BY <1>2, <1>3, <1>6 DEF Alone, Replaces
<1> QED BY <1>5, <1>6

LEMMA KeptStep == KeptInv /\ [QueueNext]_<<queueVars, raced>> => KeptInv'
<1> SUFFICES ASSUME KeptInv, [QueueNext]_<<queueVars, raced>> PROVE KeptInv'
  OBVIOUS
<1>0. /\ QueueInv /\ QueueInv' /\ age \in [Commands -> Nat] /\ (Overlaps \subseteq raced)'
      /\ [QueueSteps]_queueVars /\ raced \subseteq raced'
  BY QueueInvStep, OverlapsNoted, StepOfQueue DEF KeptInv, QueueInv, QueueTypeOK, PanelTypeOK
<1>1. SUFFICES ASSUME "list" \notin raced'
               PROVE  Kept' /\ \A t \in Threads : HoldsList(t)' => Alone(t)'
  BY <1>0 DEF KeptInv
<1>a. "list" \notin raced
  BY <1>0, <1>1
<1>2. ASSUME NEW t \in Threads, PanelStep(t) \/ PanelStarts(t)
      PROVE  Kept' /\ \A u \in Threads : HoldsList(u)' => Alone(u)'
  <2>1. Kept' /\ Alone(t)'
    BY <1>a, <1>2, AloneStart, AloneSecond
  <2> QED BY <1>a, <1>2, <2>1, AloneOthers
<1>3. CASE WaiterLooks \/ WaiterGivesUp \/ NodeStep \/ PostFails \/ Restart \/ Crash
           \/ UNCHANGED queueVars
  <2>1. UNCHANGED <<queue, thread, age, accepted, reported, expired>>
    BY <1>3 DEF WaiterLooks, WaiterGivesUp, NodeStep, Poll, NextCommand, RunCommand, StartUpdate,
                EndUpdate, RunHandoff, ResultPosted, PostFails, Restart, Crash, NewProcess,
                panelVars, seenVars, queueVars
  <2> QED BY <1>a, <2>1, KeptOthers
<1>4. ASSUME NEW c \in Commands, Grow(c)
      PROVE  Kept' /\ \A u \in Threads : HoldsList(u)' => Alone(u)'
  <2>1. UNCHANGED <<queue, thread, accepted, reported, expired>>
    BY <1>4 DEF Grow, seenVars
  <2>2. \A d \in Commands : age[d] >= 2 => age'[d] >= 2
    BY <1>0, <1>4 DEF Grow
  <2> QED BY <1>a, <2>1, <2>2, KeptOthers
<1> QED BY <1>0, <1>2, <1>3, <1>4 DEF QueueSteps

LEMMA KeptInit == QueueInit => KeptInv
<1> SUFFICES ASSUME QueueInit PROVE KeptInv
  OBVIOUS
<1>1. accepted = {} /\ \A t \in Threads : thread[t] = Free
  BY DEF QueueInit
<1>2. \A t \in Threads : ~HoldsList(t) /\ ~RequestsUpdate(t)
  BY <1>1, FreeFields DEF HoldsList, RequestsUpdate
<1>3. Overlaps = {}
  BY <1>2 DEF Overlaps, Overlap
<1> QED BY <1>1, <1>2, <1>3, QueueInitInv DEF KeptInv, Kept

(* For any threads, commands and failures: unless a thread of the panel    *)
(* has replaced the list while another one held it (the result handler or  *)
(* a pruning beside a queue function, queue_node_update or each other), a  *)
(* command accepted for a node stays in its list until its result was      *)
(* handled or it is 900 s old.                                             *)
THEOREM AcceptedAreKept == QueueSpec => []KeptUntilDone
<1>1. KeptInv => KeptUntilDone
  BY DEF KeptInv, Kept, KeptUntilDone
<1> QED BY <1>1, KeptStep, KeptInit, PTL DEF QueueSpec

-----------------------------------------------------------------------------
(* Threads that do not race queue one update, and a restart cuts none.     *)
LEMMA OneAppend ==
  ASSUME NEW s \in Seq(Commands), NEW c \in Commands, OneUpdate(s), ~IsUpdate(c)
  PROVE  OneUpdate(Append(s, c))
<1>1. PICK w : w = Append(s, c)
  OBVIOUS
<1>2. Len(w) = Len(s) + 1 /\ w[Len(s) + 1] = c /\ \A i \in 1 .. Len(s) : w[i] = s[i]
  BY <1>1
<1>3. ASSUME NEW i \in 1 .. Len(w), IsUpdate(w[i]) PROVE i \in 1 .. Len(s) /\ w[i] = s[i]
  <2>1. i # Len(s) + 1
    BY <1>2, <1>3
  <2>2. i \in 1 .. Len(s)
    BY <1>2, <2>1
  <2> QED BY <1>2, <2>2
<1>4. ASSUME NEW i \in 1 .. Len(w), NEW j \in 1 .. Len(w), IsUpdate(w[i]), IsUpdate(w[j])
      PROVE  i = j
  BY <1>3, <1>4 DEF OneUpdate
<1> QED BY <1>1, <1>4 DEF OneUpdate

LEMMA OneFirst ==
  ASSUME NEW s \in Seq(Commands), NEW c \in Commands, NoUpdate(s)
  PROVE  OneUpdate(<<c>> \o s)
<1>1. PICK w : w = <<c>> \o s
  OBVIOUS
<1>2. Len(w) = Len(s) + 1 /\ w[1] = c /\ \A i \in 1 .. Len(s) : w[i + 1] = s[i]
  BY <1>1, PutFirst
<1>3. ASSUME NEW i \in 1 .. Len(w), IsUpdate(w[i]) PROVE i = 1
  <2>1. CASE i # 1
    <3>1. PICK a \in 1 .. Len(s) : i = a + 1
      <4>1. i - 1 \in 1 .. Len(s) /\ i = (i - 1) + 1
        BY <1>2, <2>1
      <4> QED BY <4>1
    <3> QED BY <1>2, <1>3, <3>1 DEF NoUpdate
  <2> QED BY <2>1
<1>4. ASSUME NEW i \in 1 .. Len(w), NEW j \in 1 .. Len(w), IsUpdate(w[i]), IsUpdate(w[j])
      PROVE  i = j
  BY <1>3, <1>4
<1> QED BY <1>1, <1>4 DEF OneUpdate

LEMMA NoneLeft ==
  ASSUME NEW s \in Seq(Commands), OneUpdate(s), NEW c \in ToSet(s), IsUpdate(c)
  PROVE  NoUpdate(Without(s, {c}))
<1>1. PICK L \in Nat : L = Len(s)
  OBVIOUS
<1>2. PICK w \in Seq(Commands) : w = Without(s, {c})
  BY WithoutIs
<1>3. ASSUME NEW i \in 1 .. Len(w), IsUpdate(w[i]) PROVE FALSE
  <2>1. w[i] \in ToSet(w)
    <3>1. i \in DOMAIN w
      BY <1>2, <1>3
    <3> QED BY <3>1 DEF ToSet
  <2>2. w[i] \in ToSet(s) /\ w[i] # c
    BY <1>2, <2>1, WithoutIs
  <2>3. PICK a \in 1 .. L, b \in 1 .. L : s[a] = w[i] /\ s[b] = c
    BY <1>1, <2>2 DEF ToSet
  <2>4. a = b
    BY <1>1, <1>3, <2>3 DEF OneUpdate
  <2> QED BY <2>2, <2>3, <2>4
<1> QED BY <1>2, <1>3 DEF NoUpdate

LEMMA NoUpdateIn ==
  ASSUME NEW s \in Seq(Commands) PROVE NoUpdate(s) <=> \A c \in ToSet(s) : ~IsUpdate(c)
<1>1. DOMAIN s = 1 .. Len(s)
  OBVIOUS
<1> QED BY <1>1 DEF NoUpdate, ToSet

LEMMA NoneIsOne == ASSUME NEW s, NoUpdate(s) PROVE OneUpdate(s)
BY DEF NoUpdate, OneUpdate

(* The batch of a poll, and what is left of one.                           *)
LEMMA BatchBegins ==
  ASSUME NEW s \in Seq(Commands), NEW n \in 0 .. Len(s), Sorted(s), OneUpdate(s)
  PROVE  Sorted(SubSeq(s, 1, n)) /\ OneUpdate(SubSeq(s, 1, n))
<1>1. PICK w : w = SubSeq(s, 1, n)
  OBVIOUS
<1>2. Len(w) = n /\ \A i \in 1 .. n : w[i] = s[i] /\ i \in 1 .. Len(s)
  BY <1>1, BatchIs
<1>3. Sorted(w)
  BY <1>2 DEF Sorted
<1>4. OneUpdate(w)
  BY <1>2 DEF OneUpdate
<1> QED BY <1>1, <1>3, <1>4

LEMMA BatchEnds ==
  ASSUME NEW s \in Seq(Commands), s # <<>>, Sorted(s), OneUpdate(s)
  PROVE  NoUpdate(Tail(s)) /\ (NoUpdate(s) => ~IsUpdate(Head(s)))
<1>1. PICK L \in Nat : L = Len(s) /\ L # 0
  BY HeadAndTailOf
<1>2. PICK w : w = Tail(s)
  OBVIOUS
<1>3. Len(w) = L - 1 /\ Head(s) = s[1] /\ \A i \in 1 .. L - 1 : w[i] = s[i + 1]
  BY <1>1, <1>2, HeadAndTailOf
<1>4. ASSUME NEW i \in 1 .. L - 1, IsUpdate(w[i]) PROVE FALSE
  <2>1. i + 1 \in 1 .. L /\ 1 \in 1 .. L /\ 1 < i + 1 /\ i + 1 # 1
    BY <1>1
  <2>2. IsUpdate(s[i + 1])
    BY <1>3, <1>4
  <2>3. IsUpdate(s[1])
    BY <1>1, <2>1, <2>2 DEF Sorted
  <2> QED BY <1>1, <2>1, <2>2, <2>3 DEF OneUpdate
<1>5. NoUpdate(w)
  BY <1>3, <1>4 DEF NoUpdate
<1>6. NoUpdate(s) => ~IsUpdate(Head(s))
  <2>1. 1 \in 1 .. L
    BY <1>1
  <2> QED BY <1>1, <1>3, <2>1 DEF NoUpdate
<1> QED BY <1>2, <1>5, <1>6

LEMMA OneStart ==
  ASSUME QueueInv, CutCore, Older(3) = {}, NEW t \in Threads, PanelStarts(t)
  PROVE  OneUpdate(queue') /\ thread'[t].fresh /\ OneQueued(t)'
<1>0. /\ PanelTypeOK /\ NodeTypeOK /\ queue \in Seq(Commands) /\ age \in [Commands -> Nat]
      /\ OneUpdate(queue)
  BY DEF CutCore, QueueInv, QueueTypeOK, PanelTypeOK
<1>1. queue' = queue
  BY DEF PanelStarts, TakeList, TakeListLocked, Optimize, FindUpdate, ReceiveResult, Prune
<1>2. OneUpdate(queue')
  BY <1>0, <1>1
<1>3. ASSUME NEW c \in Commands, Begins(t, "append", c, <<>>)
      PROVE  thread'[t].fresh /\ OneQueued(t)'
  <2>1. thread'[t].op = "append" /\ thread'[t].fresh = TRUE /\ thread'[t].copy = <<>>
    <3>1. "append" \in Ops /\ <<>> \in Seq(Commands)
      BY DEF Ops
    <3> QED BY <1>0, <1>3, <3>1, BeginsIs
  <2> QED BY <2>1, SortedEmpty DEF OneQueued
<1>4. ASSUME NEW c \in Commands, TakeList(t, c) \/ TakeListLocked(t, c) \/ Optimize(t, c)
      PROVE  thread'[t].fresh /\ OneQueued(t)'
  <2>1. Begins(t, "append", c, <<>>)
    BY <1>4 DEF TakeList, TakeListLocked, Optimize
  <2> QED BY <1>3, <2>1
<1>5. ASSUME NEW c \in Commands, FindUpdate(t, c)
      PROVE  thread'[t].fresh /\ OneQueued(t)'
  <2>1. CASE Begins(t, "build", c, <<>>) /\ OfKind("update") \subseteq Older(3)
    <3>2. NoUpdate(queue)
      <4>1. ASSUME NEW i \in 1 .. Len(queue), IsUpdate(queue[i]) PROVE FALSE
        <5>1. queue[i] \in OfKind("update")
          BY <1>0, <4>1 DEF OfKind, IsUpdate, ToSet
        <5> QED BY <2>1, <5>1
      <4> QED BY <4>1 DEF NoUpdate
    <3>3. thread'[t].op = "build" /\ thread'[t].fresh = TRUE /\ thread'[t].copy = <<>>
      <4>1. "build" \in Ops /\ <<>> \in Seq(Commands)
        BY DEF Ops
      <4> QED BY <1>0, <2>1, <4>1, BeginsIs
    <3>4. NoUpdate(queue')
      BY <1>1, <3>2
    <3> QED BY <3>3, <3>4, SortedEmpty DEF OneQueued
  <2>2. ASSUME NEW d \in OfKind("update"), d \in Commands, Begins(t, "promote", d, <<>>)
        PROVE  thread'[t].fresh /\ OneQueued(t)'
    <3>1. /\ thread'[t].op = "promote" /\ thread'[t].fresh = TRUE /\ thread'[t].copy = <<>>
          /\ thread'[t].cmd = d
      <4>1. "promote" \in Ops /\ <<>> \in Seq(Commands) /\ d \in Commands \union {None}
        BY <2>2 DEF Ops
      <4> QED BY <1>0, <2>2, <4>1, BeginsIs
    <3>2. \A e \in ToSet(queue') : IsUpdate(e) => e = d
      <4>1. PICK a \in 1 .. Len(queue) : queue[a] = d
        <5>1. d \in ToSet(queue) /\ DOMAIN queue = 1 .. Len(queue)
          BY <1>0, <2>2 DEF OfKind
        <5> QED BY <5>1 DEF ToSet
      <4>2. ASSUME NEW e \in ToSet(queue), IsUpdate(e) PROVE e = d
        <5>1. PICK i \in 1 .. Len(queue) : queue[i] = e
          BY <1>0, <4>2 DEF ToSet
        <5>2. IsUpdate(d)
          BY <2>2 DEF OfKind, IsUpdate
        <5> QED BY <1>0, <4>1, <4>2, <5>1, <5>2 DEF OneUpdate
      <4> QED BY <1>1, <4>2
    <3> QED BY <3>1, <3>2, SortedEmpty DEF OneQueued
  <2> QED BY <1>0, <1>5, <2>1, <2>2, FindsUpdate
<1>6. ASSUME NEW op \in {"report", "prune"}, NEW c \in Commands \union {None}, NEW C,
             Begins(t, op, c, Without(queue, C))
      PROVE  thread'[t].fresh /\ OneQueued(t)'
  <2>1. PICK copy \in Seq(Commands) : /\ copy = Without(queue, C) /\ OneUpdate(copy)
                                      /\ ToSet(copy) \subseteq ToSet(queue)
    BY <1>0, WithoutIs, WithoutSorted
  <2>2. op \in Ops /\ Begins(t, op, c, copy)
    BY <1>6, <2>1 DEF Ops
  <2>3. thread'[t].op = op /\ thread'[t].fresh = TRUE /\ thread'[t].copy = copy
    BY <1>0, <2>2, BeginsIs
  <2> QED BY <1>1, <2>1, <2>3 DEF OneQueued
<1>7. ASSUME NEW m \in inbox, ReceiveResult(t, m) PROVE thread'[t].fresh /\ OneQueued(t)'
  <2>1. m[1] \in Commands \union {None} /\ Begins(t, "report", m[1], Without(queue, {m[1]}))
    BY <1>0, <1>7 DEF NodeTypeOK, ReceiveResult, Reporting
  <2> QED BY <1>6, <2>1
<1>8. ASSUME NEW limit \in 2 .. 3, Prune(t, limit) PROVE thread'[t].fresh /\ OneQueued(t)'
  <2>1. Begins(t, "prune", None, Without(queue, Older(limit)))
    BY <1>8 DEF Prune
  <2> QED BY <1>6, <2>1
<1>9. thread'[t].fresh /\ OneQueued(t)'
  BY <1>4, <1>5, <1>7, <1>8 DEF PanelStarts
<1> QED BY <1>2, <1>9

LEMMA OneSecond ==
  ASSUME QueueInv, CutCore, NEW t \in Threads, PanelStep(t)
  PROVE  OneUpdate(queue') /\ thread'[t].fresh /\ OneQueued(t)'
<1>0. /\ PanelTypeOK /\ queue \in Seq(Commands) /\ OneUpdate(queue) /\ HalfDone(t)
      /\ HoldsList(t) => thread[t].fresh
      /\ OneQueued(t) /\ thread[t].copy \in Seq(Commands)
  BY DEF CutCore, QueueInv, QueueTypeOK, PanelTypeOK, ThreadStates
<1>1. ASSUME Over(t) PROVE thread'[t].fresh /\ OneQueued(t)'
  <2>1. thread'[t].op = "free" /\ thread'[t].fresh = TRUE /\ thread'[t].copy = <<>>
    BY <1>1, FreeFields DEF Over
  <2> QED BY <2>1, SortedEmpty DEF OneQueued
<1>a. AppendCommand(t) \/ InsertUpdate(t) \/ PromoteUpdate(t) => thread[t].fresh
  BY <1>0 DEF AppendCommand, InsertUpdate, PromoteUpdate, HoldsList
<1>2. CASE AppendCommand(t)
  <2>1. thread[t].cmd \in Commands /\ ~IsUpdate(thread[t].cmd)
    BY <1>0, <1>2 DEF AppendCommand, HalfDone
  <2>2. queue' = Append(queue, thread[t].cmd) /\ Over(t)
    BY <1>0, <1>a, <1>2, ChangeOver DEF AppendCommand
  <2>3. OneUpdate(queue')
    BY <1>0, <2>1, <2>2, OneAppend
  <2> QED BY <1>1, <2>2, <2>3
<1>3. CASE InsertUpdate(t) \/ PromoteUpdate(t)
  <2>1. thread[t].cmd \in Commands
    BY <1>0, <1>3 DEF InsertUpdate, PromoteUpdate, HalfDone
  <2>2. PICK s \in Seq(Commands) : queue' = <<thread[t].cmd>> \o s /\ NoUpdate(s)
    <3>1. CASE InsertUpdate(t)
      BY <1>0, <1>a, <3>1, ChangeOver DEF InsertUpdate, OneQueued
    <3>2. CASE PromoteUpdate(t)
      BY <1>0, <1>a, <3>2, ChangeOver DEF PromoteUpdate, OneQueued
    <3> QED BY <1>3, <3>1, <3>2
  <2>3. OneUpdate(queue')
    BY <2>1, <2>2, OneFirst
  <2>4. Over(t)
    BY <1>0, <1>a, <1>3, ChangeOver DEF InsertUpdate, PromoteUpdate
  <2> QED BY <1>1, <2>3, <2>4
<1>4. CASE TakeListForUpdate(t)
  <2>1. queue' = queue /\ OneUpdate(queue') /\ t \in DOMAIN thread
    BY <1>0, <1>4 DEF TakeListForUpdate, PanelTypeOK
  <2>2. CASE thread[t].op = "build"
    <3>1. thread' = [thread EXCEPT ![t] = [op |-> "insert", cmd |-> thread[t].cmd,
                                           fresh |-> TRUE, copy |-> <<>>]]
      BY <1>4, <2>2 DEF TakeListForUpdate
    <3>2. thread'[t].op = "insert" /\ thread'[t].fresh = TRUE /\ thread'[t].copy = <<>>
      BY <2>1, <3>1
    <3>3. NoUpdate(queue')
      BY <1>0, <2>1, <2>2 DEF OneQueued
    <3> QED BY <2>1, <3>2, <3>3, SortedEmpty DEF OneQueued
  <2>3. CASE thread[t].op = "promote"
    <3>1. thread' = [thread EXCEPT ![t] = [op |-> "first", cmd |-> thread[t].cmd, fresh |-> TRUE,
                                           copy |-> Without(queue, {thread[t].cmd})]]
      BY <1>4, <2>3 DEF TakeListForUpdate
    <3>2. /\ thread'[t].op = "first" /\ thread'[t].fresh = TRUE
          /\ thread'[t].copy = Without(queue, {thread[t].cmd})
      BY <2>1, <3>1
    <3>3. /\ thread'[t].copy \in Seq(Commands)
          /\ \A c \in ToSet(thread'[t].copy) : c \in ToSet(queue) /\ c # thread[t].cmd
      BY <1>0, <3>2, WithoutIs
    <3>4. NoUpdate(thread'[t].copy)
      BY <1>0, <2>3, <3>3, NoUpdateIn DEF OneQueued
    <3>5. OneUpdate(thread'[t].copy)
      BY <3>4, NoneIsOne
    <3> QED BY <2>1, <3>2, <3>4, <3>5 DEF OneQueued
  <2> QED BY <1>4, <2>2, <2>3 DEF TakeListForUpdate
<1>5. CASE ReplaceList(t) \/ PruneReplaces(t)
  <2>1. queue' = thread[t].copy /\ Over(t)
    BY <1>0, <1>5, BindOver DEF ReplaceList, PruneReplaces
  <2>2. OneUpdate(queue')
    BY <1>0, <2>1 DEF OneQueued
  <2> QED BY <1>1, <2>1, <2>2
<1> QED BY <1>2, <1>3, <1>4, <1>5 DEF PanelStep

(* What the request of another thread has read stays so.                   *)
LEMMA OneOthers ==
  ASSUME QueueInv, QueueInv', CutCore, Overlaps \subseteq raced, raced = {}, NEW t \in Threads,
         PanelStep(t) \/ PanelStarts(t), NEW u \in Threads, u # t
  PROVE  (HoldsList(u)' => thread'[u].fresh) /\ OneQueued(u)'
<1>0. /\ PanelTypeOK /\ queue \in Seq(Commands) /\ queue' \in Seq(Commands) /\ OneQueued(u)
      /\ thread[t].copy \in Seq(Commands) /\ HalfDone(t) /\ OneQueued(t)
      /\ HoldsList(u) => thread[u].fresh
      /\ HoldsList(t) => thread[t].fresh
  BY DEF CutCore, QueueInv, QueueTypeOK, PanelTypeOK, ThreadStates
<1>1. SameWork(u) /\ (HoldsList(t) \/ queue' = queue) /\ (Replaces(t) \/ thread'[u] = thread[u])
  BY <1>0, OthersStay
<1>2. HoldsList(u)' => thread'[u].fresh
  <2>1. HoldsList(u)' => HoldsList(u)
    BY <1>1 DEF HoldsList, SameWork
  <2> QED BY <1>0, <1>1, <2>1, Unraced
<1>3. HoldsList(t) => ~Replaces(u)
  BY Unraced
<1>4. RequestsUpdate(u) => \A c \in ToSet(queue') : IsUpdate(c) => c \in ToSet(queue)
  <2> SUFFICES ASSUME RequestsUpdate(u), NEW c \in ToSet(queue'), IsUpdate(c)
               PROVE  c \in ToSet(queue)
    OBVIOUS
  <2>1. ~RequestsUpdate(t)
    BY Unraced
  <2>2. CASE AppendCommand(t)
    <3>1. thread[t].cmd \in Commands /\ ~IsUpdate(thread[t].cmd)
      BY <1>0, <2>2 DEF AppendCommand, HalfDone
    <3>2. queue' = Append(queue, thread[t].cmd)
      BY <1>0, <2>2, ChangeOver DEF AppendCommand, HoldsList
    <3>3. ToSet(queue') = ToSet(queue) \union {thread[t].cmd}
      BY <1>0, <3>1, <3>2, InSeq
    <3> QED BY <3>1, <3>3
  <2>3. CASE ReplaceList(t) \/ PruneReplaces(t)
    <3>1. queue' = thread[t].copy
      BY <1>0, <2>3, BindOver DEF ReplaceList, PruneReplaces
    <3>2. ToSet(thread[t].copy) \subseteq ToSet(queue)
      BY <1>0, <2>3 DEF ReplaceList, PruneReplaces, OneQueued
    <3> QED BY <3>1, <3>2
  <2>4. CASE queue' = queue
    BY <2>4
  <2>5. CASE InsertUpdate(t) \/ PromoteUpdate(t)
    BY <2>1, <2>5 DEF InsertUpdate, PromoteUpdate, RequestsUpdate
  <2>6. TakeListForUpdate(t) => queue' = queue
    BY DEF TakeListForUpdate
  <2>7. PanelStarts(t) => queue' = queue
    BY DEF PanelStarts, TakeList, TakeListLocked, Optimize, FindUpdate, ReceiveResult, Prune
  <2> QED BY <2>2, <2>3, <2>4, <2>5, <2>6, <2>7 DEF PanelStep
<1>5. thread[u].op \in {"build", "insert"} => NoUpdate(queue')
  <2>1. thread[u].op \in {"build", "insert"} => RequestsUpdate(u) /\ NoUpdate(queue)
    BY <1>0 DEF RequestsUpdate, OneQueued
  <2> QED BY <1>0, <1>4, <2>1, NoUpdateIn
<1>6. thread[u].op = "promote" => \A c \in ToSet(queue') : IsUpdate(c) => c = thread[u].cmd
  BY <1>0, <1>4 DEF RequestsUpdate, OneQueued
<1>7. thread[u].op \in {"report", "prune"} => ToSet(thread[u].copy) \subseteq ToSet(queue')
  BY <1>0, <1>1, <1>3 DEF Replaces, OneQueued
<1>8. OneQueued(u)'
  <2>1. OneUpdate(thread[u].copy) /\ (thread[u].op = "first" => NoUpdate(thread[u].copy))
    BY <1>0 DEF OneQueued
  <2> QED BY <1>1, <1>5, <1>6, <1>7, <2>1 DEF OneQueued, SameWork, OneUpdate, NoUpdate, IsUpdate
<1> QED BY <1>2, <1>8

LEMMA BatchKept ==
  ASSUME BatchOK, UNCHANGED <<node, restart>> PROVE BatchOK'
BY DEF BatchOK, Sorted, OneUpdate, NoUpdate, IsUpdate

(* The node's step with the batch b that it has left afterwards.           *)
LEMMA BatchFrom ==
  ASSUME NEW b, node'.batch = b, Sorted(b), OneUpdate(b),
         node'.pc \in {"run", "apply", "wait"} => NoUpdate(b),
         restart' => /\ NoUpdate(b) /\ node'.pc # "apply"
                     /\ node'.pc = "run" => ~IsUpdate(node'.cmd)
  PROVE  BatchOK'
<1>1. Sorted(node'.batch) /\ OneUpdate(node'.batch)
  OBVIOUS
<1>2. node'.pc \in {"run", "apply", "wait"} => NoUpdate(node'.batch)
  OBVIOUS
<1>3. restart' => /\ NoUpdate(node'.batch) /\ node'.pc # "apply"
                  /\ node'.pc = "run" => ~IsUpdate(node'.cmd)
  OBVIOUS
<1> QED BY <1>1, <1>2, <1>3 DEF BatchOK, Sorted, OneUpdate, NoUpdate, IsUpdate

LEMMA NodeKeepsBatch ==
  ASSUME QueueInv, CutCore, NodeStep PROVE BatchOK'
<1>0. /\ node \in NodeStates /\ node.batch \in Seq(Commands) /\ queue \in Seq(Commands)
      /\ Sorted(queue) /\ OneUpdate(queue) /\ BatchOK
  BY DEF CutCore, QueueInv, QueueTypeOK, PanelTypeOK, NodeTypeOK, NodeStates
<1>1. /\ Sorted(node.batch) /\ OneUpdate(node.batch)
      /\ node.pc \in {"run", "apply", "wait"} => NoUpdate(node.batch)
      /\ restart => /\ NoUpdate(node.batch) /\ node.pc # "apply"
                    /\ node.pc = "run" => ~IsUpdate(node.cmd)
  BY <1>0 DEF BatchOK
<1>2. ASSUME Poll PROVE BatchOK'
  <2>1. PICK n \in 0 .. Len(queue) : node' = [Idle EXCEPT !.pc = "next", !.batch = SubSeq(queue, 1, n)]
    <3>1. (IF Len(queue) < Window THEN Len(queue) ELSE Window) \in 0 .. Len(queue)
      BY <1>0, WindowAssumption
    <3> QED BY <1>2, <3>1 DEF Poll
  <2>2. node'.pc = "next" /\ node'.batch = SubSeq(queue, 1, n) /\ ~restart'
    BY <1>2, <2>1 DEF Poll, Idle
  <2>3. Sorted(SubSeq(queue, 1, n)) /\ OneUpdate(SubSeq(queue, 1, n))
    BY <1>0, BatchBegins
  <2> QED BY <2>2, <2>3, BatchFrom
<1>3. ASSUME NextCommand PROVE BatchOK'
  <2>1. CASE node.batch = <<>>
    <3>1. node'.batch = <<>> /\ node'.pc = "idle"
      BY <1>3, <2>1, IdleIs DEF NextCommand
    <3> QED BY <3>1, SortedEmpty, BatchFrom
  <2>2. CASE node.batch # <<>>
    <3>1. PICK b \in Seq(Commands) : b = Tail(node.batch)
      BY <1>0, <2>2, HeadAndTailOf
    <3>2. NoUpdate(b) /\ (NoUpdate(node.batch) => ~IsUpdate(Head(node.batch)))
      BY <1>0, <1>1, <2>2, <3>1, BatchEnds
    <3>3. node' = [node EXCEPT !.pc = "run", !.cmd = Head(node.batch),
                               !.batch = Tail(node.batch), !.restart = FALSE]
      BY <1>3, <2>2 DEF NextCommand
    <3>4. node'.pc = "run" /\ node'.batch = b /\ node'.cmd = Head(node.batch)
      BY <1>0, <3>1, <3>3 DEF NodeStates
    <3>5. Sorted(b) /\ OneUpdate(b)
      BY <3>2 DEF NoUpdate, Sorted, OneUpdate
    <3>6. restart' = restart
      BY <1>3 DEF NextCommand
    <3> QED BY <1>1, <3>2, <3>4, <3>5, <3>6, BatchFrom
  <2> QED BY <2>1, <2>2
<1>4. ASSUME RunCommand \/ EndUpdate \/ RunHandoff PROVE BatchOK'
  <2>1. node'.pc = "wait" /\ node'.batch = node.batch /\ restart' = restart
    BY <1>0, <1>4 DEF RunCommand, EndUpdate, RunHandoff, Send, NodeStates
  <2>2. NoUpdate(node.batch)
    BY <1>1, <1>4 DEF RunCommand, EndUpdate, RunHandoff
  <2> QED BY <1>1, <2>1, <2>2, BatchFrom
<1>5. ASSUME StartUpdate PROVE BatchOK'
  <2>1. node'.pc = "apply" /\ node'.batch = node.batch /\ restart' = restart
    BY <1>0, <1>5 DEF StartUpdate, NodeStates
  <2>2. ~restart /\ NoUpdate(node.batch)
    BY <1>1, <1>5 DEF StartUpdate, IsUpdate
  <2> QED BY <1>1, <2>1, <2>2, BatchFrom
<1>6. ASSUME ResultPosted PROVE BatchOK'
  <2>1. node'.pc = "next" /\ node'.batch = node.batch
    BY <1>0, <1>6 DEF ResultPosted, NodeStates
  <2>2. NoUpdate(node.batch)
    BY <1>1, <1>6 DEF ResultPosted
  <2> QED BY <1>1, <2>1, <2>2, BatchFrom
<1> QED BY <1>2, <1>3, <1>4, <1>5, <1>6 DEF NodeStep

LEMMA FaultKeepsBatch ==
  ASSUME QueueInv, CutCore, PostFails \/ Restart \/ Crash PROVE BatchOK' /\ ~cut'
<1>0. /\ node \in NodeStates /\ BatchOK /\ ~cut
  BY DEF CutCore, QueueInv, QueueTypeOK, NodeTypeOK
<1>1. ASSUME PostFails PROVE BatchOK' /\ ~cut'
  <2>1. node'.pc = "next" /\ node'.batch = node.batch /\ restart' = restart /\ cut' = cut
    BY <1>0, <1>1 DEF PostFails, NodeStates, seenVars
  <2>2. Sorted(node.batch) /\ OneUpdate(node.batch) /\ (restart => NoUpdate(node.batch))
    BY <1>0 DEF BatchOK
  <2> QED BY <1>0, <2>1, <2>2, BatchFrom
<1>2. ASSUME NewProcess PROVE BatchOK'
  <2>1. node'.batch = <<>> /\ node'.pc = "idle"
    BY <1>2, IdleIs DEF NewProcess
  <2> QED BY <2>1, SortedEmpty, BatchFrom
<1>3. Restart => ~cut'
  BY <1>0 DEF Restart, BatchOK
<1>4. Crash => ~cut'
  BY <1>0 DEF Crash
<1> QED BY <1>1, <1>2, <1>3, <1>4 DEF Restart, Crash

(* An old command does not grow young again.                               *)
LEMMA OnlyOlder ==
  ASSUME QueueInv, [QueueSteps]_queueVars
  PROVE  Older(3) \subseteq Older(3)'
<1>0. age \in [Commands -> Nat]
  BY DEF QueueInv, QueueTypeOK, PanelTypeOK
<1>1. CASE age' = age
  BY <1>1 DEF Older
<1>2. ASSUME NEW d \in Commands, Grow(d) PROVE Older(3) \subseteq Older(3)'
  <2>1. age' = [age EXCEPT ![d] = age[d] + 1]
    BY <1>2 DEF Grow
  <2>2. \A c \in Commands : age[c] >= 3 => age'[c] >= 3
    BY <1>0, <2>1
  <2> QED BY <2>2 DEF Older
<1>3. age' = age \/ \E d \in Commands : Grow(d)
  BY DEF QueueSteps, PanelStep, PanelStarts, TakeList, TakeListLocked, Optimize, FindUpdate,
         ReceiveResult, Prune, AppendCommand, TakeListForUpdate, InsertUpdate, PromoteUpdate,
         ReplaceList, PruneReplaces, WaiterLooks, WaiterGivesUp, NodeStep, Poll, NextCommand,
         RunCommand, StartUpdate, EndUpdate, RunHandoff, ResultPosted, PostFails, Restart,
         Crash, NewProcess, panelVars, queueVars
<1> QED BY <1>1, <1>2, <1>3

LEMMA CutStep == CutInv /\ [QueueNext]_<<queueVars, raced>> => CutInv'
<1> SUFFICES ASSUME CutInv, [QueueNext]_<<queueVars, raced>> PROVE CutInv'
  OBVIOUS
<1>0. /\ QueueInv /\ QueueInv' /\ Overlaps \subseteq raced /\ (Overlaps \subseteq raced)'
      /\ [QueueSteps]_queueVars /\ raced \subseteq raced' /\ Older(3) \subseteq Older(3)'
  BY QueueInvStep, OverlapsNoted, StepOfQueue, OnlyOlder DEF CutInv
<1> SUFFICES ASSUME Calm' PROVE CutCore'
  BY <1>0 DEF CutInv
<1>1. raced = {} /\ Older(3) = {} /\ CutCore /\ ~cut /\ BatchOK
  BY <1>0 DEF CutInv, CutCore, Calm
<1>2. ASSUME NEW t \in Threads, PanelStep(t) \/ PanelStarts(t)
      PROVE  CutCore'
  <2>1. OneUpdate(queue') /\ thread'[t].fresh /\ OneQueued(t)'
    BY <1>0, <1>1, <1>2, OneStart, OneSecond
  <2>2. ASSUME NEW u \in Threads PROVE (HoldsList(u)' => thread'[u].fresh) /\ OneQueued(u)'
    BY <1>0, <1>1, <1>2, <2>1, OneOthers
  <2>3. UNCHANGED <<node, restart, cut>>
    BY <1>2 DEF PanelStep, PanelStarts, TakeList, TakeListLocked, Optimize, FindUpdate,
                ReceiveResult, Prune, AppendCommand, TakeListForUpdate, InsertUpdate,
                PromoteUpdate, ReplaceList, PruneReplaces, nodeVars, seenVars
  <2>4. BatchOK' /\ ~cut'
    BY <1>1, <2>3, BatchKept
  <2> QED BY <2>1, <2>2, <2>4 DEF CutCore, OneUpdate, IsUpdate
<1>3. ASSUME UNCHANGED <<queue, thread>>, BatchOK', ~cut' PROVE CutCore'
  <2>1. OneUpdate(queue')
    BY <1>1, <1>3 DEF CutCore
  <2>2. ASSUME NEW u \in Threads PROVE (HoldsList(u)' => thread'[u].fresh) /\ OneQueued(u)'
    BY <1>1, <1>3 DEF CutCore, OneQueued, NoUpdate, OneUpdate, IsUpdate, HoldsList
  <2> QED BY <1>3, <2>1, <2>2 DEF CutCore, OneUpdate, IsUpdate
<1>4. CASE WaiterLooks \/ WaiterGivesUp \/ (\E c \in Commands : Grow(c)) \/ UNCHANGED queueVars
  <2>1. UNCHANGED <<queue, thread, node, restart, cut>>
    BY <1>4 DEF WaiterLooks, WaiterGivesUp, Grow, panelVars, nodeVars, seenVars, queueVars
  <2> QED BY <1>1, <1>3, <2>1, BatchKept
<1>5. CASE NodeStep
  <2>1. UNCHANGED <<queue, thread, cut>>
    BY <1>5 DEF NodeStep, Poll, NextCommand, RunCommand, StartUpdate, EndUpdate, RunHandoff,
                ResultPosted, panelVars, seenVars
  <2> QED BY <1>0, <1>1, <1>3, <1>5, <2>1, NodeKeepsBatch
<1>6. CASE PostFails \/ Restart \/ Crash
  <2>1. UNCHANGED <<queue, thread>>
    BY <1>6 DEF PostFails, Restart, Crash, NewProcess, panelVars
  <2> QED BY <1>0, <1>1, <1>3, <1>6, <2>1, FaultKeepsBatch
<1> QED BY <1>0, <1>2, <1>4, <1>5, <1>6 DEF QueueSteps

LEMMA CutInit == QueueInit => CutInv
<1> SUFFICES ASSUME QueueInit PROVE CutInv
  OBVIOUS
<1>1. /\ queue = <<>> /\ cut = FALSE /\ node = Idle /\ restart = FALSE
      /\ \A t \in Threads : thread[t] = Free
  BY DEF QueueInit
<1>2. BatchOK
  <2>1. node.batch = <<>> /\ node.pc = "idle"
    BY <1>1, IdleIs
  <2> QED BY <1>1, <2>1, SortedEmpty DEF BatchOK
<1>3. \A t \in Threads : thread[t].fresh /\ OneQueued(t)
  BY <1>1, FreeFields, SortedEmpty DEF OneQueued
<1>4. OneUpdate(queue)
  BY <1>1, SortedEmpty
<1>5. Overlaps \subseteq raced
  BY KeptInit DEF KeptInv
<1> QED BY <1>1, <1>2, <1>3, <1>4, <1>5, QueueInitInv DEF CutInv, CutCore

(* For any threads, commands and failures: unless threads of the panel     *)
(* raced, or an update waited so long that queue_node_update takes it for  *)
(* stale, the restart that a reported command schedules never cuts an      *)
(* update short: what follows a command in a batch is no update.           *)
THEOREM UpdatesAreSpared == QueueSpec => []RestartSparesUpdates
<1>1. CutInv => RestartSparesUpdates
  BY DEF CutInv, CutCore, Calm, RestartSparesUpdates
<1> QED BY <1>1, CutStep, CutInit, PTL DEF QueueSpec
=============================================================================
