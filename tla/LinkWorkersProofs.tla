-------------------------- MODULE LinkWorkersProofs --------------------------
(* Proofs about LinkWorkers, for any number of thread slots.               *)
EXTENDS LinkWorkers, FiniteSetTheorems, TLAPS

(* Those that have passed the test of spawn_reverse_worker and have not    *)
(* registered the thread they start.                                       *)
Starters == {p \in Workers \cup {Guardian} : At(p, "start")}

(* Every spawn under way may still add a worker.  A spawn that begins      *)
(* finds fewer than Max workers, and only those and the guardian spawn.    *)
SpawnsBounded == Cardinality(registry) + Cardinality(Starters) <= 2 * Max - 1

Finite == IsFiniteSet(registry) /\ IsFiniteSet(sessions)
Planned == guard # "idle" => plan > 0
LInv == TypeOK /\ Finite /\ Planned /\ SpawnsBounded

LEMMA ReserveInRange ==
  ASSUME NEW active \in Nat, NEW ready \in Nat \ {0}
  PROVE  Reserve(active, ready) \in 1 .. Max
  BY MaxAssumption DEF Reserve

LEMMA DesiredInRange ==
  ASSUME NEW active \in Nat
  PROVE  DesiredWorkers(active) \subseteq 1 .. Max
  <1>1. MinReady \in Nat \ {0} /\ Half \in Nat \ {0}
    BY ReadyAssumption, MaxAssumption DEF Half
  <1>2. QED
    BY <1>1, ReserveInRange DEF DesiredWorkers

(* Spawns come from registered workers and from the guardian.              *)
StartersFew ==
  /\ IsFiniteSet(Starters)
  /\ Cardinality(registry) \in Nat /\ Cardinality(Starters) \in Nat
  /\ Cardinality(Starters) <= Cardinality(registry) + 1

LEMMA StartersFinite == TypeOK /\ Finite => StartersFew
  <1> SUFFICES ASSUME TypeOK, Finite PROVE StartersFew
    OBVIOUS
  <1>1. Starters \subseteq registry \cup {Guardian}
    BY DEF Starters, At, TypeOK
  <1>2. /\ IsFiniteSet(registry \cup {Guardian})
        /\ Cardinality(registry \cup {Guardian}) <= Cardinality(registry) + 1
        /\ Cardinality(registry) \in Nat
    <2>1. IsFiniteSet(registry) /\ Cardinality(registry) \in Nat
      BY FS_CardinalityType DEF Finite
    <2>2. QED
      BY <2>1, FS_AddElement
  <1>3. /\ IsFiniteSet(Starters) /\ Cardinality(Starters) \in Nat
        /\ Cardinality(Starters) <= Cardinality(registry \cup {Guardian})
    BY <1>1, <1>2, FS_Subset, FS_CardinalityType
  <1>4. Cardinality(registry \cup {Guardian}) \in Nat
    BY <1>2, FS_CardinalityType
  <1>5. QED
    BY <1>2, <1>3, <1>4 DEF StartersFew

LEMMA InitOK == Init => LInv
  <1> SUFFICES ASSUME Init PROVE LInv
    OBVIOUS
  <1>1. desired \in 1 .. Max
    BY DesiredInRange DEF Init
  <1>2. TypeOK
    BY <1>1 DEF Init, TypeOK, Place, SocketState
  <1>3. Finite /\ Cardinality(registry) = 0
    BY FS_EmptySet DEF Init, Finite
  <1>4. Planned
    BY <1>1 DEF Init, Planned
  <1>5. SpawnsBounded
    BY <1>2, <1>3, StartersFinite, MaxAssumption DEF SpawnsBounded, StartersFew
  <1>6. QED
    BY <1>2, <1>3, <1>4, <1>5 DEF LInv

(* The steps of a worker, and of its far ends, that neither start a thread *)
(* nor end one: up to the header, of a carrier, of a bond, of a session.   *)
Connects(w) ==
  \/ Top(w) \/ Dial(w) \/ TrackConn(w) \/ Wrap(w) \/ Handshake(w) \/ TrackTls(w)
  \/ TlsFails(w) \/ HandshakeFails(w) \/ NoHeader(w) \/ Header(w) \/ Grow(w)
Carries(w) == NoJoin(w) \/ MuxJoin(w) \/ CarrierEnds(w) \/ MuxFails(w)
Bonds(w) ==
  \/ BondJoin(w) \/ Lead(w) \/ LanesTimeout(w) \/ FollowerWakes(w)
  \/ BondEnds(w) \/ BondOver(w) \/ BondFails(w)
Serves(w) ==
  \/ DialLocal(w) \/ TrackLocal(w) \/ ConnectFails(w) \/ EnterBridge(w) \/ CallWaits(w)
  \/ CallEnds(w) \/ CallReturns(w) \/ BridgeEnds(w) \/ BridgeOver(w)
CarriesOn(w) == Connects(w) \/ Carries(w) \/ Bonds(w) \/ Serves(w)

(* Where they take a worker; only Lead moves others, to "follow".          *)
Onward == Place \ {"none", "start"}
Moves(w) ==
  /\ pc[w] \in Place \ {"none", "exit"} /\ pc' \in [Workers -> Place] /\ pc'[w] \in Onward
  /\ \A v \in Workers \ {w} : pc'[v] = pc[v] \/ (pc[v] = "lanes" /\ pc'[v] = "follow")

LEMMA GoesOn ==
  ASSUME TypeOK, NEW w \in Workers, NEW l \in Onward, Goto(w, l), pc[w] \notin {"none", "exit"}
  PROVE  Moves(w)
  BY DEF TypeOK, Moves, Onward, Goto

LEMMA CarriesOnControl ==
  ASSUME TypeOK, NEW w \in Workers, CarriesOn(w)
  PROVE  Moves(w) /\ UNCHANGED <<running, registry, guard, plan, stop>>
  <1> USE DEF linkVars
  <1>1. CASE Connects(w)
    <2>1. UNCHANGED <<running, registry, guard, plan, stop>>
      BY <1>1 DEF Connects, Top, Dial, TrackConn, Wrap, Handshake, TrackTls, TlsFails,
         HandshakeFails, NoHeader, Header, Grow
    <2>2. pc[w] \notin {"none", "exit"} /\ \E l \in Onward : Goto(w, l)
      BY <1>1 DEF Connects, Top, Dial, TrackConn, Wrap, Handshake, TrackTls, TlsFails,
         HandshakeFails, NoHeader, Header, Grow, Track, Retry, Onward, Place
    <2>3. QED
      BY <2>1, <2>2, GoesOn
  <1>2. CASE Carries(w)
    <2>1. UNCHANGED <<running, registry, guard, plan, stop>>
      BY <1>2 DEF Carries, NoJoin, MuxJoin, CarrierEnds, MuxFails
    <2>2. pc[w] \notin {"none", "exit"} /\ \E l \in Onward : Goto(w, l)
      BY <1>2 DEF Carries, NoJoin, MuxJoin, CarrierEnds, MuxFails, Onward, Place, Goto
    <2>3. QED
      BY <2>1, <2>2, GoesOn
  <1>3. CASE Bonds(w)
    <2>1. UNCHANGED <<running, registry, guard, plan, stop>>
      BY <1>3 DEF Bonds, BondJoin, Lead, LanesTimeout, FollowerWakes, BondEnds, BondOver, BondFails
    <2>2. CASE Lead(w)
      <3>1. PICK S \in SUBSET (Waiting \ {w}) :
              pc' = [v \in Workers |-> IF v \in S THEN "follow"
                                       ELSE IF v = w THEN "dial_local" ELSE pc[v]]
        BY <2>2 DEF Lead
      <3>2. QED
        BY <2>1, <2>2, <3>1 DEF Lead, Waiting, Moves, Onward, Place, TypeOK
    <2>3. CASE ~Lead(w)
      <3>1. pc[w] \notin {"none", "exit"} /\ \E l \in Onward : Goto(w, l)
        BY <1>3, <2>3 DEF Bonds, BondJoin, LanesTimeout, FollowerWakes, BondEnds, BondOver,
           BondFails, Onward, Place, Goto
      <3>2. QED
        BY <2>1, <3>1, GoesOn
    <2>4. QED
      BY <2>2, <2>3
  <1>4. CASE Serves(w)
    <2>1. UNCHANGED <<running, registry, guard, plan, stop>>
      BY <1>4 DEF Serves, DialLocal, TrackLocal, ConnectFails, EnterBridge, CallWaits, CallEnds,
         CallReturns, BridgeEnds, BridgeOver
    <2>2. pc[w] \notin {"none", "exit"} /\ \E l \in Onward : Goto(w, l)
      BY <1>4 DEF Serves, DialLocal, TrackLocal, ConnectFails, EnterBridge, CallWaits, CallEnds,
         CallReturns, BridgeEnds, BridgeOver, Track, Retry, Onward, Place
    <2>3. QED
      BY <2>1, <2>2, GoesOn
  <1>5. QED
    BY <1>1, <1>2, <1>3, <1>4 DEF CarriesOn

DataOK ==
  /\ desired \in 1 .. Max /\ IsFiniteSet(sessions) /\ sessions \subseteq Workers
  /\ tracked \subseteq Workers \X {"conn", "local"}
  /\ kind \in [Workers -> {"tcp", "mux", "bond"}] /\ lead \in [Workers -> Workers]
  /\ conn \in [Workers -> SocketState] /\ local \in [Workers -> SocketState]

LEMMA CarriesOnData ==
  ASSUME TypeOK, Finite, NEW w \in Workers, CarriesOn(w)
  PROVE  DataOK'
  <1> USE DEF TypeOK, SocketState, Closed, linkVars, DataOK
  <1>0. IsFiniteSet(sessions) /\ IsFiniteSet(sessions \cup {w}) /\ IsFiniteSet(sessions \ {w})
    BY FS_AddElement, FS_RemoveElement DEF Finite
  <1>1. CASE Top(w) \/ Dial(w) \/ Wrap(w) \/ Handshake(w)
    BY <1>0, <1>1 DEF Top, Dial, Wrap, Handshake
  <1>2. CASE TrackConn(w) \/ TrackTls(w) \/ TrackLocal(w)
    BY <1>0, <1>2 DEF TrackConn, TrackTls, TrackLocal, Track
  <1>3. CASE Header(w)
    BY <1>0, <1>3, KindsAssumption DEF Header
  <1>4. CASE Grow(w)
    <2>1. Cardinality(sessions) + 1 \in Nat
      BY <1>0, FS_CardinalityType
    <2>2. /\ Reserve(desired, 1) \in 1 .. Max
          /\ Reserve(Cardinality(sessions) + 1, MinReady) \in 1 .. Max
      BY <2>1, ReserveInRange, ReadyAssumption, MaxAssumption
    <2>3. QED
      BY <1>0, <1>4, <2>2 DEF Grow
  <1>5. CASE \/ TlsFails(w) \/ HandshakeFails(w) \/ NoHeader(w) \/ CarrierEnds(w)
             \/ MuxFails(w) \/ ConnectFails(w)
    BY <1>0, <1>5 DEF TlsFails, HandshakeFails, NoHeader, CarrierEnds, MuxFails, ConnectFails,
       CloseConn, CloseBoth
  <1>6. CASE NoJoin(w) \/ MuxJoin(w) \/ BondJoin(w) \/ LanesTimeout(w) \/ FollowerWakes(w)
    BY <1>0, <1>6 DEF NoJoin, MuxJoin, BondJoin, LanesTimeout, FollowerWakes
  <1>7. CASE Lead(w)
    BY <1>0, <1>7 DEF Lead
  <1>8. CASE BondEnds(w) \/ BondOver(w)
    <2>1. CASE BondEnds(w)
      <3>1. conn' \in [Workers -> SocketState] /\ local' \in [Workers -> SocketState]
        BY <2>1 DEF BondEnds
      <3>2. QED
        BY <1>0, <2>1, <3>1 DEF BondEnds
    <2>2. CASE BondOver(w)
      <3>1. lead' \in [Workers -> Workers]
        BY <2>2 DEF BondOver, ReleaseFollowers
      <3>2. QED
        BY <1>0, <2>2, <3>1 DEF BondOver
    <2>3. QED
      BY <1>8, <2>1, <2>2
  <1>9. CASE BondFails(w)
    BY <1>0, <1>9 DEF BondFails, ReleaseFollowers
  <1>10. CASE DialLocal(w) \/ EnterBridge(w) \/ CallWaits(w) \/ CallEnds(w) \/ CallReturns(w)
    BY <1>0, <1>10 DEF DialLocal, EnterBridge, CallWaits, CallEnds, CallReturns
  <1>11. CASE BridgeEnds(w) \/ BridgeOver(w)
    BY <1>0, <1>11 DEF BridgeEnds, BridgeOver
  <1>12. QED
    BY <1>1, <1>2, <1>3, <1>4, <1>5, <1>6, <1>7, <1>8, <1>9, <1>10, <1>11
    DEF CarriesOn, Connects, Carries, Bonds, Serves

(* With fewer workers or spawns the bound stays.                           *)
LEMMA FewerIsBounded ==
  ASSUME LInv, TypeOK', IsFiniteSet(sessions'),
         registry' \subseteq registry, Starters' \subseteq Starters
  PROVE  Finite' /\ SpawnsBounded'
  <1> USE DEF LInv
  <1>1. /\ IsFiniteSet(registry') /\ Cardinality(registry') \in Nat
        /\ Cardinality(registry') <= Cardinality(registry)
    BY FS_Subset, FS_CardinalityType DEF Finite
  <1>2. IsFiniteSet(Starters)
    BY StartersFinite DEF StartersFew
  <1>3. /\ Cardinality(Starters') \in Nat
        /\ Cardinality(Starters') <= Cardinality(Starters)
    BY <1>2, FS_Subset, FS_CardinalityType
  <1>4. Cardinality(registry) \in Nat /\ Cardinality(Starters) \in Nat
    BY StartersFinite DEF StartersFew
  <1>5. QED
    BY <1>1, <1>3, <1>4, MaxAssumption DEF Finite, SpawnsBounded

LEMMA CarriesOnStep ==
  ASSUME LInv, NEW w \in Workers, CarriesOn(w)
  PROVE  LInv'
  <1> USE DEF LInv
  <1>1. Moves(w) /\ UNCHANGED <<running, registry, guard, plan, stop>>
    BY CarriesOnControl
  <1>2. DataOK'
    BY CarriesOnData
  <1>3. registry' = {v \in Workers : pc'[v] # "none"}
    BY <1>1 DEF TypeOK, Moves, Onward
  <1>4. TypeOK' /\ IsFiniteSet(sessions') /\ Planned' /\ registry' = registry
    BY <1>1, <1>2, <1>3 DEF TypeOK, Planned, DataOK, Moves
  <1>5. Starters' \subseteq Starters
    BY <1>1, GuardianAssumption DEF Starters, At, TypeOK, Moves, Onward
  <1>6. QED
    BY <1>4, <1>5, FewerIsBounded

LEMMA SpawnCheckStep ==
  ASSUME LInv, NEW p \in Workers \cup {Guardian}, SpawnCheck(p)
  PROVE  LInv'
  <1> USE DEF LInv, linkVars
  <1>1. /\ pc' \in [Workers -> Place] /\ \A w \in Workers : pc'[w] = "none" <=> pc[w] = "none"
        /\ guard' \in {"idle", "check", "start"} /\ plan' \in 0 .. Max /\ Planned'
    <2>1. CASE p = Guardian
      <3> USE <2>1
      <3>1. guard = "check" /\ plan \in 1 .. Max /\ pc' = pc
        <4>1. guard = "check"
          BY DEF SpawnCheck, At
        <4>2. plan \in 1 .. Max
          BY <4>1, MaxAssumption DEF TypeOK, Planned
        <4>3. pc' = pc
          BY Zenon DEF SpawnCheck
        <4>4. QED
          BY <4>1, <4>2, <4>3
      <3>2. CASE MaySpawn
        BY <2>1, <3>1, <3>2 DEF SpawnCheck, TypeOK, Planned
      <3>3. CASE ~MaySpawn
        BY <2>1, <3>1, <3>3, MaxAssumption DEF SpawnCheck, Spawned, TypeOK, Planned
      <3>4. QED
        BY <3>2, <3>3
    <2>2. CASE p # Guardian
      BY <2>2 DEF SpawnCheck, Spawned, At, TypeOK, Planned, Goto, AfterSpawn, Place
    <2>3. QED
      BY <2>1, <2>2
  <1>2. TypeOK' /\ Finite'
    BY <1>1 DEF SpawnCheck, TypeOK, Finite
  <1>3. CASE MaySpawn
    <2>1. Cardinality(registry') <= Max - 1 /\ Cardinality(registry') \in Nat
      BY <1>3, StartersFinite, MaxAssumption DEF MaySpawn, SpawnCheck, TypeOK, StartersFew
    <2>2. StartersFew'
      BY <1>2, StartersFinite, PTL
    <2>3. SpawnsBounded'
      BY <2>1, <2>2, MaxAssumption DEF SpawnsBounded, StartersFew
    <2>4. QED
      BY <1>1, <1>2, <2>3
  <1>4. CASE ~MaySpawn
    <2>1. Starters' \subseteq Starters
      BY <1>4, GuardianAssumption
      DEF SpawnCheck, Spawned, Starters, At, Goto, AfterSpawn, TypeOK
    <2>2. registry' = registry /\ sessions' = sessions
      BY DEF SpawnCheck
    <2>3. QED
      BY <1>1, <1>2, <2>1, <2>2, FewerIsBounded DEF Finite
  <1>5. QED
    BY <1>3, <1>4

(* start_link_thread: the spawn under way becomes a registered worker.     *)
LEMMA StartThreadStep ==
  ASSUME LInv, NEW p \in Workers \cup {Guardian}, StartThread(p)
  PROVE  LInv'
  <1> USE DEF LInv, linkVars
  <1>1. PICK t \in Workers :
          /\ pc[t] = "none" /\ registry' = registry \cup {t}
          /\ pc' = [x \in Workers |-> IF x = t THEN "top"
                                      ELSE IF x = p THEN AfterSpawn(p) ELSE pc[x]]
    BY DEF StartThread
  <1>2. pc' \in [Workers -> Place] /\ \A w \in Workers : pc'[w] = "none" <=> pc[w] = "none" /\ w # t
    BY <1>1, GuardianAssumption DEF TypeOK, AfterSpawn, Place, StartThread, At
  <1>3. guard' \in {"idle", "check", "start"} /\ plan' \in 0 .. Max /\ Planned'
    <2>1. CASE p = Guardian
      <3>1. guard = "start" /\ plan \in 1 .. Max /\ plan' = plan - 1
        BY <2>1, MaxAssumption DEF StartThread, At, Spawned, TypeOK, Planned
      <3>2. guard' = IF plan' = 0 THEN "idle" ELSE "check"
        BY <2>1 DEF StartThread, Spawned
      <3>3. QED
        BY <3>1, <3>2, MaxAssumption DEF Planned
    <2>2. CASE p # Guardian
      BY <2>2 DEF StartThread, Spawned, TypeOK, Planned
    <2>3. QED
      BY <2>1, <2>2
  <1>4. TypeOK'
    BY <1>1, <1>2, <1>3 DEF StartThread, TypeOK
  <1>5. /\ Finite' /\ Cardinality(registry') = Cardinality(registry) + 1
    <2>1. t \notin registry
      BY <1>1 DEF TypeOK
    <2>2. QED
      BY <1>1, <2>1, FS_AddElement DEF Finite, StartThread
  <1>6. Starters' \subseteq Starters \ {p} /\ p \in Starters
    BY <1>1, GuardianAssumption
    DEF StartThread, Spawned, Starters, At, AfterSpawn, TypeOK
  <1>7. StartersFew /\ StartersFew'
    BY <1>4, <1>5, StartersFinite, PTL
  <1>8. Cardinality(Starters') <= Cardinality(Starters) - 1
    <2>1. IsFiniteSet(Starters \ {p}) /\ Cardinality(Starters \ {p}) = Cardinality(Starters) - 1
      BY <1>6, <1>7, FS_RemoveElement DEF StartersFew
    <2>2. QED
      BY <1>6, <2>1, FS_Subset
  <1>9. SpawnsBounded'
    BY <1>5, <1>7, <1>8, MaxAssumption DEF SpawnsBounded, StartersFew
  <1>10. QED
    BY <1>3, <1>4, <1>5, <1>9

(* A start that is refused or raises is no longer under way.               *)
LEMMA NoThreadStep ==
  ASSUME LInv, NEW p \in Workers \cup {Guardian}, StartRefused(p) \/ StartRaises(p)
  PROVE  LInv'
  <1> USE DEF LInv, linkVars
  <1>1. /\ pc' \in [Workers -> Place] /\ \A w \in Workers : pc'[w] = "none" <=> pc[w] = "none"
        /\ guard' \in {"idle", "check", "start"} /\ plan' \in 0 .. Max /\ Planned'
    <2>1. CASE p = Guardian
      BY <2>1, MaxAssumption DEF StartRefused, StartRaises, Spawned, TypeOK, Planned
    <2>2. CASE p # Guardian
      BY <2>2 DEF StartRefused, StartRaises, Spawned, At, TypeOK, Planned, Goto, AfterSpawn, Place
    <2>3. QED
      BY <2>1, <2>2
  <1>2. TypeOK' /\ registry' = registry /\ sessions' = sessions
    BY <1>1 DEF StartRefused, StartRaises, TypeOK
  <1>3. Starters' \subseteq Starters
    BY GuardianAssumption
    DEF StartRefused, StartRaises, Spawned, Starters, At, Goto, AfterSpawn, TypeOK
  <1>4. QED
    BY <1>1, <1>2, <1>3, FewerIsBounded DEF Finite

LEMMA ExitStep ==
  ASSUME LInv, NEW w \in Workers, Exit(w)
  PROVE  LInv'
  <1> USE DEF LInv
  <1>1. TypeOK' /\ Planned' /\ sessions' = sessions /\ registry' \subseteq registry
    <2>1. conn' \in [Workers -> SocketState] /\ local' \in [Workers -> SocketState]
      BY DEF Exit, CloseBoth, Closed, TypeOK, SocketState
    <2>2. tracked' \subseteq Workers \X {"conn", "local"}
      BY DEF Exit, CloseBoth, TypeOK
    <2>3. pc' \in [Workers -> Place] /\ registry' = {v \in Workers : pc'[v] # "none"}
      BY DEF Exit, Goto, TypeOK, Place
    <2>4. QED
      BY <2>1, <2>2, <2>3 DEF Exit, TypeOK, Planned
  <1>2. Starters' \subseteq Starters
    BY GuardianAssumption DEF Exit, Goto, Starters, At, TypeOK
  <1>3. QED
    BY <1>1, <1>2, FewerIsBounded DEF Finite

LEMMA GuardianScanStep ==
  ASSUME LInv, GuardianScan
  PROVE  LInv'
  <1> USE DEF LInv
  <1>1. desired' \in 1 .. Max
    BY DesiredInRange, FS_CardinalityType DEF GuardianScan, Finite
  <1>2. Cardinality(registry) \in Nat
    BY FS_CardinalityType DEF Finite
  <1>3. plan' \in 0 .. Max /\ guard' = IF plan' = 0 THEN "idle" ELSE "check"
    BY <1>1, <1>2, MaxAssumption DEF GuardianScan
  <1>4. TypeOK' /\ Planned' /\ sessions' = sessions /\ registry' = registry
    BY <1>1, <1>3 DEF GuardianScan, TypeOK, Planned, workerVars
  <1>5. Starters' \subseteq Starters
    BY <1>3, GuardianAssumption DEF GuardianScan, Starters, At, TypeOK, workerVars
  <1>6. QED
    BY <1>4, <1>5, FewerIsBounded DEF Finite

(* A stop, the monitor, the heartbeats and the far ends touch sockets,     *)
(* sessions and flags only.                                                *)
Stops == StopFlag \/ StopSteps
Outside(w) ==
  HeartbeatCloses(w) \/ IdleCloses(w) \/ PeerLeaves(w) \/ ServiceLeaves(w) \/ FarEndLeaves(w)

LEMMA OutsideStep ==
  ASSUME LInv, Stops \/ (\E w \in Workers : Outside(w)) \/ UNCHANGED vars
  PROVE  LInv'
  <1> USE DEF LInv, linkVars, workerVars, vars, StopSteps, Stops, Outside
  <1>1. UNCHANGED <<pc, lead, kind, registry, guard, plan, desired>> /\ sessions' \subseteq sessions
    BY DEF StopFlag, StopSessions, StopSockets, StopJoin, CloseSessions,
       HeartbeatCloses, IdleCloses, PeerLeaves, ServiceLeaves, FarEndLeaves
  <1>2. IsFiniteSet(sessions')
    BY <1>1, FS_Subset DEF Finite
  <1>3. /\ running' \in BOOLEAN /\ stop' \in {"no", "sessions", "sockets", "join", "done"}
        /\ tracked' \subseteq Workers \X {"conn", "local"}
    BY DEF TypeOK, StopFlag, StopSessions, StopSockets, StopJoin,
       HeartbeatCloses, IdleCloses, PeerLeaves, ServiceLeaves, FarEndLeaves
  <1>4. conn' \in [Workers -> SocketState] /\ local' \in [Workers -> SocketState]
    <2> USE DEF TypeOK, SocketState, ClosedUnder
    <2>1. CASE Stops
      <3>1. CASE StopFlag \/ StopJoin
        BY <3>1 DEF StopFlag, StopJoin
      <3>2. CASE StopSessions
        BY <3>2 DEF StopSessions, CloseSessions
      <3>3. CASE StopSockets
        BY <3>3 DEF StopSockets
      <3>4. QED
        BY <2>1, <3>1, <3>2, <3>3
    <2>2. CASE UNCHANGED vars
      BY <2>2
    <2>3. ASSUME NEW w \in Workers, Outside(w)
          PROVE  conn' \in [Workers -> SocketState] /\ local' \in [Workers -> SocketState]
      BY <2>3 DEF HeartbeatCloses, IdleCloses, CloseSessions, PeerLeaves, ServiceLeaves, FarEndLeaves
    <2>4. QED
      BY <2>1, <2>2, <2>3
  <1>5. TypeOK'
    BY <1>1, <1>3, <1>4 DEF TypeOK
  <1>6. Starters' = Starters /\ Planned'
    BY <1>1 DEF Starters, At, Planned
  <1>7. QED
    BY <1>1, <1>2, <1>5, <1>6, FewerIsBounded

(* The steps of Next by what they do.                                      *)
Spawns(p) == SpawnCheck(p) \/ StartThread(p) \/ StartRefused(p) \/ StartRaises(p)

LEMMA NextSplits ==
  ASSUME [Next]_vars
  PROVE  \/ \E w \in Workers : CarriesOn(w) \/ Exit(w) \/ Outside(w)
         \/ \E p \in Workers \cup {Guardian} : Spawns(p)
         \/ GuardianScan \/ Stops \/ UNCHANGED vars
  <1>1. ASSUME NEW w \in Workers,
               WorkerSteps(w) \/ PeerSteps(w) \/ PeerAnswers(w) \/ HeartbeatCloses(w) \/ IdleCloses(w)
        PROVE  CarriesOn(w) \/ Exit(w) \/ Outside(w) \/ Spawns(w)
    BY <1>1 DEF WorkerSteps, PeerSteps, PeerAnswers, CarriesOn, Connects, Carries, Bonds, Serves,
       Outside, Spawns
  <1>2. GuardianSteps => Spawns(Guardian) \/ GuardianScan
    BY DEF GuardianSteps, Spawns
  <1>3. QED
    BY <1>1, <1>2 DEF Next, Stops

LEMMA StepOK == LInv /\ [Next]_vars => LInv'
  <1> SUFFICES ASSUME LInv, [Next]_vars PROVE LInv'
    OBVIOUS
  <1>1. ASSUME NEW w \in Workers, CarriesOn(w) \/ Exit(w) \/ Outside(w) PROVE LInv'
    BY <1>1, CarriesOnStep, ExitStep, OutsideStep
  <1>2. ASSUME NEW p \in Workers \cup {Guardian}, Spawns(p) PROVE LInv'
    BY <1>2, SpawnCheckStep, StartThreadStep, NoThreadStep DEF Spawns
  <1>3. QED
    BY <1>1, <1>2, NextSplits, GuardianScanStep, OutsideStep

(* Every variable keeps its type; in particular desired_workers stays      *)
(* between 1 and max_workers.                                              *)
THEOREM TypeCorrect == Spec => []TypeOK
  <1>1. QED
    BY InitOK, StepOK, PTL DEF Spec, LInv

(* WorkersBounded: however the spawns of the workers and of the guardian   *)
(* interleave between the test of spawn_reverse_worker and the             *)
(* registration in start_link_thread (P00RIJA.py), fewer than twice        *)
(* max_workers threads run.                                                *)
THEOREM WorkersStayBounded == Spec => []WorkersBounded
  <1>1. LInv => WorkersBounded
    <2> SUFFICES ASSUME LInv PROVE WorkersBounded
      OBVIOUS
    <2>1. StartersFew
      BY StartersFinite DEF LInv
    <2>2. QED
      BY <2>1, MaxAssumption DEF LInv, SpawnsBounded, StartersFew, WorkersBounded
  <1>2. QED
    BY <1>1, InitOK, StepOK, PTL DEF Spec
------------------------------------------------------------------------------
------------------------------------------------------------------------------
(* Nothing leaks. *)

Free(s) == s \in {"none", "closed"}
Untracked(w, end) == <<w, end>> \notin tracked

(* Places of an iteration that has not dialled the service, and those of   *)
(* a worker that has closed both its sockets.                              *)
NoService ==
  {"none", "exit", "top", "dial", "track", "wrap", "shake", "track_tls", "tls_failed",
   "header", "grow", "check", "start", "mux_join", "carrier", "mux_failed", "group",
   "lanes", "follow"}
Over == {"bond_over", "bridged"}
Resting == {"none", "exit", "top"}

(* Where no list names the tunnel: a group owns the lane.                  *)
Lane(w) ==
  \/ pc[w] \in {"lanes", "follow", "bonded", "bond_over"}
  \/ pc[w] \in {"dial_local", "track_local", "enter"} /\ kind[w] = "bond"

(* A follower goes on only when its leader, or the failure of the leader,  *)
(* has closed its lane.                                                    *)
Abandoned(w) == pc[w] = "follow" /\ (lead[w] = w \/ pc[lead[w]] = "bond_over")

Holds(w) ==
  /\ pc[w] \in NoService \cup Over => Free(local[w])
  /\ pc[w] \in NoService => Untracked(w, "local")
  /\ pc[w] \in Resting \cup Over => Free(conn[w])
  /\ pc[w] \in Resting \/ Lane(w) => Untracked(w, "conn")
  /\ pc[w] \in {"group", "lanes"} => kind[w] = "bond"
Followed(w) == Abandoned(w) => Free(conn[w])
HeldInv == \A w \in Workers : Holds(w) /\ Followed(w)

LEMMA HeldIsClean == TypeOK /\ HeldInv => NothingLeaks
  BY DEF HeldInv, Holds, Followed, NothingLeaks, Free, Untracked, NoService, Resting

(* A step of another thread: w stays where it is, nothing of w is opened,  *)
(* tracked or untracked.                                                   *)
Spared(w) ==
  /\ pc'[w] = pc[w] /\ kind'[w] = kind[w]
  /\ Free(conn[w]) => Free(conn'[w])
  /\ Free(local[w]) => Free(local'[w])
  /\ conn'[w] = "open" => conn[w] = "open"
  /\ local'[w] = "open" => local[w] = "open"
  /\ <<w, "conn">> \in tracked' <=> <<w, "conn">> \in tracked
  /\ <<w, "local">> \in tracked' <=> <<w, "local">> \in tracked

LEMMA SparedHolds == ASSUME NEW w \in Workers, Holds(w), Spared(w) PROVE Holds(w)'
  BY DEF Holds, Spared, Lane, Untracked

(* The steps of one worker spare the others, but for Lead.                 *)
LEMMA OthersSpared ==
  ASSUME TypeOK, NEW w \in Workers, CarriesOn(w) \/ Exit(w), NEW v \in Workers, v # w
  PROVE  Spared(v) \/ Lead(w)
  <1> USE DEF TypeOK, Spared, Free, Closed, Goto, Retry, linkVars
  <1>1. CASE Top(w) \/ Dial(w) \/ Wrap(w) \/ Handshake(w) \/ Header(w) \/ Grow(w)
    BY <1>1 DEF Top, Dial, Wrap, Handshake, Header, Grow
  <1>2. ASSUME NEW end \in {"conn", "local"}, NEW failed, NEW next, Track(w, end, failed, next),
               UNCHANGED kind
        PROVE  Spared(v)
    <2>1. CASE running
      BY <1>2, <2>1 DEF Track
    <2>2. CASE ~running
      BY <1>2, <2>2 DEF Track
    <2>3. QED
      BY <2>1, <2>2
  <1>3. CASE TrackConn(w) \/ TrackTls(w) \/ TrackLocal(w)
    BY <1>2, <1>3 DEF TrackConn, TrackTls, TrackLocal
  <1>4. CASE TlsFails(w) \/ HandshakeFails(w) \/ NoHeader(w) \/ CarrierEnds(w) \/ MuxFails(w)
    BY <1>4 DEF TlsFails, HandshakeFails, NoHeader, CarrierEnds, MuxFails, CloseConn
  <1>5. CASE NoJoin(w) \/ MuxJoin(w) \/ BondJoin(w) \/ LanesTimeout(w) \/ FollowerWakes(w)
    BY <1>5 DEF NoJoin, MuxJoin, BondJoin, LanesTimeout, FollowerWakes
  <1>6. CASE BondEnds(w)
    BY <1>6 DEF BondEnds
  <1>7. CASE BondOver(w)
    BY <1>7 DEF BondOver
  <1>8. CASE BondFails(w)
    BY <1>8 DEF BondFails
  <1>9. CASE DialLocal(w) \/ EnterBridge(w) \/ CallWaits(w) \/ CallEnds(w) \/ CallReturns(w)
    BY <1>9 DEF DialLocal, EnterBridge, CallWaits, CallEnds, CallReturns
  <1>10. CASE BridgeEnds(w) \/ BridgeOver(w)
    BY <1>10 DEF BridgeEnds, BridgeOver
  <1>11. CASE ConnectFails(w) \/ Exit(w)
    BY <1>11 DEF ConnectFails, Exit, CloseBoth
  <1>12. QED
    BY <1>1, <1>3, <1>4, <1>5, <1>6, <1>7, <1>8, <1>9, <1>10, <1>11
    DEF CarriesOn, Connects, Carries, Bonds, Serves

(* Each step leaves the worker that takes it with what its place allows.   *)
LEMMA OwnHolds ==
  ASSUME TypeOK, NEW w \in Workers, Holds(w), Followed(w), CarriesOn(w) \/ Exit(w)
  PROVE  Holds(w)'
  <1> USE DEF TypeOK, Holds, Free, Untracked, NoService, Over, Resting, Lane, Closed, Goto, Retry,
          linkVars
  <1>1. CASE Top(w) \/ Dial(w)
    BY <1>1 DEF Top, Dial
  <1>2. CASE Wrap(w) \/ Handshake(w) \/ Header(w) \/ Grow(w)
    BY <1>2 DEF Wrap, Handshake, Header, Grow
  <1>3. CASE TrackConn(w) \/ TrackTls(w)
    <2>1. pc[w] \in {"track", "track_tls"} /\ kind' = kind
      BY <1>3 DEF TrackConn, TrackTls
    <2>2. CASE running
      <3>1. /\ tracked' = tracked \cup {<<w, "conn">>} /\ conn' = conn /\ local' = local
            /\ pc'[w] \in {"wrap", "header"}
        BY <1>3, <2>2 DEF TrackConn, TrackTls, Track
      <3>2. QED
        BY <2>1, <3>1
    <2>3. CASE ~running
      <3>1. tracked' = tracked /\ local' = local /\ pc'[w] \in {"failed", "tls_failed"}
        BY <1>3, <2>3 DEF TrackConn, TrackTls, Track
      <3>2. QED
        BY <2>1, <3>1
    <2>4. QED
      BY <2>2, <2>3
  <1>4. CASE TrackLocal(w)
    <2>1. pc[w] = "track_local" /\ kind' = kind
      BY <1>4 DEF TrackLocal
    <2>2. CASE running
      <3>1. tracked' = tracked \cup {<<w, "local">>} /\ conn' = conn /\ pc'[w] = "enter"
        BY <1>4, <2>2 DEF TrackLocal, Track
      <3>2. QED
        BY <2>1, <3>1
    <2>3. CASE ~running
      <3>1. pc'[w] \in {"failed", "bond_failed"}
        BY <1>4, <2>3 DEF TrackLocal, Track
      <3>2. QED
        BY <2>1, <3>1
    <2>4. QED
      BY <2>2, <2>3
  <1>5. CASE TlsFails(w) \/ HandshakeFails(w) \/ NoHeader(w)
    BY <1>5 DEF TlsFails, HandshakeFails, NoHeader, CloseConn
  <1>6. CASE CarrierEnds(w) \/ MuxFails(w)
    BY <1>6 DEF CarrierEnds, MuxFails, CloseConn
  <1>7. CASE NoJoin(w) \/ MuxJoin(w)
    BY <1>7 DEF NoJoin, MuxJoin
  <1>8. CASE BondJoin(w) \/ LanesTimeout(w)
    BY <1>8 DEF BondJoin, LanesTimeout
  <1>9. CASE Lead(w)
    <2>1. /\ pc[w] = "lanes" /\ pc'[w] = "dial_local"
          /\ UNCHANGED <<conn, local, kind, tracked>>
      BY <1>9 DEF Lead
    <2>2. QED
      BY <2>1
  <1>10. CASE BondEnds(w)
    BY <1>10 DEF BondEnds
  <1>11. CASE BondOver(w)
    BY <1>11 DEF BondOver
  <1>12. CASE BondFails(w)
    BY <1>12 DEF BondFails
  <1>13. CASE DialLocal(w) \/ EnterBridge(w)
    BY <1>13 DEF DialLocal, EnterBridge
  <1>14. CASE CallWaits(w) \/ CallEnds(w) \/ CallReturns(w)
    BY <1>14 DEF CallWaits, CallEnds, CallReturns
  <1>15. CASE BridgeEnds(w) \/ BridgeOver(w)
    BY <1>15 DEF BridgeEnds, BridgeOver
  <1>16. CASE ConnectFails(w) \/ Exit(w)
    BY <1>16 DEF ConnectFails, Exit, CloseBoth
  <1>17. CASE FollowerWakes(w)
    BY <1>17 DEF FollowerWakes, Followed, Abandoned
  <1>18. QED
    BY <1>1, <1>2, <1>3, <1>4, <1>5, <1>6, <1>7, <1>8, <1>9, <1>10, <1>11, <1>12, <1>13, <1>14,
       <1>15, <1>16, <1>17
    DEF CarriesOn, Connects, Carries, Bonds, Serves

(* Where the lanes of a bond follow: only their leader lets them go, with  *)
(* their connections closed.                                               *)
LEMMA FollowedKept ==
  ASSUME NEW v \in Workers, Followed(v), lead' = lead, Free(conn[v]) => Free(conn'[v]),
         pc'[v] = "follow" => pc[v] = "follow",
         pc'[lead[v]] = "bond_over" => pc[lead[v]] = "bond_over"
  PROVE  Followed(v)'
  BY DEF Followed, Abandoned

LEMMA CarriesOnFollowed ==
  ASSUME TypeOK, NEW w \in Workers, CarriesOn(w) \/ Exit(w), HeldInv, NEW v \in Workers
  PROVE  Followed(v)'
  <1>0. Followed(v) /\ lead[v] \in Workers /\ (v # w => Spared(v) \/ Lead(w))
    BY OthersSpared DEF HeldInv, TypeOK
  <1>1. CASE Lead(w)
    <2>1. PICK S \in SUBSET (Waiting \ {w}) :
            /\ lead' = [x \in Workers |-> IF x \in S THEN w ELSE lead[x]]
            /\ pc' = [x \in Workers |-> IF x \in S THEN "follow"
                                        ELSE IF x = w THEN "dial_local" ELSE pc[x]]
      BY <1>1 DEF Lead
    <2>2. conn' = conn
      BY <1>1 DEF Lead
    <2>3. CASE v \in S
      BY <2>1, <2>3 DEF Followed, Abandoned, Waiting
    <2>4. CASE v \notin S
      BY <1>0, <2>1, <2>2, <2>4 DEF Followed, Abandoned
    <2>5. QED
      BY <2>3, <2>4
  <1>2. CASE BondEnds(w)
    <2> USE <1>2 DEF TypeOK, BondEnds, Goto, Free, Closed, Followers, Followed, Abandoned
    <2>1. CASE lead[v] = w /\ v # w
      BY <2>1
    <2>2. CASE v = w
      BY <2>2
    <2>3. CASE lead[v] # w /\ v # w
      BY <1>0, <2>3
    <2>4. QED
      BY <2>1, <2>2, <2>3
  <1>3. CASE BondOver(w) \/ BondFails(w)
    <2> USE DEF TypeOK, BondOver, BondFails, ReleaseFollowers, Goto, Free, Closed, Followed, Abandoned
    <2>1. CASE v = w
      BY <1>3, <2>1
    <2>2. CASE v # w /\ lead[v] = w
      <3>1. CASE BondOver(w)
        BY <1>0, <2>2, <3>1
      <3>2. CASE BondFails(w)
        BY <1>0, <2>2, <3>2 DEF Followers
      <3>3. QED
        BY <1>3, <3>1, <3>2
    <2>3. CASE v # w /\ lead[v] # w
      BY <1>0, <1>3, <2>3
    <2>4. QED
      BY <2>1, <2>2, <2>3
  <1>4. CASE ~(Lead(w) \/ BondEnds(w) \/ BondOver(w) \/ BondFails(w))
    <2>1. lead' = lead
      BY <1>4 DEF CarriesOn, Connects, Carries, Bonds, Serves, Exit, Top, Dial, TrackConn, Wrap,
         Handshake, TrackTls, TlsFails, HandshakeFails, NoHeader, Header, Grow, NoJoin, MuxJoin,
         CarrierEnds, MuxFails, BondJoin, LanesTimeout, FollowerWakes, DialLocal, TrackLocal,
         ConnectFails, EnterBridge, CallWaits, CallEnds, CallReturns, BridgeEnds, BridgeOver
    <2>2. pc'[w] \notin {"follow", "bond_over"}
      BY <1>4 DEF TypeOK, CarriesOn, Connects, Carries, Bonds, Serves, Exit, Top, Dial, TrackConn,
         Wrap, Handshake, TrackTls, TlsFails, HandshakeFails, NoHeader, Header, Grow, NoJoin,
         MuxJoin, CarrierEnds, MuxFails, BondJoin, LanesTimeout, FollowerWakes, DialLocal,
         TrackLocal, ConnectFails, EnterBridge, CallWaits, CallEnds, CallReturns, BridgeEnds,
         BridgeOver, Track, Retry, Goto
    <2>3. pc'[lead[v]] = "bond_over" => pc[lead[v]] = "bond_over"
      BY <1>0, <1>4, <2>2, OthersSpared DEF Spared
    <2>4. CASE v = w
      BY <2>1, <2>2, <2>4 DEF Followed, Abandoned
    <2>5. CASE v # w
      BY <1>0, <1>4, <2>1, <2>3, <2>5, FollowedKept DEF Spared
    <2>6. QED
      BY <2>4, <2>5
  <1>5. QED
    BY <1>1, <1>2, <1>3, <1>4

LEMMA SpawningSpares ==
  ASSUME TypeOK, NEW p \in Workers \cup {Guardian}, Spawns(p), NEW w \in Workers
  PROVE  /\ UNCHANGED <<conn, local, tracked, kind, lead, stop, running>>
         /\ \/ pc'[w] = pc[w]
            \/ pc[w] = "none" /\ pc'[w] = "top"
            \/ pc[w] = "check" /\ pc'[w] = "start"
            \/ pc[w] \in {"check", "start"} /\ pc'[w] \in {AfterSpawn(w), "failed"}
  <1> USE DEF TypeOK, Goto, At, linkVars
  <1>1. CASE SpawnCheck(p)
    BY <1>1, GuardianAssumption DEF SpawnCheck
  <1>2. CASE StartThread(p)
    BY <1>2, GuardianAssumption DEF StartThread
  <1>3. CASE StartRefused(p) \/ StartRaises(p)
    BY <1>3, GuardianAssumption DEF StartRefused, StartRaises
  <1>4. QED
    BY <1>1, <1>2, <1>3 DEF Spawns

LEMMA SpawningHolds ==
  ASSUME TypeOK, NEW p \in Workers \cup {Guardian}, Spawns(p), HeldInv, NEW w \in Workers
  PROVE  Holds(w)' /\ Followed(w)'
  <1>1. Holds(w) /\ Followed(w) /\ lead[w] \in Workers
    BY DEF HeldInv, TypeOK
  <1>2. Holds(w)'
    BY <1>1, SpawningSpares DEF Holds, Untracked, NoService, Over, Resting, Lane, AfterSpawn
  <1>3. Followed(w)'
    BY <1>1, SpawningSpares DEF Followed, Abandoned, AfterSpawn
  <1>4. QED
    BY <1>2, <1>3

(* What is free stays so, where a worker has closed it.                    *)
StaysFree(w) ==
  /\ pc[w] \in NoService \cup Over /\ Free(local[w]) => Free(local'[w])
  /\ pc[w] \in {"none", "exit", "top", "follow"} \cup Over /\ Free(conn[w]) => Free(conn'[w])

(* The other threads and the far ends.                                     *)
LEMMA OutsideHolds ==
  ASSUME TypeOK, HeldInv, NEW w \in Workers,
         \/ GuardianScan \/ Stops \/ UNCHANGED vars \/ \E v \in Workers : Outside(v)
  PROVE  Holds(w)' /\ Followed(w)'
  <1>1. Holds(w) /\ Followed(w) /\ lead[w] \in Workers
    BY DEF HeldInv, TypeOK
  <1>2. UNCHANGED <<pc, lead, kind>>
    BY DEF Stops, StopSteps, StopFlag, StopSessions, StopSockets, StopJoin, GuardianScan, Outside,
       HeartbeatCloses, IdleCloses, PeerLeaves, ServiceLeaves, FarEndLeaves, vars, linkVars, workerVars
  <1>3. tracked' \subseteq tracked
    BY DEF Stops, StopSteps, StopFlag, StopSessions, StopSockets, StopJoin, GuardianScan, Outside,
       HeartbeatCloses, IdleCloses, PeerLeaves, ServiceLeaves, FarEndLeaves, vars, linkVars, workerVars
  <1>4. StaysFree(w)
    <2> USE DEF TypeOK, Free, ClosedUnder, NoService, Over, StaysFree
    <2>1. CASE GuardianScan \/ UNCHANGED vars
      BY <2>1 DEF GuardianScan, vars, workerVars
    <2>2. CASE StopFlag \/ StopJoin
      BY <2>2 DEF StopFlag, StopJoin, workerVars
    <2>3. CASE StopSessions
      BY <2>3 DEF StopSessions, CloseSessions
    <2>4. CASE StopSockets
      BY <2>4 DEF StopSockets
    <2>5. ASSUME NEW v \in Workers, HeartbeatCloses(v) \/ IdleCloses(v)
          PROVE  (Free(local[w]) => Free(local'[w])) /\ (Free(conn[w]) => Free(conn'[w]))
      BY <2>5 DEF HeartbeatCloses, IdleCloses, CloseSessions
    <2>6. ASSUME NEW v \in Workers, PeerLeaves(v) \/ ServiceLeaves(v)
          PROVE  (Free(local[w]) => Free(local'[w])) /\ (Free(conn[w]) => Free(conn'[w]))
      BY <2>6 DEF PeerLeaves, ServiceLeaves
    <2>7. ASSUME NEW v \in Workers, FarEndLeaves(v) PROVE StaysFree(w)
      BY <2>7 DEF FarEndLeaves, HeldUp
    <2>8. QED
      BY <2>1, <2>2, <2>3, <2>4, <2>5, <2>6, <2>7 DEF Stops, StopSteps, Outside
  <1>5. Holds(w)'
    BY <1>1, <1>2, <1>3, <1>4 DEF Holds, Untracked, NoService, Over, Resting, Lane, StaysFree
  <1>6. Followed(w)'
    BY <1>1, <1>2, <1>4 DEF Followed, Abandoned, StaysFree
  <1>7. QED
    BY <1>5, <1>6

LEMMA HeldStep == TypeOK /\ HeldInv /\ [Next]_vars => HeldInv'
  <1> SUFFICES ASSUME TypeOK, HeldInv, [Next]_vars, NEW v \in Workers
      PROVE  Holds(v)' /\ Followed(v)'
    BY DEF HeldInv
  <1>0. Holds(v) /\ Followed(v)
    BY DEF HeldInv
  <1>1. ASSUME NEW w \in Workers, CarriesOn(w) \/ Exit(w)
        PROVE  Holds(v)' /\ Followed(v)'
    <2>1. CASE v = w
      BY <1>0, <1>1, <2>1, OwnHolds, CarriesOnFollowed
    <2>2. CASE v # w /\ Spared(v)
      BY <1>0, <1>1, <2>2, SparedHolds, CarriesOnFollowed
    <2>3. CASE v # w /\ Lead(w)
      <3>1. /\ pc'[v] = pc[v] \/ (pc[v] = "lanes" /\ pc'[v] = "follow")
            /\ UNCHANGED <<conn, local, kind, tracked>>
        BY <2>3 DEF Lead, Waiting, linkVars, TypeOK
      <3>2. Holds(v)'
        BY <1>0, <3>1 DEF Holds, Untracked, NoService, Over, Resting, Lane
      <3>3. QED
        BY <1>1, <3>2, CarriesOnFollowed
    <2>4. QED
      BY <1>1, <2>1, <2>2, <2>3, OthersSpared
  <1>2. ASSUME NEW p \in Workers \cup {Guardian}, Spawns(p)
        PROVE  Holds(v)' /\ Followed(v)'
    BY <1>2, SpawningHolds
  <1>3. QED
    BY <1>1, <1>2, NextSplits, OutsideHolds

(* Each exit of reverse_link_worker closes and untracks what its iteration *)
(* has opened before the worker starts over or ends, and the leader of a   *)
(* bond does so for the lanes of its followers, whatever a stop, the       *)
(* monitor and the far ends do meanwhile.                                  *)
THEOREM NoSocketLeaks == Spec => []NothingLeaks
  <1>1. Init => HeldInv
    BY DEF Init, HeldInv, Holds, Followed, Abandoned, Free, Untracked, NoService, Over, Resting, Lane
  <1>2. QED
    BY <1>1, TypeCorrect, HeldStep, HeldIsClean, PTL DEF Spec
------------------------------------------------------------------------------
(* A stop reaches every worker. *)

(* Once stop_link_lifecycle has been over the sockets, no worker waits on  *)
(* a socket of its own that is still open: for a header, for the header of *)
(* a join, in a carrier, in select or a call of a session, or in           *)
(* bonded_bridge for the service.  Left are a TLS handshake and the lanes  *)
(* of a bonded session, which close() without a shutdown has closed.       *)
StopReachesAll ==
  stop \in {"join", "done"} => \A w \in Workers :
    /\ pc[w] \in {"header", "mux_join", "group", "carrier", "select", "on_conn"} => conn[w] # "open"
    /\ pc[w] \in {"select", "on_local", "bonded"} => local[w] # "open"

Reached == stop \in {"join", "done"}

(* Where the tunnel of w is tracked: not before wrap_socket has given the  *)
(* descriptor to another socket, and not once a bond group owns the lane.  *)
ConnListed(w) ==
  \/ pc[w] \in {"wrap", "header", "grow", "check", "start", "mux_join", "carrier", "group",
                "select", "on_conn", "on_local"}
  \/ pc[w] \in {"dial_local", "track_local", "enter"} /\ kind[w] # "bond"
LocalListed(w) == pc[w] \in {"enter", "select", "on_conn", "on_local", "bonded"}

(* What is open there is in the list that the stop closes, until it has.   *)
Covered(w) ==
  /\ ConnListed(w) /\ conn[w] = "open" => ~Reached /\ <<w, "conn">> \in tracked
  /\ LocalListed(w) /\ local[w] = "open" => ~Reached /\ <<w, "local">> \in tracked
StopInv == running = (stop = "no") /\ \A w \in Workers : Covered(w)

LEMMA SparedCovered ==
  ASSUME NEW w \in Workers, Covered(w), Spared(w), stop' = stop
  PROVE  Covered(w)'
  BY DEF Covered, ConnListed, LocalListed, Reached, Spared

(* The steps of w itself. *)
LEMMA OwnCovered ==
  ASSUME TypeOK, HeldInv, NEW w \in Workers, CarriesOn(w) \/ Exit(w), Covered(w),
         running = (stop = "no")
  PROVE  Covered(w)'
  <1>0. Holds(w) /\ stop' = stop
    BY CarriesOnControl DEF HeldInv, Exit
  <1> USE <1>0 DEF TypeOK, Covered, ConnListed, LocalListed, Reached, Closed, Goto, Retry, linkVars
  <1>1. CASE Top(w) \/ Dial(w)
    BY <1>1 DEF Top, Dial
  <1>2. CASE Wrap(w) \/ Handshake(w) \/ Header(w) \/ Grow(w)
    BY <1>2 DEF Wrap, Handshake, Header, Grow
  <1>3. CASE TrackConn(w) \/ TrackTls(w)
    <2>1. CASE running
      <3>1. /\ tracked' = tracked \cup {<<w, "conn">>} /\ pc'[w] \in {"wrap", "header"}
        BY <1>3, <2>1 DEF TrackConn, TrackTls, Track
      <3>2. QED
        BY <2>1, <3>1
    <2>2. CASE ~running
      <3>1. pc'[w] \in {"failed", "tls_failed"}
        BY <1>3, <2>2 DEF TrackConn, TrackTls, Track
      <3>2. QED
        BY <3>1
    <2>3. QED
      BY <2>1, <2>2
  <1>4. CASE TrackLocal(w)
    <2>1. pc[w] = "track_local" /\ kind' = kind
      BY <1>4 DEF TrackLocal
    <2>2. CASE running
      <3>1. /\ tracked' = tracked \cup {<<w, "local">>} /\ pc'[w] = "enter" /\ conn' = conn
        BY <1>4, <2>2 DEF TrackLocal, Track
      <3>2. QED
        BY <2>1, <2>2, <3>1
    <2>3. CASE ~running
      <3>1. pc'[w] \in {"failed", "bond_failed"}
        BY <1>4, <2>3 DEF TrackLocal, Track
      <3>2. QED
        BY <3>1
    <2>4. QED
      BY <2>2, <2>3
  <1>5. CASE TlsFails(w) \/ HandshakeFails(w) \/ NoHeader(w) \/ CarrierEnds(w) \/ MuxFails(w)
    BY <1>5 DEF TlsFails, HandshakeFails, NoHeader, CarrierEnds, MuxFails, CloseConn
  <1>6. CASE NoJoin(w) \/ MuxJoin(w)
    BY <1>6 DEF NoJoin, MuxJoin
  <1>7. CASE BondJoin(w) \/ LanesTimeout(w) \/ FollowerWakes(w)
    BY <1>7 DEF BondJoin, LanesTimeout, FollowerWakes
  <1>8. CASE Lead(w)
    <2>1. pc[w] = "lanes" /\ pc'[w] = "dial_local" /\ kind' = kind
      BY <1>8 DEF Lead
    <2>2. QED
      BY <2>1 DEF Holds
  <1>9. CASE BondEnds(w) \/ BondOver(w) \/ BondFails(w)
    BY <1>9 DEF BondEnds, BondOver, BondFails
  <1>10. CASE DialLocal(w) \/ EnterBridge(w)
    BY <1>10 DEF DialLocal, EnterBridge
  <1>11. CASE CallWaits(w) \/ CallEnds(w) \/ CallReturns(w)
    BY <1>11 DEF CallWaits, CallEnds, CallReturns
  <1>12. CASE BridgeEnds(w) \/ BridgeOver(w)
    BY <1>12 DEF BridgeEnds, BridgeOver
  <1>13. CASE ConnectFails(w) \/ Exit(w)
    BY <1>13 DEF ConnectFails, Exit, CloseBoth
  <1>14. QED
    BY <1>1, <1>2, <1>3, <1>4, <1>5, <1>6, <1>7, <1>8, <1>9, <1>10, <1>11, <1>12, <1>13
    DEF CarriesOn, Connects, Carries, Bonds, Serves

LEMMA StopsCover ==
  ASSUME TypeOK, StopInv, Stops, NEW w \in Workers
  PROVE  Covered(w)' /\ (running = (stop = "no"))'
  <1>1. Covered(w) /\ running = (stop = "no")
    BY DEF StopInv
  <1> USE <1>1 DEF TypeOK, Covered, ConnListed, LocalListed, Reached, ClosedUnder, SocketState,
          linkVars, workerVars
  <1>2. CASE StopFlag
    BY <1>2 DEF StopFlag
  <1>3. CASE StopSessions
    BY <1>3 DEF StopSessions, CloseSessions
  <1>4. CASE StopSockets
    BY <1>4 DEF StopSockets
  <1>5. CASE StopJoin
    BY <1>5 DEF StopJoin
  <1>6. QED
    BY <1>2, <1>3, <1>4, <1>5 DEF Stops, StopSteps

LEMMA OutsideCovers ==
  ASSUME TypeOK, NEW w \in Workers, Covered(w),
         GuardianScan \/ UNCHANGED vars \/ \E v \in Workers : Outside(v)
  PROVE  Covered(w)'
  <1> USE DEF TypeOK, Covered, ConnListed, LocalListed, Reached, ClosedUnder, linkVars, workerVars, vars
  <1>1. CASE GuardianScan \/ UNCHANGED vars
    BY <1>1 DEF GuardianScan
  <1>2. ASSUME NEW v \in Workers, HeartbeatCloses(v) PROVE Covered(w)'
    BY <1>2 DEF HeartbeatCloses
  <1>3. ASSUME NEW v \in Workers, IdleCloses(v) PROVE Covered(w)'
    BY <1>3 DEF IdleCloses, CloseSessions
  <1>4. ASSUME NEW v \in Workers, PeerLeaves(v) \/ ServiceLeaves(v) \/ FarEndLeaves(v)
        PROVE  Covered(w)'
    BY <1>4 DEF PeerLeaves, ServiceLeaves, FarEndLeaves
  <1>5. QED
    BY <1>1, <1>2, <1>3, <1>4 DEF Outside

LEMMA SpawningCovers ==
  ASSUME TypeOK, NEW p \in Workers \cup {Guardian}, Spawns(p), NEW w \in Workers, Covered(w)
  PROVE  Covered(w)'
  BY SpawningSpares DEF Covered, ConnListed, LocalListed, Reached, AfterSpawn

LEMMA RunningKept ==
  ASSUME TypeOK, StopInv, [Next]_vars, ~Stops
  PROVE  running' = running /\ stop' = stop
  <1>1. ASSUME NEW w \in Workers, CarriesOn(w) \/ Exit(w) \/ Outside(w)
        PROVE  running' = running /\ stop' = stop
    BY <1>1, CarriesOnControl DEF Exit, Outside, HeartbeatCloses, IdleCloses, PeerLeaves,
       ServiceLeaves, FarEndLeaves, linkVars
  <1>2. ASSUME NEW p \in Workers \cup {Guardian}, Spawns(p)
        PROVE  running' = running /\ stop' = stop
    BY <1>2 DEF Spawns, SpawnCheck, StartThread, StartRefused, StartRaises, linkVars
  <1>3. QED
    BY <1>1, <1>2, NextSplits DEF GuardianScan, vars, linkVars

LEMMA StopInvStep == TypeOK /\ HeldInv /\ StopInv /\ [Next]_vars => StopInv'
  <1> SUFFICES ASSUME TypeOK, HeldInv, StopInv, [Next]_vars PROVE StopInv'
    OBVIOUS
  <1>1. CASE Stops
    <2>1. \A w \in Workers : Covered(w)'
      BY <1>1, StopsCover
    <2>2. (running = (stop = "no"))'
      BY <1>1 DEF StopInv, Stops, StopSteps, StopFlag, StopSessions, StopSockets, StopJoin, linkVars
    <2>3. QED
      BY <2>1, <2>2 DEF StopInv
  <1>2. CASE ~Stops
    <2>1. running' = running /\ stop' = stop
      BY <1>2, RunningKept
    <2>2. ASSUME NEW v \in Workers PROVE Covered(v)'
      <3>0. Covered(v) /\ running = (stop = "no")
        BY DEF StopInv
      <3>1. ASSUME NEW w \in Workers, CarriesOn(w) \/ Exit(w) PROVE Covered(v)'
        <4>1. CASE v = w
          BY <3>0, <3>1, <4>1, OwnCovered
        <4>2. CASE v # w /\ Spared(v)
          BY <2>1, <3>0, <4>2, SparedCovered
        <4>3. CASE v # w /\ Lead(w)
          <5>1. /\ pc'[v] = pc[v] \/ pc'[v] = "follow"
                /\ UNCHANGED <<conn, local, kind, tracked>>
            BY <4>3 DEF Lead, linkVars, TypeOK
          <5>2. QED
            BY <2>1, <3>0, <5>1 DEF Covered, ConnListed, LocalListed, Reached
        <4>4. QED
          BY <3>1, <4>1, <4>2, <4>3, OthersSpared
      <3>2. ASSUME NEW p \in Workers \cup {Guardian}, Spawns(p) PROVE Covered(v)'
        BY <3>0, <3>2, SpawningCovers
      <3>3. QED
        BY <1>2, <3>0, <3>1, <3>2, NextSplits, OutsideCovers
    <2>3. QED
      BY <2>1, <2>2 DEF StopInv
  <1>3. QED
    BY <1>1, <1>2

(* A stop of the link wakes whoever waits: a worker that registers a       *)
(* socket too late finds the link stopping and closes it itself, and every *)
(* other socket is in the list that the stop goes through, except while it *)
(* is being wrapped in TLS or belongs to a bond group, where the worker    *)
(* tests again before it waits for good.                                   *)
THEOREM StopReachesEveryWorker == Spec => []StopReachesAll
  <1>1. Init => HeldInv /\ StopInv
    BY DEF Init, HeldInv, Holds, Followed, Abandoned, Free, Untracked, NoService, Over, Resting,
       Lane, StopInv, Covered, ConnListed, LocalListed
  <1>2. StopInv => StopReachesAll
    BY DEF StopInv, Covered, ConnListed, LocalListed, Reached, StopReachesAll
  <1>3. QED
    BY <1>1, <1>2, TypeCorrect, HeldStep, StopInvStep, PTL DEF Spec
=============================================================================
