---------------------------- MODULE MuxPoolProofs ----------------------------
(* Proofs about MuxPool: the carriers that run are those the users find.   *)
EXTENDS MuxPool, FiniteSetTheorems, TLAPS

Phases == {"unused", "join", "made", "run", "closing", "closed"}

PoolTypes ==
  /\ phase \in [Carriers -> Phases] /\ cid \in [Carriers -> Ids]
  /\ carriers \in [Ids -> Carriers \cup {NoCarrier}]
  /\ desired \in MinCarriers .. MaxCarriers
  /\ mpc \in {"close", "join", "start"} => cand \in Carriers

StreamTypes == streams \in [Carriers -> SUBSET Sessions] /\ try \in [Users -> 1 .. Tries]

(* Until it runs, only maintain_mux_carriers has a carrier, one at a time, *)
(* and no carrier of its number runs.                                      *)
Joining ==
  /\ \A c \in Carriers : phase[c] = "join" => mpc = "join" /\ c = cand
  /\ mpc = "join" => /\ phase[cand] = "join"
                     /\ \A d \in Carriers : Runs(d) => cid[d] # cid[cand]

Placed == \A c \in Carriers : Runs(c) => carriers[cid[c]] = c

PInv == PoolTypes /\ StreamTypes /\ Joining /\ Placed

pool == <<phase, cid, carriers, desired, mpc, cand>>

-----------------------------------------------------------------------------
LEMMA InitOK == Init => PInv
<1> SUFFICES ASSUME Init PROVE PInv
  OBVIOUS
<1>1. MinCarriers \in MinCarriers .. MaxCarriers /\ 0 \in Ids
  BY SizesAssumption DEF Ids
<1>2. PoolTypes
  BY <1>1 DEF Init, PoolTypes, Phases
<1>3. StreamTypes
  BY DEF Init, StreamTypes
<1>4. Joining /\ Placed
  BY DEF Init, Joining, Placed, Runs
<1> QED
  BY <1>2, <1>3, <1>4 DEF PInv

LEMMA PoolKept ==
  ASSUME PInv, UNCHANGED pool PROVE PoolTypes' /\ Joining' /\ Placed'
BY DEF PInv, pool, PoolTypes, Joining, Placed, Runs

LEMMA TryKept ==
  ASSUME try \in [Users -> 1 .. Tries], NEW u \in Users, NextTry(u)
  PROVE  try' \in [Users -> 1 .. Tries]
<1>1. CASE try[u] < Tries
  <2>1. try[u] + 1 \in 1 .. Tries
    BY <1>1, TriesAssumption
  <2> QED
    BY <1>1, <2>1 DEF NextTry
<1>2. CASE ~(try[u] < Tries)
  BY <1>2 DEF NextTry
<1> QED
  BY <1>1, <1>2

(* What users do, and the ends of sessions, leave the carriers alone.      *)
LEMMA UsersOK ==
  ASSUME PInv,
         \/ \E u \in Users : UserSteps(u) \/ StreamEnds(u)
         \/ \E s \in Sessions : Monitor(s)
         \/ StopSessions
  PROVE  PInv'
<1> USE DEF pool, carrierVars, poolVars, linkVars, sessionVars, userVars
<1>0. StreamTypes /\ try \in [Users -> 1 .. Tries]
  BY DEF PInv, StreamTypes
<1>1. ASSUME NEW S, CloseSessions(S), try' = try PROVE StreamTypes'
  <2>1. streams' = [c \in Carriers |-> streams[c] \ {s \in S : sess[s] = "open"}]
    BY <1>1 DEF CloseSessions
  <2> QED
    BY <1>0, <1>1, <2>1 DEF StreamTypes
<1>2. ASSUME NEW u \in Users, UserSteps(u) \/ StreamEnds(u) PROVE UNCHANGED pool /\ StreamTypes'
  <2>1. CASE Choose(u)
    BY <2>1, <1>0, TryKept DEF Choose, StreamTypes
  <2>2. CASE RegisterStream(u)
    <3>1. Session(u) \in Sessions
      BY <1>0 DEF Session, Sessions
    <3>2. UNCHANGED pool
      BY <2>2 DEF RegisterStream
    <3>3. CASE running /\ Load(chosen[u]) < Limit
      <4>1. /\ streams' = [streams EXCEPT ![chosen[u]] = @ \cup {Session(u)}]
            /\ try' = try
        BY <2>2, <3>3 DEF RegisterStream
      <4> QED
        BY <1>0, <3>1, <3>2, <4>1 DEF StreamTypes
    <3>4. CASE ~(running /\ Load(chosen[u]) < Limit)
      BY <2>2, <3>2, <3>4, <1>0, TryKept DEF RegisterStream, StreamTypes
    <3> QED
      BY <3>3, <3>4
  <2>3. CASE CountStream(u) \/ Enlist(u) \/ StartPump(u) \/ UserDone(u) \/ SingleTunnel(u)
    BY <2>3, <1>0 DEF CountStream, Enlist, StartPump, UserDone, SingleTunnel, StreamTypes
  <2>4. CASE SendOpen(u) \/ WriterFails(u) \/ PumpFails(u)
    BY <2>4, <1>0, TryKept DEF SendOpen, WriterFails, PumpFails, StreamTypes
  <2>5. CASE StreamFails(u) \/ StreamEnds(u)
    BY <2>5, <1>1 DEF StreamFails, StreamEnds
  <2> QED
    BY <1>2, <2>1, <2>2, <2>3, <2>4, <2>5 DEF UserSteps
<1>3. ASSUME NEW s \in Sessions, Monitor(s) PROVE UNCHANGED pool /\ StreamTypes'
  BY <1>1, <1>3 DEF Monitor
<1>4. ASSUME StopSessions PROVE UNCHANGED pool /\ StreamTypes'
  BY <1>1, <1>4 DEF StopSessions
<1>5. UNCHANGED pool /\ StreamTypes'
  BY <1>2, <1>3, <1>4
<1> QED
  BY <1>5, PoolKept DEF PInv

(* A closed carrier that has been replaced takes nobody away.              *)
LEMMA CarrierClearsOK ==
  ASSUME PInv, NEW c \in Carriers, CarrierClears(c) PROVE PInv'
<1>1. /\ phase[c] = "closing" /\ phase' = [phase EXCEPT ![c] = "closed"]
      /\ UNCHANGED <<cid, desired, mpc, cand, try>>
      /\ carriers' = IF carriers[cid[c]] = c
                     THEN [carriers EXCEPT ![cid[c]] = NoCarrier] ELSE carriers
      /\ streams' = [d \in Carriers |-> streams[d] \ {s \in streams[c] : sess[s] = "open"}]
  BY DEF CarrierClears, RemoveCarrier, CloseSessions, userVars
<1>2. phase'[c] = "closed" /\ \A d \in Carriers \ {c} : phase'[d] = phase[d]
  BY <1>1 DEF PInv, PoolTypes
<1>3. PoolTypes'
  BY <1>1 DEF PInv, PoolTypes, Phases
<1>4. StreamTypes'
  BY <1>1 DEF PInv, StreamTypes
<1>5. Joining'
  BY <1>1, <1>2 DEF PInv, PoolTypes, Joining, Runs
<1>6. Placed'
  <2> SUFFICES ASSUME NEW d \in Carriers, Runs(d)' PROVE carriers'[cid'[d]] = d
    BY DEF Placed
  <2>1. d # c /\ Runs(d) /\ carriers[cid[d]] = d
    BY <1>2 DEF Runs, PInv, Placed
  <2> QED
    BY <2>1, <1>1 DEF PInv, PoolTypes
<1> QED
  BY <1>3, <1>4, <1>5, <1>6 DEF PInv

(* A carrier that begins to close, or is lost, stays where it is.          *)
LEMMA ClosingOK ==
  ASSUME PInv,
         \/ \E c \in Carriers : ReaderFails(c) \/ Lose(c)
         \/ CloseIdle \/ StopPool
  PROVE  PInv'
<1> USE DEF carrierVars, poolVars, userVars
<1>1. UNCHANGED <<cid, carriers, desired, cand, try, streams>>
  BY DEF ReaderFails, Lose, CloseIdle, StopPool
<1>2. phase' \in [Carriers -> Phases]
  BY DEF PInv, PoolTypes, ReaderFails, Lose, CloseIdle, StopPool, CloseStarts, Phases
<1>3. \A c \in Carriers : phase'[c] = phase[c] \/ (Runs(c) /\ phase'[c] = "closing")
  <2>1. ASSUME NEW d \in Carriers, ReaderFails(d) \/ Lose(d)
        PROVE  \A c \in Carriers : phase'[c] = phase[c] \/ (Runs(c) /\ phase'[c] = "closing")
    BY <2>1 DEF PInv, PoolTypes, ReaderFails, Lose, CloseStarts, Runs
  <2>2. CASE CloseIdle
    BY <2>2 DEF PInv, PoolTypes, CloseIdle, CloseStarts
  <2>3. CASE StopPool
    BY <2>3 DEF StopPool, Live
  <2> QED
    BY <2>1, <2>2, <2>3
<1>4. mpc' = mpc \/ (mpc = "close" /\ mpc' = "reap")
  BY DEF ReaderFails, Lose, CloseIdle, StopPool, Maintain
<1>5. PoolTypes' /\ StreamTypes'
  BY <1>1, <1>2, <1>4 DEF PInv, PoolTypes, StreamTypes
<1>6. Joining'
  BY <1>1, <1>3, <1>4 DEF PInv, PoolTypes, Joining, Runs
<1>7. Placed'
  BY <1>1, <1>3 DEF PInv, Placed, Runs
<1> QED
  BY <1>5, <1>6, <1>7 DEF PInv

-----------------------------------------------------------------------------
(* The number of carriers stays within its limits. *)
LEMMA RebalanceOK ==
  ASSUME IsFiniteSet(Users), PInv, Rebalance PROVE PInv'
<1> DEFINE all == UNION {streams[c] : c \in Live}
           used == Cardinality(all)
           aim == MinCarriers + Floor(used - 1) \div MinStreams
<1>1. IsFiniteSet(Sessions)
  <2>1. IsFiniteSet(1 .. Tries)
    BY FS_Interval, TriesAssumption
  <2> QED
    BY <2>1, FS_Product DEF Sessions
<1>2. all \subseteq Sessions
  <2>1. Live \subseteq Carriers
    BY DEF Live, PInv, PoolTypes
  <2>2. \A c \in Carriers : streams[c] \subseteq Sessions
    BY DEF PInv, StreamTypes
  <2> QED
    BY <2>1, <2>2
<1>3. used \in Nat
  BY <1>1, <1>2, FS_Subset, FS_CardinalityType
<1> HIDE DEF all, used
<1>4. Floor(used - 1) \in Nat
  BY <1>3 DEF Floor
<1>5. Floor(used - 1) \div MinStreams \in Nat
  BY <1>4, SizesAssumption
<1>6. aim \in Nat /\ aim >= MinCarriers
  BY <1>5, SizesAssumption
<1> HIDE DEF aim
<1>7. \A cap \in Caps : cap \in MinCarriers .. MaxCarriers
  BY SizesAssumption DEF Caps
<1>8. PICK cap \in Caps : desired' = IF aim < cap THEN aim ELSE cap
  BY DEF Rebalance, aim, used, all
<1>9. desired' \in MinCarriers .. MaxCarriers
  BY <1>6, <1>7, <1>8, SizesAssumption
<1>10. UNCHANGED <<phase, cid, carriers, streams, try, cand>> /\ mpc = "balance" /\ mpc' = "reap"
  BY DEF Rebalance, Maintain, carrierVars, userVars
<1> QED
  BY <1>9, <1>10 DEF PInv, PoolTypes, StreamTypes, Joining, Placed, Runs

(* Nobody runs under the number a new carrier takes. *)
LEMMA TakeTunnelOK ==
  ASSUME PInv, TakeTunnel PROVE PInv'
<1>1. PICK i \in Missing, c \in Carriers :
        /\ Fresh(c) /\ cand' = c /\ cid' = [cid EXCEPT ![c] = i]
        /\ phase' = [phase EXCEPT ![c] = "join"]
  BY DEF TakeTunnel
<1>2. UNCHANGED <<carriers, desired, streams, try>> /\ mpc = "fill" /\ mpc' = "join"
  BY DEF TakeTunnel, Maintain, userVars
<1>3. i \in Ids /\ \A d \in Live : cid[d] # i
  BY SizesAssumption DEF Missing, PInv, PoolTypes, Ids
<1>4. \A d \in Carriers : Runs(d) => d # c /\ d \in Live
  BY <1>1, NoCarrierAssumption DEF Fresh, Runs, Live, PInv, PoolTypes, Placed
<1>5. /\ cid'[c] = i /\ phase'[c] = "join"
      /\ \A d \in Carriers \ {c} : cid'[d] = cid[d] /\ phase'[d] = phase[d]
  BY <1>1 DEF PInv, PoolTypes
<1>6. PoolTypes' /\ StreamTypes'
  BY <1>1, <1>2, <1>3 DEF PInv, PoolTypes, StreamTypes, Phases
<1>7. Joining'
  BY <1>1, <1>2, <1>3, <1>4, <1>5 DEF PInv, Joining, Runs
<1>8. Placed'
  BY <1>2, <1>4, <1>5 DEF PInv, Placed, Runs
<1> QED
  BY <1>6, <1>7, <1>8 DEF PInv

LEMMA JoinSentOK ==
  ASSUME PInv, JoinSent PROVE PInv'
<1>1. /\ mpc = "join" /\ mpc' = "start" /\ cand \in Carriers
      /\ phase' = [phase EXCEPT ![cand] = "made"]
      /\ carriers' = [carriers EXCEPT ![cid[cand]] = cand]
      /\ UNCHANGED <<cid, desired, cand, streams, try>>
  BY DEF JoinSent, Maintain, PInv, PoolTypes, userVars
<1>2. phase'[cand] = "made" /\ \A d \in Carriers \ {cand} : phase'[d] = phase[d]
  BY <1>1 DEF PInv, PoolTypes
<1>3. PoolTypes' /\ StreamTypes'
  BY <1>1 DEF PInv, PoolTypes, StreamTypes, Phases
<1>4. Joining'
  BY <1>1, <1>2 DEF PInv, Joining
<1>5. Placed'
  <2> SUFFICES ASSUME NEW d \in Carriers, Runs(d)' PROVE carriers'[cid'[d]] = d
    BY DEF Placed
  <2>1. CASE d = cand
    BY <1>1, <2>1 DEF PInv, PoolTypes
  <2>2. CASE d # cand
    <3>1. Runs(d) /\ carriers[cid[d]] = d /\ cid[d] # cid[cand]
      BY <1>1, <1>2, <2>2 DEF Runs, PInv, Placed, Joining
    <3> QED
      BY <3>1, <1>1 DEF PInv, PoolTypes
  <2> QED
    BY <2>1, <2>2
<1> QED
  BY <1>3, <1>4, <1>5 DEF PInv

LEMMA JoinEndsOK ==
  ASSUME PInv, JoinFails \/ StartCarrier \/ StartCarrierFails PROVE PInv'
<1>1. /\ mpc \in {"join", "start"} /\ mpc' = "balance" /\ cand \in Carriers
      /\ UNCHANGED <<carriers, cid, desired, cand, streams, try>>
  BY DEF JoinFails, StartCarrier, StartCarrierFails, Maintain, PInv, PoolTypes, userVars
<1>2. phase' \in [Carriers -> Phases]
  BY DEF JoinFails, StartCarrier, StartCarrierFails, PInv, PoolTypes, Phases
<1>3. /\ \A c \in Carriers \ {cand} : phase'[c] = phase[c]
      /\ phase'[cand] # "join" /\ (Runs(cand)' => Runs(cand))
  <2>1. CASE JoinFails
    BY <2>1, <1>1 DEF JoinFails, PInv, PoolTypes, Runs
  <2>2. CASE StartCarrier
    <3>1. mpc = "start" /\ phase[cand] # "join"
      BY <2>2, <1>1 DEF StartCarrier, PInv, Joining
    <3> QED
      BY <2>2, <3>1, <1>1 DEF StartCarrier, PInv, PoolTypes, Runs
  <2>3. CASE StartCarrierFails
    BY <2>3 DEF StartCarrierFails, PInv, Joining, Runs, PoolTypes
  <2> QED
    BY <2>1, <2>2, <2>3
<1>4. PoolTypes' /\ StreamTypes'
  BY <1>1, <1>2 DEF PInv, PoolTypes, StreamTypes
<1>5. Joining'
  BY <1>1, <1>3 DEF PInv, Joining
<1>6. Placed'
  BY <1>1, <1>3 DEF PInv, Placed, Runs
<1> QED
  BY <1>4, <1>5, <1>6 DEF PInv

(* The other steps only move maintain_mux_carriers or the link along.      *)
LEMMA MovesOK ==
  ASSUME PInv,
         FindIdle \/ Reaped \/ NothingMissing \/ NoTunnel \/ MaintainEnds \/ StopFlag \/ StopSockets
  PROVE  PInv'
<1> USE DEF carrierVars, poolVars, userVars
<1>1. UNCHANGED <<phase, cid, carriers, desired, streams, try>>
  BY DEF FindIdle, Reaped, NothingMissing, NoTunnel, MaintainEnds, StopFlag, StopSockets
<1>2. \/ UNCHANGED <<mpc, cand>>
      \/ mpc # "join" /\ mpc' \notin {"close", "join", "start"}
      \/ mpc # "join" /\ mpc' = "close" /\ cand' \in Carriers
  BY DEF FindIdle, Reaped, NothingMissing, NoTunnel, MaintainEnds, StopFlag, StopSockets,
         Maintain, Live, PInv, PoolTypes
<1>3. PoolTypes' /\ StreamTypes'
  BY <1>1, <1>2 DEF PInv, PoolTypes, StreamTypes
<1>4. Joining' /\ Placed'
  BY <1>1, <1>2 DEF PInv, Joining, Placed, Runs
<1> QED
  BY <1>3, <1>4 DEF PInv

-----------------------------------------------------------------------------
LEMMA StepOK == IsFiniteSet(Users) /\ PInv /\ [Next]_vars => PInv'
<1> SUFFICES ASSUME IsFiniteSet(Users), PInv, [Next]_vars PROVE PInv'
  OBVIOUS
<1>1. CASE \E u \in Users : UserSteps(u) \/ StreamEnds(u)
  BY <1>1, UsersOK
<1>2. CASE \E c \in Carriers : CarrierClears(c) \/ ReaderFails(c) \/ Lose(c)
  BY <1>2, CarrierClearsOK, ClosingOK
<1>3. CASE \E s \in Sessions : Monitor(s)
  BY <1>3, UsersOK
<1>4. CASE MaintainSteps
  BY <1>4, RebalanceOK, ClosingOK, TakeTunnelOK, JoinSentOK, JoinEndsOK, MovesOK
  DEF MaintainSteps
<1>5. CASE StopFlag \/ StopSteps
  BY <1>5, UsersOK, ClosingOK, MovesOK DEF StopSteps
<1>6. CASE UNCHANGED vars
  BY <1>6, PoolKept DEF vars, userVars, carrierVars, poolVars, pool, PInv, StreamTypes
<1> QED
  BY <1>1, <1>2, <1>3, <1>4, <1>5, <1>6 DEF Next

(* A carrier that runs is found by the users, for any number of users and  *)
(* carriers, whatever is lost, closed, replaced or stopped meanwhile.      *)
THEOREM CarriersFound ==
  ASSUME IsFiniteSet(Users) PROVE Spec => []RunningCarriersFound
<1>1. PInv => RunningCarriersFound
  BY DEF PInv, Placed, Runs, RunningCarriersFound
<1>2. PInv /\ [Next]_vars => PInv'
  BY StepOK
<1> QED
  BY InitOK, <1>1, <1>2, PTL DEF Spec
-----------------------------------------------------------------------------
(* The counter mux_streams. *)

Opened == {s \in Sessions : sess[s] = "open"}
Counting == {u \in Users : upc[u] = "count"}
CountTypes ==
  /\ mux_streams \in Nat /\ active \subseteq Sessions
  /\ sess \in [Sessions -> {"none", "open", "closed"}] /\ DOMAIN upc = Users
  /\ uncounted \subseteq Sessions

(* A session whose writer could not start is of an earlier attempt, or of  *)
(* the last.                                                               *)
Beyond == {"fallback", "single"}
FailedBehind ==
  /\ \A s \in uncounted : s[2] <= try[s[1]]
  /\ \A u \in Users : upc[u] \notin Beyond => Session(u) \notin uncounted

CInv == PInv /\ CountTypes /\ FailedBehind /\ StreamsCounted

LEMMA FiniteCounts ==
  IsFiniteSet(Users) =>
    /\ IsFiniteSet(Opened) /\ Cardinality(Opened) \in Nat
    /\ IsFiniteSet(Counting) /\ Cardinality(Counting) \in Nat
    /\ \A S \in SUBSET Sessions : IsFiniteSet(S) /\ Cardinality(S) \in Nat
<1> SUFFICES ASSUME IsFiniteSet(Users)
             PROVE  /\ IsFiniteSet(Opened) /\ IsFiniteSet(Counting)
                    /\ \A S \in SUBSET Sessions : IsFiniteSet(S)
  BY FS_CardinalityType
<1>1. IsFiniteSet(1 .. Tries)
  BY FS_Interval, TriesAssumption
<1>2. IsFiniteSet(Sessions)
  BY <1>1, FS_Product DEF Sessions
<1> QED
  BY <1>2, FS_Subset DEF Opened, Counting

(* What closes sessions subtracts no more than it closes. *)
LEMMA CloseCounted ==
  ASSUME IsFiniteSet(Users), CountTypes, StreamsCounted, NEW S \in SUBSET Sessions,
         CloseSessions(S), UNCHANGED <<upc, uncounted>>
  PROVE  CountTypes' /\ StreamsCounted'
<1> DEFINE shut == {s \in S : sess[s] = "open"}
<1>1. /\ sess' = [s \in Sessions |-> IF s \in shut THEN "closed" ELSE sess[s]]
      /\ mux_streams' = Floor(mux_streams - Cardinality(shut)) /\ active' = active \ S
  BY DEF CloseSessions
<1>2. Opened' = Opened \ shut /\ Opened \cap shut = shut /\ Counting' = Counting
  BY <1>1 DEF Opened, Counting
<1>3. IsFiniteSet(shut) /\ Cardinality(shut) \in Nat
  BY <1>2, FiniteCounts, FS_Subset, FS_CardinalityType DEF Opened
<1> HIDE DEF shut
<1>4. Cardinality(Opened') = Cardinality(Opened) - Cardinality(shut)
  <2>1. Cardinality(Opened \ shut) = Cardinality(Opened) - Cardinality(Opened \cap shut)
    BY FiniteCounts, FS_Difference
  <2> QED
    BY <1>2, <2>1
<1>5. mux_streams' \in Nat /\ mux_streams' >= mux_streams - Cardinality(shut)
  BY <1>1, <1>3 DEF Floor, CountTypes
<1>6. Cardinality(Opened') <= mux_streams' + Cardinality(Counting') + Cardinality(uncounted')
  BY <1>2, <1>3, <1>4, <1>5, FiniteCounts DEF CountTypes, StreamsCounted, Opened, Counting
<1>7. StreamsCounted'
  BY <1>6 DEF StreamsCounted, Opened, Counting
<1>8. sess' \in [Sessions -> {"none", "open", "closed"}]
  BY <1>1 DEF CountTypes
<1>9. CountTypes'
  BY <1>1, <1>5, <1>8 DEF CountTypes
<1> QED
  BY <1>7, <1>9

(* Steps that leave the sessions alone and no user at its count.           *)
LEMMA NotCounted ==
  ASSUME CountTypes, StreamsCounted, UNCHANGED <<mux_streams, sess, uncounted>>,
         active' \subseteq Sessions, DOMAIN upc' = Users,
         \A u \in Users : upc'[u] = "count" <=> upc[u] = "count"
  PROVE  CountTypes' /\ StreamsCounted'
<1>1. Opened' = Opened /\ Counting' = Counting
  BY DEF Opened, Counting
<1> QED
  BY <1>1 DEF CountTypes, StreamsCounted, Opened, Counting

LEMMA RegisterCounted ==
  ASSUME IsFiniteSet(Users), CInv, NEW u \in Users, RegisterStream(u)
  PROVE  CountTypes' /\ StreamsCounted'
<1>0. upc[u] = "register" /\ UNCHANGED <<mux_streams, active, uncounted>>
  BY DEF RegisterStream
<1>1. CASE running /\ Load(chosen[u]) < Limit
  <2>1. Session(u) \in Sessions
    BY DEF Session, Sessions, CInv, PInv, StreamTypes
  <2>2. /\ sess' = [sess EXCEPT ![Session(u)] = "open"]
        /\ upc' = [upc EXCEPT ![u] = "count"]
    BY <1>1 DEF RegisterStream, Step
  <2>3. CountTypes'
    BY <1>0, <2>1, <2>2 DEF CountTypes, CInv
  <2>4. Opened' = Opened \cup {Session(u)} /\ Counting' = Counting \cup {u} /\ u \notin Counting
    BY <1>0, <2>1, <2>2 DEF Opened, Counting, CountTypes, CInv
  <2>5. /\ Cardinality(Opened') <= Cardinality(Opened) + 1
        /\ Cardinality(Opened') \in Nat
        /\ Cardinality(Counting') = Cardinality(Counting) + 1
    <3>1. Cardinality(Opened \cup {Session(u)}) \in {Cardinality(Opened), Cardinality(Opened) + 1}
      BY FiniteCounts, FS_AddElement
    <3>2. Cardinality(Counting \cup {u}) = Cardinality(Counting) + 1
      BY <2>4, FiniteCounts, FS_AddElement
    <3> QED
      BY <2>4, <3>1, <3>2, FiniteCounts
  <2>6. StreamsCounted'
    BY <1>0, <2>5, FiniteCounts DEF StreamsCounted, Opened, Counting, CInv, CountTypes
  <2> QED
    BY <2>3, <2>6
<1>2. CASE ~(running /\ Load(chosen[u]) < Limit)
  <2>1. NextTry(u) /\ sess' = sess
    BY <1>2 DEF RegisterStream
  <2>2. upc' \in {[upc EXCEPT ![u] = "try"], [upc EXCEPT ![u] = "fallback"]}
    BY <2>1 DEF NextTry, Step
  <2> QED
    BY <1>0, <2>1, <2>2, NotCounted DEF CInv, CountTypes
<1> QED
  BY <1>1, <1>2

LEMMA CountCounted ==
  ASSUME IsFiniteSet(Users), CInv, NEW u \in Users, CountStream(u)
  PROVE  CountTypes' /\ StreamsCounted'
<1>1. /\ upc[u] = "count" /\ mux_streams' = mux_streams + 1 /\ UNCHANGED <<sess, active, uncounted>>
      /\ upc' = [upc EXCEPT ![u] = "enlist"]
  BY DEF CountStream, Step
<1>2. Opened' = Opened /\ Counting' = Counting \ {u} /\ u \in Counting
  BY <1>1 DEF Opened, Counting, CInv, CountTypes
<1>3. Cardinality(Counting') = Cardinality(Counting) - 1
  BY <1>2, FiniteCounts, FS_RemoveElement
<1>4. StreamsCounted'
  BY <1>1, <1>2, <1>3, FiniteCounts DEF StreamsCounted, Opened, Counting, CInv, CountTypes
<1> QED
  BY <1>1, <1>4 DEF CInv, CountTypes

(* A stream whose writer cannot start goes from one term to another.       *)
LEMMA WriterFailCounted ==
  ASSUME IsFiniteSet(Users), CInv, NEW u \in Users, WriterFails(u)
  PROVE  CountTypes' /\ StreamsCounted'
<1>1. /\ upc[u] = "count" /\ UNCHANGED <<sess, active, mux_streams>>
      /\ uncounted' = uncounted \cup {Session(u)} /\ Session(u) \in Sessions
      /\ upc' \in {[upc EXCEPT ![u] = "try"], [upc EXCEPT ![u] = "fallback"]}
  BY DEF WriterFails, NextTry, Step, Session, Sessions, CInv, PInv, StreamTypes, sessionVars
<1>2. Opened' = Opened /\ Counting' = Counting \ {u} /\ u \in Counting
  BY <1>1 DEF Opened, Counting, CInv, CountTypes
<1>3. Cardinality(Counting') = Cardinality(Counting) - 1
  BY <1>2, FiniteCounts, FS_RemoveElement
<1>4. IsFiniteSet(uncounted) /\ Cardinality(uncounted) \in Nat
  BY FiniteCounts DEF CInv, CountTypes
<1>5. Cardinality(uncounted \cup {Session(u)}) = Cardinality(uncounted) + 1
  <2>1. Session(u) \notin uncounted
    BY <1>1 DEF CInv, FailedBehind, Beyond
  <2> QED
    BY <1>4, <2>1, FS_AddElement
<1>6. StreamsCounted'
  BY <1>1, <1>2, <1>3, <1>4, <1>5, FiniteCounts
  DEF StreamsCounted, Opened, Counting, CInv, CountTypes
<1> QED
  BY <1>1, <1>6 DEF CInv, CountTypes

LEMMA UserCounted ==
  ASSUME IsFiniteSet(Users), CInv, NEW u \in Users, UserSteps(u) \/ StreamEnds(u)
  PROVE  CountTypes' /\ StreamsCounted'
<1> USE DEF sessionVars, userVars
<1>1. Session(u) \in Sessions
  BY DEF Session, Sessions, CInv, PInv, StreamTypes
<1>2. CASE Choose(u) \/ UserDone(u) \/ SingleTunnel(u) \/ SendOpen(u) \/ StartPump(u) \/ PumpFails(u)
  <2>1. UNCHANGED <<mux_streams, sess, active, uncounted>>
    BY <1>2 DEF Choose, UserDone, SingleTunnel, SendOpen, StartPump, PumpFails
  <2>2. /\ upc[u] # "count"
        /\ \E l \in {"try", "fallback", "register", "done", "single", "pump", "wait"} :
             upc' = [upc EXCEPT ![u] = l]
    BY <1>2 DEF Choose, UserDone, SingleTunnel, SendOpen, StartPump, PumpFails, NextTry, Step
  <2> QED
    BY <2>1, <2>2, NotCounted DEF CInv, CountTypes
<1>3. CASE Enlist(u)
  <2>1. /\ UNCHANGED <<mux_streams, sess, uncounted>> /\ active' = active \cup {Session(u)}
        /\ upc[u] = "enlist" /\ upc' = [upc EXCEPT ![u] = "open"]
    BY <1>3 DEF Enlist, Step
  <2> QED
    BY <1>1, <2>1, NotCounted DEF CInv, CountTypes
<1>4. CASE StreamFails(u) \/ StreamEnds(u)
  BY <1>1, <1>4, CloseCounted DEF StreamFails, StreamEnds, CInv
<1> QED
  BY <1>2, <1>3, <1>4, RegisterCounted, CountCounted, WriterFailCounted DEF UserSteps

LEMMA OthersCounted ==
  ASSUME IsFiniteSet(Users), CInv,
         \/ \E c \in Carriers : CarrierClears(c) \/ ReaderFails(c) \/ Lose(c)
         \/ \E s \in Sessions : Monitor(s)
         \/ MaintainSteps \/ StopFlag \/ StopSteps \/ UNCHANGED vars
  PROVE  CountTypes' /\ StreamsCounted'
<1> USE DEF sessionVars, userVars
<1>1. ASSUME NEW c \in Carriers, CarrierClears(c) PROVE CountTypes' /\ StreamsCounted'
  <2>1. streams[c] \in SUBSET Sessions
    BY DEF CInv, PInv, StreamTypes
  <2> QED
    BY <1>1, <2>1, CloseCounted DEF CarrierClears, CInv
<1>2. ASSUME NEW s \in Sessions, Monitor(s) PROVE CountTypes' /\ StreamsCounted'
  BY <1>2, CloseCounted DEF Monitor, CInv
<1>3. CASE StopSessions
  BY <1>3, CloseCounted DEF StopSessions, CInv, CountTypes
<1>4. CASE UNCHANGED <<mux_streams, sess, active, upc, uncounted>>
  BY <1>4, NotCounted DEF CInv, CountTypes
<1>5. ASSUME NEW c \in Carriers, ReaderFails(c) \/ Lose(c)
      PROVE  UNCHANGED <<mux_streams, sess, active, upc, uncounted>>
  BY <1>5 DEF ReaderFails, Lose
<1>6. CASE MaintainSteps \/ StopFlag \/ StopPool \/ StopSockets
  BY <1>4, <1>6 DEF MaintainSteps, Rebalance, FindIdle, CloseIdle, Reaped, NothingMissing,
       TakeTunnel, NoTunnel, JoinSent, JoinFails, StartCarrier, StartCarrierFails, MaintainEnds, StopFlag,
       StopPool, StopSockets
<1>7. CASE UNCHANGED vars
  BY <1>4, <1>7 DEF vars
<1> QED
  BY <1>1, <1>2, <1>3, <1>4, <1>5, <1>6, <1>7 DEF StopSteps

LEMMA TriesBehind ==
  ASSUME CInv, NEW u \in Users, NextTry(u), upc[u] \notin Beyond,
         uncounted' \in {uncounted, uncounted \cup {Session(u)}}
  PROVE  FailedBehind'
<1>0. /\ try \in [Users -> 1 .. Tries] /\ DOMAIN upc = Users
      /\ uncounted \subseteq Users \X (1 .. Tries)
      /\ \A s \in uncounted : s[2] <= try[s[1]]
      /\ \A v \in Users : upc[v] \notin Beyond => <<v, try[v]>> \notin uncounted
  BY DEF CInv, PInv, StreamTypes, CountTypes, FailedBehind, Session, Sessions
<1>1. uncounted' \subseteq uncounted \cup {<<u, try[u]>>}
  BY DEF Session
<1>2. CASE try[u] < Tries
  <2>1. /\ try' = [try EXCEPT ![u] = @ + 1] /\ upc' = [upc EXCEPT ![u] = "try"]
    BY <1>2 DEF NextTry, Step
  <2>2. try'[u] = try[u] + 1 /\ \A v \in Users \ {u} : try'[v] = try[v]
    BY <1>0, <2>1
  <2>3. \A s \in uncounted \cup {<<u, try[u]>>} : s[2] <= try'[s[1]] /\ s # <<u, try'[u]>>
    <3>1. ASSUME NEW s \in uncounted PROVE s[2] <= try'[s[1]] /\ s # <<u, try'[u]>>
      <4>1. PICK v \in Users, k \in 1 .. Tries : s = <<v, k>>
        BY <1>0
      <4>2. k <= try[v] /\ try[v] \in Nat /\ k \in Nat
        BY <1>0, <4>1
      <4> QED
        BY <2>2, <4>1, <4>2
    <3>2. try[u] <= try'[u] /\ try[u] # try'[u]
      BY <1>0, <2>2
    <3> QED
      BY <3>1, <3>2
  <2>4. ASSUME NEW v \in Users, upc'[v] \notin Beyond PROVE <<v, try'[v]>> \notin uncounted'
    <3>1. CASE v = u
      BY <1>1, <2>3, <3>1
    <3>2. CASE v # u
      <4>1. upc'[v] = upc[v]
        BY <1>0, <2>1, <3>2
      <4> QED
        BY <1>0, <1>1, <2>2, <2>4, <3>2, <4>1
    <3> QED
      BY <3>1, <3>2
  <2> QED
    BY <1>1, <2>3, <2>4 DEF FailedBehind, Session
<1>3. CASE ~(try[u] < Tries)
  <2>1. try' = try /\ upc' = [upc EXCEPT ![u] = "fallback"]
    BY <1>3 DEF NextTry, Step
  <2>2. \A s \in uncounted \cup {<<u, try[u]>>} : s[2] <= try'[s[1]]
    BY <1>0, <2>1
  <2>3. ASSUME NEW v \in Users, upc'[v] \notin Beyond PROVE <<v, try'[v]>> \notin uncounted'
    <3>1. v # u /\ upc'[v] = upc[v]
      BY <1>0, <2>1, <2>3 DEF Beyond
    <3> QED
      BY <1>0, <1>1, <2>1, <2>3, <3>1
  <2> QED
    BY <1>1, <2>2, <2>3 DEF FailedBehind, Session
<1> QED
  BY <1>2, <1>3

LEMMA StaysBehind ==
  ASSUME CInv, UNCHANGED <<try, uncounted>>,
         \A u \in Users : upc[u] \in Beyond => upc'[u] \in Beyond
  PROVE  FailedBehind'
BY DEF CInv, FailedBehind, Session

LEMMA UserBehind ==
  ASSUME CInv, NEW u \in Users, UserSteps(u) \/ StreamEnds(u) PROVE FailedBehind'
<1> USE DEF userVars
<1>0. DOMAIN upc = Users
  BY DEF CInv, CountTypes
<1>1. CASE Choose(u)
  <2>1. upc[u] = "try" /\ uncounted' = uncounted
        /\ (NextTry(u) \/ (Step(u, "register") /\ try' = try))
    BY <1>1 DEF Choose
  <2> QED
    BY <1>0, <2>1, TriesBehind, StaysBehind DEF Step, Beyond
<1>2. CASE RegisterStream(u)
  <2>1. upc[u] = "register" /\ uncounted' = uncounted
        /\ (NextTry(u) \/ (Step(u, "count") /\ try' = try))
    BY <1>2 DEF RegisterStream
  <2> QED
    BY <1>0, <2>1, TriesBehind, StaysBehind DEF Step, Beyond
<1>3. CASE WriterFails(u)
  BY <1>3, TriesBehind DEF WriterFails, Beyond
<1>4. CASE SendOpen(u)
  <2>1. upc[u] = "open" /\ uncounted' = uncounted
        /\ (NextTry(u) \/ (Step(u, "pump") /\ try' = try))
    BY <1>4 DEF SendOpen
  <2> QED
    BY <1>0, <2>1, TriesBehind, StaysBehind DEF Step, Beyond
<1>5. CASE PumpFails(u)
  BY <1>5, TriesBehind DEF PumpFails, Beyond
<1>6. CASE CountStream(u) \/ Enlist(u) \/ StartPump(u) \/ UserDone(u) \/ SingleTunnel(u)
  <2>1. /\ UNCHANGED <<try, uncounted>>
        /\ \E l : upc' = [upc EXCEPT ![u] = l] /\ (upc[u] \in Beyond => l \in Beyond)
    BY <1>6 DEF CountStream, Enlist, StartPump, UserDone, SingleTunnel, Step, Beyond
  <2> QED
    BY <1>0, <2>1, StaysBehind
<1>7. CASE StreamFails(u) \/ StreamEnds(u)
  BY <1>7, StaysBehind DEF StreamFails, StreamEnds
<1> QED
  BY <1>1, <1>2, <1>3, <1>4, <1>5, <1>6, <1>7 DEF UserSteps

LEMMA CountsStart == IsFiniteSet(Users) /\ Init => CInv
<1> SUFFICES ASSUME IsFiniteSet(Users), Init PROVE CInv
  OBVIOUS
<1>1. Opened = {} /\ mux_streams = 0
  BY DEF Init, Opened
<1>2. CountTypes
  BY DEF Init, CountTypes
<1>3. Cardinality(Opened) = 0
  BY <1>1, FS_EmptySet
<1>4. StreamsCounted
  BY <1>1, <1>3, FiniteCounts DEF StreamsCounted, Opened, Counting, Init
<1>5. FailedBehind
  BY DEF Init, FailedBehind
<1> QED
  BY <1>2, <1>4, <1>5, InitOK DEF CInv

LEMMA CountsKept == IsFiniteSet(Users) /\ CInv /\ [Next]_vars => CInv'
<1> SUFFICES ASSUME IsFiniteSet(Users), CInv, [Next]_vars PROVE CInv'
  OBVIOUS
<1>1. PInv'
  BY StepOK DEF CInv
<1>2. CountTypes' /\ StreamsCounted'
  BY UserCounted, OthersCounted DEF Next
<1>3. FailedBehind'
  <2>1. CASE UNCHANGED <<try, uncounted, upc>>
    BY <2>1, StaysBehind
  <2>2. \/ UNCHANGED <<try, uncounted, upc>>
        \/ \E u \in Users : UserSteps(u) \/ StreamEnds(u)
    BY DEF Next, CarrierClears, ReaderFails, Lose, Monitor, MaintainSteps, Rebalance, FindIdle,
       CloseIdle, Reaped, NothingMissing, TakeTunnel, NoTunnel, JoinSent, JoinFails, StartCarrier,
       StartCarrierFails, MaintainEnds, StopFlag, StopSteps, StopSessions, StopPool, StopSockets,
       userVars, vars
  <2> QED
    BY <2>1, <2>2, UserBehind
<1> QED
  BY <1>1, <1>2, <1>3 DEF CInv

(* mux_streams misses no more open streams than there are threads about to *)
(* count one and streams whose writer could not start: register_stream     *)
(* counts after the lock is released, while anybody may close the stream,  *)
(* and a close takes off one, counted or not.                              *)
THEOREM NoStreamUncounted ==
  ASSUME IsFiniteSet(Users) PROVE Spec => []StreamsCounted
<1>1. CInv => StreamsCounted
  BY DEF CInv
<1>2. Init => CInv
  BY CountsStart
<1>3. CInv /\ [Next]_vars => CInv'
  BY CountsKept
<1> QED
  BY <1>1, <1>2, <1>3, PTL DEF Spec

-----------------------------------------------------------------------------
(* Nobody waits for a dead carrier. *)

Holding == {"register", "count", "enlist", "open", "pump", "wait"}

(* A user that has chosen a carrier keeps it from being used again.        *)
Choices ==
  /\ chosen \in [Users -> Carriers \cup {NoCarrier}]
  /\ \A u \in Users : upc[u] \in Holding =>
       chosen[u] \in Carriers /\ phase[chosen[u]] \in {"made", "run", "closing", "closed"}

(* A session is with its carrier until it is closed. *)
Registered ==
  \A u \in Users : upc[u] \in Holding \ {"register"} =>
    \/ sess[Session(u)] = "closed"
    \/ sess[Session(u)] = "open" /\ Session(u) \in streams[chosen[u]]

(* A user that waits is on a carrier that runs or that is about to clear   *)
(* its streams, or its session is closed and wakes it: register_stream and *)
(* the carrier's close leave no gap between them in which a user is        *)
(* forgotten.                                                              *)
NobodyStranded ==
  \A u \in Users : upc[u] \in {"pump", "wait"} =>
    Runs(chosen[u]) \/ phase[chosen[u]] = "closing" \/ sess[Session(u)] = "closed"

Served == Choices /\ Registered /\ NobodyStranded
UInv == CInv /\ Served

LEMMA ServedStarts == Init => Served
BY DEF Init, Served, Choices, Registered, NobodyStranded, Holding

(* Steps of the carriers under the users. *)
LEMMA CarriersServe ==
  ASSUME UInv, UNCHANGED <<upc, try, chosen, sess, streams>>,
         \A u \in Users : upc[u] \in Holding =>
           \/ phase'[chosen[u]] = phase[chosen[u]]
           \/ Runs(chosen[u]) /\ phase'[chosen[u]] \in {"run", "closing"}
  PROVE  Served'
<1>1. Choices'
  BY DEF UInv, Served, Choices
<1>2. Registered'
  BY DEF UInv, Served, Registered, Session
<1>3. NobodyStranded'
  BY DEF UInv, Served, NobodyStranded, Holding, Runs, Session
<1> QED
  BY <1>1, <1>2, <1>3 DEF Served

LEMMA ClosingServes ==
  ASSUME UInv, NEW S, CloseSessions(S), UNCHANGED <<upc, try, chosen, phase>>
  PROVE  Served'
<1>1. /\ \A s \in Sessions : sess'[s] = IF s \in S /\ sess[s] = "open" THEN "closed" ELSE sess[s]
      /\ \A c \in Carriers : streams'[c] = streams[c] \ {s \in S : sess[s] = "open"}
  BY DEF CloseSessions
<1>2. \A u \in Users : Session(u) \in Sessions /\ Session(u)' = Session(u)
  BY DEF Session, Sessions, UInv, CInv, PInv, StreamTypes
<1>3. Choices'
  BY DEF UInv, Served, Choices
<1>4. Registered'
  <2> SUFFICES ASSUME NEW u \in Users, upc[u] \in Holding \ {"register"}
               PROVE  \/ sess'[Session(u)] = "closed"
                      \/ sess'[Session(u)] = "open" /\ Session(u) \in streams'[chosen[u]]
    BY <1>2 DEF Registered
  <2>1. chosen[u] \in Carriers
    BY DEF UInv, Served, Choices
  <2>2. \/ sess[Session(u)] = "closed"
        \/ sess[Session(u)] = "open" /\ Session(u) \in streams[chosen[u]]
    BY DEF UInv, Served, Registered
  <2> QED
    BY <1>1, <1>2, <2>1, <2>2
<1>5. NobodyStranded'
  BY <1>1, <1>2 DEF UInv, Served, NobodyStranded, Runs
<1> QED
  BY <1>3, <1>4, <1>5 DEF Served

(* Whoever waits on the carrier that clears has its session closed. *)
LEMMA ClearingServes ==
  ASSUME UInv, NEW c \in Carriers, CarrierClears(c) PROVE Served'
<1>1. /\ phase[c] = "closing" /\ phase' = [phase EXCEPT ![c] = "closed"]
      /\ UNCHANGED <<upc, try, chosen>> /\ CloseSessions(streams[c])
  BY DEF CarrierClears, userVars
<1>2. /\ \A s \in Sessions : sess'[s] = IF s \in streams[c] /\ sess[s] = "open" THEN "closed" ELSE sess[s]
      /\ \A d \in Carriers : streams'[d] = streams[d] \ {s \in streams[c] : sess[s] = "open"}
  BY <1>1 DEF CloseSessions
<1>3. \A u \in Users : Session(u) \in Sessions /\ Session(u)' = Session(u)
  BY <1>1 DEF Session, Sessions, UInv, CInv, PInv, StreamTypes
<1>4. \A d \in Carriers : phase'[d] = IF d = c THEN "closed" ELSE phase[d]
  BY <1>1 DEF UInv, CInv, PInv, PoolTypes
<1>5. Choices'
  BY <1>1, <1>4 DEF UInv, Served, Choices
<1>6. ASSUME NEW u \in Users, upc[u] \in Holding \ {"register"}
      PROVE  /\ chosen[u] \in Carriers
             /\ \/ sess'[Session(u)] = "closed"
                \/ /\ sess'[Session(u)] = "open" /\ Session(u) \in streams'[chosen[u]]
                   /\ chosen[u] # c
  <2>1. chosen[u] \in Carriers
    BY <1>6 DEF UInv, Served, Choices
  <2>2. \/ sess[Session(u)] = "closed"
        \/ sess[Session(u)] = "open" /\ Session(u) \in streams[chosen[u]]
    BY <1>6 DEF UInv, Served, Registered
  <2> QED
    BY <1>2, <1>3, <2>1, <2>2
<1>7. Registered'
  BY <1>1, <1>3, <1>6 DEF Registered
<1>8. NobodyStranded'
  <2> SUFFICES ASSUME NEW u \in Users, upc[u] \in {"pump", "wait"}
               PROVE  \/ Runs(chosen[u])' \/ phase'[chosen[u]] = "closing"
                      \/ sess'[Session(u)] = "closed"
    BY <1>1, <1>3 DEF NobodyStranded, Runs
  <2>1. \/ Runs(chosen[u]) \/ phase[chosen[u]] = "closing" \/ sess[Session(u)] = "closed"
    BY DEF UInv, Served, NobodyStranded
  <2>2. chosen[u] \in Carriers /\ (sess'[Session(u)] = "closed" \/ chosen[u] # c)
    BY <1>6 DEF Holding
  <2>3. sess[Session(u)] = "closed" => sess'[Session(u)] = "closed"
    BY <1>2, <1>3
  <2> QED
    BY <1>1, <1>4, <2>1, <2>2, <2>3 DEF Runs
<1> QED
  BY <1>5, <1>7, <1>8 DEF Served

(* A step of user u is of no concern to the others. *)
LEMMA OneUserServes ==
  ASSUME UInv, NEW u \in Users, NEW l, upc' = [upc EXCEPT ![u] = l], phase' = phase,
         chosen' \in [Users -> Carriers \cup {NoCarrier}],
         try' \in [Users -> 1 .. Tries],
         \A v \in Users \ {u} : chosen'[v] = chosen[v] /\ try'[v] = try[v],
         \A s \in Sessions : s[1] # u => sess'[s] = sess[s],
         \A c \in Carriers : streams[c] \subseteq streams'[c],
         l \in Holding =>
           /\ chosen'[u] \in Carriers
           /\ phase[chosen'[u]] \in {"made", "run", "closing", "closed"},
         l \in Holding \ {"register"} =>
           \/ sess'[Session(u)'] = "closed"
           \/ sess'[Session(u)'] = "open" /\ Session(u)' \in streams'[chosen'[u]],
         l \in {"pump", "wait"} =>
           \/ Runs(chosen'[u]) \/ phase[chosen'[u]] = "closing"
           \/ sess'[Session(u)'] = "closed"
  PROVE  Served'
<1>1. upc'[u] = l /\ \A v \in Users \ {u} : upc'[v] = upc[v]
  BY DEF UInv, CInv, CountTypes
<1>2. ASSUME NEW v \in Users \ {u}
      PROVE  /\ Session(v)' = Session(v) /\ chosen'[v] = chosen[v]
             /\ sess'[Session(v)] = sess[Session(v)]
  <2>1. Session(v) \in Sessions /\ Session(v)[1] = v
    BY DEF Session, Sessions, UInv, CInv, PInv, StreamTypes
  <2> QED
    BY <2>1 DEF Session
<1>3. Choices'
  BY <1>1 DEF UInv, Served, Choices
<1>4. Registered'
  <2> SUFFICES ASSUME NEW v \in Users, upc'[v] \in Holding \ {"register"}
               PROVE  \/ sess'[Session(v)'] = "closed"
                      \/ sess'[Session(v)'] = "open" /\ Session(v)' \in streams'[chosen'[v]]
    BY DEF Registered
  <2>1. CASE v = u
    BY <1>1, <2>1
  <2>2. CASE v # u
    <3>1. chosen[v] \in Carriers
      BY <1>1, <2>2 DEF UInv, Served, Choices
    <3>2. \/ sess[Session(v)] = "closed"
          \/ sess[Session(v)] = "open" /\ Session(v) \in streams[chosen[v]]
      BY <1>1, <2>2 DEF UInv, Served, Registered
    <3> QED
      BY <1>2, <2>2, <3>1, <3>2
  <2> QED
    BY <2>1, <2>2
<1>5. NobodyStranded'
  <2> SUFFICES ASSUME NEW v \in Users, upc'[v] \in {"pump", "wait"}
               PROVE  \/ Runs(chosen'[v]) \/ phase[chosen'[v]] = "closing"
                      \/ sess'[Session(v)'] = "closed"
    BY DEF NobodyStranded, Runs
  <2>1. CASE v = u
    BY <1>1, <2>1
  <2>2. CASE v # u
    BY <1>1, <1>2, <2>2 DEF UInv, Served, NobodyStranded
  <2> QED
    BY <2>1, <2>2
<1> QED
  BY <1>3, <1>4, <1>5 DEF Served

LEMMA UsersServe ==
  ASSUME UInv, NEW u \in Users, UserSteps(u) \/ StreamEnds(u) PROVE Served'
<1> USE DEF userVars, sessionVars, carrierVars
<1>0. /\ try \in [Users -> 1 .. Tries] /\ chosen \in [Users -> Carriers \cup {NoCarrier}]
      /\ sess \in [Sessions -> {"none", "open", "closed"}]
      /\ streams \in [Carriers -> SUBSET Sessions]
      /\ Session(u) \in Sessions /\ Session(u)[1] = u
  BY DEF Session, Sessions, UInv, CInv, CountTypes, PInv, StreamTypes, Served, Choices
<1>1. ASSUME NextTry(u)
      PROVE  /\ try' \in [Users -> 1 .. Tries]
             /\ \A v \in Users \ {u} : try'[v] = try[v]
             /\ \E l \in {"try", "fallback"} : upc' = [upc EXCEPT ![u] = l]
  <2>1. try' \in [Users -> 1 .. Tries]
    BY <1>0, <1>1, TryKept
  <2> QED
    BY <1>0, <1>1, <2>1 DEF NextTry, Step
<1>2. CASE Choose(u)
  <2>1. UNCHANGED <<sess, streams, phase>>
    BY <1>2 DEF Choose
  <2>2. CASE NextTry(u) /\ chosen' = chosen
    BY <1>0, <1>1, <2>1, <2>2, OneUserServes DEF Holding
  <2>3. ASSUME NEW c \in Live, chosen' = [chosen EXCEPT ![u] = c], Step(u, "register"), try' = try
        PROVE  Served'
    <3>1. c \in Carriers /\ Runs(c)
      BY DEF Live, UInv, CInv, PInv, PoolTypes
    <3>2. upc' = [upc EXCEPT ![u] = "register"]
      BY <2>3 DEF Step
    <3>3. chosen' \in [Users -> Carriers \cup {NoCarrier}] /\ chosen'[u] = c
          /\ \A v \in Users \ {u} : chosen'[v] = chosen[v]
      BY <1>0, <2>3, <3>1
    <3> QED
      BY <1>0, <2>1, <2>3, <3>1, <3>2, <3>3, OneUserServes DEF Runs
  <2> QED
    BY <1>2, <2>2, <2>3 DEF Choose
<1>3. CASE RegisterStream(u)
  <2>1. UNCHANGED <<chosen, phase>> /\ upc[u] = "register"
    BY <1>3 DEF RegisterStream
  <2>2. chosen[u] \in Carriers /\ phase[chosen[u]] \in {"made", "run", "closing", "closed"}
    BY <2>1 DEF UInv, Served, Choices, Holding
  <2>3. CASE running /\ Load(chosen[u]) < Limit
    <3>1. /\ sess' = [sess EXCEPT ![Session(u)] = "open"]
          /\ streams' = [streams EXCEPT ![chosen[u]] = @ \cup {Session(u)}]
          /\ upc' = [upc EXCEPT ![u] = "count"] /\ try' = try
      BY <1>3, <2>3 DEF RegisterStream, Step
    <3>2. Session(u)' = Session(u)
      BY <3>1 DEF Session
    <3>3. /\ sess'[Session(u)] = "open" /\ Session(u) \in streams'[chosen[u]]
          /\ \A s \in Sessions : s[1] # u => sess'[s] = sess[s]
          /\ \A c \in Carriers : streams[c] \subseteq streams'[c]
      BY <1>0, <2>2, <3>1
    <3> QED
      BY <1>0, <2>1, <2>2, <3>1, <3>2, <3>3, OneUserServes
  <2>4. CASE ~(running /\ Load(chosen[u]) < Limit)
    <3>1. NextTry(u) /\ UNCHANGED <<sess, streams>>
      BY <1>3, <2>4 DEF RegisterStream
    <3> QED
      BY <1>0, <1>1, <2>1, <3>1, OneUserServes DEF Holding
  <2> QED
    BY <2>3, <2>4
<1>4. CASE CountStream(u) \/ Enlist(u)
  <2>1. /\ UNCHANGED <<try, chosen, sess, streams, phase>>
        /\ upc[u] \in Holding \ {"register"}
        /\ \E l \in {"enlist", "open"} : upc' = [upc EXCEPT ![u] = l]
    BY <1>4 DEF CountStream, Enlist, Step, Holding
  <2>2. /\ chosen[u] \in Carriers /\ phase[chosen[u]] \in {"made", "run", "closing", "closed"}
        /\ \/ sess[Session(u)] = "closed"
           \/ sess[Session(u)] = "open" /\ Session(u) \in streams[chosen[u]]
    BY <2>1 DEF UInv, Served, Choices, Registered
  <2>3. Session(u)' = Session(u)
    BY <2>1 DEF Session
  <2> QED
    BY <1>0, <2>1, <2>2, <2>3, OneUserServes
<1>5. CASE SendOpen(u)
  <2>1. UNCHANGED <<chosen, sess, streams, phase>> /\ upc[u] \in Holding \ {"register"}
    BY <1>5 DEF SendOpen, Holding
  <2>2. CASE NextTry(u)
    BY <1>0, <1>1, <2>1, <2>2, OneUserServes DEF Holding
  <2>3. CASE Runs(chosen[u]) /\ Step(u, "pump") /\ try' = try
    <3>1. upc' = [upc EXCEPT ![u] = "pump"] /\ Session(u)' = Session(u)
      BY <2>3 DEF Step, Session
    <3>2. /\ chosen[u] \in Carriers /\ phase[chosen[u]] \in {"made", "run", "closing", "closed"}
          /\ \/ sess[Session(u)] = "closed"
             \/ sess[Session(u)] = "open" /\ Session(u) \in streams[chosen[u]]
      BY <2>1 DEF UInv, Served, Choices, Registered
    <3> QED
      BY <1>0, <2>1, <2>3, <3>1, <3>2, OneUserServes
  <2> QED
    BY <1>5, <2>2, <2>3 DEF SendOpen
<1>6. CASE UserDone(u) \/ SingleTunnel(u)
  <2>1. /\ UNCHANGED <<try, chosen, sess, streams, phase>>
        /\ \E l \in {"done", "single"} : upc' = [upc EXCEPT ![u] = l]
    BY <1>6 DEF UserDone, SingleTunnel, Step
  <2> QED
    BY <1>0, <2>1, OneUserServes DEF Holding
<1>7. CASE StreamFails(u) \/ StreamEnds(u)
  BY <1>7, ClosingServes DEF StreamFails, StreamEnds
<1>8. CASE WriterFails(u) \/ PumpFails(u)
  <2>1. NextTry(u) /\ UNCHANGED <<chosen, sess, streams, phase>>
    BY <1>8 DEF WriterFails, PumpFails
  <2> QED
    BY <1>0, <1>1, <2>1, OneUserServes DEF Holding
<1>9. CASE StartPump(u)
  <2>1. /\ UNCHANGED <<try, chosen, sess, streams, phase>> /\ upc[u] = "pump"
        /\ upc' = [upc EXCEPT ![u] = "wait"]
    BY <1>9 DEF StartPump, Step
  <2>2. /\ chosen[u] \in Carriers /\ phase[chosen[u]] \in {"made", "run", "closing", "closed"}
        /\ \/ sess[Session(u)] = "closed"
           \/ sess[Session(u)] = "open" /\ Session(u) \in streams[chosen[u]]
        /\ Runs(chosen[u]) \/ phase[chosen[u]] = "closing" \/ sess[Session(u)] = "closed"
    BY <2>1 DEF UInv, Served, Choices, Registered, NobodyStranded, Holding
  <2>3. Session(u)' = Session(u)
    BY <2>1 DEF Session
  <2> QED
    BY <1>0, <2>1, <2>2, <2>3, OneUserServes
<1> QED
  BY <1>2, <1>3, <1>4, <1>5, <1>6, <1>7, <1>8, <1>9 DEF UserSteps

(* maintain_mux_carriers takes no carrier for a new connection that a user *)
(* still has in its hands.                                                 *)
LEMMA MaintenanceServes ==
  ASSUME UInv, MaintainSteps PROVE Served'
<1> USE DEF userVars, sessionVars, carrierVars
<1>0. UNCHANGED <<upc, try, chosen, sess, streams>>
  BY DEF MaintainSteps, Rebalance, FindIdle, CloseIdle, Reaped, NothingMissing, TakeTunnel,
         NoTunnel, JoinSent, JoinFails, StartCarrier, StartCarrierFails, MaintainEnds
<1>1. \A u \in Users : upc[u] \in Holding =>
        chosen[u] \in Carriers /\ phase[chosen[u]] \in {"made", "run", "closing", "closed"}
  BY DEF UInv, Served, Choices
<1>2. phase \in [Carriers -> Phases]
  BY DEF UInv, CInv, PInv, PoolTypes
<1>3. CASE TakeTunnel
  <2>1. PICK c \in Carriers : Fresh(c) /\ phase' = [phase EXCEPT ![c] = "join"]
    BY <1>3 DEF TakeTunnel
  <2>2. \A u \in Users : upc[u] \in Holding => chosen[u] # c
    BY <2>1 DEF Fresh, Holding
  <2>3. \A u \in Users : upc[u] \in Holding => phase'[chosen[u]] = phase[chosen[u]]
    BY <1>1, <1>2, <2>1, <2>2
  <2> QED
    BY <1>0, <2>3, CarriersServe
<1>4. CASE JoinSent \/ JoinFails
  <2>1. cand \in Carriers /\ phase[cand] = "join"
        /\ \E l \in Phases : phase' = [phase EXCEPT ![cand] = l]
    BY <1>4 DEF JoinSent, JoinFails, UInv, CInv, PInv, PoolTypes, Joining, Phases
  <2>2. \A u \in Users : upc[u] \in Holding => phase'[chosen[u]] = phase[chosen[u]]
    BY <1>1, <1>2, <2>1
  <2> QED
    BY <1>0, <2>2, CarriersServe
<1>5. CASE CloseIdle \/ StartCarrier
  <2>1. \A c \in Carriers : \/ phase'[c] = phase[c]
                            \/ Runs(c) /\ phase'[c] \in {"run", "closing"}
    BY <1>2, <1>5 DEF CloseIdle, CloseStarts, StartCarrier, Runs
  <2> QED
    BY <1>0, <1>1, <2>1, CarriersServe
<1>6. CASE UNCHANGED phase
  BY <1>0, <1>6, CarriersServe
<1>7. \/ TakeTunnel \/ JoinSent \/ JoinFails \/ CloseIdle \/ StartCarrier
      \/ UNCHANGED phase
  BY DEF MaintainSteps, Rebalance, FindIdle, Reaped, NothingMissing, NoTunnel, MaintainEnds,
         StartCarrierFails
<1> QED
  BY <1>3, <1>4, <1>5, <1>6, <1>7

LEMMA OthersServe ==
  ASSUME UInv,
         \/ \E c \in Carriers : CarrierClears(c) \/ ReaderFails(c) \/ Lose(c)
         \/ \E s \in Sessions : Monitor(s)
         \/ StopFlag \/ StopSteps \/ UNCHANGED vars
  PROVE  Served'
<1> USE DEF userVars, sessionVars, carrierVars
<1>1. phase \in [Carriers -> Phases] /\ \A u \in Users : upc[u] \in Holding => chosen[u] \in Carriers
  BY DEF UInv, CInv, PInv, PoolTypes, Served, Choices
<1>2. ASSUME NEW c \in Carriers, CarrierClears(c) PROVE Served'
  BY <1>2, ClearingServes
<1>3. CASE (\E c \in Carriers : ReaderFails(c) \/ Lose(c)) \/ StopPool
  <2>1. \A c \in Carriers : phase'[c] = phase[c] \/ (Runs(c) /\ phase'[c] = "closing")
    <3>1. ASSUME NEW d \in Carriers, ReaderFails(d) \/ Lose(d)
          PROVE  \A c \in Carriers : phase'[c] = phase[c] \/ (Runs(c) /\ phase'[c] = "closing")
      BY <1>1, <3>1 DEF ReaderFails, Lose, CloseStarts, Runs
    <3>2. CASE StopPool
      BY <3>2 DEF StopPool, Live
    <3> QED
      BY <1>3, <3>1, <3>2
  <2>2. UNCHANGED <<upc, try, chosen, sess, streams>>
    BY <1>3 DEF ReaderFails, Lose, StopPool
  <2> QED
    BY <1>1, <2>1, <2>2, CarriersServe
<1>4. CASE (\E s \in Sessions : Monitor(s)) \/ StopSessions
  BY <1>4, ClosingServes DEF Monitor, StopSessions
<1>5. CASE StopFlag \/ StopSockets \/ UNCHANGED vars
  <2>1. UNCHANGED <<upc, try, chosen, sess, streams, phase>>
    BY <1>5 DEF StopFlag, StopSockets, vars
  <2> QED
    BY <2>1, CarriersServe
<1> QED
  BY <1>2, <1>3, <1>4, <1>5 DEF StopSteps

LEMMA ServedKept == IsFiniteSet(Users) /\ UInv /\ [Next]_vars => UInv'
<1> SUFFICES ASSUME IsFiniteSet(Users), UInv, [Next]_vars PROVE UInv'
  OBVIOUS
<1>1. CInv'
  BY CountsKept DEF UInv
<1>2. Served'
  BY UsersServe, MaintenanceServes, OthersServe DEF Next
<1> QED
  BY <1>1, <1>2 DEF UInv

(* No user is left waiting for a carrier that has closed: register_stream, *)
(* the OPEN frame and the carrier's close, each in a thread of its own,    *)
(* leave the user either on a carrier that runs, or with a close to come   *)
(* that takes its session, or with the session closed.                     *)
THEOREM NobodyIsStranded ==
  ASSUME IsFiniteSet(Users) PROVE Spec => []NobodyStranded
<1>1. UInv => NobodyStranded
  BY DEF UInv, Served
<1>2. Init => UInv
  BY CountsStart, ServedStarts DEF UInv
<1>3. UInv /\ [Next]_vars => UInv'
  BY ServedKept
<1> QED
  BY <1>1, <1>2, <1>3, PTL DEF Spec

-----------------------------------------------------------------------------
(* A stop reaches every carrier. *)

(* Once the stop has been over the pool no carrier runs, and none will.    *)
StopIsFinal == stop \in {"sockets", "done"} => \A c \in Carriers : phase[c] # "run"

Stopping == (running <=> stop = "no") /\ StopIsFinal

LEMMA StoppingKept ==
  ASSUME PInv, Stopping, [Next]_vars PROVE Stopping'
<1> USE DEF userVars, sessionVars, carrierVars, poolVars, linkVars
<1>0. phase \in [Carriers -> Phases]
  BY DEF PInv, PoolTypes
<1>1. CASE UNCHANGED linkVars /\ \A c \in Carriers : phase'[c] = "run" => phase[c] = "run"
  BY <1>1 DEF Stopping, StopIsFinal
<1>2. CASE StartCarrier
  <2>1. UNCHANGED linkVars /\ (~running => phase' = phase)
    BY <1>2 DEF StartCarrier
  <2> QED
    BY <2>1 DEF Stopping, StopIsFinal
<1>3. CASE StopPool
  <2>1. ASSUME NEW c \in Carriers, phase[c] = "run" PROVE c \in Live
    BY <2>1, NoCarrierAssumption DEF Live, Runs, PInv, Placed, PoolTypes
  <2>2. \A c \in Carriers : phase'[c] # "run"
    BY <1>3, <2>1 DEF StopPool
  <2> QED
    BY <1>3, <2>2 DEF StopPool, Stopping, StopIsFinal
<1>4. CASE StopFlag \/ StopSessions
  BY <1>4 DEF StopFlag, StopSessions, Stopping, StopIsFinal
<1>5. CASE StopSockets
  BY <1>5 DEF StopSockets, Stopping, StopIsFinal
<1>6. CASE UNCHANGED vars
  BY <1>1, <1>6 DEF vars
<1>7. ASSUME NEW u \in Users, UserSteps(u) \/ StreamEnds(u) PROVE UNCHANGED <<linkVars, phase>>
  BY <1>7 DEF UserSteps, Choose, RegisterStream, CountStream, WriterFails, Enlist, SendOpen,
              StartPump, PumpFails, UserDone, SingleTunnel, StreamFails, StreamEnds
<1>8. ASSUME NEW c \in Carriers, CarrierClears(c) \/ ReaderFails(c) \/ Lose(c)
      PROVE  /\ UNCHANGED linkVars
             /\ phase' \in {phase, [phase EXCEPT ![c] = "closing"], [phase EXCEPT ![c] = "closed"]}
  BY <1>8 DEF CarrierClears, ReaderFails, Lose, CloseStarts
<1>9. ASSUME NEW s \in Sessions, Monitor(s) PROVE UNCHANGED <<linkVars, phase>>
  BY <1>9 DEF Monitor
<1>10. CASE MaintainSteps
  <2>1. \/ StartCarrier
        \/ /\ UNCHANGED linkVars
           /\ \/ phase' = phase
              \/ \E c \in Carriers, l \in {"join", "made", "closing", "closed"} :
                   phase' = [phase EXCEPT ![c] = l]
    BY <1>10 DEF MaintainSteps, Rebalance, FindIdle, CloseIdle, CloseStarts, Reaped,
       NothingMissing, TakeTunnel, NoTunnel, JoinSent, JoinFails, StartCarrierFails, MaintainEnds, PInv, PoolTypes
  <2> QED
    BY <1>0, <1>1, <1>2, <2>1
<1> QED
  BY <1>0, <1>1, <1>3, <1>4, <1>5, <1>6, <1>7, <1>8, <1>9, <1>10 DEF Next, StopSteps

(* Once stop_link_lifecycle has closed the pool no carrier runs any more:  *)
(* it found every one that ran, and the maintenance thread starts none it  *)
(* was still making.                                                       *)
THEOREM StopReachesEveryCarrier ==
  ASSUME IsFiniteSet(Users) PROVE Spec => []StopIsFinal
<1>1. Init => PInv /\ Stopping
  BY InitOK DEF Init, Stopping, StopIsFinal
<1>2. PInv /\ Stopping /\ [Next]_vars => (PInv /\ Stopping)'
  BY StepOK, StoppingKept
<1>3. Stopping => StopIsFinal
  BY DEF Stopping
<1> QED
  BY <1>1, <1>2, <1>3, PTL DEF Spec
====
