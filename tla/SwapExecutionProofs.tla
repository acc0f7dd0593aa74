-------------------------- MODULE SwapExecutionProofs --------------------------
(***************************************************************************)
(* Invariants of SwapExecution for any agents, amounts, prices, payments   *)
(* and bounds.                                                             *)
(***************************************************************************)
EXTENDS SwapExecution, ArchivalProofs, MevProofs, FiniteSetTheorems

-----------------------------------------------------------------------------
(* Types.                                                                  *)

LEMMA SwapTypes ==
  /\ NoSwap \notin PendingSwap
  /\ \A v \in Versions, n \in Nat, ph \in {"window", "measured", "sent"} :
       [version |-> v, tol |-> n, phase |-> ph] \in PendingSwap
  /\ \A s \in PendingSwap, ph \in {"window", "measured", "sent"} :
       [s EXCEPT !.phase = ph] \in PendingSwap
BY ExecutionAssumption DEF PendingSwap

(* compute_realized_slippage_bps yields basis points.                      *)
LEMMA SlippageType ==
  ASSUME NEW n \in Nat, NEW m \in Nat
  PROVE  RealizedSlippageBps(n, m) \in Nat /\ IsSandwich(n, m) \in BOOLEAN
<1>1. CASE n = 0 \/ m >= n
  BY <1>1 DEF RealizedSlippageBps, IsSandwich
<1>2. CASE n > 0 /\ m < n
  <2>1. RealizedSlippageBps(n, m) = ((n - m) * 10000) \div n
    BY <1>2 DEF RealizedSlippageBps
  <2>2. (n - m) * 10000 \in Nat
    BY <1>2
  <2>3. ((n - m) * 10000) \div n \in Nat
    BY <1>2, <2>2, DivisionBounds
  <2> QED
    BY <2>1, <2>3 DEF IsSandwich
<1> QED
  BY <1>1, <1>2

LEMMA OutcomeType ==
  ASSUME TypeOK, NEW a \in Agents, swap[a] # NoSwap
  PROVE  Outcome(a) \in MevEvent
<1>1. /\ gained[a] \in Int /\ stray[a] \in Int /\ sent[a] \in Nat
      /\ swap[a].tol \in Nat
  BY DEF TypeOK, PendingSwap
<1>2. MeasuredOutput(a) \in Nat
  BY <1>1 DEF MeasuredOutput
<1>3. /\ RealizedSlippageBps(Amount, MeasuredOutput(a)) \in Nat
      /\ IsSandwich(Amount, MeasuredOutput(a)) \in BOOLEAN
  BY <1>2, SlippageType, ExecutionAssumption
<1> QED
  BY <1>1, <1>2, <1>3 DEF Outcome, MevEvent

(* The floor of a transaction and what the pool gives are amounts.         *)
LEMMA FloorType ==
  ASSUME NEW t \in Tx
  PROVE  Floor(t) \in Nat
<1>1. t.tol \in Nat /\ Amount \in Nat
  BY ExecutionAssumption DEF Tx
<1>2. CASE t.tol <= 9999
  <2>1. \A bps \in Nat : bps <= 9999 => ComputeAmountOutMin(Amount, bps) \in Nat
    BY <1>1, FloorIsClose
  <2> QED
    BY <1>1, <1>2, <2>1 DEF Floor
<1>3. CASE t.tol > 9999
  <2>1. Floor(t) = (Amount * 1) \div 10000
    BY <1>1, <1>3 DEF Floor, ComputeAmountOutMin
  <2>2. Amount * 1 \in Nat
    BY <1>1
  <2>3. (Amount * 1) \div 10000 \in Nat
    BY <2>2, DivisionBounds
  <2> QED
    BY <2>1, <2>3
<1> QED
  BY <1>1, <1>2, <1>3

LEMMA OutputType ==
  ASSUME NEW t \in Tx, NEW fee \in Nat, NEW impact \in Impacts,
         NEW out, out = Amount - (Amount * fee) \div 1000000 - (Amount * impact) \div 10000,
         out >= Floor(t)
  PROVE  out \in Nat
<1>1. Amount \in Nat /\ impact \in Nat /\ Floor(t) \in Nat
  BY FloorType, ExecutionAssumption
<1>2. Amount * fee \in Nat /\ Amount * impact \in Nat
  BY <1>1
<1>3. (Amount * fee) \div 1000000 \in Nat /\ (Amount * impact) \div 10000 \in Nat
  BY <1>2, DivisionBounds
<1> DEFINE x == (Amount * fee) \div 1000000
           y == (Amount * impact) \div 10000
<1>4. x \in Nat /\ y \in Nat /\ out = Amount - x - y
  BY <1>3
<1> HIDE DEF x, y
<1> QED
  BY <1>1, <1>4

(* A swap that goes through is counted once, for an address.               *)
LEMMA HooksType ==
  ASSUME beforeSwapCount \in [Pools -> Nat], afterSwapCount \in [Pools -> Nat],
         agentSwapCount \in [Pools -> [Addresses -> Nat]],
         NEW pool \in Pools, NEW d, d \in Agents \cup {NoData}, SwapHooks(pool, d)
  PROVE  /\ beforeSwapCount' \in [Pools -> Nat] /\ afterSwapCount' \in [Pools -> Nat]
         /\ agentSwapCount' \in [Pools -> [Addresses -> Nat]]
         /\ \A p \in Pools, x \in Addresses :
              agentSwapCount'[p][x] =
                IF p = pool /\ x = Counted(pool, d) THEN agentSwapCount[p][x] + 1
                ELSE agentSwapCount[p][x]
<1> DEFINE c == Counted(pool, d)
<1>1. c \in Addresses
  BY ExecutionAssumption DEF Counted, Addresses
<1>2. /\ beforeSwapCount' = [beforeSwapCount EXCEPT ![pool] = @ + 1]
      /\ afterSwapCount' = [afterSwapCount EXCEPT ![pool] = @ + 1]
      /\ agentSwapCount' = [agentSwapCount EXCEPT ![pool][c] = @ + 1]
  BY DEF SwapHooks
<1> HIDE DEF c
<1>3. /\ beforeSwapCount' \in [Pools -> Nat] /\ afterSwapCount' \in [Pools -> Nat]
  BY <1>2
<1> DEFINE row == [agentSwapCount[pool] EXCEPT ![c] = agentSwapCount[pool][c] + 1]
<1>0. agentSwapCount[pool] \in [Addresses -> Nat] /\ agentSwapCount[pool][c] + 1 \in Nat
  BY <1>1
<1>4. /\ row \in [Addresses -> Nat]
      /\ \A x \in Addresses : row[x] = IF x = c THEN agentSwapCount[pool][x] + 1
                                        ELSE agentSwapCount[pool][x]
  BY <1>0, <1>1
<1>5. agentSwapCount' = [agentSwapCount EXCEPT ![pool] = row]
  BY <1>2
<1> HIDE DEF row
<1>6. agentSwapCount' \in [Pools -> [Addresses -> Nat]]
  BY <1>4, <1>5
<1>7. \A p \in Pools, x \in Addresses :
        agentSwapCount'[p][x] =
          IF p = pool /\ x = c THEN agentSwapCount[p][x] + 1 ELSE agentSwapCount[p][x]
  BY <1>4, <1>5
<1> QED
  BY <1>3, <1>6, <1>7 DEF c

HooksOK ==
  /\ beforeSwapCount \in [Pools -> Nat] /\ afterSwapCount \in [Pools -> Nat]
  /\ agentSwapCount \in [Pools -> [Addresses -> Nat]]

LEMMA FeeType ==
  ASSUME NEW pool, NEW d
  PROVE  Fee(pool, d) \in Nat
BY DEF Fee, REBATE_FEE, BASE_FEE

(* The hook data of an agent's transaction names the agent, or nobody.     *)
LEMMA DataType ==
  ASSUME NEW t \in Tx
  PROVE  Data(t) \in Agents \cup {NoData} /\ t.by \in Agents /\ t.pool \in Pools
BY DEF Data, Tx

(* The steps of one agent's loop.                                          *)
LEMMA LoopTypes ==
  ASSUME TypeOK, NEW a \in Agents
  PROVE  /\ SetMode(a) => TypeOK'
         /\ SetTolerance(a) => TypeOK'
         /\ Swap(a) => TypeOK'
         /\ CSwap(a) => TypeOK'
         /\ Measure(a) => TypeOK'
<1> USE DEF chainVars, meterVars, reportVars, archiveVars, configVars, hookVars
<1>1. ASSUME SetMode(a) PROVE TypeOK'
  <2>1. mode' \in [Agents -> {"Live", "Simulate", "Local"}]
    BY <1>1, ExecutionAssumption DEF SetMode, TypeOK
  <2> QED
    BY <1>1, <2>1 DEF SetMode, TypeOK
<1>2. ASSUME SetTolerance(a) PROVE TypeOK'
  <2>1. tolerance' \in [Agents -> Nat]
    BY <1>2, ExecutionAssumption DEF SetTolerance, TypeOK
  <2> QED
    BY <1>2, <2>1 DEF SetTolerance, TypeOK
<1>3. ASSUME NEW v \in Versions, NEW bps \in Nat, Defer(a, v, bps) PROVE TypeOK'
  <2>1. swap' \in [Agents -> PendingSwap \cup {NoSwap}]
    BY <1>3, SwapTypes DEF Defer, TypeOK
  <2> QED
    BY <1>3, <2>1 DEF Defer, TypeOK
<1>4. tolerance[a] \in Nat
  BY DEF TypeOK
<1>5. ASSUME Swap(a) PROVE TypeOK'
  BY <1>3, <1>4, <1>5 DEF Swap
<1>6. ASSUME CSwap(a) PROVE TypeOK'
  BY <1>3, <1>6, ExecutionAssumption DEF CSwap
<1>7. ASSUME Measure(a) PROVE TypeOK'
  <2>1. swap' \in [Agents -> PendingSwap \cup {NoSwap}]
    BY <1>7, SwapTypes DEF Measure, In, TypeOK
  <2> QED
    BY <1>7, <2>1 DEF Measure, TypeOK
<1> QED
  BY <1>1, <1>2, <1>5, <1>6, <1>7

LEMMA ExecutionTypes ==
  ASSUME TypeOK, NEW a \in Agents
  PROVE  /\ ExecuteSimulated(a) => TypeOK'
         /\ Send(a) => TypeOK'
         /\ Report(a) => TypeOK'
         /\ SwapErrors(a) => TypeOK'
         /\ Payment(a) => TypeOK'
         /\ RecvMevAlert(a) => TypeOK'
<1> USE DEF chainVars, meterVars, reportVars, archiveVars, configVars, hookVars
<1>1. ASSUME ExecuteSimulated(a) PROVE TypeOK'
  <2>0. second[a] \in Nat /\ second[a] + 1 \in Nat
    BY DEF TypeOK
  <2>1. PICK s \in Nat : /\ second' = [second EXCEPT ![a] = s]
                         /\ Publish({Executed(a, SimHash(a, s))})
    <3>1. PICK s \in {second[a], second[a] + 1} \ {0} :
            /\ second' = [second EXCEPT ![a] = s]
            /\ Publish({Executed(a, SimHash(a, s))})
      BY <1>1 DEF ExecuteSimulated
    <3> QED
      BY <2>0, <3>1
  <2>2. Executed(a, SimHash(a, s)) \in ExecutedMsg
    BY DEF Executed, SimHash, ExecutedMsg, Hash
  <2>3. msgs' \subseteq ExecutedMsg \cup AlertMsg
    BY <2>1, <2>2 DEF Publish, TypeOK
  <2>4. sent' \in [Agents -> Nat] /\ swap' \in [Agents -> PendingSwap \cup {NoSwap}]
    BY <1>1 DEF ExecuteSimulated, TypeOK
  <2> QED
    BY <1>1, <2>1, <2>3, <2>4 DEF ExecuteSimulated, TypeOK
<1>2. ASSUME Send(a) PROVE TypeOK'
  <2>1. swap[a] \in PendingSwap /\ sent[a] \in Nat /\ endpoint[a] \in Chains
    BY <1>2 DEF Send, In, TypeOK
  <2>2. Pool(a) \in Pools
    BY <2>1, ExecutionAssumption DEF Pool, Pools, PendingSwap
  <2>3. [by |-> a, n |-> sent[a] + 1, pool |-> Pool(a), tol |-> swap[a].tol] \in Tx
    BY <2>1, <2>2 DEF Tx, PendingSwap
  <2>4. mempool' \subseteq Tx
    BY <1>2, <2>3 DEF Send, TypeOK
  <2>5. sent' \in [Agents -> Nat]
    BY <1>2 DEF Send, TypeOK
  <2>6. swap' \in [Agents -> PendingSwap \cup {NoSwap}]
    BY <1>2, <2>1, SwapTypes DEF Send, TypeOK
  <2> QED
    BY <1>2, <2>4, <2>5, <2>6 DEF Send, TypeOK
<1>3. ASSUME Report(a) PROVE TypeOK'
  <2>1. ReportAll(a) /\ swap[a] # NoSwap /\ sent[a] \in Nat
    BY <1>3 DEF Report, In, TypeOK
  <2>2. Outcome(a) \in MevEvent
    BY <2>1, OutcomeType
  <2>3. Executed(a, TxHash(a, sent[a])) \in ExecutedMsg
    BY <2>1 DEF Executed, TxHash, ExecutedMsg, Hash
  <2>4. Alert(Outcome(a), a) \in AlertMsg
    BY <2>2 DEF Alert, AlertMsg, MevEvent
  <2>5. msgs' \subseteq ExecutedMsg \cup AlertMsg
    BY <2>1, <2>3, <2>4 DEF ReportAll, Publish, TypeOK
  <2>6. events' \in [Agents -> SUBSET MevEvent]
    <3>1. events[a] \cup {Outcome(a)} \in SUBSET MevEvent
      BY <2>2 DEF TypeOK
    <3>2. events' = [events EXCEPT ![a] = events[a] \cup {Outcome(a)}]
      BY <2>1 DEF ReportAll
    <3> QED
      BY <3>1, <3>2 DEF TypeOK
  <2>7. /\ swap' \in [Agents -> PendingSwap \cup {NoSwap}]
        /\ gained' \in [Agents -> Int] /\ stray' \in [Agents -> Int]
        /\ strays' \in [Agents -> Nat]
    BY <2>1 DEF ReportAll, TypeOK
  <2> QED
    BY <2>1, <2>5, <2>6, <2>7 DEF ReportAll, TypeOK
<1>4. ASSUME SwapErrors(a) PROVE TypeOK'
  <2>1. /\ swap' \in [Agents -> PendingSwap \cup {NoSwap}]
        /\ gained' \in [Agents -> Int] /\ stray' \in [Agents -> Int]
        /\ strays' \in [Agents -> Nat]
    BY <1>4 DEF SwapErrors, TypeOK
  <2> QED
    BY <1>4, <2>1 DEF SwapErrors, TypeOK
<1>5. ASSUME Payment(a) PROVE TypeOK'
  <2>1. /\ gained' \in [Agents -> Int] /\ stray' \in [Agents -> Int]
        /\ strays' \in [Agents -> Nat]
    BY <1>5, ExecutionAssumption DEF Payment, TypeOK
  <2> QED
    BY <1>5, <2>1 DEF Payment, TypeOK
<1>6. ASSUME RecvMevAlert(a) PROVE TypeOK'
  <2>1. PICK m \in Deliverable(a, "MevAlert") :
          peerStats' = [peerStats EXCEPT
            ![a][m.from] = RecordPeerAlert(@, m.slippage, m.sandwich)]
    BY <1>6 DEF RecvMevAlert
  <2>2. m \in AlertMsg
    BY DEF Deliverable, TypeOK, ExecutedMsg
  <2>3. m.from \in Agents /\ m.slippage \in Nat
    BY <2>2 DEF AlertMsg
  <2> DEFINE stats == RecordPeerAlert(peerStats[a][m.from], m.slippage, m.sandwich)
             row   == [peerStats[a] EXCEPT ![m.from] = stats]
  <2>4. stats \in PeerMevStats
    BY <2>3 DEF RecordPeerAlert, PeerMevStats, TypeOK
  <2> HIDE DEF stats
  <2>5. row \in [Agents -> PeerMevStats]
    BY <2>3, <2>4 DEF TypeOK
  <2>6. peerStats' = [peerStats EXCEPT ![a] = row]
    BY <2>1 DEF stats
  <2> HIDE DEF row
  <2>7. peerStats' \in [Agents -> [Agents -> PeerMevStats]]
    BY <2>5, <2>6 DEF TypeOK
  <2> QED
    BY <1>6, <2>7 DEF RecvMevAlert, TypeOK
<1> QED
  BY <1>1, <1>2, <1>3, <1>4, <1>5, <1>6

(* A transaction that succeeds gives an amount of at least its floor.      *)
LEMMA MineGives ==
  ASSUME NEW t \in Tx, Mine(t)
  PROVE  \E out \in Nat : MineFor(t, out)
<1>1. PICK impact \in Impacts : MineFor(t, PoolOutput(t, impact))
  BY DEF Mine
<1>2. FeeOf(t) \in Nat
  BY FeeType DEF FeeOf
<1>3. PoolOutput(t, impact) >= Floor(t)
  BY <1>1 DEF MineFor
<1>4. PoolOutput(t, impact) \in Nat
  BY <1>2, <1>3, OutputType DEF PoolOutput
<1> QED
  BY <1>1, <1>4

LEMMA ChainTypes ==
  ASSUME TypeOK
  PROVE  /\ \A t \in mempool : Mine(t) \/ MineReverted(t) \/ Drop(t) => TypeOK'
         /\ OutsiderSwaps => TypeOK'
<1> USE DEF chainVars, meterVars, reportVars, archiveVars, configVars, hookVars
<1>1. ASSUME NEW t \in mempool, Mine(t) PROVE TypeOK'
  <2>1. t \in Tx
    BY DEF TypeOK
  <2>2. PICK out \in Nat : MineFor(t, out)
    BY <1>1, <2>1, MineGives
  <2>3. FeeOf(t) \in Nat
    BY FeeType DEF FeeOf
  <2>5. MinedAs(t, TRUE, out, FeeOf(t)) \in MinedTx
    BY <2>1, <2>3 DEF MinedAs, MinedTx, Tx
  <2>6. mempool' \subseteq Tx /\ mined' \subseteq MinedTx
    BY <2>2, <2>5 DEF MineFor, TypeOK
  <2>7. gained' \in [Agents -> Int]
    BY <2>1, <2>2, DataType DEF MineFor, TypeOK
  <2>8. HooksOK'
    BY <2>1, <2>2, DataType, HooksType DEF MineFor, TypeOK, HooksOK
  <2> QED
    BY <2>2, <2>6, <2>7, <2>8 DEF MineFor, TypeOK, HooksOK
<1>2. ASSUME NEW t \in mempool, MineReverted(t) PROVE TypeOK'
  <2>1. MinedAs(t, FALSE, 0, 0) \in MinedTx
    BY DEF MinedAs, MinedTx, Tx, TypeOK
  <2>2. mempool' \subseteq Tx /\ mined' \subseteq MinedTx
    BY <1>2, <2>1 DEF MineReverted, TypeOK
  <2> QED
    BY <1>2, <2>2 DEF MineReverted, TypeOK
<1>3. ASSUME NEW t \in mempool, Drop(t) PROVE TypeOK'
  BY <1>3 DEF Drop, TypeOK
<1>4. ASSUME OutsiderSwaps PROVE TypeOK'
  <2>1. PICK a \in Agents, v \in Versions : SwapHooks(<<endpoint[a], v>>, NoData)
    BY <1>4 DEF OutsiderSwaps
  <2>2. <<endpoint[a], v>> \in Pools
    BY ExecutionAssumption DEF Pools, TypeOK
  <2>3. HooksOK'
    BY <2>1, <2>2, HooksType DEF TypeOK, HooksOK
  <2>4. outside' \in Nat
    BY <1>4 DEF OutsiderSwaps, TypeOK
  <2> QED
    BY <1>4, <2>3, <2>4 DEF OutsiderSwaps, TypeOK, HooksOK
<1> QED
  BY <1>1, <1>2, <1>3, <1>4

LEMMA ArchiveTypes ==
  ASSUME TypeOK, NEW a \in Archivers,
         \/ Archive(a) \/ FlushEnds(a) \/ RecvIdentityAttestation(a)
         \/ SidecarStep
  PROVE  TypeOK'
BY DEF chainVars, meterVars, reportVars, configVars, hookVars, TypeOK,
       Archive, FlushEnds, RecvIdentityAttestation, SidecarStep

LEMMA TypeStep ==
  ASSUME TypeOK, [Next]_vars
  PROVE  TypeOK'
<1>1. ASSUME UNCHANGED vars PROVE TypeOK'
  BY <1>1 DEF vars, chainVars, meterVars, reportVars, configVars, hookVars, TypeOK
<1>2. ASSUME NEW a \in Agents, Look(a) PROVE TypeOK'
  BY <1>1, <1>2 DEF Look
<1>3. ASSUME SidecarStep PROVE TypeOK'
  BY <1>3 DEF chainVars, meterVars, reportVars, configVars, hookVars, TypeOK, SidecarStep
<1> QED
  BY <1>1, <1>2, <1>3, LoopTypes, ExecutionTypes, ChainTypes, ArchiveTypes DEF Next

(* Every variable stays in its type.                                       *)
THEOREM TypeCorrect == Spec => []TypeOK
<1>1. Init => TypeOK
  <2> SUFFICES ASSUME Init PROVE TypeOK
    OBVIOUS
  <2>1. /\ mode \in [Agents -> {"Live", "Simulate", "Local"}]
        /\ endpoint \in [Agents -> Chains]
        /\ tolerance \in [Agents -> Nat]
    BY ExecutionAssumption DEF Init, DEFAULT_MAX_SLIPPAGE_BPS
  <2>2. HooksOK
    <3>1. Cardinality(Accounts) \in Nat /\ PriorSwaps \in Nat
      BY ExecutionAssumption, FS_CardinalityType
    <3>2. PriorSwaps * Cardinality(Accounts) \in Nat
      BY <3>1
    <3> QED
      BY <3>1, <3>2 DEF Init, InitHooks, HooksOK, PriorTotal, Prior
  <2>3. peerStats \in [Agents -> [Agents -> PeerMevStats]]
    <3>1. NoPeerMevStats \in PeerMevStats
      BY DEF NoPeerMevStats, PeerMevStats
    <3> QED
      BY <3>1 DEF Init
  <2> QED
    BY <2>1, <2>2, <2>3 DEF Init, TypeOK, HooksOK
<1>2. TypeOK /\ [Next]_vars => TypeOK'
  BY TypeStep
<1> QED
  BY <1>1, <1>2, PTL DEF Spec

-----------------------------------------------------------------------------
(* The archive.                                                            *)

(* What the entries of an archive say.                                     *)
Said == {SwapEntry(h) : h \in Hash} \cup {AttestedEntry(p) : p \in Agents}

(* One step of an agent that is logged: a swap simulated or reported.      *)
SimulatedEntry(a, e) ==
  \E s \in Nat : e.what = SwapEntry(SimHash(a, s))
ReportedEntry(a, e) ==
  /\ Report(a)
  /\ e = [what |-> SwapEntry(TxHash(a, sent[a])), at |-> clock[a] + 1]
AttestationEntry(e) == \E p \in Agents : e.what = AttestedEntry(p)

LEMMA EntriesSay ==
  /\ \A a, e : SimulatedEntry(a, e) => /\ e.what.hash.sim = TRUE
                                       /\ e.what.hash.by = a
  /\ \A a, e : ReportedEntry(a, e) => /\ e.what.hash = TxHash(a, sent[a])
                                      /\ e.what.hash.by = a
  /\ \A e : AttestationEntry(e) => e.what.is # "SwapExecuted"
<1>1. \A h : SwapEntry(h).hash = h
  BY DEF SwapEntry
<1>2. \A a, n : SimHash(a, n).sim = TRUE /\ SimHash(a, n).by = a
  BY DEF SimHash
<1>3. \A p : AttestedEntry(p).is = "IdentityAttestation"
  BY DEF AttestedEntry
<1>4. "IdentityAttestation" # "SwapExecuted"
  OBVIOUS
<1>5. \A a, e : SimulatedEntry(a, e) => e.what.hash.sim = TRUE /\ e.what.hash.by = a
  <2> SUFFICES ASSUME NEW a, NEW e, SimulatedEntry(a, e)
               PROVE  e.what.hash.sim = TRUE /\ e.what.hash.by = a
    OBVIOUS
  <2>1. PICK s \in Nat : e.what = SwapEntry(SimHash(a, s))
    BY DEF SimulatedEntry
  <2>2. e.what.hash = SimHash(a, s)
    BY <1>1, <2>1
  <2> QED
    BY <1>2, <2>2
<1>6. \A a, e : ReportedEntry(a, e) => /\ e.what.hash = TxHash(a, sent[a])
                                      /\ e.what.hash.by = a
  <2>1. \A a, e : ReportedEntry(a, e) => e.what.hash = TxHash(a, sent[a])
    BY <1>1 DEF ReportedEntry
  <2>2. \A a, n : TxHash(a, n).by = a
    BY DEF TxHash
  <2> QED
    BY <2>1, <2>2
<1> QED
  BY <1>3, <1>4, <1>5, <1>6, Zenon DEF AttestationEntry

(* Every step keeps an archive in order, and only what is logged is new.   *)
LEMMA ArchiveStep ==
  ASSUME TypeOK, ArchiveInv(Said), [Next]_vars
  PROVE  /\ ArchiveInv(Said)'
         /\ \A a \in Archivers : \A e \in Logged(a)' :
              \/ e \in Logged(a)
              \/ SimulatedEntry(a, e)
              \/ ReportedEntry(a, e)
              \/ AttestationEntry(e)
<1> DEFINE Goal == /\ ArchiveInv(Said)'
                   /\ \A a \in Archivers : \A e \in Logged(a)' :
                        \/ e \in Logged(a)
                        \/ SimulatedEntry(a, e)
                        \/ ReportedEntry(a, e)
                        \/ AttestationEntry(e)
<1>1. ASSUME UNCHANGED archiveVars PROVE Goal
  <2>1. \A a : /\ Taken(a)' = Taken(a) /\ Kept(a)' = Kept(a)
               /\ Logged(a)' = Logged(a)
    BY <1>1 DEF archiveVars, Taken, Kept, Batches, Logged
  <2>2. ArchiveInv(Said)'
    BY <1>1, <2>1 DEF archiveVars, ArchiveInv, ArchiveType
  <2> QED
    BY <2>1, <2>2
<1>2. ASSUME NEW a \in Agents, ExecuteSimulated(a) PROVE Goal
  <2>0. second[a] \in Nat /\ second[a] + 1 \in Nat
    BY DEF TypeOK
  <2>1. PICK s \in Nat : Log(a, SwapEntry(SimHash(a, s)))
    <3>1. PICK s \in {second[a], second[a] + 1} \ {0} : Log(a, SwapEntry(SimHash(a, s)))
      BY <1>2 DEF ExecuteSimulated
    <3> QED
      BY <2>0, <3>1
  <2>2. SwapEntry(SimHash(a, s)) \in Said
    BY DEF Said, SimHash, Hash
  <2>3. /\ ArchiveInv(Said)'
        /\ \A b \in Archivers : \A e \in Logged(b)' :
             \/ e \in Logged(b)
             \/ b = a /\ e = [what |-> SwapEntry(SimHash(a, s)), at |-> clock[a] + 1]
    BY <2>1, <2>2, LogKeepsOrder
  <2> QED
    BY <2>3 DEF SimulatedEntry
<1>3. ASSUME NEW a \in Agents, Report(a) PROVE Goal
  <2>1. Log(a, SwapEntry(TxHash(a, sent[a]))) /\ sent[a] \in Nat
    BY <1>3 DEF Report, ReportAll, TypeOK
  <2>2. SwapEntry(TxHash(a, sent[a])) \in Said
    BY <2>1 DEF Said, TxHash, Hash
  <2>3. /\ ArchiveInv(Said)'
        /\ \A b \in Archivers : \A e \in Logged(b)' :
             \/ e \in Logged(b)
             \/ b = a /\ e = [what |-> SwapEntry(TxHash(a, sent[a])), at |-> clock[a] + 1]
    BY <2>1, <2>2, LogKeepsOrder
  <2> QED
    BY <1>3, <2>3 DEF ReportedEntry
<1>4. ASSUME NEW a \in Archivers, RecvIdentityAttestation(a) PROVE Goal
  <2>1. PICK p \in Agents : Log(a, AttestedEntry(p))
    BY <1>4 DEF RecvIdentityAttestation
  <2>2. AttestedEntry(p) \in Said
    BY DEF Said
  <2>3. /\ ArchiveInv(Said)'
        /\ \A b \in Archivers : \A e \in Logged(b)' :
             \/ e \in Logged(b)
             \/ b = a /\ e = [what |-> AttestedEntry(p), at |-> clock[a] + 1]
    BY <2>1, <2>2, LogKeepsOrder
  <2> QED
    BY <2>3 DEF AttestationEntry
<1>5. ASSUME NEW a \in Archivers, Archive(a) PROVE Goal
  <2>1. PICK reached \in BOOLEAN : Flush(a, reached)
    BY <1>5 DEF Archive
  <2>2. flushing[a] = <<>>
    BY <1>5 DEF Archive, Idle, Flushing
  <2> QED
    BY <2>1, <2>2, FlushKeepsOrder
<1>6. ASSUME NEW a \in Archivers, FlushEnds(a) PROVE Goal
  BY <1>6, FlushEndKeepsOrder DEF FlushEnds
<1>7. ASSUME SidecarStep PROVE Goal
  BY <1>7, UploadKeepsOrder DEF SidecarStep
<1>8. ASSUME NEW a \in Agents,
             \/ SetMode(a) \/ SetTolerance(a) \/ Swap(a) \/ CSwap(a) \/ Look(a)
             \/ Measure(a) \/ Send(a) \/ SwapErrors(a) \/ Payment(a)
             \/ RecvMevAlert(a)
      PROVE  UNCHANGED archiveVars
  <2>1. \A v, bps : Defer(a, v, bps) => UNCHANGED archiveVars
    BY DEF Defer
  <2> QED
    BY <1>8, <2>1 DEF SetMode, SetTolerance, Swap, CSwap, Look, Measure, Send, SwapErrors,
       Payment, RecvMevAlert, vars
<1>9. ASSUME NEW t \in mempool, Mine(t) \/ MineReverted(t) \/ Drop(t)
      PROVE  UNCHANGED archiveVars
  <2>1. \A out : MineFor(t, out) => UNCHANGED archiveVars
    BY DEF MineFor
  <2> QED
    BY <1>9, <2>1 DEF Mine, MineReverted, Drop
<1>10. OutsiderSwaps \/ UNCHANGED vars => UNCHANGED archiveVars
  BY DEF OutsiderSwaps, vars
<1>11. Goal
  <2> HIDE DEF Goal
  <2> QED
    BY <1>1, <1>2, <1>3, <1>4, <1>5, <1>6, <1>7, <1>8, <1>9, <1>10 DEF Next
<1> QED
  BY <1>11

(* The archive of every agent is in order.                                 *)
LEMMA ArchiveHolds == Spec => []ArchiveInv(Said)
<1>1. Init => ArchiveInv(Said)
  BY InitKeepsOrder DEF Init
<1>2. TypeOK /\ ArchiveInv(Said) /\ [Next]_vars => ArchiveInv(Said)'
  BY ArchiveStep
<1> QED
  BY <1>1, <1>2, TypeCorrect, PTL DEF Spec

(* Nothing that was logged is lost without an error, in spite of a flush   *)
(* that drains the buffer before it posts (archival.rs, flush).            *)
THEOREM NothingIsLost == Spec => []NothingLostSilently
<1>1. ArchiveInv(Said) => NothingLostSilently
  BY OrderIsSafe
<1> QED
  BY <1>1, ArchiveHolds, PTL

(* No entry is in two batches, or in a batch and in the buffer, whatever   *)
(* became of uploads the agent gave up.                                    *)
THEOREM NothingTwice == Spec => []ArchivedOnce
<1>1. ArchiveInv(Said) => ArchivedOnce
  BY OrderIsSafe
<1> QED
  BY <1>1, ArchiveHolds, PTL

-----------------------------------------------------------------------------
(* Transactions, balances and events.                                      *)

(* An agent has at most one transaction to be mined, and then none while   *)
(* it has measured its balance and not yet sent the next: Measure awaits   *)
(* an approval that comes after what was sent before.                      *)
SentInOrder ==
  \A t \in mempool :
    /\ \A u \in mempool : u.by = t.by => u = t
    /\ ~In(t.by, "measured")
    /\ t.n <= sent[t.by] /\ (In(t.by, "sent") => t.n = sent[t.by])
    /\ \A u \in mined : u.by = t.by => u.n < t.n

(* A transaction is mined once, and gives its floor or, reverted, nothing. *)
MinedOnce ==
  \A t \in mined :
    /\ t.n <= sent[t.by]
    /\ \A u \in mined : u.by = t.by /\ u.n = t.n => u = t
    /\ IF t.ok THEN t.out >= ComputeAmountOutMin(Amount, t.tol) ELSE t.out = 0

(* Since the balance was read, it grew by what came from elsewhere and by  *)
(* what the swap gave, once it is mined.                                   *)
BalanceExplained ==
  \A a \in Agents :
    /\ ~Measuring(a) => gained[a] = 0 /\ stray[a] = 0
    /\ In(a, "measured") => gained[a] = stray[a]
    /\ In(a, "sent") =>
         /\ Receipts(a) = {} => gained[a] = stray[a]
         /\ \A t \in Receipts(a) : gained[a] = stray[a] + t.out

Clamped(x) == IF x > 0 THEN x ELSE 0

(* An event is about a mined transaction and the only one about it, and    *)
(* holds its output.                                                       *)
EventsExplained ==
  \A a \in Agents : \A e \in events[a] :
    /\ e.n <= sent[a] /\ (In(a, "sent") => e.n < sent[a])
    /\ \A f \in events[a] : f.n = e.n => f = e
    /\ \E t \in mined : t.by = a /\ t.n = e.n /\ e.actual = Clamped(t.out + e.stray)
    /\ e.slippage = RealizedSlippageBps(Amount, e.actual)
    /\ e.sandwich = IsSandwich(Amount, e.actual)

SwapInv == SentInOrder /\ MinedOnce /\ BalanceExplained /\ EventsExplained

coreVars == <<swap, sent, mempool, mined, gained, stray, events>>

(* Steps that are not listed leave all this alone.                         *)
LEMMA CoreSteps ==
  ASSUME TypeOK, [Next]_vars
  PROVE  \/ UNCHANGED coreVars
         \/ \E a \in Agents :
              \/ \E v, bps : Defer(a, v, bps)
              \/ ExecuteSimulated(a)
              \/ Measure(a)
              \/ Send(a)
              \/ Report(a)
              \/ SwapErrors(a)
              \/ Payment(a)
         \/ \E t \in mempool :
              \/ \E out \in Nat : MineFor(t, out)
              \/ MineReverted(t)
              \/ Drop(t)
<1> USE DEF coreVars, chainVars, meterVars, reportVars
<1>1. ASSUME NEW a \in Agents, Swap(a) \/ CSwap(a)
      PROVE  \E v, bps : Defer(a, v, bps)
  BY <1>1 DEF Swap, CSwap
<1>2. ASSUME NEW a \in Agents,
             SetMode(a) \/ SetTolerance(a) \/ Look(a) \/ RecvMevAlert(a)
      PROVE  UNCHANGED coreVars
  BY <1>2 DEF SetMode, SetTolerance, Look, RecvMevAlert, vars
<1>3. ASSUME NEW a \in Archivers,
             Archive(a) \/ FlushEnds(a) \/ RecvIdentityAttestation(a)
      PROVE  UNCHANGED coreVars
  BY <1>3 DEF Archive, FlushEnds, RecvIdentityAttestation
<1>4. SidecarStep \/ OutsiderSwaps \/ UNCHANGED vars => UNCHANGED coreVars
  BY DEF SidecarStep, OutsiderSwaps, vars
<1>5. ASSUME NEW t \in mempool, Mine(t)
      PROVE  \E out \in Nat : MineFor(t, out)
  <2>1. t \in Tx
    BY DEF TypeOK
  <2> QED
    BY <1>5, <2>1, MineGives
<1> QED
  BY <1>1, <1>2, <1>3, <1>4, <1>5 DEF Next

(* An agent that begins a swap, or is done with it, measures nothing.      *)
LEMMA OtherStepsKeepSwapInv ==
  ASSUME TypeOK, SwapInv, NEW a \in Agents,
         \/ \E v, bps : Defer(a, v, bps)
         \/ ExecuteSimulated(a)
         \/ SwapErrors(a)
  PROVE  SwapInv'
<1>1. /\ UNCHANGED <<mempool, mined, events>>
      /\ ~In(a, "measured")' /\ ~In(a, "sent")'
      /\ gained'[a] = 0 /\ stray'[a] = 0
      /\ \A b \in Agents \ {a} :
           /\ swap'[b] = swap[b] /\ gained'[b] = gained[b] /\ stray'[b] = stray[b]
           /\ sent'[b] = sent[b]
      /\ sent'[a] \in {sent[a], sent[a] + 1}
  <2>1. ASSUME NEW v, NEW bps, Defer(a, v, bps)
        PROVE  /\ swap'[a].phase = "window"
               /\ \A b \in Agents \ {a} : swap'[b] = swap[b]
               /\ gained[a] = 0 /\ stray[a] = 0
               /\ UNCHANGED <<mempool, mined, events, gained, stray, sent>>
    <3>1. ~Measuring(a)
      BY <2>1 DEF Defer, Idle, Measuring, In
    <3> QED
      BY <2>1, <3>1 DEF Defer, TypeOK, SwapInv, BalanceExplained, chainVars, meterVars,
         reportVars
  <2>2. ASSUME ExecuteSimulated(a)
        PROVE  /\ swap'[a] = NoSwap
               /\ \A b \in Agents \ {a} : swap'[b] = swap[b] /\ sent'[b] = sent[b]
               /\ gained[a] = 0 /\ stray[a] = 0 /\ sent'[a] = sent[a] + 1
               /\ UNCHANGED <<mempool, mined, events, gained, stray>>
    <3>1. ~Measuring(a)
      BY <2>2 DEF ExecuteSimulated, Measuring, In
    <3> QED
      BY <2>2, <3>1 DEF ExecuteSimulated, TypeOK, SwapInv, BalanceExplained, chainVars,
         meterVars
  <2>3. ASSUME SwapErrors(a)
        PROVE  /\ swap'[a] = NoSwap
               /\ \A b \in Agents \ {a} : /\ swap'[b] = swap[b]
                                          /\ gained'[b] = gained[b] /\ stray'[b] = stray[b]
               /\ gained'[a] = 0 /\ stray'[a] = 0
               /\ UNCHANGED <<mempool, mined, events, sent>>
    BY <2>3 DEF SwapErrors, TypeOK, chainVars, reportVars
  <2> QED
    BY <2>1, <2>2, <2>3 DEF In
<1>2. sent[a] \in Nat
  BY DEF TypeOK
<1>3. \A t \in mempool : t.by \in Agents /\ t.n \in Nat
  BY DEF TypeOK, Tx
<1>4. \A t \in mined : t.by \in Agents /\ t.n \in Nat
  BY DEF TypeOK, MinedTx
<1>5. \A b \in Agents \ {a} : \A ph : In(b, ph)' <=> In(b, ph)
  BY <1>1 DEF In
<1>6. SentInOrder'
  BY <1>1, <1>2, <1>3, <1>5 DEF SwapInv, SentInOrder
<1>7. MinedOnce'
  BY <1>1, <1>2, <1>4 DEF SwapInv, MinedOnce
<1>8. BalanceExplained'
  <2>1. \A b \in Agents \ {a} : Receipts(b)' = Receipts(b)
    BY <1>1 DEF Receipts
  <2> QED
    BY <1>1, <1>5, <2>1 DEF SwapInv, BalanceExplained, Measuring
<1>9. EventsExplained'
  <2>1. \A b \in Agents : \A e \in events[b] : e.n \in Nat
    BY DEF TypeOK, MevEvent
  <2> QED
    BY <1>1, <1>2, <1>5, <2>1 DEF SwapInv, EventsExplained
<1> QED
  BY <1>6, <1>7, <1>8, <1>9 DEF SwapInv

LEMMA MeasureKeepsSwapInv ==
  ASSUME TypeOK, SwapInv, NEW a \in Agents, Measure(a)
  PROVE  SwapInv'
<1>1. /\ \A t \in mempool : t.by # a
      /\ swap[a] \in PendingSwap /\ swap[a].phase = "window"
      /\ swap' = [swap EXCEPT ![a].phase = "measured"]
      /\ UNCHANGED <<sent, mempool, mined, gained, stray, events>>
  BY DEF Measure, In, TypeOK, chainVars, meterVars, reportVars
<1>2. /\ swap'[a] \in PendingSwap /\ swap'[a].phase = "measured"
      /\ \A b \in Agents \ {a} : swap'[b] = swap[b]
  <2>1. PICK s : s = [swap[a] EXCEPT !.phase = "measured"]
    OBVIOUS
  <2>2. s \in PendingSwap /\ s.phase = "measured"
    BY <1>1, <2>1, SwapTypes DEF PendingSwap
  <2>3. swap' = [swap EXCEPT ![a] = s] /\ swap \in [Agents -> PendingSwap \cup {NoSwap}]
    BY <1>1, <2>1 DEF TypeOK
  <2> QED
    BY <2>2, <2>3
<1>3. /\ \A b \in Agents \ {a} : \A ph : In(b, ph)' <=> In(b, ph)
      /\ ~In(a, "sent")' /\ ~In(a, "measured") /\ ~In(a, "sent")
  BY <1>1, <1>2 DEF In
<1>4. gained[a] = 0 /\ stray[a] = 0
  BY <1>3 DEF SwapInv, BalanceExplained, Measuring
<1>5. SentInOrder'
  <2>1. \A t \in mempool : t.by \in Agents \ {a}
    BY <1>1 DEF TypeOK, Tx
  <2> QED
    BY <1>1, <1>3, <2>1 DEF SwapInv, SentInOrder
<1>6. MinedOnce'
  BY <1>1 DEF SwapInv, MinedOnce
<1>7. BalanceExplained'
  <2>1. \A b \in Agents : Receipts(b)' = Receipts(b)
    BY <1>1 DEF Receipts
  <2> QED
    BY <1>1, <1>3, <1>4, <2>1 DEF SwapInv, BalanceExplained, Measuring
<1>8. EventsExplained'
  BY <1>1, <1>3 DEF SwapInv, EventsExplained
<1> QED
  BY <1>5, <1>6, <1>7, <1>8 DEF SwapInv

LEMMA SendKeepsSwapInv ==
  ASSUME TypeOK, SwapInv, NEW a \in Agents, Send(a)
  PROVE  SwapInv'
<1>0. PICK new :
        new = [by |-> a, n |-> sent[a] + 1, pool |-> Pool(a), tol |-> swap[a].tol]
  OBVIOUS
<1>1. /\ In(a, "measured") /\ ~In(a, "sent")
      /\ swap[a] \in PendingSwap
      /\ swap' = [swap EXCEPT ![a].phase = "sent"]
      /\ sent' = [sent EXCEPT ![a] = sent[a] + 1]
      /\ mempool' = mempool \cup {new}
      /\ UNCHANGED <<mined, gained, stray, events>>
  BY <1>0 DEF Send, In, TypeOK, meterVars, reportVars
<1>2. new.by = a /\ new.n = sent[a] + 1
  BY <1>0
<1>3. /\ swap'[a] \in PendingSwap /\ swap'[a].phase = "sent"
      /\ \A b \in Agents \ {a} : swap'[b] = swap[b] /\ sent'[b] = sent[b]
      /\ sent[a] \in Nat /\ sent'[a] = sent[a] + 1
  <2>1. sent \in [Agents -> Nat] /\ swap \in [Agents -> PendingSwap \cup {NoSwap}]
    BY DEF TypeOK
  <2>2. sent[a] \in Nat /\ sent'[a] = sent[a] + 1
    BY <1>1, <2>1
  <2>3. \A b \in Agents \ {a} : swap'[b] = swap[b] /\ sent'[b] = sent[b]
    BY <1>1, <2>1
  <2>4. swap'[a] = [swap[a] EXCEPT !.phase = "sent"]
    BY <1>1, <2>1
  <2>5. swap'[a] \in PendingSwap /\ swap'[a].phase = "sent"
    BY <1>1, <2>4, SwapTypes DEF PendingSwap
  <2> QED
    BY <2>2, <2>3, <2>5
<1>4. /\ \A b \in Agents \ {a} : \A ph : In(b, ph)' <=> In(b, ph)
      /\ In(a, "sent")' /\ ~In(a, "measured")'
  BY <1>1, <1>3, SwapTypes DEF In
<1>5. /\ \A t \in mempool : t.by \in Agents \ {a} /\ t.n \in Nat
      /\ \A t \in mined : t.by \in Agents /\ t.n \in Nat
      /\ \A t \in mined : t.by = a => t.n <= sent[a]
  BY <1>1 DEF TypeOK, Tx, MinedTx, SwapInv, SentInOrder, MinedOnce
<1>6. SentInOrder'
  <2>1. ASSUME NEW t \in mempool
        PROVE  /\ \A u \in mempool' : u.by = t.by => u = t
               /\ ~In(t.by, "measured")'
               /\ t.n <= sent'[t.by] /\ (In(t.by, "sent")' => t.n = sent'[t.by])
               /\ \A u \in mined' : u.by = t.by => u.n < t.n
    BY <1>1, <1>2, <1>3, <1>4, <1>5 DEF SwapInv, SentInOrder
  <2>2. /\ \A u \in mempool' : u.by = new.by => u = new
        /\ ~In(a, "measured")'
        /\ new.n <= sent'[new.by] /\ new.n = sent'[new.by]
        /\ \A u \in mined' : u.by = new.by => u.n < new.n
    BY <1>1, <1>2, <1>3, <1>4, <1>5
  <2> QED
    BY <1>1, <1>2, <2>1, <2>2 DEF SentInOrder
<1>7. MinedOnce'
  <2>1. \A t \in mined : t.n <= sent'[t.by]
    BY <1>3, <1>5 DEF SwapInv, MinedOnce
  <2> QED
    BY <1>1, <2>1 DEF SwapInv, MinedOnce
<1>8. BalanceExplained'
  <2>1. \A b \in Agents \ {a} : Receipts(b)' = Receipts(b)
    BY <1>1, <1>3 DEF Receipts
  <2>2. Receipts(a)' = {}
    BY <1>1, <1>3, <1>5 DEF Receipts
  <2>3. gained[a] = stray[a]
    BY <1>1 DEF SwapInv, BalanceExplained
  <2> QED
    BY <1>1, <1>4, <2>1, <2>2, <2>3 DEF SwapInv, BalanceExplained, Measuring
<1>9. EventsExplained'
  <2>1. \A b \in Agents : \A e \in events[b] : e.n \in Nat /\ e.n <= sent[b]
    BY DEF TypeOK, MevEvent, SwapInv, EventsExplained
  <2>2. \A b \in Agents : \A e \in events[b] :
          e.n <= sent'[b] /\ (In(b, "sent")' => e.n < sent'[b])
    BY <1>3, <1>4, <2>1 DEF SwapInv, EventsExplained
  <2> QED
    BY <1>1, <2>2 DEF SwapInv, EventsExplained
<1> QED
  BY <1>6, <1>7, <1>8, <1>9 DEF SwapInv

(* What is reported is the output of the mined transaction.                *)
LEMMA OutcomeExplained ==
  ASSUME TypeOK, SwapInv, NEW a \in Agents, In(a, "sent"), Receipts(a) # {}
  PROVE  LET e == Outcome(a)
         IN  /\ e.n = sent[a]
             /\ \E t \in mined : t.by = a /\ t.n = e.n /\ e.actual = Clamped(t.out + e.stray)
             /\ e.slippage = RealizedSlippageBps(Amount, e.actual)
             /\ e.sandwich = IsSandwich(Amount, e.actual)
<1>1. PICK t \in Receipts(a) : TRUE
  OBVIOUS
<1>2. t \in mined /\ t.by = a /\ t.n = sent[a]
  BY DEF Receipts
<1>3. gained[a] = stray[a] + t.out
  BY DEF SwapInv, BalanceExplained
<1>4. t.out \in Int /\ stray[a] \in Int
  BY <1>2 DEF TypeOK, MinedTx
<1>5. MeasuredOutput(a) = Clamped(t.out + stray[a])
  BY <1>3, <1>4 DEF MeasuredOutput, Clamped
<1> QED
  BY <1>2, <1>5 DEF Outcome

LEMMA ReportKeepsSwapInv ==
  ASSUME TypeOK, SwapInv, NEW a \in Agents, Report(a)
  PROVE  SwapInv'
<1>0. PICK new : new = Outcome(a)
  OBVIOUS
<1>1. /\ In(a, "sent") /\ Receipts(a) # {}
      /\ swap' = [swap EXCEPT ![a] = NoSwap]
      /\ gained' = [gained EXCEPT ![a] = 0] /\ stray' = [stray EXCEPT ![a] = 0]
      /\ events' = [events EXCEPT ![a] = events[a] \cup {new}]
      /\ UNCHANGED <<sent, mempool, mined>>
  BY <1>0 DEF Report, ReportAll, chainVars
<1>2. /\ new.n = sent[a]
      /\ \E t \in mined : t.by = a /\ t.n = new.n /\ new.actual = Clamped(t.out + new.stray)
      /\ new.slippage = RealizedSlippageBps(Amount, new.actual)
      /\ new.sandwich = IsSandwich(Amount, new.actual)
  BY <1>0, <1>1, OutcomeExplained
<1>3. /\ \A b \in Agents \ {a} : /\ swap'[b] = swap[b]
                                 /\ gained'[b] = gained[b] /\ stray'[b] = stray[b]
      /\ swap'[a] = NoSwap /\ gained'[a] = 0 /\ stray'[a] = 0
  BY <1>1 DEF TypeOK
<1>4. /\ \A b \in Agents \ {a} : \A ph : In(b, ph)' <=> In(b, ph)
      /\ ~In(a, "sent")' /\ ~In(a, "measured")'
  BY <1>3 DEF In
<1>5. SentInOrder'
  <2>1. \A t \in mempool : t.by \in Agents
    BY DEF TypeOK, Tx
  <2> QED
    BY <1>1, <1>4, <2>1 DEF SwapInv, SentInOrder
<1>6. MinedOnce'
  BY <1>1 DEF SwapInv, MinedOnce
<1>7. BalanceExplained'
  <2>1. \A b \in Agents : Receipts(b)' = Receipts(b)
    BY <1>1 DEF Receipts
  <2> QED
    BY <1>3, <1>4, <2>1 DEF SwapInv, BalanceExplained, Measuring
<1>8. EventsExplained'
  <2>1. \A e \in events[a] : e.n \in Nat /\ e.n < sent[a] /\ sent[a] \in Nat
    BY <1>1 DEF TypeOK, MevEvent, SwapInv, EventsExplained
  <2>2. /\ \A b \in Agents \ {a} : events'[b] = events[b]
        /\ events'[a] = events[a] \cup {new}
    BY <1>1 DEF TypeOK
  <2>3. \A b \in Agents \ {a} : \A e \in events'[b] :
          /\ e.n <= sent'[b] /\ (In(b, "sent")' => e.n < sent'[b])
          /\ \A f \in events'[b] : f.n = e.n => f = e
          /\ \E t \in mined' : t.by = b /\ t.n = e.n /\ e.actual = Clamped(t.out + e.stray)
          /\ e.slippage = RealizedSlippageBps(Amount, e.actual)
          /\ e.sandwich = IsSandwich(Amount, e.actual)
    BY <1>1, <1>4, <2>2 DEF SwapInv, EventsExplained
  <2>4. \A e \in events'[a] :
          /\ e.n <= sent'[a]
          /\ \A f \in events'[a] : f.n = e.n => f = e
          /\ \E t \in mined' : t.by = a /\ t.n = e.n /\ e.actual = Clamped(t.out + e.stray)
          /\ e.slippage = RealizedSlippageBps(Amount, e.actual)
          /\ e.sandwich = IsSandwich(Amount, e.actual)
    <3>1. \A e \in events[a] :
            /\ \A f \in events[a] : f.n = e.n => f = e
            /\ \E t \in mined : t.by = a /\ t.n = e.n /\ e.actual = Clamped(t.out + e.stray)
            /\ e.slippage = RealizedSlippageBps(Amount, e.actual)
            /\ e.sandwich = IsSandwich(Amount, e.actual)
      BY DEF SwapInv, EventsExplained
    <3>2. \A e, f \in events'[a] : f.n = e.n => f = e
      BY <1>2, <2>1, <2>2, <3>1
    <3>3. \A e \in events'[a] : e.n <= sent'[a]
      <4>1. sent'[a] = sent[a] /\ sent[a] \in Nat
        BY <1>1 DEF TypeOK
      <4> QED
        BY <1>2, <2>1, <2>2, <4>1
    <3>4. ASSUME NEW e \in events'[a]
          PROVE  /\ \E t \in mined' :
                      t.by = a /\ t.n = e.n /\ e.actual = Clamped(t.out + e.stray)
                 /\ e.slippage = RealizedSlippageBps(Amount, e.actual)
                 /\ e.sandwich = IsSandwich(Amount, e.actual)
      <4>1. CASE e \in events[a]
        BY <1>1, <3>1, <4>1
      <4>2. CASE e = new
        BY <1>1, <1>2, <4>2
      <4> QED
        BY <2>2, <4>1, <4>2
    <3> QED
      BY <3>2, <3>3, <3>4
  <2> QED
    BY <1>4, <2>3, <2>4 DEF EventsExplained
<1> QED
  BY <1>5, <1>6, <1>7, <1>8 DEF SwapInv

LEMMA PaymentKeepsSwapInv ==
  ASSUME TypeOK, SwapInv, NEW a \in Agents, Payment(a)
  PROVE  SwapInv'
<1>1. PICK d \in Int : /\ gained' = [gained EXCEPT ![a] = gained[a] + d]
                       /\ stray' = [stray EXCEPT ![a] = stray[a] + d]
  BY ExecutionAssumption DEF Payment
<1>2. Measuring(a) /\ UNCHANGED <<swap, sent, mempool, mined, events>>
  BY DEF Payment, chainVars, reportVars
<1>3. /\ gained[a] \in Int /\ stray[a] \in Int
      /\ \A t \in Receipts(a) : t.out \in Int
      /\ gained'[a] = gained[a] + d /\ stray'[a] = stray[a] + d
      /\ \A b \in Agents \ {a} : gained'[b] = gained[b] /\ stray'[b] = stray[b]
  BY <1>1 DEF TypeOK, MinedTx, Receipts
<1>4. \A b : /\ Receipts(b)' = Receipts(b) /\ (Measuring(b)' <=> Measuring(b))
             /\ \A ph : In(b, ph)' <=> In(b, ph)
  BY <1>2 DEF Receipts, Measuring, In
<1>5. BalanceExplained'
  <2>1. \A b \in Agents \ {a} :
          /\ ~Measuring(b)' => gained'[b] = 0 /\ stray'[b] = 0
          /\ In(b, "measured")' => gained'[b] = stray'[b]
          /\ In(b, "sent")' =>
               /\ Receipts(b)' = {} => gained'[b] = stray'[b]
               /\ \A t \in Receipts(b)' : gained'[b] = stray'[b] + t.out
    BY <1>3, <1>4 DEF SwapInv, BalanceExplained
  <2>2. /\ In(a, "measured")' => gained'[a] = stray'[a]
        /\ In(a, "sent")' =>
             /\ Receipts(a)' = {} => gained'[a] = stray'[a]
             /\ \A t \in Receipts(a)' : gained'[a] = stray'[a] + t.out
    BY <1>3, <1>4 DEF SwapInv, BalanceExplained
  <2> QED
    BY <1>2, <1>4, <2>1, <2>2 DEF BalanceExplained
<1>6. SentInOrder' /\ MinedOnce' /\ EventsExplained'
  BY <1>2, <1>4 DEF SwapInv, SentInOrder, MinedOnce, EventsExplained
<1> QED
  BY <1>5, <1>6 DEF SwapInv

(* A transaction that leaves the mempool, mined or not.                    *)
LEMMA MiningKeepsSwapInv ==
  ASSUME TypeOK, SwapInv, NEW t \in mempool, UNCHANGED <<swap, sent, stray, events>>,
         mempool' = mempool \ {t},
         NEW m \in MinedTx, mined' = mined \cup {m},
         m.by = t.by, m.n = t.n, m.pool = t.pool,
         IF m.ok THEN m.out >= ComputeAmountOutMin(Amount, m.tol) ELSE m.out = 0,
         gained' = IF Measuring(m.by)
                   THEN [gained EXCEPT ![m.by] = gained[m.by] + m.out] ELSE gained
  PROVE  SwapInv'
<1> DEFINE a == m.by
<1>1. /\ a \in Agents /\ m.n \in Nat /\ m.out \in Nat /\ sent[a] \in Nat
      /\ \A u \in mempool : u.by \in Agents /\ u.n \in Nat
      /\ \A u \in mined : u.by \in Agents /\ u.n \in Nat
  BY DEF MinedTx, Tx, TypeOK
<1>2. /\ ~In(a, "measured") /\ m.n <= sent[a] /\ (In(a, "sent") => m.n = sent[a])
      /\ \A u \in mined : u.by = a => u.n < m.n
      /\ \A u \in mempool' : u.by # a
  BY DEF SwapInv, SentInOrder
<1>3. \A b, ph : In(b, ph)' <=> In(b, ph)
  BY DEF In
<1> HIDE DEF a
<1>4. SentInOrder'
  <2>1. \A u \in mempool' : \A v \in mined' : v.by = u.by => v \in mined
    BY <1>2 DEF a
  <2> QED
    BY <1>3, <2>1 DEF SwapInv, SentInOrder
<1>5. MinedOnce'
  <2>1. ASSUME NEW u \in mined
        PROVE  /\ u.n <= sent'[u.by]
               /\ \A v \in mined' : v.by = u.by /\ v.n = u.n => v = u
               /\ IF u.ok THEN u.out >= ComputeAmountOutMin(Amount, u.tol) ELSE u.out = 0
    <3>1. m.by = u.by => m.n # u.n
      BY <1>1, <1>2 DEF a
    <3> QED
      BY <3>1 DEF SwapInv, MinedOnce
  <2>2. /\ m.n <= sent'[m.by]
        /\ \A v \in mined' : v.by = m.by /\ v.n = m.n => v = m
    <3>1. \A v \in mined : v.by = m.by => v.n # m.n
      BY <1>1, <1>2 DEF a
    <3> QED
      BY <1>2, <3>1 DEF a
  <2> QED
    BY <2>1, <2>2 DEF MinedOnce
<1>6. BalanceExplained'
  <2>1. gained[a] \in Int /\ stray[a] \in Int /\ gained \in [Agents -> Int]
    BY <1>1 DEF TypeOK
  <2>2. \A b \in Agents \ {a} : Receipts(b)' = Receipts(b) /\ gained'[b] = gained[b]
    <3>1. \A b \in Agents \ {a} : gained'[b] = gained[b]
      BY <1>1, <2>1 DEF a
    <3>2. \A b \in Agents \ {a} : Receipts(b)' = Receipts(b)
      BY DEF Receipts, a
    <3> QED
      BY <3>1, <3>2
  <2>3. ASSUME NEW b \in Agents \ {a}
        PROVE  /\ ~Measuring(b)' => gained'[b] = 0 /\ stray'[b] = 0
               /\ In(b, "measured")' => gained'[b] = stray'[b]
               /\ In(b, "sent")' =>
                    /\ Receipts(b)' = {} => gained'[b] = stray'[b]
                    /\ \A u \in Receipts(b)' : gained'[b] = stray'[b] + u.out
    BY <1>3, <2>2 DEF SwapInv, BalanceExplained, Measuring
  <2>4. CASE In(a, "sent")
    <3>1. Receipts(a) = {}
      BY <1>1, <1>2, <2>4 DEF Receipts
    <3>2. Receipts(a)' = {m}
      BY <1>1, <1>2, <2>4, <3>1 DEF Receipts, a
    <3>3. gained[a] = stray[a]
      BY <1>1, <2>4, <3>1 DEF SwapInv, BalanceExplained
    <3>4. gained'[a] = gained[a] + m.out
      BY <1>1, <2>1, <2>4 DEF Measuring, a
    <3> QED
      BY <1>1, <1>2, <1>3, <2>3, <2>4, <3>2, <3>3, <3>4 DEF BalanceExplained, Measuring
  <2>5. CASE ~In(a, "sent")
    <3>1. ~Measuring(a) /\ gained' = gained
      BY <1>2, <2>5 DEF Measuring, a
    <3> QED
      BY <1>1, <1>3, <2>3, <3>1 DEF SwapInv, BalanceExplained, Measuring
  <2> QED
    BY <2>4, <2>5
<1>7. EventsExplained'
  BY <1>3 DEF SwapInv, EventsExplained
<1> QED
  BY <1>4, <1>5, <1>6, <1>7 DEF SwapInv

LEMMA ChainKeepsSwapInv ==
  ASSUME TypeOK, SwapInv, NEW t \in mempool
  PROVE  /\ \A out \in Nat : MineFor(t, out) => SwapInv'
         /\ MineReverted(t) => SwapInv'
         /\ Drop(t) => SwapInv'
<1> USE DEF meterVars, reportVars
<1>0. t \in Tx
  BY DEF TypeOK
<1>1. ASSUME NEW out \in Nat, MineFor(t, out) PROVE SwapInv'
  <2>0. PICK m : m = MinedAs(t, TRUE, out, FeeOf(t))
    OBVIOUS
  <2>1. /\ m \in MinedTx /\ m.by = t.by /\ m.n = t.n /\ m.pool = t.pool
        /\ m.tol = t.tol /\ m.ok = TRUE /\ m.out = out
    BY <1>0, <2>0, FeeType DEF MinedAs, MinedTx, Tx, FeeOf
  <2>2. m.out >= ComputeAmountOutMin(Amount, m.tol)
    BY <1>1, <2>1 DEF MineFor, Floor
  <2>3. /\ UNCHANGED <<swap, sent, stray, events>>
        /\ mempool' = mempool \ {t} /\ mined' = mined \cup {m}
        /\ gained' = IF Measuring(m.by)
                     THEN [gained EXCEPT ![m.by] = gained[m.by] + m.out] ELSE gained
    BY <1>1, <2>0, <2>1 DEF MineFor
  <2> QED
    BY <2>1, <2>2, <2>3, MiningKeepsSwapInv
<1>2. ASSUME MineReverted(t) PROVE SwapInv'
  <2>0. PICK m : m = MinedAs(t, FALSE, 0, 0)
    OBVIOUS
  <2>1. /\ m \in MinedTx /\ m.by = t.by /\ m.n = t.n /\ m.pool = t.pool
        /\ m.ok = FALSE /\ m.out = 0 /\ m.by \in Agents
    BY <1>0, <2>0 DEF MinedAs, MinedTx, Tx
  <2>2. /\ UNCHANGED <<swap, sent, stray, events>>
        /\ mempool' = mempool \ {t} /\ mined' = mined \cup {m} /\ gained' = gained
    BY <1>2, <2>0 DEF MineReverted
  <2>3. gained' = [gained EXCEPT ![m.by] = gained[m.by] + m.out]
    BY <2>1, <2>2 DEF TypeOK
  <2> QED
    BY <2>1, <2>2, <2>3, MiningKeepsSwapInv
<1>3. ASSUME Drop(t) PROVE SwapInv'
  <2>1. UNCHANGED <<swap, sent, stray, events, mined, gained>> /\ mempool' \subseteq mempool
    BY <1>3 DEF Drop
  <2>2. \A b : /\ (Measuring(b)' <=> Measuring(b)) /\ Receipts(b)' = Receipts(b)
               /\ \A ph : In(b, ph)' <=> In(b, ph)
    BY <2>1 DEF In, Measuring, Receipts
  <2>3. SentInOrder'
    BY <2>1, <2>2 DEF SwapInv, SentInOrder
  <2>4. MinedOnce' /\ EventsExplained'
    BY <2>1, <2>2 DEF SwapInv, MinedOnce, EventsExplained
  <2>5. BalanceExplained'
    BY <2>1, <2>2 DEF SwapInv, BalanceExplained
  <2> QED
    BY <2>3, <2>4, <2>5 DEF SwapInv
<1> QED
  BY <1>1, <1>2, <1>3

(* SwapInv holds in every state.                                           *)
LEMMA SwapInvStep ==
  ASSUME TypeOK, SwapInv, [Next]_vars
  PROVE  SwapInv'
<1>1. ASSUME UNCHANGED coreVars PROVE SwapInv'
  <2>1. \A b : /\ (Measuring(b)' <=> Measuring(b)) /\ Receipts(b)' = Receipts(b)
               /\ \A ph : In(b, ph)' <=> In(b, ph)
    BY <1>1 DEF coreVars, In, Measuring, Receipts
  <2> QED
    BY <1>1, <2>1 DEF coreVars, SwapInv, SentInOrder, MinedOnce, BalanceExplained,
       EventsExplained
<1> QED
  BY <1>1, CoreSteps, OtherStepsKeepSwapInv, MeasureKeepsSwapInv, SendKeepsSwapInv,
     ReportKeepsSwapInv, PaymentKeepsSwapInv, ChainKeepsSwapInv

LEMMA SwapInvHolds == Spec => []SwapInv
<1>1. Init => SwapInv
  BY DEF Init, SwapInv, SentInOrder, MinedOnce, BalanceExplained, EventsExplained, In,
     Measuring
<1>2. TypeOK /\ SwapInv /\ [Next]_vars => SwapInv'
  BY SwapInvStep
<1> QED
  BY <1>1, <1>2, TypeCorrect, PTL DEF Spec

(* The output a MevEvent holds is that of its own transaction and of what  *)
(* came from elsewhere, never that of a swap given up before.              *)
THEOREM OutputsAreOwn == Spec => []MeasuredIsOwn
<1>1. SwapInv => MeasuredIsOwn
  BY DEF SwapInv, EventsExplained, MeasuredIsOwn, Clamped
<1> QED
  BY <1>1, SwapInvHolds, PTL

-----------------------------------------------------------------------------
(* What is told to peers and logged.                                       *)

(* An alert is about an event of the agent it comes from.                  *)
AlertsOfEvents ==
  \A m \in msgs : m.kind = "MevAlert" =>
    \E e \in events[m.from] : e.sandwich /\ m = Alert(e, m.from)

AnnouncedReally ==
  \A m \in msgs : m.kind = "SwapExecuted" => Really(m.hash) /\ m.hash.by = m.from

(* A transaction is logged once, and not before its receipt: what is in    *)
(* the log is not the swap whose receipt is awaited.                       *)
LoggedReally ==
  \A a \in Archivers : \A e \in Logged(a) : e.what.is = "SwapExecuted" =>
    /\ Really(e.what.hash) /\ e.what.hash.by = a
    /\ e.what.hash.sim \/ /\ e.what.hash.n \in Nat /\ e.what.hash.n <= sent[a]
                          /\ In(a, "sent") => e.what.hash.n < sent[a]
    /\ \A f \in Logged(a) : e.what = f.what => e = f \/ e.what.hash.sim

(* Transactions, events and counts of swaps only grow; an agent awaits a   *)
(* receipt only of a transaction it has just sent; and only two steps tell *)
(* peers anything.                                                         *)
LEMMA OnlyGrows ==
  ASSUME TypeOK, [Next]_vars
  PROVE  /\ mined \subseteq mined'
         /\ \A a \in Agents :
              /\ events[a] \subseteq events'[a]
              /\ sent[a] <= sent'[a]
              /\ In(a, "sent")' => In(a, "sent") \/ sent[a] < sent'[a]
         /\ msgs' = msgs \/ \E a \in Agents : ExecuteSimulated(a) \/ Report(a)
<1> DEFINE Grow == /\ mined \subseteq mined'
                   /\ \A a \in Agents :
                        /\ events[a] \subseteq events'[a]
                        /\ sent[a] <= sent'[a]
                        /\ In(a, "sent")' => In(a, "sent") \/ sent[a] < sent'[a]
<1> USE DEF chainVars, meterVars, reportVars, configVars, hookVars
<1>0. /\ sent \in [Agents -> Nat] /\ swap \in [Agents -> PendingSwap \cup {NoSwap}]
      /\ events \in [Agents -> SUBSET MevEvent]
  BY DEF TypeOK
<1>1. ASSUME UNCHANGED coreVars PROVE Grow
  BY <1>0, <1>1 DEF coreVars, In
<1>2. ASSUME NEW a \in Agents, NEW v, NEW bps, Defer(a, v, bps) PROVE Grow
  <2>1. /\ swap'[a].phase = "window" /\ \A b \in Agents \ {a} : swap'[b] = swap[b]
        /\ UNCHANGED <<mined, events, sent>>
    BY <1>0, <1>2 DEF Defer
  <2> QED
    BY <1>0, <2>1 DEF In
<1>3. ASSUME NEW a \in Agents, ExecuteSimulated(a) PROVE Grow
  <2>1. /\ swap'[a] = NoSwap /\ \A b \in Agents \ {a} : swap'[b] = swap[b]
        /\ UNCHANGED <<mined, events>>
        /\ \A b \in Agents : sent[b] <= sent'[b]
    BY <1>0, <1>3 DEF ExecuteSimulated
  <2> QED
    BY <1>0, <2>1 DEF In
<1>4. ASSUME NEW a \in Agents, Measure(a) PROVE Grow
  <2>1. swap[a] \in PendingSwap /\ swap' = [swap EXCEPT ![a].phase = "measured"]
        /\ UNCHANGED <<mined, events, sent>>
    BY <1>0, <1>4 DEF Measure, In
  <2>2. /\ swap'[a].phase = "measured" /\ \A b \in Agents \ {a} : swap'[b] = swap[b]
    BY <1>0, <2>1, SwapTypes DEF PendingSwap
  <2> QED
    BY <1>0, <2>1, <2>2 DEF In
<1>5. ASSUME NEW a \in Agents, Send(a) PROVE Grow
  <2>1. /\ swap' = [swap EXCEPT ![a].phase = "sent"]
        /\ sent' = [sent EXCEPT ![a] = sent[a] + 1]
        /\ UNCHANGED <<mined, events>>
    BY <1>5 DEF Send
  <2>2. sent[a] < sent'[a] /\ \A b \in Agents : sent[b] <= sent'[b]
    BY <1>0, <2>1
  <2>3. \A b \in Agents \ {a} : swap'[b] = swap[b]
    BY <1>0, <2>1
  <2> QED
    BY <1>0, <2>1, <2>2, <2>3 DEF In
<1>6. ASSUME NEW a \in Agents, Report(a) \/ SwapErrors(a) PROVE Grow
  <2>1. /\ swap'[a] = NoSwap /\ \A b \in Agents \ {a} : swap'[b] = swap[b]
        /\ UNCHANGED <<mined, sent>>
        /\ \A b \in Agents : events[b] \subseteq events'[b]
    BY <1>0, <1>6 DEF Report, ReportAll, SwapErrors
  <2> QED
    BY <1>0, <2>1 DEF In
<1>7. ASSUME NEW a \in Agents, Payment(a) PROVE Grow
  BY <1>0, <1>7 DEF Payment, In
<1>8. ASSUME NEW t \in mempool, \/ \E out \in Nat : MineFor(t, out)
                              \/ MineReverted(t) \/ Drop(t)
      PROVE  Grow
  <2>1. ASSUME NEW out \in Nat, MineFor(t, out)
        PROVE  mined \subseteq mined' /\ UNCHANGED <<swap, sent, events>>
    BY <2>1 DEF MineFor
  <2>2. ASSUME MineReverted(t) \/ Drop(t)
        PROVE  mined \subseteq mined' /\ UNCHANGED <<swap, sent, events>>
    BY <2>2 DEF MineReverted, Drop
  <2> QED
    BY <1>0, <1>8, <2>1, <2>2 DEF In
<1>9. Grow
  <2> HIDE DEF Grow
  <2> QED
    BY <1>1, <1>2, <1>3, <1>4, <1>5, <1>6, <1>7, <1>8, CoreSteps
<1>10. msgs' = msgs \/ \E a \in Agents : ExecuteSimulated(a) \/ Report(a)
  <2>1. ASSUME NEW a \in Agents,
               \/ SetMode(a) \/ SetTolerance(a) \/ Swap(a) \/ CSwap(a) \/ Look(a)
               \/ Measure(a) \/ Send(a) \/ SwapErrors(a) \/ Payment(a)
               \/ RecvMevAlert(a)
        PROVE  msgs' = msgs
    <3>1. \A v, bps : Defer(a, v, bps) => msgs' = msgs
      BY DEF Defer
    <3> QED
      BY <2>1, <3>1 DEF SetMode, SetTolerance, Swap, CSwap, Look, Measure, Send, SwapErrors,
         Payment, RecvMevAlert, vars
  <2>2. ASSUME NEW a \in Archivers,
               Archive(a) \/ FlushEnds(a) \/ RecvIdentityAttestation(a)
        PROVE  msgs' = msgs
    BY <2>2 DEF Archive, FlushEnds, RecvIdentityAttestation
  <2>3. ASSUME NEW t \in mempool, Mine(t) \/ MineReverted(t) \/ Drop(t)
        PROVE  msgs' = msgs
    <3>1. \A out : MineFor(t, out) => msgs' = msgs
      BY DEF MineFor
    <3> QED
      BY <2>3, <3>1 DEF Mine, MineReverted, Drop
  <2>4. SidecarStep \/ OutsiderSwaps \/ UNCHANGED vars => msgs' = msgs
    BY DEF SidecarStep, OutsiderSwaps, vars
  <2> QED
    BY <2>1, <2>2, <2>3, <2>4 DEF Next
<1> QED
  BY <1>9, <1>10

LEMMA AlertStep ==
  ASSUME TypeOK, AlertsOfEvents, [Next]_vars
  PROVE  AlertsOfEvents'
<1> SUFFICES ASSUME NEW m \in msgs', m.kind = "MevAlert"
             PROVE  \E e \in events'[m.from] : e.sandwich /\ m = Alert(e, m.from)
  BY DEF AlertsOfEvents
<1>1. CASE m \in msgs
  <2>1. m.from \in Agents
    BY <1>1 DEF TypeOK, ExecutedMsg, AlertMsg
  <2> QED
    BY <1>1, <2>1, OnlyGrows DEF AlertsOfEvents
<1>2. CASE m \notin msgs
  <2>1. PICK a \in Agents : ExecuteSimulated(a) \/ Report(a)
    BY <1>2, OnlyGrows
  <2>2. Report(a) /\ m = Alert(Outcome(a), a) /\ Outcome(a).sandwich
    <3>1. ASSUME ExecuteSimulated(a) PROVE FALSE
      BY <1>2, <3>1 DEF ExecuteSimulated, Publish, Executed
    <3> QED
      BY <1>2, <2>1, <3>1 DEF Report, ReportAll, Publish, Executed
  <2>3. Outcome(a) \in events'[a]
    BY <2>2 DEF Report, ReportAll, TypeOK
  <2>4. m.from = a
    BY <2>2 DEF Alert
  <2> QED
    BY <2>2, <2>3, <2>4
<1> QED
  BY <1>1, <1>2

LEMMA AlertsHold == Spec => []AlertsOfEvents
<1>1. Init => AlertsOfEvents
  BY DEF Init, AlertsOfEvents
<1>2. TypeOK /\ AlertsOfEvents /\ [Next]_vars => AlertsOfEvents'
  BY AlertStep
<1> QED
  BY <1>1, <1>2, TypeCorrect, PTL DEF Spec

(* A sandwich alert has one of three reasons, a swap that reverted, a      *)
(* tolerance above the threshold, or tokens that left the account          *)
(* meanwhile, if the swap is not of less than 10000 wei: there the floor   *)
(* is rounded down by a basis point and more.                              *)
THEOREM AlertsAreExplained ==
  ASSUME Amount >= 10000
  PROVE  Spec => []AlertExplained
<1>1. ASSUME TypeOK, SwapInv, AlertsOfEvents
      PROVE  AlertExplained
  <2> SUFFICES ASSUME NEW m \in msgs, m.kind = "MevAlert"
               PROVE  \E t \in mined, e \in events[m.from] :
                        /\ t.by = m.from /\ t.n = m.n /\ e.n = m.n
                        /\ ~t.ok \/ t.tol > SANDWICH_THRESHOLD_BPS \/ e.stray < 0
    BY DEF AlertExplained
  <2>1. m.from \in Agents
    BY <1>1 DEF TypeOK, ExecutedMsg, AlertMsg
  <2>2. PICK e \in events[m.from] : e.sandwich /\ m = Alert(e, m.from)
    BY <1>1 DEF AlertsOfEvents
  <2>3. PICK t \in mined : t.by = m.from /\ t.n = e.n /\ e.actual = Clamped(t.out + e.stray)
    BY <1>1, <2>1 DEF SwapInv, EventsExplained
  <2>4. m.n = e.n
    BY <2>2 DEF Alert
  <2>5. /\ e.stray \in Int /\ t.out \in Nat /\ t.tol \in Nat /\ t.ok \in BOOLEAN
        /\ IsSandwich(Amount, e.actual)
        /\ t.ok => t.out >= ComputeAmountOutMin(Amount, t.tol)
    <3>1. e \in MevEvent /\ t \in MinedTx
      BY <1>1, <2>1 DEF TypeOK
    <3>2. IsSandwich(Amount, e.actual)
      BY <1>1, <2>1, <2>2 DEF SwapInv, EventsExplained
    <3>3. t.ok => t.out >= ComputeAmountOutMin(Amount, t.tol)
      BY <1>1 DEF SwapInv, MinedOnce
    <3> QED
      BY <3>1, <3>2, <3>3 DEF MevEvent, MinedTx
  <2>6. ASSUME t.ok, t.tol <= SANDWICH_THRESHOLD_BPS, e.stray >= 0
        PROVE  FALSE
    <3>1. PICK bps \in Nat : bps = t.tol
      BY <2>5
    <3>2. PICK out \in Nat : out = t.out + e.stray
      BY <2>5, <2>6
    <3>3. e.actual = out
      BY <2>3, <3>2 DEF Clamped
    <3>4. Amount \in Nat /\ ComputeAmountOutMin(Amount, bps) \in Int
      <4>1. Amount \in Nat
        BY ExecutionAssumption
      <4>2. bps <= 9999
        BY <2>6, <3>1 DEF SANDWICH_THRESHOLD_BPS
      <4> QED
        BY <4>1, <4>2, FloorIsClose
    <3>5. out >= ComputeAmountOutMin(Amount, bps)
      BY <2>5, <2>6, <3>1, <3>2, <3>4
    <3>6. bps <= SANDWICH_THRESHOLD_BPS
      BY <2>6, <3>1
    <3>7. ~IsSandwich(Amount, out)
      BY <3>4, <3>5, <3>6, NoAlertWithinThreshold
    <3> QED
      BY <2>5, <3>3, <3>7
  <2>7. ~t.ok \/ t.tol > SANDWICH_THRESHOLD_BPS \/ e.stray < 0
    BY <2>5, <2>6 DEF SANDWICH_THRESHOLD_BPS
  <2> QED
    BY <2>3, <2>4, <2>7
<1>2. TypeOK /\ SwapInv /\ AlertsOfEvents => AlertExplained
  BY <1>1
<1> QED
  BY <1>2, TypeCorrect, SwapInvHolds, AlertsHold, PTL

LEMMA AnnouncedStep ==
  ASSUME TypeOK, AnnouncedReally, [Next]_vars
  PROVE  AnnouncedReally'
<1>1. \A h : Really(h) => Really(h)'
  BY OnlyGrows DEF Really
<1> SUFFICES ASSUME NEW m \in msgs', m.kind = "SwapExecuted"
             PROVE  Really(m.hash)' /\ m.hash.by = m.from
  BY DEF AnnouncedReally, Really
<1>2. CASE m \in msgs
  BY <1>1, <1>2 DEF AnnouncedReally
<1>3. CASE m \notin msgs
  <2>1. PICK a \in Agents : ExecuteSimulated(a) \/ Report(a)
    BY <1>3, OnlyGrows
  <2>2. CASE ExecuteSimulated(a)
    <3>1. PICK s : m = Executed(a, SimHash(a, s))
      BY <1>3, <2>2 DEF ExecuteSimulated, Publish
    <3> QED
      BY <3>1 DEF Executed, SimHash, Really
  <2>3. CASE Report(a)
    <3>1. m = Executed(a, TxHash(a, sent[a])) /\ Receipts(a) # {}
      BY <1>3, <2>3 DEF Report, ReportAll, Publish, Alert
    <3>2. Really(TxHash(a, sent[a]))
      BY <3>1 DEF Receipts, Really, TxHash
    <3>3. m.hash = TxHash(a, sent[a]) /\ m.from = a /\ TxHash(a, sent[a]).by = a
      BY <3>1 DEF Executed, TxHash
    <3>4. PICK h : h = TxHash(a, sent[a])
      OBVIOUS
    <3> QED
      BY <1>1, <3>2, <3>3, <3>4
  <2> QED
    BY <2>1, <2>2, <2>3
<1> QED
  BY <1>2, <1>3

LEMMA LoggedStep ==
  ASSUME TypeOK, ArchiveInv(Said), LoggedReally, [Next]_vars
  PROVE  LoggedReally'
<1>1. \A h : Really(h) => Really(h)'
  BY OnlyGrows DEF Really
<1> SUFFICES ASSUME NEW a \in Archivers, NEW e \in Logged(a)', e.what.is = "SwapExecuted"
             PROVE  /\ Really(e.what.hash)' /\ e.what.hash.by = a
                    /\ e.what.hash.sim
                       \/ /\ e.what.hash.n \in Nat /\ e.what.hash.n <= sent'[a]
                          /\ In(a, "sent")' => e.what.hash.n < sent'[a]
                    /\ \A f \in Logged(a)' :
                         e.what = f.what => e = f \/ e.what.hash.sim
  BY Zenon DEF LoggedReally, Really
<1>2. a \in Agents
  BY ExecutionAssumption
<1>3. /\ sent[a] \in Nat /\ sent'[a] \in Nat /\ sent[a] <= sent'[a]
      /\ In(a, "sent")' => In(a, "sent") \/ sent[a] < sent'[a]
  <2>1. sent'[a] \in Nat
    BY <1>2, TypeStep DEF TypeOK
  <2> QED
    BY <1>2, <2>1, OnlyGrows DEF TypeOK
(* Of what is in the log, a simulated swap or what was there before.       *)
<1>4. ASSUME NEW f \in Logged(a)', f.what.is = "SwapExecuted", ~f.what.hash.sim
      PROVE  f \in Logged(a) \/ ReportedEntry(a, f)
  <2>1. ~AttestationEntry(f)
    BY <1>4, EntriesSay
  <2>2. ~SimulatedEntry(a, f)
    BY <1>4, EntriesSay
  <2> QED
    BY <2>1, <2>2, ArchiveStep
<1>5. ASSUME NEW f, ReportedEntry(a, f)
      PROVE  /\ Really(f.what.hash) /\ f.what.hash.by = a /\ f.what.hash.n = sent[a]
             /\ In(a, "sent") /\ ~In(a, "sent")'
  <2>1. Report(a) /\ f.what.hash = TxHash(a, sent[a])
    BY <1>5 DEF ReportedEntry, SwapEntry
  <2>2. Really(TxHash(a, sent[a]))
    BY <2>1 DEF Report, Receipts, Really, TxHash
  <2>3. In(a, "sent") /\ ~In(a, "sent")'
    BY <1>2, <2>1 DEF Report, ReportAll, In, TypeOK
  <2> QED
    BY <2>1, <2>2, <2>3 DEF TxHash
<1>6. ASSUME e.what.hash.sim
      PROVE  Really(e.what.hash)' /\ e.what.hash.by = a
  <2>1. Really(e.what.hash)'
    BY <1>6 DEF Really
  <2>2. CASE e \in Logged(a)
    BY <1>6, <2>1, <2>2 DEF LoggedReally
  <2>3. CASE e \notin Logged(a)
    <3>1. ~AttestationEntry(e)
      BY EntriesSay
    <3>2. SimulatedEntry(a, e) \/ ReportedEntry(a, e)
      BY <2>3, <3>1, ArchiveStep
    <3>3. e.what.hash.by = a
      BY <3>2, EntriesSay
    <3> QED
      BY <2>1, <3>3
  <2> QED
    BY <2>2, <2>3
<1>7. ASSUME ~e.what.hash.sim
      PROVE  /\ Really(e.what.hash)' /\ e.what.hash.by = a
             /\ e.what.hash.n \in Nat /\ e.what.hash.n <= sent'[a]
             /\ In(a, "sent")' => e.what.hash.n < sent'[a]
  <2>1. CASE e \in Logged(a)
    <3>1. /\ Really(e.what.hash) /\ e.what.hash.by = a
          /\ e.what.hash.n \in Nat /\ e.what.hash.n <= sent[a]
          /\ In(a, "sent") => e.what.hash.n < sent[a]
      BY <1>7, <2>1 DEF LoggedReally
    <3> QED
      BY <1>1, <1>3, <3>1
  <2>2. CASE ReportedEntry(a, e)
    <3>1. /\ Really(e.what.hash) /\ e.what.hash.by = a /\ e.what.hash.n = sent[a]
          /\ ~In(a, "sent")'
      BY <1>5, <2>2
    <3> QED
      BY <1>1, <1>3, <3>1
  <2> QED
    BY <1>4, <1>7, <2>1, <2>2
<1>8. ASSUME ~e.what.hash.sim, NEW f \in Logged(a)', e.what = f.what
      PROVE  e = f
  <2>1. /\ e \in Logged(a) \/ ReportedEntry(a, e)
        /\ f \in Logged(a) \/ ReportedEntry(a, f)
    BY <1>4, <1>8
  <2>2. CASE e \in Logged(a) /\ f \in Logged(a)
    BY <1>8, <2>2 DEF LoggedReally
  <2>3. CASE ReportedEntry(a, e) /\ ReportedEntry(a, f)
    BY <2>3 DEF ReportedEntry
  <2>4. ASSUME NEW x \in Logged(a), NEW y, ReportedEntry(a, y), x.what = y.what,
               x.what.is = "SwapExecuted", ~x.what.hash.sim
        PROVE  FALSE
    <3>1. x.what.hash.n = sent[a] /\ In(a, "sent")
      BY <1>5, <2>4
    <3>2. x.what.hash.n < sent[a]
      BY <2>4, <3>1 DEF LoggedReally
    <3> QED
      BY <1>3, <3>1, <3>2
  <2> QED
    BY <1>8, <2>1, <2>2, <2>3, <2>4
<1> QED
  BY <1>6, <1>7, <1>8

(* What is announced or logged as executed was simulated, or is a mined    *)
(* transaction of the agent itself, and a transaction is logged once.      *)
THEOREM ReportsAreMined == Spec => []ReportsMined
<1>1. Init => AnnouncedReally /\ LoggedReally
  <2> SUFFICES ASSUME Init PROVE AnnouncedReally /\ LoggedReally
    OBVIOUS
  <2>1. \A a \in Archivers : Logged(a) = {}
    BY InitKeepsOrder DEF Init
  <2> QED
    BY <2>1 DEF Init, AnnouncedReally, LoggedReally
<1>2. /\ TypeOK /\ ArchiveInv(Said) /\ AnnouncedReally /\ LoggedReally /\ [Next]_vars
      => AnnouncedReally' /\ LoggedReally'
  BY AnnouncedStep, LoggedStep
<1>3. AnnouncedReally /\ LoggedReally => ReportsMined
  <2> SUFFICES ASSUME AnnouncedReally, LoggedReally PROVE ReportsMined
    OBVIOUS
  <2>1. \A a : Entries(a) = Logged(a)
    BY EntriesAreLogged
  <2> QED
    BY <2>1 DEF AnnouncedReally, LoggedReally, ReportsMined
<1> QED
  BY <1>1, <1>2, <1>3, TypeCorrect, ArchiveHolds, PTL DEF Spec

-----------------------------------------------------------------------------
(* The hooks.                                                              *)

MinedFinite == IsFiniteSet(mined)

(* Only swaps that succeed reach the hooks.                                *)
LEMMA HookSteps ==
  ASSUME TypeOK, [Next]_vars
  PROVE  \/ UNCHANGED hookVars /\ mined' = mined
         \/ \E t \in mempool :
              UNCHANGED hookVars /\ mined' = mined \cup {MinedAs(t, FALSE, 0, 0)}
         \/ \E t \in mempool : \E out \in Nat : MineFor(t, out)
         \/ \E pool \in Pools : SwapHooks(pool, NoData) /\ mined' = mined
<1> USE DEF chainVars
<1>1. ASSUME NEW a \in Agents,
             \/ SetMode(a) \/ SetTolerance(a) \/ Swap(a) \/ CSwap(a) \/ Look(a)
             \/ ExecuteSimulated(a) \/ Measure(a) \/ Send(a) \/ Report(a)
             \/ SwapErrors(a) \/ Payment(a) \/ RecvMevAlert(a)
      PROVE  UNCHANGED hookVars /\ mined' = mined
  <2>1. \A v, bps : Defer(a, v, bps) => UNCHANGED hookVars /\ mined' = mined
    BY DEF Defer
  <2> QED
    BY <1>1, <2>1 DEF SetMode, SetTolerance, Swap, CSwap, Look, ExecuteSimulated, Measure,
       Send, Report, ReportAll, SwapErrors, Payment, RecvMevAlert, vars
<1>2. ASSUME NEW a \in Archivers,
             Archive(a) \/ FlushEnds(a) \/ RecvIdentityAttestation(a)
      PROVE  UNCHANGED hookVars /\ mined' = mined
  BY <1>2 DEF Archive, FlushEnds, RecvIdentityAttestation
<1>3. SidecarStep \/ UNCHANGED vars => UNCHANGED hookVars /\ mined' = mined
  BY DEF SidecarStep, vars
<1>4. ASSUME NEW t \in mempool
      PROVE  /\ Mine(t) => \E out \in Nat : MineFor(t, out)
             /\ MineReverted(t) =>
                  UNCHANGED hookVars /\ mined' = mined \cup {MinedAs(t, FALSE, 0, 0)}
             /\ Drop(t) => UNCHANGED hookVars /\ mined' = mined
  <2>1. t \in Tx
    BY DEF TypeOK
  <2>2. Mine(t) => \E out \in Nat : MineFor(t, out)
    BY <2>1, MineGives
  <2> QED
    BY <2>2 DEF MineReverted, Drop
<1>5. ASSUME OutsiderSwaps
      PROVE  \E pool \in Pools : SwapHooks(pool, NoData) /\ mined' = mined
  <2>1. PICK a \in Agents, v \in Versions : SwapHooks(<<endpoint[a], v>>, NoData)
    BY <1>5 DEF OutsiderSwaps
  <2>2. <<endpoint[a], v>> \in Pools
    BY ExecutionAssumption DEF Pools, TypeOK
  <2> QED
    BY <1>5, <2>1, <2>2 DEF OutsiderSwaps
<1> QED
  BY <1>1, <1>2, <1>3, <1>4, <1>5 DEF Next

(* A swap that succeeds is counted for its agent, by V2.                   *)
LEMMA CountedIs ==
  ASSUME NEW t \in Tx
  PROVE  /\ Version(t.pool) = "V2" => Data(t) # NoData /\ Data(t) = t.by
                                      /\ Counted(t.pool, Data(t)) = t.by
         /\ Version(t.pool) # "V2" => Counted(t.pool, Data(t)) = Router
         /\ \A pool \in Pools : Counted(pool, NoData) = Router
         /\ \A a \in Agents : a # Router /\ a \in Addresses
BY ExecutionAssumption DEF Tx, Pools, Version, Data, Counted, Addresses

(* What mining one more transaction does to the sets that are counted.     *)
LEMMA OneMoreMined ==
  ASSUME TypeOK, SwapInv, MinedFinite, NEW t \in mempool,
         NEW m \in MinedTx, m.by = t.by, m.n = t.n, mined' = mined \cup {m}
  PROVE  /\ MinedFinite' /\ m \notin mined
         /\ \A pool \in Pools, a \in Agents :
              /\ Cardinality(Successful(pool, a)) \in Nat
              /\ IF m.ok /\ pool = m.pool /\ a = m.by
                 THEN Cardinality(Successful(pool, a)')
                        = Cardinality(Successful(pool, a)) + 1
                 ELSE Successful(pool, a)' = Successful(pool, a)
         /\ \A u \in mined :
              {w \in Successful(u.pool, u.by)' : w.n < u.n}
                = {w \in Successful(u.pool, u.by) : w.n < u.n}
         /\ {w \in Successful(m.pool, m.by)' : w.n < m.n} = Successful(m.pool, m.by)
<1>1. /\ \A u \in mined : u.by = m.by => u.n < m.n
      /\ \A u \in mined : u.n \in Nat
      /\ m.n \in Nat /\ m.ok \in BOOLEAN
  BY DEF SwapInv, SentInOrder, TypeOK, MinedTx
<1>2. m \notin mined
  BY <1>1
<1>3. MinedFinite'
  BY FS_AddElement DEF MinedFinite
<1>4. ASSUME NEW pool \in Pools, NEW a \in Agents
      PROVE  /\ Cardinality(Successful(pool, a)) \in Nat
             /\ IF m.ok /\ pool = m.pool /\ a = m.by
                THEN Cardinality(Successful(pool, a)') = Cardinality(Successful(pool, a)) + 1
                ELSE Successful(pool, a)' = Successful(pool, a)
  <2>1. IsFiniteSet(Successful(pool, a))
    <3>1. Successful(pool, a) \subseteq mined
      BY DEF Successful
    <3> QED
      BY <3>1, FS_Subset DEF MinedFinite
  <2>2. Cardinality(Successful(pool, a)) \in Nat
    BY <2>1, FS_CardinalityType
  <2>3. CASE m.ok /\ pool = m.pool /\ a = m.by
    <3>1. Successful(pool, a)' = Successful(pool, a) \cup {m}
      BY <2>3 DEF Successful
    <3>2. m \notin Successful(pool, a)
      BY <1>2 DEF Successful
    <3>3. Cardinality(Successful(pool, a) \cup {m}) = Cardinality(Successful(pool, a)) + 1
      BY <2>1, <3>2, FS_AddElement
    <3> QED
      BY <2>2, <2>3, <3>1, <3>3
  <2>4. CASE ~(m.ok /\ pool = m.pool /\ a = m.by)
    <3>1. Successful(pool, a)' = Successful(pool, a)
      BY <2>4 DEF Successful
    <3> QED
      BY <2>2, <2>4, <3>1
  <2> QED
    BY <2>3, <2>4
<1>5. ASSUME NEW u \in mined
      PROVE  {w \in Successful(u.pool, u.by)' : w.n < u.n}
               = {w \in Successful(u.pool, u.by) : w.n < u.n}
  <2>1. m.by = u.by => ~(m.n < u.n)
    BY <1>1
  <2> QED
    BY <2>1 DEF Successful
<1>6. {w \in Successful(m.pool, m.by)' : w.n < m.n} = Successful(m.pool, m.by)
  <2>1. ~(m.n < m.n)
    BY <1>1
  <2> QED
    BY <1>1, <2>1 DEF Successful
<1> QED
  BY <1>2, <1>3, <1>4, <1>5, <1>6

LEMMA HooksKeepCounts ==
  ASSUME TypeOK, SwapInv, MinedFinite, CountedForAgents, RebateEarned, [Next]_vars
  PROVE  MinedFinite' /\ CountedForAgents' /\ RebateEarned'
<1>1. ASSUME UNCHANGED hookVars, mined' = mined
      PROVE  MinedFinite' /\ CountedForAgents' /\ RebateEarned'
  BY <1>1 DEF hookVars, MinedFinite, CountedForAgents, RebateEarned, Successful
<1>2. ASSUME NEW t \in mempool, UNCHANGED hookVars,
             mined' = mined \cup {MinedAs(t, FALSE, 0, 0)}
      PROVE  MinedFinite' /\ CountedForAgents' /\ RebateEarned'
  <2>0. PICK m : m = MinedAs(t, FALSE, 0, 0)
    OBVIOUS
  <2>1. /\ m \in MinedTx /\ m.by = t.by /\ m.n = t.n /\ m.ok = FALSE
        /\ mined' = mined \cup {m}
    BY <1>2, <2>0 DEF MinedAs, MinedTx, Tx, TypeOK
  <2>2. /\ MinedFinite'
        /\ \A pool \in Pools, a \in Agents : Successful(pool, a)' = Successful(pool, a)
        /\ \A u \in mined : {w \in Successful(u.pool, u.by)' : w.n < u.n}
                             = {w \in Successful(u.pool, u.by) : w.n < u.n}
    BY <2>1, OneMoreMined
  <2>3. CountedForAgents'
    BY <1>2, <2>2 DEF hookVars, CountedForAgents
  <2>4. RebateEarned'
    BY <2>1, <2>2 DEF RebateEarned
  <2> QED
    BY <2>2, <2>3, <2>4
<1>3. ASSUME NEW t \in mempool, NEW out \in Nat, MineFor(t, out)
      PROVE  MinedFinite' /\ CountedForAgents' /\ RebateEarned'
  <2>0. PICK m : m = MinedAs(t, TRUE, out, FeeOf(t))
    OBVIOUS
  <2>1. /\ m \in MinedTx /\ m.by = t.by /\ m.n = t.n /\ m.ok = TRUE /\ m.pool = t.pool
        /\ m.fee = FeeOf(t) /\ t \in Tx
    BY <2>0, FeeType DEF MinedAs, MinedTx, Tx, TypeOK, FeeOf
  <2>2. mined' = mined \cup {m} /\ SwapHooks(t.pool, Data(t))
    BY <1>3, <2>0 DEF MineFor
  <2>3. /\ m.pool \in Pools /\ m.by \in Agents
        /\ MinedFinite' /\ m \notin mined
        /\ \A pool \in Pools, a \in Agents :
              /\ Cardinality(Successful(pool, a)) \in Nat
              /\ IF pool = m.pool /\ a = m.by
                 THEN Cardinality(Successful(pool, a)')
                        = Cardinality(Successful(pool, a)) + 1
                 ELSE Successful(pool, a)' = Successful(pool, a)
        /\ \A u \in mined : {w \in Successful(u.pool, u.by)' : w.n < u.n}
                             = {w \in Successful(u.pool, u.by) : w.n < u.n}
        /\ {w \in Successful(m.pool, m.by)' : w.n < m.n} = Successful(m.pool, m.by)
    <3>1. m.pool \in Pools /\ m.by \in Agents
      BY <2>1 DEF MinedTx
    <3> QED
      BY <2>1, <2>2, <3>1, OneMoreMined
  <2>4. \A p \in Pools, x \in Addresses :
          agentSwapCount'[p][x] =
            IF p = t.pool /\ x = Counted(t.pool, Data(t)) THEN agentSwapCount[p][x] + 1
            ELSE agentSwapCount[p][x]
    BY <2>1, <2>2, DataType, HooksType DEF TypeOK
  <2>5. CountedForAgents'
    <3> SUFFICES ASSUME NEW pool \in Pools, NEW a \in Agents
                 PROVE  agentSwapCount'[pool][a] =
                          IF Version(pool) = "V2"
                          THEN PriorSwaps + Cardinality(Successful(pool, a)') ELSE 0
      BY DEF CountedForAgents
    <3>1. /\ agentSwapCount[pool][a] = IF Version(pool) = "V2"
                                      THEN PriorSwaps + Cardinality(Successful(pool, a))
                                      ELSE 0
          /\ Cardinality(Successful(pool, a)) \in Nat /\ PriorSwaps \in Nat
      BY <2>3, ExecutionAssumption DEF CountedForAgents
    <3>2. a \in Addresses /\ a # Router
      BY <2>1, CountedIs
    <3>3. CASE pool = m.pool /\ a = m.by /\ Version(pool) = "V2"
      <4>1. agentSwapCount'[pool][a] = agentSwapCount[pool][a] + 1
        BY <2>1, <2>4, <3>2, <3>3, CountedIs
      <4>2. Cardinality(Successful(pool, a)') = Cardinality(Successful(pool, a)) + 1
        BY <2>3, <3>3
      <4> QED
        BY <3>1, <3>3, <4>1, <4>2
    <3>4. CASE ~(pool = m.pool /\ a = m.by /\ Version(pool) = "V2")
      <4>1. agentSwapCount'[pool][a] = agentSwapCount[pool][a]
        <5>1. pool = t.pool => a # Counted(t.pool, Data(t))
          BY <2>1, <3>2, <3>4, CountedIs
        <5> QED
          BY <2>4, <3>2, <5>1
      <4>2. Version(pool) = "V2" => Successful(pool, a)' = Successful(pool, a)
        BY <2>3, <3>4
      <4> QED
        BY <3>1, <4>1, <4>2
    <3> QED
      BY <3>3, <3>4
  <2>6. RebateEarned'
    <3>1. m.fee = REBATE_FEE <=>
            /\ Version(m.pool) = "V2"
            /\ PriorSwaps + Cardinality(Successful(m.pool, m.by)) >= REBATE_THRESHOLD
      <4>1. CASE Version(m.pool) = "V2"
        <5>1. agentSwapCount[m.pool][m.by]
                = PriorSwaps + Cardinality(Successful(m.pool, m.by))
          BY <2>3, <4>1 DEF CountedForAgents
        <5>2. Data(t) = m.by /\ Data(t) # NoData
          BY <2>1, <4>1, CountedIs
        <5> QED
          BY <2>1, <4>1, <5>1, <5>2 DEF FeeOf, Fee, REBATE_FEE, BASE_FEE
      <4>2. CASE Version(m.pool) # "V2"
        BY <2>1, <4>2 DEF FeeOf, Fee, REBATE_FEE, BASE_FEE
      <4> QED
        BY <4>1, <4>2
    <3>2. m.fee = REBATE_FEE <=>
            /\ Version(m.pool) = "V2"
            /\ PriorSwaps + Cardinality({w \in Successful(m.pool, m.by)' : w.n < m.n})
                 >= REBATE_THRESHOLD
      BY <2>3, <3>1
    <3>3. \A u \in mined : u.ok =>
            (u.fee = REBATE_FEE <=>
               /\ Version(u.pool) = "V2"
               /\ PriorSwaps + Cardinality({w \in Successful(u.pool, u.by)' : w.n < u.n})
                    >= REBATE_THRESHOLD)
      BY <2>3 DEF RebateEarned
    <3> QED
      BY <2>2, <3>2, <3>3 DEF RebateEarned
  <2> QED
    BY <2>3, <2>5, <2>6
<1>4. ASSUME NEW pool \in Pools, SwapHooks(pool, NoData), mined' = mined
      PROVE  MinedFinite' /\ CountedForAgents' /\ RebateEarned'
  <2>1. Counted(pool, NoData) = Router /\ \A a \in Agents : a # Router /\ a \in Addresses
    BY ExecutionAssumption DEF Counted, Addresses
  <2>2. \A p \in Pools, x \in Addresses :
          agentSwapCount'[p][x] =
            IF p = pool /\ x = Counted(pool, NoData) THEN agentSwapCount[p][x] + 1
            ELSE agentSwapCount[p][x]
    BY <1>4, HooksType DEF TypeOK
  <2>3. \A p \in Pools, a \in Agents : agentSwapCount'[p][a] = agentSwapCount[p][a]
    BY <2>1, <2>2
  <2>4. /\ mined' = mined
        /\ \A p, a : Successful(p, a)' = Successful(p, a)
    BY <1>4 DEF Successful
  <2>5. MinedFinite' /\ CountedForAgents'
    BY <2>3, <2>4 DEF MinedFinite, CountedForAgents
  <2>6. RebateEarned'
    BY <2>4 DEF RebateEarned
  <2> QED
    BY <2>5, <2>6
<1> QED
  BY <1>1, <1>2, <1>3, <1>4, HookSteps

LEMMA CountsHold == Spec => [](CountedForAgents /\ RebateEarned)
<1>1. Init => MinedFinite /\ CountedForAgents /\ RebateEarned
  <2> SUFFICES ASSUME Init PROVE MinedFinite /\ CountedForAgents /\ RebateEarned
    OBVIOUS
  <2>1. MinedFinite /\ RebateEarned
    BY FS_EmptySet DEF Init, MinedFinite, RebateEarned
  <2>2. \A pool \in Pools, a \in Agents : Cardinality(Successful(pool, a)) = 0
    BY FS_EmptySet DEF Init, Successful
  <2>3. \A pool \in Pools, a \in Agents :
          agentSwapCount[pool][a] = IF Version(pool) = "V2" THEN PriorSwaps ELSE 0
    BY ExecutionAssumption DEF Init, InitHooks, Prior, Addresses
  <2> QED
    BY <2>1, <2>2, <2>3, ExecutionAssumption DEF CountedForAgents
<1>2. /\ TypeOK /\ SwapInv /\ MinedFinite /\ CountedForAgents /\ RebateEarned /\ [Next]_vars
      => MinedFinite' /\ CountedForAgents' /\ RebateEarned'
  BY HooksKeepCounts
<1> QED
  BY <1>1, <1>2, TypeCorrect, SwapInvHolds, PTL DEF Spec

(* The V2 hook counts for an agent exactly the swaps it made that          *)
(* succeeded (AgentCounterV2.sol, _afterSwap), V1 none.                    *)
THEOREM AgentsAreCounted == Spec => []CountedForAgents
BY CountsHold, PTL

(* An agent pays the rebated fee from its sixth successful swap in V2 on,  *)
(* and never before, whoever else swaps and whatever reverts.              *)
THEOREM RebatesAreEarned == Spec => []RebateEarned
BY CountsHold, PTL

(* Counts as a set: one element for each unit of each.                     *)
Units(S, f) == UNION {{x} \X (1 .. f[x]) : x \in S}

LEMMA UnitsAre ==
  ASSUME NEW S, NEW f
  PROVE  \A u : u \in Units(S, f) <=> \E x \in S : \E k \in 1 .. f[x] : u = <<x, k>>
BY DEF Units

(* One more for one of them is one more in all.                            *)
LEMMA OneMoreUnit ==
  ASSUME NEW S, NEW f \in [S -> Nat], NEW g \in [S -> Nat], NEW c \in S,
         \A x \in S : g[x] = IF x = c THEN f[x] + 1 ELSE f[x],
         IsFiniteSet(Units(S, f))
  PROVE  /\ IsFiniteSet(Units(S, g))
         /\ Cardinality(Units(S, g)) = Cardinality(Units(S, f)) + 1
<1> DEFINE new == <<c, f[c] + 1>>
<1>1. new \notin Units(S, f)
  <2> SUFFICES ASSUME NEW x \in S, NEW k \in 1 .. f[x], new = <<x, k>>
               PROVE  FALSE
    BY UnitsAre
  <2>1. x = c /\ k = f[c] + 1 /\ k <= f[c] /\ f[c] \in Nat
    OBVIOUS
  <2> QED
    BY <2>1
<1>2. ASSUME NEW x \in S, NEW k
      PROVE  k \in 1 .. g[x] <=> k \in 1 .. f[x] \/ <<x, k>> = new
  <2>1. f[x] \in Nat /\ g[x] \in Nat
    OBVIOUS
  <2>2. CASE x = c
    <3>1. g[x] = f[x] + 1 /\ (<<x, k>> = new <=> k = f[x] + 1)
      BY <2>2
    <3> QED
      BY <2>1, <3>1
  <2>3. CASE x # c
    <3>1. g[x] = f[x] /\ <<x, k>> # new
      BY <2>3
    <3> QED
      BY <3>1
  <2> QED
    BY <2>2, <2>3
<1>3. c \in S /\ f[c] + 1 \in 1 .. g[c]
  BY <1>2
<1> HIDE DEF new
<1>4. Units(S, g) = Units(S, f) \cup {new}
  <2>1. ASSUME NEW u, u \in Units(S, g) PROVE u \in Units(S, f) \cup {new}
    BY <1>2, <2>1, UnitsAre
  <2>2. ASSUME NEW u, u \in Units(S, f) PROVE u \in Units(S, g)
    BY <1>2, <2>2, UnitsAre
  <2>3. new \in Units(S, g)
    BY <1>3, UnitsAre DEF new
  <2> QED
    BY <2>1, <2>2, <2>3
<1> QED
  BY <1>1, <1>4, FS_AddElement

TalliesFinite == \A pool \in Pools : IsFiniteSet(Tally(pool))

LEMMA TallyIs ==
  \A pool : /\ Tally(pool) = Units(Addresses, agentSwapCount[pool])
            /\ Tally(pool)' = Units(Addresses, agentSwapCount'[pool])
BY DEF Tally, Units, Addresses

(* A swap that goes through adds one to each of the three.                 *)
LEMMA HooksAgree ==
  ASSUME TypeOK, CountsAgree, TalliesFinite,
         NEW pool \in Pools, NEW d \in Agents \cup {NoData}, SwapHooks(pool, d)
  PROVE  CountsAgree' /\ TalliesFinite'
<1>1. /\ beforeSwapCount' = [beforeSwapCount EXCEPT ![pool] = @ + 1]
      /\ afterSwapCount' = [afterSwapCount EXCEPT ![pool] = @ + 1]
  BY DEF SwapHooks
<1>2. /\ beforeSwapCount \in [Pools -> Nat] /\ afterSwapCount \in [Pools -> Nat]
      /\ agentSwapCount \in [Pools -> [Addresses -> Nat]]
      /\ agentSwapCount' \in [Pools -> [Addresses -> Nat]]
      /\ \A p \in Pools, x \in Addresses :
           agentSwapCount'[p][x] =
             IF p = pool /\ x = Counted(pool, d) THEN agentSwapCount[p][x] + 1
             ELSE agentSwapCount[p][x]
  BY HooksType DEF TypeOK
<1>3. Counted(pool, d) \in Addresses
  BY ExecutionAssumption DEF Counted, Addresses
<1>4. /\ IsFiniteSet(Tally(pool)')
      /\ Cardinality(Tally(pool)') = Cardinality(Tally(pool)) + 1
  <2> DEFINE f == agentSwapCount[pool]
             g == agentSwapCount'[pool]
             c == Counted(pool, d)
  <2>1. /\ f \in [Addresses -> Nat] /\ g \in [Addresses -> Nat] /\ c \in Addresses
        /\ \A x \in Addresses : g[x] = IF x = c THEN f[x] + 1 ELSE f[x]
    BY <1>2, <1>3
  <2>2. IsFiniteSet(Units(Addresses, f))
    BY TallyIs DEF TalliesFinite
  <2> HIDE DEF f, g, c
  <2>3. /\ IsFiniteSet(Units(Addresses, g))
        /\ Cardinality(Units(Addresses, g)) = Cardinality(Units(Addresses, f)) + 1
    BY <2>1, <2>2, OneMoreUnit
  <2> QED
    BY <2>3, TallyIs DEF f, g
<1>5. ASSUME NEW p \in Pools, p # pool
      PROVE  Tally(p)' = Tally(p)
  <2>1. agentSwapCount'[p] = agentSwapCount[p]
    BY <1>2, <1>5
  <2> QED
    BY <2>1, TallyIs
<1>6. TalliesFinite'
  BY <1>4, <1>5 DEF TalliesFinite
<1>7. ASSUME NEW p \in Pools
      PROVE  /\ beforeSwapCount'[p] = afterSwapCount'[p]
             /\ afterSwapCount'[p] = Cardinality(Tally(p)')
  <2>1. beforeSwapCount[p] = afterSwapCount[p] /\ afterSwapCount[p] = Cardinality(Tally(p))
    BY DEF CountsAgree
  <2>2. CASE p = pool
    BY <1>1, <1>2, <1>4, <2>1, <2>2
  <2>3. CASE p # pool
    BY <1>1, <1>2, <1>5, <2>1, <2>3
  <2> QED
    BY <2>2, <2>3
<1> QED
  BY <1>6, <1>7 DEF CountsAgree

(* As many swaps of a pool began as ended, and each is counted for one     *)
(* address (beforeSwap and afterSwap of both hooks).                       *)
THEOREM HooksCountAlike == Spec => []CountsAgree
<1>1. Init => CountsAgree /\ TalliesFinite
  <2> SUFFICES ASSUME Init, NEW pool \in Pools
               PROVE  /\ beforeSwapCount[pool] = afterSwapCount[pool]
                      /\ afterSwapCount[pool] = Cardinality(Tally(pool))
                      /\ IsFiniteSet(Tally(pool))
    BY DEF CountsAgree, TalliesFinite
  <2>1. /\ beforeSwapCount[pool] = PriorTotal(pool)
        /\ afterSwapCount[pool] = PriorTotal(pool)
        /\ \A x \in Addresses : agentSwapCount[pool][x] = Prior(pool, x)
    BY DEF Init, InitHooks
  <2>2. CASE Version(pool) = "V2"
    <3>1. \A x \in Addresses :
            agentSwapCount[pool][x] = IF x \in Accounts THEN PriorSwaps ELSE 0
      BY <2>1, <2>2 DEF Prior
    <3>2. Tally(pool) = Accounts \X (1 .. PriorSwaps)
      <4>1. ASSUME NEW u, u \in Tally(pool)
            PROVE  u \in Accounts \X (1 .. PriorSwaps)
        <5>3. PICK x \in Addresses : \E k \in 1 .. agentSwapCount[pool][x] : u = <<x, k>>
          BY <4>1, TallyIs, UnitsAre
        <5>1. PICK k \in 1 .. agentSwapCount[pool][x] : u = <<x, k>>
          BY <5>3
        <5>2. x \in Accounts /\ k \in 1 .. PriorSwaps
          BY <3>1, <5>1
        <5> QED
          BY <5>1, <5>2
      <4>2. ASSUME NEW x \in Accounts, NEW k \in 1 .. PriorSwaps
            PROVE  <<x, k>> \in Tally(pool)
        <5>1. x \in Addresses /\ k \in 1 .. agentSwapCount[pool][x]
          BY <3>1 DEF Addresses
        <5> QED
          BY <5>1, TallyIs, UnitsAre
      <4> QED
        BY <4>1, <4>2
    <3>3. IsFiniteSet(Accounts) /\ Cardinality(Accounts) \in Nat
      BY ExecutionAssumption, FS_CardinalityType
    <3>4. IsFiniteSet(1 .. PriorSwaps) /\ Cardinality(1 .. PriorSwaps) = PriorSwaps
      BY ExecutionAssumption, FS_Interval
    <3>5. /\ IsFiniteSet(Tally(pool))
          /\ Cardinality(Tally(pool)) = Cardinality(Accounts) * PriorSwaps
      BY <3>2, <3>3, <3>4, FS_Product
    <3>6. PriorTotal(pool) = Cardinality(Accounts) * PriorSwaps
      BY <2>2, <3>3, ExecutionAssumption DEF PriorTotal
    <3> QED
      BY <2>1, <3>5, <3>6
  <2>3. CASE Version(pool) # "V2"
    <3>1. \A x \in Addresses : agentSwapCount[pool][x] = 0
      BY <2>1, <2>3 DEF Prior
    <3>2. Tally(pool) = {}
      BY <3>1, TallyIs, UnitsAre
    <3> QED
      BY <2>1, <2>3, <3>2, FS_EmptySet DEF PriorTotal
  <2> QED
    BY <2>2, <2>3
<1>2. TypeOK /\ CountsAgree /\ TalliesFinite /\ [Next]_vars => CountsAgree' /\ TalliesFinite'
  <2> SUFFICES ASSUME TypeOK, CountsAgree, TalliesFinite, [Next]_vars
               PROVE  CountsAgree' /\ TalliesFinite'
    OBVIOUS
  <2>1. CASE UNCHANGED hookVars
    BY <2>1 DEF hookVars, CountsAgree, TalliesFinite, Tally
  <2>2. ASSUME NEW t \in mempool, NEW out \in Nat, MineFor(t, out)
        PROVE  CountsAgree' /\ TalliesFinite'
    <3>1. t \in Tx /\ SwapHooks(t.pool, Data(t))
      BY <2>2 DEF MineFor, TypeOK
    <3>2. t.pool \in Pools /\ Data(t) \in Agents \cup {NoData}
      BY <3>1, DataType
    <3> QED
      BY <3>1, <3>2, HooksAgree
  <2>3. ASSUME NEW pool \in Pools, SwapHooks(pool, NoData)
        PROVE  CountsAgree' /\ TalliesFinite'
    BY <2>3, HooksAgree
  <2> QED
    BY <2>1, <2>2, <2>3, HookSteps
<1> QED
  BY <1>1, <1>2, TypeCorrect, PTL DEF Spec

-----------------------------------------------------------------------------
(* What agents know of each other's slippage.                              *)

(* The alerts of p that a has handled.                                     *)
Heard(a, p) == {m \in rcvd[a] : m.kind = "MevAlert" /\ m.from = p}

HeardOfMessages ==
  /\ rcvd \in [Agents -> SUBSET msgs]
  /\ \A a \in Agents : IsFiniteSet(events[a])

(* The statistics of a peer count the alerts that were handled, and their  *)
(* slippages add up to no more than that many times its worst.             *)
StatsOfHeard(a, p) ==
  LET s == peerStats[a][p]
  IN  /\ IsFiniteSet(Heard(a, p))
      /\ s.alerts = Cardinality(Heard(a, p)) /\ s.sandwiches = s.alerts
      /\ s.alerts = 0 => s.slippage = 0
      /\ s.alerts > 0 => \E e \in Sandwiches(p) : s.slippage <= s.alerts * e.slippage

StatsInv == HeardOfMessages /\ \A a, p \in Agents : StatsOfHeard(a, p)

LEMMA StatsSteps ==
  ASSUME TypeOK, [Next]_vars
  PROVE  UNCHANGED <<rcvd, peerStats>> \/ \E a \in Agents : RecvMevAlert(a)
<1> USE DEF reportVars
<1>1. ASSUME NEW a \in Agents,
             \/ SetMode(a) \/ SetTolerance(a) \/ Swap(a) \/ CSwap(a) \/ Look(a)
             \/ ExecuteSimulated(a) \/ Measure(a) \/ Send(a) \/ Report(a)
             \/ SwapErrors(a) \/ Payment(a)
      PROVE  UNCHANGED <<rcvd, peerStats>>
  <2>1. \A v, bps : Defer(a, v, bps) => UNCHANGED <<rcvd, peerStats>>
    BY DEF Defer
  <2> QED
    BY <1>1, <2>1 DEF SetMode, SetTolerance, Swap, CSwap, Look, ExecuteSimulated, Measure,
       Send, Report, ReportAll, SwapErrors, Payment, vars
<1>2. ASSUME NEW a \in Archivers,
             Archive(a) \/ FlushEnds(a) \/ RecvIdentityAttestation(a)
      PROVE  UNCHANGED <<rcvd, peerStats>>
  BY <1>2 DEF Archive, FlushEnds, RecvIdentityAttestation
<1>3. ASSUME NEW t \in mempool, Mine(t) \/ MineReverted(t) \/ Drop(t)
      PROVE  UNCHANGED <<rcvd, peerStats>>
  <2>1. \A out : MineFor(t, out) => UNCHANGED <<rcvd, peerStats>>
    BY DEF MineFor
  <2> QED
    BY <1>3, <2>1 DEF Mine, MineReverted, Drop
<1>4. SidecarStep \/ OutsiderSwaps \/ UNCHANGED vars => UNCHANGED <<rcvd, peerStats>>
  BY DEF SidecarStep, OutsiderSwaps, vars
<1> QED
  BY <1>1, <1>2, <1>3, <1>4 DEF Next

(* Messages and events only grow, by one event at a time.                  *)
LEMMA ReportsGrow ==
  ASSUME TypeOK, HeardOfMessages, [Next]_vars
  PROVE  /\ msgs \subseteq msgs'
         /\ \A a \in Agents : /\ IsFiniteSet(events'[a])
                              /\ Sandwiches(a) \subseteq Sandwiches(a)'
<1>1. msgs \subseteq msgs'
  BY OnlyGrows DEF ExecuteSimulated, Report, ReportAll, Publish
<1>2. \A a \in Agents : Sandwiches(a) \subseteq Sandwiches(a)'
  BY OnlyGrows DEF Sandwiches
<1>3. \/ events' = events
      \/ \E a \in Agents : events' = [events EXCEPT ![a] = @ \cup {Outcome(a)}]
  <2>1. \A a \in Agents : \A v, bps : Defer(a, v, bps) => events' = events
    BY DEF Defer, reportVars
  <2>2. \A a \in Agents :
          ExecuteSimulated(a) \/ Measure(a) \/ Send(a) \/ SwapErrors(a) \/ Payment(a)
            => events' = events
    BY DEF ExecuteSimulated, Measure, Send, SwapErrors, Payment, reportVars
  <2>3. \A t, out : MineFor(t, out) \/ MineReverted(t) \/ Drop(t) => events' = events
    BY DEF MineFor, MineReverted, Drop, reportVars
  <2>4. \A a \in Agents : Report(a) => events' = [events EXCEPT ![a] = @ \cup {Outcome(a)}]
    BY DEF Report, ReportAll
  <2>5. UNCHANGED coreVars => events' = events
    BY DEF coreVars
  <2> QED
    BY <2>1, <2>2, <2>3, <2>4, <2>5, CoreSteps
<1>4. \A a \in Agents : IsFiniteSet(events'[a])
  <2>1. CASE events' = events
    BY <2>1 DEF HeardOfMessages
  <2>2. ASSUME NEW b \in Agents, events' = [events EXCEPT ![b] = @ \cup {Outcome(b)}]
        PROVE  \A a \in Agents : IsFiniteSet(events'[a])
    <3>1. IsFiniteSet(events[b] \cup {Outcome(b)})
      BY FS_AddElement DEF HeardOfMessages
    <3>2. \A a \in Agents : events'[a] = IF a = b THEN events[b] \cup {Outcome(b)}
                                         ELSE events[a]
      BY <2>2 DEF TypeOK
    <3> QED
      BY <3>1, <3>2 DEF HeardOfMessages
  <2> QED
    BY <1>3, <2>1, <2>2
<1> QED
  BY <1>1, <1>2, <1>4

LEMMA StatsStep ==
  ASSUME TypeOK, AlertsOfEvents, StatsInv, [Next]_vars
  PROVE  StatsInv'
<1>1. CASE UNCHANGED <<rcvd, peerStats>>
  <2>1. HeardOfMessages'
    BY <1>1, ReportsGrow DEF StatsInv, HeardOfMessages
  <2>2. ASSUME NEW a \in Agents, NEW p \in Agents PROVE StatsOfHeard(a, p)'
    <3>1. Heard(a, p)' = Heard(a, p) /\ peerStats'[a][p] = peerStats[a][p]
      BY <1>1 DEF Heard
    <3>2. Sandwiches(p) \subseteq Sandwiches(p)'
      BY ReportsGrow DEF StatsInv
    <3> QED
      BY <3>1, <3>2 DEF StatsInv, StatsOfHeard
  <2> QED
    BY <2>1, <2>2 DEF StatsInv
<1>2. ASSUME NEW a \in Agents, RecvMevAlert(a) PROVE StatsInv'
  <2>1. PICK m \in Deliverable(a, "MevAlert") :
          /\ rcvd' = [rcvd EXCEPT ![a] = rcvd[a] \cup {m}]
          /\ peerStats' = [peerStats EXCEPT
               ![a][m.from] = RecordPeerAlert(@, m.slippage, m.sandwich)]
    BY <1>2 DEF RecvMevAlert, Handled
  <2>2. /\ m \in msgs /\ m \notin rcvd[a] /\ m.kind = "MevAlert"
        /\ m.from \in Agents /\ m.slippage \in Nat
        /\ msgs' = msgs /\ events' = events
    BY <1>2 DEF Deliverable, RecvMevAlert, TypeOK, ExecutedMsg, AlertMsg
  <2>3. HeardOfMessages'
    <3>1. rcvd[a] \cup {m} \in SUBSET msgs
      BY <2>2 DEF StatsInv, HeardOfMessages
    <3>2. rcvd' \in [Agents -> SUBSET msgs]
      BY <2>1, <3>1 DEF StatsInv, HeardOfMessages
    <3> QED
      BY <2>2, <3>2 DEF StatsInv, HeardOfMessages
  <2> DEFINE p == m.from
             old == peerStats[a][p]
             new == RecordPeerAlert(old, m.slippage, m.sandwich)
             row == [peerStats[a] EXCEPT ![p] = new]
  <2>4. PICK e \in Sandwiches(p) : m.sandwich = TRUE /\ m.slippage = e.slippage
    BY <2>2 DEF AlertsOfEvents, Sandwiches, Alert
  <2>5. old \in PeerMevStats /\ peerStats[a] \in [Agents -> PeerMevStats]
    BY <2>2 DEF TypeOK
  <2>6. /\ new.alerts = old.alerts + 1 /\ new.sandwiches = old.sandwiches + 1
        /\ new.slippage = old.slippage + m.slippage
    BY <2>4 DEF RecordPeerAlert
  <2> HIDE DEF new
  <2>7. /\ row[p] = new /\ \A q \in Agents \ {p} : row[q] = peerStats[a][q]
    BY <2>2, <2>5
  <2>8. peerStats' = [peerStats EXCEPT ![a] = row]
    BY <2>1 DEF new
  <2> HIDE DEF row
  <2>9. /\ peerStats'[a][p] = new
        /\ \A b, q \in Agents : b # a \/ q # p => peerStats'[b][q] = peerStats[b][q]
    BY <2>7, <2>8 DEF TypeOK
  <2>10. /\ Heard(a, p)' = Heard(a, p) \cup {m} /\ m \notin Heard(a, p)
         /\ \A b, q \in Agents : b # a \/ q # p => Heard(b, q)' = Heard(b, q)
    <3>1. /\ rcvd'[a] = rcvd[a] \cup {m}
          /\ \A b \in Agents : b # a => rcvd'[b] = rcvd[b]
      BY <2>1 DEF StatsInv, HeardOfMessages
    <3>2. /\ Heard(a, p)' = Heard(a, p) \cup {m} /\ m \notin Heard(a, p)
      BY <2>2, <3>1 DEF Heard
    <3>3. \A q \in Agents : q # p => Heard(a, q)' = Heard(a, q)
      BY <2>2, <3>1 DEF Heard
    <3>4. \A b, q \in Agents : b # a => Heard(b, q)' = Heard(b, q)
      BY <3>1 DEF Heard
    <3> QED
      BY <3>2, <3>3, <3>4
  <2>11. \A q \in Agents : Sandwiches(q)' = Sandwiches(q)
    BY <2>2 DEF Sandwiches
  <2>12. ASSUME NEW b \in Agents, NEW q \in Agents, b # a \/ q # p
         PROVE  StatsOfHeard(b, q)'
    BY <2>9, <2>10, <2>11, <2>12 DEF StatsInv, StatsOfHeard
  <2>13. StatsOfHeard(a, p)'
    <3>1. /\ IsFiniteSet(Heard(a, p)) /\ old.alerts = Cardinality(Heard(a, p))
          /\ old.sandwiches = old.alerts
          /\ old.alerts = 0 => old.slippage = 0
          /\ old.alerts > 0 =>
               \E x \in Sandwiches(p) : old.slippage <= old.alerts * x.slippage
      BY <2>2 DEF StatsInv, StatsOfHeard
    <3>2. /\ IsFiniteSet(Heard(a, p)') /\ Cardinality(Heard(a, p)') = old.alerts + 1
      <4>1. IsFiniteSet(Heard(a, p) \cup {m})
        BY <3>1, FS_AddElement
      <4>2. Cardinality(Heard(a, p) \cup {m}) = Cardinality(Heard(a, p)) + 1
        BY <2>10, <3>1, FS_AddElement
      <4> QED
        BY <2>10, <3>1, <4>1, <4>2
    <3>3. old.alerts \in Nat /\ old.slippage \in Nat
      BY <2>5 DEF PeerMevStats
    <3>4. \A x \in Sandwiches(p) : x.slippage \in Nat
      BY <2>2 DEF Sandwiches, TypeOK, MevEvent
    <3>5. \E x \in Sandwiches(p) : new.slippage <= new.alerts * x.slippage
      <4>1. CASE old.alerts = 0
        <5>1. new.slippage = e.slippage /\ new.alerts * e.slippage = e.slippage
          BY <2>4, <2>6, <3>1, <3>4, <4>1
        <5> QED
          BY <3>4, <5>1
      <4>2. CASE old.alerts > 0
        <5>1. PICK x \in Sandwiches(p) : old.slippage <= old.alerts * x.slippage
          BY <3>1, <4>2
        <5>2. ASSUME NEW k \in Nat, NEW l \in Nat, NEW n \in Nat, NEW s \in Nat,
                     s <= n * l, l <= k
              PROVE  s + l <= (n + 1) * k /\ s + k <= (n + 1) * k
          <6>1. n * l \in Nat /\ n * k \in Nat /\ (n + 1) * k = n * k + k
            OBVIOUS
          <6>2. n * l <= n * k
            BY <5>2
          <6> QED
            BY <5>2, <6>1, <6>2
        <5>3. CASE x.slippage <= e.slippage
          BY <2>4, <2>6, <3>3, <3>4, <5>1, <5>2, <5>3
        <5>4. CASE e.slippage <= x.slippage
          <6>1. old.slippage + x.slippage <= (old.alerts + 1) * x.slippage
            BY <3>3, <3>4, <5>1, <5>2
          <6>2. (old.alerts + 1) * x.slippage \in Nat
            BY <3>3, <3>4
          <6>3. old.slippage + e.slippage <= (old.alerts + 1) * x.slippage
            BY <3>3, <3>4, <5>4, <6>1, <6>2
          <6> QED
            BY <2>4, <2>6, <6>3
        <5> QED
          BY <3>4, <5>3, <5>4
      <4> QED
        BY <3>3, <4>1, <4>2
    <3>6. new.alerts # 0
      BY <2>6, <3>3
    <3>7. peerStats'[a][p].alerts = Cardinality(Heard(a, p)')
          /\ peerStats'[a][p].sandwiches = peerStats'[a][p].alerts
          /\ peerStats'[a][p].alerts # 0
      BY <2>6, <2>9, <3>1, <3>2, <3>6
    <3>8. \E x \in Sandwiches(p)' :
            peerStats'[a][p].slippage <= peerStats'[a][p].alerts * x.slippage
      <4>1. PICK x \in Sandwiches(p) : new.slippage <= new.alerts * x.slippage
        BY <3>5
      <4>2. peerStats'[a][p].slippage <= peerStats'[a][p].alerts * x.slippage
        BY <2>9, <4>1
      <4>3. x \in Sandwiches(p)'
        BY <2>2, <2>11
      <4> QED
        BY <4>2, <4>3
    <3> QED
      BY <3>2, <3>7, <3>8 DEF StatsOfHeard
  <2> QED
    BY <2>3, <2>12, <2>13 DEF StatsInv
<1> QED
  BY <1>1, <1>2, StatsSteps

(* What an agent knows of a peer's slippage, it has from the peer: no more *)
(* sandwiches than the peer's own MevStore holds, and no worse average     *)
(* than its worst swap (mev.rs, record_peer_alert).                        *)
THEOREM AlertsAreHonest == Spec => []AlertsHonest
<1>1. Init => StatsInv
  <2> SUFFICES ASSUME Init PROVE StatsInv
    OBVIOUS
  <2>1. HeardOfMessages
    BY FS_EmptySet DEF Init, HeardOfMessages
  <2>2. \A a, p \in Agents : Heard(a, p) = {} /\ peerStats[a][p] = NoPeerMevStats
    BY DEF Init, Heard
  <2> QED
    BY <2>1, <2>2, FS_EmptySet DEF StatsInv, StatsOfHeard, NoPeerMevStats
<1>2. TypeOK /\ AlertsOfEvents /\ StatsInv /\ [Next]_vars => StatsInv'
  BY StatsStep
<1>3. TypeOK /\ AlertsOfEvents /\ StatsInv => AlertsHonest
  <2> SUFFICES ASSUME TypeOK, AlertsOfEvents, StatsInv, NEW a \in Agents, NEW p \in Agents
               PROVE  LET stats == peerStats[a][p]
                      IN  /\ stats.alerts = stats.sandwiches
                          /\ stats.alerts <= Cardinality(Sandwiches(p))
                          /\ stats.alerts > 0 =>
                               \E e \in Sandwiches(p) : AvgSlippageBps(stats) <= e.slippage
    BY DEF AlertsHonest
  <2> DEFINE s == peerStats[a][p]
             told == {Alert(e, p) : e \in Sandwiches(p)}
  <2>1. /\ IsFiniteSet(Heard(a, p)) /\ s.alerts = Cardinality(Heard(a, p))
        /\ s.sandwiches = s.alerts
        /\ s.alerts > 0 => \E e \in Sandwiches(p) : s.slippage <= s.alerts * e.slippage
    BY DEF StatsInv, StatsOfHeard
  <2>2. s.alerts \in Nat /\ s.slippage \in Nat
    BY DEF TypeOK, PeerMevStats
  <2>3. Heard(a, p) \subseteq told
    <3> SUFFICES ASSUME NEW m \in Heard(a, p) PROVE m \in told
      OBVIOUS
    <3>1. m \in msgs /\ m.kind = "MevAlert" /\ m.from = p
      BY DEF Heard, StatsInv, HeardOfMessages
    <3> QED
      BY <3>1 DEF AlertsOfEvents, Sandwiches
  <2>4. IsFiniteSet(Sandwiches(p))
    <3>1. Sandwiches(p) \subseteq events[p] /\ IsFiniteSet(events[p])
      BY DEF Sandwiches, StatsInv, HeardOfMessages
    <3> QED
      BY <3>1, FS_Subset
  <2>5. IsFiniteSet(told) /\ Cardinality(told) <= Cardinality(Sandwiches(p))
    <3> DEFINE f == [e \in Sandwiches(p) |-> Alert(e, p)]
    <3>1. f \in Surjection(Sandwiches(p), told)
      BY DEF Surjection
    <3> QED
      BY <2>4, <3>1, FS_Surjection
  <2>6. Cardinality(Heard(a, p)) <= Cardinality(told)
    BY <2>3, <2>5, FS_Subset
  <2>7. s.alerts <= Cardinality(Sandwiches(p))
    <3>1. Cardinality(told) \in Nat /\ Cardinality(Sandwiches(p)) \in Nat
      BY <2>4, <2>5, FS_CardinalityType
    <3> QED
      BY <2>1, <2>2, <2>5, <2>6, <3>1
  <2>8. ASSUME s.alerts > 0
        PROVE  \E e \in Sandwiches(p) : AvgSlippageBps(s) <= e.slippage
    <3>1. PICK e \in Sandwiches(p) : s.slippage <= s.alerts * e.slippage
      BY <2>1, <2>8
    <3>2. e.slippage \in Nat
      BY DEF Sandwiches, TypeOK, MevEvent
    <3>3. ASSUME NEW n \in Nat, NEW k \in Nat, NEW y \in Nat, n > 0, y <= n * k
          PROVE  y \div n <= k
      <4>1. n * (k + 1) = n * k + n /\ n * k \in Nat
        OBVIOUS
      <4>2. y < n * (k + 1)
        BY <3>3, <4>1
      <4> QED
        BY <3>3, <4>2, QuotientAtMost
    <3>4. AvgSlippageBps(s) = s.slippage \div s.alerts
      BY <2>2, <2>8 DEF AvgSlippageBps
    <3> HIDE DEF s
    <3>5. s.slippage \div s.alerts <= e.slippage
      BY <2>2, <2>8, <3>1, <3>2, <3>3
    <3> QED
      BY <3>4, <3>5
  <2> QED
    BY <2>1, <2>7, <2>8
<1> QED
  BY <1>1, <1>2, <1>3, TypeCorrect, AlertsHold, PTL DEF Spec
-----------------------------------------------------------------------------
(* The refinement of Settlement.                                           *)

WithChain == {SwapOf(t) : t \in mempool}
OnChain   == {SwapOf(t) : t \in mined}
Announcements == {m \in msgs : m.kind = "SwapExecuted" /\ ~m.hash.sim}
ToldOf    == {SwapOf(m.hash) : m \in Announcements}

(* The steps that neither number a swap, nor decide one, nor tell of one.  *)
LEMMA QuietStep ==
  ASSUME UNCHANGED <<sent, mempool, mined, msgs>>
  PROVE  UNCHANGED Settles!vars
BY DEF Settles!vars, WithChain, OnChain, ToldOf, Announcements

(* A simulated swap is announced as such.                                  *)
LEMMA SimulationMaps ==
  ASSUME NEW a \in Agents, ExecuteSimulated(a)
  PROVE  Settles!Simulate(a)
<1>1. PICK s : Publish({Executed(a, SimHash(a, s))})
  BY DEF ExecuteSimulated
<1>2. \A m \in msgs' \ msgs : m.hash.sim
  BY <1>1 DEF Publish, Executed, SimHash
<1>3. msgs \subseteq msgs'
  BY <1>1 DEF Publish
<1>4. Announcements' = Announcements
  BY <1>2, <1>3 DEF Announcements
<1>5. ToldOf' = ToldOf
  BY <1>4 DEF ToldOf
<1>6. /\ sent' = [sent EXCEPT ![a] = @ + 1]
      /\ mempool' = mempool /\ mined' = mined
  BY DEF ExecuteSimulated, chainVars
<1> QED
  BY <1>5, <1>6 DEF Settles!Simulate, WithChain, OnChain, ToldOf, Announcements

(* Nothing of the agent is with the chain when it sends a swap.            *)
LEMMA SendMaps ==
  ASSUME TypeOK, SentInOrder, NEW a \in Agents, Send(a)
  PROVE  Settles!Send(a)
<1> DEFINE tx == [by |-> a, n |-> sent[a] + 1, pool |-> Pool(a), tol |-> swap[a].tol]
<1>1. /\ In(a, "measured") /\ mempool' = mempool \cup {tx}
      /\ sent' = [sent EXCEPT ![a] = @ + 1] /\ mined' = mined /\ msgs' = msgs
  BY DEF Send, reportVars
<1>2. \A t \in mempool : t.by # a
  BY <1>1 DEF SentInOrder
<1>3. {s \in WithChain : s[1] = a} = {}
  BY <1>2 DEF WithChain, SwapOf
<1>4. sent'[a] = sent[a] + 1
  BY <1>1 DEF TypeOK
<1>5. SwapOf(tx) = <<a, sent'[a]>>
  BY <1>4 DEF SwapOf
<1> HIDE DEF tx
<1>6. WithChain' = WithChain \cup {<<a, sent'[a]>>}
  BY <1>1, <1>5 DEF WithChain
<1>7. OnChain' = OnChain /\ ToldOf' = ToldOf
  BY <1>1 DEF OnChain, ToldOf, Announcements
<1> QED
  BY <1>1, <1>3, <1>6, <1>7
     DEF Settles!Send, Settles!Outstanding, Settles!Latest, WithChain, OnChain, ToldOf,
         Announcements

(* What is announced is the latest swap, which the receipt says is mined.  *)
LEMMA ReportMaps ==
  ASSUME NEW a \in Agents, Report(a)
  PROVE  Settles!Announce(a) \/ UNCHANGED Settles!vars
<1> DEFINE told == Executed(a, TxHash(a, sent[a]))
           ms   == IF Outcome(a).sandwich THEN {Alert(Outcome(a), a)} ELSE {}
<1>1. /\ msgs' = msgs \cup {m \in {told} \cup ms : m.kind \in Carried}
      /\ \A m \in ms : m.kind = "MevAlert"
  <2>1. \A m \in ms : m.kind = "MevAlert"
    BY DEF Alert
  <2>2. msgs' = msgs \cup {m \in {told} \cup ms : m.kind \in Carried}
    BY DEF Report, ReportAll, Publish
  <2> QED
    BY <2>1, <2>2
<1>2. /\ sent' = sent /\ mempool' = mempool /\ mined' = mined
  BY DEF Report, ReportAll, chainVars
<1>3. <<a, sent[a]>> \in OnChain
  <2>1. PICK t \in mined : t.by = a /\ t.n = sent[a]
    BY DEF Report, Receipts
  <2> QED
    BY <2>1 DEF OnChain, SwapOf
<1>4. /\ told.kind = "SwapExecuted" /\ ~told.hash.sim
      /\ SwapOf(told.hash) = <<a, sent[a]>>
  BY DEF Executed, TxHash, SwapOf
<1> HIDE DEF told, ms
<1>5. Announcements' = Announcements \/ Announcements' = Announcements \cup {told}
  BY <1>1, <1>4 DEF Announcements
<1>6. CASE Announcements' = Announcements
  <2>1. ToldOf' = ToldOf
    BY <1>6 DEF ToldOf
  <2> QED
    BY <1>2, <2>1 DEF Settles!vars, WithChain, OnChain, ToldOf, Announcements
<1>7. CASE Announcements' = Announcements \cup {told}
  <2>1. ToldOf' = ToldOf \cup {<<a, sent[a]>>}
    BY <1>4, <1>7 DEF ToldOf
  <2> QED
    BY <1>2, <1>3, <2>1
       DEF Settles!Announce, Settles!Latest, WithChain, OnChain, ToldOf, Announcements
<1> QED
  BY <1>5, <1>6, <1>7

(* The chain decides one swap, and the agent had no other with it.         *)
LEMMA ChainMaps ==
  ASSUME SentInOrder, NEW t \in mempool,
         (\E out \in Nat : MineFor(t, out)) \/ MineReverted(t) \/ Drop(t)
  PROVE  Settles!Settle(SwapOf(t)) \/ Settles!Forget(SwapOf(t))
<1>1. mempool' = mempool \ {t} /\ sent' = sent /\ msgs' = msgs
  BY DEF MineFor, MineReverted, Drop, reportVars
<1>2. WithChain' = WithChain \ {SwapOf(t)}
  <2>1. \A u \in mempool : SwapOf(u) = SwapOf(t) => u = t
    BY DEF SentInOrder, SwapOf
  <2> QED
    BY <1>1, <2>1 DEF WithChain
<1>3. ToldOf' = ToldOf
  BY <1>1 DEF ToldOf, Announcements
<1>4. ASSUME NEW out \in Nat, MineFor(t, out)
      PROVE  \E m : mined' = mined \cup {m} /\ SwapOf(m) = SwapOf(t)
  <2>1. mined' = mined \cup {MinedAs(t, TRUE, out, FeeOf(t))}
    BY <1>4 DEF MineFor
  <2>2. SwapOf(MinedAs(t, TRUE, out, FeeOf(t))) = SwapOf(t)
    BY DEF MinedAs, SwapOf
  <2> QED
    BY <2>1, <2>2
<1>5. ASSUME MineReverted(t)
      PROVE  \E m : mined' = mined \cup {m} /\ SwapOf(m) = SwapOf(t)
  <2>1. mined' = mined \cup {MinedAs(t, FALSE, 0, 0)}
    BY <1>5 DEF MineReverted
  <2>2. SwapOf(MinedAs(t, FALSE, 0, 0)) = SwapOf(t)
    BY DEF MinedAs, SwapOf
  <2> QED
    BY <2>1, <2>2
<1>6. ASSUME NEW m, mined' = mined \cup {m}, SwapOf(m) = SwapOf(t)
      PROVE  Settles!Settle(SwapOf(t))
  <2>1. OnChain' = OnChain \cup {SwapOf(t)}
    BY <1>6 DEF OnChain
  <2> QED
    BY <1>1, <1>2, <1>3, <2>1
       DEF Settles!Settle, WithChain, OnChain, ToldOf, Announcements
<1>7. ASSUME Drop(t)
      PROVE  Settles!Forget(SwapOf(t))
  <2>1. mined' = mined
    BY <1>7 DEF Drop
  <2> QED
    BY <1>1, <1>2, <1>3, <2>1
       DEF Settles!Forget, WithChain, OnChain, ToldOf, Announcements
<1> QED
  BY <1>4, <1>5, <1>6, <1>7

LEMMA StepSettles ==
  ASSUME TypeOK, SentInOrder, [Next]_vars
  PROVE  [Settles!Next]_(Settles!vars)
<1>1. ASSUME NEW a \in Agents, ExecuteSimulated(a) \/ Send(a) \/ Report(a)
      PROVE  [Settles!Next]_(Settles!vars)
  BY <1>1, SimulationMaps, SendMaps, ReportMaps DEF Settles!Next
<1>2. ASSUME NEW t \in mempool,
             (\E out \in Nat : MineFor(t, out)) \/ MineReverted(t) \/ Drop(t)
      PROVE  [Settles!Next]_(Settles!vars)
  <2>1. SwapOf(t) \in WithChain
    BY DEF WithChain
  <2>2. Settles!Settle(SwapOf(t)) \/ Settles!Forget(SwapOf(t))
    BY <1>2, ChainMaps
  <2> QED
    BY <2>1, <2>2 DEF Settles!Next, WithChain
<1>3. ASSUME NEW a \in Agents,
             Measure(a) \/ SwapErrors(a) \/ Payment(a) \/ \E v, bps : Defer(a, v, bps)
      PROVE  UNCHANGED <<sent, mempool, mined, msgs>>
  BY <1>3 DEF Measure, SwapErrors, Payment, Defer, chainVars, reportVars
<1>4. CASE UNCHANGED coreVars /\ msgs' = msgs
  BY <1>4, QuietStep DEF coreVars
<1>5. msgs' = msgs \/ \E a \in Agents : ExecuteSimulated(a) \/ Report(a)
  BY OnlyGrows
<1> QED
  BY <1>1, <1>2, <1>3, <1>4, <1>5, CoreSteps, QuietStep

(* The safety of Settlement: whatever awaits end in errors and whatever    *)
(* the chain forgets, an agent has one swap with the chain at a time, none *)
(* comes back once it was decided, and only the latest is announced, when  *)
(* it is mined (execute_swap and execute_pending_swap).                    *)
THEOREM SettlementImplemented == Spec => SettlesSwaps
<1>1. Init => Settles!Init
  BY DEF Init, Settles!Init
<1>2. TypeOK /\ SwapInv /\ [Next]_vars => [Settles!Next]_(Settles!vars)
  BY StepSettles DEF SwapInv
<1> QED
  BY <1>1, <1>2, TypeCorrect, SwapInvHolds, PTL DEF Spec, SettlesSwaps, Settles!Spec

-----------------------------------------------------------------------------
(* "real swaps against a local Anvil node" (sim.rs) is true of agents that *)
(* were started in Local mode: it takes the sim command, which leaves the  *)
(* end point as it is, for one to swap elsewhere.                          *)
LocalFromStart == \A a \in Agents : mode[a] = "Local" => endpoint[a] = "anvil"

LocalSwapsOnAnvil ==
  \A a \in Agents :
    mode[a] = "Local" /\ Measuring(a) => endpoint[a] = "anvil"

LEMMA EndpointKept ==
  ASSUME [Next]_vars
  PROVE  /\ endpoint' = endpoint
         /\ mode' = mode \/ \E a \in Agents : SetMode(a)
<1> USE DEF configVars
<1>1. ASSUME NEW a \in Agents,
             SetMode(a) \/ SetTolerance(a) \/ Swap(a) \/ CSwap(a) \/ Look(a)
      PROVE  endpoint' = endpoint /\ (mode' = mode \/ SetMode(a))
  BY <1>1 DEF SetMode, SetTolerance, Swap, CSwap, Defer, Look, vars
<1>2. ASSUME NEW a \in Agents,
             \/ ExecuteSimulated(a) \/ Measure(a) \/ Send(a) \/ Report(a)
             \/ SwapErrors(a) \/ Payment(a) \/ RecvMevAlert(a)
      PROVE  endpoint' = endpoint /\ mode' = mode
  BY <1>2 DEF ExecuteSimulated, Measure, Send, Report, ReportAll, SwapErrors, Payment,
              RecvMevAlert
<1>3. ASSUME NEW a \in Archivers,
             Archive(a) \/ FlushEnds(a) \/ RecvIdentityAttestation(a)
      PROVE  endpoint' = endpoint /\ mode' = mode
  BY <1>3 DEF Archive, FlushEnds, RecvIdentityAttestation
<1>4. ASSUME NEW t \in mempool, Mine(t) \/ MineReverted(t) \/ Drop(t)
      PROVE  endpoint' = endpoint /\ mode' = mode
  BY <1>4 DEF Mine, MineFor, MineReverted, Drop
<1>5. SidecarStep \/ OutsiderSwaps \/ UNCHANGED vars => endpoint' = endpoint /\ mode' = mode
  BY DEF SidecarStep, OutsiderSwaps, vars
<1> QED
  BY <1>1, <1>2, <1>3, <1>4, <1>5 DEF Next

(* No swap of an agent in Local mode leaves Anvil unless sim may set it.   *)
THEOREM LocalStaysOnAnvil ==
  ASSUME "Local" \notin Modes
  PROVE  Spec => []LocalSwapsOnAnvil
<1>1. Init => LocalFromStart
  BY DEF Init, LocalFromStart, EndpointsOf
<1>2. TypeOK /\ LocalFromStart /\ [Next]_vars => LocalFromStart'
  <2> SUFFICES ASSUME TypeOK, LocalFromStart, [Next]_vars,
                      NEW a \in Agents, mode'[a] = "Local"
               PROVE  endpoint'[a] = "anvil"
    BY DEF LocalFromStart
  <2>1. endpoint' = endpoint
    BY EndpointKept
  <2>2. CASE mode' = mode
    BY <2>1, <2>2 DEF LocalFromStart
  <2>3. ASSUME NEW b \in Agents, SetMode(b) PROVE mode'[a] = mode[a]
    BY <2>3 DEF SetMode, TypeOK
  <2> QED
    BY <2>1, <2>2, <2>3, EndpointKept DEF LocalFromStart
<1>3. LocalFromStart => LocalSwapsOnAnvil
  BY DEF LocalFromStart, LocalSwapsOnAnvil
<1> QED
  BY <1>1, <1>2, <1>3, TypeCorrect, PTL DEF Spec
===============================================================================
