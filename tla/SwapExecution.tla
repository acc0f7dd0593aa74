----------------------------- MODULE SwapExecution -----------------------------
(***************************************************************************)
(* How an agent's deferred swap is executed (agent/src/uniswap.rs, sim.rs, *)
(* and execute_pending_swap of main.rs): approve, read the balance of the  *)
(* output token, send the swap, await its receipt, read the balance again, *)
(* report the difference to peers, to the MevStore and to the archive.     *)
(* Each await lets the chain move; errors can end the swap at each.        *)
(*                                                                         *)
(* Composes Mev, AgentCounters and Archival over the network of Gossip.    *)
(* What execution does to proposals and reputation is in Coordination.     *)
(***************************************************************************)
EXTENDS Integers, Sequences, FiniteSets, Gossip, Mev, AgentCounters, Archival

CONSTANTS
  Homes,        \* modes an agent may be started in
  Modes,        \* modes its operator may set
  Tolerances,   \* arguments of mev-config
  Amount,       \* what a swap takes
  Impacts,      \* what the trades of others cost it, in basis points
  Payments,     \* what may come to an account from elsewhere, or leave it
  Versions,     \* pools the agents swap in
  MaxSwaps,     \* bound: MaxSwaps[a] swaps executed by a
  MaxOutside,   \* bound: swaps of others
  MaxPayments,  \* bound: payments to or from an agent during one swap
  MaxEntries,   \* bound: log entries after which no attestation comes
  MaxFlushes,   \* bound: flushes of an agent
  NoSwap

VARIABLES
  mode,      \* mode[a]: a's SimulationMode
  endpoint,  \* endpoint[a]: the chain behind the URL of a's SwapClient
  tolerance, \* tolerance[a]: a's MevConfig
  swap,      \* swap[a]: the PendingSwap, and how far its execution got
  sent,      \* sent[a]: swaps a sent to the chain or simulated
  second,    \* second[a]: seconds with a simulated swap of a
  mempool,   \* transactions sent and not mined
  mined,     \* transactions mined, reverted ones included
  gained,    \* gained[a]: growth of a's output balance since it was read
  stray,     \* history: the part of gained[a] that came from elsewhere
  strays,    \* history: how many payments that was
  outside,   \* how many swaps others made
  events,    \* events[a]: the MevEvents of a's MevStore
  peerStats  \* peerStats[a][p]: what p's alerts told a

configVars == <<mode, endpoint, tolerance>>
chainVars  == <<mempool, mined, outside, hookVars>>
meterVars  == <<gained, stray, strays>>
reportVars == <<events, peerStats, msgs, rcvd>>
vars == <<swap, sent, second, configVars, chainVars, meterVars, reportVars,
          archiveVars>>

-----------------------------------------------------------------------------
PendingSwap ==
  [version : Versions, tol : Nat, phase : {"window", "measured", "sent"}]

Tx == [by : Agents, n : Nat, pool : Pools, tol : Nat]
MinedTx ==
  [by : Agents, n : Nat, pool : Pools, tol : Nat, ok : BOOLEAN, out : Nat, fee : Nat]

(* Transactions have a hash of their own, simulated swaps the hash of      *)
(* their second.                                                           *)
TxHash(a, n)  == [sim |-> FALSE, by |-> a, n |-> n]
SimHash(a, s) == [sim |-> TRUE, by |-> a, n |-> s]
Hash == [sim : BOOLEAN, by : Agents, n : Nat]

MevEvent == [n : Nat, tol : Nat, actual : Nat, slippage : Nat,
             sandwich : BOOLEAN, stray : Int]

Executed(a, hash) == [kind |-> "SwapExecuted", from |-> a, hash |-> hash]
Alert(e, a) == [kind |-> "MevAlert", from |-> a, n |-> e.n,
                slippage |-> e.slippage, sandwich |-> e.sandwich]
ExecutedMsg == [kind : {"SwapExecuted"}, from : Agents, hash : Hash]
AlertMsg    == [kind : {"MevAlert"}, from : Agents, n : Nat,
                slippage : Nat, sandwich : BOOLEAN]

SwapEntry(hash)    == [is |-> "SwapExecuted", hash |-> hash]
AttestedEntry(p)   == [is |-> "IdentityAttestation", peer |-> p]

(* The RPC URL depends on the mode at the start; in simulation it is what  *)
(* the environment says, or the local node.                                *)
EndpointsOf(home) ==
  CASE home = "Local"    -> {"anvil"}
    [] home = "Live"     -> {"sepolia"}
    [] home = "Simulate" -> {"anvil", "sepolia"}

ASSUME ExecutionAssumption ==
  /\ IsFiniteSet(Agents) /\ Accounts = Agents /\ Archivers \subseteq Agents
  /\ Agents \cap {Router, NoData} = {}
  /\ Homes \subseteq {"Live", "Simulate", "Local"}
  /\ Modes \subseteq {"Live", "Simulate", "Local"}
  /\ Chains = {"anvil", "sepolia"}
  /\ Tolerances \subseteq Nat /\ Impacts \subseteq Nat /\ Payments \subseteq Int
  /\ Versions \subseteq {"V1", "V2"}
  /\ Amount \in Nat /\ PriorSwaps \in Nat
  /\ MaxSwaps \in [Agents -> Nat]
  /\ NoSwap \notin PendingSwap

Init ==
  /\ mode \in [Agents -> Homes]
  /\ endpoint \in [Agents -> Chains]
  /\ \A a \in Agents : endpoint[a] \in EndpointsOf(mode[a])
  /\ tolerance = [a \in Agents |-> DEFAULT_MAX_SLIPPAGE_BPS]
  /\ swap      = [a \in Agents |-> NoSwap]
  /\ sent      = [a \in Agents |-> 0]
  /\ second    = [a \in Agents |-> 0]
  /\ mempool = {} /\ mined = {} /\ outside = 0
  /\ gained    = [a \in Agents |-> 0]
  /\ stray     = [a \in Agents |-> 0]
  /\ strays    = [a \in Agents |-> 0]
  /\ events    = [a \in Agents |-> {}]
  /\ peerStats = [a \in Agents |-> [p \in Agents |-> NoPeerMevStats]]
  /\ msgs = {} /\ rcvd = [a \in Agents |-> {}]
  /\ InitHooks
  /\ InitArchive

-----------------------------------------------------------------------------
(* The loop takes commands when neither a swap nor a flush is awaited, and *)
(* handles gossip then and in the window before a swap is executed.        *)
Idle(a)      == swap[a] = NoSwap /\ ~Flushing(a)
In(a, phase) == swap[a] # NoSwap /\ swap[a].phase = phase
Polling(a)   == Idle(a) \/ In(a, "window")

(* sim and mev-config, before a swap.                                      *)
SetMode(a) ==
  /\ Idle(a) /\ sent[a] < MaxSwaps[a]
  /\ mode' \in {[mode EXCEPT ![a] = m] : m \in Modes}
  /\ UNCHANGED <<swap, sent, second, endpoint, tolerance>>
  /\ UNCHANGED <<chainVars, meterVars, reportVars, archiveVars>>

SetTolerance(a) ==
  /\ Idle(a) /\ sent[a] < MaxSwaps[a]
  /\ tolerance' \in {[tolerance EXCEPT ![a] = bps] : bps \in Tolerances}
  /\ UNCHANGED <<swap, sent, second, mode, endpoint>>
  /\ UNCHANGED <<chainVars, meterVars, reportVars, archiveVars>>

(* The command leaves a PendingSwap, which holds the tolerance of now.     *)
Defer(a, version, bps) ==
  /\ Idle(a)
  /\ sent[a] < MaxSwaps[a]
  /\ swap' = [swap EXCEPT ![a] =
                [version |-> version, tol |-> bps, phase |-> "window"]]
  /\ UNCHANGED <<sent, second, configVars>>
  /\ UNCHANGED <<chainVars, meterVars, reportVars, archiveVars>>

(* swap, swap-v2; accept and accept-quote swap in the V1 pool likewise.    *)
Swap(a) == \E v \in Versions : Defer(a, v, tolerance[a])

(* cswap --slippage overrides the configured tolerance.                    *)
CSwap(a) == "V1" \in Versions /\ \E bps \in Tolerances : Defer(a, "V1", bps)

(* status, status-v2, mev, log-status and retrieve only look.              *)
Look(a) == Idle(a) /\ UNCHANGED vars

(* archive.                                                                *)
Archive(a) ==
  /\ Idle(a)
  /\ Cardinality(archived[a]) + Cardinality(failed[a]) < MaxFlushes
  /\ \E reached \in BOOLEAN : Flush(a, reached)
  /\ UNCHANGED <<swap, sent, second, configVars>>
  /\ UNCHANGED <<chainVars, meterVars, reportVars>>

FlushEnds(a) ==
  /\ FlushSucceeds(a) \/ FlushFails(a)
  /\ UNCHANGED <<swap, sent, second, configVars>>
  /\ UNCHANGED <<chainVars, meterVars, reportVars>>

SidecarStep ==
  /\ UploadEnds
  /\ UNCHANGED <<swap, sent, second, configVars>>
  /\ UNCHANGED <<chainVars, meterVars, reportVars>>

-----------------------------------------------------------------------------
(* Execution.                                                              *)

(* A simulated swap: announced and logged, and nothing else.  The flush    *)
(* window is half a second, so the second may be that of the last one.     *)
ExecuteSimulated(a) ==
  /\ In(a, "window") /\ mode[a] = "Simulate"
  /\ \E s \in {second[a], second[a] + 1} \ {0} :
       /\ second' = [second EXCEPT ![a] = s]
       /\ Publish({Executed(a, SimHash(a, s))})
       /\ Log(a, SwapEntry(SimHash(a, s)))
  /\ sent' = [sent EXCEPT ![a] = @ + 1]
  /\ swap' = [swap EXCEPT ![a] = NoSwap]
  /\ UNCHANGED <<configVars, rcvd, events, peerStats>>
  /\ UNCHANGED <<chainVars, meterVars>>

MeasureUnapproved(a) ==
  /\ In(a, "window") /\ mode[a] # "Simulate"
  /\ swap' = [swap EXCEPT ![a].phase = "measured"]
  /\ UNCHANGED <<sent, second, configVars>>
  /\ UNCHANGED <<chainVars, meterVars, reportVars, archiveVars>>

(* Approve the router, await the receipt, read the balance.  Approvals and *)
(* swaps of an account are mined in the order they were sent, so nothing   *)
(* sent before is still to be mined.                                       *)
Measure(a) ==
  /\ In(a, "window") /\ mode[a] # "Simulate"
  /\ \A t \in mempool : t.by # a
  /\ swap' = [swap EXCEPT ![a].phase = "measured"]
  /\ UNCHANGED <<sent, second, configVars>>
  /\ UNCHANGED <<chainVars, meterVars, reportVars, archiveVars>>

Pool(a) == <<endpoint[a], swap[a].version>>

Send(a) ==
  /\ In(a, "measured")
  /\ mempool' = mempool \cup
       {[by |-> a, n |-> sent[a] + 1, pool |-> Pool(a), tol |-> swap[a].tol]}
  /\ sent' = [sent EXCEPT ![a] = @ + 1]
  /\ swap' = [swap EXCEPT ![a].phase = "sent"]
  /\ UNCHANGED <<second, configVars, mined, outside, hookVars>>
  /\ UNCHANGED <<meterVars, reportVars, archiveVars>>

GainedOutput(a) == gained[a]

(* The receipt says that the swap was mined.  Its status is not asked for; *)
(* the output is the difference of the balances, or zero.                  *)
MeasuredOutput(a) == IF gained[a] > 0 THEN gained[a] ELSE 0

Outcome(a) ==
  [n        |-> sent[a],
   tol      |-> swap[a].tol,
   actual   |-> MeasuredOutput(a),
   slippage |-> RealizedSlippageBps(Amount, MeasuredOutput(a)),
   sandwich |-> IsSandwich(Amount, MeasuredOutput(a)),
   stray    |-> stray[a]]

Receipts(a) == {t \in mined : t.by = a /\ t.n = sent[a]}

ReportAll(a) ==
  /\ Publish({Executed(a, TxHash(a, sent[a]))}
               \cup (IF Outcome(a).sandwich THEN {Alert(Outcome(a), a)} ELSE {}))
  /\ Log(a, SwapEntry(TxHash(a, sent[a])))
  /\ events' = [events EXCEPT ![a] = @ \cup {Outcome(a)}]
  /\ swap' = [swap EXCEPT ![a] = NoSwap]
  /\ gained' = [gained EXCEPT ![a] = 0]
  /\ stray'  = [stray EXCEPT ![a] = 0]
  /\ strays' = [strays EXCEPT ![a] = 0]
  /\ UNCHANGED <<sent, second, configVars, rcvd, peerStats, chainVars>>

ReportUnmined(a) ==
  /\ In(a, "sent")
  /\ ReportAll(a)

ReportIfSuccessful(a) ==
  /\ In(a, "sent")
  /\ \E t \in Receipts(a) : t.ok
  /\ ReportAll(a)

Report(a) ==
  /\ In(a, "sent")
  /\ Receipts(a) # {}
  /\ ReportAll(a)

(* Any await of a swap may end in an error: a node that does not answer, a *)
(* gas estimate that reverts.  What was sent stays sent.  In simulation    *)
(* nothing is awaited, but the conditions of a cswap may not be met.       *)
SwapErrors(a) ==
  /\ swap[a] # NoSwap
  /\ In(a, "window") /\ mode[a] = "Simulate" => swap[a].version = "V1"
  /\ swap' = [swap EXCEPT ![a] = NoSwap]
  /\ gained' = [gained EXCEPT ![a] = 0]
  /\ stray'  = [stray EXCEPT ![a] = 0]
  /\ strays' = [strays EXCEPT ![a] = 0]
  /\ UNCHANGED <<sent, second, configVars>>
  /\ UNCHANGED <<chainVars, reportVars, archiveVars>>

-----------------------------------------------------------------------------
(* The chain.                                                              *)

Data(t) == IF Version(t.pool) = "V2" THEN t.by ELSE NoData
FeeOf(t) == Fee(t.pool, Data(t))
Floor(t) == ComputeAmountOutMin(Amount, t.tol)

Measuring(a) == In(a, "measured") \/ In(a, "sent")

MinedAs(t, ok, out, fee) ==
  [by |-> t.by, n |-> t.n, pool |-> t.pool, tol |-> t.tol,
   ok |-> ok, out |-> out, fee |-> fee]

(* What the pool gives for it.                                             *)
PoolOutput(t, impact) ==
  Amount - (Amount * FeeOf(t)) \div 1000000 - (Amount * impact) \div 10000

(* The swap is mined and gives at least its floor.                         *)
MineFor(t, out) ==
  /\ out >= Floor(t)
  /\ mempool' = mempool \ {t}
  /\ mined' = mined \cup {MinedAs(t, TRUE, out, FeeOf(t))}
  /\ SwapHooks(t.pool, Data(t))
  /\ gained' = IF Measuring(t.by)
               THEN [gained EXCEPT ![t.by] = @ + out] ELSE gained
  /\ UNCHANGED <<swap, sent, second, configVars, outside, stray, strays>>
  /\ UNCHANGED <<reportVars, archiveVars>>

Mine(t) == \E impact \in Impacts : MineFor(t, PoolOutput(t, impact))

(* The swap is mined and reverts: the price moved below the floor, or the  *)
(* deadline of an hour passed.                                             *)
MineReverted(t) ==
  /\ mempool' = mempool \ {t}
  /\ mined' = mined \cup {MinedAs(t, FALSE, 0, 0)}
  /\ UNCHANGED <<swap, sent, second, configVars, outside, hookVars>>
  /\ UNCHANGED <<meterVars, reportVars, archiveVars>>

(* The network forgets a transaction, or another one takes its nonce.      *)
Drop(t) ==
  /\ mempool' = mempool \ {t}
  /\ UNCHANGED <<swap, sent, second, configVars, mined, outside, hookVars>>
  /\ UNCHANGED <<meterVars, reportVars, archiveVars>>

(* Somebody who runs no agent swaps through the same router.               *)
OutsiderSwaps ==
  /\ outside < MaxOutside
  /\ outside' = outside + 1
  /\ \E a \in Agents, v \in Versions : SwapHooks(<<endpoint[a], v>>, NoData)
  /\ UNCHANGED <<swap, sent, second, configVars, mempool, mined>>
  /\ UNCHANGED <<meterVars, reportVars, archiveVars>>

(* Tokens come to the account from elsewhere, or leave it, while a swap of *)
(* it is being measured.                                                   *)
Payment(a) ==
  /\ Measuring(a)
  /\ strays[a] < MaxPayments
  /\ \E d \in Payments :
       /\ gained' = [gained EXCEPT ![a] = @ + d]
       /\ stray'  = [stray EXCEPT ![a] = @ + d]
  /\ strays' = [strays EXCEPT ![a] = @ + 1]
  /\ UNCHANGED <<swap, sent, second, configVars>>
  /\ UNCHANGED <<chainVars, reportVars, archiveVars>>

-----------------------------------------------------------------------------
(* Gossip handlers that touch the MevStore and the archive.                *)

RecvMevAlert(a) ==
  /\ Polling(a)
  /\ \E m \in Deliverable(a, "MevAlert") :
       /\ Handled(a, m)
       /\ peerStats' = [peerStats EXCEPT
            ![a][m.from] = RecordPeerAlert(@, m.slippage, m.sandwich)]
  /\ UNCHANGED <<swap, sent, second, configVars, msgs, events>>
  /\ UNCHANGED <<chainVars, meterVars, archiveVars>>

(* A peer attests its identity at every connection; the network forgets in *)
(* a minute that it carried the same message before.                       *)
RecvIdentityAttestation(a) ==
  /\ Polling(a)
  /\ clock[a] < MaxEntries
  /\ \E p \in Agents \ {a} : Log(a, AttestedEntry(p))
  /\ UNCHANGED <<swap, sent, second, configVars>>
  /\ UNCHANGED <<chainVars, meterVars, reportVars>>

Next ==
  \/ \E a \in Agents :
       \/ SetMode(a)
       \/ SetTolerance(a)
       \/ Swap(a)
       \/ CSwap(a)
       \/ Look(a)
       \/ ExecuteSimulated(a)
       \/ Measure(a)
       \/ Send(a)
       \/ Report(a)
       \/ SwapErrors(a)
       \/ Payment(a)
       \/ RecvMevAlert(a)
  \/ \E a \in Archivers :
       \/ Archive(a)
       \/ FlushEnds(a)
       \/ RecvIdentityAttestation(a)
  \/ \E t \in mempool : Mine(t) \/ MineReverted(t) \/ Drop(t)
  \/ OutsiderSwaps
  \/ SidecarStep

Spec == Init /\ [][Next]_vars

Outstanding(a) == {t \in mempool : t.by = a}

(* The agents that may ever await something.                               *)
Busy == {a \in Agents : MaxSwaps[a] > 0} \cup Archivers

(* The steps of a swap and a flush are taken, and the chain mines or drops *)
(* what it was sent.  Nobody owes the agent a success, nor an error.       *)
Fairness ==
  \A a \in Busy :
    /\ WF_vars(ExecuteSimulated(a) \/ Measure(a) \/ Send(a) \/ Report(a))
    /\ a \in Archivers => WF_vars(FlushEnds(a))
    /\ WF_vars(\E t \in Outstanding(a) : Mine(t) \/ MineReverted(t) \/ Drop(t))

FairSpec == Spec /\ Fairness

-----------------------------------------------------------------------------
(* Properties.                                                             *)

(* Every variable stays in its type.                                       *)
TypeOK ==
  /\ mode \in [Agents -> {"Live", "Simulate", "Local"}]
  /\ endpoint \in [Agents -> Chains]
  /\ tolerance \in [Agents -> Nat]
  /\ swap \in [Agents -> PendingSwap \cup {NoSwap}]
  /\ sent \in [Agents -> Nat] /\ second \in [Agents -> Nat]
  /\ mempool \subseteq Tx /\ mined \subseteq MinedTx
  /\ gained \in [Agents -> Int] /\ stray \in [Agents -> Int]
  /\ strays \in [Agents -> Nat] /\ outside \in Nat
  /\ events \in [Agents -> SUBSET MevEvent]
  /\ peerStats \in [Agents -> [Agents -> PeerMevStats]]
  /\ msgs \subseteq ExecutedMsg \cup AlertMsg
  /\ beforeSwapCount \in [Pools -> Nat] /\ afterSwapCount \in [Pools -> Nat]
  /\ agentSwapCount \in [Pools -> [Addresses -> Nat]]

(* The output a MevEvent holds is that of its own transaction, zero if it  *)
(* reverted, plus what came from elsewhere between the two balance queries:*)
(* a swap given up before its receipt, and mined later, never counts as    *)
(* output of the next one.                                                 *)
MeasuredIsOwn ==
  \A a \in Agents : \A e \in events[a] :
    \E t \in mined :
      /\ t.by = a /\ t.n = e.n
      /\ e.actual = IF t.out + e.stray > 0 THEN t.out + e.stray ELSE 0

(* A sandwich alert has one of three reasons: the swap reverted, so that   *)
(* its output was zero; its tolerance allows what counts as a sandwich; or *)
(* tokens left the account meanwhile.  With a tolerance of up to 200 basis *)
(* points, the default of 50 included, no swap that succeeds is flagged.   *)
AlertExplained ==
  \A m \in msgs : m.kind = "MevAlert" =>
    \E t \in mined, e \in events[m.from] :
      /\ t.by = m.from /\ t.n = m.n /\ e.n = m.n
      /\ ~t.ok \/ t.tol > SANDWICH_THRESHOLD_BPS \/ e.stray < 0

(* What is announced or logged as executed was simulated, or is a mined    *)
(* transaction of the agent itself (a reverted one included); and only     *)
(* simulated swaps, of one second, can share a hash.                       *)
Really(hash) ==
  hash.sim \/ \E t \in mined : t.by = hash.by /\ t.n = hash.n

ReportsMined ==
  /\ \A m \in msgs : m.kind = "SwapExecuted" => Really(m.hash) /\ m.hash.by = m.from
  /\ \A a \in Archivers : \A e, f \in Entries(a) :
       e.what.is = "SwapExecuted" =>
         /\ Really(e.what.hash) /\ e.what.hash.by = a
         /\ e.what = f.what => e = f \/ e.what.hash.sim

(* The counts of a pool agree: as many swaps began as ended, and each is   *)
(* counted for one address.  Tally has an element for each that was.       *)
Tally(pool) ==
  UNION {{addr} \X (1 .. agentSwapCount[pool][addr]) : addr \in Addresses}

CountsAgree ==
  \A pool \in Pools :
    /\ beforeSwapCount[pool] = afterSwapCount[pool]
    /\ afterSwapCount[pool] = Cardinality(Tally(pool))

(* V2 counts for an agent the swaps it made that succeeded, and no others; *)
(* V1, which takes the router for the agent, counts none.                  *)
Successful(pool, a) == {t \in mined : t.pool = pool /\ t.by = a /\ t.ok}

CountedForAgents ==
  \A pool \in Pools, a \in Agents :
    agentSwapCount[pool][a] =
      IF Version(pool) = "V2" THEN PriorSwaps + Cardinality(Successful(pool, a)) ELSE 0

(* An agent pays the rebated fee from its sixth successful swap in the V2  *)
(* pool on, and never before, whoever else swaps and whatever reverts.     *)
RebateEarned ==
  \A t \in mined : t.ok =>
    (t.fee = REBATE_FEE <=>
       /\ Version(t.pool) = "V2"
       /\ PriorSwaps + Cardinality({u \in Successful(t.pool, t.by) : u.n < t.n})
            >= REBATE_THRESHOLD)

(* What an agent knows of a peer's slippage, it has from the peer: it has  *)
(* counted no more sandwiches than the peer's own MevStore, and no worse   *)
(* average than the peer's worst swap.                                     *)
Sandwiches(p) == {e \in events[p] : e.sandwich}

AlertsHonest ==
  \A a, p \in Agents :
    LET stats == peerStats[a][p]
    IN  /\ stats.alerts = stats.sandwiches
        /\ stats.alerts <= Cardinality(Sandwiches(p))
        /\ stats.alerts > 0 =>
             \E e \in Sandwiches(p) : AvgSlippageBps(stats) <= e.slippage

(* An agent that awaits a swap or a flush returns to its loop, unless the  *)
(* chain forgot the transaction it awaits the receipt of: that await has   *)
(* no timeout, and nothing but an error ends it.                           *)
Stuck(a) ==
  /\ In(a, "sent")
  /\ \A t \in mempool \cup mined : ~(t.by = a /\ t.n = sent[a])

LoopReturns == \A a \in Busy : ~Idle(a) ~> Idle(a) \/ Stuck(a)

(* The refinement of Settlement: the mempool holds what is with the chain, *)
(* and a SwapExecuted that names a transaction announces its swap.         *)
SwapOf(t) == <<t.by, t.n>>

Settles == INSTANCE Settlement WITH
  issued    <- sent,
  pending   <- {SwapOf(t) : t \in mempool},
  settled   <- {SwapOf(t) : t \in mined},
  announced <- {SwapOf(m.hash) : m \in {x \in msgs : x.kind = "SwapExecuted" /\ ~x.hash.sim}}

(* SwapExecution implements Settlement: whatever awaits end in errors, an  *)
(* agent has one swap with the chain at a time, none is on chain twice or  *)
(* after it was forgotten, and none is announced but the latest, mined.    *)
SettlesSwaps == Settles!Spec
===============================================================================
