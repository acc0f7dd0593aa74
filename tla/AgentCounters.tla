----------------------------- MODULE AgentCounters -----------------------------
(***************************************************************************)
(* The two Uniswap V4 hooks of contracts/src.  Each counts the swaps of    *)
(* its pool when they begin and when they end, and per agent.  AgentCounter*)
(* (V1) takes the caller for the agent, which is the router.  V2 takes the *)
(* address in the swap's hook data, if there is one, and charges frequent  *)
(* agents a lower fee.  A swap that reverts leaves no trace.               *)
(***************************************************************************)
EXTENDS Integers, FiniteSets

CONSTANTS
  Accounts,    \* the addresses (EOAs) of agents
  Chains,      \* Sepolia, and its local fork
  Router,      \* the address of the swap router
  NoData,      \* empty hook data
  PriorSwaps   \* swaps each account has made in the V2 pools before

VARIABLES
  beforeSwapCount,  \* per pool
  afterSwapCount,
  agentSwapCount    \* per pool and address

hookVars == <<beforeSwapCount, afterSwapCount, agentSwapCount>>

Pools     == Chains \X {"V1", "V2"}
Addresses == Accounts \cup {Router}
Version(pool) == pool[2]

BASE_FEE         == 3000   \* in millionths
REBATE_FEE       == 2000
REBATE_THRESHOLD == 5

Prior(pool, addr) ==
  IF Version(pool) = "V2" /\ addr \in Accounts THEN PriorSwaps ELSE 0
PriorTotal(pool) ==
  IF Version(pool) = "V2" THEN PriorSwaps * Cardinality(Accounts) ELSE 0

InitHooks ==
  /\ beforeSwapCount = [pool \in Pools |-> PriorTotal(pool)]
  /\ afterSwapCount  = [pool \in Pools |-> PriorTotal(pool)]
  /\ agentSwapCount  = [pool \in Pools |-> [addr \in Addresses |-> Prior(pool, addr)]]

FeeFromFifth(pool, hookData) ==
  IF Version(pool) = "V2" /\ hookData # NoData
     /\ agentSwapCount[pool][hookData] >= REBATE_THRESHOLD - 1
  THEN REBATE_FEE ELSE BASE_FEE

(* V2's beforeSwap overrides the fee; the V1 pool has it in its key.       *)
Fee(pool, hookData) ==
  IF Version(pool) = "V2" /\ hookData # NoData
     /\ agentSwapCount[pool][hookData] >= REBATE_THRESHOLD
  THEN REBATE_FEE ELSE BASE_FEE

CountedSender(pool, hookData) == Router

(* Whom afterSwap counts the swap for.                                     *)
Counted(pool, hookData) ==
  IF Version(pool) = "V1" \/ hookData = NoData THEN Router ELSE hookData

SwapHooksOfAgents(pool, hookData) ==
  /\ beforeSwapCount' = [beforeSwapCount EXCEPT ![pool] = @ + 1]
  /\ afterSwapCount'  = [afterSwapCount EXCEPT ![pool] = @ + 1]
  /\ agentSwapCount'  = IF hookData = NoData THEN agentSwapCount
                        ELSE [agentSwapCount EXCEPT ![pool][hookData] = @ + 1]

SwapHooks(pool, hookData) ==
  /\ beforeSwapCount' = [beforeSwapCount EXCEPT ![pool] = @ + 1]
  /\ afterSwapCount'  = [afterSwapCount EXCEPT ![pool] = @ + 1]
  /\ agentSwapCount'  = [agentSwapCount EXCEPT ![pool][Counted(pool, hookData)] = @ + 1]
===============================================================================
