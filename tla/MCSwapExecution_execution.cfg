\* One agent swaps and archives, another hears of it; one payment, one swap of others.
CONSTANTS
  a1 = a1
  a2 = a2
  Agents = {a1, a2}
  Accounts = {a1, a2}
  Archivers = {a1}
  Carried = {"SwapExecuted", "MevAlert"}
  Chains = {"anvil", "sepolia"}
  Router = Router
  NoData = NoData
  NoSwap = NoSwap
  PriorSwaps = 4
  Homes = {"Live"}
  Modes = {"Live", "Simulate"}
  Tolerances = {300}
  Amount = 10000
  Impacts = {0, 250}
  Payments <- Outgoing
  Versions = {"V1", "V2"}
  MaxSwaps <- SwapsOfFirst
  MaxOutside = 1
  MaxPayments = 1
  MaxEntries = 1
  MaxFlushes = 2
SPECIFICATION FairSpec
INVARIANTS
  TypeOK
  MeasuredIsOwn
  AlertExplained
  ReportsMined
  CountsAgree
  CountedForAgents
  RebateEarned
  AlertsHonest
  NothingLostSilently
  ArchivedOnce
PROPERTIES
  LoopReturns
  SettlesSwaps
CHECK_DEADLOCK TRUE
