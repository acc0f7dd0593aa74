\* Two acquainted agents whose clocks differ, either may accept: what becomes of proposals.
CONSTANTS
  a1 = a1
  a2 = a2
  t1 = t1
  NoEntry = NoEntry
  NoSwap = NoSwap
  NoId = NoId
  Agents = {a1, a2}
  Acceptors = {a1, a2}
  Proposers = {a1}
  Terms = {t1}
  MinReps = {0, 3500}
  Acquainted <- Everyone
  Carried = {"SwapProposal", "SwapAcceptance", "SwapFill"}
  SameSecond = FALSE
  ProposalExpiry = 0
  MaxTime = 2
  MaxSkew = 1
  MaxProposals = 1
  MaxSwaps = 2
  MaxIntents = 0
  MaxDecay = 1
SPECIFICATION FairSpec
INVARIANTS
  PendingAsAccepted
PROPERTIES
  ProposalsSettle
  KeepsPromise
CHECK_DEADLOCK TRUE
