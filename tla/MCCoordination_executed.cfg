\* An accepted, executed proposal expires like any other.
CONSTANTS
  a1 = a1
  a2 = a2
  t1 = t1
  NoEntry = NoEntry
  NoSwap = NoSwap
  NoId = NoId
  Agents = {a1, a2}
  Acceptors = {a2}
  Proposers = {a1}
  Terms = {t1}
  MinReps = {0}
  Acquainted <- Everyone
  Carried = {"SwapProposal", "SwapAcceptance", "SwapFill"}
  SameSecond = FALSE
  ProposalExpiry = 0
  MaxTime = 2
  MaxSkew = 0
  MaxProposals = 1
  MaxSwaps = 2
  MaxIntents = 0
  MaxDecay = 1
SPECIFICATION Spec
INVARIANTS
  PenalisedOnlyUnexecuted
CHECK_DEADLOCK TRUE
