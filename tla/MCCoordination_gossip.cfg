\* Two agents that have not met, every message kind; one proposes, the other accepts.
CONSTANTS
  a1 = a1
  a2 = a2
  t1 = t1
  NoEntry = NoEntry
  NoSwap = NoSwap
  NoId = NoId
  Agents = {a1, a2}
  Acceptors = {a2}
  Proposers = {a1}
  Terms = {t1}
  MinReps = {0, 3500, 10001}
  Acquainted <- Nobody
  Carried = {"IdentityAttestation", "SwapProposal", "SwapAcceptance", "SwapIntent", "SwapExecuted", "SwapFill"}
  SameSecond = FALSE
  ProposalExpiry = 0
  MaxTime = 1
  MaxSkew = 0
  MaxProposals = 1
  MaxSwaps = 1
  MaxIntents = 1
  MaxDecay = 1
SPECIFICATION Spec
INVARIANTS
  TypeOK
  CountsHonest
CHECK_DEADLOCK TRUE
