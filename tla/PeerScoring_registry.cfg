\* Does a record's verified flag say what the registry says?
CONSTANTS
  p1 = p1
  me = me
  NoRecord = NoRecord
  NoScore = NoScore
  Peers = {me, p1}
  Self = me
  MaxTime = 9
  MaxSwaps = 1
  MaxIntents = 1
  MaxInvalid = 1
  MaxExpired = 1
SPECIFICATION Spec
INVARIANTS
  VerifiedMatchesRegistry
