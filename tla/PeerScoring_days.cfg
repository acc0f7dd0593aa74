\* One peer and the agent itself, beyond the stale threshold.
CONSTANTS
  p1 = p1
  me = me
  NoRecord = NoRecord
  NoScore = NoScore
  Peers = {me, p1}
  Self = me
  MaxTime = 9
  MaxSwaps = 1
  MaxIntents = 1
  MaxInvalid = 11
  MaxExpired = 1
SPECIFICATION Spec
INVARIANTS
  TypeOK
  NotOverranked
  StoreIsFresh
  NotBlacklisted
PROPERTIES
  SwapNeverHurts
CHECK_DEADLOCK TRUE
