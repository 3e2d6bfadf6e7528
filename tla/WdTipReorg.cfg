\* One process that may crash, two withdrawals, only the newest block is ever replaced.
SPECIFICATION FairSpec
CONSTANTS
  Nonces = {w1, w2}
  Procs = {p1}
  None = None
  Confirms = 1
  ExpiryBlocks = 1
  Reorgs = TRUE
  MaxHeight = 5
  QuietHeight = 2
  LastRequest = 0
  MaxCrashes = 1
INVARIANTS NeverRefundedAndPaid ReservedHasASubmitter
PROPERTIES KeepsPromise EveryWithdrawalResolves
CHECK_DEADLOCK FALSE
