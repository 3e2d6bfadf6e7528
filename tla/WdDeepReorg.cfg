\* One process, one withdrawal, reorgs deeper than the newest block.
SPECIFICATION Spec
CONSTANTS
  Nonces = {w1}
  Procs = {p1}
  None = None
  Confirms = 3
  ExpiryBlocks = 2
  Reorgs = TRUE
  MaxHeight = 6
  QuietHeight = 6
  LastRequest = 0
  MaxCrashes = 0
INVARIANT NeverRefundedAndPaid
CHECK_DEADLOCK FALSE
