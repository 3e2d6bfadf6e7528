\* Loops and blocks overlap.
SPECIFICATION AuditSpec
CONSTANTS
  Deposits = {d1}
  Inboxes = {i1}
  Reconcilers = {r1}
  Nonces = {w1}
  Amount = 1
  Confirms = 2
  Reorgs = TRUE
  MaxHeight = 4
  MaxEvents = 2
  QuietHeight = 4
  MaxCrashes = 0
  Concurrent = TRUE
SYMMETRY Symmetry
INVARIANT NoFalseHalt
