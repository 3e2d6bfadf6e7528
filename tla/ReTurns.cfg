\* Loops and blocks take turns.
SPECIFICATION AuditSpec
CONSTANTS
  Deposits = {d1, d2}
  Inboxes = {i1}
  Reconcilers = {r1}
  Nonces = {w1}
  Amount = 1
  Confirms = 2
  Reorgs = TRUE
  MaxHeight = 4
  MaxEvents = 3
  QuietHeight = 4
  MaxCrashes = 1
  Concurrent = FALSE
SYMMETRY Symmetry
INVARIANTS AuditTypeOK AuditIsExact SnapshotIsExplained
