\* Two inbox loops over one cursor and the same facts; two facts to a block, each worth two units the user may spend one by one.
SPECIFICATION Spec
CONSTANTS
  Deposits = {d1, d2}
  Inboxes = {i1, i2}
  Reconcilers = {}
  Amount = 2
  Confirms = 1
  Reorgs = TRUE
  MaxHeight = 3
  MaxEvents = 3
  QuietHeight = 3
  MaxCrashes = 0
SYMMETRY Symmetry
INVARIANTS TypeOK FinalFactsAreReal OnlyOrphansAreReverted LedgerMatchesFacts CursorSkipsNothing
PROPERTY FactsStayDecided
