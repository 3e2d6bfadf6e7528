\* A reorg of an event that was not ingested.
SPECIFICATION StreamSpec
CONSTANTS
  Deposits = {d1}
  Inboxes = {i1}
  Reconcilers = {r1}
  Amount = 1
  Confirms = 2
  Reorgs = TRUE
  MaxHeight = 5
  MaxEvents = 2
  QuietHeight = 3
  MaxCrashes = 0
PROPERTY StreamCatchesUp
