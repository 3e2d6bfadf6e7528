\* Two passes revert the same orphaned credit.
SPECIFICATION Spec
CONSTANTS
  Deposits = {d1}
  Inboxes = {i1}
  Reconcilers = {r1}
  Amount = 1
  Confirms = 2
  Reorgs = TRUE
  MaxHeight = 4
  MaxEvents = 2
  QuietHeight = 4
  MaxCrashes = 0
INVARIANT FrozenOnlyForAShortfall
