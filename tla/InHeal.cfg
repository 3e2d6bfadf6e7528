\* An inbox loop that may never be delivered anything, a reconcile loop, crashes.
SPECIFICATION FairSpec
CONSTANTS
  Deposits = {d1}
  Inboxes = {i1}
  Reconcilers = {r1}
  Amount = 1
  Confirms = 2
  Reorgs = TRUE
  MaxHeight = 4
  MaxEvents = 2
  QuietHeight = 2
  MaxCrashes = 1
PROPERTIES DepositsLand OrphansAreCompensated
