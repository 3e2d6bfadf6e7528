\* Two processes, one withdrawal, reorgs of any unfinalised depth.
SPECIFICATION Spec
CONSTANTS
  Nonces = {w1}
  Procs = {p1, p2}
  None = None
  Confirms = 3
  ExpiryBlocks = 2
  Reorgs = TRUE
  MaxHeight = 5
  QuietHeight = 5
  LastRequest = 0
  MaxCrashes = 0
SYMMETRY Symmetry
INVARIANTS TypeOK ConfirmedIsFinal ReservationReleasedOnce ReceiptsTellTheTruth
PROPERTIES FinalityIsPermanent DecisionsStand
CHECK_DEADLOCK FALSE
