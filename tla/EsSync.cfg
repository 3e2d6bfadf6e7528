SPECIFICATION FairSpec
CONSTANTS
  Markets = {1, 2}
  IdsFor <- TheIds
  Custody = 1
  Staked <- TheStakes
  Escrowed <- TheEscrow
  Confirms = 2
  EscrowExpiryBlocks = 1
  StuckThreshold = 1
  Underway <- TheInstructions
  Moves <- TheMoves
  Judged = {1}
  MaxEvents = 2
INVARIANTS SettledMarketHoldsNoEscrow
PROPERTIES EscrowConverges AlertsEnd
