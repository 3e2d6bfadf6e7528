\* Eleven jobs over a pool of three connections.
SPECIFICATION Spec
CONSTANTS
  m1 = m1
  m2 = m2
  k1 = k1
  k2 = k2
  opener = opener
  opener2 = opener2
  closer = closer
  liquidator = liquidator
  judge = judge
  replica1 = replica1
  replica2 = replica2
  settler = settler
  payer1 = payer1
  payer2 = payer2
  payer3 = payer3
  Nobody = Nobody
  Users = {1, 2}
  Markets = {m1, m2}
  Positions = {1, 2, 3, 4, 5, 6}
  Withdrawals = {k1, k2}
  Owner <- TheOwners
  MarketOf <- TheMarkets
  Payer <- ThePayers
  Opened = {1, 2, 3, 4}
  Resolved = {m2}
  Sessions = {opener, opener2, closer, liquidator, judge, replica1, replica2, settler, payer1, payer2, payer3}
  Job <- TheJobs
  Conns = 3
INVARIANTS ReadsStand CollateralReleasedOnce SettledMarketIsEmpty KeyReservesOnce OnlyThePoolWedges
PROPERTIES KeepsMarketPromise
SYMMETRY Symmetry
