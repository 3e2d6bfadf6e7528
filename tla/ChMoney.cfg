SPECIFICATION Spec
CONSTANTS
  d1 = d1
  w1 = w1
  e1 = e1
  e2 = e2
  e3 = e3
  s1 = s1
  m1 = m1
  m2 = m2
  Nonces = {d1, w1, e1, e2, e3, s1}
  Markets = {m1, m2}
  Requests <- AllRequests
  Confirms = 2
  MaxHeight = 5
  MaxUnfinal = 4
INVARIANTS SimTypeOK EscrowIsBacked FinalHistoryReplays ReceiptsMatchBlocks
