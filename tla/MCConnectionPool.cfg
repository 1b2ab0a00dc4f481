SPECIFICATION PoolFairSpec
CONSTANTS
  i1 = i1
  p1 = p1
  Intents = {i1}
  Payments = {p1}
  Mismatched = {}
  OrderOf <- OneOrder
  NoPay = NoPay
  NoJob = NoJob
  Workers = {w1, w2, w3}
  AckLoss = TRUE
  MaxAttempts = 1
  PoolMax = 2
INVARIANTS
  PoolTypeOK
  HistoryIsLegal
  ExpiredIsNeverPaid
  NobodyDeadlocks
PROPERTIES
  LossyStoreSpec
  PaidIsFinal
  LocksAreReleased
  EveryRequestIsServed
CHECK_DEADLOCK FALSE
