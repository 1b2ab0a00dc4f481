SPECIFICATION Spec
CONSTANTS
  i1 = i1
  p1 = p1
  p2 = p2
  p3 = p3
  Intents = {i1}
  Payments = {p1}
  Mismatched = {}
  OrderOf <- OneOrder
  NoPay = NoPay
  NoJob = NoJob
  Workers = {w1, w2}
  AckLoss = FALSE
  MaxAttempts = 1
INVARIANTS
  ErrorLeavesNoOrphan
CHECK_DEADLOCK FALSE
