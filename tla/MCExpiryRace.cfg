SPECIFICATION Spec
CONSTANTS
  i1 = i1
  i2 = i2
  p1 = p1
  p2 = p2
  Intents = {i1}
  Payments = {p1}
  Mismatched = {}
  OrderOf <- OneOrder
  NoPay = NoPay
  Events <- NoEvents
  Sweepers = {s1}
  Window = 1
  Nothing = Nothing
  Faults = FALSE
  Refunds = {}
PROPERTIES
  ExpiresOnlyUnpaid
CHECK_DEADLOCK FALSE
