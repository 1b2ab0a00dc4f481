SPECIFICATION SweptSpec
CONSTANTS
  i1 = i1
  i2 = i2
  p1 = p1
  p2 = p2
  Intents = {i1, i2}
  Payments = {p1, p2}
  Mismatched = {p2}
  OrderOf <- TwoOrders
  NoPay = NoPay
  Events <- NoEvents
  Sweepers = {s1}
  Window = 1
  Nothing = Nothing
  Faults = TRUE
  Refunds = {p1}
PROPERTIES
  StuckIsResolved
CHECK_DEADLOCK FALSE
