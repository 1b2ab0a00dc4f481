SPECIFICATION SweptSpec
CONSTANTS
  i1 = i1
  i2 = i2
  p1 = p1
  p2 = p2
  Intents = {i1, i2}
  Payments = {p1}
  Mismatched = {}
  OrderOf <- TwoOrders
  NoPay = NoPay
  Events <- NoEvents
  Sweepers = {s1}
  Window = 1
  Nothing = Nothing
  Faults = FALSE
  Refunds = {}
PROPERTIES
  StuckCaptureIsFinalized
CHECK_DEADLOCK FALSE
