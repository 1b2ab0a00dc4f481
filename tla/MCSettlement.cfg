SPECIFICATION DeliveredSpec
CONSTANTS
  i1 = i1
  i2 = i2
  p1 = p1
  p2 = p2
  Intents = {i1}
  Payments = {p1, p2}
  Mismatched = {p1}
  OrderOf <- OneOrder
  NoPay = NoPay
  Events <- RetryEvents
  Sweepers = {s1}
  Window = 1
  Nothing = Nothing
  Faults = TRUE
  Refunds = {}
INVARIANTS
  TypeOK
  StatusIsAuthoritative
  ProcessedIsAbsorbed
PROPERTIES
  ProcessedIsFinal
  CaptureSettlesOrExpires
CHECK_DEADLOCK FALSE
