SPECIFICATION ViewSpec
CONSTANTS
  i1 = i1
  i2 = i2
  p1 = p1
  p2 = p2
  Intents = {i1, i2}
  Payments = {p1, p2}
  Mismatched = {p2}
  OrderOf <- OrderOfI1
  NoPay = NoPay
  Readers = {c1}
  NoView = NoView
  ViewAttempts = 2
INVARIANTS
  ViewTypeOK
  CompletedShowsPayment
  StatusIsExplained
PROPERTIES
  ViewsNeverGoBack
CONSTRAINT OtherWaits
CHECK_DEADLOCK FALSE
