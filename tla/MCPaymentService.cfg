SPECIFICATION Spec
CONSTANTS
  i1 = i1
  p1 = p1
  p2 = p2
  p3 = p3
  Intents = {i1, i2}
  Payments = {p1, p2, p3}
  Mismatched = {p3}
  OrderOf <- OneOrder
  NoPay = NoPay
  NoJob = NoJob
  Workers = {w1, w2}
  AckLoss = FALSE
  MaxAttempts = 2
INVARIANTS
  TypeOK
  NoStaleRead
  SettledOnce
  AttemptsNumbered
  HistoryTellsStatus
PROPERTIES
  TerminalIsFinal
  AttemptsArePermanent
  StoreSpec
  LifecycleSpec
SYMMETRY ServiceSymmetry
CONSTRAINT FewAttempts
CHECK_DEADLOCK FALSE
