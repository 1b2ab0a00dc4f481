SPECIFICATION FlowFairSpec
CONSTANTS
  r1 = r1
  r2 = r2
  r3 = r3
  k1 = k1
  a = a
  b = b
  p1 = p1
  Requests = {r1, r2, r3}
  Keys = {k1}
  KeyOf <- SameKey
  BodyOf <- OneOtherBody
  Nobody = Nobody
  NoRecord = NoRecord
  SlowClaims = FALSE
  MaxTries = 2
  AckLoss = TRUE
  Workers = {w1}
  NoJob = NoJob
  MaxAttempts = 0
  Payments = {p1}
  NoPay = NoPay
  OrderOf <- OrderOfR1
  Mismatched = {}
INVARIANTS
  FlowTypeOK
  OneAnswerPerKey
  AnswerMatchesBody
  ReclaimedOnce
  AnsweredWasCreated
  OneLiveIntentPerKey
PROPERTIES
  CompletedIsFinal
  KeyIsNotLockedOut
  KeyOutcomeSpec
  EveryCallEnds
  FlowImplementsIdempotency
  FlowImplementsService
CONSTRAINT OnlyFailures
CHECK_DEADLOCK FALSE
