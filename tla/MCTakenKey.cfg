SPECIFICATION Spec
CONSTANTS
  r1 = r1
  r2 = r2
  r3 = r3
  k1 = k1
  a = a
  b = b
  Requests = {r1, r2, r3}
  Keys = {k1}
  KeyOf <- SameKey
  BodyOf <- OneOtherBody
  Nobody = Nobody
  NoRecord = NoRecord
  SlowClaims = FALSE
INVARIANTS
  TakenKeyIsExplained
CHECK_DEADLOCK FALSE
