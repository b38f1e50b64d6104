SPECIFICATION Spec
CONSTANTS
  None = None
  q1 = q1
  q2 = q2
  q3 = q3
  q4 = q4
  d1 = d1
  d2 = d2
  Request <- FourRequests
  Delivery <- TwoDeliveries
  Fails <- OneFails
  Measure <- Meter
  Figure <- EndPoints
  Ordered = 2
  AdminTarget <- SomeTargets
  MaxCrashes = 1
INVARIANTS
  TypeOK
  EvidenceBeforeOutcome
  BilledAgreesWithOutcome
PROPERTIES
  OpeningLeadsOn
  ClosingLeadsToOutcome
  OutcomeIsBilled
CHECK_DEADLOCK FALSE
