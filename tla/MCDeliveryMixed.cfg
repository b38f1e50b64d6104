SPECIFICATION Spec
CONSTANTS
  None = None
  q1 = q1
  q2 = q2
  q3 = q3
  q4 = q4
  d1 = d1
  d2 = d2
  Request <- ThreeRequests
  Delivery <- OneDelivery
  Fails <- NoneFails
  Measure <- EitherMeasure
  Figure <- Figures
  Ordered = 2
  AdminTarget <- NoTarget
  MaxCrashes = 0
INVARIANTS
  BilledFromLikeReadings
CHECK_DEADLOCK FALSE
