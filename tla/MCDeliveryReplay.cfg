SPECIFICATION Spec
CONSTANTS
  None = None
  q1 = q1
  q2 = q2
  q3 = q3
  q4 = q4
  d1 = d1
  d2 = d2
  Request <- FourRequests
  Delivery <- OneDelivery
  Fails <- NoneFails
  Measure <- Meter
  Figure <- Figures
  Ordered = 2
  AdminTarget <- NoTarget
  MaxCrashes = 1
PROPERTIES
  ReplayMeansRecorded
CHECK_DEADLOCK FALSE
