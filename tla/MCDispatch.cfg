SPECIFICATION DispatchSpec
CONSTANTS
  None = None
  Sweeper = s1
  r1 = r1
  r2 = r2
  r3 = r3
  r4 = r4
  r5 = r5
  o1 = o1
  v1 = v1
  v2 = v2
  q1 = q1
  q2 = q2
  s1 = s1
  Reservation <- FiveRows
  Order <- OneOrder
  Vehicle <- TwoTankers
  Quantity <- OneLitre
  Capacity <- Tanks
  Opening <- LowTanks
  Movement <- NoMovement
  Request <- TwoRequests
  Kind <- AllKinds
  InitialStatus <- EitherPayment
  AdminTarget <- SomeTargets
  Litres <- OneLitreEach
  Scheduled <- OneOrder
  Compliant <- TwoTankers
  MaxCrashes = 1
SYMMETRY Symmetry
INVARIANTS
  DispatchTypeOK
PROPERTIES
  TimelineIsChain
CHECK_DEADLOCK FALSE
