SPECIFICATION DispatchSpec
CONSTANTS
  None = None
  Sweeper = s1
  r1 = r1
  r2 = r2
  r3 = r3
  r4 = r4
  r5 = r5
  o1 = o1
  v1 = v1
  v2 = v2
  q1 = q1
  q2 = q2
  s1 = s1
  Reservation <- ThreeRows
  Order <- OneOrder
  Vehicle <- TwoTankers
  Quantity <- OneLitre
  Capacity <- Tanks
  Opening <- LowTanks
  Movement <- NoMovement
  Request <- OneRequest
  Kind <- CancelOnly
  InitialStatus <- Confirmed
  AdminTarget <- NoTarget
  Litres <- OneLitreEach
  Scheduled <- NoOrder
  Compliant <- TwoTankers
  MaxCrashes = 0
SYMMETRY Symmetry
INVARIANTS
  CancellingGivesFuelBack
CHECK_DEADLOCK FALSE
