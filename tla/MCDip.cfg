SPECIFICATION TxSpec
CONSTANTS
  r1 = r1
  r2 = r2
  o1 = o1
  o2 = o2
  v1 = v1
  v2 = v2
  t1 = t1
  t2 = t2
  Reservation <- MCReservation
  Order <- MCOrder
  Vehicle <- MCVehicle
  Quantity <- MCQuantity
  Capacity <- DipCapacity
  Opening <- DipOpening
  Movement <- MCMovement
  Tx <- MCTx
  Observed <- SameObservation
  Operation <- OnlyDips
PROPERTY DipIsAuthoritative
