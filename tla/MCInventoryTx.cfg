SPECIFICATION TxSpec
CONSTANTS
  r1 = r1
  r2 = r2
  o1 = o1
  o2 = o2
  v1 = v1
  v2 = v2
  t1 = t1
  t2 = t2
  Reservation <- MCReservation
  Order <- MCOrder
  Vehicle <- MCVehicle
  Quantity <- MCQuantity
  Capacity <- MCCapacity
  Opening <- MCOpening
  Movement <- MCMovement
  Tx <- MCTx
  Observed <- MCObserved
  Operation <- AllOperations
INVARIANTS
  TxTypeOK
  CacheIsLogSum
  HeldIsSumOfReservations
  NothingPromisedTwice
  OneReservationPerOrder
PROPERTIES
  SettledForGood
  ImplementsLedger
  EveryTransactionEnds
