--------------------------- MODULE FuelLedgerProofs ---------------------------
(***************************************************************************)
(* INV-03 and INV-06 for any number of tankers, orders and reservations.    *)
(* The sum of live holds is the size of a set of litres, so a hold adds one *)
(* block of litres to it and a settle takes one away.                       *)
(***************************************************************************)
EXTENDS FuelLedger, FiniteSetTheorems, TLAPS

PromisesFinite == \A v \in Vehicle : IsFiniteSet(PromisedLitres(v))

IInv ==
  /\ TypeOK
  /\ PromisesFinite
  /\ HeldIsSumOfReservations
  /\ NothingPromisedTwice
  /\ OneReservationPerOrder

Block(r, q) == {r} \X (1 .. q)

-----------------------------------------------------------------------------
LEMMA BlockSize ==
  ASSUME NEW r, NEW q \in Nat
  PROVE  IsFiniteSet(Block(r, q)) /\ Cardinality(Block(r, q)) = q
<1>1. IsFiniteSet({r}) /\ Cardinality({r}) = 1
  BY FS_Singleton
<1>2. IsFiniteSet(1 .. q) /\ Cardinality(1 .. q) = q
  BY FS_Interval
<1>3. /\ IsFiniteSet(Block(r, q))
      /\ Cardinality(Block(r, q)) = Cardinality({r}) * Cardinality(1 .. q)
  BY <1>1, <1>2, FS_Product DEF Block
<1> QED
  BY <1>1, <1>2, <1>3

LEMMA InitIInv == Init => IInv
<1> SUFFICES ASSUME Init PROVE IInv
  OBVIOUS
<1>1. \A r \in Reservation : ~ HoldsFuel(r)
  BY DEF Init, HoldsFuel, Absent
<1>2. \A v \in Vehicle : PromisedLitres(v) = {}
  BY <1>1 DEF PromisedLitres, HeldOn
<1>3. TypeOK
  BY OpeningAssumption DEF Init, TypeOK
<1>4. PromisesFinite /\ HeldIsSumOfReservations
  BY <1>2, FS_EmptySet DEF Init, PromisesFinite, HeldIsSumOfReservations
<1>5. NothingPromisedTwice
  BY OpeningAssumption DEF Init, NothingPromisedTwice
<1>6. OneReservationPerOrder
  BY <1>1 DEF OneReservationPerOrder
<1> QED
  BY <1>3, <1>4, <1>5, <1>6 DEF IInv

-----------------------------------------------------------------------------
\* A hold adds its block of litres to its tanker, and to no other.
LEMMA HoldAddsBlock ==
  ASSUME TypeOK, NEW r \in Reservation, NEW o \in Order, NEW v \in Vehicle,
         NEW q \in Quantity, Hold(r, o, v, q), NEW w \in Vehicle
  PROVE  /\ v = w => PromisedLitres(w)' = PromisedLitres(w) \union Block(r, q)
         /\ v = w => PromisedLitres(w) \intersect Block(r, q) = {}
         /\ v # w => PromisedLitres(w)' = PromisedLitres(w)
<1>1. ~ HoldsFuel(r)
  BY DEF Hold, HoldsFuel, Absent
<1>2. reservation'[r] = HeldRow(o, v, q)
  BY DEF Hold, TypeOK
<1>3. \A s \in Reservation : s # r => reservation'[s] = reservation[s]
  BY DEF Hold, TypeOK
<1>4. HeldOn(w)' = IF v = w THEN HeldOn(w) \union {r} ELSE HeldOn(w)
  BY <1>1, <1>2, <1>3 DEF HeldOn, HoldsFuel, HeldRow
<1>5. \A s \in HeldOn(w) : s # r
  BY <1>1 DEF HeldOn
<1>6. reservation'[r].quantity = q
  BY <1>2 DEF HeldRow
<1>7. \A s \in HeldOn(w) : reservation'[s].quantity = reservation[s].quantity
  BY <1>3, <1>5 DEF HeldOn
<1>8. \A x \in PromisedLitres(w) : x[1] # r
  BY <1>5 DEF PromisedLitres
<1> QED
  BY <1>4, <1>5, <1>6, <1>7, <1>8 DEF PromisedLitres, Block

\* A settle takes the block of its reservation away from the tanker it was on.
LEMMA SettleRemovesBlock ==
  ASSUME TypeOK, NEW r \in Reservation, NEW final \in SettledStatus,
         Settle(r, final), NEW v, reservation[r].vehicle = v,
         NEW q, reservation[r].quantity = q, NEW w \in Vehicle
  PROVE  /\ v = w => PromisedLitres(w)' = PromisedLitres(w) \ Block(r, q)
         /\ v = w => Block(r, q) \subseteq PromisedLitres(w)
         /\ v # w => PromisedLitres(w)' = PromisedLitres(w)
<1>1. HoldsFuel(r) /\ reservation[r] \in ReservationRow
  BY DEF Settle, HoldsFuel, TypeOK, Absent
<1>2. reservation'[r] = [reservation[r] EXCEPT !.status = final]
  BY <1>1 DEF Settle, TypeOK
<1>3. \A s \in Reservation : s # r => reservation'[s] = reservation[s]
  BY DEF Settle, TypeOK
<1>4. ~ (reservation'[r].status = "HELD")
  BY <1>1, <1>2 DEF SettledStatus, ReservationRow
<1>5. HeldOn(w)' = HeldOn(w) \ {r}
  BY <1>3, <1>4 DEF HeldOn, HoldsFuel
<1>6. v = w => r \in HeldOn(w)
  BY <1>1 DEF HeldOn
<1>7. v # w => r \notin HeldOn(w)
  BY DEF HeldOn
<1>8. \A s \in HeldOn(w)' : reservation'[s].quantity = reservation[s].quantity
  BY <1>3, <1>5 DEF HeldOn
<1>9. PromisedLitres(w)' = UNION {{s} \X (1 .. reservation[s].quantity) : s \in HeldOn(w) \ {r}}
  BY <1>5, <1>8 DEF PromisedLitres
<1>10. v # w => PromisedLitres(w)' = PromisedLitres(w)
  BY <1>7, <1>9 DEF PromisedLitres
<1>11. v = w => Block(r, q) \subseteq PromisedLitres(w)
  BY <1>6 DEF PromisedLitres, Block
<1>12. PromisedLitres(w)' = PromisedLitres(w) \ Block(r, q)
  BY <1>9 DEF PromisedLitres, Block
<1> QED
  BY <1>10, <1>11, <1>12

-----------------------------------------------------------------------------
LEMMA HoldKeepsIInv ==
  ASSUME IInv, NEW r \in Reservation, NEW o \in Order, NEW v \in Vehicle,
         NEW q \in Quantity, Hold(r, o, v, q)
  PROVE  IInv'
<1> USE DEF IInv
<1>1. q \in Nat
  BY QuantityAssumption
<1>2. TypeOK'
  BY <1>1 DEF Hold, TypeOK, HeldRow, ReservationRow
<1>3. \A w \in Vehicle : held'[w] = IF v = w THEN held[w] + q ELSE held[w]
  BY DEF Hold, TypeOK
<1>4. ASSUME NEW w \in Vehicle
      PROVE  IsFiniteSet(PromisedLitres(w)') /\ held'[w] = Cardinality(PromisedLitres(w)')
  <2>1. IsFiniteSet(PromisedLitres(w)) /\ held[w] = Cardinality(PromisedLitres(w))
    BY DEF PromisesFinite, HeldIsSumOfReservations
  <2>2. CASE v # w
    BY <1>3, <2>1, <2>2, HoldAddsBlock
  <2>3. CASE v = w
    <3>1. IsFiniteSet(Block(r, q)) /\ Cardinality(Block(r, q)) = q
      BY <1>1, BlockSize
    <3>2. /\ PromisedLitres(w)' = PromisedLitres(w) \union Block(r, q)
          /\ PromisedLitres(w) \intersect Block(r, q) = {}
      BY <2>3, HoldAddsBlock
    <3>3. /\ IsFiniteSet(PromisedLitres(w) \union Block(r, q))
          /\ Cardinality(PromisedLitres(w) \union Block(r, q)) =
               Cardinality(PromisedLitres(w)) + Cardinality(Block(r, q)) - Cardinality({})
      BY <2>1, <3>1, <3>2, FS_Union
    <3>4. Cardinality({}) = 0
      BY FS_EmptySet
    <3>5. held[w] \in Nat /\ held'[w] = held[w] + q
      BY <1>3, <2>3 DEF TypeOK
    <3> QED
      BY <1>1, <2>1, <3>1, <3>2, <3>3, <3>4, <3>5
  <2> QED
    BY <2>2, <2>3
<1>5. PromisesFinite' /\ HeldIsSumOfReservations'
  BY <1>4 DEF PromisesFinite, HeldIsSumOfReservations
<1>6. NothingPromisedTwice'
  BY <1>1, <1>3 DEF Hold, NothingPromisedTwice, TypeOK
<1>7. OneReservationPerOrder'
  <2>1. reservation'[r] = HeldRow(o, v, q)
    BY DEF Hold, TypeOK
  <2>2. \A s \in Reservation : s # r => reservation'[s] = reservation[s]
    BY DEF Hold, TypeOK
  <2>3. \A s \in Reservation : HoldsFuel(s) => reservation[s].order # o
    BY DEF Hold, ActiveFor
  <2> QED
    BY <2>1, <2>2, <2>3 DEF OneReservationPerOrder, HoldsFuel, HeldRow
<1> QED
  BY <1>2, <1>5, <1>6, <1>7

LEMMA SettleKeepsIInv ==
  ASSUME IInv, NEW r \in Reservation, NEW final \in SettledStatus, Settle(r, final)
  PROVE  IInv'
<1> USE DEF IInv
<1>1. HoldsFuel(r) /\ reservation[r] \in ReservationRow
  BY DEF Settle, HoldsFuel, TypeOK, Absent
<1>2. PICK v \in Vehicle, q \in Nat : reservation[r].vehicle = v /\ reservation[r].quantity = q
  BY <1>1, QuantityAssumption DEF ReservationRow
<1>3. IsFiniteSet(Block(r, q)) /\ Cardinality(Block(r, q)) = q
  BY <1>2, BlockSize
<1>4. IsFiniteSet(PromisedLitres(v)) /\ held[v] = Cardinality(PromisedLitres(v))
  BY <1>2 DEF PromisesFinite, HeldIsSumOfReservations
<1>5. /\ PromisedLitres(v)' = PromisedLitres(v) \ Block(r, q)
      /\ Block(r, q) \subseteq PromisedLitres(v)
  BY <1>2, SettleRemovesBlock
\* The reservation is part of the sum, so GREATEST never has to clamp.
<1>6. q <= held[v]
  BY <1>3, <1>4, <1>5, FS_Subset
<1>7. \A w \in Vehicle : held'[w] = IF w = v THEN held[w] - q ELSE held[w]
  BY <1>2, <1>6 DEF Settle, LessButNotNegative, TypeOK
<1>8. TypeOK'
  <2>1. held' \in [Vehicle -> Nat]
    BY <1>2, <1>6, <1>7 DEF Settle, TypeOK
  <2>2. [reservation[r] EXCEPT !.status = final] \in ReservationRow
    BY <1>1 DEF ReservationRow
  <2>3. reservation' \in [Reservation -> ReservationRow \union {Absent}]
    BY <2>2 DEF Settle, TypeOK
  <2> QED
    BY <2>1, <2>3 DEF Settle, TypeOK
<1>9. ASSUME NEW w \in Vehicle
      PROVE  IsFiniteSet(PromisedLitres(w)') /\ held'[w] = Cardinality(PromisedLitres(w)')
  <2>1. CASE w # v
    BY <1>2, <1>7, <2>1, SettleRemovesBlock DEF PromisesFinite, HeldIsSumOfReservations
  <2>2. CASE w = v
    <3>1. /\ IsFiniteSet(PromisedLitres(v) \ Block(r, q))
          /\ Cardinality(PromisedLitres(v) \ Block(r, q)) =
               Cardinality(PromisedLitres(v)) - Cardinality(PromisedLitres(v) \intersect Block(r, q))
      BY <1>4, FS_Difference
    <3>2. PromisedLitres(v) \intersect Block(r, q) = Block(r, q)
      BY <1>5
    <3> QED
      BY <1>3, <1>4, <1>5, <1>7, <2>2, <3>1, <3>2
  <2> QED
    BY <2>1, <2>2
<1>10. PromisesFinite' /\ HeldIsSumOfReservations'
  BY <1>9 DEF PromisesFinite, HeldIsSumOfReservations
<1>11. NothingPromisedTwice'
  BY <1>2, <1>6, <1>7 DEF Settle, NothingPromisedTwice, TypeOK
<1>12. OneReservationPerOrder'
  <2>1. reservation'[r].status = final /\ final # "HELD"
    BY <1>1 DEF Settle, TypeOK, ReservationRow, SettledStatus
  <2>2. \A s \in Reservation : s # r => reservation'[s] = reservation[s]
    BY DEF Settle, TypeOK
  <2> QED
    BY <2>1, <2>2 DEF OneReservationPerOrder, HoldsFuel
<1> QED
  BY <1>8, <1>10, <1>11, <1>12

LEMMA AdjustKeepsIInv ==
  ASSUME IInv, NEW v \in Vehicle, NEW delta \in Movement, Adjust(v, delta)
  PROVE  IInv'
<1> USE DEF IInv
<1>1. delta \in Int
  BY MovementAssumption
<1>2. UNCHANGED <<reservation, held>>
  BY DEF Adjust
<1>3. TypeOK' /\ NothingPromisedTwice'
  BY <1>1, CapacityAssumption DEF Adjust, TypeOK, NothingPromisedTwice
<1>4. \A w \in Vehicle : PromisedLitres(w)' = PromisedLitres(w)
  BY <1>2 DEF PromisedLitres, HeldOn, HoldsFuel
<1>5. PromisesFinite' /\ HeldIsSumOfReservations'
  BY <1>2, <1>4 DEF PromisesFinite, HeldIsSumOfReservations
<1>6. OneReservationPerOrder'
  BY <1>2 DEF OneReservationPerOrder, HoldsFuel
<1> QED
  BY <1>3, <1>5, <1>6

LEMMA StepIInv == IInv /\ [Next]_ledger => IInv'
<1> SUFFICES ASSUME IInv, [Next]_ledger PROVE IInv'
  OBVIOUS
<1>1. CASE UNCHANGED ledger
  BY <1>1 DEF ledger, IInv, TypeOK, PromisesFinite, HeldIsSumOfReservations,
              NothingPromisedTwice, OneReservationPerOrder, PromisedLitres, HeldOn, HoldsFuel
<1>2. CASE Next
  BY <1>2, HoldKeepsIInv, SettleKeepsIInv, AdjustKeepsIInv DEF Next
<1> QED
  BY <1>1, <1>2

LEMMA InductiveInvariant == Spec => []IInv
BY InitIInv, StepIInv, PTL DEF Spec

-----------------------------------------------------------------------------
\* Columns keep their types: in particular no quantity is ever negative.
THEOREM TypeCorrect == Spec => []TypeOK
<1>1. IInv => TypeOK
  BY DEF IInv
<1> QED
  BY <1>1, InductiveInvariant, PTL

\* INV-03: held_quantity is the sum of the live reservations.
THEOREM HeldQuantityReconciles == Spec => []HeldIsSumOfReservations
<1>1. IInv => HeldIsSumOfReservations
  BY DEF IInv
<1> QED
  BY <1>1, InductiveInvariant, PTL

\* INV-03: no tanker promises more than it has, or has more than its tank.
THEOREM FuelIsNotPromisedTwice == Spec => []NothingPromisedTwice
<1>1. IInv => NothingPromisedTwice
  BY DEF IInv
<1> QED
  BY <1>1, InductiveInvariant, PTL

\* INV-06: an order has at most one live reservation.
THEOREM OrdersHoldOnce == Spec => []OneReservationPerOrder
<1>1. IInv => OneReservationPerOrder
  BY DEF IInv
<1> QED
  BY <1>1, InductiveInvariant, PTL

\* A settled reservation is never rewritten.
THEOREM SettledReservationsStay == Spec => SettledForGood
<1>1. TypeOK /\ [Next]_ledger =>
        [\A r \in Reservation :
           reservation[r] # Absent =>
             \/ reservation'[r] = reservation[r]
             \/ /\ HoldsFuel(r)
                /\ \E final \in SettledStatus :
                     reservation'[r] = [reservation[r] EXCEPT !.status = final]]_ledger
  BY DEF TypeOK, Next, Hold, Settle, Adjust, ledger
<1> QED
  BY <1>1, TypeCorrect, PTL DEF Spec, SettledForGood
================================================================================
