------------------------------ MODULE FuelLedger ------------------------------
(***************************************************************************)
(* What the fuel ledger promises: the litres in each tanker, the litres of  *)
(* them that are promised away, and the reservations that say to whom.      *)
(* Each operation is one step here; InventoryTx has the transactions that   *)
(* carry them out, statement by statement, and implements this module.      *)
(***************************************************************************)
EXTENDS Integers, FiniteSets

CONSTANTS
  Reservation,   \* ids a new fuel_reservations row may be given
  Order,
  Vehicle,
  Quantity,      \* litres an order may ask for
  Capacity,      \* vehicles.tank_capacity, by vehicle
  Opening,       \* litres in each tanker when the model starts
  Movement       \* signed litres a refill or a correction may move

ASSUME QuantityAssumption == Quantity \subseteq Nat \ {0}
ASSUME CapacityAssumption == Capacity \in [Vehicle -> Nat]
ASSUME OpeningAssumption ==
  Opening \in [Vehicle -> Nat] /\ \A v \in Vehicle : Opening[v] <= Capacity[v]
ASSUME MovementAssumption == Movement \subseteq Int

VARIABLES
  reservation,   \* fuel_reservations by id; Absent until inserted
  current,       \* vehicle_inventory.current_quantity
  held           \* vehicle_inventory.held_quantity

ledger == <<reservation, current, held>>

Absent == [status |-> "ABSENT"]

\* CONSUMED is a status of the column too; no caller of settle passes it.
SettledStatus == {"RELEASED", "EXPIRED"}

ReservationRow ==
  [status : {"HELD"} \union SettledStatus, order : Order, vehicle : Vehicle,
   quantity : Quantity]

HeldRow(o, v, q) == [status |-> "HELD", order |-> o, vehicle |-> v, quantity |-> q]

HoldsFuel(r) == reservation[r].status = "HELD"

\* findActiveForOrder: the live holds of an order.
ActiveFor(o) == {r \in Reservation : HoldsFuel(r) /\ reservation[r].order = o}

HeldOn(v) == {r \in Reservation : HoldsFuel(r) /\ reservation[r].vehicle = v}

Init ==
  /\ reservation = [r \in Reservation |-> Absent]
  /\ current = Opening
  /\ held = [v \in Vehicle |-> 0]

-----------------------------------------------------------------------------
\* hold: BR-406 inside the lock, and the partial unique index that allows one
\* HELD row per order.  Refusals change nothing.
Hold(r, o, v, q) ==
  /\ reservation[r] = Absent
  /\ current[v] - held[v] >= q
  /\ ActiveFor(o) = {}
  /\ reservation' = [reservation EXCEPT ![r] = HeldRow(o, v, q)]
  /\ held' = [held EXCEPT ![v] = @ + q]
  /\ UNCHANGED current

\* GREATEST(held - q, 0)
LessButNotNegative(litres, q) == IF litres >= q THEN litres - q ELSE 0

\* settle: the claim is conditional on the row being HELD, so a second settle
\* of the same row changes nothing.
Settle(r, final) ==
  /\ HoldsFuel(r)
  /\ reservation' = [reservation EXCEPT ![r].status = final]
  /\ held' = [held EXCEPT ![reservation[r].vehicle] =
                LessButNotNegative(@, reservation[r].quantity)]
  /\ UNCHANGED current

\* postAdjustment: refuses an empty or overfull tank; the database refuses to
\* leave less than is promised (vehicle_inventory_held_within_current).
Adjust(v, delta) ==
  /\ current[v] + delta \in 0 .. Capacity[v]
  /\ held[v] <= current[v] + delta
  /\ current' = [current EXCEPT ![v] = @ + delta]
  /\ UNCHANGED <<reservation, held>>

Next ==
  \/ \E r \in Reservation, o \in Order, v \in Vehicle, q \in Quantity : Hold(r, o, v, q)
  \/ \E r \in Reservation, final \in SettledStatus : Settle(r, final)
  \/ \E v \in Vehicle, delta \in Movement : Adjust(v, delta)

Spec == Init /\ [][Next]_ledger

-----------------------------------------------------------------------------
TypeOK ==
  /\ reservation \in [Reservation -> ReservationRow \union {Absent}]
  /\ current \in [Vehicle -> Nat]
  /\ held \in [Vehicle -> Nat]

\* The litres promised on a tanker, each as the pair of its reservation and its
\* number in it: a sum written as the size of a set.
PromisedLitres(v) == UNION {{r} \X (1 .. reservation[r].quantity) : r \in HeldOn(v)}

\* INV-03, the reconciliation of sumHeldForVehicle: the cached total equals the
\* sum of the live reservations, through every order of holds and settles.
HeldIsSumOfReservations == \A v \in Vehicle : held[v] = Cardinality(PromisedLitres(v))

\* INV-03, the other half: no litre is promised that the tanker does not have,
\* and no tanker holds more than its tank.
NothingPromisedTwice ==
  \A v \in Vehicle : held[v] <= current[v] /\ current[v] <= Capacity[v]

\* INV-06: an order has at most one live reservation.
OneReservationPerOrder ==
  \A r, s \in Reservation :
    HoldsFuel(r) /\ HoldsFuel(s) /\ reservation[r].order = reservation[s].order => r = s

\* A settled reservation is a record: no later hold, settle or sweep rewrites it,
\* and a live one keeps its order, vehicle and litres until it is settled.
SettledForGood ==
  [][\A r \in Reservation :
       reservation[r] # Absent =>
         \/ reservation'[r] = reservation[r]
         \/ /\ HoldsFuel(r)
            /\ \E final \in SettledStatus :
                 reservation'[r] = [reservation[r] EXCEPT !.status = final]]_ledger
================================================================================
