------------------------------ MODULE PumpUnlock ------------------------------
(***************************************************************************)
(* Unlocking the tanker's pump for one order                                 *)
(* (driver/services/iot-dispense.service.js, the iot-dispense providers and  *)
(* the customer's getOwnOrderPumpPin).  The pump is an external device: it   *)
(* may grant an unlock and have its answer lost.  The order meanwhile moves  *)
(* as the transition table lets it; its reservation only matters as held or  *)
(* not, and a pin is the request that drew it.                               *)
(***************************************************************************)
EXTENDS Requests, OrderStateMachine, Integers, SequencesExt

CONSTANTS MaxMoves   \* bound: transitions of the order while unlocks are asked for

ASSUME MovesBounded == MaxMoves \in Nat

VARIABLES
  orderStatus,     \* orders.status
  held,            \* the reservation on the driver's tanker is HELD
  moves,           \* transitions so far
  authorizations,  \* iot_dispense_authorizations, by creation
  granted          \* requests whose pin the pump has accepted

pump == <<orderStatus, held, moves, authorizations, granted>>

ALLOWED_STATUSES == {"ARRIVED", "DISPENSING"}

\* What the vendor answers: AUTHORIZED, another status, or no usable answer.
Reply == {"AUTHORIZED", "REFUSED", "FAILED"}

\* `looked` is no column: it is how many rows there were when the request looked.
AuthorizationRow == [by: Request, status: Reply, looked: Nat]

\* Mutant: any row counts, also one whose unlock failed.
findAnyAuthorization == Len(authorizations)

\* The newest AUTHORIZED row, or 0.
findAuthorized ==
  LET rows == {i \in DOMAIN authorizations : authorizations[i].status = "AUTHORIZED"}
  IN IF rows = {} THEN 0 ELSE CHOOSE i \in rows : \A k \in rows : k <= i

FindOrder(q) ==
  /\ At(q, "new")
  /\ orderStatus \in ALLOWED_STATUSES
  /\ Goto(q, [at |-> "existing", held |-> held])
  /\ UNCHANGED pump

\* A stored authorization is answered again instead of calling the pump.
FindExisting(q) ==
  /\ At(q, "existing")
  /\ IF findAuthorized # 0
     THEN Goto(q, [at |-> "done", authorization |-> findAuthorized])
     ELSE IF job[q].held THEN Goto(q, [at |-> "authorize", looked |-> Len(authorizations)])
                         ELSE Leave(q)
  /\ UNCHANGED pump

\* provider.authorize, up to the answer: a timeout says nothing about the device.
Authorize(q) ==
  /\ At(q, "authorize")
  /\ \E reply \in Reply :
       /\ Goto(q, [at |-> "record", reply |-> reply, looked |-> job[q].looked])
       /\ granted' \in CASE reply = "AUTHORIZED" -> {granted \cup {q}}
                         [] reply = "REFUSED"    -> {granted}
                         [] reply = "FAILED"     -> {granted, granted \cup {q}}
  /\ UNCHANGED <<orderStatus, held, moves, authorizations>>

RecordAuthorization(q) ==
  /\ At(q, "record")
  /\ authorizations' = Append(authorizations, [by |-> q, status |-> job[q].reply, looked |-> job[q].looked])
  /\ IF job[q].reply = "AUTHORIZED"
     THEN Goto(q, [at |-> "done", authorization |-> Len(authorizations) + 1])
     ELSE Leave(q)
  /\ UNCHANGED <<orderStatus, held, moves, granted>>

\* The pin the customer's app shows, and only while the driver is there.
getOwnOrderPumpPin ==
  IF orderStatus \in ALLOWED_STATUSES /\ findAuthorized # 0
  THEN authorizations[findAuthorized].by ELSE None

\* Everything else that happens to the order.
OrderMoves ==
  /\ moves < MaxMoves
  /\ \E to \in Status, actor \in Actor :
       CanTransition(orderStatus, to, actor) /\ orderStatus' = to
  /\ held' \in IF orderStatus' \in {"ALLOCATING"} \cup Terminal THEN {FALSE} ELSE {held, TRUE}
  /\ moves' = moves + 1
  /\ UNCHANGED <<job, authorizations, granted>>

PumpNext(q) == FindOrder(q) \/ FindExisting(q) \/ Authorize(q) \/ RecordAuthorization(q)

PumpInit ==
  /\ orderStatus = "EN_ROUTE" /\ held = TRUE /\ moves = 0
  /\ authorizations = << >> /\ granted = {}

PumpSpec ==
  RequestsInit /\ PumpInit /\ [][(\E q \in Request : PumpNext(q)) \/ OrderMoves]_<<job, pump>>

PumpTypeOK ==
  /\ orderStatus \in Status /\ held \in BOOLEAN /\ moves \in 0..MaxMoves
  /\ authorizations \in Seq(AuthorizationRow)
  /\ granted \subseteq Request

---------------------------------------------------------------------------
\* "An unlocked pump on a moving tanker is fuel with no customer": the pump is
\* never unlocked for an order that has not arrived or is back with dispatch,
\* the pin a customer reads out or a driver waits for is one the pump took, and
\* whoever asks after an unlock is on record gets that one.  Requests that looked
\* before it may each unlock the pump: see OneAuthorizationPerOrder.
PinOpensPumpOnSite ==
  /\ granted # {} => orderStatus \in {"ARRIVED", "DISPENSING"} \cup OutcomeRecorded \cup Terminal
  /\ getOwnOrderPumpPin \in granted \cup {None}
  /\ \A q \in Request : "authorization" \in DOMAIN job[q] => authorizations[job[q].authorization].by \in granted
  /\ \A i, k \in DOMAIN authorizations :
       i < k /\ authorizations[i].status = "AUTHORIZED" /\ authorizations[k].status = "AUTHORIZED"
       => authorizations[k].looked < i

\* "ONE AUTHORIZATION PER ORDER ... a second call would unlock the pump for a
\* second batch of litres" (authorizeDispense): no two rows are AUTHORIZED.
OneAuthorizationPerOrder ==
  \A i, k \in DOMAIN authorizations :
    authorizations[i].status = "AUTHORIZED" /\ authorizations[k].status = "AUTHORIZED" => i = k
===============================================================================
