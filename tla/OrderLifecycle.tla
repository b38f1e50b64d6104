---------------------------- MODULE OrderLifecycle ----------------------------
(***************************************************************************)
(* The life of one order as the sequence of transitionOrder calls the code  *)
(* makes on it, one action per call site, each taken as a whole.  The       *)
(* interleaving of the steps inside the calls is in OrderDispatch; here the  *)
(* question is which histories the table and the callers allow together.    *)
(***************************************************************************)
EXTENDS OrderStateMachine

VARIABLES
  status,          \* orders.status
  visited,         \* the toStatus column of the order's status events
  expiryArmed,     \* orders.expires_at is set
  cancelledAt,     \* orders.cancelled_at is set
  cancelledByKind  \* orders.cancelled_by_kind, "NONE" when null

order == <<status, visited, expiryArmed, cancelledAt, cancelledByKind>>

CancelledStatus == {"CANCELLED_BY_CUSTOMER", "CANCELLED_BY_ADMIN", "EXPIRED"}

\* createOrder: cash on delivery is CONFIRMED at once and has no clock, a
\* prepaid order is PENDING_PAYMENT with one.  No order starts as a DRAFT.
OrderInit ==
  /\ status \in {"CONFIRMED", "PENDING_PAYMENT"}
  /\ visited = {status}
  /\ expiryArmed = (status = "PENDING_PAYMENT")
  /\ cancelledAt = FALSE
  /\ cancelledByKind = "NONE"

-----------------------------------------------------------------------------
\* Mutants of patchFor: the clock is never disarmed; an expiry does not stamp
\* cancelled_at.
PatchKeepsClock(to, actor) ==
  /\ UNCHANGED expiryArmed
  /\ cancelledAt' = (cancelledAt \/ to \in CancelledStatus)
  /\ cancelledByKind' = IF to \in CancelledStatus THEN actor ELSE cancelledByKind

PatchSkipsExpiry(to, actor) ==
  /\ expiryArmed' = (expiryArmed /\ to # "CONFIRMED")
  /\ cancelledAt' = (cancelledAt \/ to \in CancelledStatus \ {"EXPIRED"})
  /\ cancelledByKind' = IF to \in CancelledStatus THEN actor ELSE cancelledByKind

\* patchFor: the columns a target status writes besides the status.
PatchFor(to, actor) ==
  /\ expiryArmed' = (expiryArmed /\ to # "CONFIRMED")
  /\ cancelledAt' = (cancelledAt \/ to \in CancelledStatus)
  /\ cancelledByKind' = IF to \in CancelledStatus THEN actor ELSE cancelledByKind

\* transitionOrder, with no other request in the middle of it.
Transition(to, actor) ==
  /\ CanTransition(status, to, actor)
  /\ status' = to
  /\ visited' = visited \union {to}
  /\ PatchFor(to, actor)

\* cancelOwnOrder refuses a moving tanker first, then anything not in the list.
CancelOwnOrder ==
  /\ status \notin CancellationRequestOnly
  /\ status \in CustomerCancellable
  /\ Transition("CANCELLED_BY_CUSTOMER", "CUSTOMER")

CancelAsAdmin == Transition("CANCELLED_BY_ADMIN", "ADMIN")

\* createOrder's compensation when the fuel could not be reserved.
CancelUnreserved == Transition("CANCELLED_BY_ADMIN", "SYSTEM")

\* POST /admin/orders/:id/transition; the schema keeps the cancellations out.
AdminTransition ==
  \E to \in Status \ {"CANCELLED_BY_CUSTOMER", "CANCELLED_BY_ADMIN"} :
    Transition(to, "ADMIN")

ExpireLapsed ==
  /\ expiryArmed
  /\ status \in {"DRAFT", "PENDING_PAYMENT", "PAYMENT_FAILED"}
  /\ Transition("EXPIRED", "SYSTEM")

\* The three transitions of acceptRequest and the two of rejectOrder.
OpenStatus == {"CONFIRMED", "ALLOCATION_FAILED"}

ClaimForDriver     == status \in OpenStatus /\ Transition("ALLOCATING", "SYSTEM")
AcceptFallsThrough == status = "ALLOCATING" /\ Transition("ALLOCATION_FAILED", "SYSTEM")
AssignToDriver     == status = "ALLOCATING" /\ Transition("ASSIGNED", "SYSTEM")
HandBack           == status = "ASSIGNED" /\ Transition("ALLOCATING", "SYSTEM")

LapseUnaccepted ==
  status \in OpenStatus /\ Transition("CANCELLED_BY_ADMIN", "SYSTEM")

StartTrip       == status = "ASSIGNED" /\ Transition("EN_ROUTE", "DRIVER")
MarkArrived     == status = "EN_ROUTE" /\ Transition("ARRIVED", "DRIVER")
StartDispensing == status = "ARRIVED" /\ Transition("DISPENSING", "DRIVER")

CompleteDelivery ==
  /\ status = "DISPENSING"
  /\ \E to \in OutcomeRecorded : Transition(to, "DRIVER")

OrderNext ==
  \/ CancelOwnOrder \/ CancelAsAdmin \/ CancelUnreserved \/ AdminTransition
  \/ ExpireLapsed \/ LapseUnaccepted
  \/ ClaimForDriver \/ AcceptFallsThrough \/ AssignToDriver \/ HandBack
  \/ StartTrip \/ MarkArrived \/ StartDispensing \/ CompleteDelivery

OrderSpec == OrderInit /\ [][OrderNext]_order

-----------------------------------------------------------------------------
\* The columns keep their types.
OrderTypeOK ==
  /\ status \in Status
  /\ visited \subseteq Status
  /\ expiryArmed \in BOOLEAN
  /\ cancelledAt \in BOOLEAN
  /\ cancelledByKind \in Actor \union {"NONE"}

\* The payment clock of an order that was ever CONFIRMED is off, whatever
\* happened to it since: the expiry sweep can never expire a paid order.
NoClockOnceConfirmed == "CONFIRMED" \in visited => ~ expiryArmed

\* Fuel is recorded as delivered only on an order that was confirmed, given to
\* a driver, driven, arrived and dispensing: no chain of operator and driver
\* transitions, re-allocations included, reaches an outcome around a stage.
DeliveryPassedEveryStage ==
  visited \intersect {"DELIVERED", "PARTIALLY_DELIVERED"} # {} =>
    {"CONFIRMED", "ASSIGNED", "EN_ROUTE", "ARRIVED", "DISPENSING"} \subseteq visited

\* An order with a recorded outcome is reconciled, never cancelled (BR-1207):
\* no history holds both an outcome and a cancellation or an expiry.
OutcomeNeverCancelled ==
  visited \intersect OutcomeRecorded # {} => visited \intersect CancelledStatus = {}

\* orders_cancelled_states_are_consistent, and who cancelled: the database
\* constraint never fires (it would be a 500) and the recorded kind agrees
\* with the status a refund is decided on.
CancellationRecordAgrees ==
  /\ cancelledAt <=> status \in CancelledStatus
  /\ status = "CANCELLED_BY_CUSTOMER" <=> cancelledByKind = "CUSTOMER"
  /\ status = "EXPIRED" => cancelledByKind = "SYSTEM"
================================================================================
