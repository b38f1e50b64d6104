------------------------- MODULE OrderLifecycleProofs -------------------------
(***************************************************************************)
(* The invariants of OrderLifecycle, for histories of every length.  The    *)
(* table is finite, so the work is in the strengthening: each stage is tied *)
(* to the one the table puts before it, and each class of statuses to the   *)
(* statuses an order in it can still have.                                  *)
(***************************************************************************)
EXTENDS OrderLifecycle, TLAPS

\* Statuses no order is in before it has been CONFIRMED.
AfterConfirmation ==
  {"CONFIRMED", "ALLOCATING", "ALLOCATION_FAILED", "ASSIGNED", "EN_ROUTE",
   "ARRIVED", "DISPENSING", "DELIVERED", "PARTIALLY_DELIVERED", "DELIVERY_FAILED"}

StagesChained ==
  /\ visited \intersect AfterConfirmation # {} => "CONFIRMED" \in visited
  /\ "EN_ROUTE" \in visited => "ASSIGNED" \in visited
  /\ "ARRIVED" \in visited => "EN_ROUTE" \in visited
  /\ "DISPENSING" \in visited => "ARRIVED" \in visited
  /\ visited \intersect {"DELIVERED", "PARTIALLY_DELIVERED"} # {} => "DISPENSING" \in visited

OutcomeIsSticky ==
  /\ visited \intersect OutcomeRecorded # {} => status \in OutcomeRecorded \union {"CLOSED"}
  /\ visited \intersect CancelledStatus # {} => status \in CancelledStatus

\* CONFIRMED is never left backwards, so the clock it stopped stays stopped.
ClockIsForUnpaid ==
  /\ "CONFIRMED" \in visited =>
       status \in AfterConfirmation \union {"CLOSED", "CANCELLED_BY_CUSTOMER", "CANCELLED_BY_ADMIN"}
  /\ NoClockOnceConfirmed

OrderIInv ==
  /\ OrderTypeOK
  /\ status \in visited
  /\ StagesChained
  /\ OutcomeIsSticky
  /\ ClockIsForUnpaid
  /\ CancellationRecordAgrees

-----------------------------------------------------------------------------
\* Each call site is a Transition by some actor; only the customer's own
\* cancellation is by a CUSTOMER, and only the sweep expires.
LEMMA NextIsTransition ==
  ASSUME OrderNext
  PROVE  \E to \in Status, actor \in Actor :
           /\ Transition(to, actor)
           /\ to = "CANCELLED_BY_CUSTOMER" => actor = "CUSTOMER"
           /\ to = "CANCELLED_BY_ADMIN" => actor \in {"ADMIN", "SYSTEM"}
BY DEF OrderNext, CancelOwnOrder, CancelAsAdmin, CancelUnreserved, AdminTransition,
       ExpireLapsed, LapseUnaccepted, ClaimForDriver, AcceptFallsThrough,
       AssignToDriver, HandBack, StartTrip, MarkArrived, StartDispensing,
       CompleteDelivery, Status, Actor, OutcomeRecorded

\* What the table says of one step, as membership facts.
LEMMA TableFacts ==
  ASSUME NEW from, NEW to, NEW actor, CanTransition(from, to, actor)
  PROVE  /\ from \notin Terminal
         /\ to \in Status
         /\ to = "EXPIRED" => /\ actor = "SYSTEM"
                              /\ from \in {"DRAFT", "PENDING_PAYMENT", "PAYMENT_FAILED"}
         /\ to \in {"PENDING_PAYMENT", "PAYMENT_FAILED"} =>
              from \in {"DRAFT", "PENDING_PAYMENT", "PAYMENT_FAILED"}
         /\ to # "DRAFT"
         /\ to \in AfterConfirmation \ {"CONFIRMED"} => from \in AfterConfirmation
         /\ to = "CONFIRMED" => from \in {"DRAFT", "PENDING_PAYMENT"}
         /\ to = "EN_ROUTE" => from = "ASSIGNED"
         /\ to = "ARRIVED" => from = "EN_ROUTE"
         /\ to = "DISPENSING" => from = "ARRIVED"
         /\ to \in {"DELIVERED", "PARTIALLY_DELIVERED"} => from = "DISPENSING"
         /\ from \in OutcomeRecorded => to = "CLOSED"
         /\ to = "CLOSED" => from \in OutcomeRecorded
         /\ to = "CANCELLED_BY_CUSTOMER" => actor = "CUSTOMER"
         /\ to = "CANCELLED_BY_ADMIN" => actor \in {"ADMIN", "SYSTEM"}
<1>1. PICK t \in TransitionTable : t.from = from /\ t.to = to /\ actor \in t.actors
  BY DEF CanTransition
<1>2. from \notin Terminal
  BY DEF CanTransition
<1>3. CASE t \in TRANSITIONS
  BY <1>1, <1>2, <1>3 DEF TRANSITIONS, Row, Terminal, Status, AfterConfirmation, OutcomeRecorded
<1>4. CASE t \in CUSTOMER_CANCELLATIONS
  BY <1>1, <1>2, <1>4 DEF CUSTOMER_CANCELLATIONS, CustomerCancellable, Row, Terminal,
                          Status, AfterConfirmation, OutcomeRecorded
<1>5. CASE t \in ADMIN_CANCELLATIONS
  BY <1>1, <1>2, <1>5 DEF ADMIN_CANCELLATIONS, Row, Terminal, Status,
                          AfterConfirmation, OutcomeRecorded
<1> QED
  BY <1>1, <1>3, <1>4, <1>5 DEF TransitionTable

-----------------------------------------------------------------------------
LEMMA OrderInitIInv == OrderInit => OrderIInv
BY DEF OrderInit, OrderIInv, OrderTypeOK, StagesChained, OutcomeIsSticky, ClockIsForUnpaid,
       NoClockOnceConfirmed, CancellationRecordAgrees, AfterConfirmation, Status,
       Actor, OutcomeRecorded, CancelledStatus

LEMMA OrderStepIInv == OrderIInv /\ [OrderNext]_order => OrderIInv'
<1> SUFFICES ASSUME OrderIInv, [OrderNext]_order PROVE OrderIInv'
  OBVIOUS
<1>1. CASE UNCHANGED order
  BY <1>1 DEF OrderIInv, order, OrderTypeOK, StagesChained, OutcomeIsSticky, ClockIsForUnpaid,
              NoClockOnceConfirmed, CancellationRecordAgrees
<1>2. CASE OrderNext
  <2>1. PICK to \in Status, actor \in Actor : Transition(to, actor)
    BY <1>2, NextIsTransition
  <2>2. CanTransition(status, to, actor)
    BY <2>1 DEF Transition
  <2>3. status' = to /\ visited' = visited \union {to}
    BY <2>1 DEF Transition
  <2>4. OrderTypeOK'
    BY <2>1, <2>3 DEF OrderIInv, OrderTypeOK, Transition, PatchFor
  <2>5. (status \in visited)'
    BY <2>3
  <2>6. StagesChained'
    BY <2>2, <2>3, TableFacts DEF OrderIInv, StagesChained, AfterConfirmation
  <2>7. OutcomeIsSticky'
    BY <2>2, <2>3, TableFacts DEF OrderIInv, OutcomeIsSticky, OutcomeRecorded, CancelledStatus, Terminal
  <2>8. ClockIsForUnpaid'
    <3>1. expiryArmed' = (expiryArmed /\ to # "CONFIRMED")
      BY <2>1 DEF Transition, PatchFor
    <3>2. NoClockOnceConfirmed'
      BY <2>3, <3>1 DEF OrderIInv, ClockIsForUnpaid, NoClockOnceConfirmed
    <3>3. ASSUME "CONFIRMED" \in visited
          PROVE  to \in AfterConfirmation \union
                        {"CLOSED", "CANCELLED_BY_CUSTOMER", "CANCELLED_BY_ADMIN"}
      BY <2>2, <3>3, TableFacts DEF OrderIInv, ClockIsForUnpaid, AfterConfirmation, Status, Terminal
    <3>4. to = "CONFIRMED" => to \in AfterConfirmation
      BY DEF AfterConfirmation
    <3> QED
      BY <2>3, <3>2, <3>3, <3>4 DEF ClockIsForUnpaid
  <2>9. CancellationRecordAgrees'
    <3>1. /\ cancelledAt' = (cancelledAt \/ to \in CancelledStatus)
          /\ cancelledByKind' = IF to \in CancelledStatus THEN actor ELSE cancelledByKind
      BY <2>1 DEF Transition, PatchFor
    <3>2. status \notin CancelledStatus /\ ~ cancelledAt
      BY <2>2, TableFacts DEF OrderIInv, OrderTypeOK, CancellationRecordAgrees, CancelledStatus, Terminal
    <3>3. cancelledByKind # "CUSTOMER"
      BY <3>2 DEF OrderIInv, CancellationRecordAgrees, CancelledStatus
    <3> QED
      BY <2>2, <2>3, <3>1, <3>2, <3>3, TableFacts DEF CancellationRecordAgrees, CancelledStatus
  <2> QED
    BY <2>4, <2>5, <2>6, <2>7, <2>8, <2>9 DEF OrderIInv
<1> QED
  BY <1>1, <1>2

LEMMA OrderInvariance == OrderSpec => []OrderIInv
BY OrderInitIInv, OrderStepIInv, PTL DEF OrderSpec

-----------------------------------------------------------------------------
\* The columns of orders keep their types under every call site.
THEOREM OrderTypeCorrect == OrderSpec => []OrderTypeOK
<1>1. OrderIInv => OrderTypeOK
  BY DEF OrderIInv
<1> QED
  BY <1>1, OrderInvariance, PTL

\* The expiry sweep can never reach an order that has been confirmed.
THEOREM ConfirmedOrdersNeverLapse == OrderSpec => []NoClockOnceConfirmed
<1>1. OrderIInv => NoClockOnceConfirmed
  BY DEF OrderIInv, ClockIsForUnpaid
<1> QED
  BY <1>1, OrderInvariance, PTL

\* No history reaches a delivery around a stage of the trip.
THEOREM DeliveriesPassEveryStage == OrderSpec => []DeliveryPassedEveryStage
<1>1. OrderIInv => DeliveryPassedEveryStage
  BY DEF OrderIInv, StagesChained, DeliveryPassedEveryStage, AfterConfirmation
<1> QED
  BY <1>1, OrderInvariance, PTL

\* No history holds both an outcome and a cancellation (BR-1207).
THEOREM OutcomesAreNeverCancelled == OrderSpec => []OutcomeNeverCancelled
<1>1. OrderIInv => OutcomeNeverCancelled
  BY DEF OrderIInv, OutcomeIsSticky, OutcomeNeverCancelled, OutcomeRecorded, CancelledStatus
<1> QED
  BY <1>1, OrderInvariance, PTL

\* The cancellation columns agree with the status they explain.
THEOREM CancellationRecordsAgree == OrderSpec => []CancellationRecordAgrees
<1>1. OrderIInv => CancellationRecordAgrees
  BY DEF OrderIInv
<1> QED
  BY <1>1, OrderInvariance, PTL
================================================================================
