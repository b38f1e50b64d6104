--------------------------- MODULE OrderStateMachine ---------------------------
(***************************************************************************)
(* The table of legal order transitions (src/modules/order/state-machine.js)*)
(* and the decision canTransition takes over it.  No variables: every       *)
(* module in which an order changes status extends this one.               *)
(***************************************************************************)

\* ORDER_STATUS, the fulfilment axis.
Status ==
  {"DRAFT", "PENDING_PAYMENT", "PAYMENT_FAILED", "CONFIRMED", "ALLOCATING",
   "ALLOCATION_FAILED", "ASSIGNED", "EN_ROUTE", "ARRIVED", "DISPENSING",
   "DELIVERED", "PARTIALLY_DELIVERED", "DELIVERY_FAILED",
   "CANCELLED_BY_CUSTOMER", "CANCELLED_BY_ADMIN", "EXPIRED", "CLOSED"}

\* ACTOR_KIND.
Actor == {"CUSTOMER", "DRIVER", "ADMIN", "SYSTEM"}

CustomerCancellable ==
  {"DRAFT", "PENDING_PAYMENT", "PAYMENT_FAILED", "CONFIRMED", "ALLOCATING",
   "ALLOCATION_FAILED", "ASSIGNED"}

\* CANCELLATION_REQUEST_STATUSES: the tanker is moving or fuel is flowing.
CancellationRequestOnly == {"EN_ROUTE", "ARRIVED", "DISPENSING"}

Terminal == {"CANCELLED_BY_CUSTOMER", "CANCELLED_BY_ADMIN", "EXPIRED", "CLOSED"}

OutcomeRecorded == {"DELIVERED", "PARTIALLY_DELIVERED", "DELIVERY_FAILED"}

Row(from, to, actors) == [from |-> from, to |-> to, actors |-> actors]

TRANSITIONS ==
  { Row("DRAFT", "PENDING_PAYMENT", {"CUSTOMER", "SYSTEM"}),
    Row("DRAFT", "CONFIRMED", {"CUSTOMER", "SYSTEM"}),
    Row("PENDING_PAYMENT", "CONFIRMED", {"SYSTEM", "ADMIN"}),
    Row("PENDING_PAYMENT", "PAYMENT_FAILED", {"SYSTEM", "ADMIN"}),
    Row("PAYMENT_FAILED", "PENDING_PAYMENT", {"CUSTOMER", "SYSTEM"}),
    Row("CONFIRMED", "ALLOCATING", {"SYSTEM", "ADMIN"}),
    Row("ALLOCATING", "ASSIGNED", {"SYSTEM", "ADMIN"}),
    Row("ALLOCATING", "ALLOCATION_FAILED", {"SYSTEM"}),
    Row("ALLOCATION_FAILED", "ALLOCATING", {"SYSTEM", "ADMIN"}),
    Row("ALLOCATION_FAILED", "ASSIGNED", {"ADMIN"}),
    Row("ASSIGNED", "EN_ROUTE", {"DRIVER", "ADMIN"}),
    Row("ASSIGNED", "ALLOCATING", {"SYSTEM", "ADMIN"}),
    Row("EN_ROUTE", "ARRIVED", {"DRIVER", "SYSTEM", "ADMIN"}),
    Row("EN_ROUTE", "ALLOCATING", {"SYSTEM", "ADMIN"}),
    Row("ARRIVED", "DISPENSING", {"DRIVER", "ADMIN"}),
    Row("ARRIVED", "DELIVERY_FAILED", {"DRIVER", "ADMIN"}),
    Row("DISPENSING", "DELIVERED", {"DRIVER", "ADMIN"}),
    Row("DISPENSING", "PARTIALLY_DELIVERED", {"DRIVER", "ADMIN"}),
    Row("DISPENSING", "DELIVERY_FAILED", {"DRIVER", "ADMIN"}),
    Row("DELIVERED", "CLOSED", {"SYSTEM", "ADMIN"}),
    Row("PARTIALLY_DELIVERED", "CLOSED", {"SYSTEM", "ADMIN"}),
    Row("DELIVERY_FAILED", "CLOSED", {"SYSTEM", "ADMIN"}),
    Row("DRAFT", "EXPIRED", {"SYSTEM"}),
    Row("PENDING_PAYMENT", "EXPIRED", {"SYSTEM"}),
    Row("PAYMENT_FAILED", "EXPIRED", {"SYSTEM"}) }

CUSTOMER_CANCELLATIONS ==
  { Row(s, "CANCELLED_BY_CUSTOMER", {"CUSTOMER"}) : s \in CustomerCancellable }

\* Mutant: a recorded outcome may be cancelled like any other status.
CancellableAfterOutcome ==
  { Row(s, "CANCELLED_BY_ADMIN", {"ADMIN", "SYSTEM"}) : s \in Status \ Terminal }

ADMIN_CANCELLATIONS ==
  { Row(s, "CANCELLED_BY_ADMIN", {"ADMIN", "SYSTEM"}) :
      s \in Status \ (Terminal \union OutcomeRecorded) }

TransitionTable ==
  TRANSITIONS \union CUSTOMER_CANCELLATIONS \union ADMIN_CANCELLATIONS

\* Mutant: an operator is not held to the table.
CanTransitionTrustingAdmin(from, to, actor) ==
  /\ from # to
  /\ from \notin Terminal
  /\ \/ actor = "ADMIN"
     \/ \E t \in TransitionTable : t.from = from /\ t.to = to /\ actor \in t.actors

\* May actor move an order from `from` to `to`?  Whether a refusal is the 403 of
\* a wrong actor or a 409 does not change what the caller does next.
CanTransition(from, to, actor) ==
  /\ from # to
  /\ from \notin Terminal
  /\ \E t \in TransitionTable : t.from = from /\ t.to = to /\ actor \in t.actors
================================================================================
