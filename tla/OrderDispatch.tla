----------------------------- MODULE OrderDispatch -----------------------------
(***************************************************************************)
(* Orders, fuel and drivers together: the requests that move an order and    *)
(* its fuel, each as the sequence of database statements and transactions it *)
(* awaits, interleaved with one another, with the sweep timer and with the   *)
(* restart of the process.  One step is one statement or one transaction;    *)
(* the ledger's transactions are atomic here because InventoryTx implements  *)
(* FuelLedger.                                                              *)
(***************************************************************************)
EXTENDS FuelLedger, OrderStateMachine

CONSTANTS
  None,
  Request,        \* requests that arrive, each served once
  Sweeper,        \* the 30-second timer of server.js
  Kind,           \* the endpoints (and "SWEEP") that are in use
  InitialStatus,  \* CONFIRMED (cash on delivery), PENDING_PAYMENT (prepaid)
  AdminTarget,    \* statuses an operator asks for
  Litres,         \* orders.quantity, by order
  Scheduled,      \* orders with a delivery time
  Compliant,      \* tankers without a hard blocker other than an empty tank
  MaxCrashes      \* bound: restarts of the process

ASSUME NoneAssumption == None \notin Vehicle \union Status
ASSUME InitialStatusAssumption == InitialStatus \subseteq {"CONFIRMED", "PENDING_PAYMENT"}
ASSUME CompliantAssumption == Compliant \subseteq Vehicle
ASSUME LitresAssumption == Litres \in [Order -> Quantity]
ASSUME RowsSuffice ==
  Cardinality(Reservation) >= Cardinality(Order) + 2 * Cardinality(Request)

VARIABLES
  status,    \* orders.status, "NONE" before the order is placed
  event,     \* the latest order_status_events row of the order
  lapsed,    \* searchDeadlineOf(order) has passed
  carrier,   \* the tanker named by the latest "assigned" event
  job,       \* what each request is doing and has read
  queue,     \* orders the running sweep has listed, with the status it saw
  crashes

orders == <<status, event, lapsed, carrier>>
vars == <<ledger, orders, job, queue, crashes>>

\* A driver is the tanker of their active assignment.  Placing is a process of
\* its own for every order: its create request.
Process == Request \union Order \union {Sweeper}

OpenStatus == {"CONFIRMED", "ALLOCATION_FAILED"}
CancelledStatus == {"CANCELLED_BY_CUSTOMER", "CANCELLED_BY_ADMIN", "EXPIRED"}

\* SIDE_EFFECTS: the targets that give the fuel back.
ReleasesFuel(to) == to \in CancelledStatus \union {"DELIVERY_FAILED"}

Job(stage, at, o) ==
  [stage |-> stage, at |-> at, order |-> o, driver |-> None, was |-> None,
   to |-> None, actor |-> None, expect |-> None, from |-> None,
   row |-> None, named |-> None, left |-> {}]

New  == Job("NEW", "start", None)
Done == Job("DONE", "end", None)

\* A call of transitionOrder, of reserve, and of release, as the next thing a
\* request does.
Transition(j, stage, to, actor, expect) ==
  [Job(stage, "read", j.order) EXCEPT
     !.driver = j.driver, !.was = j.was, !.to = to, !.actor = actor, !.expect = expect]

Reserve(j, stage, v) ==
  [Job(stage, "active", j.order) EXCEPT !.driver = j.driver, !.was = j.was, !.named = v]

Release(j, stage, r) ==
  [Job(stage, "settle", j.order) EXCEPT !.driver = j.driver, !.was = j.was, !.row = r]

-----------------------------------------------------------------------------
\* What a request does after a call of it returned (ok) or threw.

\* Mutant: fuel that is held somewhere is left where it is.
MoveIfUnheld(j) == j.was = None

MustMove(j) == j.was = None \/ reservation[j.was].vehicle # j.driver

Assign(j) == Transition(j, "ASSIGN", "ASSIGNED", "SYSTEM", "ALLOCATING")

\* Mutant: the fall-through is asked for as an operator, which the table refuses.
FallThroughAsAdmin(j) == Transition(j, "FALL_THROUGH", "ALLOCATION_FAILED", "ADMIN", "ALLOCATING")

FallThrough(j) == Transition(j, "FALL_THROUGH", "ALLOCATION_FAILED", "SYSTEM", "ALLOCATING")

After(j, ok) ==
  CASE j.stage = "CLAIM" /\ ok ->
         IF ~ MustMove(j) THEN Assign(j)
         ELSE IF j.was # None THEN Release(j, "DROP", j.was)
         ELSE Reserve(j, "MOVE", j.driver)
    [] j.stage = "DROP" -> Reserve(j, "MOVE", j.driver)
    [] j.stage = "MOVE" ->
         IF ok THEN Assign(j)
         ELSE IF j.was # None THEN Reserve(j, "RESTORE", reservation[j.was].vehicle)
         ELSE FallThrough(j)
    [] j.stage = "RESTORE" -> FallThrough(j)
    [] j.stage = "HAND_BACK" /\ ok ->
         Transition(j, "RETURN", "ALLOCATION_FAILED", "SYSTEM", "ALLOCATING")
    [] j.stage = "PLACE" /\ ~ ok ->
         Transition(j, "COMPENSATE", "CANCELLED_BY_ADMIN", "SYSTEM", None)
    [] OTHER -> Done

Goto(p, at) == job' = [job EXCEPT ![p].at = at]
Leave(p, ok) == job' = [job EXCEPT ![p] = After(job[p], ok)]

-----------------------------------------------------------------------------
\* transitionOrder: the read, the expectedStatus guard and the table.
ReadOrder(p) ==
  LET j == job[p]
      s == status[j.order]
  IN  /\ j.at = "read"
      /\ IF j.expect \in {None, s} /\ CanTransition(s, j.to, j.actor)
           THEN job' = [job EXCEPT ![p].from = s,
                          ![p].at = IF ReleasesFuel(j.to) THEN "find" ELSE "write"]
           ELSE Leave(p, FALSE)
      /\ UNCHANGED <<ledger, orders, queue, crashes>>

\* releaseForOrder: the live hold, if any, is settled by id.
FindHold(p) ==
  LET j == job[p]
      active == ActiveFor(j.order)
  IN  /\ j.at = "find"
      /\ \/ /\ active = {}
            /\ IF j.stage = "ADMIN_RELEASE" THEN Leave(p, TRUE) ELSE Goto(p, "write")
         \/ \E r \in active : job' = [job EXCEPT ![p].at = "settle", ![p].row = r]
      /\ UNCHANGED <<ledger, orders, queue, crashes>>

SettleHold(p) ==
  LET j == job[p]
  IN  /\ j.at = "settle"
      /\ \/ Settle(j.row, IF j.to = "EXPIRED" THEN "EXPIRED" ELSE "RELEASED")
         \/ ~ HoldsFuel(j.row) /\ UNCHANGED ledger
      /\ IF j.stage \in {"DROP", "ADMIN_RELEASE"} THEN Leave(p, TRUE) ELSE Goto(p, "write")
      /\ UNCHANGED <<orders, queue, crashes>>

\* Mutant: the update is by id, whatever the status has become.
OverwriteStatus(p) ==
  LET j == job[p]
      o == j.order
  IN  /\ j.at = "write"
      /\ status' = [status EXCEPT ![o] = j.to]
      /\ event' = [event EXCEPT ![o] = <<j.from, j.to>>]
      /\ lapsed' = [lapsed EXCEPT ![o] = @ /\ o \in Scheduled]
      /\ carrier' = [carrier EXCEPT ![o] = IF j.stage = "ASSIGN" THEN j.driver ELSE @]
      /\ Leave(p, TRUE)
      /\ UNCHANGED <<ledger, queue, crashes>>

\* applyTransition compares the status only; the status event is written with it.
\* A new status restarts the search window of an order-now order.
WriteStatus(p) ==
  LET j == job[p]
      o == j.order
  IN  /\ j.at = "write"
      /\ IF status[o] = j.from
           THEN /\ status' = [status EXCEPT ![o] = j.to]
                /\ event' = [event EXCEPT ![o] = <<j.from, j.to>>]
                /\ lapsed' = [lapsed EXCEPT ![o] = @ /\ o \in Scheduled]
                /\ carrier' = [carrier EXCEPT ![o] = IF j.stage = "ASSIGN" THEN j.driver ELSE @]
                /\ Leave(p, TRUE)
           ELSE UNCHANGED orders /\ Leave(p, FALSE)
      /\ UNCHANGED <<ledger, queue, crashes>>

-----------------------------------------------------------------------------
\* findCandidateVehicles, read outside any lock and limited to ten.
Candidates(o) == {v \in Vehicle : current[v] - held[v] >= Litres[o]}

\* reserve: INV-06, then the named tanker if it is dispatchable, or the list.
CheckReservable(p) ==
  LET j == job[p]
      choices == CASE j.named = None         -> Candidates(j.order)
                   [] j.named \in Compliant  -> {j.named}
                   [] OTHER                  -> {}
  IN  /\ j.at = "active"
      /\ IF ActiveFor(j.order) # {} \/ choices = {}
           THEN Leave(p, FALSE)
           ELSE job' = [job EXCEPT ![p].at = "hold", ![p].left = choices]
      /\ UNCHANGED <<ledger, orders, queue, crashes>>

\* freeLitres, before an accept claims anything.
CheckFreeLitres(p) ==
  LET j == job[p]
  IN  /\ j.at = "fuel"
      /\ IF j.driver \in Candidates(j.order) THEN Goto(p, "read") ELSE job' = [job EXCEPT ![p] = Done]
      /\ UNCHANGED <<ledger, orders, queue, crashes>>

FreshRow == CHOOSE r \in Reservation : reservation[r] = Absent

\* One attempt of the loop: too little fuel tries the next candidate; the unique
\* index throws out of the loop.
TryHold(p) ==
  LET j == job[p]
      o == j.order
  IN  /\ j.at = "hold"
      /\ \E v \in j.left :
           \/ /\ FreshRow \in Reservation /\ Hold(FreshRow, o, v, Litres[o])
              /\ Leave(p, TRUE)
           \/ /\ v \in Candidates(o) /\ ActiveFor(o) # {}
              /\ Leave(p, FALSE)
              /\ UNCHANGED ledger
           \/ /\ v \notin Candidates(o)
              /\ IF j.left = {v} THEN Leave(p, FALSE)
                                 ELSE job' = [job EXCEPT ![p].left = @ \ {v}]
              /\ UNCHANGED ledger
      /\ UNCHANGED <<orders, queue, crashes>>

Step(p) ==
  ReadOrder(p) \/ FindHold(p) \/ SettleHold(p) \/ WriteStatus(p)
    \/ CheckReservable(p) \/ CheckFreeLitres(p) \/ TryHold(p)

-----------------------------------------------------------------------------
\* createOrder: the order transaction commits, then the fuel is reserved.
PlaceOrder(o) ==
  /\ job[o] = New
  /\ \E s \in InitialStatus :
       /\ status' = [status EXCEPT ![o] = s]
       /\ event' = [event EXCEPT ![o] = <<"NONE", s>>]
  /\ job' = [job EXCEPT ![o] = Reserve(Job("PLACE", "start", o), "PLACE", None)]
  /\ UNCHANGED <<ledger, lapsed, carrier, queue, crashes>>

\* A request of this kind arrives for a placed order and becomes the job j.
Arrives(kind, p, o, j) ==
  /\ kind \in Kind
  /\ job[p] = New
  /\ status[o] # "NONE"
  /\ job' = [job EXCEPT ![p] = j]
  /\ UNCHANGED <<ledger, orders, queue, crashes>>

\* acceptRequest: one read of the order and its hold, one of the tanker's free
\* litres, then the claim.
AcceptRequest(p, o, v) ==
  LET was == IF ActiveFor(o) = {} THEN None ELSE CHOOSE r \in ActiveFor(o) : TRUE
      j == [Job("NEW", "start", o) EXCEPT !.driver = v, !.was = was]
      claim == Transition(j, "CLAIM", "ALLOCATING", "SYSTEM", status[o])
  IN  /\ status[o] \in OpenStatus
      /\ ~ lapsed[o]
      /\ Arrives("ACCEPT", p, o, IF MustMove(j) THEN [claim EXCEPT !.at = "fuel"] ELSE claim)

\* findOrderForDriver: any reservation of the order on the driver's tanker.
VisibleTo(o, v) ==
  \E r \in Reservation :
    reservation[r] # Absent /\ reservation[r].order = o /\ reservation[r].vehicle = v

DriverJob(o, v) == [Job("NEW", "start", o) EXCEPT !.driver = v]

RejectOrder(p, o, v) ==
  /\ VisibleTo(o, v) /\ status[o] = "ASSIGNED"
  /\ Arrives("REJECT", p, o,
       Transition(DriverJob(o, v), "HAND_BACK", "ALLOCATING", "SYSTEM", "ASSIGNED"))

StartTrip(p, o, v) ==
  /\ VisibleTo(o, v) /\ status[o] = "ASSIGNED"
  /\ Arrives("START_TRIP", p, o,
       Transition(DriverJob(o, v), "START_TRIP", "EN_ROUTE", "DRIVER", "ASSIGNED"))

CancelOwnOrder(p, o) ==
  /\ status[o] \in CustomerCancellable
  /\ Arrives("CANCEL_OWN", p, o,
       Transition(Job("NEW", "start", o), "CANCEL", "CANCELLED_BY_CUSTOMER", "CUSTOMER", status[o]))

CancelAsAdmin(p, o) ==
  Arrives("CANCEL_ADMIN", p, o,
    Transition(Job("NEW", "start", o), "CANCEL", "CANCELLED_BY_ADMIN", "ADMIN", status[o]))

AdminTransition(p, o) ==
  \E to \in AdminTarget, guard \in {None, status[o]} :
    Arrives("ADMIN_MOVE", p, o,
      Transition(Job("NEW", "start", o), "ADMIN_MOVE", to, "ADMIN", guard))

AdminReserve(p, o) ==
  \E v \in Vehicle \union {None} :
    Arrives("ADMIN_RESERVE", p, o, Reserve(Job("NEW", "start", o), "ADMIN_RESERVE", v))

AdminRelease(p, o) == Arrives("ADMIN_RELEASE", p, o, Job("ADMIN_RELEASE", "find", o))

-----------------------------------------------------------------------------
\* expireUnacceptedOrders: one list, then its orders one after the other, each
\* held to the status it was listed with.
ListSweep(due) ==
  /\ "SWEEP" \in Kind
  /\ job[Sweeper] \in {New, Done} /\ queue = {} /\ due # {}
  /\ queue' = {<<o, status[o]>> : o \in due}
  /\ UNCHANGED <<ledger, orders, job, crashes>>

\* Mutants of the list: orders no driver answered only, or whatever has lapsed.
ListConfirmedOnly == ListSweep({o \in Order : status[o] = "CONFIRMED" /\ lapsed[o]})
ListAnyLapsed == ListSweep({o \in Order : lapsed[o]})

ListUnaccepted == ListSweep({o \in Order : status[o] \in OpenStatus /\ lapsed[o]})

LapseNext ==
  /\ job[Sweeper] \in {New, Done}
  /\ \E e \in queue :
       /\ queue' = queue \ {e}
       /\ job' = [job EXCEPT ![Sweeper] =
            Transition(Job("NEW", "start", e[1]), "LAPSE", "CANCELLED_BY_ADMIN", "SYSTEM", e[2])]
  /\ UNCHANGED <<ledger, orders, crashes>>

\* The search window of an open order runs out.
DeadlinePasses(o) ==
  /\ status[o] \in OpenStatus /\ ~ lapsed[o]
  /\ lapsed' = [lapsed EXCEPT ![o] = TRUE]
  /\ UNCHANGED <<ledger, status, event, carrier, job, queue, crashes>>

InFlight(p) == job[p].stage \notin {"NEW", "DONE"}

\* The process restarts: every request in flight is gone, its commits are not.
Crash ==
  /\ crashes < MaxCrashes
  /\ \E p \in Process : InFlight(p)
  /\ crashes' = crashes + 1
  /\ job' = [p \in Process |-> IF InFlight(p) THEN Done ELSE job[p]]
  /\ queue' = {}
  /\ UNCHANGED <<ledger, orders>>

-----------------------------------------------------------------------------
DispatchInit ==
  /\ Init
  /\ status = [o \in Order |-> "NONE"]
  /\ event = [o \in Order |-> <<"NONE", "NONE">>]
  /\ lapsed = [o \in Order |-> FALSE]
  /\ carrier = [o \in Order |-> None]
  /\ job = [p \in Process |-> New]
  /\ queue = {}
  /\ crashes = 0

Arrival ==
  \E p \in Request, o \in Order :
    \/ \E v \in Vehicle : AcceptRequest(p, o, v) \/ RejectOrder(p, o, v) \/ StartTrip(p, o, v)
    \/ CancelOwnOrder(p, o) \/ CancelAsAdmin(p, o)
    \/ AdminTransition(p, o) \/ AdminReserve(p, o) \/ AdminRelease(p, o)

DispatchNext ==
  \/ \E o \in Order : PlaceOrder(o) \/ DeadlinePasses(o)
  \/ Arrival
  \/ ListUnaccepted \/ LapseNext
  \/ \E p \in Process : Step(p)
  \/ Crash

\* A request that was accepted runs (WF on its steps); time passes and the timer
\* fires.  No request has to arrive, and the process need never restart.
DispatchSpec ==
  /\ DispatchInit
  /\ [][DispatchNext]_vars
  /\ \A p \in Process : WF_vars(Step(p))
  /\ \A o \in Order : WF_vars(DeadlinePasses(o))
  /\ WF_vars(ListUnaccepted) /\ WF_vars(LapseNext)

-----------------------------------------------------------------------------
Quiet(o) == \A p \in Process : job[p].order # o

\* Columns and requests keep their shape.
DispatchTypeOK ==
  /\ TypeOK
  /\ status \in [Order -> Status \union {"NONE"}]
  /\ lapsed \in [Order -> BOOLEAN]
  /\ carrier \in [Order -> Vehicle \union {None}]
  /\ \A p \in Process : job[p].order \in Order \union {None} /\ job[p].left \subseteq Vehicle
  /\ queue \subseteq Order \X OpenStatus

\* The timeline is the whole story: a status changes only together with the one
\* event that names the status it really had and the one it now has, and only
\* along the table; a request that read the order earlier never brings back a
\* status somebody else has moved it from.
TimelineIsChain ==
  [][\A o \in Order :
       status'[o] # status[o] \/ event'[o] # event[o] =>
         /\ event'[o] = <<status[o], status'[o]>>
         /\ \/ status[o] = "NONE"
            \/ \E actor \in Actor : CanTransition(status[o], status'[o], actor)]_vars

CarryingOut(p, o) ==
  job[p].order = o /\ job[p].stage \in {"DROP", "MOVE", "RESTORE", "FALL_THROUGH", "ASSIGN"}

\* FIRST-WINS: two accepts never carry out their moves of one order together.
FirstAcceptWins ==
  \A o \in Order, p, q \in Process : CarryingOut(p, o) /\ CarryingOut(q, o) => p = q

\* THE FUEL FOLLOWS THE DRIVER: whoever accepted, handed back or tried before, and
\* wherever createOrder had put the fuel, the tanker of the driver who is assigned
\* was given the order's fuel, so that the driver's own endpoints find the order.
AssignedDriverSeesOrder ==
  \A o \in Order : status[o] = "ASSIGNED" => VisibleTo(o, carrier[o])

\* Cancelling and expiring both give the fuel back.
CancellingGivesFuelBack ==
  \A o \in Order : Quiet(o) /\ status[o] \in CancelledStatus => ActiveFor(o) = {}

\* An order that is open is taken, or lapses: it is not offered for ever.
NotOfferedForEver ==
  \A o \in Order : status[o] \in OpenStatus ~> status[o] \notin OpenStatus

\* An accept that fails puts the order back where other drivers see it: no order
\* stays claimed by nobody.
ClaimIsResolved ==
  \A o \in Order : status[o] = "ALLOCATING" ~> status[o] # "ALLOCATING"

\* A live order whose fuel was released is tolerated: the sweeper or the
\* allocator gives it fuel again or ends it.
StrandedOrderRecovers ==
  \A o \in Order :
    status[o] = "ASSIGNED" /\ ActiveFor(o) = {} ~> status[o] # "ASSIGNED" \/ ActiveFor(o) # {}
================================================================================
