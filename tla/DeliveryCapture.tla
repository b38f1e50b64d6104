---------------------------- MODULE DeliveryCapture ----------------------------
(***************************************************************************)
(* The delivery of one order: arriving, the opening reading, the closing     *)
(* reading and the outcome (driver/services/delivery.service.js).  Every     *)
(* request is the statements it awaits: its read of the order, its list of   *)
(* readings, the reading it inserts, and then transitionOrder, which commits *)
(* on its own.  The driver's app repeats a submission with the same client   *)
(* id; operators move the order meanwhile; the process restarts.             *)
(***************************************************************************)
EXTENDS Integers, SequencesExt, OrderStateMachine

CONSTANTS
  None,
  Request,       \* requests that arrive, each served once
  Delivery,      \* ids the driver's app generates, one per captured delivery
  Fails,         \* deliveries submitted with the outcome FAILED
  Measure,       \* what may be read: "METER" (totaliser), "STOCK" (litres left)
  Figure,        \* figures a reading may show
  Ordered,       \* orders.quantity
  AdminTarget,   \* statuses an operator asks for
  MaxCrashes     \* bound: restarts of the process

ASSUME NoneAssumption == None \notin Status \union Nat
ASSUME FigureAssumption == Figure \subseteq Nat
ASSUME OrderedAssumption == Ordered \in Nat \ {0}
ASSUME MeasureAssumption == Measure \subseteq {"METER", "STOCK"}

VARIABLES
  status,       \* orders.status
  movedBy,      \* actor_kind of the latest order_status_events row
  reservation,  \* fuel_reservations.status of the order's row on this tanker
  readings,     \* meter_readings of the order, by capturedAt
  delivered,    \* orders.delivered_quantity
  settlement,   \* orders.settlement_status
  answer,       \* what the app was last told of each delivery
  job,
  crashes

order == <<status, movedBy, reservation, readings, delivered, settlement>>
vars == <<order, answer, job, crashes>>

Job(kind, at, d) ==
  [kind |-> kind, at |-> at, id |-> d, seen |-> None, to |-> None, actor |-> None,
   expect |-> None, from |-> None, litres |-> 0]

New  == Job("NEW", "start", None)
Done == Job("DONE", "end", None)

\* A call of transitionOrder as the next thing a request does.
Transition(j, to, actor, expect) ==
  [j EXCEPT !.at = "read", !.to = to, !.actor = actor, !.expect = expect]

Reading(type, r, d) == [type |-> type, measure |-> r.measure, figure |-> r.figure, id |-> d]

Openings == {i \in DOMAIN readings : readings[i].type = "DELIVERY_START"}
Closings(d) == {i \in DOMAIN readings : readings[i].type = "DELIVERY_END" /\ readings[i].id = d}

\* readings.find: the first of the opening readings.
Opening == readings[Min(Openings)]

\* Number(null) is 0: a column of the other measure reads as zero.
FigureOf(r, measure) == IF r.measure = measure THEN r.figure ELSE 0

\* deliveredFromStock and computeDeliveredQuantity (no meter maximum is passed,
\* so a meter that wrapped is a fault); negative is refused by both.
LitresBetween(opening, closing) ==
  IF opening.measure = "STOCK"
    THEN opening.figure - FigureOf(closing, "STOCK")
    ELSE FigureOf(closing, "METER") - opening.figure

\* The request returns or throws, and the app hears of it.
End(p, said) ==
  /\ job' = [job EXCEPT ![p] = Done]
  /\ answer' = IF job[p].id = None THEN answer ELSE [answer EXCEPT ![job[p].id] = said]

Goto(p, j) == job' = [job EXCEPT ![p] = j] /\ UNCHANGED answer

-----------------------------------------------------------------------------
Arrives(p, j) ==
  /\ job[p] = New
  /\ job' = [job EXCEPT ![p] = j]
  /\ UNCHANGED <<order, answer, crashes>>

MarkArrived(p) ==
  /\ status = "EN_ROUTE"
  /\ Arrives(p, Transition(Job("ARRIVE", "read", None), "ARRIVED", "DRIVER", "EN_ROUTE"))

StartDispensing(p) ==
  /\ status = "ARRIVED"
  /\ Arrives(p, Job("START", "opening", None))

\* completeDelivery asserts nothing before it has looked for a replay.
CompleteDelivery(p, d) ==
  Arrives(p, [Job("COMPLETE", "closing", d) EXCEPT !.seen = status])

\* POST .../transition with or without its guard; .../cancel always with one.
AdminMove(p) ==
  \E to \in AdminTarget, guard \in {None, status} :
    /\ to = "CANCELLED_BY_ADMIN" => guard = status
    /\ Arrives(p, Transition(Job("ADMIN", "read", None), to, "ADMIN", guard))

-----------------------------------------------------------------------------
CheckOpening(p) ==
  /\ job[p].at = "opening"
  /\ IF Openings # {} THEN End(p, "REFUSED") ELSE Goto(p, [job[p] EXCEPT !.at = "open"])
  /\ UNCHANGED <<order, crashes>>

\* Mutants: the order starts dispensing before its reading is stored; or is left
\* for a second call to start.
DispenseBeforeReading(p) ==
  /\ job[p].at = "open"
  /\ Goto(p, Transition(job[p], "DISPENSING", "DRIVER", "ARRIVED"))
  /\ UNCHANGED <<order, crashes>>

RecordOpeningOnly(p) ==
  /\ job[p].at = "open"
  /\ \E measure \in Measure, figure \in Figure :
       readings' = Append(readings,
         Reading("DELIVERY_START", [measure |-> measure, figure |-> figure], None))
  /\ End(p, "OK")
  /\ UNCHANGED <<status, movedBy, reservation, delivered, settlement, crashes>>

\* captureReading, from the device or as typed, and the insert.
RecordOpening(p) ==
  /\ job[p].at = "open"
  /\ \E measure \in Measure, figure \in Figure :
       readings' = Append(readings,
         Reading("DELIVERY_START", [measure |-> measure, figure |-> figure], None))
  /\ Goto(p, Transition(job[p], "DISPENSING", "DRIVER", "ARRIVED"))
  /\ UNCHANGED <<status, movedBy, reservation, delivered, settlement, crashes>>

\* The device is silent and nothing, or no photograph, was typed; a failed delivery
\* needs its photograph too.
CaptureFails(p) ==
  /\ job[p].at \in {"open", "close"} \/ (job[p].at = "read" /\ job[p].to = "DELIVERY_FAILED")
  /\ End(p, "REFUSED")
  /\ UNCHANGED <<order, crashes>>

CheckClosing(p) ==
  LET j == job[p]
  IN  /\ j.at = "closing"
      /\ IF Closings(j.id) # {} THEN End(p, "REPLAYED")
         ELSE IF j.seen # "DISPENSING" \/ Openings = {} THEN End(p, "REFUSED")
         ELSE Goto(p, IF j.id \in Fails
                        THEN Transition(j, "DELIVERY_FAILED", "DRIVER", "DISPENSING")
                        ELSE [j EXCEPT !.at = "close"])
      /\ UNCHANGED <<order, crashes>>

\* The outcome is derived from the litres, whatever outcome was submitted.
OutcomeOf(litres) == IF litres >= Ordered THEN "DELIVERED" ELSE "PARTIALLY_DELIVERED"

\* The insert, and the transition that follows it.
StoreClosing(p, r, actor) ==
  LET litres == LitresBetween(Opening, r)
  IN  /\ readings' = Append(readings, Reading("DELIVERY_END", r, job[p].id))
      /\ Goto(p, Transition([job[p] EXCEPT !.litres = litres],
                            OutcomeOf(litres), actor, "DISPENSING"))

\* Mutants of the closing reading: a regression is not refused; the outcome is
\* asked for as SYSTEM, which may not deliver.
RecordAnyClosing(p) ==
  /\ job[p].at = "close"
  /\ \E measure \in Measure, figure \in Figure :
       StoreClosing(p, [measure |-> measure, figure |-> figure], "DRIVER")
  /\ UNCHANGED <<status, movedBy, reservation, delivered, settlement, crashes>>

RecordClosingAsSystem(p) ==
  /\ job[p].at = "close"
  /\ \E measure \in Measure, figure \in Figure :
       LET r == [measure |-> measure, figure |-> figure]
       IN  IF LitresBetween(Opening, r) < 0
             THEN End(p, "REFUSED") /\ UNCHANGED readings
             ELSE StoreClosing(p, r, "SYSTEM")
  /\ UNCHANGED <<status, movedBy, reservation, delivered, settlement, crashes>>

RecordClosing(p) ==
  /\ job[p].at = "close"
  /\ \E measure \in Measure, figure \in Figure :
       LET r == [measure |-> measure, figure |-> figure]
       IN  IF LitresBetween(Opening, r) < 0
             THEN End(p, "REFUSED") /\ UNCHANGED readings
             ELSE StoreClosing(p, r, "DRIVER")
  /\ UNCHANGED <<status, movedBy, reservation, delivered, settlement, crashes>>

\* transitionOrder: the read with its guards, the release of the fuel for the
\* targets that give it back, the compare-and-set.
ReadOrder(p) ==
  LET j == job[p]
  IN  /\ j.at = "read"
      /\ IF j.expect \in {None, status} /\ CanTransition(status, j.to, j.actor)
           THEN Goto(p, [j EXCEPT !.from = status,
                  !.at = IF j.to \in {"DELIVERY_FAILED", "CANCELLED_BY_ADMIN"}
                           THEN "release" ELSE "write"])
           ELSE End(p, "REFUSED")
      /\ UNCHANGED <<order, crashes>>

ReleaseFuel(p) ==
  /\ job[p].at = "release"
  /\ reservation' = IF reservation = "HELD" THEN "RELEASED" ELSE reservation
  /\ Goto(p, [job[p] EXCEPT !.at = "write"])
  /\ UNCHANGED <<status, movedBy, readings, delivered, settlement, crashes>>

\* Billable: what is left to do once the outcome is committed.
Billable(j) == j.kind = "COMPLETE" /\ j.to # "DELIVERY_FAILED"

\* Mutant: the driver who lost the compare-and-set goes on to the bill.
WriteStatusAnyway(p) ==
  LET j == job[p]
  IN  /\ j.at = "write"
      /\ status' = IF status = j.from THEN j.to ELSE status
      /\ movedBy' = IF status = j.from THEN j.actor ELSE movedBy
      /\ IF Billable(j) THEN Goto(p, [j EXCEPT !.at = "bill"]) ELSE End(p, "OK")
      /\ UNCHANGED <<reservation, readings, delivered, settlement, crashes>>

\* Mutant: the outcome is committed, and the reply sent, without the quantity.
WriteStatusOnly(p) ==
  LET j == job[p]
  IN  /\ j.at = "write"
      /\ status' = IF status = j.from THEN j.to ELSE status
      /\ movedBy' = IF status = j.from THEN j.actor ELSE movedBy
      /\ End(p, IF status = j.from THEN "OK" ELSE "REFUSED")
      /\ UNCHANGED <<reservation, readings, delivered, settlement, crashes>>

WriteStatus(p) ==
  LET j == job[p]
  IN  /\ j.at = "write"
      /\ IF status = j.from
           THEN /\ status' = j.to /\ movedBy' = j.actor
                /\ IF Billable(j) THEN Goto(p, [j EXCEPT !.at = "bill"]) ELSE End(p, "OK")
           ELSE UNCHANGED <<status, movedBy>> /\ End(p, "REFUSED")
      /\ UNCHANGED <<reservation, readings, delivered, settlement, crashes>>

\* The update of the order, on its own after the transition.
WriteDelivered(p) ==
  /\ job[p].at = "bill"
  /\ delivered' = job[p].litres
  /\ settlement' = IF job[p].litres # Ordered THEN "PENDING" ELSE settlement
  /\ End(p, "OK")
  /\ UNCHANGED <<status, movedBy, reservation, readings, crashes>>

Step(p) ==
  \/ CheckOpening(p) \/ RecordOpening(p) \/ CaptureFails(p)
  \/ CheckClosing(p) \/ RecordClosing(p)
  \/ ReadOrder(p) \/ ReleaseFuel(p) \/ WriteStatus(p) \/ WriteDelivered(p)

InFlight(p) == job[p] \notin {New, Done}

\* A restart: what was committed stays, nobody is answered.
Crash ==
  /\ crashes < MaxCrashes
  /\ \E p \in Request : InFlight(p)
  /\ crashes' = crashes + 1
  /\ job' = [p \in Request |-> IF InFlight(p) THEN Done ELSE job[p]]
  /\ UNCHANGED <<order, answer>>

-----------------------------------------------------------------------------
Init ==
  /\ status = "EN_ROUTE" /\ movedBy = "DRIVER"
  /\ reservation = "HELD"
  /\ readings = <<>>
  /\ delivered = None
  /\ settlement = "NOT_REQUIRED"
  /\ answer = [d \in Delivery |-> "NONE"]
  /\ job = [p \in Request |-> New]
  /\ crashes = 0

Next ==
  \/ \E p \in Request :
       \/ MarkArrived(p) \/ StartDispensing(p) \/ AdminMove(p)
       \/ \E d \in Delivery : CompleteDelivery(p, d)
       \/ Step(p)
  \/ Crash

\* A request that was accepted runs to its end unless the process restarts.
Spec == Init /\ [][Next]_vars /\ \A p \in Request : WF_vars(Step(p))

-----------------------------------------------------------------------------
TypeOK ==
  /\ status \in Status /\ movedBy \in Actor
  /\ reservation \in {"HELD", "RELEASED"}
  /\ \A i \in DOMAIN readings :
       readings[i].measure \in Measure /\ readings[i].figure \in Figure
  /\ delivered \in Nat \union {None}
  /\ settlement \in {"NOT_REQUIRED", "PENDING"}
  /\ answer \in [Delivery -> {"NONE", "OK", "REPLAYED", "REFUSED"}]

ClosingLitres ==
  {LitresBetween(Opening, r) : r \in {q \in Range(readings) : q.type = "DELIVERY_END"}}

\* Evidence first: what a driver's request made dispensing has an opening reading,
\* and what it made delivered a closing one that explains the outcome, wherever
\* the process stopped, whatever an operator moved by hand in between, and however
\* often the submission was repeated.
EvidenceBeforeOutcome ==
  movedBy = "DRIVER" =>
    /\ status = "DISPENSING" => Openings # {}
    /\ status \in {"DELIVERED", "PARTIALLY_DELIVERED"} =>
         Openings # {} /\ \E litres \in ClosingLitres : status = OutcomeOf(litres)

\* One delivery is billed: the quantity on the order is that of the submission
\* whose outcome the order took, and no submission that lost to it, to a failed
\* delivery or to an operator overwrites it.
BilledAgreesWithOutcome ==
  delivered # None =>
    /\ status \in {"DELIVERED", "PARTIALLY_DELIVERED", "CLOSED"}
    /\ status = "DELIVERED" => delivered >= Ordered
    /\ status = "PARTIALLY_DELIVERED" => delivered < Ordered
    /\ settlement = "PENDING" <=> delivered # Ordered

\* An opening reading moves the order on: it does not stay ARRIVED, where a
\* second opening reading is refused, unless the process went down.
OpeningLeadsOn == Openings # {} ~> status # "ARRIVED" \/ crashes > 0

\* A stored closing reading becomes an outcome unless an operator ended the order
\* first, and unless the process went down in between.
ClosingLeadsToOutcome ==
  ClosingLitres # {} ~> status \in OutcomeRecorded \union Terminal \/ crashes > 0

\* A driver's recorded outcome becomes a billed quantity on the order: the update after the
\* transition is not skipped, unless the process went down between the two.
OutcomeIsBilled ==
  movedBy = "DRIVER" /\ status \in {"DELIVERED", "PARTIALLY_DELIVERED"} ~>
    delivered # None \/ crashes > 0

\* A replay returns the original result: a delivery the app was told is
\* recorded gets its outcome.
ReplayMeansRecorded ==
  \A d \in Delivery : answer[d] \in {"OK", "REPLAYED"} ~> status \in OutcomeRecorded

\* A tanker does not change model in the middle of a delivery: the quantity
\* comes from two readings of the same kind.
BilledFromLikeReadings ==
  delivered # None =>
    \E r \in Range(readings) :
      /\ r.type = "DELIVERY_END" /\ r.measure = Opening.measure
      /\ delivered = LitresBetween(Opening, r)
================================================================================
