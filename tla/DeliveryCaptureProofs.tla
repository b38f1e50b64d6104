------------------------- MODULE DeliveryCaptureProofs -------------------------
(***************************************************************************)
(* Evidence before the outcome, and one bill that agrees with it, for any    *)
(* number of requests, repeats, readings, operators and restarts.            *)
(***************************************************************************)
EXTENDS DeliveryCapture, TLAPS

ReadingRow ==
  [type : {"DELIVERY_START", "DELIVERY_END"}, measure : Measure, figure : Figure, id : Delivery \union {None}]

\* The first of the opening readings stays the first.
FirstIsKept == Openings # {} => \E i \in Openings : \A k \in Openings : i <= k

JobRow ==
  [kind : {"NEW", "DONE", "ARRIVE", "START", "COMPLETE", "ADMIN"},
   at : {"start", "end", "opening", "open", "closing", "close", "read", "release", "write", "bill"},
   id : Delivery \union {None}, seen : Status \union {None},
   to : Status \union AdminTarget \union {None}, actor : Actor \union {None},
   expect : Status \union {None}, from : Status \union {None}, litres : Nat]

\* What each call of transitionOrder asks for.
Targets(j) ==
  /\ j.kind \in {"ARRIVE", "START", "COMPLETE", "ADMIN"}
  /\ j.actor \in Actor
  /\ j.kind = "ARRIVE" => j.to = "ARRIVED"
  /\ j.kind = "START" => j.to = "DISPENSING"
  /\ j.kind = "COMPLETE" => j.expect = "DISPENSING" /\ j.to \in {"DELIVERY_FAILED", OutcomeOf(j.litres)}
  /\ j.kind = "ADMIN" => j.actor = "ADMIN"

Shape(j) ==
  /\ j.at \in {"opening", "open"} => j.kind = "START"
  /\ j.at \in {"closing", "close"} => j.kind = "COMPLETE"
  /\ j.at \in {"read", "release", "write", "bill"} => Targets(j)
  /\ j.at \in {"release", "write"} =>
       j.from \in Status /\ CanTransition(j.from, j.to, j.actor) /\ j.expect \in {None, j.from}
  /\ j.at = "bill" => j.kind = "COMPLETE" /\ j.to = OutcomeOf(j.litres)

\* The readings a request goes on from are stored.
Backed(j) ==
  /\ j.kind = "START" /\ j.at \in {"read", "release", "write"} => Openings # {}
  /\ j.kind = "COMPLETE" /\ j.at = "close" => Openings # {}
  /\ j.kind = "COMPLETE" /\ j.at \in {"read", "release", "write", "bill"} /\ j.to # "DELIVERY_FAILED" =>
       Openings # {} /\ j.litres \in ClosingLitres

Settled == {"DELIVERED", "PARTIALLY_DELIVERED", "CLOSED"}

Explains(litres) ==
  /\ status \in Settled
  /\ status = "DELIVERED" => litres >= Ordered
  /\ status = "PARTIALLY_DELIVERED" => litres < Ordered

\* A request that has committed the outcome and not yet the quantity is alone, and
\* the order carries its outcome.
OneBill ==
  /\ \A p \in Request : job[p].at = "bill" => delivered = None /\ Explains(job[p].litres)
  /\ \A p, q \in Request : job[p].at = "bill" /\ job[q].at = "bill" => p = q

BilledOnce ==
  /\ delivered = None => settlement = "NOT_REQUIRED"
  /\ delivered # None => Explains(delivered) /\ (settlement = "PENDING" <=> delivered # Ordered)

IInv ==
  /\ status \in Status /\ movedBy \in Actor
  /\ reservation \in {"HELD", "RELEASED"}
  /\ readings \in Seq(ReadingRow)
  /\ delivered \in Nat \union {None}
  /\ settlement \in {"NOT_REQUIRED", "PENDING"}
  /\ answer \in [Delivery -> {"NONE", "OK", "REPLAYED", "REFUSED"}]
  /\ FirstIsKept
  /\ job \in [Request -> JobRow]
  /\ \A p \in Request : Shape(job[p]) /\ Backed(job[p])
  /\ EvidenceBeforeOutcome
  /\ OneBill
  /\ BilledOnce

-----------------------------------------------------------------------------
LEMMA MinIs ==
  ASSUME NEW S \in SUBSET Nat, NEW i \in S, \A k \in S : i <= k
  PROVE  Min(S) = i
<1>1. Min(S) \in S /\ \A k \in S : Min(S) <= k
  BY DEF Min
<1>2. Min(S) \in Nat /\ i \in Nat /\ Min(S) <= i /\ i <= Min(S)
  BY <1>1
<1> QED
  BY <1>2

\* Another reading leaves the first opening reading, and with it the litres of the
\* closing readings, what they were.
LEMMA ReadingsGrow ==
  ASSUME readings \in Seq(ReadingRow), FirstIsKept, NEW r \in ReadingRow, readings' = Append(readings, r)
  PROVE  /\ readings' \in Seq(ReadingRow)
         /\ FirstIsKept'
         /\ Openings # {} => /\ Openings' # {} /\ Opening' = Opening
                             /\ ClosingLitres \subseteq ClosingLitres'
                             /\ r.type = "DELIVERY_END" => LitresBetween(Opening, r) \in ClosingLitres'
         /\ r.type = "DELIVERY_START" => Openings' # {}
<1> DEFINE n == Len(readings)
<1>1. /\ n \in Nat /\ DOMAIN readings = 1..n
      /\ readings' \in Seq(ReadingRow) /\ DOMAIN readings' = 1..(n + 1)
      /\ \A i \in 1..n : readings'[i] = readings[i]
      /\ readings'[n + 1] = r
  OBVIOUS
<1> HIDE DEF n
<1>2. Openings' = IF r.type = "DELIVERY_START" THEN Openings \union {n + 1} ELSE Openings
  BY <1>1 DEF Openings
<1>3. \A k \in Openings : k \in 1..n
  BY <1>1 DEF Openings
<1>4. CASE Openings = {}
  <2>1. FirstIsKept'
    BY <1>1, <1>2, <1>4 DEF FirstIsKept
  <2> QED
    BY <1>1, <1>2, <1>4, <2>1
<1>5. CASE Openings # {}
  <2>1. PICK i \in Openings : \A k \in Openings : i <= k
    BY <1>5 DEF FirstIsKept
  <2>2. i \in Openings' /\ \A k \in Openings' : i <= k
    BY <1>1, <1>2, <1>3, <2>1
  <2>3. Min(Openings) = i
    BY <1>1, <1>3, <2>1, MinIs
  <2>4. Min(Openings)' = i
    <3>1. Openings' \in SUBSET Nat
      BY <1>1, <1>2, <1>3
    <3>2. PICK S \in SUBSET Nat : S = Openings'
      BY <3>1
    <3>3. Min(S) = i
      BY <2>2, <3>2, MinIs
    <3> QED
      BY <3>2, <3>3 DEF Min
  <2>5. Opening' = Opening
    BY <1>1, <1>3, <2>1, <2>3, <2>4 DEF Opening
  <2>6. Range(readings)' = Range(readings) \union {r}
    BY <1>1 DEF Range
  <2>7. \A q \in Range(readings)' : q.type = "DELIVERY_END" => LitresBetween(Opening, q) \in ClosingLitres'
    BY <2>5 DEF ClosingLitres
  <2>8. ClosingLitres \subseteq ClosingLitres'
    BY <2>6, <2>7 DEF ClosingLitres
  <2> QED
    BY <1>1, <1>5, <2>2, <2>5, <2>6, <2>7, <2>8 DEF FirstIsKept
<1> QED
  BY <1>4, <1>5

\* What a request rests on is not taken away by another reading.
LEMMA BackedStays ==
  ASSUME readings \in Seq(ReadingRow), FirstIsKept,
         readings' = readings \/ \E r \in ReadingRow : readings' = Append(readings, r),
         NEW j \in JobRow, Backed(j)
  PROVE  Backed(j)'
<1>1. CASE readings' = readings
  BY <1>1 DEF Backed, ClosingLitres, Openings, Opening
<1>2. CASE \E r \in ReadingRow : readings' = Append(readings, r)
  BY <1>2, ReadingsGrow DEF Backed
<1> QED
  BY <1>1, <1>2

\* The table takes no order back from its outcome.
LEMMA OutcomeStays ==
  ASSUME NEW from, NEW to, NEW actor, CanTransition(from, to, actor)
  PROVE  /\ to \in Status
         /\ from \in Settled => to = "CLOSED"
         /\ to \in {"DELIVERED", "PARTIALLY_DELIVERED"} => from = "DISPENSING"
<1>1. PICK t \in TransitionTable : t.from = from /\ t.to = to /\ actor \in t.actors
  BY DEF CanTransition
<1>2. CASE t \in TRANSITIONS
  BY <1>1, <1>2 DEF TRANSITIONS, Row, Status, Settled, CanTransition, Terminal
<1>3. CASE t \in CUSTOMER_CANCELLATIONS
  BY <1>1, <1>3 DEF CUSTOMER_CANCELLATIONS, CustomerCancellable, Row, Status, Settled
<1>4. CASE t \in ADMIN_CANCELLATIONS
  BY <1>1, <1>4 DEF ADMIN_CANCELLATIONS, OutcomeRecorded, Row, Status, Settled, CanTransition, Terminal
<1> QED
  BY <1>1, <1>2, <1>3, <1>4 DEF TransitionTable

-----------------------------------------------------------------------------
\* A request goes on to its next statement.
LEMMA NextStatement ==
  ASSUME NEW j \in JobRow,
         NEW at \in {"start", "end", "opening", "open", "closing", "close", "read", "release", "write", "bill"}
  PROVE  LET k == [j EXCEPT !.at = at]
         IN  /\ k \in JobRow /\ k.at = at
             /\ k.kind = j.kind /\ k.id = j.id /\ k.seen = j.seen /\ k.to = j.to /\ k.actor = j.actor
             /\ k.expect = j.expect /\ k.from = j.from /\ k.litres = j.litres
BY DEF JobRow

LEMMA TransitionRow ==
  ASSUME NEW j \in JobRow, NEW to \in Status \union AdminTarget, NEW actor \in Actor,
         NEW expect \in Status \union {None}
  PROVE  LET k == Transition(j, to, actor, expect)
         IN  /\ k \in JobRow /\ k.at = "read" /\ k.to = to /\ k.actor = actor /\ k.expect = expect
             /\ k.kind = j.kind /\ k.id = j.id /\ k.litres = j.litres
<1> DEFINE k == Transition(j, to, actor, expect)
<1>1. k = [kind |-> j.kind, at |-> "read", id |-> j.id, seen |-> j.seen, to |-> to, actor |-> actor,
           expect |-> expect, from |-> j.from, litres |-> j.litres]
  <2> DEFINE i == [j EXCEPT !.at = "read"]
             m == [i EXCEPT !.to = to]
             n == [m EXCEPT !.actor = actor]
  <2>1. i = [kind |-> j.kind, at |-> "read", id |-> j.id, seen |-> j.seen, to |-> j.to, actor |-> j.actor,
             expect |-> j.expect, from |-> j.from, litres |-> j.litres]
    BY DEF JobRow
  <2> HIDE DEF i
  <2>2. m = [kind |-> j.kind, at |-> "read", id |-> j.id, seen |-> j.seen, to |-> to, actor |-> j.actor,
             expect |-> j.expect, from |-> j.from, litres |-> j.litres]
    BY <2>1
  <2> HIDE DEF m
  <2>3. n = [kind |-> j.kind, at |-> "read", id |-> j.id, seen |-> j.seen, to |-> to, actor |-> actor,
             expect |-> j.expect, from |-> j.from, litres |-> j.litres]
    BY <2>2
  <2> HIDE DEF n
  <2>4. k = [n EXCEPT !.expect = expect]
    BY DEF Transition, n, m, i
  <2> QED
    BY <2>3, <2>4
<1>2. /\ j.kind \in {"NEW", "DONE", "ARRIVE", "START", "COMPLETE", "ADMIN"}
      /\ j.id \in Delivery \union {None} /\ j.seen \in Status \union {None}
      /\ j.from \in Status \union {None} /\ j.litres \in Nat
  BY DEF JobRow
<1> HIDE DEF k
<1>3. k \in JobRow
  BY <1>1, <1>2 DEF JobRow
<1> QED
  BY <1>1, <1>3 DEF k

LEMMA JobRowOf ==
  ASSUME NEW kind \in {"ARRIVE", "START", "COMPLETE", "ADMIN"},
         NEW at \in {"opening", "closing", "read"}, NEW d \in Delivery \union {None}
  PROVE  Job(kind, at, d) \in JobRow /\ Job(kind, at, d).kind = kind /\ Job(kind, at, d).at = at
BY DEF Job, JobRow

LEMMA DoneRow ==
  /\ Done \in JobRow /\ Shape(Done) /\ Backed(Done) /\ Done.at = "end"
  /\ New \in JobRow /\ Shape(New) /\ Backed(New) /\ New.at = "start"
<1>1. Done \in JobRow /\ New \in JobRow
  BY DEF Done, New, Job, JobRow
<1>2. Done.at = "end" /\ Done.kind = "DONE" /\ New.at = "start" /\ New.kind = "NEW"
  BY DEF Done, New, Job
<1> QED
  BY <1>1, <1>2 DEF Shape, Backed

-----------------------------------------------------------------------------
\* A step of one request that commits nothing but a reading or the fuel.
LEMMA Moves ==
  ASSUME IInv, NEW p \in Request, NEW k \in JobRow, Shape(k), Backed(k)', k.at # "bill",
         job' = [job EXCEPT ![p] = k],
         UNCHANGED <<status, movedBy, delivered, settlement>>,
         reservation' \in {"HELD", "RELEASED"},
         readings' = readings \/ \E r \in ReadingRow : readings' = Append(readings, r),
         answer' \in [Delivery -> {"NONE", "OK", "REPLAYED", "REFUSED"}]
  PROVE  IInv'
<1>1. /\ readings \in Seq(ReadingRow) /\ FirstIsKept
      /\ job \in [Request -> JobRow] /\ \A q \in Request : Shape(job[q]) /\ Backed(job[q])
  BY DEF IInv
<1>2. /\ job' \in [Request -> JobRow]
      /\ \A q \in Request : job'[q] = IF q = p THEN k ELSE job[q]
  BY <1>1
<1>3. (\A q \in Request : Shape(job[q]) /\ Backed(job[q]))'
  <2> SUFFICES ASSUME NEW q \in Request PROVE Shape(job'[q]) /\ Backed(job[q])'
    OBVIOUS
  <2>1. PICK j \in JobRow : j = job'[q]
    BY <1>2
  <2>2. Shape(j) /\ Backed(j)'
    BY <1>1, <1>2, <2>1, BackedStays
  <2> QED
    BY <2>1, <2>2 DEF Backed
<1>4. readings' \in Seq(ReadingRow) /\ FirstIsKept'
  <2>1. CASE readings' = readings
    BY <1>1, <2>1 DEF FirstIsKept, Openings
  <2>2. CASE \E r \in ReadingRow : readings' = Append(readings, r)
    BY <1>1, <2>2, ReadingsGrow
  <2> QED
    BY <2>1, <2>2
<1>5. EvidenceBeforeOutcome'
  <2>1. Openings # {} => Openings' # {} /\ ClosingLitres \subseteq ClosingLitres'
    <3>1. CASE readings' = readings
      BY <3>1 DEF Openings, ClosingLitres, Opening
    <3>2. CASE \E r \in ReadingRow : readings' = Append(readings, r)
      BY <1>1, <3>2, ReadingsGrow
    <3> QED
      BY <3>1, <3>2
  <2> QED
    BY <2>1 DEF IInv, EvidenceBeforeOutcome
<1>6. OneBill' /\ BilledOnce'
  BY <1>2 DEF IInv, OneBill, BilledOnce, Explains
<1> QED
  BY <1>2, <1>3, <1>4, <1>5, <1>6 DEF IInv

\* The request is over, and the app has heard.
LEMMA Ends ==
  ASSUME IInv, NEW p \in Request, NEW said \in {"OK", "REPLAYED", "REFUSED"}, End(p, said)
  PROVE  /\ job' = [job EXCEPT ![p] = Done]
         /\ answer' \in [Delivery -> {"NONE", "OK", "REPLAYED", "REFUSED"}]
BY DEF IInv, End

LEMMA Refused ==
  ASSUME IInv, NEW p \in Request, NEW said \in {"OK", "REPLAYED", "REFUSED"}, End(p, said), UNCHANGED order
  PROVE  IInv'
<1>1. Backed(Done)'
  BY DoneRow DEF Backed, Done, Job
<1>2. reservation \in {"HELD", "RELEASED"}
  BY DEF IInv
<1> QED
  BY <1>1, <1>2, Ends, Moves, DoneRow DEF order

\* A request that goes on with a new row of its own, and no order.
LEMMA GoesOn ==
  ASSUME IInv, NEW p \in Request, NEW k \in JobRow, Shape(k), Backed(k), k.at # "bill",
         job' = [job EXCEPT ![p] = k], UNCHANGED <<order, answer>>
  PROVE  IInv'
<1>1. UNCHANGED <<status, movedBy, reservation, readings, delivered, settlement, answer>>
  BY DEF order
<1>2. /\ reservation \in {"HELD", "RELEASED"} /\ readings \in Seq(ReadingRow) /\ FirstIsKept
      /\ answer \in [Delivery -> {"NONE", "OK", "REPLAYED", "REFUSED"}]
  BY DEF IInv
<1>3. Backed(k)'
  BY <1>1, <1>2, BackedStays
<1> QED
  BY <1>1, <1>2, <1>3, Moves

-----------------------------------------------------------------------------
LEMMA ArrivalStep ==
  ASSUME IInv, NEW p \in Request,
         MarkArrived(p) \/ StartDispensing(p) \/ AdminMove(p) \/ \E d \in Delivery : CompleteDelivery(p, d)
  PROVE  IInv'
<1>1. PICK s \in Status : s = status
  BY DEF IInv
<1>2. CASE MarkArrived(p)
  <2> DEFINE i == Job("ARRIVE", "read", None)
             k == Transition(i, "ARRIVED", "DRIVER", "EN_ROUTE")
  <2>1. i \in JobRow /\ i.kind = "ARRIVE"
    BY JobRowOf
  <2>2. "ARRIVED" \in Status /\ "DRIVER" \in Actor /\ "EN_ROUTE" \in Status
    BY DEF Status, Actor
  <2> HIDE DEF i
  <2>3. /\ k \in JobRow /\ k.at = "read" /\ k.to = "ARRIVED" /\ k.actor = "DRIVER" /\ k.kind = "ARRIVE"
    BY <2>1, <2>2, TransitionRow
  <2>4. job' = [job EXCEPT ![p] = k] /\ UNCHANGED order /\ UNCHANGED answer
    BY <1>2 DEF MarkArrived, Arrives, i
  <2> HIDE DEF k
  <2>5. Shape(k) /\ Backed(k)
    BY <2>2, <2>3 DEF Shape, Backed, Targets
  <2> QED
    BY <2>3, <2>4, <2>5, GoesOn
<1>3. CASE StartDispensing(p)
  <2> DEFINE k == Job("START", "opening", None)
  <2>1. k \in JobRow /\ k.kind = "START" /\ k.at = "opening"
    BY JobRowOf
  <2>2. job' = [job EXCEPT ![p] = k] /\ UNCHANGED order /\ UNCHANGED answer
    BY <1>3 DEF StartDispensing, Arrives
  <2> HIDE DEF k
  <2>3. Shape(k) /\ Backed(k)
    BY <2>1 DEF Shape, Backed
  <2> QED
    BY <2>1, <2>2, <2>3, GoesOn
<1>4. ASSUME NEW d \in Delivery, CompleteDelivery(p, d)
      PROVE  IInv'
  <2> DEFINE i == Job("COMPLETE", "closing", d)
             k == [i EXCEPT !.seen = s]
  <2>1. i \in JobRow /\ i.kind = "COMPLETE" /\ i.at = "closing"
    BY JobRowOf
  <2>2. job' = [job EXCEPT ![p] = k] /\ UNCHANGED order /\ UNCHANGED answer
    BY <1>1, <1>4 DEF CompleteDelivery, Arrives
  <2> HIDE DEF i
  <2>3. k \in JobRow /\ k.kind = "COMPLETE" /\ k.at = "closing"
    BY <2>1 DEF JobRow
  <2> HIDE DEF k
  <2>4. Shape(k) /\ Backed(k)
    BY <2>3 DEF Shape, Backed
  <2> QED
    BY <2>2, <2>3, <2>4, GoesOn
<1>5. CASE AdminMove(p)
  <2>1. PICK to \in AdminTarget, guard \in {None, s} :
          Arrives(p, Transition(Job("ADMIN", "read", None), to, "ADMIN", guard))
    BY <1>1, <1>5 DEF AdminMove
  <2> DEFINE i == Job("ADMIN", "read", None)
             k == Transition(i, to, "ADMIN", guard)
  <2>2. i \in JobRow /\ i.kind = "ADMIN"
    BY JobRowOf
  <2>3. "ADMIN" \in Actor /\ guard \in Status \union {None}
    BY DEF Actor
  <2> HIDE DEF i
  <2>4. k \in JobRow /\ k.at = "read" /\ k.actor = "ADMIN" /\ k.kind = "ADMIN"
    BY <2>2, <2>3, TransitionRow
  <2>5. job' = [job EXCEPT ![p] = k] /\ UNCHANGED order /\ UNCHANGED answer
    BY <2>1 DEF Arrives, i
  <2> HIDE DEF k
  <2>6. Shape(k) /\ Backed(k)
    BY <2>3, <2>4 DEF Shape, Backed, Targets
  <2> QED
    BY <2>4, <2>5, <2>6, GoesOn
<1> QED
  BY <1>2, <1>3, <1>4, <1>5

LEMMA OpeningStep ==
  ASSUME IInv, NEW p \in Request, CheckOpening(p) \/ RecordOpening(p) \/ CaptureFails(p)
  PROVE  IInv'
<1>1. PICK j \in JobRow : j = job[p]
  BY DEF IInv
<1>2. Shape(j) /\ Backed(j)
  BY <1>1 DEF IInv
<1>3. CASE CheckOpening(p)
  <2>1. UNCHANGED order /\ j.kind = "START"
    BY <1>1, <1>2, <1>3 DEF CheckOpening, Shape
  <2>2. CASE End(p, "REFUSED")
    BY <2>1, <2>2, Refused
  <2>3. CASE Goto(p, [job[p] EXCEPT !.at = "open"])
    <3> DEFINE k == [j EXCEPT !.at = "open"]
    <3>1. k \in JobRow /\ k.at = "open" /\ k.kind = "START"
      BY <2>1, NextStatement
    <3>2. job' = [job EXCEPT ![p] = k] /\ UNCHANGED answer
      BY <1>1, <2>3 DEF Goto
    <3> HIDE DEF k
    <3>3. Shape(k) /\ Backed(k)
      BY <3>1 DEF Shape, Backed
    <3> QED
      BY <2>1, <3>1, <3>2, <3>3, GoesOn
  <2> QED
    BY <1>3, <2>2, <2>3 DEF CheckOpening
<1>4. CASE RecordOpening(p)
  <2>1. PICK measure \in Measure, figure \in Figure :
          readings' = Append(readings,
            Reading("DELIVERY_START", [measure |-> measure, figure |-> figure], None))
    BY <1>4 DEF RecordOpening
  <2>2. PICK r \in ReadingRow : r.type = "DELIVERY_START" /\ readings' = Append(readings, r)
    BY <2>1 DEF Reading, ReadingRow
  <2> DEFINE k == Transition(j, "DISPENSING", "DRIVER", "ARRIVED")
  <2>3. j.kind = "START" /\ "DISPENSING" \in Status /\ "DRIVER" \in Actor /\ "ARRIVED" \in Status
    BY <1>1, <1>2, <1>4 DEF RecordOpening, Shape, Status, Actor
  <2>4. k \in JobRow /\ k.at = "read" /\ k.to = "DISPENSING" /\ k.actor = "DRIVER" /\ k.kind = "START"
    BY <2>3, TransitionRow
  <2>5. /\ job' = [job EXCEPT ![p] = k] /\ UNCHANGED answer
        /\ UNCHANGED <<status, movedBy, reservation, delivered, settlement>>
    BY <1>1, <1>4 DEF RecordOpening, Goto
  <2> HIDE DEF k
  <2>6. Shape(k)
    BY <2>3, <2>4 DEF Shape, Targets
  <2>7. Backed(k)'
    BY <2>2, <2>4, ReadingsGrow DEF IInv, Backed
  <2>8. reservation' \in {"HELD", "RELEASED"} /\ answer' \in [Delivery -> {"NONE", "OK", "REPLAYED", "REFUSED"}]
    BY <2>5 DEF IInv
  <2> QED
    BY <2>2, <2>4, <2>5, <2>6, <2>7, <2>8, Moves
<1>5. CASE CaptureFails(p)
  BY <1>5, Refused DEF CaptureFails
<1> QED
  BY <1>3, <1>4, <1>5

LEMMA CheckClosingStep ==
  ASSUME IInv, NEW p \in Request, CheckClosing(p)
  PROVE  IInv'
<1>1. PICK j \in JobRow : j = job[p]
  BY DEF IInv
<1>2. j.kind = "COMPLETE" /\ UNCHANGED order
  BY <1>1 DEF CheckClosing, Shape, IInv
<1>3. CASE End(p, "REPLAYED") \/ End(p, "REFUSED")
  BY <1>2, <1>3, Refused
<1>4. CASE Openings # {} /\ Goto(p, Transition(j, "DELIVERY_FAILED", "DRIVER", "DISPENSING"))
  <2> DEFINE k == Transition(j, "DELIVERY_FAILED", "DRIVER", "DISPENSING")
  <2>1. "DELIVERY_FAILED" \in Status /\ "DRIVER" \in Actor /\ "DISPENSING" \in Status
    BY DEF Status, Actor
  <2>2. /\ k \in JobRow /\ k.at = "read" /\ k.to = "DELIVERY_FAILED" /\ k.actor = "DRIVER"
        /\ k.expect = "DISPENSING" /\ k.kind = "COMPLETE"
    BY <1>2, <2>1, TransitionRow
  <2>3. job' = [job EXCEPT ![p] = k] /\ UNCHANGED answer
    BY <1>4 DEF Goto
  <2> HIDE DEF k
  <2>4. Shape(k) /\ Backed(k)
    BY <2>1, <2>2 DEF Shape, Backed, Targets
  <2> QED
    BY <1>2, <2>2, <2>3, <2>4, GoesOn
<1>5. CASE Openings # {} /\ Goto(p, [j EXCEPT !.at = "close"])
  <2> DEFINE k == [j EXCEPT !.at = "close"]
  <2>1. k \in JobRow /\ k.at = "close" /\ k.kind = "COMPLETE"
    BY <1>2, NextStatement
  <2>2. job' = [job EXCEPT ![p] = k] /\ UNCHANGED answer
    BY <1>5 DEF Goto
  <2> HIDE DEF k
  <2>3. Shape(k) /\ Backed(k)
    BY <1>5, <2>1 DEF Shape, Backed
  <2> QED
    BY <1>2, <2>1, <2>2, <2>3, GoesOn
<1> QED
  BY <1>1, <1>3, <1>4, <1>5 DEF CheckClosing

\* The litres of a closing reading that is not refused.
LEMMA LitresAreNatural ==
  ASSUME NEW opening \in ReadingRow, NEW r, r.figure \in Nat, ~ (LitresBetween(opening, r) < 0)
  PROVE  LitresBetween(opening, r) \in Nat
<1>1. opening.figure \in Nat
  BY FigureAssumption DEF ReadingRow
<1>2. \A m : FigureOf(r, m) \in Nat
  BY DEF FigureOf
<1> QED
  BY <1>1, <1>2 DEF LitresBetween

LEMMA OpeningIsReading ==
  ASSUME IInv, Openings # {}
  PROVE  Opening \in ReadingRow
<1>1. PICK i \in Openings : \A k \in Openings : i <= k
  BY DEF IInv, FirstIsKept
<1>2. Openings \in SUBSET Nat
  BY DEF Openings, IInv
<1>3. Min(Openings) = i
  BY <1>1, <1>2, MinIs
<1> QED
  BY <1>3 DEF Opening, Openings, IInv

LEMMA RecordClosingStep ==
  ASSUME IInv, NEW p \in Request, RecordClosing(p)
  PROVE  IInv'
<1>1. PICK j \in JobRow : j = job[p]
  BY DEF IInv
<1>2. /\ j.kind = "COMPLETE" /\ Openings # {} /\ Opening \in ReadingRow
      /\ UNCHANGED <<status, movedBy, reservation, delivered, settlement>>
  BY <1>1, OpeningIsReading DEF RecordClosing, Shape, Backed, IInv
<1>3. PICK measure \in Measure, figure \in Figure :
        LET r == [measure |-> measure, figure |-> figure]
        IN  IF LitresBetween(Opening, r) < 0
              THEN End(p, "REFUSED") /\ UNCHANGED readings
              ELSE StoreClosing(p, r, "DRIVER")
  BY DEF RecordClosing
<1> DEFINE r == [measure |-> measure, figure |-> figure]
           row == Reading("DELIVERY_END", r, j.id)
<1>4. CASE End(p, "REFUSED") /\ UNCHANGED readings
  BY <1>2, <1>4, Refused DEF order
<1>5. CASE ~ (LitresBetween(Opening, r) < 0) /\ StoreClosing(p, r, "DRIVER")
  <2>1. r.figure \in Nat
    BY FigureAssumption
  <2>2. PICK litres \in Nat : litres = LitresBetween(Opening, r)
    BY <1>2, <1>5, <2>1, LitresAreNatural
  <2>3. LitresBetween(Opening, row) = litres
    BY <2>2 DEF LitresBetween, FigureOf, Reading
  <2>4. row \in ReadingRow /\ row.type = "DELIVERY_END"
    BY DEF Reading, ReadingRow, JobRow
  <2> DEFINE i == [j EXCEPT !.litres = litres]
             k == Transition(i, OutcomeOf(litres), "DRIVER", "DISPENSING")
  <2>5. readings' = Append(readings, row) /\ job' = [job EXCEPT ![p] = k] /\ UNCHANGED answer
    BY <1>1, <1>5, <2>2 DEF StoreClosing, Goto
  <2>6. i \in JobRow /\ i.kind = "COMPLETE" /\ i.litres = litres
    BY <1>2 DEF JobRow
  <2>7. /\ OutcomeOf(litres) \in Status /\ "DRIVER" \in Actor /\ "DISPENSING" \in Status
        /\ OutcomeOf(litres) # "DELIVERY_FAILED"
    BY DEF OutcomeOf, Status, Actor
  <2> HIDE DEF i
  <2>8. /\ k \in JobRow /\ k.at = "read" /\ k.to = OutcomeOf(litres) /\ k.actor = "DRIVER"
        /\ k.expect = "DISPENSING" /\ k.kind = "COMPLETE" /\ k.litres = litres
    BY <2>6, <2>7, TransitionRow
  <2> HIDE DEF k, row
  <2>9. Shape(k)
    BY <2>7, <2>8 DEF Shape, Targets
  <2>10. Openings' # {} /\ litres \in ClosingLitres'
    BY <1>2, <2>3, <2>4, <2>5, ReadingsGrow DEF IInv
  <2>11. Backed(k)'
    BY <2>8, <2>10 DEF Backed
  <2>12. reservation' \in {"HELD", "RELEASED"} /\ answer' \in [Delivery -> {"NONE", "OK", "REPLAYED", "REFUSED"}]
    BY <1>2, <2>5 DEF IInv
  <2> QED
    BY <1>2, <2>4, <2>5, <2>8, <2>9, <2>11, <2>12, Moves
<1> QED
  BY <1>3, <1>4, <1>5

-----------------------------------------------------------------------------
\* transitionOrder reads the order, and keeps to the table.
LEMMA ReadOrderStep ==
  ASSUME IInv, NEW p \in Request, ReadOrder(p)
  PROVE  IInv'
<1>1. PICK j \in JobRow : j = job[p]
  BY DEF IInv
<1>2. PICK s \in Status : s = status
  BY DEF IInv
<1>3. j.at = "read" /\ Shape(j) /\ Backed(j) /\ UNCHANGED order
  BY <1>1 DEF ReadOrder, IInv
<1>4. CASE End(p, "REFUSED")
  BY <1>3, <1>4, Refused
<1>5. CASE j.expect \in {None, s} /\ CanTransition(s, j.to, j.actor) /\ ~ End(p, "REFUSED")
  <2>1. PICK at \in {"release", "write"} : Goto(p, [j EXCEPT !.from = s, !.at = at])
    BY <1>1, <1>2, <1>5 DEF ReadOrder
  <2> DEFINE i == [j EXCEPT !.from = s]
             k == [i EXCEPT !.at = at]
  <2>2. /\ i \in JobRow /\ i.from = s /\ i.kind = j.kind /\ i.to = j.to /\ i.actor = j.actor
        /\ i.expect = j.expect /\ i.litres = j.litres
    BY DEF JobRow
  <2>3. job' = [job EXCEPT ![p] = k] /\ UNCHANGED answer
    BY <2>1 DEF Goto
  <2> HIDE DEF i
  <2>4. /\ k \in JobRow /\ k.at = at /\ k.from = s /\ k.kind = j.kind /\ k.to = j.to /\ k.actor = j.actor
        /\ k.expect = j.expect /\ k.litres = j.litres
    BY <2>2 DEF JobRow
  <2> HIDE DEF k
  <2>5. Shape(k)
    BY <1>3, <1>5, <2>4 DEF Shape, Targets
  <2>6. Backed(k)
    BY <1>3, <2>4 DEF Backed
  <2> QED
    BY <1>3, <2>3, <2>4, <2>5, <2>6, GoesOn
<1> QED
  BY <1>1, <1>2, <1>4, <1>5 DEF ReadOrder

LEMMA ReleaseFuelStep ==
  ASSUME IInv, NEW p \in Request, ReleaseFuel(p)
  PROVE  IInv'
<1>1. PICK j \in JobRow : j = job[p]
  BY DEF IInv
<1>2. /\ j.at = "release" /\ Shape(j) /\ Backed(j)
      /\ UNCHANGED <<status, movedBy, readings, delivered, settlement, answer>>
  BY <1>1 DEF ReleaseFuel, Goto, IInv
<1> DEFINE k == [j EXCEPT !.at = "write"]
<1>3. /\ k \in JobRow /\ k.at = "write"
      /\ k.kind = j.kind /\ k.to = j.to /\ k.actor = j.actor
      /\ k.expect = j.expect /\ k.from = j.from /\ k.litres = j.litres
  BY NextStatement
<1>4. job' = [job EXCEPT ![p] = k]
  BY <1>1 DEF ReleaseFuel, Goto
<1> HIDE DEF k
<1>5. Shape(k)
  BY <1>2, <1>3 DEF Shape, Targets
<1>6. Backed(k)
  BY <1>2, <1>3 DEF Backed
<1>7. readings \in Seq(ReadingRow) /\ FirstIsKept
  BY DEF IInv
<1>8. Backed(k)'
  BY <1>2, <1>3, <1>6, <1>7, BackedStays
<1>9. reservation' \in {"HELD", "RELEASED"} /\ answer' \in [Delivery -> {"NONE", "OK", "REPLAYED", "REFUSED"}]
  BY <1>2 DEF IInv, ReleaseFuel
<1> QED
  BY <1>2, <1>3, <1>4, <1>5, <1>8, <1>9, Moves

\* The compare-and-set succeeds: the order was where the request had read it, so the
\* table allows the move; an outcome is taken once, and only from DISPENSING.
LEMMA CommitStep ==
  ASSUME IInv, NEW p \in Request, WriteStatus(p), status = job[p].from
  PROVE  IInv'
<1>1. PICK j \in JobRow : j = job[p]
  BY DEF IInv
<1>2. /\ j.at = "write" /\ Targets(j) /\ Backed(j)
      /\ j.from \in Status /\ CanTransition(j.from, j.to, j.actor) /\ j.expect \in {None, j.from}
  BY <1>1 DEF WriteStatus, IInv, Shape
<1>3. /\ status = j.from /\ status' = j.to /\ movedBy' = j.actor
      /\ UNCHANGED <<reservation, readings, delivered, settlement>>
  BY <1>1 DEF WriteStatus
<1>4. /\ j.to \in Status /\ j.actor \in Actor
      /\ status \in Settled => status' = "CLOSED"
      /\ status' \in {"DELIVERED", "PARTIALLY_DELIVERED"} => status = "DISPENSING"
  BY <1>2, <1>3, OutcomeStays DEF Targets
<1>5. j.kind = "COMPLETE" => status = "DISPENSING"
  <2>1. None \notin Status /\ "DISPENSING" \in Status
    BY NoneAssumption DEF Status
  <2> QED
    BY <1>2, <1>3, <2>1 DEF Targets
<1> DEFINE k == IF Billable(j) THEN [j EXCEPT !.at = "bill"] ELSE Done
<1>6. /\ job' = [job EXCEPT ![p] = k]
      /\ answer' \in [Delivery -> {"NONE", "OK", "REPLAYED", "REFUSED"}]
  <2>1. CASE Billable(j)
    BY <1>1, <1>3, <2>1 DEF WriteStatus, Goto, IInv
  <2>2. CASE ~ Billable(j)
    BY <1>1, <1>3, <2>2, Ends DEF WriteStatus
  <2> QED
    BY <2>1, <2>2
<1>7. /\ k \in JobRow /\ Shape(k) /\ Backed(k) /\ k.at \in {"bill", "end"}
      /\ k.at = "bill" => Billable(j) /\ k.litres = j.litres
  <2>1. CASE Billable(j)
    <3> DEFINE b == [j EXCEPT !.at = "bill"]
    <3>1. /\ b \in JobRow /\ b.at = "bill" /\ b.kind = j.kind /\ b.to = j.to /\ b.actor = j.actor
          /\ b.expect = j.expect /\ b.from = j.from /\ b.litres = j.litres
      BY NextStatement
    <3>2. k = b
      BY <2>1
    <3> HIDE DEF b, k
    <3>3. Shape(b) /\ Backed(b)
      BY <1>2, <2>1, <3>1 DEF Shape, Targets, Backed, Billable
    <3> QED
      BY <2>1, <3>1, <3>2, <3>3
  <2>2. CASE ~ Billable(j)
    BY <2>2, DoneRow
  <2> QED
    BY <2>1, <2>2
<1> HIDE DEF k
<1>8. job \in [Request -> JobRow] /\ job' \in [Request -> JobRow]
      /\ \A q \in Request : job'[q] = IF q = p THEN k ELSE job[q]
  BY <1>6, <1>7 DEF IInv
<1>9. Openings' = Openings /\ ClosingLitres' = ClosingLitres /\ FirstIsKept'
  BY <1>3 DEF Openings, ClosingLitres, Opening, FirstIsKept, IInv
<1>10. (\A q \in Request : Shape(job[q]) /\ Backed(job[q]))'
  <2> SUFFICES ASSUME NEW q \in Request PROVE Shape(job'[q]) /\ Backed(job[q])'
    OBVIOUS
  <2>1. Shape(job'[q]) /\ Backed(job'[q])
    BY <1>7, <1>8 DEF IInv
  <2> QED
    BY <1>9, <2>1 DEF Backed
<1>11. EvidenceBeforeOutcome'
  <2> SUFFICES ASSUME j.actor = "DRIVER"
               PROVE  /\ status' = "DISPENSING" => Openings # {}
                      /\ status' \in {"DELIVERED", "PARTIALLY_DELIVERED"} =>
                           Openings # {} /\ \E litres \in ClosingLitres : status' = OutcomeOf(litres)
    BY <1>3, <1>9 DEF EvidenceBeforeOutcome
  <2>1. j.kind \in {"ARRIVE", "START", "COMPLETE"}
    BY <1>2 DEF Targets
  <2>2. CASE j.kind = "ARRIVE"
    BY <1>2, <1>3, <2>2 DEF Targets
  <2>3. CASE j.kind = "START"
    BY <1>2, <1>3, <2>3 DEF Targets, Backed
  <2>4. CASE j.kind = "COMPLETE"
    BY <1>2, <1>3, <2>4 DEF Targets, Backed, OutcomeOf
  <2> QED
    BY <2>1, <2>2, <2>3, <2>4
<1>12. \A litres \in Nat : Explains(litres) => Explains(litres)'
  BY <1>4 DEF Explains, Settled
<1>13. status = "DISPENSING" =>
         delivered = None /\ \A q \in Request : job[q].at # "bill"
  BY DEF IInv, OneBill, BilledOnce, Explains, Settled
<1>14. BilledOnce'
  <2>1. delivered # None => delivered \in Nat
    BY DEF IInv
  <2>2. delivered' = delivered /\ settlement' = settlement
    BY <1>3
  <2>3. PICK litres \in Nat \union {None} : litres = delivered
    BY DEF IInv
  <2>4. litres # None => litres \in Nat
    OBVIOUS
  <2>5. litres # None => Explains(litres)'
    BY <1>12, <2>3, <2>4 DEF IInv, BilledOnce
  <2>6. litres # None => Explains(delivered)'
    BY <2>2, <2>3, <2>5 DEF Explains
  <2> QED
    BY <2>2, <2>3, <2>6 DEF IInv, BilledOnce
<1>15. OneBill'
  <2>1. CASE k.at = "bill"
    <3>1. /\ status = "DISPENSING" /\ j.to = OutcomeOf(j.litres) /\ j.litres \in Nat
      BY <1>2, <1>5, <1>7, <2>1 DEF Billable, Targets, JobRow
    <3>2. \A q \in Request : job'[q].at = "bill" => q = p
      BY <1>8, <1>13, <3>1
    <3>3. Explains(j.litres)'
      BY <1>3, <3>1, OrderedAssumption DEF Explains, OutcomeOf, Settled
    <3>4. \A q \in Request : job'[q].at = "bill" => job'[q].litres = j.litres
      BY <1>7, <1>8, <3>2
    <3>5. \A q \in Request : job'[q].at = "bill" => Explains(job[q].litres)'
      BY <3>3, <3>4 DEF Explains
    <3> QED
      BY <1>3, <1>13, <3>1, <3>2, <3>5 DEF OneBill
  <2>2. CASE k.at # "bill"
    <3>1. \A q \in Request : job'[q].at = "bill" => job'[q] = job[q]
      BY <1>8, <2>2
    <3>2. \A q \in Request : job[q].litres \in Nat
      BY <1>8 DEF JobRow
    <3>3. \A q \in Request : job'[q].at = "bill" => Explains(job[q].litres)'
      <4> SUFFICES ASSUME NEW q \in Request, job'[q].at = "bill" PROVE Explains(job[q].litres)'
        OBVIOUS
      <4>1. PICK litres \in Nat : litres = job[q].litres
        BY <3>2
      <4>2. Explains(litres)'
        BY <1>12, <3>1, <4>1 DEF IInv, OneBill
      <4> QED
        BY <3>1, <4>1, <4>2 DEF Explains
    <3> QED
      BY <1>3, <3>1, <3>3 DEF IInv, OneBill
  <2> QED
    BY <2>1, <2>2
<1>16. /\ status' \in Status /\ movedBy' \in Actor /\ reservation' \in {"HELD", "RELEASED"}
       /\ readings' \in Seq(ReadingRow) /\ delivered' \in Nat \union {None}
       /\ settlement' \in {"NOT_REQUIRED", "PENDING"}
  BY <1>3, <1>4 DEF IInv
<1> QED
  BY <1>6, <1>8, <1>9, <1>10, <1>11, <1>14, <1>15, <1>16 DEF IInv

LEMMA WriteStatusStep ==
  ASSUME IInv, NEW p \in Request, WriteStatus(p)
  PROVE  IInv'
<1>1. CASE status = job[p].from
  BY <1>1, CommitStep
<1>2. CASE status # job[p].from
  <2>1. End(p, "REFUSED") /\ UNCHANGED order
    BY <1>2 DEF WriteStatus, order
  <2> QED
    BY <2>1, Refused
<1> QED
  BY <1>1, <1>2

\* The quantity goes on the order once: whoever is about to write it is alone.
LEMMA WriteDeliveredStep ==
  ASSUME IInv, NEW p \in Request, WriteDelivered(p)
  PROVE  IInv'
<1>1. PICK j \in JobRow : j = job[p]
  BY DEF IInv
<1>2. /\ j.at = "bill" /\ j.litres \in Nat /\ delivered = None /\ Explains(j.litres)
      /\ \A q \in Request : job[q].at = "bill" => q = p
  BY <1>1 DEF WriteDelivered, IInv, OneBill, JobRow
<1>3. /\ delivered' = j.litres
      /\ settlement' = IF j.litres # Ordered THEN "PENDING" ELSE settlement
      /\ End(p, "OK") /\ UNCHANGED <<status, movedBy, reservation, readings>>
  BY <1>1 DEF WriteDelivered
<1>4. job' = [job EXCEPT ![p] = Done] /\ answer' \in [Delivery -> {"NONE", "OK", "REPLAYED", "REFUSED"}]
  BY <1>3, Ends
<1>5. job \in [Request -> JobRow] /\ job' \in [Request -> JobRow]
      /\ \A q \in Request : job'[q] = IF q = p THEN Done ELSE job[q]
  BY <1>4, DoneRow DEF IInv
<1>6. Openings' = Openings /\ ClosingLitres' = ClosingLitres /\ FirstIsKept'
  BY <1>3 DEF Openings, ClosingLitres, Opening, FirstIsKept, IInv
<1>7. (\A q \in Request : Shape(job[q]) /\ Backed(job[q]))'
  <2> SUFFICES ASSUME NEW q \in Request PROVE Shape(job'[q]) /\ Backed(job[q])'
    OBVIOUS
  <2>1. Shape(job'[q]) /\ Backed(job'[q])
    BY <1>5, DoneRow DEF IInv
  <2> QED
    BY <1>6, <2>1 DEF Backed
<1>8. EvidenceBeforeOutcome'
  BY <1>3, <1>6 DEF IInv, EvidenceBeforeOutcome
<1>9. OneBill'
  BY <1>2, <1>5, DoneRow DEF OneBill
<1>10. BilledOnce'
  <2>1. delivered' # None
    BY <1>2, <1>3, NoneAssumption
  <2>2. Explains(delivered)'
    BY <1>2, <1>3 DEF Explains
  <2>3. settlement = "NOT_REQUIRED"
    BY <1>2 DEF IInv, BilledOnce
  <2> QED
    BY <1>3, <2>1, <2>2, <2>3 DEF BilledOnce
<1>11. /\ status' \in Status /\ movedBy' \in Actor /\ reservation' \in {"HELD", "RELEASED"}
       /\ readings' \in Seq(ReadingRow) /\ delivered' \in Nat \union {None}
       /\ settlement' \in {"NOT_REQUIRED", "PENDING"}
  BY <1>2, <1>3 DEF IInv
<1> QED
  BY <1>4, <1>5, <1>6, <1>7, <1>8, <1>9, <1>10, <1>11 DEF IInv

\* A restart forgets the requests and nothing that was committed.
LEMMA CrashStep ==
  ASSUME IInv, Crash
  PROVE  IInv'
<1>1. UNCHANGED <<status, movedBy, reservation, readings, delivered, settlement, answer>>
  BY DEF Crash, order
<1>2. job \in [Request -> JobRow] /\ job' \in [Request -> JobRow]
      /\ \A q \in Request : job'[q] \in {job[q], Done}
  BY DoneRow DEF Crash, IInv
<1>3. Openings' = Openings /\ ClosingLitres' = ClosingLitres /\ FirstIsKept'
  BY <1>1 DEF Openings, ClosingLitres, Opening, FirstIsKept, IInv
<1>4. (\A q \in Request : Shape(job[q]) /\ Backed(job[q]))'
  <2> SUFFICES ASSUME NEW q \in Request PROVE Shape(job'[q]) /\ Backed(job[q])'
    OBVIOUS
  <2>1. Shape(job'[q]) /\ Backed(job'[q])
    BY <1>2, DoneRow DEF IInv
  <2> QED
    BY <1>3, <2>1 DEF Backed
<1>5. EvidenceBeforeOutcome' /\ BilledOnce'
  BY <1>1, <1>3 DEF IInv, EvidenceBeforeOutcome, BilledOnce, Explains
<1>6. \A q \in Request : job'[q].at = "bill" => job'[q] = job[q]
  BY <1>2, DoneRow
<1>7. OneBill'
  BY <1>1, <1>6 DEF IInv, OneBill, Explains
<1> QED
  BY <1>1, <1>2, <1>3, <1>4, <1>5, <1>7 DEF IInv

-----------------------------------------------------------------------------
LEMMA InitIInv == Init => IInv
<1> SUFFICES ASSUME Init PROVE IInv
  OBVIOUS
<1>1. /\ status \in Status /\ movedBy \in Actor /\ reservation \in {"HELD", "RELEASED"}
      /\ delivered \in Nat \union {None} /\ settlement \in {"NOT_REQUIRED", "PENDING"}
      /\ answer \in [Delivery -> {"NONE", "OK", "REPLAYED", "REFUSED"}]
  BY DEF Init, Status, Actor
<1>2. readings \in Seq(ReadingRow) /\ Openings = {} /\ FirstIsKept
  BY DEF Init, Openings, FirstIsKept
<1>3. job \in [Request -> JobRow] /\ \A q \in Request : job[q] = New
  BY DoneRow DEF Init
<1>4. \A q \in Request : Shape(job[q]) /\ Backed(job[q])
  BY <1>3, DoneRow
<1>5. EvidenceBeforeOutcome
  BY DEF Init, EvidenceBeforeOutcome
<1>6. OneBill /\ BilledOnce
  BY <1>3, DoneRow DEF Init, OneBill, BilledOnce
<1> QED
  BY <1>1, <1>2, <1>3, <1>4, <1>5, <1>6 DEF IInv

LEMMA Invariance == Spec => []IInv
<1>1. IInv /\ [Next]_vars => IInv'
  <2> SUFFICES ASSUME IInv, [Next]_vars PROVE IInv'
    OBVIOUS
  <2>1. ASSUME NEW p \in Request,
               MarkArrived(p) \/ StartDispensing(p) \/ AdminMove(p)
               \/ \E d \in Delivery : CompleteDelivery(p, d)
        PROVE  IInv'
    BY <2>1, ArrivalStep
  <2>2. ASSUME NEW p \in Request, Step(p) PROVE IInv'
    BY <2>2, OpeningStep, CheckClosingStep, RecordClosingStep, ReadOrderStep, ReleaseFuelStep,
       WriteStatusStep, WriteDeliveredStep DEF Step
  <2>3. CASE Crash
    BY <2>3, CrashStep
  <2>4. CASE UNCHANGED vars
    <3>1. UNCHANGED <<status, movedBy, reservation, readings, delivered, settlement, answer, job>>
      BY <2>4 DEF vars, order
    <3>2. Openings' = Openings /\ ClosingLitres' = ClosingLitres
      BY <3>1 DEF Openings, ClosingLitres, Opening
    <3>3. (\A q \in Request : Shape(job[q]) /\ Backed(job[q]))'
      <4> SUFFICES ASSUME NEW q \in Request PROVE Shape(job'[q]) /\ Backed(job[q])'
        OBVIOUS
      <4> QED
        BY <3>1, <3>2 DEF IInv, Backed
    <3> QED
      BY <3>1, <3>2, <3>3 DEF IInv, FirstIsKept, EvidenceBeforeOutcome, OneBill, BilledOnce, Explains
  <2> QED
    BY <2>1, <2>2, <2>3, <2>4 DEF Next
<1> QED
  BY <1>1, InitIInv, PTL DEF Spec

-----------------------------------------------------------------------------
\* Type correctness: the columns the delivery writes hold values of their types, and the app is
\* told one of the four answers, however many requests, repeats and restarts there are
\* (delivery.service.js, transitionOrder).
THEOREM TypeCorrect == Spec => []TypeOK
<1>1. IInv => TypeOK
  <2> SUFFICES ASSUME IInv PROVE TypeOK
    OBVIOUS
  <2>1. \A i \in DOMAIN readings : readings[i] \in ReadingRow
    BY DEF IInv
  <2> QED
    BY <2>1 DEF IInv, TypeOK, ReadingRow
<1> QED
  BY <1>1, Invariance, PTL

\* Evidence first: an order a driver made dispensing has its opening reading, and one a driver
\* made delivered has a closing reading whose litres give that outcome (startDispensing and
\* completeDelivery store the reading before they call transitionOrder).
THEOREM EvidenceFirst == Spec => []EvidenceBeforeOutcome
<1>1. IInv => EvidenceBeforeOutcome
  BY DEF IInv
<1> QED
  BY <1>1, Invariance, PTL

\* One bill: the quantity on the order agrees with the outcome the order carries, and the balance
\* is pending exactly when it differs from what was ordered: of the submissions that race, retry or
\* meet an operator only the one whose outcome was committed writes it (completeDelivery's update
\* after transitionOrder).
THEOREM BilledAsDelivered == Spec => []BilledAgreesWithOutcome
<1>1. IInv => BilledAgreesWithOutcome
  BY DEF IInv, BilledOnce, Explains, Settled, BilledAgreesWithOutcome
<1> QED
  BY <1>1, Invariance, PTL
================================================================================
