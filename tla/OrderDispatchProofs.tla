-------------------------- MODULE OrderDispatchProofs --------------------------
(***************************************************************************)
(* Orders, fuel and drivers, for any number of each and of requests between  *)
(* any two of their statements: the timeline, the ledger under the requests, *)
(* and, where no operator assigns by hand, who carries out an order.         *)
(***************************************************************************)
EXTENDS OrderDispatch, FuelLedgerProofs

\* The operator's transition endpoint may also assign an order; whoever does so
\* takes it out of the hands of the accept that is being carried out.
NoHandAssignment == "ADMIN_MOVE" \in Kind => "ASSIGNED" \notin AdminTarget

TransitionStage ==
  {"CLAIM", "ASSIGN", "FALL_THROUGH", "HAND_BACK", "RETURN", "COMPENSATE", "START_TRIP", "CANCEL",
   "ADMIN_MOVE", "LAPSE"}
ReserveStage == {"PLACE", "MOVE", "RESTORE", "ADMIN_RESERVE"}
ReleaseStage == {"DROP", "ADMIN_RELEASE"}

JobRow ==
  [stage : {"NEW", "DONE"} \union TransitionStage \union ReserveStage \union ReleaseStage,
   at : {"start", "end", "fuel", "read", "find", "settle", "write", "active", "hold"},
   order : Order \union {None}, driver : Vehicle \union {None}, was : Reservation \union {None},
   to : Status \union AdminTarget \union {None}, actor : Actor \union {None},
   expect : Status \union {None}, from : Status \union {None}, row : Reservation \union {None},
   named : Vehicle \union {None}, left : SUBSET Vehicle]

\* What each call of transitionOrder asks for.
Targets(stage, to, actor, expect) ==
  /\ stage = "CLAIM" => to = "ALLOCATING" /\ expect \in OpenStatus
  /\ stage = "HAND_BACK" => to = "ALLOCATING" /\ expect = "ASSIGNED"
  /\ stage = "START_TRIP" => to = "EN_ROUTE"
  /\ stage \in {"CANCEL", "LAPSE", "COMPENSATE"} => to \in CancelledStatus
  /\ stage = "ADMIN_MOVE" => actor = "ADMIN" /\ (NoHandAssignment => to # "ASSIGNED")
  /\ stage = "ASSIGN" => to = "ASSIGNED"
  /\ stage \in {"FALL_THROUGH", "RETURN"} => to = "ALLOCATION_FAILED"

\* What a request carries, at the statement it is at.
Shape(j) ==
  /\ j.stage \notin {"NEW", "DONE"} => j.order \in Order
  /\ j.at = "fuel" => j.stage = "CLAIM"
  /\ j.at \in {"read", "write"} => j.stage \in TransitionStage
  /\ j.at = "find" => j.stage \in TransitionStage \union {"ADMIN_RELEASE"}
  /\ j.at = "settle" => j.stage \in TransitionStage \union ReleaseStage /\ j.row \in Reservation
  /\ j.at \in {"active", "hold"} => j.stage \in ReserveStage
  /\ j.stage \in TransitionStage =>
       /\ j.actor \in Actor /\ j.to \in Status \union AdminTarget
       /\ Targets(j.stage, j.to, j.actor, j.expect)
       /\ j.at \in {"find", "settle", "write"} =>
            j.from \in Status /\ CanTransition(j.from, j.to, j.actor) /\ j.expect \in {None, j.from}
  /\ j.stage \in {"CLAIM", "DROP", "MOVE", "RESTORE", "ASSIGN"} => j.driver \in Vehicle
  /\ j.stage = "MOVE" => j.named = j.driver
  /\ j.named # None => j.left \subseteq {j.named}

\* What it has seen is never undone: an order once placed, a row once inserted,
\* and the row an accept has on the driver's tanker.
Seen(j) ==
  /\ j.stage \notin {"NEW", "DONE"} => status[j.order] # "NONE"
  /\ j.was # None => reservation[j.was] # Absent /\ reservation[j.was].order = j.order
  /\ j.stage = "ASSIGN" => VisibleTo(j.order, j.driver)

HolderStage == {"DROP", "MOVE", "RESTORE", "FALL_THROUGH", "ASSIGN", "RETURN"}

\* Between the claim of an order and its assignment or its way back, the order is
\* ALLOCATING for one request, or somebody has cancelled it.
Holding(p, o) == job[p].order = o /\ job[p].stage \in HolderStage

OneHolder == \A o \in Order, p, q \in Process : Holding(p, o) /\ Holding(q, o) => p = q

HeldIsClaimed ==
  \A o \in Order, p \in Process : Holding(p, o) => status[o] \in {"ALLOCATING"} \union CancelledStatus

DInv ==
  /\ IInv
  /\ status \in [Order -> Status \union {"NONE"}]
  /\ event \in [Order -> (Status \union {"NONE"}) \X (Status \union {"NONE"})]
  /\ lapsed \in [Order -> BOOLEAN]
  /\ carrier \in [Order -> Vehicle \union {None}]
  /\ job \in [Process -> JobRow]
  /\ \A p \in Process : Shape(job[p]) /\ Seen(job[p])
  /\ \A o \in Order : job[o] = New => status[o] = "NONE"
  /\ queue \subseteq Order \X OpenStatus
  /\ \A e \in queue : status[e[1]] # "NONE"
  /\ NoHandAssignment => OneHolder /\ HeldIsClaimed /\ AssignedDriverSeesOrder

-----------------------------------------------------------------------------
\* What the table says of the statuses a claim passes through.
LEMMA TableFacts ==
  ASSUME NEW from \in Status, NEW to, NEW actor, CanTransition(from, to, actor)
  PROVE  /\ to \in Status
         /\ from \notin CancelledStatus
         /\ from = "ALLOCATING" =>
              /\ to \in {"ASSIGNED", "ALLOCATION_FAILED"} \union CancelledStatus
              /\ to = "ALLOCATION_FAILED" => actor = "SYSTEM"
<1>1. PICK t \in TransitionTable : t.from = from /\ t.to = to /\ actor \in t.actors
  BY DEF CanTransition
<1>2. CASE t \in TRANSITIONS
  BY <1>1, <1>2 DEF TRANSITIONS, Row, Status, CancelledStatus, CanTransition, Terminal
<1>3. CASE t \in CUSTOMER_CANCELLATIONS
  BY <1>1, <1>3 DEF CUSTOMER_CANCELLATIONS, Row, Status, CancelledStatus, CanTransition, Terminal
<1>4. CASE t \in ADMIN_CANCELLATIONS
  BY <1>1, <1>4 DEF ADMIN_CANCELLATIONS, Row, Status, CancelledStatus, CanTransition, Terminal
<1> QED
  BY <1>1, <1>2, <1>3, <1>4 DEF TransitionTable

\* A row once inserted keeps its order and its tanker.
LEMMA RowsStay ==
  ASSUME TypeOK, [Next]_ledger, NEW r \in Reservation, reservation[r] # Absent
  PROVE  /\ reservation'[r] # Absent
         /\ reservation'[r].order = reservation[r].order
         /\ reservation'[r].vehicle = reservation[r].vehicle
<1>1. reservation[r] \in ReservationRow
  BY DEF TypeOK
<1>2. CASE UNCHANGED ledger
  BY <1>2 DEF ledger
<1>3. ASSUME NEW s \in Reservation, NEW o \in Order, NEW v \in Vehicle, NEW q \in Quantity, Hold(s, o, v, q)
      PROVE  reservation'[r] = reservation[r]
  BY <1>3 DEF Hold, TypeOK
<1>4. ASSUME NEW s \in Reservation, NEW final \in SettledStatus, Settle(s, final)
      PROVE  reservation'[r] = reservation[r] \/ reservation'[r] = [reservation[r] EXCEPT !.status = final]
  BY <1>4 DEF Settle, TypeOK
<1>5. ASSUME NEW v \in Vehicle, NEW delta \in Movement, Adjust(v, delta)
      PROVE  reservation'[r] = reservation[r]
  BY <1>5 DEF Adjust
<1>6. \A final \in SettledStatus :
        LET row == [reservation[r] EXCEPT !.status = final]
        IN  row # Absent /\ row.order = reservation[r].order /\ row.vehicle = reservation[r].vehicle
  <2> SUFFICES ASSUME NEW final \in SettledStatus
               PROVE  LET row == [reservation[r] EXCEPT !.status = final]
                      IN  row # Absent /\ row.order = reservation[r].order /\ row.vehicle = reservation[r].vehicle
    OBVIOUS
  <2>1. [reservation[r] EXCEPT !.status = final].status # Absent.status
    BY <1>1 DEF ReservationRow, SettledStatus, Absent
  <2> QED
    BY <1>1, <2>1 DEF ReservationRow
<1> QED
  BY <1>2, <1>3, <1>4, <1>5, <1>6 DEF Next

LEMMA SeenStays ==
  ASSUME TypeOK, [Next]_ledger, NEW j \in JobRow, Shape(j), Seen(j),
         \A o \in Order : status[o] # "NONE" => status'[o] # "NONE"
  PROVE  Seen(j)'
<1>1. j.was # None => j.was \in Reservation
  BY DEF JobRow
<1>2. \A o, v : VisibleTo(o, v) => VisibleTo(o, v)'
  BY RowsStay DEF VisibleTo
<1> QED
  BY <1>1, <1>2, RowsStay DEF Seen, Shape

\* A tanker that could see an order goes on seeing it.
LEMMA VisibleStays ==
  ASSUME TypeOK, [Next]_ledger, NEW o, NEW v, VisibleTo(o, v)
  PROVE  VisibleTo(o, v)'
BY RowsStay DEF VisibleTo

-----------------------------------------------------------------------------
\* The calls a request makes next.
LEMMA TransitionRow ==
  ASSUME NEW j, j.order \in Order, j.driver \in Vehicle \union {None}, j.was \in Reservation \union {None},
         NEW stage \in TransitionStage, NEW to \in Status \union AdminTarget, NEW actor \in Actor,
         NEW expect \in Status \union {None}, Targets(stage, to, actor, expect),
         stage \in {"CLAIM", "ASSIGN"} => j.driver \in Vehicle
  PROVE  LET k == Transition(j, stage, to, actor, expect)
         IN  /\ k \in JobRow /\ Shape(k)
             /\ k.stage = stage /\ k.at = "read" /\ k.order = j.order /\ k.driver = j.driver /\ k.was = j.was
<1> DEFINE k == Transition(j, stage, to, actor, expect)
<1>1. /\ k.stage = stage /\ k.at = "read" /\ k.order = j.order /\ k.driver = j.driver /\ k.was = j.was
      /\ k.to = to /\ k.actor = actor /\ k.expect = expect /\ k.named = None
  BY DEF Transition, Job
<1>2. k \in JobRow
  BY DEF Transition, Job, JobRow
<1> HIDE DEF k
<1>3. Shape(k)
  BY <1>1 DEF Shape, TransitionStage
<1> QED
  BY <1>1, <1>2, <1>3 DEF k

LEMMA ReserveRow ==
  ASSUME NEW j, j.order \in Order, j.driver \in Vehicle \union {None}, j.was \in Reservation \union {None},
         NEW stage \in ReserveStage, NEW v \in Vehicle \union {None},
         stage \in {"MOVE", "RESTORE"} => j.driver \in Vehicle,
         stage = "MOVE" => v = j.driver
  PROVE  LET k == Reserve(j, stage, v)
         IN  /\ k \in JobRow /\ Shape(k)
             /\ k.stage = stage /\ k.at = "active" /\ k.order = j.order /\ k.was = j.was
<1> DEFINE k == Reserve(j, stage, v)
<1>1. /\ k.stage = stage /\ k.at = "active" /\ k.order = j.order /\ k.driver = j.driver /\ k.was = j.was
      /\ k.named = v /\ k.left = {}
  BY DEF Reserve, Job
<1>2. k \in JobRow
  BY DEF Reserve, Job, JobRow
<1> HIDE DEF k
<1>3. Shape(k)
  BY <1>1 DEF Shape, TransitionStage, ReserveStage
<1> QED
  BY <1>1, <1>2, <1>3 DEF k

LEMMA ReleaseRow ==
  ASSUME NEW j, j.order \in Order, j.driver \in Vehicle, NEW r \in Reservation, j.was \in Reservation \union {None}
  PROVE  LET k == Release(j, "DROP", r)
         IN  /\ k \in JobRow /\ Shape(k)
             /\ k.stage = "DROP" /\ k.at = "settle" /\ k.order = j.order /\ k.was = j.was
<1> DEFINE k == Release(j, "DROP", r)
<1>1. /\ k.stage = "DROP" /\ k.at = "settle" /\ k.order = j.order /\ k.driver = j.driver /\ k.was = j.was
      /\ k.row = r /\ k.named = None
  BY DEF Release, Job
<1>2. k \in JobRow
  BY DEF Release, Job, JobRow, ReleaseStage
<1> HIDE DEF k
<1>3. Shape(k)
  BY <1>1 DEF Shape, TransitionStage, ReleaseStage
<1> QED
  BY <1>1, <1>2, <1>3 DEF k

LEMMA DoneRow ==
  /\ Done \in JobRow /\ Shape(Done) /\ Seen(Done) /\ Done.stage = "DONE" /\ Done # New
  /\ New \in JobRow /\ Shape(New) /\ Seen(New) /\ New.stage = "NEW"
<1>1. Done \in JobRow /\ New \in JobRow
  BY DEF Done, New, Job, JobRow
<1>2. /\ Done.stage = "DONE" /\ Done.at = "end" /\ Done.was = None /\ Done.named = None
      /\ New.stage = "NEW" /\ New.at = "start" /\ New.was = None /\ New.named = None
  BY DEF Done, New, Job
<1>3. Shape(Done) /\ Shape(New)
  BY <1>2 DEF Shape, TransitionStage
<1>4. Seen(Done) /\ Seen(New)
  BY <1>2 DEF Seen
<1> QED
  BY <1>1, <1>2, <1>3, <1>4

\* What follows a call keeps the order, asks for an assignment only with a row on
\* the driver's tanker, and holds the order only if the call did, or was a claim.
LEMMA AfterRow ==
  ASSUME TypeOK, NEW j \in JobRow, Shape(j), Seen(j), j.stage \notin {"NEW", "DONE"}, NEW ok \in BOOLEAN
  PROVE  LET k == After(j, ok)
         IN  /\ k \in JobRow /\ Shape(k) /\ k # New
             /\ k.was # None => k.was = j.was /\ k.order = j.order
             /\ k.stage \notin {"NEW", "DONE"} => k.order = j.order
             /\ k.stage = "ASSIGN" =>
                  k.driver = j.driver /\ ((j.stage = "MOVE" /\ ok) \/ VisibleTo(j.order, j.driver))
             /\ k.stage \in HolderStage => j.stage \in HolderStage \/ (j.stage \in {"CLAIM", "HAND_BACK"} /\ ok)
<1> DEFINE k == After(j, ok)
           Next1(x) == /\ x \in JobRow /\ Shape(x) /\ x # New
                       /\ x.was # None => x.was = j.was /\ x.order = j.order
                       /\ x.stage \notin {"NEW", "DONE"} => x.order = j.order
                       /\ x.stage = "ASSIGN" => x.driver = j.driver
<1>1. /\ j.order \in Order /\ j.driver \in Vehicle \union {None} /\ j.was \in Reservation \union {None}
      /\ New.stage = "NEW"
  BY DEF Shape, JobRow, New, Job
<1>2. Next1(Done) /\ Done.stage = "DONE"
  <2>1. Done.was = None
    BY DEF Done, Job
  <2> QED
    BY <2>1, DoneRow
<1>3. ASSUME j.stage \in {"CLAIM", "MOVE"}
      PROVE  Next1(Assign(j)) /\ Assign(j).stage = "ASSIGN"
  <2>1. j.driver \in Vehicle
    BY <1>3 DEF Shape
  <2>2. /\ "ASSIGN" \in TransitionStage /\ "ASSIGNED" \in Status /\ "SYSTEM" \in Actor
        /\ "ALLOCATING" \in Status /\ Targets("ASSIGN", "ASSIGNED", "SYSTEM", "ALLOCATING")
    BY DEF TransitionStage, Status, Actor, Targets
  <2> QED
    BY <1>1, <2>1, <2>2, TransitionRow DEF Assign
<1>4. ASSUME j.stage \in {"MOVE", "RESTORE"}
      PROVE  Next1(FallThrough(j)) /\ FallThrough(j).stage = "FALL_THROUGH"
  <2>1. /\ "FALL_THROUGH" \in TransitionStage /\ "ALLOCATION_FAILED" \in Status /\ "SYSTEM" \in Actor
        /\ "ALLOCATING" \in Status
        /\ Targets("FALL_THROUGH", "ALLOCATION_FAILED", "SYSTEM", "ALLOCATING")
    BY DEF TransitionStage, Status, Actor, Targets
  <2> QED
    BY <1>1, <2>1, TransitionRow DEF FallThrough
<1>5. LET x == Transition(j, "RETURN", "ALLOCATION_FAILED", "SYSTEM", "ALLOCATING")
      IN  Next1(x) /\ x.stage = "RETURN"
  <2>1. /\ "RETURN" \in TransitionStage /\ "ALLOCATION_FAILED" \in Status /\ "SYSTEM" \in Actor
        /\ "ALLOCATING" \in Status
        /\ Targets("RETURN", "ALLOCATION_FAILED", "SYSTEM", "ALLOCATING")
    BY DEF TransitionStage, Status, Actor, Targets
  <2> QED
    BY <1>1, <2>1, TransitionRow
<1>6. LET x == Transition(j, "COMPENSATE", "CANCELLED_BY_ADMIN", "SYSTEM", None)
      IN  Next1(x) /\ x.stage = "COMPENSATE"
  <2>1. /\ "COMPENSATE" \in TransitionStage /\ "CANCELLED_BY_ADMIN" \in Status /\ "SYSTEM" \in Actor
        /\ Targets("COMPENSATE", "CANCELLED_BY_ADMIN", "SYSTEM", None)
    BY DEF TransitionStage, Status, Actor, Targets, CancelledStatus
  <2> QED
    BY <1>1, <2>1, TransitionRow
<1>7. ASSUME j.stage = "CLAIM", j.was # None
      PROVE  Next1(Release(j, "DROP", j.was)) /\ Release(j, "DROP", j.was).stage = "DROP"
  <2>1. j.driver \in Vehicle /\ j.was \in Reservation
    BY <1>1, <1>7 DEF Shape
  <2> QED
    BY <1>1, <2>1, ReleaseRow
<1>8. ASSUME j.stage \in {"CLAIM", "DROP"}
      PROVE  Next1(Reserve(j, "MOVE", j.driver)) /\ Reserve(j, "MOVE", j.driver).stage = "MOVE"
  <2>1. j.driver \in Vehicle /\ "MOVE" \in ReserveStage
    BY <1>8 DEF Shape, ReserveStage
  <2> QED
    BY <1>1, <2>1, ReserveRow
<1>9. ASSUME j.stage = "MOVE", j.was # None
      PROVE  LET x == Reserve(j, "RESTORE", reservation[j.was].vehicle)
             IN  Next1(x) /\ x.stage = "RESTORE"
  <2>1. j.was \in Reservation /\ reservation[j.was] \in ReservationRow
    BY <1>1, <1>9 DEF Seen, TypeOK
  <2>2. reservation[j.was].vehicle \in Vehicle
    BY <2>1 DEF ReservationRow
  <2>3. j.driver \in Vehicle /\ "RESTORE" \in ReserveStage
    BY <1>9 DEF Shape, ReserveStage
  <2> QED
    BY <1>1, <2>2, <2>3, ReserveRow
<1>10. ASSUME j.stage = "CLAIM", ~ MustMove(j)
       PROVE  VisibleTo(j.order, j.driver)
  BY <1>1, <1>10 DEF MustMove, Seen, VisibleTo
<1> HIDE DEF Next1
<1>11. /\ Next1(k)
       /\ k.stage = "ASSIGN" => (j.stage = "MOVE" /\ ok) \/ VisibleTo(j.order, j.driver)
       /\ k.stage \in HolderStage => j.stage \in HolderStage \/ (j.stage \in {"CLAIM", "HAND_BACK"} /\ ok)
  <2>1. CASE j.stage = "CLAIM" /\ ok
    <3>1. k = IF ~ MustMove(j) THEN Assign(j)
              ELSE IF j.was # None THEN Release(j, "DROP", j.was) ELSE Reserve(j, "MOVE", j.driver)
      BY <2>1 DEF After
    <3> QED
      BY <2>1, <3>1, <1>3, <1>7, <1>8, <1>10
  <2>2. CASE j.stage = "DROP"
    <3>1. k = Reserve(j, "MOVE", j.driver)
      BY <2>2 DEF After
    <3> QED
      BY <2>2, <3>1, <1>8 DEF HolderStage
  <2>3. CASE j.stage = "MOVE"
    <3>1. k = IF ok THEN Assign(j)
              ELSE IF j.was # None THEN Reserve(j, "RESTORE", reservation[j.was].vehicle)
              ELSE FallThrough(j)
      BY <2>3 DEF After
    <3> QED
      BY <2>3, <3>1, <1>3, <1>4, <1>9 DEF HolderStage
  <2>4. CASE j.stage = "RESTORE"
    <3>1. k = FallThrough(j)
      BY <2>4 DEF After
    <3> QED
      BY <2>4, <3>1, <1>4 DEF HolderStage
  <2>5. CASE j.stage = "HAND_BACK" /\ ok
    <3>1. k = Transition(j, "RETURN", "ALLOCATION_FAILED", "SYSTEM", "ALLOCATING")
      BY <2>5 DEF After
    <3> QED
      BY <2>5, <3>1, <1>5
  <2>6. CASE j.stage = "PLACE" /\ ~ ok
    <3>1. k = Transition(j, "COMPENSATE", "CANCELLED_BY_ADMIN", "SYSTEM", None)
      BY <2>6 DEF After
    <3> QED
      BY <3>1, <1>6 DEF HolderStage
  <2>7. CASE /\ ~ (j.stage = "CLAIM" /\ ok) /\ j.stage # "DROP" /\ j.stage # "MOVE" /\ j.stage # "RESTORE"
             /\ ~ (j.stage = "HAND_BACK" /\ ok) /\ ~ (j.stage = "PLACE" /\ ~ ok)
    <3>1. k = Done
      BY <2>7 DEF After
    <3> QED
      BY <3>1, <1>2 DEF HolderStage
  <2> QED
    BY <2>1, <2>2, <2>3, <2>4, <2>5, <2>6, <2>7
<1> QED
  BY <1>11 DEF Next1

-----------------------------------------------------------------------------
\* The requests, after one of them has gone on.
LEMMA JobsGoOn ==
  ASSUME DInv, [Next]_ledger, \A o \in Order : status[o] # "NONE" => status'[o] # "NONE",
         NEW p \in Process, NEW k \in JobRow, Shape(k), Seen(k)', job' = [job EXCEPT ![p] = k]
  PROVE  /\ job' \in [Process -> JobRow]
         /\ \A q \in Process : job'[q] = IF q = p THEN k ELSE job[q]
         /\ (\A q \in Process : Shape(job[q]) /\ Seen(job[q]))'
<1>1. job \in [Process -> JobRow] /\ TypeOK
  BY DEF DInv, IInv
<1>2. job' \in [Process -> JobRow] /\ \A q \in Process : job'[q] = IF q = p THEN k ELSE job[q]
  BY <1>1
<1>3. ASSUME NEW q \in Process
      PROVE  Shape(job'[q]) /\ Seen(job[q])'
  <2>1. CASE q = p
    <3>1. job'[q] = k
      BY <1>2, <2>1
    <3> QED
      BY <3>1 DEF Seen
  <2>2. CASE q # p
    <3>1. PICK j \in JobRow : j = job[q]
      BY <1>1
    <3>2. Shape(j) /\ Seen(j)
      BY <3>1 DEF DInv
    <3>3. Seen(j)'
      BY <1>1, <3>2, SeenStays
    <3>4. job'[q] = j
      BY <1>2, <2>2, <3>1
    <3> QED
      BY <3>2, <3>3, <3>4 DEF Seen
  <2> QED
    BY <2>1, <2>2
<1> QED
  BY <1>2, <1>3

\* A step that moves no order, by a request that does not take one up.
LEMMA GoesOn ==
  ASSUME DInv, [Next]_ledger, UNCHANGED orders, queue' \subseteq queue,
         NEW p \in Process, NEW k \in JobRow, Shape(k), Seen(k)', k # New,
         job' = [job EXCEPT ![p] = k],
         k.stage \in HolderStage => job[p].stage \in HolderStage /\ job[p].order = k.order
  PROVE  DInv'
<1>1. IInv' /\ TypeOK
  BY StepIInv DEF DInv, IInv
<1>2. status' = status /\ event' = event /\ lapsed' = lapsed /\ carrier' = carrier
  BY DEF orders
<1>3. /\ job' \in [Process -> JobRow]
      /\ \A q \in Process : job'[q] = IF q = p THEN k ELSE job[q]
      /\ (\A q \in Process : Shape(job[q]) /\ Seen(job[q]))'
  BY <1>2, JobsGoOn
<1>4. \A o \in Order : job'[o] = New => status'[o] = "NONE"
  BY <1>2, <1>3 DEF DInv, Process
<1>5. \A q \in Process, o \in Order : Holding(q, o)' => Holding(q, o)
  BY <1>3 DEF Holding
<1>6. (NoHandAssignment => OneHolder /\ HeldIsClaimed /\ AssignedDriverSeesOrder)'
  <2> SUFFICES ASSUME NoHandAssignment
               PROVE  (OneHolder /\ HeldIsClaimed /\ AssignedDriverSeesOrder)'
    BY DEF NoHandAssignment
  <2>1. OneHolder /\ HeldIsClaimed /\ AssignedDriverSeesOrder
    BY DEF DInv
  <2>2. OneHolder' /\ HeldIsClaimed'
    BY <1>2, <1>5, <2>1 DEF OneHolder, HeldIsClaimed
  <2>3. ASSUME NEW o \in Order, status'[o] = "ASSIGNED"
        PROVE  VisibleTo(o, carrier[o])'
    <3>1. PICK v : v = carrier[o] /\ v = carrier'[o]
      BY <1>2
    <3>2. VisibleTo(o, v)
      BY <1>2, <2>1, <2>3, <3>1 DEF AssignedDriverSeesOrder
    <3>3. VisibleTo(o, v)'
      BY <1>1, <3>2, VisibleStays
    <3> QED
      BY <3>1, <3>3 DEF VisibleTo
  <2> QED
    BY <2>2, <2>3 DEF AssignedDriverSeesOrder
<1>7. queue' \subseteq Order \X OpenStatus /\ \A e \in queue' : status'[e[1]] # "NONE"
  BY <1>2 DEF DInv
<1> QED
  BY <1>1, <1>2, <1>3, <1>4, <1>6, <1>7 DEF DInv

\* The same call goes on to its next statement.
LEMMA Continues ==
  ASSUME DInv, [Next]_ledger, UNCHANGED orders, UNCHANGED queue,
         NEW p \in Process, NEW j \in JobRow, j = job[p], j.stage \notin {"NEW", "DONE"},
         NEW k \in JobRow, Shape(k), job' = [job EXCEPT ![p] = k],
         k.stage = j.stage, k.order = j.order, k.driver = j.driver, k.was = j.was
  PROVE  DInv'
<1>1. TypeOK /\ Shape(j) /\ Seen(j)
  BY DEF DInv, IInv
<1>2. \A o \in Order : status'[o] = status[o]
  BY DEF orders
<1>3. Seen(j)'
  BY <1>1, <1>2, SeenStays
<1>4. Seen(k)'
  BY <1>3 DEF Seen
<1>5. k # New
  BY DEF New, Job
<1> QED
  BY <1>4, <1>5, GoesOn

\* The call has returned or thrown, and the request makes its next one.
LEMMA Leaves ==
  ASSUME DInv, [Next]_ledger, UNCHANGED orders, UNCHANGED queue,
         NEW p \in Process, NEW j \in JobRow, j = job[p], j.stage \notin {"NEW", "DONE"},
         NEW ok \in BOOLEAN, Leave(p, ok), ok => j.stage \notin {"CLAIM", "HAND_BACK"},
         ok /\ j.stage = "MOVE" => VisibleTo(j.order, j.driver)'
  PROVE  DInv'
<1>1. TypeOK /\ Shape(j) /\ Seen(j)
  BY DEF DInv, IInv
<1>2. PICK k \in JobRow :
        /\ k = After(j, ok) /\ Shape(k) /\ k # New
        /\ k.was # None => k.was = j.was /\ k.order = j.order
        /\ k.stage \notin {"NEW", "DONE"} => k.order = j.order
        /\ k.stage = "ASSIGN" =>
             k.driver = j.driver /\ ((j.stage = "MOVE" /\ ok) \/ VisibleTo(j.order, j.driver))
        /\ k.stage \in HolderStage => j.stage \in HolderStage \/ (j.stage \in {"CLAIM", "HAND_BACK"} /\ ok)
  BY <1>1, AfterRow
<1>3. job' = [job EXCEPT ![p] = k]
  BY <1>2 DEF Leave
<1>4. Seen(j)'
  <2>1. \A o \in Order : status'[o] = status[o]
    BY DEF orders
  <2> QED
    BY <1>1, <2>1, SeenStays
<1>5. VisibleTo(j.order, j.driver) => VisibleTo(j.order, j.driver)'
  BY <1>1, VisibleStays
<1>6. Seen(k)'
  BY <1>2, <1>4, <1>5 DEF Seen
<1>7. k.stage \in HolderStage => k.stage \notin {"NEW", "DONE"}
  BY DEF HolderStage
<1> QED
  BY <1>2, <1>3, <1>6, <1>7, GoesOn

-----------------------------------------------------------------------------
LEMMA ReadOrderKeeps ==
  ASSUME DInv, NEW p \in Process, ReadOrder(p)
  PROVE  DInv' /\ UNCHANGED <<ledger, orders>>
<1>1. PICK j \in JobRow : j = job[p]
  BY DEF DInv
<1>2. /\ j.at = "read" /\ Shape(j) /\ Seen(j)
      /\ UNCHANGED ledger /\ UNCHANGED orders /\ UNCHANGED queue
  BY <1>1 DEF ReadOrder, DInv
<1>3. j.stage \in TransitionStage /\ j.stage \notin {"NEW", "DONE"} /\ j.order \in Order
  BY <1>2 DEF Shape, TransitionStage
<1>4. CASE Leave(p, FALSE)
  BY <1>1, <1>2, <1>3, <1>4, Leaves
<1>5. CASE /\ j.expect \in {None, status[j.order]} /\ CanTransition(status[j.order], j.to, j.actor)
           /\ job' = [job EXCEPT ![p].from = status[j.order],
                        ![p].at = IF ReleasesFuel(j.to) THEN "find" ELSE "write"]
  <2>1. PICK s \in Status : s = status[j.order]
    BY <1>2, <1>3 DEF DInv, Seen
  <2>2. PICK at : at \in {"find", "write"} /\ at = IF ReleasesFuel(j.to) THEN "find" ELSE "write"
    OBVIOUS
  <2> DEFINE k == [j EXCEPT !.from = s, !.at = at]
  <2>3. job' = [job EXCEPT ![p] = k]
    BY <1>1, <1>5, <2>1, <2>2 DEF DInv
  <2>4. k \in JobRow
    <3>1. at \in {"start", "end", "fuel", "read", "find", "settle", "write", "active", "hold"}
      BY <2>2
    <3>2. s \in Status \union {None}
      BY <2>1
    <3>. DEFINE i == [j EXCEPT !.from = s]
    <3>3. i \in JobRow
      BY <3>2 DEF JobRow
    <3> HIDE DEF i
    <3>4. [i EXCEPT !.at = at] \in JobRow
      BY <3>1, <3>3 DEF JobRow
    <3>5. k = [i EXCEPT !.at = at]
      BY DEF i
    <3> QED
      BY <3>4, <3>5
  <2>5. /\ k.stage = j.stage /\ k.order = j.order /\ k.driver = j.driver /\ k.was = j.was
        /\ k.to = j.to /\ k.actor = j.actor /\ k.expect = j.expect /\ k.named = j.named /\ k.left = j.left
        /\ k.from = s /\ k.at = at
    BY DEF JobRow
  <2> HIDE DEF k
  <2>6. Shape(k)
    BY <1>2, <1>3, <1>5, <2>1, <2>2, <2>5 DEF Shape
  <2> QED
    BY <1>1, <1>2, <1>3, <2>3, <2>4, <2>5, <2>6, Continues
<1> QED
  BY <1>1, <1>2, <1>4, <1>5 DEF ReadOrder

LEMMA FindHoldKeeps ==
  ASSUME DInv, NEW p \in Process, FindHold(p)
  PROVE  DInv' /\ UNCHANGED <<ledger, orders>>
<1>1. PICK j \in JobRow : j = job[p]
  BY DEF DInv
<1>2. /\ j.at = "find" /\ Shape(j) /\ Seen(j)
      /\ UNCHANGED ledger /\ UNCHANGED orders /\ UNCHANGED queue
  BY <1>1 DEF FindHold, DInv
<1>3. j.stage \in TransitionStage \union {"ADMIN_RELEASE"} /\ j.stage \notin {"NEW", "DONE"}
  BY <1>2 DEF Shape, TransitionStage
<1>4. CASE j.stage = "ADMIN_RELEASE" /\ Leave(p, TRUE)
  BY <1>1, <1>2, <1>3, <1>4, Leaves
<1>5. CASE j.stage # "ADMIN_RELEASE" /\ Goto(p, "write")
  <2> DEFINE k == [j EXCEPT !.at = "write"]
  <2>1. job' = [job EXCEPT ![p] = k]
    BY <1>1, <1>5 DEF Goto, DInv
  <2>2. k \in JobRow
    BY DEF JobRow
  <2>3. /\ k.stage = j.stage /\ k.order = j.order /\ k.driver = j.driver /\ k.was = j.was
        /\ k.to = j.to /\ k.actor = j.actor /\ k.expect = j.expect /\ k.named = j.named /\ k.left = j.left
        /\ k.from = j.from /\ k.at = "write"
    BY DEF JobRow
  <2> HIDE DEF k
  <2>4. Shape(k)
    BY <1>2, <1>3, <1>5, <2>3 DEF Shape
  <2> QED
    BY <1>1, <1>2, <1>3, <2>1, <2>2, <2>3, <2>4, Continues
<1>6. ASSUME NEW r \in ActiveFor(j.order), job' = [job EXCEPT ![p].at = "settle", ![p].row = r]
      PROVE  DInv'
  <2> DEFINE k == [j EXCEPT !.at = "settle", !.row = r]
  <2>1. job' = [job EXCEPT ![p] = k]
    BY <1>1, <1>6 DEF DInv
  <2>2. r \in Reservation
    BY DEF ActiveFor
  <2>3. k \in JobRow
    BY <2>2 DEF JobRow
  <2>4. /\ k.stage = j.stage /\ k.order = j.order /\ k.driver = j.driver /\ k.was = j.was
        /\ k.to = j.to /\ k.actor = j.actor /\ k.expect = j.expect /\ k.named = j.named /\ k.left = j.left
        /\ k.from = j.from /\ k.at = "settle" /\ k.row = r
    BY DEF JobRow
  <2> HIDE DEF k
  <2>5. Shape(k)
    BY <1>2, <1>3, <2>2, <2>4 DEF Shape, ReleaseStage
  <2> QED
    BY <1>1, <1>2, <1>3, <2>1, <2>3, <2>4, <2>5, Continues
<1> QED
  BY <1>1, <1>2, <1>4, <1>5, <1>6 DEF FindHold

LEMMA SettleHoldKeeps ==
  ASSUME DInv, NEW p \in Process, SettleHold(p)
  PROVE  DInv' /\ [Next]_ledger /\ UNCHANGED orders
<1>1. PICK j \in JobRow : j = job[p]
  BY DEF DInv
<1>2. j.at = "settle" /\ Shape(j) /\ Seen(j) /\ UNCHANGED orders /\ UNCHANGED queue
  BY <1>1 DEF SettleHold, DInv
<1>3. /\ j.stage \in TransitionStage \union ReleaseStage /\ j.stage \notin {"NEW", "DONE"}
      /\ j.row \in Reservation
  BY <1>2 DEF Shape, TransitionStage, ReleaseStage
<1>4. [Next]_ledger
  <2>1. (IF j.to = "EXPIRED" THEN "EXPIRED" ELSE "RELEASED") \in SettledStatus
    BY DEF SettledStatus
  <2> QED
    BY <1>1, <1>3, <2>1 DEF SettleHold, Next
<1>5. CASE j.stage \in ReleaseStage /\ Leave(p, TRUE)
  <2>1. j.stage \notin {"CLAIM", "HAND_BACK", "MOVE"}
    BY <1>5 DEF ReleaseStage
  <2> QED
    BY <1>1, <1>2, <1>3, <1>4, <1>5, <2>1, Leaves
<1>6. CASE j.stage \notin ReleaseStage /\ Goto(p, "write")
  <2> DEFINE k == [j EXCEPT !.at = "write"]
  <2>1. job' = [job EXCEPT ![p] = k]
    BY <1>1, <1>6 DEF Goto, DInv
  <2>2. k \in JobRow
    BY DEF JobRow
  <2>3. /\ k.stage = j.stage /\ k.order = j.order /\ k.driver = j.driver /\ k.was = j.was
        /\ k.to = j.to /\ k.actor = j.actor /\ k.expect = j.expect /\ k.named = j.named /\ k.left = j.left
        /\ k.from = j.from /\ k.at = "write"
    BY DEF JobRow
  <2> HIDE DEF k
  <2>4. Shape(k)
    BY <1>2, <1>3, <1>6, <2>3 DEF Shape
  <2> QED
    BY <1>1, <1>2, <1>3, <1>4, <2>1, <2>2, <2>3, <2>4, Continues
<1> QED
  BY <1>1, <1>2, <1>4, <1>5, <1>6 DEF SettleHold, ReleaseStage

LEMMA CheckReservableKeeps ==
  ASSUME DInv, NEW p \in Process, CheckReservable(p)
  PROVE  DInv' /\ UNCHANGED <<ledger, orders>>
<1>1. PICK j \in JobRow : j = job[p]
  BY DEF DInv
<1>2. /\ j.at = "active" /\ Shape(j) /\ Seen(j)
      /\ UNCHANGED ledger /\ UNCHANGED orders /\ UNCHANGED queue
  BY <1>1 DEF CheckReservable, DInv
<1>3. j.stage \in ReserveStage /\ j.stage \notin {"NEW", "DONE"} \union TransitionStage
  BY <1>2 DEF Shape, ReserveStage, TransitionStage
<1> DEFINE choices == CASE j.named = None         -> Candidates(j.order)
                        [] j.named \in Compliant  -> {j.named}
                        [] OTHER                  -> {}
<1>4. choices \in SUBSET Vehicle /\ (j.named # None => choices \subseteq {j.named})
  <2>1. j.named \in Vehicle \union {None}
    BY DEF JobRow
  <2>2. CASE j.named = None
    <3>1. choices = Candidates(j.order)
      BY <2>2, NoneAssumption, CompliantAssumption
    <3>2. Candidates(j.order) \subseteq Vehicle
      BY DEF Candidates
    <3> QED
      BY <2>2, <3>1, <3>2
  <2>3. CASE j.named \in Vehicle /\ j.named # None /\ j.named \in Compliant
    <3>1. choices = {j.named}
      BY <2>3
    <3> QED
      BY <2>3, <3>1
  <2>4. CASE j.named # None /\ j.named \notin Compliant
    <3>1. choices = {}
      BY <2>4
    <3> QED
      BY <3>1
  <2> QED
    BY <2>1, <2>2, <2>3, <2>4
<1>5. CASE Leave(p, FALSE)
  BY <1>1, <1>2, <1>3, <1>5, Leaves
<1>6. CASE job' = [job EXCEPT ![p].at = "hold", ![p].left = choices]
  <2>1. PICK left \in SUBSET Vehicle : left = choices
    BY <1>4
  <2> HIDE DEF choices
  <2> DEFINE k == [j EXCEPT !.at = "hold", !.left = left]
  <2>2. job' = [job EXCEPT ![p] = k]
    BY <1>1, <1>6, <2>1 DEF DInv
  <2>3. k \in JobRow
    <3> DEFINE i == [j EXCEPT !.at = "hold"]
    <3>1. i \in JobRow
      BY DEF JobRow
    <3> HIDE DEF i
    <3>2. [i EXCEPT !.left = left] \in JobRow
      BY <2>1, <3>1 DEF JobRow
    <3>3. k = [i EXCEPT !.left = left]
      BY DEF i
    <3> QED
      BY <3>2, <3>3
  <2>4. /\ k.stage = j.stage /\ k.order = j.order /\ k.driver = j.driver /\ k.was = j.was
        /\ k.to = j.to /\ k.actor = j.actor /\ k.expect = j.expect /\ k.named = j.named /\ k.left = left
        /\ k.from = j.from /\ k.at = "hold"
    BY DEF JobRow
  <2> HIDE DEF k
  <2>5. Shape(k)
    BY <1>2, <1>3, <1>4, <2>1, <2>4 DEF Shape
  <2> QED
    BY <1>1, <1>2, <1>3, <2>2, <2>3, <2>4, <2>5, Continues
<1> QED
  BY <1>1, <1>2, <1>5, <1>6 DEF CheckReservable

LEMMA CheckFreeLitresKeeps ==
  ASSUME DInv, NEW p \in Process, CheckFreeLitres(p)
  PROVE  DInv' /\ UNCHANGED <<ledger, orders>>
<1>1. PICK j \in JobRow : j = job[p]
  BY DEF DInv
<1>2. /\ j.at = "fuel" /\ Shape(j) /\ Seen(j)
      /\ UNCHANGED ledger /\ UNCHANGED orders /\ UNCHANGED queue
  BY <1>1 DEF CheckFreeLitres, DInv
<1>3. j.stage = "CLAIM" /\ "CLAIM" \in TransitionStage
  BY <1>2 DEF Shape, TransitionStage
<1>4. CASE Goto(p, "read")
  <2> DEFINE k == [j EXCEPT !.at = "read"]
  <2>1. job' = [job EXCEPT ![p] = k]
    BY <1>1, <1>4 DEF Goto, DInv
  <2>2. k \in JobRow
    BY DEF JobRow
  <2>3. /\ k.stage = j.stage /\ k.order = j.order /\ k.driver = j.driver /\ k.was = j.was
        /\ k.to = j.to /\ k.actor = j.actor /\ k.expect = j.expect /\ k.named = j.named /\ k.left = j.left
        /\ k.from = j.from /\ k.at = "read"
    BY DEF JobRow
  <2> HIDE DEF k
  <2>4. Shape(k)
    BY <1>2, <1>3, <2>3 DEF Shape
  <2> QED
    BY <1>1, <1>2, <1>3, <2>1, <2>2, <2>3, <2>4, Continues
<1>5. CASE job' = [job EXCEPT ![p] = Done]
  <2>1. Seen(Done)'
    BY DoneRow DEF Seen, Done, Job
  <2>2. Done.stage \notin HolderStage
    BY DoneRow DEF HolderStage
  <2> QED
    BY <1>1, <1>2, <1>5, <2>1, <2>2, DoneRow, GoesOn
<1> QED
  BY <1>1, <1>2, <1>4, <1>5 DEF CheckFreeLitres

LEMMA TryHoldKeeps ==
  ASSUME DInv, NEW p \in Process, TryHold(p)
  PROVE  DInv' /\ [Next]_ledger /\ UNCHANGED orders
<1>1. PICK j \in JobRow : j = job[p]
  BY DEF DInv
<1>2. j.at = "hold" /\ Shape(j) /\ Seen(j) /\ UNCHANGED orders /\ UNCHANGED queue
  BY <1>1 DEF TryHold, DInv
<1>3. /\ j.stage \in ReserveStage /\ j.stage \notin {"NEW", "DONE"} \union TransitionStage
      /\ j.stage \notin {"CLAIM", "HAND_BACK"} /\ j.order \in Order /\ j.left \subseteq Vehicle
  BY <1>2 DEF Shape, ReserveStage, TransitionStage, JobRow
<1>4. PICK v \in j.left :
        \/ /\ FreshRow \in Reservation /\ Hold(FreshRow, j.order, v, Litres[j.order])
           /\ Leave(p, TRUE)
        \/ /\ v \in Candidates(j.order) /\ ActiveFor(j.order) # {}
           /\ Leave(p, FALSE)
           /\ UNCHANGED ledger
        \/ /\ v \notin Candidates(j.order)
           /\ IF j.left = {v} THEN Leave(p, FALSE)
                              ELSE job' = [job EXCEPT ![p].left = @ \ {v}]
           /\ UNCHANGED ledger
  BY <1>1 DEF TryHold
<1>5. CASE FreshRow \in Reservation /\ Hold(FreshRow, j.order, v, Litres[j.order]) /\ Leave(p, TRUE)
  <2>1. PICK r \in Reservation, q \in Quantity : r = FreshRow /\ q = Litres[j.order]
    BY <1>3, <1>5, LitresAssumption
  <2>2. Hold(r, j.order, v, q)
    BY <1>5, <2>1
  <2>3. [Next]_ledger
    BY <1>3, <1>4, <2>2 DEF Next
  <2>4. j.stage = "MOVE" => v = j.driver
    BY <1>2, <1>4, NoneAssumption DEF Shape
  <2>5. VisibleTo(j.order, v)'
    <3>1. reservation'[r] = HeldRow(j.order, v, q)
      BY <2>2 DEF Hold, DInv, IInv, TypeOK
    <3> QED
      BY <3>1 DEF VisibleTo, HeldRow, Absent
  <2>6. j.stage = "MOVE" => VisibleTo(j.order, j.driver)'
    BY <2>4, <2>5
  <2>7. DInv'
    BY <1>1, <1>2, <1>3, <1>5, <2>3, <2>6, Leaves
  <2> QED
    BY <1>2, <2>3, <2>7
<1>6. CASE Leave(p, FALSE) /\ UNCHANGED ledger
  BY <1>1, <1>2, <1>3, <1>6, Leaves
<1>7. CASE job' = [job EXCEPT ![p].left = @ \ {v}] /\ UNCHANGED ledger
  <2> DEFINE k == [j EXCEPT !.left = j.left \ {v}]
  <2>1. job' = [job EXCEPT ![p] = k]
    BY <1>1, <1>7 DEF DInv
  <2>2. k \in JobRow
    BY <1>3 DEF JobRow
  <2>3. /\ k.stage = j.stage /\ k.order = j.order /\ k.driver = j.driver /\ k.was = j.was
        /\ k.to = j.to /\ k.actor = j.actor /\ k.expect = j.expect /\ k.named = j.named
        /\ k.from = j.from /\ k.at = j.at /\ k.left \subseteq j.left
    BY DEF JobRow
  <2> HIDE DEF k
  <2>4. Shape(k)
    BY <1>2, <1>3, <2>3 DEF Shape
  <2> QED
    BY <1>1, <1>2, <1>3, <1>7, <2>1, <2>2, <2>3, <2>4, Continues
<1> QED
  BY <1>4, <1>5, <1>6, <1>7

-----------------------------------------------------------------------------
\* What the requests that move an order may ask of an order somebody holds.
LEMMA HeldOrderMoves ==
  ASSUME NEW j \in JobRow, Shape(j), j.at = "write", NoHandAssignment
  PROVE  /\ j.stage \in {"CLAIM", "HAND_BACK"} => j.to = "ALLOCATING" /\ j.from \in OpenStatus \union {"ASSIGNED"}
         /\ j.to = "ASSIGNED" => j.stage = "ASSIGN"
         /\ j.from = "ALLOCATING" => j.to \in CancelledStatus \/ j.stage \in HolderStage
<1>1. /\ j.stage \in TransitionStage /\ j.from \in Status /\ CanTransition(j.from, j.to, j.actor)
      /\ j.expect \in {None, j.from} /\ Targets(j.stage, j.to, j.actor, j.expect)
  BY DEF Shape
<1>2. j.stage \in {"CLAIM", "HAND_BACK"} => j.to = "ALLOCATING" /\ j.from \in OpenStatus \union {"ASSIGNED"}
  BY <1>1, NoneAssumption DEF Targets, OpenStatus, Status
<1>3. j.to = "ASSIGNED" => j.stage = "ASSIGN"
  BY <1>1 DEF Targets, TransitionStage, CancelledStatus
<1>4. ASSUME j.from = "ALLOCATING"
      PROVE  j.to \in CancelledStatus \/ j.stage \in HolderStage
  <2>1. /\ j.to \in {"ASSIGNED", "ALLOCATION_FAILED"} \union CancelledStatus
        /\ j.to = "ALLOCATION_FAILED" => j.actor = "SYSTEM"
    BY <1>1, <1>4, TableFacts
  <2>2. j.to = "ALLOCATION_FAILED" => j.stage \in {"FALL_THROUGH", "RETURN"}
    BY <1>1, <2>1 DEF Targets, TransitionStage, CancelledStatus
  <2> QED
    BY <1>3, <2>1, <2>2 DEF HolderStage
<1> QED
  BY <1>2, <1>3, <1>4

LEMMA WriteStatusKeeps ==
  ASSUME DInv, NEW p \in Process, WriteStatus(p)
  PROVE  DInv' /\ UNCHANGED ledger
<1>1. PICK j \in JobRow : j = job[p]
  BY DEF DInv
<1>2. /\ j.at = "write" /\ Shape(j) /\ Seen(j) /\ TypeOK
      /\ UNCHANGED ledger /\ UNCHANGED queue
  BY <1>1 DEF WriteStatus, DInv, IInv
<1>3. /\ j.stage \in TransitionStage /\ j.stage \notin {"NEW", "DONE", "MOVE"} /\ j.order \in Order
      /\ j.from \in Status /\ CanTransition(j.from, j.to, j.actor)
      /\ j.stage = "ASSIGN" => j.driver \in Vehicle
  BY <1>2 DEF Shape, TransitionStage
<1>4. CASE UNCHANGED orders /\ Leave(p, FALSE)
  BY <1>1, <1>2, <1>3, <1>4, Leaves
<1>5. CASE /\ status[j.order] = j.from
           /\ status' = [status EXCEPT ![j.order] = j.to]
           /\ event' = [event EXCEPT ![j.order] = <<j.from, j.to>>]
           /\ lapsed' = [lapsed EXCEPT ![j.order] = @ /\ j.order \in Scheduled]
           /\ carrier' = [carrier EXCEPT ![j.order] = IF j.stage = "ASSIGN" THEN j.driver ELSE @]
           /\ Leave(p, TRUE)
  <2>1. PICK k \in JobRow :
          /\ k = After(j, TRUE) /\ Shape(k) /\ k # New
          /\ k.was # None => k.was = j.was /\ k.order = j.order
          /\ k.stage \notin {"NEW", "DONE"} => k.order = j.order
          /\ k.stage = "ASSIGN" => k.driver = j.driver /\ VisibleTo(j.order, j.driver)
          /\ k.stage \in HolderStage => j.stage \in HolderStage \/ j.stage \in {"CLAIM", "HAND_BACK"}
    BY <1>2, <1>3, AfterRow
  <2>2. k.stage \in HolderStage => j.stage \in {"CLAIM", "HAND_BACK"}
    <3>1. CASE j.stage \in {"ASSIGN", "FALL_THROUGH", "RETURN"}
      <4>1. k = Done
        BY <2>1, <3>1 DEF After
      <4> QED
        BY <4>1, DoneRow DEF HolderStage
    <3> QED
      BY <1>3, <2>1, <3>1 DEF HolderStage, TransitionStage
  <2>3. job' = [job EXCEPT ![p] = k]
    BY <1>1, <1>5, <2>1 DEF Leave
  <2>4. j.to \in Status /\ j.from \notin CancelledStatus
    BY <1>3, TableFacts
  <2>5. "NONE" \notin Status
    BY DEF Status
  <2>6. /\ status' \in [Order -> Status \union {"NONE"}]
        /\ \A o \in Order : status'[o] = IF o = j.order THEN j.to ELSE status[o]
    BY <1>3, <1>5, <2>4 DEF DInv
  <2>7. /\ event' \in [Order -> (Status \union {"NONE"}) \X (Status \union {"NONE"})]
        /\ lapsed' \in [Order -> BOOLEAN]
    BY <1>3, <1>5, <2>4 DEF DInv
  <2>8. /\ carrier' \in [Order -> Vehicle \union {None}]
        /\ \A o \in Order : carrier'[o] = IF o = j.order /\ j.stage = "ASSIGN" THEN j.driver ELSE carrier[o]
    BY <1>3, <1>5 DEF DInv
  <2>9. IInv'
    BY <1>2, StepIInv DEF DInv
  <2>10. \A o \in Order : status[o] # "NONE" => status'[o] # "NONE"
    BY <2>4, <2>5, <2>6
  <2>11. Seen(j)' /\ (VisibleTo(j.order, j.driver) => VisibleTo(j.order, j.driver)')
    BY <1>2, <2>10, SeenStays, VisibleStays
  <2>12. Seen(k)'
    BY <1>3, <2>1, <2>11 DEF Seen
  <2>13. /\ job' \in [Process -> JobRow]
         /\ \A q \in Process : job'[q] = IF q = p THEN k ELSE job[q]
         /\ (\A q \in Process : Shape(job[q]) /\ Seen(job[q]))'
    BY <1>2, <2>1, <2>3, <2>10, <2>12, JobsGoOn
  <2>14. \A o \in Order : job'[o] = New => status'[o] = "NONE"
    BY <1>3, <1>5, <2>1, <2>5, <2>6, <2>13 DEF DInv, Process
  <2>15. queue' \subseteq Order \X OpenStatus /\ \A e \in queue' : status'[e[1]] # "NONE"
    BY <1>2, <2>10 DEF DInv
  <2>16. ASSUME NoHandAssignment
         PROVE  (OneHolder /\ HeldIsClaimed /\ AssignedDriverSeesOrder)'
    <3>1. OneHolder /\ HeldIsClaimed /\ AssignedDriverSeesOrder
      BY <2>16 DEF DInv
    <3>2. /\ j.stage \in {"CLAIM", "HAND_BACK"} =>
               j.to = "ALLOCATING" /\ j.from \in OpenStatus \union {"ASSIGNED"}
          /\ j.to = "ASSIGNED" => j.stage = "ASSIGN"
          /\ j.from = "ALLOCATING" => j.to \in CancelledStatus \/ j.stage \in HolderStage
      BY <1>2, <2>16, HeldOrderMoves
    <3>3. \A o \in Order, q \in Process : q # p /\ Holding(q, o)' => Holding(q, o)
      BY <2>13 DEF Holding
    <3>4. \A o \in Order : Holding(p, o)' => o = j.order /\ j.stage \in {"CLAIM", "HAND_BACK"}
      BY <2>1, <2>2, <2>13 DEF Holding, HolderStage
    <3>5. j.stage \in HolderStage => Holding(p, j.order)
      BY <1>1 DEF Holding
    <3>6. \A q \in Process : Holding(q, j.order) => j.from = "ALLOCATING"
      BY <1>3, <1>5, <2>4, <3>1 DEF HeldIsClaimed
    <3>7. OneHolder'
      BY <3>1, <3>2, <3>3, <3>4, <3>6 DEF OneHolder, OpenStatus
    <3>8. ASSUME NEW o \in Order, NEW q \in Process, Holding(q, o)'
          PROVE  status'[o] \in {"ALLOCATING"} \union CancelledStatus
      <4>1. CASE q = p
        BY <2>6, <3>2, <3>4, <3>8, <4>1
      <4>2. CASE q # p /\ o # j.order
        BY <2>6, <3>1, <3>3, <3>8, <4>2 DEF HeldIsClaimed
      <4>3. CASE q # p /\ o = j.order
        <5>1. Holding(q, j.order) /\ j.from = "ALLOCATING"
          BY <3>3, <3>6, <3>8, <4>3
        <5>2. j.stage \notin HolderStage
          BY <1>3, <3>1, <3>5, <4>3, <5>1 DEF OneHolder
        <5> QED
          BY <2>6, <3>2, <4>3, <5>1, <5>2
      <4> QED
        BY <4>1, <4>2, <4>3
    <3>9. ASSUME NEW o \in Order, status'[o] = "ASSIGNED"
          PROVE  VisibleTo(o, carrier[o])'
      <4>1. PICK v : v = carrier'[o]
        OBVIOUS
      <4>2. VisibleTo(o, v)
        <5>1. CASE o = j.order
          <6>1. j.stage = "ASSIGN"
            BY <2>6, <3>2, <3>9, <5>1
          <6> QED
            BY <1>2, <2>8, <4>1, <5>1, <6>1 DEF Seen
        <5>2. CASE o # j.order
          BY <2>6, <2>8, <3>1, <3>9, <4>1, <5>2 DEF AssignedDriverSeesOrder
        <5> QED
          BY <5>1, <5>2
      <4>3. VisibleTo(o, v)'
        BY <1>2, <4>2, VisibleStays
      <4> QED
        BY <4>1, <4>3 DEF VisibleTo
    <3> QED
      BY <3>7, <3>8, <3>9 DEF HeldIsClaimed, AssignedDriverSeesOrder
  <2>17. (NoHandAssignment => OneHolder /\ HeldIsClaimed /\ AssignedDriverSeesOrder)'
    BY <2>16 DEF NoHandAssignment
  <2> QED
    BY <1>2, <2>6, <2>7, <2>8, <2>9, <2>13, <2>14, <2>15, <2>17 DEF DInv
<1> QED
  BY <1>1, <1>2, <1>4, <1>5 DEF WriteStatus

-----------------------------------------------------------------------------
\* A request arrives on an order that was placed, and does not hold it yet.
LEMMA ArrivesKeeps ==
  ASSUME DInv, NEW kind, NEW p \in Process, NEW o \in Order, NEW k \in JobRow, Arrives(kind, p, o, k),
         Shape(k), k.order = o, k.stage \notin HolderStage \union {"NEW", "DONE"},
         k.was # None => reservation[k.was] # Absent /\ reservation[k.was].order = o
  PROVE  DInv' /\ UNCHANGED <<ledger, orders>>
<1>1. /\ job' = [job EXCEPT ![p] = k] /\ status[o] # "NONE"
      /\ UNCHANGED ledger /\ UNCHANGED orders /\ UNCHANGED queue
  BY DEF Arrives
<1>2. Seen(k)'
  BY <1>1 DEF Seen, ledger, orders, HolderStage
<1>3. k # New
  BY DEF New, Job
<1> QED
  BY <1>1, <1>2, <1>3, GoesOn

LEMMA ActiveIsSeen ==
  ASSUME NEW o, NEW r \in ActiveFor(o)
  PROVE  r \in Reservation /\ reservation[r] # Absent /\ reservation[r].order = o
BY DEF ActiveFor, HoldsFuel, Absent

LEMMA AcceptRequestKeeps ==
  ASSUME DInv, NEW p \in Process, NEW o \in Order, NEW v \in Vehicle, AcceptRequest(p, o, v)
  PROVE  DInv' /\ UNCHANGED <<ledger, orders>>
<1>1. PICK was : was = IF ActiveFor(o) = {} THEN None ELSE CHOOSE r \in ActiveFor(o) : TRUE
  OBVIOUS
<1>2. /\ was \in Reservation \union {None}
      /\ was # None => reservation[was] # Absent /\ reservation[was].order = o
  <2>1. ActiveFor(o) # {} => (CHOOSE r \in ActiveFor(o) : TRUE) \in ActiveFor(o)
    OBVIOUS
  <2> QED
    BY <1>1, <2>1, ActiveIsSeen
<1>3. PICK s : s = status[o]
  OBVIOUS
<1>4. s \in OpenStatus
  BY <1>3 DEF AcceptRequest
<1> DEFINE j == [Job("NEW", "start", o) EXCEPT !.driver = v, !.was = was]
           k == Transition(j, "CLAIM", "ALLOCATING", "SYSTEM", s)
           f == [k EXCEPT !.at = "fuel"]
<1>5. /\ "CLAIM" \in TransitionStage /\ "ALLOCATING" \in Status /\ "SYSTEM" \in Actor /\ s \in Status
      /\ Targets("CLAIM", "ALLOCATING", "SYSTEM", s)
  BY <1>4 DEF TransitionStage, Status, Actor, Targets, OpenStatus
<1>6. k \in JobRow /\ Shape(k) /\ k.stage = "CLAIM" /\ k.at = "read" /\ k.order = o /\ k.was = was
  <2>1. j.order = o /\ j.driver = v /\ j.was = was
    BY DEF Job
  <2> HIDE DEF j
  <2> QED
    BY <1>2, <1>5, <2>1, TransitionRow
<1>7. Arrives("ACCEPT", p, o, IF MustMove(j) THEN f ELSE k)
  BY <1>1, <1>3 DEF AcceptRequest
<1> HIDE DEF k
<1>8. /\ f \in JobRow
      /\ f.stage = k.stage /\ f.order = k.order /\ f.driver = k.driver /\ f.was = k.was
      /\ f.to = k.to /\ f.actor = k.actor /\ f.expect = k.expect /\ f.named = k.named /\ f.left = k.left
      /\ f.from = k.from /\ f.at = "fuel"
  BY <1>6 DEF JobRow
<1> HIDE DEF f
<1>9. Shape(f)
  BY <1>6, <1>8 DEF Shape
<1>10. "CLAIM" \notin HolderStage \union {"NEW", "DONE"}
  BY DEF HolderStage
<1>11. CASE MustMove(j)
  <2>1. Arrives("ACCEPT", p, o, f)
    BY <1>7, <1>11
  <2> QED
    BY <1>2, <1>6, <1>8, <1>9, <1>10, <2>1, ArrivesKeeps
<1>12. CASE ~ MustMove(j)
  <2>1. Arrives("ACCEPT", p, o, k)
    BY <1>7, <1>12
  <2> QED
    BY <1>2, <1>6, <1>10, <2>1, ArrivesKeeps
<1> QED
  BY <1>11, <1>12

\* The requests that start with a transition and carry no hold.
LEMMA MoverKeeps ==
  ASSUME DInv, NEW kind, NEW p \in Process, NEW o \in Order, NEW v \in Vehicle \union {None},
         NEW stage \in {"HAND_BACK", "START_TRIP", "CANCEL", "ADMIN_MOVE"},
         NEW to \in Status \union AdminTarget, NEW actor \in Actor,
         NEW expect \in Status \union {None}, Targets(stage, to, actor, expect),
         Arrives(kind, p, o, Transition(DriverJob(o, v), stage, to, actor, expect))
  PROVE  DInv' /\ UNCHANGED <<ledger, orders>>
<1> DEFINE k == Transition(DriverJob(o, v), stage, to, actor, expect)
<1>1. stage \in TransitionStage /\ stage \notin HolderStage \union {"NEW", "DONE"} /\ stage \notin {"CLAIM", "ASSIGN"}
  BY DEF TransitionStage, HolderStage
<1>2. DriverJob(o, v).order = o /\ DriverJob(o, v).driver = v /\ DriverJob(o, v).was = None
  BY DEF DriverJob, Job
<1>3. k \in JobRow /\ Shape(k) /\ k.stage = stage /\ k.order = o /\ k.was = None
  BY <1>1, <1>2, TransitionRow
<1> HIDE DEF k
<1>4. Arrives(kind, p, o, k)
  BY DEF k
<1> QED
  BY <1>1, <1>3, <1>4, ArrivesKeeps

\* A request of nobody's tanker is the driver's with none.
LEMMA NoDriverJob ==
  ASSUME NEW o
  PROVE  Job("NEW", "start", o) = DriverJob(o, None)
BY DEF DriverJob, Job

LEMMA ArrivalKeeps ==
  ASSUME DInv, Arrival
  PROVE  DInv' /\ UNCHANGED <<ledger, orders>>
<1>1. PICK p \in Process, o \in Order :
        \/ \E v \in Vehicle : AcceptRequest(p, o, v) \/ RejectOrder(p, o, v) \/ StartTrip(p, o, v)
        \/ CancelOwnOrder(p, o) \/ CancelAsAdmin(p, o)
        \/ AdminTransition(p, o) \/ AdminReserve(p, o) \/ AdminRelease(p, o)
  BY DEF Arrival, Process
<1>2. ASSUME NEW v \in Vehicle, RejectOrder(p, o, v)
      PROVE  DInv' /\ UNCHANGED <<ledger, orders>>
  <2>1. /\ "ALLOCATING" \in Status /\ "ASSIGNED" \in Status /\ "SYSTEM" \in Actor
        /\ Targets("HAND_BACK", "ALLOCATING", "SYSTEM", "ASSIGNED")
    BY DEF Status, Actor, Targets
  <2> QED
    BY <1>2, <2>1, MoverKeeps DEF RejectOrder
<1>3. ASSUME NEW v \in Vehicle, StartTrip(p, o, v)
      PROVE  DInv' /\ UNCHANGED <<ledger, orders>>
  <2>1. /\ "EN_ROUTE" \in Status /\ "ASSIGNED" \in Status /\ "DRIVER" \in Actor
        /\ Targets("START_TRIP", "EN_ROUTE", "DRIVER", "ASSIGNED")
    BY DEF Status, Actor, Targets
  <2> QED
    BY <1>3, <2>1, MoverKeeps DEF StartTrip
<1>4. PICK s : s = status[o]
  OBVIOUS
<1>5. ASSUME status[o] # "NONE" PROVE s \in Status
  BY <1>4, <1>5 DEF DInv
<1>6. CASE CancelOwnOrder(p, o)
  <2>1. /\ "CANCELLED_BY_CUSTOMER" \in Status /\ "CUSTOMER" \in Actor
        /\ Targets("CANCEL", "CANCELLED_BY_CUSTOMER", "CUSTOMER", s)
    BY DEF Status, Actor, Targets, CancelledStatus
  <2>2. Arrives("CANCEL_OWN", p, o,
          Transition(DriverJob(o, None), "CANCEL", "CANCELLED_BY_CUSTOMER", "CUSTOMER", s))
    BY <1>4, <1>6, NoDriverJob DEF CancelOwnOrder
  <2>3. s \in Status
    BY <1>5, <2>2 DEF Arrives
  <2> QED
    BY <2>1, <2>2, <2>3, MoverKeeps
<1>7. CASE CancelAsAdmin(p, o)
  <2>1. /\ "CANCELLED_BY_ADMIN" \in Status /\ "ADMIN" \in Actor
        /\ Targets("CANCEL", "CANCELLED_BY_ADMIN", "ADMIN", s)
    BY DEF Status, Actor, Targets, CancelledStatus
  <2>2. Arrives("CANCEL_ADMIN", p, o,
          Transition(DriverJob(o, None), "CANCEL", "CANCELLED_BY_ADMIN", "ADMIN", s))
    BY <1>4, <1>7, NoDriverJob DEF CancelAsAdmin
  <2>3. s \in Status
    BY <1>5, <2>2 DEF Arrives
  <2> QED
    BY <2>1, <2>2, <2>3, MoverKeeps
<1>8. CASE AdminTransition(p, o)
  <2>1. PICK to \in AdminTarget, guard \in {None, s} :
          Arrives("ADMIN_MOVE", p, o, Transition(DriverJob(o, None), "ADMIN_MOVE", to, "ADMIN", guard))
    BY <1>4, <1>8, NoDriverJob DEF AdminTransition
  <2>2. guard \in Status \union {None}
    BY <1>5, <2>1 DEF Arrives
  <2>3. NoHandAssignment => to # "ASSIGNED"
    BY <2>1 DEF NoHandAssignment, Arrives
  <2>4. Targets("ADMIN_MOVE", to, "ADMIN", guard) /\ "ADMIN" \in Actor
    BY <2>3 DEF Targets, Actor
  <2> QED
    BY <2>1, <2>2, <2>4, MoverKeeps
<1>9. CASE AdminReserve(p, o)
  <2>1. PICK v \in Vehicle \union {None} :
          Arrives("ADMIN_RESERVE", p, o, Reserve(DriverJob(o, None), "ADMIN_RESERVE", v))
    BY <1>9, NoDriverJob DEF AdminReserve
  <2>2. /\ DriverJob(o, None).order = o /\ DriverJob(o, None).driver = None
        /\ DriverJob(o, None).was = None /\ "ADMIN_RESERVE" \in ReserveStage
    BY DEF DriverJob, Job, ReserveStage
  <2> DEFINE k == Reserve(DriverJob(o, None), "ADMIN_RESERVE", v)
  <2>3. k \in JobRow /\ Shape(k) /\ k.stage = "ADMIN_RESERVE" /\ k.order = o /\ k.was = None
    BY <2>2, ReserveRow
  <2>4. "ADMIN_RESERVE" \notin HolderStage \union {"NEW", "DONE"}
    BY DEF HolderStage
  <2> HIDE DEF k
  <2>5. Arrives("ADMIN_RESERVE", p, o, k)
    BY <2>1 DEF k
  <2> QED
    BY <2>3, <2>4, <2>5, ArrivesKeeps
<1>10. CASE AdminRelease(p, o)
  <2> DEFINE k == Job("ADMIN_RELEASE", "find", o)
  <2>1. k \in JobRow
    BY DEF JobRow, Job, ReleaseStage
  <2>2. k.stage = "ADMIN_RELEASE" /\ k.at = "find" /\ k.order = o /\ k.was = None /\ k.named = None
    BY DEF Job
  <2>3. Arrives("ADMIN_RELEASE", p, o, k)
    BY <1>10 DEF AdminRelease
  <2> HIDE DEF k
  <2>4. Shape(k) /\ "ADMIN_RELEASE" \notin HolderStage \union {"NEW", "DONE"}
    BY <2>2 DEF Shape, TransitionStage, HolderStage
  <2> QED
    BY <2>1, <2>2, <2>3, <2>4, ArrivesKeeps
<1> QED
  BY <1>1, <1>2, <1>3, <1>6, <1>7, <1>8, <1>9, <1>10, AcceptRequestKeeps

-----------------------------------------------------------------------------
\* createOrder: nobody has touched the order before.
LEMMA PlaceOrderKeeps ==
  ASSUME DInv, NEW o \in Order, PlaceOrder(o)
  PROVE  DInv' /\ UNCHANGED ledger /\ status[o] = "NONE"
<1>1. PICK s \in InitialStatus :
        status' = [status EXCEPT ![o] = s] /\ event' = [event EXCEPT ![o] = <<"NONE", s>>]
  BY DEF PlaceOrder
<1>2. /\ s \in {"CONFIRMED", "PENDING_PAYMENT"} /\ s \in Status
      /\ o \in Process /\ TypeOK
      /\ UNCHANGED ledger /\ lapsed' = lapsed /\ carrier' = carrier /\ queue' = queue
  BY InitialStatusAssumption DEF PlaceOrder, Status, Process, DInv, IInv
<1>3. status[o] = "NONE"
  BY DEF PlaceOrder, DInv
<1> DEFINE i == Job("PLACE", "start", o)
           k == Reserve(i, "PLACE", None)
<1>4. k \in JobRow /\ Shape(k) /\ k.stage = "PLACE" /\ k.order = o /\ k.was = None
  <2>1. i.order = o /\ i.driver = None /\ i.was = None /\ "PLACE" \in ReserveStage
    BY DEF Job, ReserveStage
  <2> HIDE DEF i
  <2> QED
    BY <2>1, ReserveRow
<1>5. job' = [job EXCEPT ![o] = k]
  BY DEF PlaceOrder
<1> HIDE DEF k
<1>6. /\ status' \in [Order -> Status \union {"NONE"}]
      /\ event' \in [Order -> (Status \union {"NONE"}) \X (Status \union {"NONE"})]
      /\ \A x \in Order : status'[x] = IF x = o THEN s ELSE status[x]
  BY <1>1, <1>2 DEF DInv
<1>7. \A x \in Order : status[x] # "NONE" => status'[x] # "NONE"
  BY <1>2, <1>6
<1>8. Seen(k)'
  BY <1>2, <1>4, <1>6 DEF Seen
<1>9. /\ job' \in [Process -> JobRow]
      /\ \A q \in Process : job'[q] = IF q = o THEN k ELSE job[q]
      /\ (\A q \in Process : Shape(job[q]) /\ Seen(job[q]))'
  BY <1>2, <1>4, <1>5, <1>7, <1>8, JobsGoOn
<1>10. k # New
  BY <1>4 DEF New, Job
<1>11. \A x \in Order : job'[x] = New => status'[x] = "NONE"
  BY <1>6, <1>9, <1>10 DEF DInv, Process
<1>12. queue' \subseteq Order \X OpenStatus /\ \A e \in queue' : status'[e[1]] # "NONE"
  BY <1>2, <1>7 DEF DInv
<1>13. IInv'
  BY <1>2, StepIInv DEF DInv
<1>14. ASSUME NoHandAssignment
       PROVE  (OneHolder /\ HeldIsClaimed /\ AssignedDriverSeesOrder)'
  <2>1. OneHolder /\ HeldIsClaimed /\ AssignedDriverSeesOrder
    BY <1>14 DEF DInv
  <2>2. \A q \in Process : ~ Holding(q, o)
    BY <1>3 DEF DInv, Holding, Seen, HolderStage
  <2>3. \A x \in Order, q \in Process : Holding(q, x)' => Holding(q, x) /\ x # o
    BY <1>4, <1>9, <2>2 DEF Holding, HolderStage
  <2>4. OneHolder' /\ HeldIsClaimed'
    BY <1>6, <2>1, <2>3 DEF OneHolder, HeldIsClaimed
  <2>5. ASSUME NEW x \in Order, status'[x] = "ASSIGNED"
        PROVE  VisibleTo(x, carrier[x])'
    <3>1. VisibleTo(x, carrier[x])
      BY <1>2, <1>6, <2>1, <2>5 DEF AssignedDriverSeesOrder
    <3> QED
      BY <1>2, <3>1 DEF VisibleTo, ledger
  <2> QED
    BY <2>4, <2>5 DEF AssignedDriverSeesOrder
<1>15. (NoHandAssignment => OneHolder /\ HeldIsClaimed /\ AssignedDriverSeesOrder)'
  BY <1>14 DEF NoHandAssignment
<1> QED
  BY <1>2, <1>3, <1>6, <1>9, <1>11, <1>12, <1>13, <1>15 DEF DInv

\* What neither moves an order nor takes one up.
LEMMA RestKeeps ==
  ASSUME DInv, UNCHANGED <<ledger, status, event, carrier>>, lapsed' \in [Order -> BOOLEAN],
         job' \in [Process -> JobRow], \A q \in Process : job'[q] \in {job[q], Done},
         queue' \subseteq Order \X OpenStatus, \A e \in queue' : status[e[1]] # "NONE"
  PROVE  DInv'
<1>1. /\ UNCHANGED ledger /\ status' = status /\ event' = event /\ carrier' = carrier
      /\ reservation' = reservation
  BY DEF ledger
<1>2. IInv'
  BY <1>1, StepIInv DEF DInv
<1>3. \A q \in Process : job'[q] # job[q] => job'[q] = Done
  OBVIOUS
<1>4. (\A q \in Process : Shape(job[q]) /\ Seen(job[q]))'
  <2> SUFFICES ASSUME NEW q \in Process PROVE Shape(job'[q]) /\ Seen(job[q])'
    OBVIOUS
  <2>1. PICK k \in JobRow : k = job'[q]
    OBVIOUS
  <2>2. Shape(k) /\ Seen(k)
    BY <1>3, <2>1, DoneRow DEF DInv
  <2>3. Seen(k)'
    BY <1>1, <2>2 DEF Seen, VisibleTo
  <2> QED
    BY <2>1, <2>2, <2>3 DEF Seen
<1>5. \A o \in Order : job'[o] = New => status'[o] = "NONE"
  BY <1>1, <1>3, DoneRow DEF DInv, Process
<1>6. \A o \in Order, q \in Process : Holding(q, o)' => Holding(q, o)
  BY <1>3, DoneRow DEF Holding, HolderStage
<1>7. (NoHandAssignment => OneHolder /\ HeldIsClaimed /\ AssignedDriverSeesOrder)'
  BY <1>1, <1>6 DEF DInv, NoHandAssignment, OneHolder, HeldIsClaimed, AssignedDriverSeesOrder, VisibleTo
<1> QED
  BY <1>1, <1>2, <1>4, <1>5, <1>7 DEF DInv

LEMMA ListUnacceptedKeeps ==
  ASSUME DInv, ListUnaccepted
  PROVE  DInv' /\ UNCHANGED <<ledger, orders>>
<1>1. /\ queue' = {<<o, status[o]>> : o \in {o \in Order : status[o] \in OpenStatus /\ lapsed[o]}}
      /\ UNCHANGED ledger /\ UNCHANGED orders /\ UNCHANGED job
  BY DEF ListUnaccepted, ListSweep
<1>2. queue' \subseteq Order \X OpenStatus
  BY <1>1
<1>3. \A e \in queue' : status[e[1]] # "NONE"
  BY <1>1 DEF OpenStatus
<1> QED
  BY <1>1, <1>2, <1>3, RestKeeps DEF orders, DInv

LEMMA LapseNextKeeps ==
  ASSUME DInv, LapseNext
  PROVE  DInv' /\ UNCHANGED <<ledger, orders>>
<1>1. PICK e \in queue :
        /\ queue' = queue \ {e}
        /\ job' = [job EXCEPT ![Sweeper] =
             Transition(Job("NEW", "start", e[1]), "LAPSE", "CANCELLED_BY_ADMIN", "SYSTEM", e[2])]
  BY DEF LapseNext
<1>2. UNCHANGED ledger /\ UNCHANGED orders
  BY DEF LapseNext
<1>3. PICK o \in Order, s \in OpenStatus : o = e[1] /\ s = e[2]
  BY <1>1 DEF DInv
<1> DEFINE k == Transition(DriverJob(o, None), "LAPSE", "CANCELLED_BY_ADMIN", "SYSTEM", s)
<1>4. k \in JobRow /\ Shape(k) /\ k.stage = "LAPSE" /\ k.order = o /\ k.was = None
  <2>1. DriverJob(o, None).order = o /\ DriverJob(o, None).driver = None /\ DriverJob(o, None).was = None
    BY DEF DriverJob, Job
  <2>2. /\ "LAPSE" \in TransitionStage /\ "CANCELLED_BY_ADMIN" \in Status /\ "SYSTEM" \in Actor /\ s \in Status
        /\ Targets("LAPSE", "CANCELLED_BY_ADMIN", "SYSTEM", s)
    BY DEF TransitionStage, Status, Actor, OpenStatus, Targets, CancelledStatus
  <2> QED
    BY <2>1, <2>2, TransitionRow
<1>5. job' = [job EXCEPT ![Sweeper] = k]
  BY <1>1, <1>3, NoDriverJob
<1> HIDE DEF k
<1>6. status'[o] # "NONE"
  BY <1>1, <1>2, <1>3 DEF DInv, orders
<1>7. Seen(k)' /\ k # New /\ k.stage \notin HolderStage
  BY <1>4, <1>6 DEF Seen, New, Job, HolderStage
<1>8. Sweeper \in Process /\ queue' \subseteq queue
  BY <1>1 DEF Process
<1> QED
  BY <1>2, <1>4, <1>5, <1>7, <1>8, GoesOn

LEMMA DeadlinePassesKeeps ==
  ASSUME DInv, NEW o \in Order, DeadlinePasses(o)
  PROVE  DInv' /\ UNCHANGED <<ledger, status, event>>
<1>1. UNCHANGED <<ledger, status, event, carrier, job, queue>> /\ lapsed' \in [Order -> BOOLEAN]
  BY DEF DeadlinePasses, DInv
<1> QED
  BY <1>1, RestKeeps DEF DInv

LEMMA CrashKeeps ==
  ASSUME DInv, Crash
  PROVE  DInv' /\ UNCHANGED <<ledger, orders>>
<1>1. /\ job' = [p \in Process |-> IF InFlight(p) THEN Done ELSE job[p]]
      /\ queue' = {} /\ UNCHANGED ledger /\ UNCHANGED orders
  BY DEF Crash
<1>2. job' \in [Process -> JobRow] /\ \A p \in Process : job'[p] \in {job[p], Done}
  BY <1>1, DoneRow DEF DInv
<1> QED
  BY <1>1, <1>2, RestKeeps DEF orders, DInv

LEMMA InitDInv == DispatchInit => DInv
<1> SUFFICES ASSUME DispatchInit PROVE DInv
  OBVIOUS
<1>1. IInv
  BY InitIInv DEF DispatchInit
<1>2. \A p \in Process : job[p] = New
  BY DEF DispatchInit
<1>3. job \in [Process -> JobRow] /\ \A p \in Process : Shape(job[p]) /\ Seen(job[p])
  BY DoneRow DEF DispatchInit
<1>4. \A p \in Process, o \in Order : ~ Holding(p, o)
  BY <1>2, DoneRow DEF Holding, HolderStage
<1>5. OneHolder /\ HeldIsClaimed /\ AssignedDriverSeesOrder
  BY <1>4 DEF OneHolder, HeldIsClaimed, AssignedDriverSeesOrder, DispatchInit
<1> QED
  BY <1>1, <1>3, <1>5 DEF DispatchInit, DInv

-----------------------------------------------------------------------------
\* Every step keeps the invariant, is a step of the ledger or leaves it alone, and
\* touches a status or a timeline only where an order is placed or written.
LEMMA DispatchStep ==
  ASSUME DInv, [DispatchNext]_vars
  PROVE  /\ DInv'
         /\ [Next]_ledger
         /\ \/ UNCHANGED <<status, event>>
            \/ \E o \in Order : PlaceOrder(o)
            \/ \E p \in Process : WriteStatus(p)
<1>1. CASE UNCHANGED vars
  <2>1. UNCHANGED <<ledger, status, event, lapsed, carrier, job, queue>>
    BY <1>1 DEF vars, orders
  <2> QED
    BY <2>1, RestKeeps DEF DInv
<1>2. ASSUME NEW o \in Order, PlaceOrder(o) \/ DeadlinePasses(o)
      PROVE  DInv' /\ UNCHANGED ledger /\ (PlaceOrder(o) \/ UNCHANGED <<status, event>>)
  BY <1>2, PlaceOrderKeeps, DeadlinePassesKeeps
<1>3. CASE Arrival \/ ListUnaccepted \/ LapseNext \/ Crash
  BY <1>3, ArrivalKeeps, ListUnacceptedKeeps, LapseNextKeeps, CrashKeeps DEF orders
<1>4. ASSUME NEW p \in Process, Step(p)
      PROVE  DInv' /\ [Next]_ledger /\ (WriteStatus(p) \/ UNCHANGED <<status, event>>)
  BY <1>4, ReadOrderKeeps, FindHoldKeeps, SettleHoldKeeps, WriteStatusKeeps, CheckReservableKeeps,
     CheckFreeLitresKeeps, TryHoldKeeps DEF Step, orders
<1> QED
  BY <1>1, <1>2, <1>3, <1>4 DEF DispatchNext

LEMMA DispatchInvariant == DispatchSpec => []DInv
<1>1. DInv /\ [DispatchNext]_vars => DInv'
  BY DispatchStep
<1> QED
  BY <1>1, InitDInv, PTL DEF DispatchSpec

-----------------------------------------------------------------------------
\* Columns and requests keep their shape, whatever interrupts whom.
THEOREM DispatchTypeCorrect == DispatchSpec => []DispatchTypeOK
<1>1. DInv => DispatchTypeOK
  BY DEF DInv, DispatchTypeOK, IInv, JobRow
<1> QED
  BY <1>1, DispatchInvariant, PTL

\* The requests move the fuel only as the ledger allows: none of their steps, in
\* any order, does to a reservation or a tanker what FuelLedger does not.
THEOREM RequestsMoveFuelAsPromised == DispatchSpec => Spec
<1>1. DispatchInit => Init
  BY DEF DispatchInit
<1>2. DInv /\ [DispatchNext]_vars => [Next]_ledger
  BY DispatchStep
<1> QED
  BY <1>1, <1>2, DispatchInvariant, PTL DEF DispatchSpec, Spec

\* The status moves only with its event, from the status it really had and along
\* the table, however many requests read it before.
THEOREM TimelineTellsTheStatus == DispatchSpec => TimelineIsChain
<1> DEFINE Chain ==
      \A o \in Order :
        status'[o] # status[o] \/ event'[o] # event[o] =>
          /\ event'[o] = <<status[o], status'[o]>>
          /\ \/ status[o] = "NONE"
             \/ \E actor \in Actor : CanTransition(status[o], status'[o], actor)
<1>1. ASSUME DInv, [DispatchNext]_vars
      PROVE  Chain
  <2>1. CASE UNCHANGED <<status, event>>
    BY <2>1
  <2>2. ASSUME NEW o \in Order, PlaceOrder(o)
        PROVE  Chain
    <3>1. PICK s \in InitialStatus :
            status' = [status EXCEPT ![o] = s] /\ event' = [event EXCEPT ![o] = <<"NONE", s>>]
      BY <2>2 DEF PlaceOrder
    <3>2. status[o] = "NONE"
      BY <1>1, <2>2, PlaceOrderKeeps
    <3>3. status'[o] = s /\ event'[o] = <<"NONE", s>>
      BY <1>1, <3>1 DEF DInv
    <3>4. \A x \in Order : x # o => status'[x] = status[x] /\ event'[x] = event[x]
      BY <1>1, <3>1 DEF DInv
    <3> QED
      BY <3>2, <3>3, <3>4
  <2>3. ASSUME NEW p \in Process, WriteStatus(p)
        PROVE  Chain
    <3>1. PICK j \in JobRow : j = job[p] /\ Shape(j)
      BY <1>1 DEF DInv
    <3>2. /\ j.order \in Order /\ j.actor \in Actor /\ CanTransition(j.from, j.to, j.actor)
      BY <2>3, <3>1 DEF WriteStatus, Shape, TransitionStage
    <3>3. CASE UNCHANGED orders
      BY <3>3 DEF orders
    <3>4. CASE /\ status[j.order] = j.from
               /\ status' = [status EXCEPT ![j.order] = j.to]
               /\ event' = [event EXCEPT ![j.order] = <<j.from, j.to>>]
      <4>1. status'[j.order] = j.to /\ event'[j.order] = <<status[j.order], status'[j.order]>>
        BY <1>1, <3>2, <3>4 DEF DInv
      <4>2. \A x \in Order : x # j.order => status'[x] = status[x] /\ event'[x] = event[x]
        BY <1>1, <3>2, <3>4 DEF DInv
      <4> QED
        BY <3>2, <3>4, <4>1, <4>2
    <3> QED
      BY <2>3, <3>1, <3>3, <3>4 DEF WriteStatus
  <2> QED
    BY <1>1, <2>1, <2>2, <2>3, DispatchStep
<1>2. DInv /\ [DispatchNext]_vars => [Chain]_vars
  BY <1>1
<1> QED
  BY <1>2, DispatchInvariant, PTL DEF DispatchSpec, TimelineIsChain

\* FIRST-WINS, for any number of drivers: where no operator assigns by hand, two
\* accepts never carry out their moves of one order together.
THEOREM FirstWins ==
  ASSUME NoHandAssignment
  PROVE  DispatchSpec => []FirstAcceptWins
<1>1. DInv => FirstAcceptWins
  BY NoHandAssignment DEF DInv, OneHolder, FirstAcceptWins, Holding, CarryingOut, HolderStage
<1> QED
  BY <1>1, DispatchInvariant, PTL

\* The driver who is assigned has a row of the order on their tanker, and so finds
\* the order at their own endpoints.
THEOREM AssignedDriverFindsOrder ==
  ASSUME NoHandAssignment
  PROVE  DispatchSpec => []AssignedDriverSeesOrder
<1>1. DInv => AssignedDriverSeesOrder
  BY NoHandAssignment DEF DInv
<1> QED
  BY <1>1, DispatchInvariant, PTL
================================================================================
