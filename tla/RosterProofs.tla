------------------------------ MODULE RosterProofs ------------------------------
(***************************************************************************)
(* One crew per tanker, for any fleet and any number of requests that hire,  *)
(* suspend, assign, replace, release, start and end at the same time.        *)
(***************************************************************************)
EXTENDS Roster, TLAPS

AssignSteps == {"assign:driver", "assign:current", "assign:free", "assign"}
StartSteps == {"start:driver", "start:usable", "start:vehicle", "start:crew", "start:meter", "open"}

\* What a request carries from statement to statement.
Idle            == [at : {"new", "left"}]
HireJob         == [at : {"insertDriver"}, driver : Driver]
DriverJob       == [at : {"noShiftOfDriver", "setDriver"}, driver : Driver, to : EmploymentStatus, offline : BOOLEAN]
VehicleJob      == [at : {"noShiftOnVehicle", "setVehicle"}, vehicle : Vehicle, to : VehicleStatus]
ReadingJob      == [at : {"insertReading"}, vehicle : Vehicle, total : Totalizer]
AssignJob       == [at : AssignSteps, vehicle : Vehicle, driver : Driver, replace : BOOLEAN, current : Nat]
UnassignJob     == [at : {"unassign:shift", "release"}, vehicle : Vehicle, current : Nat]
StartJob        == [at : StartSteps, driver : Driver, vehicle : Vehicle, total : Totalizer, self : BOOLEAN]
EndJob          == [at : {"end:orders", "end:shift", "close"}, shift : Nat, total : Totalizer, self : BOOLEAN]
AvailabilityJob == [at : {"availability:shift", "setAvailability"}, driver : Driver, to : Availability]

Rows == UNION {Idle, HireJob, DriverJob, VehicleJob, ReadingJob, AssignJob, UnassignJob, StartJob,
               EndJob, AvailabilityJob}

\* What was checked stays true: nobody is dismissed from the tables, no shift is
\* deleted and none changes the reading it opened with.
Knows(r) ==
  /\ r \in DriverJob \cup StartJob \cup AvailabilityJob => drivers[r.driver] \in DriverRow
  /\ r \in VehicleJob => vehicles[r.vehicle] \in VehicleRow
  /\ r \in EndJob => /\ r.shift \in DOMAIN shifts
                     /\ r.at = "close" => r.total >= shifts[r.shift].opening

IInv ==
  /\ RosterTypeOK
  /\ job \in [Request -> Rows]
  /\ \A q \in Request : Knows(job[q])
  /\ \A i \in DOMAIN shifts : drivers[shifts[i].driver] \in DriverRow
  /\ OneCrew

-----------------------------------------------------------------------------
\* The step a request is at tells what it carries.
LEMMA RowAtStep ==
  ASSUME NEW r \in Rows
  PROVE  /\ r.at = "insertDriver" => r \in HireJob
         /\ r.at \in {"noShiftOfDriver", "setDriver"} => r \in DriverJob
         /\ r.at \in {"noShiftOnVehicle", "setVehicle"} => r \in VehicleJob
         /\ r.at = "insertReading" => r \in ReadingJob
         /\ r.at \in AssignSteps => r \in AssignJob
         /\ r.at \in {"unassign:shift", "release"} => r \in UnassignJob
         /\ r.at \in StartSteps => r \in StartJob
         /\ r.at \in {"end:orders", "end:shift", "close"} => r \in EndJob
         /\ r.at \in {"availability:shift", "setAvailability"} => r \in AvailabilityJob
BY DEF Rows, Idle, HireJob, DriverJob, VehicleJob, ReadingJob, AssignJob, UnassignJob, StartJob, EndJob,
       AvailabilityJob, AssignSteps, StartSteps

\* A request that leaves carries nothing.
LEMMA Leaving == [at |-> "left"] \in Rows /\ Knows([at |-> "left"]) /\ Knows([at |-> "left"])'
<1>1. [at |-> "left"] \in Idle
  BY DEF Idle
<1>2. [at |-> "left"] \notin DriverJob \cup StartJob \cup AvailabilityJob \cup VehicleJob \cup EndJob
  BY DEF DriverJob, StartJob, AvailabilityJob, VehicleJob, EndJob, StartSteps
<1> QED
  BY <1>1, <1>2 DEF Rows, Knows

\* A request about to set a driver's availability, in the tables it leaves behind.
LEMMA AvailabilityRow ==
  ASSUME NEW d \in Driver, NEW to \in Availability, drivers'[d] \in DriverRow
  PROVE  LET r == [at |-> "setAvailability", driver |-> d, to |-> to] IN r \in Rows /\ Knows(r)'
<1> DEFINE r == [at |-> "setAvailability", driver |-> d, to |-> to]
<1>1. r \in AvailabilityJob /\ r.driver = d
  BY DEF AvailabilityJob
<1>2. r \notin VehicleJob \cup EndJob
  BY DEF VehicleJob, EndJob
<1> QED
  BY <1>1, <1>2 DEF Rows, Knows

\* A statement that only reads keeps the invariant if what it carries on is true.
LEMMA ReadStep ==
  ASSUME IInv, NEW q \in Request, NEW r \in Rows, Knows(r), Goto(q, r), UNCHANGED roster
  PROVE  IInv'
<1>1. job' \in [Request -> Rows] /\ \A p \in Request : job'[p] = IF p = q THEN r ELSE job[p]
  BY DEF IInv, Goto
<1>2. \A p \in Request : Knows(job'[p])
  BY <1>1 DEF IInv
<1>3. \A p \in Request : Knows(job[p])'
  BY <1>2 DEF Knows, roster
<1>4. RosterTypeOK' /\ OneCrew' /\ \A i \in DOMAIN shifts' : drivers'[shifts'[i].driver] \in DriverRow
  BY DEF IInv, roster, RosterTypeOK, OneCrew, activeAssignments, openShifts
<1> QED
  BY <1>1, <1>3, <1>4 DEF IInv

LEMMA TestStep ==
  ASSUME IInv, NEW q \in Request, NEW step, NEW ok \in BOOLEAN, Test(q, ok, step), UNCHANGED roster,
         ok => [job[q] EXCEPT !.at = step] \in Rows /\ Knows([job[q] EXCEPT !.at = step])
  PROVE  IInv'
BY Leaving, ReadStep DEF Test, Proceed, Leave

\* What a guard on a row says under the types.
LEMMA RowsOfGuards ==
  ASSUME IInv
  PROVE  /\ \A d \in Driver : drivers[d] # None => drivers[d] \in DriverRow
         /\ \A v \in Vehicle : vehicles[v] # None => vehicles[v] \in VehicleRow
         /\ DOMAIN assignments \subseteq Nat /\ DOMAIN shifts \subseteq Nat
         /\ \A i \in DOMAIN shifts : shifts[i] \in ShiftRow
BY DEF IInv, RosterTypeOK

\* The first statement of each request.
LEMMA AskStep ==
  ASSUME IInv, NEW q \in Request,
         \/ \E d \in Driver :
              \/ OnboardDriver(q, d)
              \/ \E to \in EmploymentStatus : UpdateDriverProfile(q, d, to)
              \/ \E to \in Availability : AskAvailability(q, d, to)
         \/ \E v \in Vehicle :
              \/ UnassignDriver(q, v)
              \/ \E to \in VehicleStatus : UpdateVehicle(q, v, to)
              \/ \E n \in Totalizer : RecordMeterReading(q, v, n)
         \/ \E d \in Driver, v \in Vehicle :
              \/ \E replace \in BOOLEAN : AssignDriver(q, v, d, replace)
              \/ \E n \in Totalizer, self \in BOOLEAN : StartShift(q, d, v, n, self)
         \/ \E i \in DOMAIN shifts, n \in Totalizer : EndOwnShift(q, i, n) \/ EndShift(q, i, n)
  PROVE  IInv'
<1> USE RowsOfGuards, ReadStep DEF Asks
<1>1. ASSUME NEW d \in Driver, OnboardDriver(q, d) PROVE IInv'
  <2>1. [at |-> "insertDriver", driver |-> d] \in HireJob
    BY DEF HireJob
  <2>2. [at |-> "insertDriver", driver |-> d] \notin DriverJob \cup StartJob \cup AvailabilityJob \cup VehicleJob \cup EndJob
    BY DEF DriverJob, StartJob, AvailabilityJob, VehicleJob, EndJob, StartSteps
  <2> QED
    BY <1>1, <2>1, <2>2 DEF OnboardDriver, Rows, Knows
<1>2. ASSUME NEW d \in Driver, NEW to \in EmploymentStatus, UpdateDriverProfile(q, d, to) PROVE IInv'
  <2> DEFINE leaves == drivers[d].employment = "ACTIVE" /\ to # "ACTIVE"
             r == [at |-> IF leaves THEN "noShiftOfDriver" ELSE "setDriver", driver |-> d, to |-> to, offline |-> leaves]
  <2>1. r \in DriverJob
    BY DEF DriverJob
  <2>2. r \notin VehicleJob \cup EndJob /\ r.driver = d
    BY DEF VehicleJob, EndJob
  <2> QED
    BY <1>2, <2>1, <2>2 DEF UpdateDriverProfile, Rows, Knows
<1>3. ASSUME NEW d \in Driver, NEW to \in Availability, AskAvailability(q, d, to) PROVE IInv'
  <2> DEFINE r == [at |-> "availability:shift", driver |-> d, to |-> to]
  <2>1. r \in AvailabilityJob
    BY DEF AvailabilityJob
  <2>2. r \notin VehicleJob \cup EndJob /\ r.driver = d
    BY DEF VehicleJob, EndJob
  <2> QED
    BY <1>3, <2>1, <2>2 DEF AskAvailability, Rows, Knows
<1>4. ASSUME NEW v \in Vehicle, UnassignDriver(q, v) PROVE IInv'
  <2>1. PICK i \in DOMAIN assignments : Asks(q, [at |-> "unassign:shift", vehicle |-> v, current |-> i])
    BY <1>4 DEF UnassignDriver, assignmentsOf, activeAssignments
  <2> DEFINE r == [at |-> "unassign:shift", vehicle |-> v, current |-> i]
  <2>2. r \in UnassignJob
    BY DEF UnassignJob
  <2>3. r \notin DriverJob \cup StartJob \cup AvailabilityJob \cup VehicleJob \cup EndJob
    BY DEF DriverJob, StartJob, AvailabilityJob, VehicleJob, EndJob, StartSteps
  <2> QED
    BY <2>1, <2>2, <2>3 DEF Rows, Knows
<1>5. ASSUME NEW v \in Vehicle, NEW to \in VehicleStatus, UpdateVehicle(q, v, to) PROVE IInv'
  <2> DEFINE r == [at |-> IF to = "RETIRED" THEN "noShiftOnVehicle" ELSE "setVehicle", vehicle |-> v, to |-> to]
  <2>1. r \in VehicleJob
    BY DEF VehicleJob
  <2>2. r \notin DriverJob \cup StartJob \cup AvailabilityJob \cup EndJob /\ r.vehicle = v
    BY DEF DriverJob, StartJob, AvailabilityJob, EndJob, StartSteps
  <2> QED
    BY <1>5, <2>1, <2>2 DEF UpdateVehicle, Rows, Knows
<1>6. ASSUME NEW v \in Vehicle, NEW n \in Totalizer, RecordMeterReading(q, v, n) PROVE IInv'
  <2> DEFINE r == [at |-> "insertReading", vehicle |-> v, total |-> n]
  <2>1. r \in ReadingJob
    BY DEF ReadingJob
  <2>2. r \notin DriverJob \cup StartJob \cup AvailabilityJob \cup VehicleJob \cup EndJob
    BY DEF DriverJob, StartJob, AvailabilityJob, VehicleJob, EndJob, StartSteps
  <2> QED
    BY <1>6, <2>1, <2>2 DEF RecordMeterReading, Rows, Knows
<1>7. ASSUME NEW d \in Driver, NEW v \in Vehicle, NEW replace \in BOOLEAN, AssignDriver(q, v, d, replace) PROVE IInv'
  <2> DEFINE r == [at |-> "assign:driver", vehicle |-> v, driver |-> d, replace |-> replace, current |-> 0]
  <2>1. r \in AssignJob
    BY DEF AssignJob, AssignSteps
  <2>2. r \notin DriverJob \cup StartJob \cup AvailabilityJob \cup VehicleJob \cup EndJob
    BY DEF DriverJob, StartJob, AvailabilityJob, VehicleJob, EndJob, StartSteps
  <2> QED
    BY <1>7, <2>1, <2>2 DEF AssignDriver, Rows, Knows
<1>8. ASSUME NEW d \in Driver, NEW v \in Vehicle, NEW n \in Totalizer, NEW self \in BOOLEAN, StartShift(q, d, v, n, self)
      PROVE  IInv'
  <2> DEFINE r == [at |-> "start:driver", driver |-> d, vehicle |-> v, total |-> n, self |-> self]
  <2>1. r \in StartJob
    BY DEF StartJob, StartSteps
  <2>2. r \notin VehicleJob \cup EndJob /\ r.driver = d
    BY DEF VehicleJob, EndJob
  <2> QED
    BY <1>8, <2>1, <2>2 DEF StartShift, Rows, Knows
<1>9. ASSUME NEW i \in DOMAIN shifts, NEW n \in Totalizer, EndOwnShift(q, i, n) \/ EndShift(q, i, n) PROVE IInv'
  <2>1. PICK step \in {"end:orders", "end:shift"}, self \in BOOLEAN :
          Asks(q, [at |-> step, shift |-> i, total |-> n, self |-> self])
    BY <1>9 DEF EndOwnShift, EndShift
  <2> DEFINE r == [at |-> step, shift |-> i, total |-> n, self |-> self]
  <2>2. r \in EndJob /\ r.at # "close" /\ r.shift = i
    BY DEF EndJob
  <2>3. r \notin DriverJob \cup StartJob \cup AvailabilityJob \cup VehicleJob
    BY DEF DriverJob, StartJob, AvailabilityJob, VehicleJob, StartSteps
  <2> QED
    BY <2>1, <2>2, <2>3 DEF Rows, Knows
<1> QED
  BY <1>1, <1>2, <1>3, <1>4, <1>5, <1>6, <1>7, <1>8, <1>9

-----------------------------------------------------------------------------
\* The step of a request may change; what it carries stays of the same kind.
LEMMA NextStatement ==
  ASSUME IInv, NEW q \in Request, NEW step
  PROVE  LET r == [job[q] EXCEPT !.at = step]
         IN /\ At(q, "noShiftOfDriver") /\ step = "setDriver" => r \in Rows /\ Knows(r)
            /\ At(q, "noShiftOnVehicle") /\ step = "setVehicle" => r \in Rows /\ Knows(r)
            /\ job[q].at \in AssignSteps /\ step \in AssignSteps => r \in Rows /\ Knows(r)
            /\ At(q, "unassign:shift") /\ step = "release" => r \in Rows /\ Knows(r)
            /\ job[q].at \in StartSteps /\ step \in StartSteps => r \in Rows /\ Knows(r)
            /\ At(q, "end:orders") /\ step = "end:shift" => r \in Rows /\ Knows(r)
            /\ /\ At(q, "end:shift") /\ step = "close" /\ job[q].total >= shifts[job[q].shift].opening
               => r \in Rows /\ Knows(r)
            /\ At(q, "availability:shift") /\ step = "setAvailability" => r \in Rows /\ Knows(r)
<1> DEFINE j == job[q]
           r == [j EXCEPT !.at = step]
<1>1. j \in Rows /\ Knows(j)
  BY DEF IInv
<1>2. CASE At(q, "noShiftOfDriver") /\ step = "setDriver"
  <2>1. j \in DriverJob
    BY <1>1, <1>2, RowAtStep DEF At
  <2>2. r \in DriverJob /\ r.driver = j.driver
    BY <1>2, <2>1 DEF DriverJob
  <2>3. r \notin VehicleJob \cup EndJob
    BY <1>2, <2>2 DEF DriverJob, VehicleJob, EndJob
  <2> QED
    BY <1>1, <2>1, <2>2, <2>3 DEF Rows, Knows
<1>3. CASE At(q, "noShiftOnVehicle") /\ step = "setVehicle"
  <2>1. j \in VehicleJob
    BY <1>1, <1>3, RowAtStep DEF At
  <2>2. r \in VehicleJob /\ r.vehicle = j.vehicle
    BY <1>3, <2>1 DEF VehicleJob
  <2>3. r \notin DriverJob \cup StartJob \cup AvailabilityJob \cup EndJob
    BY <2>2 DEF DriverJob, VehicleJob, EndJob, StartJob, AvailabilityJob, StartSteps
  <2> QED
    BY <1>1, <2>1, <2>2, <2>3 DEF Rows, Knows
<1>4. CASE j.at \in AssignSteps /\ step \in AssignSteps
  <2>1. j \in AssignJob
    BY <1>1, <1>4, RowAtStep
  <2>2. r \in AssignJob
    BY <1>4, <2>1 DEF AssignJob
  <2>3. r \notin DriverJob \cup StartJob \cup AvailabilityJob \cup VehicleJob \cup EndJob
    BY <2>2 DEF AssignJob, AssignSteps, DriverJob, VehicleJob, EndJob, StartJob, AvailabilityJob, StartSteps
  <2> QED
    BY <2>2, <2>3 DEF Rows, Knows
<1>5. CASE At(q, "unassign:shift") /\ step = "release"
  <2>1. j \in UnassignJob
    BY <1>1, <1>5, RowAtStep DEF At
  <2>2. r \in UnassignJob
    BY <1>5, <2>1 DEF UnassignJob
  <2>3. r \notin DriverJob \cup StartJob \cup AvailabilityJob \cup VehicleJob \cup EndJob
    BY <2>2 DEF UnassignJob, DriverJob, VehicleJob, EndJob, StartJob, AvailabilityJob, StartSteps
  <2> QED
    BY <2>2, <2>3 DEF Rows, Knows
<1>6. CASE j.at \in StartSteps /\ step \in StartSteps
  <2>1. j \in StartJob
    BY <1>1, <1>6, RowAtStep
  <2>2. r \in StartJob /\ r.driver = j.driver
    BY <1>6, <2>1 DEF StartJob
  <2>3. r \notin VehicleJob \cup EndJob
    BY <2>2 DEF StartJob, StartSteps, VehicleJob, EndJob
  <2> QED
    BY <1>1, <2>1, <2>2, <2>3 DEF Rows, Knows
<1>7. CASE \/ At(q, "end:orders") /\ step = "end:shift"
           \/ At(q, "end:shift") /\ step = "close" /\ j.total >= shifts[j.shift].opening
  <2>1. j \in EndJob
    BY <1>1, <1>7, RowAtStep DEF At
  <2>2. r \in EndJob /\ r.shift = j.shift /\ r.total = j.total /\ r.at = step
    BY <1>7, <2>1 DEF EndJob
  <2>3. r \notin DriverJob \cup StartJob \cup AvailabilityJob \cup VehicleJob
    BY <2>2 DEF DriverJob, VehicleJob, EndJob, StartJob, AvailabilityJob, StartSteps
  <2> QED
    BY <1>1, <1>7, <2>1, <2>2, <2>3 DEF Rows, Knows
<1>8. CASE At(q, "availability:shift") /\ step = "setAvailability"
  <2>1. j \in AvailabilityJob
    BY <1>1, <1>8, RowAtStep DEF At
  <2>2. r \in AvailabilityJob /\ r.driver = j.driver
    BY <1>8, <2>1 DEF AvailabilityJob
  <2>3. r \notin VehicleJob \cup EndJob
    BY <2>2 DEF AvailabilityJob, VehicleJob, EndJob
  <2> QED
    BY <1>1, <2>1, <2>2, <2>3 DEF Rows, Knows
<1> QED
  BY <1>2, <1>3, <1>4, <1>5, <1>6, <1>7, <1>8

\* The reads between the first statement and the write.
LEMMA CheckStep ==
  ASSUME IInv, NEW q \in Request,
         \/ CheckDriverOffShift(q) \/ CheckVehicleOffShift(q) \/ CheckAssignment(q) \/ CheckUnassignment(q)
         \/ CheckStart(q) \/ CheckNoOrders(q) \/ CheckEnd(q) \/ CheckAvailability(q)
  PROVE  IInv'
<1> USE TestStep, NextStatement
<1>1. CASE CheckDriverOffShift(q)
  BY <1>1 DEF CheckDriverOffShift, hasOpenShift
<1>2. CASE CheckVehicleOffShift(q)
  BY <1>2 DEF CheckVehicleOffShift, vehicleHasOpenShift
<1>3. CASE CheckAssignment(q)
  <2> USE DEF AssignSteps
  <2>1. UNCHANGED roster
    BY <1>3 DEF CheckAssignment
  <2>2. CASE At(q, "assign:driver") /\ Test(q, drivers[job[q].driver].employment = "ACTIVE", "assign:current")
    BY <2>1, <2>2 DEF At
  <2>3. CASE At(q, "assign:free") /\ Test(q, ~isAssigned(job[q].driver), "assign")
    BY <2>1, <2>3 DEF At, isAssigned
  <2>4. CASE At(q, "assign:current") /\ Proceed(q, "assign:free")
    BY <2>1, <2>4, ReadStep DEF At, Proceed
  <2>5. CASE Leave(q)
    BY <2>1, <2>5, ReadStep, Leaving DEF Leave
  <2>6. ASSUME NEW i \in assignmentsOf(job[q].vehicle), At(q, "assign:current"),
               Goto(q, [job[q] EXCEPT !.at = "assign:free", !.current = i])
        PROVE  IInv'
    <3> DEFINE r == [job[q] EXCEPT !.at = "assign:free", !.current = i]
    <3>1. job[q] \in AssignJob
      BY <2>6, RowAtStep DEF At, IInv
    <3>2. i \in Nat
      BY <2>6, RowsOfGuards DEF assignmentsOf, activeAssignments
    <3>3. r \in AssignJob
      BY <3>1, <3>2 DEF AssignJob
    <3>4. r \notin DriverJob \cup StartJob \cup AvailabilityJob \cup VehicleJob \cup EndJob
      BY <3>3 DEF AssignJob, DriverJob, VehicleJob, EndJob, StartJob, AvailabilityJob, StartSteps
    <3> QED
      BY <2>1, <2>6, <3>3, <3>4, ReadStep DEF Rows, Knows
  <2> QED
    BY <1>3, <2>2, <2>3, <2>4, <2>5, <2>6 DEF CheckAssignment
<1>4. CASE CheckUnassignment(q)
  BY <1>4 DEF CheckUnassignment, vehicleHasOpenShift
<1>5. CASE CheckStart(q)
  <2>1. UNCHANGED roster
    BY <1>5 DEF CheckStart
  <2>2. PICK step \in StartSteps : job[q].at \in StartSteps /\ (Proceed(q, step) \/ Leave(q))
    BY <1>5 DEF CheckStart, At, StartSteps, Test
  <2>3. CASE Proceed(q, step)
    BY <2>1, <2>2, <2>3, ReadStep DEF Proceed
  <2>4. CASE Leave(q)
    BY <2>1, <2>4, ReadStep, Leaving DEF Leave
  <2> QED
    BY <2>2, <2>3, <2>4
<1>6. CASE CheckNoOrders(q)
  BY <1>6 DEF CheckNoOrders, HoldsActiveOrder
<1>7. CASE CheckEnd(q)
  BY <1>7 DEF CheckEnd
<1>8. CASE CheckAvailability(q)
  BY <1>8 DEF CheckAvailability, hasOpenShift
<1> QED
  BY <1>1, <1>2, <1>3, <1>4, <1>5, <1>6, <1>7, <1>8

-----------------------------------------------------------------------------
\* Writes.  What the other requests carry stays true while rows stay rows and
\* shifts keep the readings they opened with.
LEMMA OthersKnow ==
  ASSUME IInv, NEW q \in Request, NEW r \in Rows, Goto(q, r), Knows(r)',
         \A d \in Driver : drivers[d] \in DriverRow => drivers'[d] \in DriverRow,
         \A v \in Vehicle : vehicles[v] \in VehicleRow => vehicles'[v] \in VehicleRow,
         \A i \in DOMAIN shifts : i \in DOMAIN shifts' /\ shifts'[i].opening = shifts[i].opening
  PROVE  job' \in [Request -> Rows] /\ \A p \in Request : Knows(job[p])'
<1>1. job' \in [Request -> Rows] /\ \A p \in Request : job'[p] = IF p = q THEN r ELSE job[p]
  BY DEF IInv, Goto
<1>2. ASSUME NEW p \in Request, p # q PROVE Knows(job[p])'
  <2>1. job'[p] = job[p] /\ Knows(job[p]) /\ job[p] \in Rows
    BY <1>1, <1>2 DEF IInv
  <2>2. job[p] \in DriverJob \cup StartJob \cup AvailabilityJob => job[p].driver \in Driver
    BY DEF DriverJob, StartJob, AvailabilityJob
  <2>3. job[p] \in VehicleJob => job[p].vehicle \in Vehicle
    BY DEF VehicleJob
  <2> QED
    BY <2>1, <2>2, <2>3 DEF Knows
<1>3. Knows(job[q])'
  BY <1>1 DEF Knows
<1> QED
  BY <1>1, <1>2, <1>3

\* Drivers and tankers.
LEMMA FleetStep ==
  ASSUME IInv, NEW q \in Request,
         \/ InsertDriver(q) \/ SetDriver(q) \/ SetAvailability(q) \/ SetVehicle(q)
         \/ \E v \in Vehicle : CreateVehicle(q, v)
  PROVE  IInv'
<1>1. UNCHANGED <<assignments, shifts, readings>> /\ Leave(q)
  BY DEF InsertDriver, SetDriver, SetAvailability, SetVehicle, CreateVehicle
<1>2. job[q] \in Rows /\ Knows(job[q])
  BY DEF IInv
<1>3. drivers \in [Driver -> DriverRow \cup {None}] /\ vehicles \in [Vehicle -> VehicleRow \cup {None}]
  BY DEF IInv, RosterTypeOK
<1>4. /\ drivers' \in [Driver -> DriverRow \cup {None}] /\ vehicles' \in [Vehicle -> VehicleRow \cup {None}]
      /\ \A d \in Driver : drivers[d] \in DriverRow => drivers'[d] \in DriverRow
      /\ \A v \in Vehicle : vehicles[v] \in VehicleRow => vehicles'[v] \in VehicleRow
  <2>1. CASE InsertDriver(q)
    <3>1. job[q].driver \in Driver
      BY <1>2, <2>1, RowAtStep DEF InsertDriver, At, HireJob
    <3>2. \/ drivers' = drivers
          \/ \E row \in DriverRow : drivers' = [drivers EXCEPT ![job[q].driver] = row]
      BY <2>1 DEF InsertDriver, DriverRow, EmploymentStatus, Availability
    <3>3. vehicles' = vehicles
      BY <2>1 DEF InsertDriver
    <3> QED
      BY <1>3, <3>1, <3>2, <3>3
  <2>2. CASE SetDriver(q)
    <3>1. job[q] \in DriverJob /\ job[q].driver \in Driver /\ job[q].to \in EmploymentStatus
      BY <1>2, <2>2, RowAtStep DEF SetDriver, At, DriverJob
    <3>2. drivers[job[q].driver] \in DriverRow
      BY <1>2, <3>1 DEF Knows
    <3> QED
      BY <1>3, <2>2, <3>1, <3>2 DEF SetDriver, DriverRow, Availability
  <2>3. CASE SetAvailability(q)
    <3>1. job[q] \in AvailabilityJob /\ job[q].driver \in Driver /\ job[q].to \in Availability
      BY <1>2, <2>3, RowAtStep DEF SetAvailability, At, AvailabilityJob
    <3>2. drivers[job[q].driver] \in DriverRow
      BY <1>2, <3>1 DEF Knows
    <3> QED
      BY <1>3, <2>3, <3>1, <3>2 DEF SetAvailability, DriverRow
  <2>4. CASE SetVehicle(q)
    <3>1. job[q] \in VehicleJob /\ job[q].vehicle \in Vehicle /\ job[q].to \in VehicleStatus
      BY <1>2, <2>4, RowAtStep DEF SetVehicle, At, VehicleJob
    <3>2. vehicles[job[q].vehicle] \in VehicleRow
      BY <1>2, <3>1 DEF Knows
    <3> QED
      BY <1>3, <2>4, <3>1, <3>2 DEF SetVehicle, VehicleRow
  <2>5. ASSUME NEW v \in Vehicle, CreateVehicle(q, v)
        PROVE  /\ drivers' = drivers /\ vehicles' \in [Vehicle -> VehicleRow \cup {None}]
               /\ \A w \in Vehicle : vehicles[w] \in VehicleRow => vehicles'[w] \in VehicleRow
    BY <1>3, <2>5 DEF CreateVehicle, VehicleRow, VehicleStatus
  <2> QED
    BY <1>3, <2>1, <2>2, <2>3, <2>4, <2>5
<1>5. job' \in [Request -> Rows] /\ \A p \in Request : Knows(job[p])'
  BY <1>1, <1>4, Leaving, OthersKnow DEF Leave
<1>6. RosterTypeOK' /\ OneCrew'
  BY <1>1, <1>4 DEF IInv, RosterTypeOK, OneCrew, activeAssignments, openShifts
<1>7. \A i \in DOMAIN shifts' : drivers'[shifts'[i].driver] \in DriverRow
  BY <1>1, <1>4, RowsOfGuards DEF IInv, ShiftRow
<1> QED
  BY <1>5, <1>6, <1>7 DEF IInv

LEMMA InsertReadingStep ==
  ASSUME IInv, NEW q \in Request, InsertReading(q)
  PROVE  IInv'
<1>1. UNCHANGED <<drivers, vehicles, assignments, shifts>> /\ Leave(q)
  BY DEF InsertReading
<1>2. job[q] \in ReadingJob
  BY RowAtStep DEF InsertReading, At, IInv
<1>3. readings' \in [Vehicle -> Seq(Totalizer)]
  BY <1>2 DEF InsertReading, ReadingJob, IInv, RosterTypeOK
<1>4. job' \in [Request -> Rows] /\ \A p \in Request : Knows(job[p])'
  BY <1>1, Leaving, OthersKnow DEF Leave
<1> QED
  BY <1>1, <1>3, <1>4 DEF IInv, RosterTypeOK, OneCrew, activeAssignments, openShifts

-----------------------------------------------------------------------------
\* Releasing rows keeps one active row per tanker and per driver.
LEMMA WriteAssignmentStep ==
  ASSUME IInv, NEW q \in Request, WriteAssignment(q)
  PROVE  IInv'
<1> DEFINE j == job[q]
           n == Len(assignments)
           row == [vehicle |-> j.vehicle, driver |-> j.driver, released |-> FALSE]
           rows == [i \in DOMAIN assignments |-> [assignments[i] EXCEPT !.released = @ \/ i = j.current]]
<1>1. UNCHANGED <<drivers, vehicles, shifts, readings>> /\ Leave(q) /\ n < MaxRows
  BY DEF WriteAssignment
<1>2. job' \in [Request -> Rows] /\ \A p \in Request : Knows(job[p])'
  BY <1>1, Leaving, OthersKnow DEF Leave
<1>3. j \in AssignJob
  BY RowAtStep DEF WriteAssignment, At, IInv, AssignSteps
<1>4. row \in AssignmentRow
  BY <1>3 DEF AssignJob, AssignmentRow
<1>5. n \in Nat /\ DOMAIN assignments = 1..n /\ \A i \in 1..n : assignments[i] \in AssignmentRow
  BY DEF IInv, RosterTypeOK
<1>6. \A i \in 1..n : /\ rows[i] \in AssignmentRow
                      /\ rows[i].vehicle = assignments[i].vehicle /\ rows[i].driver = assignments[i].driver
                      /\ assignments[i].released => rows[i].released
  BY <1>5 DEF AssignmentRow
<1>7. rows \in Seq(AssignmentRow) /\ Len(rows) = n
  <2>1. rows \in [1..n -> AssignmentRow]
    BY <1>5, <1>6
  <2> QED
    BY <1>5, <2>1
<1>8. CASE ~insertable(rows, j.vehicle, j.driver)
  <2>1. assignments' = assignments
    BY <1>8 DEF WriteAssignment
  <2> QED
    BY <1>1, <1>2, <2>1 DEF IInv, RosterTypeOK, OneCrew, activeAssignments, openShifts
<1>9. CASE insertable(rows, j.vehicle, j.driver)
  <2>1. assignments' = Append(rows, row)
    BY <1>9 DEF WriteAssignment
  <2>2. /\ assignments' \in Seq(AssignmentRow) /\ Len(assignments') = n + 1
        /\ \A i \in 1..n : assignments'[i] = rows[i]
        /\ assignments'[n + 1] = row
    BY <1>4, <1>5, <1>7, <2>1
  <2>3. RosterTypeOK'
    BY <1>1, <1>5, <2>2, ReadingsAndRows DEF IInv, RosterTypeOK
  <2>4. ASSUME NEW i \in 1..n, ~assignments'[i].released
        PROVE  /\ ~assignments[i].released
               /\ assignments'[i].vehicle = assignments[i].vehicle /\ assignments'[i].driver = assignments[i].driver
               /\ assignments'[i].vehicle # j.vehicle /\ assignments'[i].driver # j.driver
    <3>1. assignments'[i] = rows[i] /\ ~rows[i].released
      BY <2>2, <2>4
    <3>2. /\ rows[i].vehicle = assignments[i].vehicle /\ rows[i].driver = assignments[i].driver
          /\ ~assignments[i].released
      BY <1>6, <3>1
    <3> HIDE DEF rows
    <3>3. i \in DOMAIN rows
      BY <1>7
    <3>4. rows[i].vehicle # j.vehicle /\ rows[i].driver # j.driver
      BY <1>9, <3>1, <3>3 DEF insertable
    <3> QED
      BY <3>1, <3>2, <3>4
  <2>5. \A i, k \in activeAssignments' : i # k =>
          assignments'[i].vehicle # assignments'[k].vehicle /\ assignments'[i].driver # assignments'[k].driver
    <3> SUFFICES ASSUME NEW i \in activeAssignments', NEW k \in activeAssignments', i # k
                 PROVE  assignments'[i].vehicle # assignments'[k].vehicle /\ assignments'[i].driver # assignments'[k].driver
      OBVIOUS
    <3>1. i \in 1..(n + 1) /\ k \in 1..(n + 1) /\ ~assignments'[i].released /\ ~assignments'[k].released
      BY <1>5, <2>2 DEF activeAssignments
    <3>2. CASE i \in 1..n /\ k \in 1..n
      BY <1>5, <2>4, <3>1, <3>2 DEF IInv, OneCrew, activeAssignments
    <3>3. CASE i = n + 1
      <4>1. k \in 1..n
        BY <1>5, <3>1, <3>3
      <4> QED
        BY <2>2, <2>4, <3>1, <3>3, <4>1
    <3>4. CASE k = n + 1
      <4>1. i \in 1..n
        BY <1>5, <3>1, <3>4
      <4> QED
        BY <2>2, <2>4, <3>1, <3>4, <4>1
    <3> QED
      BY <1>5, <3>1, <3>2, <3>3, <3>4
  <2>6. OneCrew'
    BY <1>1, <2>5 DEF IInv, OneCrew, openShifts
  <2> QED
    BY <1>1, <1>2, <2>3, <2>6 DEF IInv
<1> QED
  BY <1>8, <1>9

LEMMA ReleaseStep ==
  ASSUME IInv, NEW q \in Request, ReleaseAssignment(q)
  PROVE  IInv'
<1> DEFINE j == job[q]
<1>1. UNCHANGED <<drivers, vehicles, shifts, readings>> /\ Leave(q)
  BY DEF ReleaseAssignment
<1>2. job' \in [Request -> Rows] /\ \A p \in Request : Knows(job[p])'
  BY <1>1, Leaving, OthersKnow DEF Leave
<1>3. assignments' = [assignments EXCEPT ![j.current].released = TRUE]
  BY DEF ReleaseAssignment
<1>4. assignments \in Seq(AssignmentRow) /\ Len(assignments) <= MaxRows
  BY DEF IInv, RosterTypeOK
<1>5. \A i \in DOMAIN assignments : assignments[i] \in AssignmentRow
  BY <1>4
<1>6. /\ DOMAIN assignments' = DOMAIN assignments
      /\ \A i \in DOMAIN assignments :
           assignments'[i] = IF i = j.current THEN [assignments[i] EXCEPT !.released = TRUE] ELSE assignments[i]
  BY <1>3
<1>7. \A i \in DOMAIN assignments : /\ assignments'[i] \in AssignmentRow
                                    /\ assignments'[i].vehicle = assignments[i].vehicle
                                    /\ assignments'[i].driver = assignments[i].driver
                                    /\ assignments[i].released => assignments'[i].released
  BY <1>5, <1>6 DEF AssignmentRow
<1>8. assignments' \in Seq(AssignmentRow) /\ Len(assignments') = Len(assignments)
  <2>1. DOMAIN assignments = 1..Len(assignments) /\ Len(assignments) \in Nat
    BY <1>4
  <2>2. assignments' \in [1..Len(assignments) -> AssignmentRow]
    BY <1>3, <1>6, <1>7, <2>1
  <2> QED
    BY <2>1, <2>2
<1>9. RosterTypeOK'
  BY <1>1, <1>4, <1>8 DEF IInv, RosterTypeOK
<1>10. \A i \in activeAssignments' : i \in activeAssignments
  BY <1>6, <1>7 DEF activeAssignments
<1>11. \A i, k \in activeAssignments' : i # k =>
         assignments'[i].vehicle # assignments'[k].vehicle /\ assignments'[i].driver # assignments'[k].driver
  BY <1>7, <1>10 DEF IInv, OneCrew, activeAssignments
<1>12. OneCrew'
  BY <1>1, <1>11 DEF IInv, OneCrew, openShifts
<1> QED
  BY <1>1, <1>2, <1>9, <1>12 DEF IInv

-----------------------------------------------------------------------------
\* The indexes refuse a second open shift; the new one is the only one of its
\* driver and of its tanker.
LEMMA OpenShiftStep ==
  ASSUME IInv, NEW q \in Request, OpenShift(q)
  PROVE  IInv'
<1> DEFINE j == job[q]
           d == j.driver
           v == j.vehicle
           n == Len(shifts)
           row == [driver |-> d, vehicle |-> v, open |-> TRUE, opening |-> j.total, closing |-> None]
<1>1. j \in StartJob /\ Knows(j)
  BY RowAtStep DEF OpenShift, At, IInv, StartSteps
<1>2. /\ d \in Driver /\ v \in Vehicle /\ j.total \in Totalizer /\ j.self \in BOOLEAN
      /\ drivers[d] \in DriverRow
  BY <1>1 DEF StartJob, Knows
<1>3. UNCHANGED <<vehicles, assignments>> /\ n < MaxRows
  BY DEF OpenShift
<1>4. n \in Nat /\ DOMAIN shifts = 1..n /\ \A i \in 1..n : shifts[i] \in ShiftRow
  BY DEF IInv, RosterTypeOK
<1>5. CASE hasOpenShift(d) \/ vehicleHasOpenShift(v)
  <2>1. Leave(q) /\ UNCHANGED roster
    BY <1>3, <1>5 DEF OpenShift, roster
  <2> QED
    BY <2>1, Leaving, ReadStep DEF Leave
<1>6. CASE ~(hasOpenShift(d) \/ vehicleHasOpenShift(v))
  <2>1. /\ readings' = [readings EXCEPT ![v] = Append(@, j.total)]
        /\ shifts' = Append(shifts, row)
        /\ drivers' = [drivers EXCEPT ![d].availability = "ONLINE"]
        /\ Goto(q, [at |-> "setAvailability", driver |-> d, to |-> "ONLINE"]) \/ Leave(q)
    BY <1>6 DEF OpenShift
  <2>2. row \in ShiftRow
    BY <1>2 DEF ShiftRow
  <2>3. /\ shifts' \in Seq(ShiftRow) /\ Len(shifts') = n + 1 /\ DOMAIN shifts' = 1..(n + 1)
        /\ \A i \in 1..n : shifts'[i] = shifts[i]
        /\ shifts'[n + 1] = row
    BY <1>4, <2>1, <2>2 DEF IInv, RosterTypeOK
  <2>4. drivers' \in [Driver -> DriverRow \cup {None}] /\ \A e \in Driver : drivers[e] \in DriverRow => drivers'[e] \in DriverRow
    BY <1>2, <2>1 DEF IInv, RosterTypeOK, DriverRow, Availability
  <2>5. readings' \in [Vehicle -> Seq(Totalizer)]
    BY <1>2, <2>1 DEF IInv, RosterTypeOK
  <2>6. RosterTypeOK'
    BY <1>3, <1>4, <2>3, <2>4, <2>5, ReadingsAndRows DEF IInv, RosterTypeOK
  <2>7. \A i \in 1..n : shifts[i].open => shifts[i].driver # d /\ shifts[i].vehicle # v
    BY <1>4, <1>6 DEF hasOpenShift, vehicleHasOpenShift, openShifts
  <2>8. \A i, k \in openShifts' : i # k => shifts'[i].vehicle # shifts'[k].vehicle /\ shifts'[i].driver # shifts'[k].driver
    <3> SUFFICES ASSUME NEW i \in openShifts', NEW k \in openShifts', i # k
                 PROVE  shifts'[i].vehicle # shifts'[k].vehicle /\ shifts'[i].driver # shifts'[k].driver
      OBVIOUS
    <3>1. i \in 1..(n + 1) /\ k \in 1..(n + 1) /\ shifts'[i].open /\ shifts'[k].open
      BY <2>3 DEF openShifts
    <3>2. CASE i \in 1..n /\ k \in 1..n
      BY <1>4, <2>3, <3>1, <3>2 DEF IInv, OneCrew, openShifts
    <3>3. CASE i = n + 1
      <4>1. k \in 1..n
        BY <1>4, <3>1, <3>3
      <4> QED
        BY <2>3, <2>7, <3>1, <3>3, <4>1
    <3>4. CASE k = n + 1
      <4>1. i \in 1..n
        BY <1>4, <3>1, <3>4
      <4> QED
        BY <2>3, <2>7, <3>1, <3>4, <4>1
    <3> QED
      BY <1>4, <3>1, <3>2, <3>3, <3>4
  <2>9. \A i \in DOMAIN shifts' : /\ shifts'[i].open <=> shifts'[i].closing = None
                                  /\ shifts'[i].closing # None => shifts'[i].closing >= shifts'[i].opening
    <3> SUFFICES ASSUME NEW i \in 1..(n + 1)
                 PROVE  /\ shifts'[i].open <=> shifts'[i].closing = None
                        /\ shifts'[i].closing # None => shifts'[i].closing >= shifts'[i].opening
      BY <2>3
    <3>1. CASE i = n + 1
      BY <2>3, <3>1
    <3>2. CASE i \in 1..n
      BY <1>4, <2>3, <3>2 DEF IInv, OneCrew
    <3> QED
      BY <1>4, <3>1, <3>2
  <2>10. OneCrew'
    BY <1>3, <2>8, <2>9 DEF IInv, OneCrew, activeAssignments
  <2>11. \A i \in DOMAIN shifts' : drivers'[shifts'[i].driver] \in DriverRow
    <3>1. \A i \in 1..n : shifts[i].driver \in Driver /\ drivers[shifts[i].driver] \in DriverRow
      BY <1>4 DEF IInv, ShiftRow
    <3> QED
      BY <1>2, <1>4, <2>3, <2>4, <3>1
  <2>12. \A i \in DOMAIN shifts : i \in DOMAIN shifts' /\ shifts'[i].opening = shifts[i].opening
    BY <1>4, <2>3
  <2>13. \A w \in Vehicle : vehicles[w] \in VehicleRow => vehicles'[w] \in VehicleRow
    BY <1>3
  <2>14. job' \in [Request -> Rows] /\ \A p \in Request : Knows(job[p])'
    <3>1. CASE Leave(q)
      BY <2>4, <2>12, <2>13, <3>1, Leaving, OthersKnow DEF Leave
    <3>2. CASE Goto(q, [at |-> "setAvailability", driver |-> d, to |-> "ONLINE"])
      <4>1. PICK e \in Driver : e = d
        BY <1>2
      <4> DEFINE r == [at |-> "setAvailability", driver |-> e, to |-> "ONLINE"]
      <4>2. r \in Rows /\ Knows(r)'
        BY <1>2, <2>4, <4>1, AvailabilityRow DEF Availability
      <4>3. Goto(q, r)
        BY <3>2, <4>1
      <4> HIDE DEF r
      <4> QED
        BY <2>4, <2>12, <2>13, <4>2, <4>3, OthersKnow
    <3> QED
      BY <2>1, <3>1, <3>2
  <2> QED
    BY <2>6, <2>10, <2>11, <2>14 DEF IInv
<1> QED
  BY <1>5, <1>6

\* Two endings of one shift: the later one writes its closing reading over the
\* earlier one's, and both are at or above the opening one.
LEMMA CloseShiftStep ==
  ASSUME IInv, NEW q \in Request, CloseShift(q)
  PROVE  IInv'
<1> DEFINE j == job[q]
           c == j.shift
           s == shifts[c]
           n == Len(shifts)
           row == [s EXCEPT !.open = FALSE, !.closing = j.total]
<1>1. j \in EndJob /\ Knows(j) /\ j.at = "close"
  BY RowAtStep DEF CloseShift, At, IInv
<1>2. j.total \in Totalizer /\ c \in DOMAIN shifts /\ j.total >= s.opening
  BY <1>1 DEF EndJob, Knows
<1>3. n \in Nat /\ DOMAIN shifts = 1..n /\ \A i \in 1..n : shifts[i] \in ShiftRow
  BY DEF IInv, RosterTypeOK
<1>4. /\ s \in ShiftRow /\ s.driver \in Driver /\ s.vehicle \in Vehicle /\ s.opening \in Totalizer
      /\ drivers[s.driver] \in DriverRow
  BY <1>2, <1>3 DEF ShiftRow, IInv
<1>5. /\ UNCHANGED <<vehicles, assignments>>
      /\ readings' = [readings EXCEPT ![s.vehicle] = Append(@, j.total)]
      /\ shifts' = [shifts EXCEPT ![c].open = FALSE, ![c].closing = j.total]
      /\ drivers' = [drivers EXCEPT ![s.driver].availability = "OFFLINE"]
      /\ Goto(q, [at |-> "setAvailability", driver |-> s.driver, to |-> "OFFLINE"]) \/ Leave(q)
  BY DEF CloseShift
<1>6. /\ row \in ShiftRow /\ row.driver = s.driver /\ row.vehicle = s.vehicle /\ row.opening = s.opening
      /\ ~row.open /\ row.closing = j.total
  BY <1>2, <1>4 DEF ShiftRow
<1>7. DOMAIN shifts' = 1..n /\ \A i \in 1..n : shifts'[i] = IF i = c THEN row ELSE shifts[i]
  BY <1>2, <1>3, <1>5
<1>8. \A i \in 1..n : /\ shifts'[i] \in ShiftRow
                      /\ shifts'[i].driver = shifts[i].driver /\ shifts'[i].vehicle = shifts[i].vehicle
                      /\ shifts'[i].opening = shifts[i].opening
                      /\ shifts'[i].open => shifts[i].open
  BY <1>3, <1>6, <1>7
<1>9. shifts' \in Seq(ShiftRow) /\ Len(shifts') = n
  <2>1. shifts' \in [1..n -> ShiftRow]
    BY <1>3, <1>5, <1>7, <1>8
  <2> QED
    BY <1>3, <2>1
<1>10. drivers' \in [Driver -> DriverRow \cup {None}] /\ \A e \in Driver : drivers[e] \in DriverRow => drivers'[e] \in DriverRow
  BY <1>4, <1>5 DEF IInv, RosterTypeOK, DriverRow, Availability
<1>11. readings' \in [Vehicle -> Seq(Totalizer)]
  BY <1>2, <1>4, <1>5 DEF IInv, RosterTypeOK
<1>12. RosterTypeOK'
  BY <1>5, <1>9, <1>10, <1>11 DEF IInv, RosterTypeOK
<1>13. \A i, k \in openShifts' : i # k => shifts'[i].vehicle # shifts'[k].vehicle /\ shifts'[i].driver # shifts'[k].driver
  BY <1>3, <1>7, <1>8 DEF IInv, OneCrew, openShifts
<1>14. \A i \in DOMAIN shifts' : /\ shifts'[i].open <=> shifts'[i].closing = None
                                 /\ shifts'[i].closing # None => shifts'[i].closing >= shifts'[i].opening
  <2>1. j.total # None
    BY <1>2, NoneIsNoReading DEF Totalizer
  <2>2. ASSUME NEW i \in 1..n
        PROVE  /\ shifts'[i].open <=> shifts'[i].closing = None
               /\ shifts'[i].closing # None => shifts'[i].closing >= shifts'[i].opening
    <3>1. CASE i = c
      BY <1>2, <1>6, <1>7, <2>1, <3>1
    <3>2. CASE i # c
      BY <1>3, <1>7, <3>2 DEF IInv, OneCrew
    <3> QED
      BY <3>1, <3>2
  <2> QED
    BY <1>7, <2>2
<1>15. OneCrew'
  BY <1>5, <1>13, <1>14 DEF IInv, OneCrew, activeAssignments
<1>16. \A i \in DOMAIN shifts' : drivers'[shifts'[i].driver] \in DriverRow
  <2>1. \A i \in 1..n : shifts[i].driver \in Driver /\ drivers[shifts[i].driver] \in DriverRow
    BY <1>3 DEF IInv, ShiftRow
  <2> QED
    BY <1>7, <1>8, <1>10, <2>1
<1>17. \A i \in DOMAIN shifts : i \in DOMAIN shifts' /\ shifts'[i].opening = shifts[i].opening
  BY <1>3, <1>7, <1>8
<1>18. \A w \in Vehicle : vehicles[w] \in VehicleRow => vehicles'[w] \in VehicleRow
  BY <1>5
<1>19. job' \in [Request -> Rows] /\ \A p \in Request : Knows(job[p])'
  <2>1. CASE Leave(q)
    BY <1>10, <1>17, <1>18, <2>1, Leaving, OthersKnow DEF Leave
  <2>2. CASE Goto(q, [at |-> "setAvailability", driver |-> s.driver, to |-> "OFFLINE"])
    <3>1. PICK e \in Driver : e = s.driver
      BY <1>4
    <3> DEFINE r == [at |-> "setAvailability", driver |-> e, to |-> "OFFLINE"]
    <3>2. r \in Rows /\ Knows(r)'
      BY <1>4, <1>10, <3>1, AvailabilityRow DEF Availability
    <3>3. Goto(q, r)
      BY <2>2, <3>1
    <3> HIDE DEF r
    <3> QED
      BY <1>10, <1>17, <1>18, <3>2, <3>3, OthersKnow
  <2> QED
    BY <1>5, <2>1, <2>2
<1> QED
  BY <1>12, <1>15, <1>16, <1>19 DEF IInv

-----------------------------------------------------------------------------
\* A run begins with at most one assignment and one shift.
LEMMA Initially == RequestsInit /\ RosterInit => IInv
<1> SUFFICES ASSUME RequestsInit, RosterInit PROVE IInv
  OBVIOUS
<1>1. job \in [Request -> Rows] /\ \A q \in Request : Knows(job[q])
  <2>1. [at |-> "new"] \in Idle
    BY DEF Idle
  <2>2. [at |-> "new"] \notin DriverJob \cup StartJob \cup AvailabilityJob \cup VehicleJob \cup EndJob
    BY DEF DriverJob, StartJob, AvailabilityJob, VehicleJob, EndJob, StartSteps
  <2> QED
    BY <2>1, <2>2 DEF RequestsInit, Rows, Knows
<1>2. PICK d \in Driver, v \in Vehicle, assigned \in BOOLEAN, onShift \in BOOLEAN :
       /\ assignments = IF assigned \/ onShift THEN <<[vehicle |-> v, driver |-> d, released |-> FALSE]>>
                                               ELSE << >>
       /\ shifts = IF onShift THEN <<[driver |-> d, vehicle |-> v, open |-> TRUE, opening |-> 0, closing |-> None]>>
                              ELSE << >>
       /\ readings = [w \in Vehicle |-> IF onShift /\ w = v THEN <<0>> ELSE << >>]
       /\ \E hired \in {Driver, {d}}, licensed \in BOOLEAN :
            drivers = [e \in Driver |->
              IF e \in hired THEN [employment |-> "ACTIVE", licensed |-> licensed,
                                   availability |-> IF onShift /\ e = d THEN "ONLINE" ELSE "OFFLINE"]
                             ELSE None]
       /\ \E bought \in {Vehicle, {v}}, papers \in BOOLEAN :
            vehicles = [w \in Vehicle |-> IF w \in bought THEN [status |-> "ACTIVE", papers |-> papers] ELSE None]
  BY DEF RosterInit
<1>3. 0 \in Totalizer /\ MaxRows \in Nat /\ MaxRows >= 1
  BY ReadingsAndRows DEF Totalizer
<1>4. drivers \in [Driver -> DriverRow \cup {None}] /\ drivers[d] \in DriverRow
  BY <1>2 DEF DriverRow, EmploymentStatus, Availability
<1>5. vehicles \in [Vehicle -> VehicleRow \cup {None}]
  BY <1>2 DEF VehicleRow, VehicleStatus
<1>6. /\ assignments \in Seq(AssignmentRow) /\ Len(assignments) <= 1
      /\ \A i \in DOMAIN assignments : i = 1
  <2>1. [vehicle |-> v, driver |-> d, released |-> FALSE] \in AssignmentRow
    BY DEF AssignmentRow
  <2> QED
    BY <1>2, <2>1
<1>7. /\ shifts \in Seq(ShiftRow) /\ Len(shifts) <= 1
      /\ \A i \in DOMAIN shifts : i = 1 /\ shifts[i].driver = d /\ shifts[i].open /\ shifts[i].closing = None
  <2>1. [driver |-> d, vehicle |-> v, open |-> TRUE, opening |-> 0, closing |-> None] \in ShiftRow
    BY <1>3 DEF ShiftRow
  <2> QED
    BY <1>2, <2>1
<1>8. readings \in [Vehicle -> Seq(Totalizer)]
  <2>1. <<0>> \in Seq(Totalizer) /\ << >> \in Seq(Totalizer)
    BY <1>3
  <2> QED
    BY <1>2, <2>1
<1>9. RosterTypeOK
  BY <1>3, <1>4, <1>5, <1>6, <1>7, <1>8 DEF RosterTypeOK
<1>10. OneCrew
  BY <1>6, <1>7 DEF OneCrew, activeAssignments, openShifts
<1> QED
  BY <1>1, <1>4, <1>7, <1>9, <1>10 DEF IInv

LEMMA Invariance == IInv /\ [\E q \in Request : RosterNext(q)]_<<job, roster>> => IInv'
<1> SUFFICES ASSUME IInv, [\E q \in Request : RosterNext(q)]_<<job, roster>> PROVE IInv'
  OBVIOUS
<1>1. CASE UNCHANGED <<job, roster>>
  BY <1>1 DEF IInv, Knows, roster, RosterTypeOK, OneCrew, activeAssignments, openShifts
<1>2. ASSUME NEW q \in Request, RosterNext(q) PROVE IInv'
  BY <1>2, AskStep, CheckStep, FleetStep, InsertReadingStep, WriteAssignmentStep, ReleaseStep, OpenShiftStep,
     CloseShiftStep DEF RosterNext
<1> QED
  BY <1>1, <1>2

LEMMA Inductive == RosterSpec => []IInv
BY Initially, Invariance, PTL DEF RosterSpec

\* The tables keep their types.
THEOREM TypeCorrect == RosterSpec => []RosterTypeOK
<1>1. IInv => RosterTypeOK
  BY DEF IInv
<1> QED
  BY <1>1, Inductive, PTL

\* A tanker has at most one assigned driver and one open shift, a driver at most
\* one of each, and no shift ends below the reading it began with.
THEOREM OneCrewPerTanker == RosterSpec => []OneCrew
<1>1. IInv => OneCrew
  BY DEF IInv
<1> QED
  BY <1>1, Inductive, PTL
===============================================================================
