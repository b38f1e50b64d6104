-------------------------------- MODULE Roster --------------------------------
(***************************************************************************)
(* Drivers, tankers, who is assigned to which, and shifts                    *)
(* (fleet/services/driver, vehicle, assignment and dispatchability,          *)
(* inventory.service's meter readings, driver/services/driver-shift and      *)
(* driver-self, and their repositories).  A shift is opened through a chain  *)
(* of reads, each at its own instant; the unique indexes decide at the end.  *)
(* Contact details, licence numbers and stock levels are left out, and the   *)
(* dates on a tanker's papers are abstracted to whether one has expired.     *)
(***************************************************************************)
EXTENDS Requests, Integers, SequencesExt

CONSTANTS
  Driver, Vehicle,
  MaxReading,   \* bound: the totaliser's range
  MaxRows       \* bound: assignments, shifts and readings per tanker

ASSUME ReadingsAndRows == MaxReading \in Nat /\ MaxRows \in Nat \ {0}
ASSUME NoneIsNoReading == None \notin 0..MaxReading

VARIABLES
  drivers,      \* driver_profiles
  vehicles,     \* vehicles
  assignments,  \* vehicle_assignments, by creation
  shifts,       \* driver_shifts, by creation
  readings      \* meter_readings: totalisers by vehicle

roster == <<drivers, vehicles, assignments, shifts, readings>>

EmploymentStatus == {"ACTIVE", "SUSPENDED"}      \* INACTIVE is treated as SUSPENDED
Availability == {"OFFLINE", "ONLINE", "BREAK"}   \* the ones a driver may ask for
VehicleStatus == {"ACTIVE", "MAINTENANCE", "RETIRED"}
Totalizer == 0..MaxReading

DriverRow == [employment: EmploymentStatus, licensed: BOOLEAN, availability: Availability]
VehicleRow == [status: VehicleStatus, papers: BOOLEAN]
AssignmentRow == [vehicle: Vehicle, driver: Driver, released: BOOLEAN]
ShiftRow == [driver: Driver, vehicle: Vehicle, open: BOOLEAN,
             opening: Totalizer, closing: Totalizer \cup {None}]

activeAssignments == {i \in DOMAIN assignments : ~assignments[i].released}
openShifts == {i \in DOMAIN shifts : shifts[i].open}

hasOpenShift(d) == \E i \in openShifts : shifts[i].driver = d
vehicleHasOpenShift(v) == \E i \in openShifts : shifts[i].vehicle = v
assignmentsOf(v) == {i \in activeAssignments : assignments[i].vehicle = v}
isAssigned(d) == \E i \in activeAssignments : assignments[i].driver = d

\* The newest reading, or 0 for a tanker that has none.
findLatestReading(v) == IF readings[v] = << >> THEN 0 ELSE Last(readings[v])

mayDrive(d) == drivers[d].employment = "ACTIVE" /\ drivers[d].licensed

\* What disqualifies a tanker, stock left out; an operator may override the soft ones.
SOFT_BLOCKERS == {"NO_DRIVER_ASSIGNED"}

assessDispatchability(v) ==
  {b \in {"RETIRED", "NOT_ACTIVE", "EXPIRED", "NO_DRIVER_ASSIGNED"} :
     CASE b = "RETIRED"            -> vehicles[v].status = "RETIRED"
       [] b = "NOT_ACTIVE"         -> vehicles[v].status = "MAINTENANCE"
       [] b = "EXPIRED"            -> ~vehicles[v].papers
       [] b = "NO_DRIVER_ASSIGNED" -> assignmentsOf(v) = {}}

assertVehicleUsableForShift(v) == assessDispatchability(v) \subseteq SOFT_BLOCKERS

\* countActiveOrdersForDriver is asked of the orders, which this module does not hold.
HoldsActiveOrder == BOOLEAN

Asks(q, r) == At(q, "new") /\ Goto(q, r) /\ UNCHANGED roster

---------------------------------------------------------------------------
\* onboardDriver looks for the phone, createDriverProfile for a profile of the
\* account; either inserts afterwards and the unique key refuses the second.
OnboardDriver(q, d) ==
  drivers[d] = None /\ Asks(q, [at |-> "insertDriver", driver |-> d])

InsertDriver(q) ==
  /\ At(q, "insertDriver")
  /\ IF drivers[job[q].driver] # None
     THEN UNCHANGED drivers
     ELSE \E licensed \in BOOLEAN :
            drivers' = [drivers EXCEPT ![job[q].driver] =
              [employment |-> "ACTIVE", licensed |-> licensed, availability |-> "OFFLINE"]]
  /\ Leave(q)
  /\ UNCHANGED <<vehicles, assignments, shifts, readings>>

\* updateDriverProfile: leaving ACTIVE is refused on a shift and takes the driver offline.
UpdateDriverProfile(q, d, to) ==
  /\ drivers[d] # None
  /\ Asks(q, [at |-> IF drivers[d].employment = "ACTIVE" /\ to # "ACTIVE"
                     THEN "noShiftOfDriver" ELSE "setDriver",
              driver |-> d, to |-> to, offline |-> drivers[d].employment = "ACTIVE" /\ to # "ACTIVE"])

CheckDriverOffShift(q) ==
  /\ At(q, "noShiftOfDriver")
  /\ Test(q, ~hasOpenShift(job[q].driver), "setDriver")
  /\ UNCHANGED roster

SetDriver(q) ==
  /\ At(q, "setDriver")
  /\ drivers' = [drivers EXCEPT ![job[q].driver].employment = job[q].to,
                                ![job[q].driver].availability = IF job[q].offline THEN "OFFLINE" ELSE @]
  /\ Leave(q)
  /\ UNCHANGED <<vehicles, assignments, shifts, readings>>

\* createVehicle.
CreateVehicle(q, v) ==
  /\ At(q, "new")
  /\ vehicles[v] = None
  /\ \E papers \in BOOLEAN : vehicles' = [vehicles EXCEPT ![v] = [status |-> "ACTIVE", papers |-> papers]]
  /\ Leave(q)
  /\ UNCHANGED <<drivers, assignments, shifts, readings>>

\* updateVehicle: a retired tanker keeps its status, and none is retired on a shift.
UpdateVehicle(q, v, to) ==
  /\ vehicles[v] # None /\ vehicles[v].status # "RETIRED"
  /\ Asks(q, [at |-> IF to = "RETIRED" THEN "noShiftOnVehicle" ELSE "setVehicle",
              vehicle |-> v, to |-> to])

CheckVehicleOffShift(q) ==
  /\ At(q, "noShiftOnVehicle")
  /\ Test(q, ~vehicleHasOpenShift(job[q].vehicle), "setVehicle")
  /\ UNCHANGED roster

SetVehicle(q) ==
  /\ At(q, "setVehicle")
  /\ vehicles' = [vehicles EXCEPT ![job[q].vehicle].status = job[q].to]
  /\ Leave(q)
  /\ UNCHANGED <<drivers, assignments, shifts, readings>>

\* recordMeterReading: not of a retired tanker; above the latest reading found,
\* inserted afterwards.
RecordMeterReading(q, v, n) ==
  /\ vehicles[v] # None /\ vehicles[v].status # "RETIRED"
  /\ n >= findLatestReading(v)
  /\ Asks(q, [at |-> "insertReading", vehicle |-> v, total |-> n])

InsertReading(q) ==
  /\ At(q, "insertReading")
  /\ Len(readings[job[q].vehicle]) < MaxRows
  /\ readings' = [readings EXCEPT ![job[q].vehicle] = Append(@, job[q].total)]
  /\ Leave(q)
  /\ UNCHANGED <<drivers, vehicles, assignments, shifts>>

---------------------------------------------------------------------------
\* assignDriver: the tanker, the driver, the tanker's current assignment, the driver's.
AssignDriver(q, v, d, replace) ==
  /\ vehicles[v] # None /\ vehicles[v].status # "RETIRED" /\ drivers[d] # None
  /\ Asks(q, [at |-> "assign:driver", vehicle |-> v, driver |-> d, replace |-> replace, current |-> 0])

CheckAssignment(q) ==
  /\ \/ At(q, "assign:driver") /\ Test(q, drivers[job[q].driver].employment = "ACTIVE", "assign:current")
     \/ /\ At(q, "assign:current")
        /\ LET current == assignmentsOf(job[q].vehicle)
           IN IF current = {}
              THEN Proceed(q, "assign:free")
              ELSE \E i \in current :
                     IF job[q].replace /\ assignments[i].driver # job[q].driver
                     THEN Goto(q, [job[q] EXCEPT !.at = "assign:free", !.current = i])
                     ELSE Leave(q)
     \/ At(q, "assign:free") /\ Test(q, ~isAssigned(job[q].driver), "assign")
  /\ UNCHANGED roster

\* Mutant: only the tanker's index is unique.
insertableOnVehicle(rows, v, d) == \A i \in DOMAIN rows : rows[i].released \/ rows[i].vehicle # v

\* One unreleased row per tanker and per driver, whatever was read before.
insertable(rows, v, d) ==
  \A i \in DOMAIN rows : rows[i].released \/ (rows[i].vehicle # v /\ rows[i].driver # d)

\* createAssignment, or replaceAssignment in one transaction.
WriteAssignment(q) ==
  /\ At(q, "assign")
  /\ Len(assignments) < MaxRows
  /\ LET rows == [i \in DOMAIN assignments |->
                    [assignments[i] EXCEPT !.released = @ \/ i = job[q].current]]
     IN assignments' = IF insertable(rows, job[q].vehicle, job[q].driver)
                       THEN Append(rows, [vehicle |-> job[q].vehicle, driver |-> job[q].driver, released |-> FALSE])
                       ELSE assignments
  /\ Leave(q)
  /\ UNCHANGED <<drivers, vehicles, shifts, readings>>

UnassignDriver(q, v) ==
  \E i \in assignmentsOf(v) : Asks(q, [at |-> "unassign:shift", vehicle |-> v, current |-> i])

CheckUnassignment(q) ==
  /\ At(q, "unassign:shift")
  /\ Test(q, ~vehicleHasOpenShift(job[q].vehicle), "release")
  /\ UNCHANGED roster

ReleaseAssignment(q) ==
  /\ At(q, "release")
  /\ assignments' = [assignments EXCEPT ![job[q].current].released = TRUE]
  /\ Leave(q)
  /\ UNCHANGED <<drivers, vehicles, shifts, readings>>

---------------------------------------------------------------------------
\* startShift, by an operator or (self) by the driver.
StartShift(q, d, v, n, self) ==
  /\ drivers[d] # None /\ vehicles[v] # None /\ mayDrive(d)
  /\ Asks(q, [at |-> "start:driver", driver |-> d, vehicle |-> v, total |-> n, self |-> self])

CheckStart(q) ==
  LET d == job[q].driver
      v == job[q].vehicle
  IN /\ \/ At(q, "start:driver") /\ Test(q, ~hasOpenShift(d), "start:usable")
        \/ At(q, "start:usable") /\ Test(q, assertVehicleUsableForShift(v), "start:vehicle")
        \/ At(q, "start:vehicle") /\ Test(q, ~vehicleHasOpenShift(v), "start:crew")
        \/ At(q, "start:crew") /\ Test(q, \E i \in assignmentsOf(v) : assignments[i].driver = d, "start:meter")
        \/ At(q, "start:meter") /\ Test(q, job[q].total >= findLatestReading(v), "open")
     /\ UNCHANGED roster

\* openShift, one transaction: the reading, the shift with its unique indexes, the driver online.
OpenShift(q) ==
  LET d == job[q].driver
      v == job[q].vehicle
  IN /\ At(q, "open")
     /\ Len(shifts) < MaxRows /\ Len(readings[v]) < MaxRows
     /\ IF hasOpenShift(d) \/ vehicleHasOpenShift(v)
        THEN Leave(q) /\ UNCHANGED <<shifts, readings, drivers>>
        ELSE /\ readings' = [readings EXCEPT ![v] = Append(@, job[q].total)]
             /\ shifts' = Append(shifts, [driver |-> d, vehicle |-> v, open |-> TRUE,
                                          opening |-> job[q].total, closing |-> None])
             /\ drivers' = [drivers EXCEPT ![d].availability = "ONLINE"]
             /\ IF job[q].self THEN Goto(q, [at |-> "setAvailability", driver |-> d, to |-> "ONLINE"])
                               ELSE Leave(q)
     /\ UNCHANGED <<vehicles, assignments>>

\* endShift: by the driver after the count of active orders, by an operator at once.
EndOwnShift(q, i, n) ==
  i \in openShifts /\ Asks(q, [at |-> "end:orders", shift |-> i, total |-> n, self |-> TRUE])

CheckNoOrders(q) ==
  /\ At(q, "end:orders")
  /\ \E active \in HoldsActiveOrder : Test(q, ~active, "end:shift")
  /\ UNCHANGED roster

EndShift(q, i, n) ==
  Asks(q, [at |-> "end:shift", shift |-> i, total |-> n, self |-> FALSE])

CheckEnd(q) ==
  /\ At(q, "end:shift")
  /\ Test(q, shifts[job[q].shift].open /\ job[q].total >= shifts[job[q].shift].opening, "close")
  /\ UNCHANGED roster

\* closeShift writes by id, without looking at the status again.
CloseShift(q) ==
  LET s == shifts[job[q].shift]
  IN /\ At(q, "close")
     /\ Len(readings[s.vehicle]) < MaxRows
     /\ readings' = [readings EXCEPT ![s.vehicle] = Append(@, job[q].total)]
     /\ shifts' = [shifts EXCEPT ![job[q].shift].open = FALSE, ![job[q].shift].closing = job[q].total]
     /\ drivers' = [drivers EXCEPT ![s.driver].availability = "OFFLINE"]
     /\ IF job[q].self THEN Goto(q, [at |-> "setAvailability", driver |-> s.driver, to |-> "OFFLINE"])
                       ELSE Leave(q)
     /\ UNCHANGED <<vehicles, assignments>>

---------------------------------------------------------------------------
\* driver-self's setAvailability.
AskAvailability(q, d, to) ==
  /\ drivers[d] # None /\ drivers[d].employment = "ACTIVE"
  /\ \E active \in HoldsActiveOrder :
       /\ to # "ONLINE" => ~active
       /\ Asks(q, [at |-> "availability:shift", driver |-> d, to |-> to])

CheckAvailability(q) ==
  /\ At(q, "availability:shift")
  /\ Test(q, hasOpenShift(job[q].driver) \/ job[q].to = "OFFLINE", "setAvailability")
  /\ UNCHANGED roster

SetAvailability(q) ==
  /\ At(q, "setAvailability")
  /\ drivers' = [drivers EXCEPT ![job[q].driver].availability = job[q].to]
  /\ Leave(q)
  /\ UNCHANGED <<vehicles, assignments, shifts, readings>>

RosterNext(q) ==
  \/ \E d \in Driver :
       \/ OnboardDriver(q, d)
       \/ \E to \in EmploymentStatus : UpdateDriverProfile(q, d, to)
       \/ \E to \in Availability : AskAvailability(q, d, to)
  \/ InsertDriver(q) \/ CheckDriverOffShift(q) \/ SetDriver(q)
  \/ CheckAvailability(q) \/ SetAvailability(q)
  \/ \E v \in Vehicle :
       \/ CreateVehicle(q, v) \/ UnassignDriver(q, v)
       \/ \E to \in VehicleStatus : UpdateVehicle(q, v, to)
       \/ \E n \in Totalizer : RecordMeterReading(q, v, n)
  \/ CheckVehicleOffShift(q) \/ SetVehicle(q) \/ InsertReading(q)
  \/ \E d \in Driver, v \in Vehicle :
       \/ \E replace \in BOOLEAN : AssignDriver(q, v, d, replace)
       \/ \E n \in Totalizer, self \in BOOLEAN : StartShift(q, d, v, n, self)
  \/ CheckAssignment(q) \/ WriteAssignment(q) \/ CheckUnassignment(q) \/ ReleaseAssignment(q)
  \/ CheckStart(q) \/ OpenShift(q)
  \/ \E i \in DOMAIN shifts, n \in Totalizer : EndOwnShift(q, i, n) \/ EndShift(q, i, n)
  \/ CheckNoOrders(q) \/ CheckEnd(q) \/ CloseShift(q)

\* A run begins with a fleet in service: its drivers hired, one of them
\* assigned and perhaps on a shift, or a driver and a tanker still to come.
RosterInit ==
  /\ \E d \in Driver, v \in Vehicle, assigned, onShift \in BOOLEAN :
       /\ assignments = IF assigned \/ onShift THEN <<[vehicle |-> v, driver |-> d, released |-> FALSE]>>
                                               ELSE << >>
       /\ shifts = IF onShift THEN <<[driver |-> d, vehicle |-> v, open |-> TRUE, opening |-> 0, closing |-> None]>>
                              ELSE << >>
       /\ readings = [w \in Vehicle |-> IF onShift /\ w = v THEN <<0>> ELSE << >>]
       /\ \E hired \in {Driver, {d}}, licensed \in BOOLEAN :
            drivers = [e \in Driver |->
              IF e \in hired THEN [employment |-> "ACTIVE", licensed |-> licensed,
                                   availability |-> IF onShift /\ e = d THEN "ONLINE" ELSE "OFFLINE"]
                             ELSE None]
       /\ \E bought \in {Vehicle, {v}}, papers \in BOOLEAN :
            vehicles = [w \in Vehicle |-> IF w \in bought THEN [status |-> "ACTIVE", papers |-> papers] ELSE None]

RosterSpec == RequestsInit /\ RosterInit /\ [][\E q \in Request : RosterNext(q)]_<<job, roster>>

RosterTypeOK ==
  /\ drivers \in [Driver -> DriverRow \cup {None}]
  /\ vehicles \in [Vehicle -> VehicleRow \cup {None}]
  /\ assignments \in Seq(AssignmentRow) /\ Len(assignments) <= MaxRows
  /\ shifts \in Seq(ShiftRow) /\ Len(shifts) <= MaxRows
  /\ readings \in [Vehicle -> Seq(Totalizer)]

---------------------------------------------------------------------------
\* INV-07, the assignment rules and BR-903: a tanker has at most one assigned
\* driver and one open shift, a driver at most one of each, and a shift only
\* ends at or above the reading it began with, however assignments, releases,
\* starts and two endings of one shift interleave.
OneCrew ==
  /\ \A i, j \in activeAssignments :
       i # j => assignments[i].vehicle # assignments[j].vehicle /\ assignments[i].driver # assignments[j].driver
  /\ \A i, j \in openShifts :
       i # j => shifts[i].vehicle # shifts[j].vehicle /\ shifts[i].driver # shifts[j].driver
  /\ \A i \in DOMAIN shifts :
       /\ shifts[i].open <=> shifts[i].closing = None
       /\ shifts[i].closing # None => shifts[i].closing >= shifts[i].opening
===============================================================================
