------------------------------ MODULE InventoryTx ------------------------------
(***************************************************************************)
(* The transactions behind FuelLedger: hold, settle and postAdjustment, each *)
(* a READ COMMITTED transaction that locks one vehicle_inventory row FOR     *)
(* UPDATE, and the dip reading, which reads that row before it locks it.     *)
(* What a transaction has not committed no other one sees; a transaction may *)
(* be rolled back at any point (its client's timeout, a lost connection).    *)
(***************************************************************************)
EXTENDS FuelLedger

CONSTANTS
  Tx,         \* database sessions of the process
  Observed,   \* litres a dip reading may report
  Operation   \* which operations the sessions run

ASSUME OperationAssumption == Operation \subseteq {"HOLD", "SETTLE", "ADJUST", "DIP"}

\* What a dip corrects is a movement the ledger may make.
ASSUME DipAssumption ==
  /\ Observed \subseteq Nat
  /\ \A v \in Vehicle : \A litres \in Observed, recorded \in 0 .. Capacity[v] :
       litres <= Capacity[v] /\ litres # recorded => litres - recorded \in Movement

VARIABLES
  job,        \* what each session is doing, with the values it has read
  logged      \* sum of the vehicle's inventory_adjustments

vars == <<reservation, current, held, job, logged>>

Idle == [op |-> "NONE", at |-> "end"]

TxInit == Init /\ job = [t \in Tx |-> Idle] /\ logged = [v \in Vehicle |-> 0]

\* SELECT ... FOR UPDATE: the row stays locked until the transaction ends.
HasLock(t, v) == job[t].at \in {"insert", "commit"} /\ job[t].vehicle = v

\* Mutant: a plain SELECT, which no lock stops.
RowRead(v) == v \in Vehicle

RowFree(v) == \A t \in Tx : ~ HasLock(t, v)

Begin(t, op, j) ==
  /\ op \in Operation
  /\ job[t] = Idle
  /\ job' = [job EXCEPT ![t] = j]
  /\ UNCHANGED <<reservation, current, held, logged>>

Proceed(t, at) ==
  /\ job' = [job EXCEPT ![t].at = at]
  /\ UNCHANGED <<reservation, current, held, logged>>

\* The transaction ends without effect: a refusal, a conflict or a rollback.
GiveUp(t) ==
  /\ job' = [job EXCEPT ![t] = Idle]
  /\ UNCHANGED <<reservation, current, held, logged>>

At(t, op, at) == job[t].op = op /\ job[t].at = at

-----------------------------------------------------------------------------
\* Bound: no more holds at once than there are row ids left.
RowsRemain ==
  Cardinality({r \in Reservation : reservation[r] = Absent}) >
    Cardinality({t \in Tx : job[t].op = "HOLD"})

BeginHold(t, o, v, q) ==
  /\ RowsRemain
  /\ Begin(t, "HOLD", [op |-> "HOLD", at |-> "lock", order |-> o, vehicle |-> v,
                       quantity |-> q])

\* Mutant: a transaction that finds too little fuel waits for some.
LockForHoldAndWait(t) ==
  /\ At(t, "HOLD", "lock")
  /\ RowFree(job[t].vehicle)
  /\ current[job[t].vehicle] - held[job[t].vehicle] >= job[t].quantity
  /\ Proceed(t, "insert")

\* The lock, and BR-406 on the figures read inside it.
LockForHold(t) ==
  /\ At(t, "HOLD", "lock")
  /\ RowFree(job[t].vehicle)
  /\ IF current[job[t].vehicle] - held[job[t].vehicle] >= job[t].quantity
       THEN Proceed(t, "insert")
       ELSE GiveUp(t)

\* Mutant: an insert does not wait for the row somebody else is about to commit.
KeyUnseen(t, o) == t \notin Tx /\ o \notin Order

\* Another session's uncommitted insert or settle of the order's live row: the
\* unique index makes an insert wait for it to end.
KeyPending(t, o) ==
  \E u \in Tx \ {t} :
    \/ At(u, "HOLD", "commit") /\ job[u].order = o
    \/ At(u, "SETTLE", "commit") /\ reservation[job[u].row].order = o

InsertReservation(t) ==
  /\ At(t, "HOLD", "insert")
  /\ ~ KeyPending(t, job[t].order)
  /\ IF ActiveFor(job[t].order) = {} THEN Proceed(t, "commit") ELSE GiveUp(t)

\* held_quantity = held_quantity + q is computed by the database, then COMMIT.
CommitHold(t) ==
  /\ At(t, "HOLD", "commit")
  /\ \E r \in Reservation :
       /\ reservation[r] = Absent
       /\ reservation' = [reservation EXCEPT ![r] =
                            HeldRow(job[t].order, job[t].vehicle, job[t].quantity)]
  /\ held' = [held EXCEPT ![job[t].vehicle] = @ + job[t].quantity]
  /\ job' = [job EXCEPT ![t] = Idle]
  /\ UNCHANGED <<current, logged>>

-----------------------------------------------------------------------------
\* settle reads the reservation to learn its vehicle, then locks that row.
BeginSettle(t, r, final) ==
  /\ reservation[r] # Absent
  /\ Begin(t, "SETTLE", [op |-> "SETTLE", at |-> "lock", row |-> r,
                         vehicle |-> reservation[r].vehicle, final |-> final])

\* Mutant: the claim is by id alone.
LockForSettleAgain(t) ==
  /\ At(t, "SETTLE", "lock")
  /\ RowFree(job[t].vehicle)
  /\ Proceed(t, "commit")

\* The claim: zero rows when the reservation is not HELD any more.
LockForSettle(t) ==
  /\ At(t, "SETTLE", "lock")
  /\ RowFree(job[t].vehicle)
  /\ IF HoldsFuel(job[t].row) THEN Proceed(t, "commit") ELSE GiveUp(t)

\* Mutant: every settled row is recorded as consumed.
CommitConsumed(t) ==
  /\ At(t, "SETTLE", "commit")
  /\ reservation' = [reservation EXCEPT ![job[t].row].status = "CONSUMED"]
  /\ held' = [held EXCEPT ![job[t].vehicle] =
                LessButNotNegative(@, reservation[job[t].row].quantity)]
  /\ job' = [job EXCEPT ![t] = Idle]
  /\ UNCHANGED <<current, logged>>

CommitSettle(t) ==
  /\ At(t, "SETTLE", "commit")
  /\ reservation' = [reservation EXCEPT ![job[t].row].status = job[t].final]
  /\ held' = [held EXCEPT ![job[t].vehicle] =
                LessButNotNegative(@, reservation[job[t].row].quantity)]
  /\ job' = [job EXCEPT ![t] = Idle]
  /\ UNCHANGED <<current, logged>>

-----------------------------------------------------------------------------
AdjustJob(v, delta, seen) ==
  [op |-> "ADJUST", at |-> "lock", vehicle |-> v, delta |-> delta, after |-> 0, seen |-> seen]

\* recordRefill and recordManualAdjustment: the delta is the caller's.
BeginAdjust(t, v, delta) == Begin(t, "ADJUST", AdjustJob(v, delta, {}))

\* recordDipReading: the delta is what was seen less what is recorded, read
\* outside any lock.  A dip that agrees moves nothing.
BeginDip(t, v, litres) ==
  /\ litres <= Capacity[v]
  /\ litres # current[v]
  /\ Begin(t, "DIP", AdjustJob(v, litres - current[v], {litres}))

\* Mutant: the capacity of the tank is not checked.
LockForOverfill(t) ==
  /\ At(t, "ADJUST", "lock")
  /\ RowFree(job[t].vehicle)
  /\ LET after == current[job[t].vehicle] + job[t].delta
     IN  IF after >= 0
           THEN /\ job' = [job EXCEPT ![t].at = "commit", ![t].after = after]
                /\ UNCHANGED <<reservation, current, held, logged>>
           ELSE GiveUp(t)

LockForAdjust(t) ==
  /\ At(t, "ADJUST", "lock")
  /\ RowFree(job[t].vehicle)
  /\ LET v == job[t].vehicle
         after == current[v] + job[t].delta
     IN  IF after \in 0 .. Capacity[v]
           THEN /\ job' = [job EXCEPT ![t].at = "commit", ![t].after = after]
                /\ UNCHANGED <<reservation, current, held, logged>>
           ELSE GiveUp(t)

\* The log row and the new quantity, which the service computed from the locked
\* read; vehicle_inventory_held_within_current may still refuse it.
CommitAdjust(t) ==
  /\ At(t, "ADJUST", "commit")
  /\ LET v == job[t].vehicle
     IN  IF held[v] <= job[t].after
           THEN /\ current' = [current EXCEPT ![v] = job[t].after]
                /\ logged' = [logged EXCEPT ![v] = @ + job[t].delta]
                /\ job' = [job EXCEPT ![t] = Idle]
                /\ UNCHANGED <<reservation, held>>
           ELSE GiveUp(t)

\* The transaction timeout of the client, or the loss of the process.
Rollback(t) == job[t] # Idle /\ GiveUp(t)

-----------------------------------------------------------------------------
Lock(t) == LockForHold(t) \/ LockForSettle(t) \/ LockForAdjust(t)
Commit(t) == CommitHold(t) \/ CommitSettle(t) \/ CommitAdjust(t)

TxNext ==
  \E t \in Tx :
    \/ \E o \in Order, v \in Vehicle, q \in Quantity : BeginHold(t, o, v, q)
    \/ \E r \in Reservation, final \in SettledStatus : BeginSettle(t, r, final)
    \/ \E v \in Vehicle, delta \in Movement : BeginAdjust(t, v, delta)
    \/ \E v \in Vehicle, litres \in Observed : BeginDip(t, v, litres)
    \/ Lock(t) \/ InsertReservation(t) \/ Commit(t) \/ Rollback(t)

\* The database queues the waiters of a row lock and of a unique key, so a
\* session that is let through again and again is served (SF); a transaction
\* that waits for nothing goes on (WF).  No request has to arrive.
TxSpec ==
  /\ TxInit
  /\ [][TxNext]_vars
  /\ \A t \in Tx : SF_vars(Lock(t)) /\ SF_vars(InsertReservation(t)) /\ WF_vars(Commit(t))

-----------------------------------------------------------------------------
\* Committed columns keep their shape, and a job is at a stage of its operation.
TxTypeOK ==
  /\ TypeOK
  /\ logged \in [Vehicle -> Int]
  /\ \A t \in Tx : job[t].op \in {"NONE", "HOLD", "SETTLE", "ADJUST"}
                   /\ job[t].at \in {"end", "lock", "insert", "commit"}

\* The committed state moves only as the ledger promises: whatever the sessions
\* interleave and wherever one is rolled back, each commit is one atomic hold,
\* settle or movement whose guard is true of the state it is applied to.
ImplementsLedger == Spec

\* reconcileInventory: the cached quantity is the opening stock and the sum of
\* the movement log, so no movement is lost to a concurrent one.
CacheIsLogSum == \A v \in Vehicle : current[v] = Opening[v] + logged[v]

\* No two sessions wait on each other: a transaction that has begun ends, even
\* if nothing is ever rolled back.
EveryTransactionEnds == \A t \in Tx : job[t] # Idle ~> job[t] = Idle

\* recordDipReading says the observed figure is authoritative: when the movement
\* of a dip is posted, the recorded quantity is what was seen in the tank.
DipIsAuthoritative ==
  [][\A t \in Tx :
       CommitAdjust(t) /\ logged' # logged =>
         \A litres \in job[t].seen : current'[job[t].vehicle] = litres]_vars
================================================================================
