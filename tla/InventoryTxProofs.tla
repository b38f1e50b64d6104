--------------------------- MODULE InventoryTxProofs ---------------------------
(***************************************************************************)
(* The transactions implement the ledger, for any number of sessions: what   *)
(* a transaction read inside its lock is still so when it commits.           *)
(***************************************************************************)
EXTENDS InventoryTx, FuelLedgerProofs

\* What a session carries through its transaction.
HoldJob   == [op : {"HOLD"}, at : {"lock", "insert", "commit"}, order : Order, vehicle : Vehicle,
              quantity : Quantity]
SettleJob == [op : {"SETTLE"}, at : {"lock", "commit"}, row : Reservation, vehicle : Vehicle,
              final : SettledStatus]
MoveJob   == [op : {"ADJUST"}, at : {"lock", "commit"}, vehicle : Vehicle, delta : Movement,
              after : Int, seen : SUBSET Observed]

TxJob == UNION {{Idle}, HoldJob, SettleJob, MoveJob}

\* What it read is still so: nobody else has written its tanker, and a row once
\* inserted keeps its tanker.
Current(j) ==
  /\ j \in HoldJob /\ j.at # "lock" => current[j.vehicle] - held[j.vehicle] >= j.quantity
  /\ j \in HoldJob /\ j.at = "commit" => ActiveFor(j.order) = {}
  /\ j \in SettleJob => reservation[j.row] # Absent /\ reservation[j.row].vehicle = j.vehicle
  /\ j \in SettleJob /\ j.at = "commit" => HoldsFuel(j.row)
  /\ j \in MoveJob /\ j.at = "commit" =>
       j.after = current[j.vehicle] + j.delta /\ j.after \in 0 .. Capacity[j.vehicle]

\* FOR UPDATE, and the unique index on the live row of an order.
OneLockHolder == \A t, u \in Tx, v \in Vehicle : HasLock(t, v) /\ HasLock(u, v) => t = u

OneInserter ==
  \A t, u \in Tx :
    At(t, "HOLD", "commit") /\ At(u, "HOLD", "commit") /\ job[t].order = job[u].order => t = u

TxIInv ==
  /\ IInv
  /\ logged \in [Vehicle -> Int]
  /\ job \in [Tx -> TxJob]
  /\ \A t \in Tx : Current(job[t])
  /\ OneLockHolder
  /\ OneInserter
  /\ CacheIsLogSum

-----------------------------------------------------------------------------
\* The stage of a session tells what it carries.
LEMMA JobAtStage ==
  ASSUME NEW j \in TxJob
  PROVE  /\ j.op = "HOLD" <=> j \in HoldJob
         /\ j.op = "SETTLE" <=> j \in SettleJob
         /\ j.op = "ADJUST" <=> j \in MoveJob
         /\ j.at \in {"insert", "commit"} => j.vehicle \in Vehicle
         /\ j \in HoldJob \union SettleJob \union MoveJob => j.vehicle \in Vehicle
         /\ j = Idle => j \notin HoldJob \union SettleJob \union MoveJob /\ j.at = "end"
         /\ j # Idle => j \in HoldJob \union SettleJob \union MoveJob
BY DEF TxJob, Idle, HoldJob, SettleJob, MoveJob

\* A step that commits nothing: the session takes a lock nobody holds, or keeps
\* the one it has, and what it carries on is so.
LEMMA QuietStep ==
  ASSUME TxIInv, NEW t \in Tx, NEW j \in TxJob, Current(j),
         job' = [job EXCEPT ![t] = j],
         UNCHANGED <<reservation, current, held, logged>>,
         j.at \in {"insert", "commit"} => HasLock(t, j.vehicle) \/ RowFree(j.vehicle),
         j.op = "HOLD" /\ j.at = "commit" =>
           \A u \in Tx \ {t} : ~ (At(u, "HOLD", "commit") /\ job[u].order = j.order)
  PROVE  TxIInv'
<1>1. job' \in [Tx -> TxJob] /\ \A u \in Tx : job'[u] = IF u = t THEN j ELSE job[u]
  BY DEF TxIInv
<1>2. IInv'
  BY StepIInv DEF TxIInv, ledger
<1>3. \A u \in Tx : Current(job[u])'
  <2>1. \A u \in Tx : Current(job'[u])
    BY <1>1 DEF TxIInv
  <2> QED
    BY <2>1 DEF Current, ActiveFor, HoldsFuel
<1>4. OneLockHolder'
  <2> SUFFICES ASSUME NEW u \in Tx, NEW w \in Tx, NEW v \in Vehicle, HasLock(u, v)', HasLock(w, v)'
               PROVE  u = w
    BY DEF OneLockHolder
  <2>1. ASSUME NEW s \in Tx, s # t PROVE HasLock(s, v)' <=> HasLock(s, v)
    BY <1>1, <2>1 DEF HasLock
  <2>2. HasLock(t, v)' => HasLock(t, v) \/ RowFree(v)
    BY <1>1 DEF HasLock
  <2> QED
    BY <2>1, <2>2 DEF RowFree, TxIInv, OneLockHolder
<1>5. OneInserter'
  BY <1>1 DEF TxIInv, OneInserter, At
<1>6. CacheIsLogSum'
  BY DEF TxIInv, CacheIsLogSum
<1> QED
  BY <1>1, <1>2, <1>3, <1>4, <1>5, <1>6 DEF TxIInv

\* A session that gives up carries nothing.
LEMMA GiveUpStep ==
  ASSUME TxIInv, NEW t \in Tx, GiveUp(t)
  PROVE  TxIInv'
<1>1. Idle \in TxJob /\ Current(Idle)
  BY JobAtStage DEF TxJob, Current
<1>2. Idle.op # "HOLD" /\ Idle.at \notin {"insert", "commit"}
  BY DEF Idle
<1> QED
  BY <1>1, <1>2, QuietStep DEF GiveUp

-----------------------------------------------------------------------------
\* The first statements: no lock is held.
LEMMA BeginStep ==
  ASSUME TxIInv, NEW t \in Tx,
         \/ \E o \in Order, v \in Vehicle, q \in Quantity : BeginHold(t, o, v, q)
         \/ \E r \in Reservation, final \in SettledStatus : BeginSettle(t, r, final)
         \/ \E v \in Vehicle, delta \in Movement : BeginAdjust(t, v, delta)
         \/ \E v \in Vehicle, litres \in Observed : BeginDip(t, v, litres)
  PROVE  TxIInv'
<1>1. ASSUME NEW o \in Order, NEW v \in Vehicle, NEW q \in Quantity, BeginHold(t, o, v, q) PROVE TxIInv'
  <2> DEFINE j == [op |-> "HOLD", at |-> "lock", order |-> o, vehicle |-> v, quantity |-> q]
  <2>1. j \in TxJob /\ j.at = "lock" /\ j \notin SettleJob \union MoveJob
    BY DEF TxJob, HoldJob, SettleJob, MoveJob
  <2>2. job' = [job EXCEPT ![t] = j] /\ UNCHANGED <<reservation, current, held, logged>>
    BY <1>1 DEF BeginHold, Begin
  <2> HIDE DEF j
  <2> QED
    BY <2>1, <2>2, QuietStep DEF Current
<1>2. ASSUME NEW r \in Reservation, NEW final \in SettledStatus, BeginSettle(t, r, final) PROVE TxIInv'
  <2> DEFINE j == [op |-> "SETTLE", at |-> "lock", row |-> r, vehicle |-> reservation[r].vehicle, final |-> final]
  <2>1. reservation[r] # Absent /\ reservation[r] \in ReservationRow
    BY <1>2 DEF BeginSettle, TxIInv, IInv, TypeOK
  <2>2. /\ j \in TxJob /\ j.op = "SETTLE" /\ j.at = "lock" /\ j.row = r /\ j.vehicle = reservation[r].vehicle
        /\ j \notin HoldJob \union MoveJob
    BY <2>1 DEF TxJob, HoldJob, SettleJob, MoveJob, ReservationRow
  <2>3. job' = [job EXCEPT ![t] = j] /\ UNCHANGED <<reservation, current, held, logged>>
    BY <1>2 DEF BeginSettle, Begin
  <2> HIDE DEF j
  <2> QED
    BY <2>1, <2>2, <2>3, QuietStep DEF Current
<1>3. ASSUME NEW v \in Vehicle, NEW delta \in Movement, NEW seen \in SUBSET Observed,
             job' = [job EXCEPT ![t] = AdjustJob(v, delta, seen)],
             UNCHANGED <<reservation, current, held, logged>>
      PROVE  TxIInv'
  <2> DEFINE j == AdjustJob(v, delta, seen)
  <2>1. j \in TxJob /\ j.op = "ADJUST" /\ j.at = "lock" /\ j \notin HoldJob \union SettleJob
    BY DEF TxJob, HoldJob, SettleJob, MoveJob, AdjustJob
  <2> HIDE DEF j
  <2> QED
    BY <1>3, <2>1, QuietStep DEF Current, j
<1>4. ASSUME NEW v \in Vehicle, NEW delta \in Movement, BeginAdjust(t, v, delta) PROVE TxIInv'
  <2>1. job' = [job EXCEPT ![t] = AdjustJob(v, delta, {})] /\ UNCHANGED <<reservation, current, held, logged>>
    BY <1>4 DEF BeginAdjust, Begin
  <2>2. {} \in SUBSET Observed
    OBVIOUS
  <2> QED
    BY <1>3, <2>1, <2>2
<1>5. ASSUME NEW v \in Vehicle, NEW litres \in Observed, BeginDip(t, v, litres) PROVE TxIInv'
  <2>1. current[v] \in 0 .. Capacity[v]
    BY CapacityAssumption DEF TxIInv, IInv, TypeOK, NothingPromisedTwice
  <2>2. litres - current[v] \in Movement
    BY <1>5, <2>1, DipAssumption DEF BeginDip
  <2>3. /\ job' = [job EXCEPT ![t] = AdjustJob(v, litres - current[v], {litres})]
        /\ UNCHANGED <<reservation, current, held, logged>>
    BY <1>5 DEF BeginDip, Begin
  <2>4. {litres} \in SUBSET Observed
    OBVIOUS
  <2> QED
    BY <1>3, <2>2, <2>3, <2>4
<1> QED
  BY <1>1, <1>2, <1>4, <1>5

\* The locks, and what is read inside them.
LEMMA LockStep ==
  ASSUME TxIInv, NEW t \in Tx, Lock(t) \/ InsertReservation(t)
  PROVE  TxIInv'
<1> DEFINE j == job[t]
<1>1. j \in TxJob /\ Current(j)
  BY DEF TxIInv
<1>2. CASE GiveUp(t)
  BY <1>2, GiveUpStep
<1>3. CASE LockForHold(t) /\ ~ GiveUp(t)
  <2> DEFINE k == [j EXCEPT !.at = "insert"]
  <2>1. j \in HoldJob /\ RowFree(j.vehicle) /\ current[j.vehicle] - held[j.vehicle] >= j.quantity
    BY <1>1, <1>3, JobAtStage DEF LockForHold, At
  <2>2. job' = [job EXCEPT ![t] = k] /\ UNCHANGED <<reservation, current, held, logged>>
    BY <1>3 DEF LockForHold, Proceed, TxIInv
  <2>3. /\ k \in HoldJob /\ k.at = "insert" /\ k.vehicle = j.vehicle /\ k.quantity = j.quantity
        /\ k \notin SettleJob \union MoveJob
    BY <2>1 DEF HoldJob, SettleJob, MoveJob
  <2> HIDE DEF k
  <2> QED
    BY <2>1, <2>2, <2>3, QuietStep DEF Current, TxJob
<1>4. CASE InsertReservation(t) /\ ~ GiveUp(t)
  <2> DEFINE k == [j EXCEPT !.at = "commit"]
  <2>1. j \in HoldJob /\ j.at = "insert" /\ HasLock(t, j.vehicle) /\ ActiveFor(j.order) = {}
    BY <1>1, <1>4, JobAtStage DEF InsertReservation, At, HasLock
  <2>2. job' = [job EXCEPT ![t] = k] /\ UNCHANGED <<reservation, current, held, logged>>
    BY <1>4 DEF InsertReservation, Proceed, TxIInv
  <2>3. /\ k \in HoldJob /\ k.at = "commit" /\ k.vehicle = j.vehicle /\ k.quantity = j.quantity
        /\ k.order = j.order /\ k \notin SettleJob \union MoveJob
    BY <2>1 DEF HoldJob, SettleJob, MoveJob
  <2>4. \A u \in Tx \ {t} : ~ (At(u, "HOLD", "commit") /\ job[u].order = j.order)
    BY <1>4 DEF InsertReservation, KeyPending
  <2>5. current[j.vehicle] - held[j.vehicle] >= j.quantity
    BY <1>1, <2>1 DEF Current
  <2> HIDE DEF k
  <2> QED
    BY <2>1, <2>2, <2>3, <2>4, <2>5, QuietStep DEF Current, TxJob
<1>5. CASE LockForSettle(t) /\ ~ GiveUp(t)
  <2> DEFINE k == [j EXCEPT !.at = "commit"]
  <2>1. j \in SettleJob /\ RowFree(j.vehicle) /\ HoldsFuel(j.row)
    BY <1>1, <1>5, JobAtStage DEF LockForSettle, At
  <2>2. job' = [job EXCEPT ![t] = k] /\ UNCHANGED <<reservation, current, held, logged>>
    BY <1>5 DEF LockForSettle, Proceed, TxIInv
  <2>3. /\ k \in SettleJob /\ k.op = "SETTLE" /\ k.at = "commit" /\ k.vehicle = j.vehicle /\ k.row = j.row
        /\ k \notin HoldJob \union MoveJob
    BY <2>1 DEF HoldJob, SettleJob, MoveJob
  <2>4. reservation[j.row] # Absent /\ reservation[j.row].vehicle = j.vehicle
    BY <1>1, <2>1 DEF Current
  <2> HIDE DEF k
  <2> QED
    BY <2>1, <2>2, <2>3, <2>4, QuietStep DEF Current, TxJob
<1>6. CASE LockForAdjust(t) /\ ~ GiveUp(t)
  <2> DEFINE after == current[j.vehicle] + j.delta
             k == [j EXCEPT !.at = "commit", !.after = after]
  <2>1. j \in MoveJob /\ RowFree(j.vehicle) /\ after \in 0 .. Capacity[j.vehicle]
    BY <1>1, <1>6, JobAtStage DEF LockForAdjust, At
  <2>2. job' = [job EXCEPT ![t] = k] /\ UNCHANGED <<reservation, current, held, logged>>
    BY <1>6 DEF LockForAdjust, TxIInv
  <2>3. after \in Int
    BY <2>1, CapacityAssumption DEF MoveJob
  <2>4. /\ k \in MoveJob /\ k.op = "ADJUST" /\ k.at = "commit" /\ k.vehicle = j.vehicle /\ k.delta = j.delta
        /\ k.after = after /\ k \notin HoldJob \union SettleJob
    BY <2>1, <2>3 DEF HoldJob, SettleJob, MoveJob
  <2> HIDE DEF k
  <2> QED
    BY <2>1, <2>2, <2>4, QuietStep DEF Current, TxJob
<1> QED
  BY <1>2, <1>3, <1>4, <1>5, <1>6 DEF Lock

-----------------------------------------------------------------------------
\* A commit is a step of the ledger on the tanker the session has locked, so
\* what the sessions that hold another lock have read is untouched.
LEMMA CommitKeeps ==
  ASSUME TxIInv, NEW t \in Tx, NEW v \in Vehicle, HasLock(t, v),
         job' = [job EXCEPT ![t] = Idle],
         [Next]_ledger, logged' \in [Vehicle -> Int], CacheIsLogSum',
         \A w \in Vehicle \ {v} : current'[w] = current[w] /\ held'[w] = held[w],
         \A r \in Reservation : reservation[r] # Absent =>
            /\ reservation'[r] # Absent /\ reservation'[r].vehicle = reservation[r].vehicle
            /\ reservation[r].vehicle # v => reservation'[r] = reservation[r],
         \A u \in Tx \ {t} : At(u, "HOLD", "commit") => ActiveFor(job[u].order)' = {}
  PROVE  TxIInv'
<1>1. job' \in [Tx -> TxJob] /\ \A u \in Tx : job'[u] = IF u = t THEN Idle ELSE job[u]
  BY DEF TxIInv, TxJob
<1>2. IInv'
  BY StepIInv DEF TxIInv
<1>3. ASSUME NEW u \in Tx PROVE Current(job[u])'
  <2>1. CASE u = t
    BY <1>1, <2>1, JobAtStage DEF Current, TxJob
  <2>2. CASE u # t
    <3> DEFINE j == job[u]
    <3>1. job'[u] = j /\ j \in TxJob /\ Current(j)
      BY <1>1, <2>2 DEF TxIInv
    <3>2. j.at \in {"insert", "commit"} => j.vehicle \in Vehicle \ {v}
      BY <2>2, <3>1, JobAtStage DEF HasLock, TxIInv, OneLockHolder
    <3>3. j \in HoldJob => j.at \in {"lock", "insert", "commit"} /\ j.op = "HOLD"
      BY DEF HoldJob
    <3>4. j \in SettleJob => j.row \in Reservation
      BY DEF SettleJob
    <3>5. \/ j.at \notin {"insert", "commit"}
          \/ current'[j.vehicle] = current[j.vehicle] /\ held'[j.vehicle] = held[j.vehicle]
      BY <3>2
    <3>6. j \in HoldJob /\ j.at = "commit" => ActiveFor(j.order)' = {}
      BY <2>2, <3>3 DEF At
    <3>7. j \in SettleJob => reservation'[j.row] # Absent /\ reservation'[j.row].vehicle = j.vehicle
      BY <3>1, <3>4 DEF Current
    <3>8. j \in SettleJob /\ j.at = "commit" => HoldsFuel(j.row) /\ reservation'[j.row] = reservation[j.row]
      BY <3>1, <3>2, <3>4 DEF Current
    <3> QED
      BY <3>1, <3>3, <3>5, <3>6, <3>7, <3>8 DEF Current, HoldsFuel
  <2> QED
    BY <2>1, <2>2
<1>4. OneLockHolder' /\ OneInserter'
  <2>1. Idle.at # "insert" /\ Idle.at # "commit"
    BY DEF Idle
  <2> QED
    BY <1>1, <2>1 DEF TxIInv, OneLockHolder, OneInserter, HasLock, At
<1> QED
  BY <1>1, <1>2, <1>3, <1>4 DEF TxIInv

LEMMA CommitHoldStep ==
  ASSUME TxIInv, NEW t \in Tx, CommitHold(t)
  PROVE  TxIInv' /\ [Next]_ledger
<1> DEFINE j == job[t]
<1>1. j \in HoldJob /\ j.at = "commit" /\ Current(j) /\ HasLock(t, j.vehicle)
  BY JobAtStage DEF CommitHold, At, TxIInv, HasLock
<1>2. /\ j.vehicle \in Vehicle /\ j.order \in Order /\ j.quantity \in Quantity
      /\ current[j.vehicle] - held[j.vehicle] >= j.quantity /\ ActiveFor(j.order) = {}
  BY <1>1 DEF HoldJob, Current
<1>3. PICK r \in Reservation : /\ reservation[r] = Absent
                               /\ reservation' = [reservation EXCEPT ![r] = HeldRow(j.order, j.vehicle, j.quantity)]
  BY DEF CommitHold
<1>4. held' = [held EXCEPT ![j.vehicle] = @ + j.quantity] /\ UNCHANGED <<current, logged>>
  BY DEF CommitHold
<1>5. Hold(r, j.order, j.vehicle, j.quantity)
  BY <1>2, <1>3, <1>4 DEF Hold
<1>6. [Next]_ledger
  BY <1>2, <1>5 DEF Next
<1>7. \A s \in Reservation \ {r} : reservation'[s] = reservation[s]
  BY <1>3 DEF TxIInv, IInv, TypeOK
<1>8. reservation'[r] = HeldRow(j.order, j.vehicle, j.quantity)
  BY <1>3 DEF TxIInv, IInv, TypeOK
<1>9. \A w \in Vehicle \ {j.vehicle} : current'[w] = current[w] /\ held'[w] = held[w]
  BY <1>4 DEF TxIInv, IInv, TypeOK
<1>10. ASSUME NEW u \in Tx \ {t}, At(u, "HOLD", "commit") PROVE ActiveFor(job[u].order)' = {}
  <2>1. job[u] \in HoldJob /\ ActiveFor(job[u].order) = {} /\ job[u].order # j.order
    BY <1>1, <1>10, JobAtStage DEF At, TxIInv, Current, OneInserter, HoldJob
  <2>2. job'[u] = job[u]
    BY DEF CommitHold, TxIInv
  <2> QED
    BY <1>7, <1>8, <2>1, <2>2 DEF ActiveFor, HoldsFuel, HeldRow
<1>11. job' = [job EXCEPT ![t] = Idle]
  BY DEF CommitHold
<1>12. logged' \in [Vehicle -> Int] /\ CacheIsLogSum'
  BY <1>4 DEF TxIInv, CacheIsLogSum
<1> QED
  BY <1>1, <1>2, <1>3, <1>6, <1>7, <1>9, <1>10, <1>11, <1>12, CommitKeeps

LEMMA CommitSettleStep ==
  ASSUME TxIInv, NEW t \in Tx, CommitSettle(t)
  PROVE  TxIInv' /\ [Next]_ledger
<1> DEFINE j == job[t]
           r == j.row
<1>1. j \in SettleJob /\ Current(j) /\ j.at = "commit" /\ HasLock(t, j.vehicle)
  BY JobAtStage DEF CommitSettle, At, TxIInv, HasLock
<1>2. /\ j.vehicle \in Vehicle /\ r \in Reservation /\ j.final \in SettledStatus
      /\ HoldsFuel(r) /\ reservation[r].vehicle = j.vehicle
  BY <1>1 DEF SettleJob, Current
<1>3. /\ reservation' = [reservation EXCEPT ![r].status = j.final]
      /\ held' = [held EXCEPT ![j.vehicle] = LessButNotNegative(@, reservation[r].quantity)]
      /\ UNCHANGED <<current, logged>>
      /\ job' = [job EXCEPT ![t] = Idle]
  BY DEF CommitSettle
<1>4. Settle(r, j.final)
  BY <1>2, <1>3 DEF Settle
<1>5. [Next]_ledger
  BY <1>2, <1>4 DEF Next
<1>6. reservation[r] \in ReservationRow
  BY <1>2 DEF TxIInv, IInv, TypeOK, HoldsFuel, Absent
<1>7. /\ reservation'[r] = [reservation[r] EXCEPT !.status = j.final]
      /\ \A s \in Reservation \ {r} : reservation'[s] = reservation[s]
  BY <1>2, <1>3 DEF TxIInv, IInv, TypeOK
<1>8. reservation'[r] \in ReservationRow /\ reservation'[r].vehicle = j.vehicle
      /\ reservation'[r].status = j.final /\ reservation'[r].order = reservation[r].order
  BY <1>2, <1>6, <1>7 DEF ReservationRow
<1>9. \A s \in Reservation : reservation[s] # Absent =>
        /\ reservation'[s] # Absent /\ reservation'[s].vehicle = reservation[s].vehicle
        /\ reservation[s].vehicle # j.vehicle => reservation'[s] = reservation[s]
  <2>1. j.final # "ABSENT"
    BY <1>2 DEF SettledStatus
  <2>2. reservation'[r] # Absent
    BY <1>8, <2>1 DEF Absent
  <2> QED
    BY <1>2, <1>7, <1>8, <2>2
<1>10. \A w \in Vehicle \ {j.vehicle} : current'[w] = current[w] /\ held'[w] = held[w]
  BY <1>3 DEF TxIInv, IInv, TypeOK
<1>11. ASSUME NEW u \in Tx \ {t}, At(u, "HOLD", "commit") PROVE ActiveFor(job[u].order)' = {}
  <2>1. job[u] \in HoldJob /\ ActiveFor(job[u].order) = {}
    BY <1>11, JobAtStage DEF At, TxIInv, Current, HoldJob
  <2>2. job'[u] = job[u]
    BY <1>3 DEF TxIInv
  <2>3. \A s \in Reservation : reservation'[s].status = "HELD" =>
          reservation[s].status = "HELD" /\ reservation'[s].order = reservation[s].order
    BY <1>2, <1>7, <1>8 DEF HoldsFuel, SettledStatus
  <2> QED
    BY <2>1, <2>2, <2>3 DEF ActiveFor, HoldsFuel
<1>12. logged' \in [Vehicle -> Int] /\ CacheIsLogSum'
  BY <1>3 DEF TxIInv, CacheIsLogSum
<1> QED
  BY <1>1, <1>2, <1>3, <1>5, <1>9, <1>10, <1>11, <1>12, CommitKeeps

\* The movement is logged with the quantity it leaves, or refused as a whole.
LEMMA CommitAdjustStep ==
  ASSUME TxIInv, NEW t \in Tx, CommitAdjust(t)
  PROVE  TxIInv' /\ [Next]_ledger
<1> DEFINE j == job[t]
           v == j.vehicle
<1>1. j \in MoveJob /\ Current(j) /\ j.at = "commit" /\ HasLock(t, v)
  BY JobAtStage DEF CommitAdjust, At, TxIInv, HasLock
<1>2. /\ v \in Vehicle /\ j.delta \in Movement /\ j.delta \in Int
      /\ j.after = current[v] + j.delta /\ j.after \in 0 .. Capacity[v]
  BY <1>1, MovementAssumption DEF MoveJob, Current
<1>3. CASE GiveUp(t)
  BY <1>3, GiveUpStep DEF GiveUp, ledger
<1>4. CASE ~ GiveUp(t)
  <2>1. /\ held[v] <= j.after
        /\ current' = [current EXCEPT ![v] = j.after]
        /\ logged' = [logged EXCEPT ![v] = @ + j.delta]
        /\ job' = [job EXCEPT ![t] = Idle]
        /\ UNCHANGED <<reservation, held>>
    BY <1>4 DEF CommitAdjust
  <2>2. Adjust(v, j.delta)
    BY <1>2, <2>1 DEF Adjust
  <2>3. [Next]_ledger
    BY <1>2, <2>2 DEF Next
  <2>4. logged' \in [Vehicle -> Int]
    BY <1>2, <2>1 DEF TxIInv
  <2>5. CacheIsLogSum'
    <3>1. ASSUME NEW w \in Vehicle PROVE current'[w] = Opening[w] + logged'[w]
      <4>1. current[w] = Opening[w] + logged[w] /\ Opening[w] \in Int /\ logged[w] \in Int
        BY OpeningAssumption DEF TxIInv, CacheIsLogSum
      <4>2. CASE w = v
        BY <1>2, <2>1, <4>1, <4>2 DEF TxIInv, IInv, TypeOK
      <4>3. CASE w # v
        BY <2>1, <4>1, <4>3 DEF TxIInv, IInv, TypeOK
      <4> QED
        BY <4>2, <4>3
    <3> QED
      BY <3>1 DEF CacheIsLogSum
  <2>6. \A w \in Vehicle \ {v} : current'[w] = current[w] /\ held'[w] = held[w]
    BY <2>1 DEF TxIInv, IInv, TypeOK
  <2>7. \A u \in Tx \ {t} : At(u, "HOLD", "commit") => ActiveFor(job[u].order)' = {}
    <3>1. \A u \in Tx \ {t} : job'[u] = job[u]
      BY <2>1 DEF TxIInv
    <3>2. \A u \in Tx : At(u, "HOLD", "commit") => ActiveFor(job[u].order) = {}
      BY JobAtStage DEF At, TxIInv, Current
    <3> QED
      BY <2>1, <3>1, <3>2 DEF ActiveFor, HoldsFuel
  <2> QED
    BY <1>1, <1>2, <2>1, <2>3, <2>4, <2>5, <2>6, <2>7, CommitKeeps
<1> QED
  BY <1>3, <1>4

-----------------------------------------------------------------------------
LEMMA TxInitially == TxInit => TxIInv
<1> SUFFICES ASSUME TxInit PROVE TxIInv
  OBVIOUS
<1>1. IInv
  BY InitIInv DEF TxInit
<1>2. job \in [Tx -> TxJob] /\ \A t \in Tx : job[t] = Idle
  BY DEF TxInit, TxJob
<1>3. \A t \in Tx : Current(job[t])
  BY <1>2, JobAtStage DEF Current, TxJob
<1>4. OneLockHolder /\ OneInserter
  BY <1>2 DEF OneLockHolder, OneInserter, HasLock, At, Idle
<1>5. logged \in [Vehicle -> Int] /\ CacheIsLogSum
  BY OpeningAssumption DEF TxInit, Init, CacheIsLogSum
<1> QED
  BY <1>1, <1>2, <1>3, <1>4, <1>5 DEF TxIInv

\* Every step keeps the invariant and is a step of the ledger or none.
LEMMA TxStep == TxIInv /\ [TxNext]_vars => TxIInv' /\ [Next]_ledger
<1> SUFFICES ASSUME TxIInv, [TxNext]_vars PROVE TxIInv' /\ [Next]_ledger
  OBVIOUS
<1>1. CASE UNCHANGED vars
  BY <1>1 DEF vars, ledger, TxIInv, IInv, TypeOK, PromisesFinite, HeldIsSumOfReservations, NothingPromisedTwice,
              OneReservationPerOrder, PromisedLitres, HeldOn, HoldsFuel, Current, ActiveFor, OneLockHolder,
              HasLock, OneInserter, At, CacheIsLogSum
<1>2. ASSUME NEW t \in Tx, Lock(t) \/ InsertReservation(t) \/ Rollback(t) PROVE TxIInv' /\ [Next]_ledger
  <2>1. UNCHANGED ledger
    BY <1>2 DEF Lock, LockForHold, LockForSettle, LockForAdjust, InsertReservation, Rollback, Proceed, GiveUp, ledger
  <2> QED
    BY <1>2, <2>1, LockStep, GiveUpStep DEF Rollback
<1>3. ASSUME NEW t \in Tx,
             \/ \E o \in Order, v \in Vehicle, q \in Quantity : BeginHold(t, o, v, q)
             \/ \E r \in Reservation, final \in SettledStatus : BeginSettle(t, r, final)
             \/ \E v \in Vehicle, delta \in Movement : BeginAdjust(t, v, delta)
             \/ \E v \in Vehicle, litres \in Observed : BeginDip(t, v, litres)
      PROVE  TxIInv' /\ [Next]_ledger
  <2>1. UNCHANGED ledger
    BY <1>3 DEF BeginHold, BeginSettle, BeginAdjust, BeginDip, Begin, ledger
  <2> QED
    BY <1>3, <2>1, BeginStep
<1>4. ASSUME NEW t \in Tx, Commit(t) PROVE TxIInv' /\ [Next]_ledger
  BY <1>4, CommitHoldStep, CommitSettleStep, CommitAdjustStep DEF Commit
<1> QED
  BY <1>1, <1>2, <1>3, <1>4 DEF TxNext

LEMMA TxInvariance == TxSpec => []TxIInv
BY TxInitially, TxStep, PTL DEF TxSpec

\* Committed columns keep their types, and a session is at a stage of its operation.
THEOREM TxTypeCorrect == TxSpec => []TxTypeOK
<1>1. TxIInv => TxTypeOK
  <2> SUFFICES ASSUME TxIInv PROVE TxTypeOK
    OBVIOUS
  <2>1. \A j \in TxJob : /\ j.op \in {"NONE", "HOLD", "SETTLE", "ADJUST"}
                         /\ j.at \in {"end", "lock", "insert", "commit"}
    BY DEF TxJob, Idle, HoldJob, SettleJob, MoveJob
  <2> QED
    BY <2>1 DEF TxIInv, IInv, TxTypeOK
<1> QED
  BY <1>1, TxInvariance, PTL

\* However the sessions interleave and wherever one is rolled back, what is
\* committed moves as the ledger promises.
THEOREM TransactionsImplementLedger == TxSpec => ImplementsLedger
BY TxInitially, TxStep, TxInvariance, PTL DEF TxSpec, TxInit, ImplementsLedger, Spec

\* reconcileInventory finds nothing: the cached quantity is the sum of its log.
THEOREM CacheReconciles == TxSpec => []CacheIsLogSum
<1>1. TxIInv => CacheIsLogSum
  BY DEF TxIInv
<1> QED
  BY <1>1, TxInvariance, PTL

\* What the ledger promises therefore holds of the transactions: no litre is
\* promised twice, no order holds fuel twice, totals reconcile, and a settled
\* reservation is final.
THEOREM SessionsKeepThePromise ==
  TxSpec => /\ []HeldIsSumOfReservations /\ []NothingPromisedTwice /\ []OneReservationPerOrder
            /\ SettledForGood
BY TransactionsImplementLedger, HeldQuantityReconciles, FuelIsNotPromisedTwice, OrdersHoldOnce,
   SettledReservationsStay, PTL DEF ImplementsLedger
================================================================================
