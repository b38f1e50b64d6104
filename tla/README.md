# Verification of the fuel delivery backend

TLA+ models of this repository, the TLC runs that check them and the TLAPS proofs about them: the order, fuel and
delivery core, and the services around it (sign-in, companies, fleet, pump, prices, quotes and placement, taxes,
idempotency keys, access tokens, the life of the process). Every definition is translated from the code;
`PROJECT.json` gives, under `map`, the lines each one stands for.

## The system

An Express and Prisma monolith over PostgreSQL, run as one process. Requests interleave at every `await`; every
database transaction is READ COMMITTED; nothing spans two transactions except the order of the statements in a
handler. A 30-second timer in the same process ends orders nobody accepted. A restart loses every request in flight
and keeps what was committed.

| Component | State | Operations | What is hard | What makes it correct |
|---|---|---|---|---|
| Order state machine, transition, timeline (`order/state-machine.js`, `transition-order.service.js`) | `orders.status`, cancellation columns, `expires_at`, `order_status_events` | `canTransition`, `transitionOrder` | a read and a compare-and-set several awaits apart; a release of fuel in between that is not undone | status and timeline agree, only legal moves, one winner |
| Placement (`create-order.service.js`) | the order, its first event | one transaction, then the reservation, then compensation | the window in which an order is visible and has no fuel | an order that ends without fuel is ended, one that ends gives its fuel back |
| Cancellation, expiry (`cancel-order.service.js`) | as above | customer, operator, unpaid expiry | races with accepts and with the sweep | never after an outcome; the record says who cancelled |
| Reservations (`dispatch/`) | `fuel_reservations`, `held_quantity` | `reserve`, `hold`, `settle`, `release` | locks, a unique index that makes inserts wait, repeated releases | the total is the sum of the live holds; one hold per order; no litre promised twice |
| Inventory (`fleet/.../inventory.*`) | `current_quantity`, `inventory_adjustments` | refill, correction, dip, reconcile | a delta computed outside the lock | the cached quantity is the sum of the log |
| Driver dispatch (`driver-dispatch.service.js`) | reads the pool, moves order and fuel | accept, reject, lapse sweep | first-wins across several transactions, failure half way, stale sweep lists | one accept wins; a failed one puts the order back; an open order is taken or lapses |
| Driver delivery (`delivery.service.js`) | `meter_readings`, `delivered_quantity`, `settlement_status` | arrive, start, complete with replay | readings, transition and bill are three commits; retries | evidence before outcome; one bill that agrees with the outcome |
| Fleet, assignments, shifts (`fleet/`, `driver-shift`, `driver-self`) | drivers, vehicles, `vehicle_assignments`, `driver_shifts`, totalisers | hire, suspend, assign, replace, release, start and end a shift, availability | five reads before an insert, each at its own instant; an end of a shift that writes by id | one crew per tanker and one tanker per driver, whatever was read; no shift ends below its opening reading |
| Pump unlocking (`iot-dispense.service.js`) | `iot_dispense_authorizations`, the pump itself | unlock, show the pin | check, external call, insert; an answer that is lost; two taps | unlocked only on site; the pin shown is one the pump accepted; one unlock per order (it is not) |
| Identity (`identity/`) | users, `otp_challenges`, `user_sessions` | codes, registration, sign-in, refresh, sign-out, reset and change of password | a code or a refresh token presented twice at once; revocation against rotation | each is spent once; a revocation is final |
| Corporate accounts (`corporate/`) | companies, members, verification history | register, resubmit, decide, suspend, members, gates | reviewers and applicants who write what they read before, in transactions of two statements that overlap | the history tells the status |
| Customers, addresses (`customer/`) | profiles, addresses | register, profile, save, edit, archive | the default address under races | the partial unique index; the address a quote was for |
| Pricing (`pricing/`) | `fuel_prices`, tax and delivery rules, quotes | publish, approve, withdraw, quote | the band is measured several awaits before the write; rounding | a rate takes over within its band; a breakdown balances |
| Placement (`create-order.service.js`) | quotes, orders, outbox | quote, place, expire quotes | two taps, a retry, the sweep; events of a transaction that rolls back | a quote makes one order; numbers have no gap; events tell the orders |
| Idempotency (`platform/`) | `idempotency_keys` | `runOnce` | failure between the work and its record; a retry that meets a run | a key answers once |
| Access (`shared/middleware`, routers, `rbac.js`) | access tokens, roles | authenticate, authorize, refresh | a token is never looked up, so it is always stale | a change of roles reaches every route within a token's life |
| Process (`server.js`, `app.js`, `shared/lifecycle`) | boot, drain, pool | start, drain, backstop, restart | a signal while booting or while requests run; a client that hangs up | a handler somebody waits for keeps its pool |

Components call each other as plain functions. `transitionOrder` calls the release of the fuel before its own
transaction; `acceptRequest` calls `transitionOrder`, `release` and `reserve` in turn; `createOrder` calls `reserve`
after it has committed. They share two tables, `orders` and `vehicle_inventory`, and the live-hold index on
`fuel_reservations`. The services around them touch the orders through narrow doors only: a placement spends a quote
and asks the company's gate, an unlock reads the order's status, the end of a shift counts active orders, a refresh
reads roles. Each door is an answer from outside in the module that asks (`HoldsActiveOrder`, `evaluateAccountGates`,
`mayOrder`), free to be anything the other side may say at that moment.

## The modules

- `OrderStateMachine`: the transition table and `CanTransition`, without state. Everything in which an order moves
  extends it. The 403 and the 409 of a refusal are one refusal here.
- `OrderLifecycle`: one order, one action per call site of `transitionOrder`, each taken whole; `visited` is the set
  of `to_status` values of the order's timeline, `PatchFor` the columns a status writes. It is the part `orders` of
  `MCPlatform`.
- `FuelLedger`: what the ledger promises. `Hold`, `Settle` and `Adjust` are single steps with the checks of the code
  and of the database. It is the abstract specification, and the modules above it use its operators.
- `InventoryTx`: the same operations as sessions do them: begin, lock the inventory row, read, insert, commit, and a
  rollback at any point. An uncommitted insert or settle of an order's live hold makes another insert wait
  (`KeyPending`), as the partial unique index does. `BeginDip` reads the quantity before it has the lock.
- `OrderDispatch`: orders, ledger and drivers together. `job[p]` is where a request stands: `stage` names the part of
  the handler, `at` its next statement, the rest what it has read. `After` is the control flow of the handlers after a
  call returned or threw. Ledger transactions are atomic in it, which the `ImplementsLedger` refinement justifies. The
  tanker of a driver is the driver; `Compliant` is the outcome of the dispatchability check, and an unnamed
  reservation does not consult it, as in the code.
- `DeliveryCapture`: the driver's side of one order from EN_ROUTE on: the reading inserted, then the transition, then
  the update of the bill, with replays, failing submissions, operators and restarts. `movedBy` is the actor of the
  latest timeline row. A reading is a measure and a figure.
- `Requests`: what the modules below share. `job[q]` is the next statement of request q with what it read; every
  awaited statement is an action, and other requests run in between. A request a restart cuts off is one that takes no
  further step.
- `OneTimeCodes`, `SignIn`: codes with their cooldown, hourly limits, attempts and single consumption; accounts and
  sessions on top of them. A refresh token is a session and a rotation, which is what the stored hash tells.
- `CorporateAccounts`: the two axes of a company, its members and its history; reads and unconditional writes apart. A
  write is a transaction of two statements, `InsertRecord` and `UpdateAccount`, or `RollBack`: the insert takes no
  lock that another reviewer's insert needs, so two of them overlap. `seen` is how many records there were when a
  record's transaction committed, 0 while it is open.
- `Roster`: drivers, tankers, assignments, shifts, totalisers. `insertable` is the pair of partial unique indexes.
- `PumpUnlock`: the chain of an unlock beside an order that moves by `CanTransition`. `granted` is what the device did,
  which the database need not know; `looked` is how many rows there were when the request looked for one.
- `Pricing`: the timeline of one product under the constraints of the table (`Accepted`). `TaxEngine`: rules as state
  and the breakdown as operators, in exact numerators, rounded where the code rounds. Litres times rate comes in
  finer units than money does, `Fine` of them to a paisa; a percentage is a share of `Whole`. Charges and thresholds
  are whole paise, as the schema has them. A delivery rule applies inside its window of litres.
- `AddressBook`, `Placement`: addresses with their default; quotes, orders, numbers and the outbox on top of them.
- `Idempotency`: `runOnce` with each of its writes failing. `OneAnswer`: what a key promises, the abstract
  specification; `told` maps one to the other.
- `ApiAccess`: the table of roles and permissions, the routes as the permissions they ask for, tokens that carry the
  roles they were signed with. `Lifecycle`: one process, from its boot to its end, and the next. A handler whose client
  hung up runs on, `abandoned`; `closed` is `server.close()`, which waits for connections and so not for that one.
- `MCPlatform` composes these. They share no rows, so `part` picks the one that runs and the others stay as they are:
  no interleaving between two parts changes what either can see. `MC*`: constants for TLC. `*Proofs`: theorems.

## The runs

| Run | Question | Bounds |
|---|---|---|
| `inventory_tx` | do interleaved transactions implement the ledger, and do they end? | two sessions, two orders, two tankers (2 and 1 litres of tank), movements -2, -1, 1, two row ids |
| `dispatch` | does the timeline stay a chain under every endpoint and a restart? | one scheduled order, two requests beside placement and sweep, one restart |
| `dispatch_pool` | who wins a contested order, and is it ever left hanging? | the same with an order for now, drivers and cancellations only, one tanker not dispatchable, no restart |
| `delivery` | do readings, outcome and bill agree? | four requests, two delivery ids of which one fails, figures 0 and 2 of 2 ordered, one restart |
| `platform` | do the services around the orders keep their promises, and which histories of one order do table and callers allow? | two or three requests a part, see below; none for the order, whose state space is finite |
| `two_unlocks` | is a pump unlocked once per order? (no) | three taps, four moves of the order |
| `price_gap` | is an instant ever unpriced? (yes) | three price versions, two days |
| `dip` | is an observed quantity authoritative? (no) | two dips |
| `cancel_leak` | does cancelling give the fuel back? (no) | one cancellation |
| `stranded` | does an order whose fuel was released recover? (no) | one accept against the sweep |
| `delivery_replay` | does a replay mean the delivery was recorded? (no) | four requests, one restart |
| `delivery_mixed` | is a bill the difference of two like readings? (no) | three requests, two measures |

Why these are enough to be of use: every pair of operations meets on the same row and on different rows; an order is
contested by placement, sweep and two more requests, which is more than any of the handlers expects; `-2` and the
tank of one litre reach every refusal of a movement; the row ids in `OrderDispatch` are as many as the requests can
use, which an assumption states. What a bound excludes: two orders competing for one tanker are in `inventory_tx`, not
in the `dispatch` runs; three simultaneous accepts; a second restart. Operators in the `delivery` run cancel, start
dispensing and close by hand; operators who record an outcome by hand are left out, since they need no reading in the
code. Deadlock is not checked where requests run out.

`platform` visits 1.4 million states, from a few hundred in the life of one order to several hundred thousand in the
fleet. Two requests are what a race on a unique index or a conditional update needs; three where one of them has to
prepare the ground (an authorisation to find, a token to refresh, a company to review), and Init starts a part from
what earlier requests may have left, so that the requests of a run go to the race and not to its preparation. Requests
are alike and arrive in the order of their numbers; where companies, drivers or administrators are alike, a run begins
with the first (`BeginsWithTheFirst`). Two codes, two sessions, two quotes, three rows of each roster
table are one more than a property needs to tell two of them apart. Clocks stop after a code's, a quote's and a
token's life has passed. Three rates (9, 10, 12 with a band of 20 percent) have pairs within the band and beyond it in
both directions, and the third price leaves room for two publishers who measured against the same one. `Fine` is 10
where the code has 10^5 (four decimals of a rate and three of a quantity beyond the paisa), so that 3 and 7 litres at
89 tenths are rounded up and down. With one delivery rule (`MaxCharges`) the run does not reach the precedence between
two; the theorem covers any set of them. `Latency` bounds how long a request may take between reading an account and
signing its token, which the code does not bound by itself; the property states the bound it follows from. A request
that finds a table full in the model waits for ever, which no safety property notices.

What the passing runs show, in the order of importance: promised fuel is never promised again and never lost from
the total, whatever the interleaving; exactly one accept carries out its moves; the timeline is a chain of legal moves,
so a stale read never overwrites; an order that is open is taken or lapses and a failed accept returns it; an assigned
driver's own endpoints find the order; a delivery moved by a driver has its readings and a bill that agrees with them.
Around the orders: a key never gives two answers and never the answer to another body; a code, a refresh token and a
quote are each spent once; a revoked session stays as it was revoked; a demoted account loses its routes within the
life of a token; a tanker has one crew; a company's status is what a committed decision says, and every other decision
was recorded before that one committed; the rate of a city is taken over, within a day, only by one within the band of
that very rate, although the band was measured against an older read, because the exclusion constraint refuses the
others; the outbox tells every order and no other; a request somebody waits for has its database until it is answered
or the process is forced out; fuel is charged to the nearest paisa and a breakdown balances to the paisa, as long as
fuel is taxed inclusively and delivery exclusively (with the kinds mixed it need not, and the property says so). And of
an order: no chain of moves reaches a delivery around a stage or cancels an outcome.

What the other seven show is a disagreement of the code with its own comments. `cancel_leak` and `stranded` come from
the same choice, releasing and reserving outside the order transaction: the comments rely on a sweeper and an
allocator, but `sweepExpired` is scheduled by nothing and no allocator exists. A related effect is that the live hold
of an assigned order can be on another tanker, when a cancellation releases it before it loses its compare-and-set and
placement is still reserving. `dip` reads before it locks. `delivery_replay` takes the reading for the delivery.
`delivery_mixed` lets `Number(null)` be a reading of zero. `price_gap` is the price that starts tomorrow: the one in
force is superseded today, and nothing is in force until then. `two_unlocks`: an unlock looks for an authorisation,
calls the pump and records the answer, so two taps that both look first unlock it twice ("a second call would unlock the
pump for a second batch of litres"). `PinOpensPumpOnSite` says what is left: whoever looks after an unlock is on record
gets that one.

Disagreements without a run of their own:

- "the current status is the latest record" (`schema.prisma:884`). One reviewer inserts APPROVED, another inserts
  REJECTED, updates and commits, and the first updates last: the status is APPROVED under a latest record that says
  REJECTED. `CorporateAccounts` has this behaviour, and `HistoryTellsStatus` asks for what remains true.
- "In-flight requests are unaffected" (`shutdown-guard.js:12`). The drain waits for connections; the handler of a
  client that hung up loses its pool in an ordinary drain. `Lifecycle` has this behaviour, and `HandlersKeepTheirPool`
  speaks of the requests somebody waits for.
- The band of BR-607 is not held for unscoped rates and rates scoped by a pin alone (the exclusion compares cities),
  nor for a rate activated after its predecessor was ended in a statement of its own, nor across days.
- `order.repository.js:83` says that the caller retries a taken order number; no caller does, and the customer sees
  the error. Numbers restart every month in the code; the model is within one.

### Fairness

`TxSpec`: weak fairness on the commit of a session, strong fairness on obtaining a lock and on an insert, because
PostgreSQL queues the waiters of both. No fairness on starting anything, nor on rollbacks, so `EveryTransactionEnds`
does not rest on the transaction timeout. `DispatchSpec`: weak fairness on the steps of an accepted request, which the
event loop gives, on time passing a deadline and on the timer. No request has to arrive. `DeliveryCapture`: weak
fairness on the steps of a request; its liveness properties exempt behaviours with a restart, since nothing in the
code resumes a request. `platform` states no fairness: what it asks is safety, since every chain in it ends with its
last statement and nothing waits for anything that another request holds.

## The proofs

`OrderLifecycleProofs` proves each invariant of `OrderLifecycle` for every history (`OrderIInv`).
`DeliveryPassedEveryStage` and `OutcomeNeverCancelled` are not inductive, because `visited` forgets the order of the
stages. The strengthening ties each stage to the one the table puts before it (`StagesChained`), a recorded outcome or
a cancellation to the statuses an order can still have after it (`OutcomeIsSticky`), and a confirmation to the
statuses in which the clock is never armed again (`ClockIsForUnpaid`).

`FuelLedgerProofs` proves the ledger's invariants for any number of reservations, orders, tankers and litres, from
the named assumptions of `FuelLedger`: quantities are positive, tanks start within capacity. The sum of the live holds
is written as the size of a set of pairs (reservation, litre number), so that adding and removing a hold are facts
about finite sets; `HeldIsSumOfReservations` is inductive with the types, and `NothingPromisedTwice` needs it because
`settle` subtracts with a floor of zero. `SettledReservationsStay` is an action property of every step.

`InventoryTxProofs` proves that the interleaved transactions implement that ledger, for any number of sessions. A
step maps to a stutter until a commit, and a commit maps to the whole operation, whose checks were made earlier; so
the invariant says that what a session read inside its lock is still so when it commits (`Current`). That holds
because the lock has one holder (`OneLockHolder`) and because an uncommitted hold of an order keeps the others from
inserting one (`OneInserter`). Without the second, two sessions on two tankers would both find the order free.
`CacheIsLogSum` is inductive with it, the dip included: its delta may be stale, its movement is logged as it was
applied. What `FuelLedgerProofs` shows of single steps then holds of the sessions (`SessionsKeepThePromise`). The
assumptions name the operations there are and, where dips are taken, that a dip's delta is a movement.

`OrderDispatchProofs` proves the core for any number of orders, drivers and requests. `DInv` gives each request a
`Shape`, what it carries at the statement it is at, and `Seen`, what it has read that is never undone: an order once
placed, a row once inserted, the row an accept has on the driver's tanker. Nothing else a request has read can be
relied on. `TimelineTellsTheStatus` needs no more than that, because the write is a compare-and-set on the status the
move was decided from. `RequestsMoveFuelAsPromised` shows that a request touches the ledger by its operations only, so
that the ledger's own theorems apply to it. `FirstWins` needs two more facts: an order between its claim and its
assignment has one request that carries it (`OneHolder`) and is `ALLOCATING` or cancelled (`HeldIsClaimed`). These,
and `AssignedDriverFindsOrder`, are proved where no operator assigns by hand (`NoHandAssignment`). The hypothesis is
needed: the table lets an operator take an `ALLOCATING` order to `ASSIGNED`, out of the hands of the accept. Such an
order need not have its fuel on the tanker of its driver, and if that driver hands it back while the first accept is
still under way, a second accept carries out its moves beside it (four requests, so no run of two shows it).
`dispatch_pool`, which checks both, leaves operators' moves out for the same reason; in `dispatch` an operator assigns
by hand and the timeline is a chain all the same. The other assumptions: an order begins as placement leaves it,
dispatchable tankers are tankers, `None` is neither a tanker nor a status, an order asks for a quantity the ledger
knows.

`DeliveryCaptureProofs` proves the evidence and the bill for any number of submissions, replays, operators and
restarts. A request that is past an insert has its readings behind it (`Backed`), readings are only added and the
first opening one stays the first (`FirstIsKept`), so the litres a request computed are still those of the table when
the outcome is written. The outcome and the bill are two commits; between them one request at most is on its way to
the second, and the outcome is its own (`OneBill`), which is why the bill, once there, explains the outcome
(`BilledOnce`) and an operator who closes the order does not disturb it.

`RosterProofs` proves one crew per tanker for any fleet and any number of requests between their reads and their
writes. Most of what a request reads is worthless by the time it writes, so the invariant keeps only what cannot lapse
(`Knows`): a driver or a tanker once found stays in its table, and a shift keeps the reading it opened with, which is
why two endings of one shift both close it at or above that reading. That two assignments or two shifts never meet
rests on the unique indexes alone (`WriteAssignmentStep`, `OpenShiftStep`), not on any check before them. The
assumptions: at least one row fits, and no reading is `None`.

`PlatformProofs` takes the other services one after the other, each for any number of requests:

- The process. The port is bound only on an open pool, which only the drain closes (`BoundOnPool`), and a request whose
  client waits keeps the drain before the database (`FlightHoldsDrain`). Of an abandoned handler nothing is proved.
- Access. The invariant dates every token: its role was held no earlier than the token's expiry less its life and the
  latency (`TokensTellTheTruth`), which a refresh keeps because it reads the account again (`SigningIsPrompt`).
- The pump. A request that has seen the order on site may go on as if it still were, because the table leads from the
  site only to an end (`SiteIsFinal`). A pin shown belongs to the newest authorised row, which exists as soon as one
  does (`NewestAuthorized`), and every such row was granted by the pump. A request that asks the pump found no unlock
  among the rows it looked at (`LookedBefore`), which is all that keeps a second unlock away.
- Pricing. When a price is written, the rate in force may no longer be the one the band was measured against. A row
  never changes its rate, and a write adds one row in the place of the row it was measured against or changes one row
  (`TakesTheMeasuredPlace`). Were the row in force before it another one, both would be in force in one city, in the
  table before or in the table after, and that the exclusion constraint refuses (`InForceAlone`, `TakeoverInBand`).
- Companies. The status a reviewer read is worthless by the time of the decision; `CompanyKnown` keeps that there is
  a company, that it was once approved, and that the request's own record is in the history, since a history only
  grows. A commit makes its record the one that has seen all others (`Standing`), which a record inserted later but not
  yet committed does not change.
- Placement. The n-th order has number n and is the one order of its quote (`QuotesAgree`). Hence the number a
  placement computes is one beyond the orders it saw, a number computed too early is taken and refused by the unique
  constraint, and the conditional update of the quote lets one of two placements through. `EventsAgree` is the same
  for the outbox, and the reservation after the commit has one request per order (`ReservesApart`), so that an order
  is told of as reserved or as cancelled.
- Sign-in. A code that a request proved is consumed, and a token that a request exchanged has a rotation below the one
  stored; neither is undone, so no second request gets past its conditional update (`SpentApart`). Each step leaves an
  ended session as it is and a session's absolute limit where it was (`SessionsMove`), which gives `RevokedForGood`.
- Idempotency implements `OneAnswer`. That answers agree is not inductive: a second result could still be written
  over the first. `OwnerHoldsRow` makes the row a mutex, from the claim to the end of a run, `AnsweredAsStored` ties
  every answer given to the row that is still there, and `StoredForItsBody` ties the row's answer to the body it was
  claimed with, so that a replay finds the pair it promises. A step then either gives a key's first answer or repeats
  it. The one assumption is that `Nothing` is no row.

Their other assumptions are named in the modules. The bounds leave room for the rows a run begins with
(`CodeBounds`, `SessionBound`, `BookBound`, `ShopBounds`, `TimelineBounds`, `MovesBounded`), lives and limits are
numbers of the kind the configuration admits (`CodeLimits`, `SessionLives`, `QuoteTimes`, `AccessTimes`,
`AddressLimit`, `BandIsPercent`), and `None` is not a row, a time or an exit (`NoneIsNoUser`, `NoneIsNoCompany`,
`NoneIsNoTime`, `NoneIsNoExit`). A bound in the guards is a constant without an upper limit, so the theorems hold
for every size of the tables.

`TaxEngineProofs` proves that a breakdown balances for any set of rules and any figures. A line's tax is a sum over
the rules in force, and the library's induction theorems, which take an operator, cannot be used for it. Induction is
done on sets instead: were there a number, or a finite set of rules, at which the sum goes wrong, there would be a
smallest one, and that contradicts the equation of the fold (`CountingUp`, `SubsetInduction`). From it follow the
equations of a sum: empty, one summand more, scaled, split (`SumEmpty`, `SumAdds`, `SumScales`, `SumSplits`), and that
a sum of amounts each rounded lies within one for each of them of the exact one (`SumOfErrors`). The rest is
arithmetic: a rounding moves a figure by half a unit at most (`Rounds`). Taxable amount, tax and, for fuel, the total
are rounded each from one exact sum, so they miss one another by less than two and, being whole, by one at most
(`ThreeRounded`); and an inclusive tax is what is left of a total that was whole (`InclusiveTax`). The invariant is
only that the rules have their types and are finitely many (`TaxIInv`). The assumptions: percentages are at most the
whole, figures are natural numbers, units are not zero (`Rates`, `Figures`, `Scales`).

The last section of `PlatformProofs` puts the parts together. `PartsRunAlone`: a behaviour of `MCPlatform` is, for the
part that runs, a behaviour of that part's own specification, since the composed steps only add guards to it (how many
requests, in which order). `PartsAtRest`: the others stay as `Init` leaves them. Hence the types
(`PlatformTypeCorrect`) and the promises (`PlatformKeepsItsPromises`) that are proved of each part, those of an
order's life included, hold of the very specification that the `platform` run checks. Three promises quantify over
requests, which the parts share (`CredentialsSpentOnce`, `PinOpensPumpOnSite`, `HandlersKeepTheirPool`); they are
stated for the part that serves them, and the run checks them beside the others as well. A key and a body exist
(`CallsHaveKeys`), or the executor at rest would have no call to show.

Only model-checked: the liveness properties `EveryTransactionEnds`, `NotOfferedForEver`, `ClaimIsResolved`,
`OpeningLeadsOn`, `ClosingLeadsToOutcome` and `OutcomeIsBilled`, since the prover does not handle fairness. Every
invariant, action property and refinement of the passing runs is a theorem; `FirstAcceptWins` and
`AssignedDriverSeesOrder` are checked and proved without assignment by hand only, see above.

## Not modelled, and why

- Search radius, distances, declines, tracking, telemetry, listings and dashboards: they decide what is shown, not what
  may happen.
- The relay of the outbox: nothing in the code reads the table. The retention of keys: nothing schedules it, so a key
  never lapses here.
- A database error outside the modelled refusals, in particular of the `fuel.reserved` event after a successful
  reservation, which would compensate an order that has its fuel; `Idempotency` alone lets any write fail.
- Two restarts of a session's driver app state; the app is external, and any request may arrive at any time.
- Documents and their uploads, licence numbers, contact details, coordinates: data no property tells apart. A provider
  is an answer or its absence.
- Rate limits per address, CORS, headers, error envelopes and logging: no state of the system.
- Scripts, seeds and tests: not part of the running system.
- Two processes at once: the deployment runs one, and the sweep timer and `shuttingDown` are per process.

## The plan

1. Done: state machine and lifecycle; ledger; transactions refining it; dispatch; delivery; the services around them,
   all checked, and every safety property of the passing runs proved for every value of the constants.
2. Left: what can be said of `FirstAcceptWins` beside an operator who assigns by hand; the compensation of a placement
   without an expected status and the settlement as consumed, which no property covers; order tracking.
