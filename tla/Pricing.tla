------------------------------- MODULE Pricing -------------------------------
(***************************************************************************)
(* The price timeline of one product (pricing/services/price.service.js,     *)
(* catalog.service.js, coverage.service.js, pricing.repository.js and the    *)
(* constraints of the pricing_catalog migration).  Publishing and activating *)
(* read the price in force first and write afterwards.  A row without an end *)
(* has until = None; rates are whole units.                                  *)
(***************************************************************************)
EXTENDS Requests, Integers, SequencesExt

CONSTANTS
  City, Pin,       \* places an address may name; None is "anywhere"
  Rate, Admin,
  SanityBand,      \* PRICE_SANITY_BAND_PERCENT
  MaxDay,          \* bound: ticks of the clock
  MaxPrices        \* bound: price versions

ASSUME BandIsPercent == SanityBand \in Nat /\ Rate \subseteq Nat \ {0}
ASSUME TimelineBounds == MaxDay \in Nat \ {0} /\ MaxPrices \in Nat \ {0}

VARIABLES
  today,           \* new Date()
  product,         \* the product's status; archiving it makes it INACTIVE
  prices           \* fuel_prices, by creation

catalogue == <<today, product, prices>>

PriceStatus == {"DRAFT", "PENDING_APPROVAL", "ACTIVE", "SUPERSEDED", "CANCELLED"}

PriceScope == [city: City \cup {None}, pin: Pin \cup {None}]

PriceRow ==
  [scope: PriceScope, rate: Rate, from: Nat, until: Nat \cup {None}, status: PriceStatus,
   held: BOOLEAN, author: Admin, approver: Admin \cup {None}]

\* liveWhere: the rows a price lookup considers at all.
Covers(row, day) == row.from <= day /\ (row.until = None \/ row.until > day)

inForce == {i \in DOMAIN prices : prices[i].status = "ACTIVE" /\ Covers(prices[i], today)}

\* The newest of them, or 0; rows that begin together may come in either order.
Newest(rows) ==
  IF rows = {} THEN {0} ELSE {i \in rows : \A k \in rows : prices[k].from <= prices[i].from}

findActivePriceForScope(scope) == Newest({i \in inForce : prices[i].scope = scope})

\* findActivePrice: the pin code, then the city, then the unscoped rate.
findActivePrice(city, pin) ==
  LET byPin  == {i \in inForce : prices[i].scope.pin = pin}
      byCity == {i \in inForce : prices[i].scope = [city |-> city, pin |-> None]}
      others == {i \in inForce : prices[i].scope = [city |-> None, pin |-> None]}
  IN Newest(CASE byPin # {}                      -> byPin
              [] byPin = {} /\ byCity # {}       -> byCity
              [] byPin = {} /\ byCity = {}       -> others)

\* getCoverage: an area without any price is reported as unpriced.
unpriced(city, pin) == findActivePrice(city, pin) = {0}

\* BR-607: the band is measured against the price in force; none, no band.
outOfBand(current, rate) ==
  /\ current # 0
  /\ LET was == prices[current].rate
         change == IF rate > was THEN rate - was ELSE was - rate
     IN change * 100 > SanityBand * was

\* The constraints a write of the whole table must pass, or it is refused.
windowOrdered(row) == row.until = None \/ row.until > row.from

overlapping(a, b) ==
  /\ a.until = None \/ b.from < a.until
  /\ b.until = None \/ a.from < b.until

\* Mutant: a range without an end is not compared.
noOverlapOfEnded(rows) ==
  \A i, j \in DOMAIN rows :
    (i # j /\ rows[i].status = "ACTIVE" /\ rows[j].status = "ACTIVE"
       /\ rows[i].until # None /\ rows[j].until # None
       /\ rows[i].scope.city # None /\ rows[i].scope.city = rows[j].scope.city)
    => ~overlapping(rows[i], rows[j])

\* The EXCLUDE constraint compares cities, and a null city with nothing.
noOverlap(rows) ==
  \A i, j \in DOMAIN rows :
    (i # j /\ rows[i].status = "ACTIVE" /\ rows[j].status = "ACTIVE"
       /\ rows[i].scope.city # None /\ rows[i].scope.city = rows[j].scope.city)
    => ~overlapping(rows[i], rows[j])

approvalHolds(row) ==
  /\ row.approver # row.author
  /\ row.held /\ row.status = "ACTIVE" => row.approver # None

supersededIsClosed(row) == row.status = "SUPERSEDED" => row.until # None

Accepted(rows) ==
  /\ noOverlap(rows)
  /\ \A i \in DOMAIN rows : windowOrdered(rows[i]) /\ approvalHolds(rows[i]) /\ supersededIsClosed(rows[i])

\* One transaction on the table: all of it, or an error and nothing.
Write(rows) == prices' = IF Accepted(rows) THEN rows ELSE prices

AsksPrice(q, r) == At(q, "new") /\ Goto(q, r) /\ UNCHANGED catalogue

---------------------------------------------------------------------------
\* publishPrice: the product, the start, the price in force, then one transaction.
PublishPrice(q, admin, scope, rate, from) ==
  /\ product = "ACTIVE"
  /\ from >= today
  /\ AsksPrice(q, [at |-> "publish:current", scope |-> scope, rate |-> rate, from |-> from, admin |-> admin])

FindCurrent(q) ==
  /\ At(q, "publish:current")
  /\ \E current \in findActivePriceForScope(job[q].scope) :
       Goto(q, [at |-> "publish", current |-> current,
                held |-> outOfBand(current, job[q].rate),
                row |-> [scope |-> job[q].scope, rate |-> job[q].rate, from |-> job[q].from,
                         until |-> None, status |-> "ACTIVE", held |-> FALSE,
                         author |-> job[q].admin, approver |-> None]])
  /\ UNCHANGED catalogue

\* The one before is closed at the new one's start and superseded at once; a
\* rate outside the band waits for approval instead and closes nothing.
WritePrice(q) ==
  /\ At(q, "publish")
  /\ Len(prices) < MaxPrices
  /\ LET current == job[q].current
         closed == [prices EXCEPT ![current].status = "SUPERSEDED", ![current].until = job[q].row.from]
     IN Write(IF job[q].held
              THEN Append(prices, [job[q].row EXCEPT !.status = "PENDING_APPROVAL", !.held = TRUE])
              ELSE Append(IF current = 0 THEN prices ELSE closed, job[q].row))
  /\ Leave(q)
  /\ UNCHANGED <<today, product>>

---------------------------------------------------------------------------
\* updatePriceStatus.  Activating needs another administrator for a held rate.
ActivatePrice(q, admin, i) ==
  /\ prices[i].status \in {"PENDING_APPROVAL", "DRAFT"}
  /\ prices[i].held => prices[i].author # admin
  /\ AsksPrice(q, [at |-> "activate:current", price |-> i, scope |-> prices[i].scope, from |-> prices[i].from,
                   approver |-> IF prices[i].held THEN admin ELSE None])

FindReplaced(q) ==
  /\ At(q, "activate:current")
  /\ \E current \in findActivePriceForScope(job[q].scope) :
       Goto(q, [job[q] EXCEPT !.at = IF current \in {0, job[q].price} THEN "activate" ELSE "supersede",
                              !.scope = current])
  /\ UNCHANGED catalogue

\* Two statements of their own: superseding the old one, then activating.
SupersedeReplaced(q) ==
  /\ At(q, "supersede")
  /\ LET rows == [prices EXCEPT ![job[q].scope].status = "SUPERSEDED", ![job[q].scope].until = job[q].from]
     IN Write(rows) /\ Test(q, Accepted(rows), "activate")
  /\ UNCHANGED <<today, product>>

Activate(q) ==
  /\ At(q, "activate")
  /\ Write([prices EXCEPT ![job[q].price].status = "ACTIVE",
                          ![job[q].price].approver = IF job[q].approver = None THEN @ ELSE job[q].approver])
  /\ Leave(q)
  /\ UNCHANGED <<today, product>>

\* CANCELLED ends a price in force now; DRAFT takes it back.
WithdrawPrice(q, i, to) ==
  /\ prices[i].status # "SUPERSEDED"
  /\ AsksPrice(q, [at |-> "withdraw", price |-> i, to |-> to,
                   ends |-> to = "CANCELLED" /\ prices[i].status = "ACTIVE"])

SetPriceStatus(q) ==
  /\ At(q, "withdraw")
  /\ Write([prices EXCEPT ![job[q].price].status = job[q].to,
                          ![job[q].price].until = IF job[q].ends THEN today ELSE @])
  /\ Leave(q)
  /\ UNCHANGED <<today, product>>

\* updateProduct; archiving sets INACTIVE.
UpdateProduct(q) ==
  /\ At(q, "new")
  /\ product' \in {"ACTIVE", "INACTIVE"} \ {product}
  /\ Leave(q)
  /\ UNCHANGED <<today, prices>>

NextDay == today < MaxDay /\ today' = today + 1 /\ UNCHANGED <<job, product, prices>>

PricingNext(q) ==
  \/ \E a \in Admin, s \in PriceScope, r \in Rate, d \in today..MaxDay : PublishPrice(q, a, s, r, d)
  \/ FindCurrent(q) \/ WritePrice(q)
  \/ \E i \in DOMAIN prices :
       \/ \E a \in Admin : ActivatePrice(q, a, i)
       \/ \E to \in {"CANCELLED", "DRAFT"} : WithdrawPrice(q, i, to)
  \/ FindReplaced(q) \/ SupersedeReplaced(q) \/ Activate(q) \/ SetPriceStatus(q) \/ UpdateProduct(q)

\* One rate in force from the start, or none.
PricingInit ==
  /\ today = 1 /\ product = "ACTIVE"
  /\ prices \in {<< >>} \cup
       {<<[scope |-> s, rate |-> r, from |-> 0, until |-> None, status |-> "ACTIVE", held |-> FALSE,
           author |-> a, approver |-> None]>> : s \in PriceScope, r \in Rate, a \in Admin}

PricingSpec ==
  /\ RequestsInit /\ PricingInit
  /\ [][(\E q \in Request : PricingNext(q)) \/ NextDay]_<<job, catalogue>>

PricingTypeOK ==
  /\ today \in 0..MaxDay /\ product \in {"ACTIVE", "INACTIVE"}
  /\ prices \in Seq(PriceRow) /\ Len(prices) <= MaxPrices

---------------------------------------------------------------------------
\* BR-607 in a city, however old the rate a publisher measured against: one rate
\* takes over from another within its band.  The rate a stale read measured
\* against is no longer the one in force, and then "the database EXCLUDE
\* constraint is the backstop" (publishPrice): the write must be refused.
\* The code promises no more: unscoped rates, a change of day, and a rate that
\* is activated after its predecessor was ended are not measured.
TakeoversAreMeasured ==
  [][today' = today =>
       \A scope \in PriceScope :
         \A i \in findActivePriceForScope(scope), j \in findActivePriceForScope(scope)' :
           scope.city # None /\ i # 0 /\ j \notin {0, i} =>
             LET change == prices'[j].rate - prices[i].rate
             IN change * 100 <= SanityBand * prices[i].rate /\ -change * 100 <= SanityBand * prices[i].rate]_catalogue

\* "A gap or an overlap between the two rows would make some instant either
\* unpriced or ambiguously priced" (publishPrice): inside the window of a rate
\* that was superseded, its scope has a rate.
NoGapInTimeline ==
  \A i \in DOMAIN prices :
    prices[i].status = "SUPERSEDED" /\ Covers(prices[i], today) => findActivePriceForScope(prices[i].scope) # {0}
===============================================================================
