------------------------------- MODULE Placement -------------------------------
(***************************************************************************)
(* Quotes and the orders placed from them (pricing/services/quote and        *)
(* order/services/create-order with order.repository and the outbox), for    *)
(* one product.  A rate is the number of its version: Pricing says which     *)
(* version is in force and TaxEngine what it amounts to.  What the order     *)
(* does after its placement is OrderLifecycle and OrderDispatch; here it is  *)
(* live or cancelled by the missing fuel.                                    *)
(***************************************************************************)
EXTENDS AddressBook

CONSTANTS
  QuoteTtl,        \* QUOTE_TTL_SECONDS, in ticks
  DuplicateWindow, \* DUPLICATE_ORDER_WINDOW_MINUTES, in ticks
  MaxNow,          \* bound: ticks of the clock and rate versions
  MaxQuotes        \* bound: quotes ever made

ASSUME QuoteTimes == QuoteTtl \in Nat \ {0} /\ DuplicateWindow \in Nat
ASSUME ShopBounds == MaxNow \in Nat \ {0} /\ MaxQuotes \in Nat \ {0, 1}   \* a run may begin with two quotes

VARIABLES
  now,
  onSale,          \* the product's status
  rate,            \* the version in force where the addresses are, or None
  quotes,          \* quotes, by creation
  orders,          \* orders, by creation
  outbox           \* outbox_events: what was published of which order

counter == <<now, onSale, rate, quotes, orders, outbox>>
shop == <<book, counter>>

PaymentMode == {"CASH_ON_DELIVERY", "ONLINE"}
CREATED == "order.created"
CONFIRMED == "order.confirmed"
ALLOCATION_REQUESTED == "allocation.requested"
RESERVED == "fuel.reserved"
CANCELLED == "order.cancelled"

QuoteRow == [owner : Owner, address : Nat, rate : Nat, expires : Nat,
             status : {"ACTIVE", "CONSUMED", "EXPIRED"}]

OrderRow == [number : Nat, owner : Owner, quote : Nat, address : Nat, rate : Nat,
             mode : PaymentMode, placed : Nat, asked : Nat,
             status : {"PENDING_PAYMENT", "CONFIRMED", "CANCELLED_BY_ADMIN"}]

initialStatus(mode) == IF mode = "CASH_ON_DELIVERY" THEN "CONFIRMED" ELSE "PENDING_PAYMENT"

eventsFor(mode) ==
  {CREATED} \cup IF mode = "CASH_ON_DELIVERY" THEN {CONFIRMED, ALLOCATION_REQUESTED} ELSE {}

Publish(number, types) == outbox' = outbox \cup ({number} \X types)

\* A cancelled order is no duplicate, and neither is one placed before the window.
findRecentSimilar(u, a) ==
  {i \in DOMAIN orders : /\ orders[i].owner = u /\ orders[i].address = a
                         /\ orders[i].placed >= now - DuplicateWindow
                         /\ orders[i].status # "CANCELLED_BY_ADMIN"}

\* The highest number so far and one: read by the transaction, written at its end.
allocateOrderNumber == 1 + Max({0} \cup {orders[i].number : i \in DOMAIN orders})

AsksShop(q, r) == At(q, "new") /\ Goto(q, r) /\ UNCHANGED shop

---------------------------------------------------------------------------
\* createQuote: the address, the product, the rate, the delivery rule, the
\* taxes, then the row.  A missing or unsupported delivery rule ends it.
AskQuote(q, u, a) ==
  a \in findForUser(u) /\ AsksShop(q, [at |-> "quote:product", owner |-> u, address |-> a])

PriceQuote(q) ==
  /\ \/ At(q, "quote:product") /\ Test(q, onSale, "quote:rate")
     \/ /\ At(q, "quote:rate") /\ rate # None
        /\ Goto(q, [at |-> "quote:delivery", owner |-> job[q].owner, address |-> job[q].address, rate |-> rate])
     \/ At(q, "quote:rate") /\ rate = None /\ Leave(q)
     \/ /\ At(q, "quote:delivery")
        /\ \E covered \in BOOLEAN : Test(q, covered, "quote:save")
  /\ UNCHANGED shop

SaveQuote(q) ==
  /\ At(q, "quote:save")
  /\ Len(quotes) < MaxQuotes
  /\ quotes' = Append(quotes, [owner |-> job[q].owner, address |-> job[q].address, rate |-> job[q].rate,
                               expires |-> now + QuoteTtl, status |-> "ACTIVE"])
  /\ Leave(q)
  /\ UNCHANGED <<book, now, onSale, rate, orders, outbox>>

\* Mutant: the stored status is trusted until the sweep has run.
storedStatus(k) == quotes[k].status

\* toPublicQuote: a quote past its time reads as expired before any sweep says so.
shownStatus(k) ==
  IF quotes[k].status = "ACTIVE" /\ quotes[k].expires <= now THEN "EXPIRED" ELSE quotes[k].status

\* expireLapsedQuotes.
ExpireLapsedQuotes(q) ==
  /\ At(q, "new")
  /\ quotes' = [k \in DOMAIN quotes |->
       IF quotes[k].status = "ACTIVE" /\ quotes[k].expires < now
       THEN [quotes[k] EXCEPT !.status = "EXPIRED"] ELSE quotes[k]]
  /\ Leave(q)
  /\ UNCHANGED <<book, now, onSale, rate, orders, outbox>>

---------------------------------------------------------------------------
\* createOrder.  The schedule, the company's gate and the payment mode may each
\* refuse before the quote is looked at (CorporateAccounts has the gate).
PlaceOrder(q, u, k, mode, acknowledge) ==
  /\ quotes[k].owner = u
  /\ \E mayOrder \in BOOLEAN :
       IF mayOrder /\ shownStatus(k) = "ACTIVE"
       THEN AsksShop(q, [at |-> "order:read", owner |-> u, quote |-> k, mode |-> mode,
                         acknowledge |-> acknowledge, asked |-> now, number |-> 0])
       ELSE At(q, "new") /\ Leave(q) /\ UNCHANGED shop

\* The address is read without asking whether it was archived since.
ReadForOrder(q) ==
  /\ At(q, "order:read")
  /\ Test(q, onSale, IF job[q].acknowledge THEN "order:number" ELSE "order:similar")
  /\ UNCHANGED shop

CheckSimilar(q) ==
  /\ At(q, "order:similar")
  /\ Test(q, findRecentSimilar(job[q].owner, quotes[job[q].quote].address) = {}, "order:number")
  /\ UNCHANGED shop

AllocateNumber(q) ==
  /\ At(q, "order:number")
  /\ Goto(q, [job[q] EXCEPT !.at = "order:insert", !.number = allocateOrderNumber])
  /\ UNCHANGED shop

\* The rest of the transaction: the unique number and quote, the quote's
\* conditional claim, the first event and the outbox, together or not at all.
claimable(k) == quotes[k].status = "ACTIVE"

\* Mutant: the order number is not unique.
anyNumber(n) == TRUE

numberFree(n) == \A i \in DOMAIN orders : orders[i].number # n
quoteUnused(k) == \A i \in DOMAIN orders : orders[i].quote # k

\* Mutant: the outbox is written outside the transaction.
InsertThenPublish(q) ==
  LET r == job[q]
      k == r.quote
  IN /\ At(q, "order:insert")
     /\ Publish(r.number, eventsFor(r.mode))
     /\ IF numberFree(r.number) /\ quoteUnused(k) /\ claimable(k)
        THEN /\ orders' = Append(orders,
                  [number |-> r.number, owner |-> r.owner, quote |-> k, address |-> quotes[k].address,
                   rate |-> quotes[k].rate, mode |-> r.mode, placed |-> now, asked |-> r.asked,
                   status |-> initialStatus(r.mode)])
             /\ quotes' = [quotes EXCEPT ![k].status = "CONSUMED"]
             /\ Goto(q, [at |-> "order:reserve", number |-> r.number])
        ELSE Leave(q) /\ UNCHANGED <<orders, quotes>>
     /\ UNCHANGED <<book, now, onSale, rate>>

InsertOrder(q) ==
  LET r == job[q]
      k == r.quote
  IN /\ At(q, "order:insert")
     /\ IF numberFree(r.number) /\ quoteUnused(k) /\ claimable(k)
        THEN /\ orders' = Append(orders,
                  [number |-> r.number, owner |-> r.owner, quote |-> k, address |-> quotes[k].address,
                   rate |-> quotes[k].rate, mode |-> r.mode, placed |-> now, asked |-> r.asked,
                   status |-> initialStatus(r.mode)])
             /\ quotes' = [quotes EXCEPT ![k].status = "CONSUMED"]
             /\ Publish(r.number, eventsFor(r.mode))
             /\ Goto(q, [at |-> "order:reserve", number |-> r.number])
        ELSE Leave(q) /\ UNCHANGED <<orders, quotes, outbox>>
     /\ UNCHANGED <<book, now, onSale, rate>>

\* reserve, then the event of its own transaction; or the compensating cancellation.
ReserveOrCancel(q) ==
  /\ At(q, "order:reserve")
  /\ Leave(q)
  /\ \/ Publish(job[q].number, {RESERVED}) /\ UNCHANGED orders
     \/ /\ Publish(job[q].number, {CANCELLED})
        /\ orders' = [i \in DOMAIN orders |->
             IF orders[i].number = job[q].number
             THEN [orders[i] EXCEPT !.status = "CANCELLED_BY_ADMIN"] ELSE orders[i]]
  /\ UNCHANGED <<book, now, onSale, rate, quotes>>

---------------------------------------------------------------------------
\* The catalogue changes meanwhile: another version, none, or the product.
RateChanges == rate' \in {None, now} \ {rate} /\ UNCHANGED <<job, book, now, onSale, quotes, orders, outbox>>

SaleChanges == onSale' = ~onSale /\ UNCHANGED <<job, book, now, rate, quotes, orders, outbox>>

ClockAdvances == now < MaxNow /\ now' = now + 1 /\ UNCHANGED <<job, book, onSale, rate, quotes, orders, outbox>>

PlacementNext(q) ==
  \/ BookNext(q) /\ UNCHANGED counter
  \/ \E u \in Owner, a \in DOMAIN addresses : AskQuote(q, u, a)
  \/ PriceQuote(q) \/ SaveQuote(q) \/ ExpireLapsedQuotes(q)
  \/ \E u \in Owner, k \in DOMAIN quotes, m \in PaymentMode, x \in BOOLEAN : PlaceOrder(q, u, k, m, x)
  \/ ReadForOrder(q) \/ CheckSimilar(q) \/ AllocateNumber(q) \/ InsertOrder(q) \/ ReserveOrCancel(q)

\* A run begins with quotes of earlier requests, or with none.
PlacementInit ==
  /\ now = 1 /\ onSale = TRUE /\ rate = 1 /\ orders = << >> /\ outbox = {}
  /\ quotes \in {<< >>} \cup IF addresses = << >> THEN {} ELSE
       LET row == [owner |-> addresses[1].owner, address |-> 1, rate |-> 1,
                   expires |-> 1 + QuoteTtl, status |-> "ACTIVE"]
       IN {<<row>>, <<row, row>>}

PlacementSpec ==
  /\ RequestsInit /\ BookInit /\ PlacementInit
  /\ [][(\E q \in Request : PlacementNext(q)) \/ RateChanges \/ SaleChanges \/ ClockAdvances]_<<job, shop>>

PlacementTypeOK ==
  /\ now \in 1..MaxNow /\ onSale \in BOOLEAN /\ rate \in (1..MaxNow) \cup {None}
  /\ quotes \in Seq(QuoteRow) /\ Len(quotes) <= MaxQuotes
  /\ orders \in Seq(OrderRow)
  /\ outbox \subseteq Nat \X {CREATED, CONFIRMED, ALLOCATION_REQUESTED, RESERVED, CANCELLED}

---------------------------------------------------------------------------
\* "quoteId is @unique, so a second order could never be created from this
\* quote": however taps, retries and the sweep race, a quote is consumed by
\* exactly one order, which has its owner, address and rate, and it was asked
\* for before the quote lapsed.
QuoteUsedOnce ==
  /\ \A k \in DOMAIN quotes :
       (quotes[k].status = "CONSUMED") <=> (Cardinality({i \in DOMAIN orders : orders[i].quote = k}) = 1)
  /\ \A i \in DOMAIN orders :
       LET quote == quotes[orders[i].quote]
       IN /\ orders[i].owner = quote.owner /\ orders[i].rate = quote.rate
          /\ orders[i].address = quote.address /\ orders[i].asked < quote.expires

\* The numbers of the orders that exist are 1..n, each once: a number two
\* placements computed goes to one of them, and a refused one is not lost.
OrderNumbersConsecutive == {orders[i].number : i \in DOMAIN orders} = 1..Len(orders)

\* Consumers learn of every order and never of one that was rolled back; a
\* confirmed order asks for allocation, and its fuel is reported reserved or it
\* reports its cancellation, not both (ADR-012).
OutboxTellsOrders ==
  /\ \A e \in outbox : \E i \in DOMAIN orders : orders[i].number = e[1]
  /\ \A i \in DOMAIN orders :
       LET told == {e[2] : e \in {e \in outbox : e[1] = orders[i].number}}
       IN /\ CREATED \in told
          /\ ALLOCATION_REQUESTED \in told <=> orders[i].mode = "CASH_ON_DELIVERY"
          /\ CANCELLED \in told <=> orders[i].status = "CANCELLED_BY_ADMIN"
          /\ ~(CANCELLED \in told /\ RESERVED \in told)
===============================================================================
