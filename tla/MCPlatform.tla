------------------------------- MODULE MCPlatform -------------------------------
(***************************************************************************)
(* The services around the orders and the calls on one order, for TLC.  They *)
(* share no variable: what one asks of another is an outside answer in its   *)
(* module, so nothing is lost by running one part of the platform at a time. *)
(* Init picks the part; the others stay as they are.                         *)
(***************************************************************************)
EXTENDS SignIn, CorporateAccounts, Roster, PumpUnlock, Pricing, Placement, TaxEngine,
        Idempotency, ApiAccess, Lifecycle, OrderLifecycle, TLC

CONSTANT Parts

\* A request under a key has a key and a body.
ASSUME CallsHaveKeys == Key # {} /\ Body # {}

VARIABLE part

Cooldowns == <<1, 2>>

\* bound: the requests that run in a part, all at once or one after another.
Served ==
  [identity |-> 2, companies |-> 3, roster |-> 2, pump |-> 3, pricing |-> 2, shop |-> 2,
   access |-> 3]

vars == <<part, job, accounts, corporate, roster, pump, catalogue, shop, taxation, access,
          process, idempotency, order>>

\* Alike companies, drivers, tankers and administrators: a run begins with the first.
TheFirst(S) == CHOOSE x \in S : TRUE

BeginsWithTheFirst ==
  /\ part = "companies" => \A c \in Company, u \in Person :
       members[c][u] # None => c = TheFirst(Company) /\ u = TheFirst(Person)
  /\ part = "roster" => /\ drivers[TheFirst(Driver)] # None /\ vehicles[TheFirst(Vehicle)] # None
                        /\ \A i \in DOMAIN assignments : /\ assignments[i].driver = TheFirst(Driver)
                                                         /\ assignments[i].vehicle = TheFirst(Vehicle)
  /\ part = "pricing" => \A i \in DOMAIN prices : prices[i].author = TheFirst(Admin)

\* What the parts that do not run look like.
NoAccounts == clock = 0 /\ challenges = << >> /\ users = [p \in Phone |-> None] /\ sessions = << >>
NoCompanies ==
  /\ companies = [c \in Company |-> None]
  /\ members = [c \in Company |-> [u \in Person |-> None]]
  /\ history = [c \in Company |-> << >>]
NoRoster ==
  /\ drivers = [d \in Driver |-> None] /\ vehicles = [v \in Vehicle |-> None]
  /\ assignments = << >> /\ shifts = << >> /\ readings = [v \in Vehicle |-> << >>]
NoCatalogue == today = 1 /\ product = "ACTIVE" /\ prices = << >>
NoBook == profiles = [u \in Owner |-> None] /\ addresses = << >>
NoShop == now = 1 /\ onSale = TRUE /\ rate = 1 /\ orders = << >> /\ outbox = {} /\ quotes = << >>
NoAccess ==
  /\ hour = 0 /\ tokens = {}
  /\ holders = [a \in Account |-> [principal |-> "CUSTOMER", status |-> "BLOCKED", role |-> "CUSTOMER"]]
  /\ lastHeld = [a \in Account |-> [r \in ROLES |-> None]]
NoCalls ==
  /\ keys = [k \in Key |-> Nothing]
  /\ calls = [q \in Client |-> [at |-> "new", key |-> TheFirst(Key), body |-> TheFirst(Body),
                                answer |-> Nothing]]
NoOrder == OrderInit /\ status = "CONFIRMED"

Init ==
  /\ part \in Parts
  /\ RequestsInit /\ PumpInit /\ TaxInit /\ LifecycleInit
  /\ IF part = "identity"    THEN SignInInit      ELSE NoAccounts
  /\ IF part = "companies"   THEN CorporateInit   ELSE NoCompanies
  /\ IF part = "roster"      THEN RosterInit      ELSE NoRoster
  /\ IF part = "pricing"     THEN PricingInit     ELSE NoCatalogue
  /\ IF part = "shop"        THEN BookInit /\ PlacementInit ELSE NoBook /\ NoShop
  /\ IF part = "access"      THEN AccessInit      ELSE NoAccess
  /\ IF part = "idempotency" THEN IdempotencyInit ELSE NoCalls
  /\ IF part = "orders"      THEN OrderInit       ELSE NoOrder
  /\ BeginsWithTheFirst

\* A request may take its next statement.  Requests being alike, those of a run
\* are numbered in the order in which they arrive.
MayStep(q) ==
  At(q, "new") => q <= Served[part] /\ \A r \in 1..q - 1 : ~At(r, "new")

Steps ==
  \/ part = "identity"    /\ \E q \in Request : MayStep(q) /\ SignInNext(q)
  \/ part = "identity"    /\ Tick /\ CodesOnly
  \/ part = "companies"   /\ \E q \in Request : MayStep(q) /\ CorporateNext(q)
  \/ part = "roster"      /\ \E q \in Request : MayStep(q) /\ RosterNext(q)
  \/ part = "pump"        /\ \E q \in Request : MayStep(q) /\ PumpNext(q)
  \/ part = "pump"        /\ OrderMoves
  \/ part = "pricing"     /\ \E q \in Request : MayStep(q) /\ PricingNext(q)
  \/ part = "pricing"     /\ NextDay
  \/ part = "shop"        /\ \E q \in Request : MayStep(q) /\ PlacementNext(q)
  \/ part = "shop"        /\ (RateChanges \/ SaleChanges \/ ClockAdvances)
  \/ part = "access"      /\ \E q \in Request : MayStep(q) /\ AccessNext(q)
  \/ part = "access"      /\ (HourPasses \/ \E a \in Account : HolderChanges(a))
  \/ part = "process"     /\ LifecycleNext
  \/ part = "taxes"       /\ TaxNext
  \/ part = "idempotency" /\ \E q \in Client : IdempotencyNext(q)
  \/ part = "orders"      /\ OrderNext

Next ==
  /\ Steps
  /\ UNCHANGED part
  /\ part \in {"taxes", "idempotency", "orders"} => UNCHANGED job
  /\ part # "identity"    => UNCHANGED accounts
  /\ part # "companies"   => UNCHANGED corporate
  /\ part # "roster"      => UNCHANGED roster
  /\ part # "pump"        => UNCHANGED pump
  /\ part # "pricing"     => UNCHANGED catalogue
  /\ part # "shop"        => UNCHANGED shop
  /\ part # "access"      => UNCHANGED access
  /\ part # "process"     => UNCHANGED process
  /\ part # "taxes"       => UNCHANGED taxation
  /\ part # "idempotency" => UNCHANGED idempotency
  /\ part # "orders"      => UNCHANGED order

Spec == Init /\ [][Next]_vars

\* The type invariants of the parts.
PlatformTypeOK ==
  /\ SignInTypeOK /\ CorporateTypeOK /\ RosterTypeOK /\ PumpTypeOK /\ PricingTypeOK
  /\ BookTypeOK /\ PlacementTypeOK /\ TaxTypeOK /\ AccessTypeOK /\ LifecycleTypeOK
  /\ IdempotencyTypeOK /\ OrderTypeOK
===============================================================================
