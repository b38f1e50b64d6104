------------------------------- MODULE ApiAccess -------------------------------
(***************************************************************************)
(* Who may call what (shared/middleware/authenticate and authorize, the      *)
(* routers, shared/constants/rbac and token.service).  An access token is    *)
(* never looked up: it carries what its account was allowed when it was      *)
(* signed.  A route is the principal its router is for and the permission it *)
(* asks for; routes that ask for the same are one.  Nothing in the code      *)
(* blocks an account or changes its role: that is done from outside.         *)
(***************************************************************************)
EXTENDS Requests, Integers

CONSTANTS
  Account,
  AccessLife,   \* JWT_ACCESS_EXPIRES_IN, in ticks
  Latency,      \* bound: ticks from reading an account to signing its token
  MaxHour       \* bound: ticks of the clock

ASSUME AccessTimes == AccessLife \in Nat \ {0} /\ Latency \in Nat /\ MaxHour \in Nat
ASSUME NoneIsNoTime == None \notin Nat

VARIABLES
  hour,
  holders,      \* users and their role
  tokens,       \* the access tokens that were signed
  lastHeld      \* history: when an account was last ACTIVE with a role, or None

access == <<hour, holders, tokens, lastHeld>>

PRINCIPALS == {"CUSTOMER", "DRIVER", "ADMIN"}

SELF_SERVICE == {"user.read.self", "user.update.self", "session.read.self", "session.revoke.self"}

CUSTOMER_SELF_SERVICE ==
  {"customer.read.self", "customer.update.self", "address.manage.self", "corporate.read.self",
   "corporate.register", "corporate.member.manage", "quote.create", "order.create", "order.read",
   "order.cancel"}

DRIVER_DUTIES ==
  {"driver.read.self", "shift.manage.self", "order.read.assigned", "delivery.execute", "delivery.submit"}

OPERATIONS ==
  {"user.read.any", "user.update.any", "user.block", "session.read.any", "session.revoke.any",
   "role.read", "permission.read", "customer.read.any", "corporate.read.any", "corporate.verify",
   "corporate.suspend", "driver.read", "driver.manage", "vehicle.read", "vehicle.manage",
   "vehicle.assign", "inventory.record", "inventory.adjust", "shift.read", "shift.manage",
   "product.read", "product.manage", "price.read", "price.manage", "tax.read", "tax.manage",
   "delivery_charge.read", "delivery_charge.manage", "order.read.all", "order.cancel",
   "order.adjust", "order.reserve"}

PERMISSIONS ==
  SELF_SERVICE \cup CUSTOMER_SELF_SERVICE \cup DRIVER_DUTIES \cup OPERATIONS
    \cup {"price.approve", "role.manage", "role.assign"}

ROLE_DEFINITIONS ==
  [SUPER_ADMIN |-> PERMISSIONS,
   ADMIN       |-> SELF_SERVICE \cup OPERATIONS,
   CUSTOMER    |-> SELF_SERVICE \cup CUSTOMER_SELF_SERVICE,
   DRIVER      |-> SELF_SERVICE \cup DRIVER_DUTIES]

ROLES == DOMAIN ROLE_DEFINITIONS

\* The roles an account of a principal is given; an operator may be made SUPER_ADMIN.
RolesOf(principal) == {principal} \cup IF principal = "ADMIN" THEN {"SUPER_ADMIN"} ELSE {}

---------------------------------------------------------------------------
\* The routers.
For(principal, permissions) == {[principal |-> principal, needs |-> p] : p \in permissions}

identityRoutes    == For(None, SELF_SERVICE \cup {None})   \* logging out asks for a token only
customerRoutes    == For("CUSTOMER", {"customer.read.self", "customer.update.self", "address.manage.self"})
corporateRoutes   == For("CUSTOMER", {"corporate.register", "corporate.read.self", "corporate.member.manage"})
pricingRoutes     == For("CUSTOMER", {"quote.create"})
catalogRoutes     == For("CUSTOMER", {None})
orderRoutes       == For("CUSTOMER", {"order.create", "order.read", "order.cancel"})
driverRoutes      == For("DRIVER", DRIVER_DUTIES)
customerAdminRoutes  == For("ADMIN", {"customer.read.any"})
corporateAdminRoutes == For("ADMIN", {"corporate.read.any", "corporate.verify", "corporate.suspend"})
orderAdminRoutes     == For("ADMIN", {"order.read.all", "order.adjust", "order.cancel", "order.reserve"})
pricingAdminRoutes   ==
  For("ADMIN", {"product.read", "product.manage", "price.read", "price.manage", "tax.read", "tax.manage",
                "delivery_charge.read", "delivery_charge.manage"})
fleetAdminRoutes     ==
  For("ADMIN", {"driver.read", "driver.manage", "shift.read", "shift.manage", "vehicle.read",
                "vehicle.manage", "vehicle.assign", "inventory.record", "inventory.adjust"})

v1Router ==
  UNION {identityRoutes, customerRoutes, corporateRoutes, pricingRoutes, catalogRoutes, orderRoutes,
         driverRoutes, customerAdminRoutes, corporateAdminRoutes, orderAdminRoutes,
         pricingAdminRoutes, fleetAdminRoutes}

\* What a router looks at before the handler runs: the token alone.
authenticate(t) == t.expires > hour

requirePrincipal(t, route) == route.principal \in {None, t.principal}

requirePermission(t, route) == route.needs \in ROLE_DEFINITIONS[t.role] \cup {None}

Admitted(t, route) == authenticate(t) /\ requirePrincipal(t, route) /\ requirePermission(t, route)

---------------------------------------------------------------------------
\* A sign-in or a refresh reads the account with its roles and asks the gates;
\* the token is signed from what was read, after the session was written.
ReadHolder(q, a) ==
  /\ At(q, "new")
  /\ IF holders[a].status = "ACTIVE"
     THEN Goto(q, [at |-> "sign", account |-> a, role |-> holders[a].role, read |-> hour])
     ELSE Leave(q)
  /\ UNCHANGED access

\* Mutant: a refresh copies the token it replaces.
RefreshFromToken(q, t) ==
  /\ At(q, "new")
  /\ Goto(q, [at |-> "sign", account |-> t.account, role |-> t.role, read |-> hour])
  /\ UNCHANGED access

\* refresh: the account is read again for the token it replaces, t.
RefreshAccess(q, t) == ReadHolder(q, t.account)

SignAccessToken(q) ==
  /\ At(q, "sign")
  /\ LET a == job[q].account
     IN tokens' = tokens \cup {[account |-> a, principal |-> holders[a].principal, role |-> job[q].role,
                                expires |-> hour + AccessLife]}
  /\ Leave(q)
  /\ UNCHANGED <<hour, holders, lastHeld>>

\* The accounts change from outside, and time passes.
Held(now, rows) ==
  [a \in Account |-> [r \in ROLES |->
     IF rows[a].status = "ACTIVE" /\ rows[a].role = r THEN now ELSE lastHeld[a][r]]]

HolderChanges(a) ==
  /\ \E s \in {"ACTIVE", "BLOCKED"}, r \in RolesOf(holders[a].principal) :
       holders' = [holders EXCEPT ![a].status = s, ![a].role = r]
  /\ lastHeld' = Held(hour, holders')
  /\ UNCHANGED <<job, hour, tokens>>

HourPasses ==
  /\ hour < MaxHour
  /\ \A q \in Request : At(q, "sign") => hour < job[q].read + Latency
  /\ hour' = hour + 1
  /\ lastHeld' = Held(hour', holders)
  /\ UNCHANGED <<job, holders, tokens>>

AccessNext(q) ==
  \/ \E a \in Account : ReadHolder(q, a)
  \/ \E t \in tokens : RefreshAccess(q, t)
  \/ SignAccessToken(q)

HolderRow == [principal : PRINCIPALS, status : {"ACTIVE", "BLOCKED"}, role : ROLES]

AccessInit ==
  /\ hour = 0 /\ tokens = {}
  /\ holders \in [Account -> {h \in HolderRow : h.role \in RolesOf(h.principal)}]
  /\ lastHeld = [a \in Account |-> [r \in ROLES |->
       IF holders[a].status = "ACTIVE" /\ holders[a].role = r THEN 0 ELSE None]]

AccessSpec ==
  /\ RequestsInit /\ AccessInit
  /\ [][(\E q \in Request : AccessNext(q)) \/ (\E a \in Account : HolderChanges(a)) \/ HourPasses]_<<job, access>>

AccessTypeOK ==
  /\ hour \in 0..MaxHour
  /\ holders \in [Account -> HolderRow]
  /\ tokens \subseteq [account : Account, principal : PRINCIPALS, role : ROLES, expires : Nat]
  /\ lastHeld \in [Account -> [ROLES -> (0..MaxHour) \cup {None}]]

---------------------------------------------------------------------------
\* BR-125: refreshing re-reads the account, so however often a client renews
\* its token, a route opens to it no later than a token's life after the
\* account was last active with a role that has the route's permission, and
\* never one of another principal's surface.
StaleAccessIsBounded ==
  \A t \in tokens, route \in v1Router :
    Admitted(t, route) =>
      /\ route.principal \in {None, holders[t.account].principal}
      /\ \E r \in RolesOf(holders[t.account].principal) :
           /\ route.needs \in ROLE_DEFINITIONS[r] \cup {None}
           /\ lastHeld[t.account][r] # None
           /\ hour < lastHeld[t.account][r] + AccessLife + Latency
===============================================================================
