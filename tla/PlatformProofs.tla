----------------------------- MODULE PlatformProofs -----------------------------
(***************************************************************************)
(* The services around the orders, one after the other: a handler somebody   *)
(* waits for keeps its database, a change of roles reaches the routes in     *)
(* time, a key answers once, and what each of the others promises, for any   *)
(* number of requests, accounts and rows.  The last section puts the parts   *)
(* together as MCPlatform runs them.                                         *)
(***************************************************************************)
EXTENDS MCPlatform, RosterProofs, TaxEngineProofs, OrderLifecycleProofs, FiniteSetTheorems, WellFoundedInduction, TLAPS

-----------------------------------------------------------------------------
(* The process and its requests. *)

ProcessRows == [at : {"new", "parsing", "handling", "abandoned", "left"}] \cup [at : {"done"}, health : {"up", "down"}]

\* The port is bound only on an open pool, and only the drain closes it.
BoundOnPool == boot # "connecting" /\ drain # "exiting" => pool

\* A request waited for holds the drain before the database, unless forced out.
FlightHoldsDrain ==
  \A q \in Request : InFlight(q) =>
    \/ exit = None /\ boot = "listening" /\ drain \in {"no", "closing"}
    \/ exit = "forced" /\ boot = "listening" /\ pool

ProcessIInv == LifecycleTypeOK /\ job \in [Request -> ProcessRows] /\ BoundOnPool /\ FlightHoldsDrain

-----------------------------------------------------------------------------
LEMMA ProcessInitIInv == RequestsInit /\ LifecycleInit => ProcessIInv
<1> SUFFICES ASSUME RequestsInit, LifecycleInit PROVE ProcessIInv
  OBVIOUS
<1>1. LifecycleTypeOK /\ BoundOnPool
  BY DEF LifecycleInit, LifecycleTypeOK, BoundOnPool
<1>2. [at |-> "new"] \in ProcessRows
  BY DEF ProcessRows
<1>3. job \in [Request -> ProcessRows] /\ \A q \in Request : job[q].at = "new"
  BY <1>2 DEF RequestsInit
<1> QED
  BY <1>1, <1>3 DEF ProcessIInv, FlightHoldsDrain, InFlight

\* A step that leaves the requests alone keeps what it does not touch of the process.
LEMMA BootStep ==
  ASSUME ProcessIInv, ConnectDatabase \/ Listen
  PROVE  ProcessIInv'
<1> USE NoneIsNoExit DEF ProcessIInv, LifecycleTypeOK, Running
<1>1. CASE ConnectDatabase
  <2>1. boot = "connecting" /\ job' = job /\ drain' = drain
    BY <1>1 DEF ConnectDatabase
  <2>2. \A q \in Request : ~InFlight(q)
    BY <2>1 DEF FlightHoldsDrain
  <2>3. LifecycleTypeOK' /\ BoundOnPool'
    BY <1>1 DEF ConnectDatabase, BoundOnPool
  <2> QED
    BY <2>1, <2>2, <2>3 DEF FlightHoldsDrain, InFlight
<1>2. CASE Listen
  BY <1>2 DEF Listen, BoundOnPool, FlightHoldsDrain, InFlight
<1> QED
  BY <1>1, <1>2

\* A request is in flight only if it was let in before the shutdown began.
LEMMA RequestStep ==
  ASSUME ProcessIInv, NEW q \in Request,
         ReceiveRequest(q) \/ RouteRequest(q) \/ AnswerRequest(q) \/ HangUp(q) \/ FinishAbandoned(q)
  PROVE  ProcessIInv'
<1> USE DEF ProcessIInv, At, Goto
<1>1. UNCHANGED process /\ exit = None
  BY DEF ReceiveRequest, RouteRequest, AnswerRequest, HangUp, FinishAbandoned, Running
<1>2. LifecycleTypeOK' /\ BoundOnPool'
  BY <1>1 DEF process, LifecycleTypeOK, BoundOnPool
<1>3. job' \in [Request -> ProcessRows] /\ \A r \in Request : r # q => job'[r] = job[r]
  <2>1. CASE ReceiveRequest(q)
    BY <2>1 DEF ReceiveRequest, Leave, Proceed, ProcessRows
  <2>2. CASE RouteRequest(q)
    BY <2>2 DEF RouteRequest, Leave, Proceed, ProcessRows
  <2>3. CASE AnswerRequest(q)
    BY <2>3 DEF AnswerRequest, Leave, checkDatabaseHealth, ProcessRows
  <2>4. CASE HangUp(q) \/ FinishAbandoned(q)
    BY <2>4 DEF HangUp, FinishAbandoned, Leave, Proceed, ProcessRows
  <2> QED
    BY <2>1, <2>2, <2>3, <2>4
<1>4. InFlight(q)' => boot = "listening" /\ drain \in {"no", "closing"}
  <2>1. CASE ReceiveRequest(q)
    BY <2>1 DEF ReceiveRequest, Leave, isShuttingDown, InFlight
  <2>2. CASE RouteRequest(q)
    BY <2>2, <1>1, NoneIsNoExit DEF RouteRequest, FlightHoldsDrain, InFlight
  <2>3. CASE AnswerRequest(q)
    BY <2>3 DEF AnswerRequest, Leave, InFlight
  <2>4. CASE HangUp(q)
    <3>1. job'[q] = [job[q] EXCEPT !.at = "abandoned"] /\ job[q] \in ProcessRows
      BY <2>4 DEF HangUp, Proceed
    <3>2. job'[q].at = "abandoned"
      BY <3>1 DEF ProcessRows
    <3> QED
      BY <3>2 DEF InFlight
  <2>5. CASE FinishAbandoned(q)
    BY <2>5 DEF FinishAbandoned, Leave, InFlight
  <2> QED
    BY <2>1, <2>2, <2>3, <2>4, <2>5
<1>5. FlightHoldsDrain'
  BY <1>1, <1>3, <1>4 DEF FlightHoldsDrain, InFlight, process
<1> QED
  BY <1>2, <1>3, <1>5

\* The database is closed only after the listener, and that waits for the requests.
LEMMA DrainStep ==
  ASSUME ProcessIInv, BeginShutdown \/ CloseServer \/ DisconnectDatabase \/ ExitProcess \/ ForceExit
  PROVE  ProcessIInv'
<1> USE NoneIsNoExit DEF ProcessIInv, LifecycleTypeOK, Running, BoundOnPool, FlightHoldsDrain, InFlight
<1>1. CASE BeginShutdown
  BY <1>1 DEF BeginShutdown, isShuttingDown
<1>2. CASE CloseServer
  BY <1>2 DEF CloseServer, closed
<1>3. CASE DisconnectDatabase
  BY <1>3 DEF DisconnectDatabase
<1>4. CASE ExitProcess
  BY <1>4 DEF ExitProcess
<1>5. CASE ForceExit
  BY <1>5 DEF ForceExit
<1> QED
  BY <1>1, <1>2, <1>3, <1>4, <1>5

LEMMA RestartStep ==
  ASSUME ProcessIInv, Restart
  PROVE  ProcessIInv'
<1>1. LifecycleTypeOK' /\ BoundOnPool'
  BY DEF Restart, LifecycleTypeOK, BoundOnPool
<1>2. job' \in [Request -> ProcessRows]
  BY DEF ProcessIInv, Restart, ProcessRows
<1>3. \A q \in Request : ~InFlight(q)'
  BY DEF ProcessIInv, Restart, InFlight, Unfinished, At
<1> QED
  BY <1>1, <1>2, <1>3 DEF ProcessIInv, FlightHoldsDrain

LEMMA ProcessInvariance == LifecycleSpec => []ProcessIInv
<1>1. ProcessIInv /\ LifecycleNext => ProcessIInv'
  BY BootStep, RequestStep, DrainStep, RestartStep DEF LifecycleNext
<1>2. ProcessIInv /\ UNCHANGED <<job, process>> => ProcessIInv'
  BY DEF process, ProcessIInv, LifecycleTypeOK, BoundOnPool, FlightHoldsDrain, InFlight
<1> QED
  BY ProcessInitIInv, <1>1, <1>2, PTL DEF LifecycleSpec

-----------------------------------------------------------------------------
\* The process's variables keep their types.
THEOREM ProcessTypeCorrect == LifecycleSpec => []LifecycleTypeOK
<1>1. ProcessIInv => LifecycleTypeOK
  BY DEF ProcessIInv
<1> QED
  BY <1>1, ProcessInvariance, PTL

\* Whatever order boot, signals, crashes and the backstop come in, a handler whose
\* client still waits has its database, and only a forced exit cuts one off.  The
\* drain waits for connections: of abandoned handlers nothing is promised.
THEOREM NoHandlerWithoutPool == LifecycleSpec => []HandlersKeepTheirPool
<1>1. ProcessIInv => HandlersKeepTheirPool
  BY DEF ProcessIInv, BoundOnPool, FlightHoldsDrain, HandlersKeepTheirPool
<1> QED
  BY <1>1, ProcessInvariance, PTL

-----------------------------------------------------------------------------
(* The routes and the tokens. *)

\* What an account was active with at some time, no earlier than since.
HeldSince(a, r, since) == lastHeld[a][r] # None /\ since <= lastHeld[a][r]

HoldersAreCurrent ==
  \A a \in Account : /\ holders[a].role \in RolesOf(holders[a].principal)
                     /\ holders[a].status = "ACTIVE" => lastHeld[a][holders[a].role] = hour

HeldInThePast ==
  \A a \in Account, r \in ROLES : lastHeld[a][r] # None => lastHeld[a][r] <= hour

TokensTellTheTruth ==
  \A t \in tokens : /\ t.principal = holders[t.account].principal
                    /\ t.role \in RolesOf(t.principal)
                    /\ HeldSince(t.account, t.role, t.expires - AccessLife - Latency)

\* A token about to be signed: what was read holds, and signing is not late.
SigningRow(j) ==
  /\ j.account \in Account /\ j.role \in ROLES
  /\ j.role \in RolesOf(holders[j.account].principal)
  /\ j.read \in Nat /\ j.read <= hour /\ hour <= j.read + Latency
  /\ HeldSince(j.account, j.role, j.read)

SigningIsPrompt ==
  /\ job = [q \in Request |-> job[q]]
  /\ \A q \in Request : At(q, "sign") => SigningRow(job[q])

AccessIInv ==
  /\ AccessTypeOK
  /\ HoldersAreCurrent
  /\ HeldInThePast
  /\ TokensTellTheTruth
  /\ SigningIsPrompt

-----------------------------------------------------------------------------
\* The roles by name; what they allow does not matter to their number.
LEMMA RoleNames == ROLES = {"SUPER_ADMIN", "ADMIN", "CUSTOMER", "DRIVER"}
BY DEF ROLES, ROLE_DEFINITIONS

LEMMA RolesOfPrincipals == \A p \in PRINCIPALS : RolesOf(p) \subseteq ROLES
BY RoleNames DEF RolesOf, PRINCIPALS

LEMMA AccessInitIInv == RequestsInit /\ AccessInit => AccessIInv
<1> SUFFICES ASSUME RequestsInit, AccessInit PROVE AccessIInv
  OBVIOUS
<1>1. /\ hour = 0 /\ tokens = {} /\ holders \in [Account -> HolderRow]
      /\ \A a \in Account : holders[a].role \in RolesOf(holders[a].principal)
  BY DEF AccessInit
<1>2. \A a \in Account, r \in ROLES :
        lastHeld[a][r] = IF holders[a].status = "ACTIVE" /\ holders[a].role = r THEN 0 ELSE None
  BY DEF AccessInit
<1>3. lastHeld \in [Account -> [ROLES -> (0..MaxHour) \cup {None}]]
  BY AccessTimes DEF AccessInit
<1>4. AccessTypeOK
  BY <1>1, <1>3, AccessTimes DEF AccessTypeOK
<1>5. HoldersAreCurrent /\ HeldInThePast
  BY <1>1, <1>2 DEF HoldersAreCurrent, HeldInThePast, HolderRow
<1>6. TokensTellTheTruth
  BY <1>1 DEF TokensTellTheTruth
<1>7. SigningIsPrompt
  BY DEF RequestsInit, SigningIsPrompt, At
<1> QED
  BY <1>4, <1>5, <1>6, <1>7 DEF AccessIInv

\* A request that reads an account or signs a token.
LEMMA ReadHolderStep ==
  ASSUME AccessIInv, NEW q \in Request, NEW a \in Account, ReadHolder(q, a)
  PROVE  AccessIInv'
<1> USE DEF AccessIInv
<1>1. UNCHANGED access
  BY DEF ReadHolder
<1>2. /\ AccessTypeOK' /\ HoldersAreCurrent' /\ HeldInThePast' /\ TokensTellTheTruth'
  BY <1>1 DEF access, AccessTypeOK, HoldersAreCurrent, HeldInThePast, TokensTellTheTruth, HeldSince
<1>3. \A r \in Request : r # q => job'[r] = job[r]
  BY DEF ReadHolder, Goto, Leave, SigningIsPrompt
<1>4. job' = [r \in Request |-> job'[r]]
  BY DEF ReadHolder, Goto, Leave, SigningIsPrompt
<1>5. At(q, "sign")' => SigningRow(job[q])'
  <2>1. CASE holders[a].status # "ACTIVE"
    BY <2>1 DEF ReadHolder, Goto, Leave, SigningIsPrompt, At
  <2>2. CASE holders[a].status = "ACTIVE"
    <3>1. job'[q] = [at |-> "sign", account |-> a, role |-> holders[a].role, read |-> hour]
      BY <2>2 DEF ReadHolder, Goto, SigningIsPrompt
    <3>2. hour \in Nat /\ holders[a] \in HolderRow
      BY AccessTimes DEF AccessTypeOK
    <3>3. lastHeld[a][holders[a].role] = hour /\ holders[a].role \in RolesOf(holders[a].principal)
      BY <2>2 DEF HoldersAreCurrent
    <3> QED
      BY <1>1, <3>1, <3>2, <3>3, AccessTimes, NoneIsNoTime DEF access, SigningRow, HeldSince, HolderRow
  <2> QED
    BY <2>1, <2>2
<1>6. \A r \in Request : At(r, "sign")' => SigningRow(job[r])'
  BY <1>1, <1>3, <1>5 DEF access, At, SigningIsPrompt, SigningRow, HeldSince
<1> QED
  BY <1>2, <1>4, <1>6 DEF SigningIsPrompt

LEMMA SignStep ==
  ASSUME AccessIInv, NEW q \in Request, SignAccessToken(q)
  PROVE  AccessIInv'
<1> DEFINE j == job[q]
           t == [account |-> j.account, principal |-> holders[j.account].principal, role |-> j.role,
                 expires |-> hour + AccessLife]
<1> USE DEF AccessIInv
<1>1. tokens' = tokens \cup {t} /\ UNCHANGED <<hour, holders, lastHeld>> /\ At(q, "sign")
  BY DEF SignAccessToken
<1>2. SigningRow(j)
  BY <1>1 DEF SigningIsPrompt
<1>3. hour \in Nat /\ holders[j.account] \in HolderRow
  BY <1>2, AccessTimes DEF AccessTypeOK, SigningRow
<1>4. AccessTypeOK'
  BY <1>1, <1>2, <1>3, AccessTimes DEF AccessTypeOK, HolderRow, SigningRow
<1>5. HoldersAreCurrent' /\ HeldInThePast'
  BY <1>1 DEF HoldersAreCurrent, HeldInThePast
<1>6. lastHeld[j.account][j.role] # None => lastHeld[j.account][j.role] \in Nat
  BY <1>2, AccessTimes DEF AccessTypeOK, SigningRow
<1>7. HeldSince(j.account, j.role, t.expires - AccessLife - Latency)
  BY <1>2, <1>3, <1>6, AccessTimes DEF SigningRow, HeldSince
<1>8. TokensTellTheTruth'
  BY <1>1, <1>2, <1>7 DEF TokensTellTheTruth, HeldSince, SigningRow
<1>9. SigningIsPrompt'
  BY <1>1 DEF SigningIsPrompt, SignAccessToken, Leave, Goto, At, SigningRow, HeldSince
<1> QED
  BY <1>4, <1>5, <1>8, <1>9

\* History only grows, and an active account's is up to date.
LEMMA HeldGrows ==
  ASSUME AccessTypeOK, HeldInThePast, NEW n \in 0..MaxHour, hour <= n,
         NEW rows \in [Account -> HolderRow], lastHeld' = Held(n, rows)
  PROVE  /\ lastHeld' \in [Account -> [ROLES -> (0..MaxHour) \cup {None}]]
         /\ \A a \in Account, r \in ROLES :
              /\ lastHeld'[a][r] # None => lastHeld'[a][r] <= n
              /\ lastHeld[a][r] # None => lastHeld'[a][r] # None /\ lastHeld[a][r] <= lastHeld'[a][r]
         /\ \A a \in Account : rows[a].status = "ACTIVE" => lastHeld'[a][rows[a].role] = n
<1>1. \A a \in Account, r \in ROLES :
        lastHeld'[a][r] = IF rows[a].status = "ACTIVE" /\ rows[a].role = r THEN n ELSE lastHeld[a][r]
  BY DEF Held
<1>2. lastHeld' \in [Account -> [ROLES -> (0..MaxHour) \cup {None}]]
  BY DEF Held, AccessTypeOK
<1>3. \A a \in Account : rows[a].role \in ROLES
  BY DEF HolderRow
<1>4. \A a \in Account, r \in ROLES : lastHeld[a][r] # None => lastHeld[a][r] \in Nat
  BY AccessTimes DEF AccessTypeOK
<1>5. n \in Nat /\ n # None /\ hour \in Nat
  BY AccessTimes, NoneIsNoTime DEF AccessTypeOK
<1>6. \A a \in Account, r \in ROLES : lastHeld[a][r] # None => lastHeld[a][r] <= n
  BY <1>4, <1>5 DEF HeldInThePast
<1> QED
  BY <1>1, <1>2, <1>3, <1>4, <1>5, <1>6

\* What tokens and requests rest on survives while the history grows.
LEMMA OutsideStep ==
  ASSUME AccessIInv, (\E a \in Account : HolderChanges(a)) \/ HourPasses
  PROVE  AccessIInv'
<1> USE DEF AccessIInv
<1>1. /\ hour' \in 0..MaxHour /\ hour <= hour' /\ hour \in Nat
      /\ \A q \in Request : At(q, "sign") => hour' <= job[q].read + Latency
  <2>1. hour \in Nat /\ hour <= MaxHour
    BY AccessTimes DEF AccessTypeOK
  <2>2. \A q \in Request : At(q, "sign") => job[q].read \in Nat /\ hour <= job[q].read + Latency
    BY DEF SigningIsPrompt, SigningRow
  <2>3. CASE \E a \in Account : HolderChanges(a)
    <3>1. hour' = hour
      BY <2>3 DEF HolderChanges
    <3> QED
      BY <2>1, <2>2, <3>1, AccessTimes
  <2>4. CASE HourPasses
    <3>1. /\ hour' = hour + 1 /\ hour < MaxHour
          /\ \A q \in Request : At(q, "sign") => hour < job[q].read + Latency
      BY <2>4 DEF HourPasses
    <3> QED
      BY <2>1, <2>2, <3>1, AccessTimes
  <2> QED
    BY <2>3, <2>4
<1>2. /\ holders' \in [Account -> HolderRow]
      /\ \A a \in Account : /\ holders'[a].principal = holders[a].principal
                             /\ holders'[a].role \in RolesOf(holders[a].principal)
  <2>1. ASSUME NEW a \in Account, HolderChanges(a)
        PROVE  /\ holders' \in [Account -> HolderRow]
               /\ \A b \in Account : /\ holders'[b].principal = holders[b].principal
                                      /\ holders'[b].role \in RolesOf(holders[b].principal)
    <3>1. PICK s \in {"ACTIVE", "BLOCKED"}, r \in RolesOf(holders[a].principal) :
            holders' = [holders EXCEPT ![a].status = s, ![a].role = r]
      BY <2>1 DEF HolderChanges
    <3>2. holders \in [Account -> HolderRow]
      BY DEF AccessTypeOK
    <3>3. r \in ROLES
      BY <3>2, RolesOfPrincipals DEF HolderRow
    <3>4. /\ holders'[a] \in HolderRow /\ holders'[a].principal = holders[a].principal
          /\ holders'[a].role = r
      BY <3>1, <3>2, <3>3 DEF HolderRow
    <3>5. \A b \in Account : b # a => holders'[b] = holders[b]
      BY <3>1, <3>2
    <3>6. holders' = [b \in Account |-> holders'[b]]
      BY <3>1, <3>2
    <3> QED
      BY <3>2, <3>4, <3>5, <3>6 DEF HoldersAreCurrent
  <2>2. CASE HourPasses
    BY <2>2 DEF HourPasses, AccessTypeOK, HoldersAreCurrent
  <2> QED
    BY <2>1, <2>2
<1>3. lastHeld' = Held(hour', holders') /\ UNCHANGED <<job, tokens>>
  BY DEF HolderChanges, HourPasses
<1>4. /\ lastHeld' \in [Account -> [ROLES -> (0..MaxHour) \cup {None}]]
      /\ \A a \in Account, r \in ROLES :
           /\ lastHeld'[a][r] # None => lastHeld'[a][r] <= hour'
           /\ lastHeld[a][r] # None => lastHeld'[a][r] # None /\ lastHeld[a][r] <= lastHeld'[a][r]
      /\ \A a \in Account : holders'[a].status = "ACTIVE" => lastHeld'[a][holders'[a].role] = hour'
  BY <1>1, <1>2, <1>3, HeldGrows
<1>5. AccessTypeOK' /\ HoldersAreCurrent' /\ HeldInThePast'
  BY <1>1, <1>2, <1>3, <1>4 DEF AccessTypeOK, HoldersAreCurrent, HeldInThePast
<1>6. ASSUME NEW a \in Account, NEW r \in ROLES, NEW since \in Int, HeldSince(a, r, since)
      PROVE  HeldSince(a, r, since)'
  <2>1. lastHeld[a][r] \in Nat /\ lastHeld'[a][r] \in Nat
    BY <1>4, <1>6, AccessTimes DEF HeldSince, AccessTypeOK
  <2> QED
    BY <1>4, <1>6, <2>1 DEF HeldSince
<1>7. TokensTellTheTruth'
  <2> SUFFICES ASSUME NEW t \in tokens
               PROVE  /\ t.principal = holders'[t.account].principal
                      /\ t.role \in RolesOf(t.principal)
                      /\ HeldSince(t.account, t.role, t.expires - AccessLife - Latency)'
    BY <1>3 DEF TokensTellTheTruth, HeldSince
  <2>1. t.account \in Account /\ t.role \in ROLES /\ t.expires - AccessLife - Latency \in Int
    BY AccessTimes DEF AccessTypeOK
  <2> QED
    BY <1>2, <1>6, <2>1 DEF TokensTellTheTruth
<1>8. SigningIsPrompt'
  <2> SUFFICES ASSUME NEW q \in Request, At(q, "sign") PROVE SigningRow(job[q])'
    BY <1>3 DEF SigningIsPrompt, At, SigningRow, HeldSince
  <2>1. SigningRow(job[q])
    BY DEF SigningIsPrompt
  <2>2. hour' <= job[q].read + Latency
    BY <1>1
  <2>3. job' = job /\ job[q].read \in Int /\ job[q].read <= hour'
    BY <1>1, <1>3, <2>1 DEF SigningRow
  <2>4. HeldSince(job[q].account, job[q].role, job[q].read)'
    BY <1>6, <2>1, <2>3 DEF SigningRow, HeldSince
  <2> QED
    BY <1>2, <2>1, <2>2, <2>3, <2>4 DEF SigningRow
<1> QED
  BY <1>5, <1>7, <1>8

LEMMA AccessInvariance == AccessSpec => []AccessIInv
<1> DEFINE Moves == (\E q \in Request : AccessNext(q)) \/ (\E a \in Account : HolderChanges(a)) \/ HourPasses
<1>1. ASSUME AccessIInv, NEW q \in Request, AccessNext(q) PROVE AccessIInv'
  <2>1. \A t \in tokens : t.account \in Account
    BY <1>1 DEF AccessIInv, AccessTypeOK
  <2> QED
    BY <1>1, <2>1, ReadHolderStep, SignStep DEF AccessNext, RefreshAccess
<1>2. AccessIInv /\ Moves => AccessIInv'
  BY <1>1, OutsideStep
<1>3. AccessIInv /\ UNCHANGED <<job, access>> => AccessIInv'
  BY DEF access, AccessIInv, AccessTypeOK, HoldersAreCurrent, HeldInThePast, TokensTellTheTruth,
         SigningIsPrompt, SigningRow, HeldSince, At
<1>4. AccessIInv /\ [Moves]_<<job, access>> => AccessIInv'
  BY <1>2, <1>3
<1> QED
  BY AccessInitIInv, <1>4, PTL DEF AccessSpec

-----------------------------------------------------------------------------
\* Accounts, tokens and the history keep their types.
THEOREM AccessTypeCorrect == AccessSpec => []AccessTypeOK
<1>1. AccessIInv => AccessTypeOK
  BY DEF AccessIInv
<1> QED
  BY <1>1, AccessInvariance, PTL

\* However often a token is renewed, a route is closed to an account a token's
\* life after it last had a role for the route, and to other principals always.
THEOREM AccessEndsWithARole == AccessSpec => []StaleAccessIsBounded
<1>1. ASSUME AccessIInv PROVE StaleAccessIsBounded
  <2> SUFFICES ASSUME NEW t \in tokens, NEW route \in v1Router, Admitted(t, route)
               PROVE  /\ route.principal \in {None, holders[t.account].principal}
                      /\ \E r \in RolesOf(holders[t.account].principal) :
                           /\ route.needs \in ROLE_DEFINITIONS[r] \cup {None}
                           /\ lastHeld[t.account][r] # None
                           /\ hour < lastHeld[t.account][r] + AccessLife + Latency
    BY DEF StaleAccessIsBounded
  <2>1. /\ t.principal = holders[t.account].principal
        /\ t.role \in RolesOf(t.principal)
        /\ HeldSince(t.account, t.role, t.expires - AccessLife - Latency)
    BY <1>1 DEF AccessIInv, TokensTellTheTruth
  <2>2. /\ t.expires > hour /\ route.principal \in {None, t.principal}
        /\ route.needs \in ROLE_DEFINITIONS[t.role] \cup {None}
    BY DEF Admitted, authenticate, requirePrincipal, requirePermission
  <2>3. /\ t.expires \in Nat /\ hour \in Nat /\ t.account \in Account /\ t.role \in ROLES
        /\ lastHeld[t.account][t.role] \in (0..MaxHour) \cup {None}
    BY <1>1, AccessTimes DEF AccessIInv, AccessTypeOK
  <2>4. lastHeld[t.account][t.role] # None /\ hour < lastHeld[t.account][t.role] + AccessLife + Latency
    BY <2>1, <2>2, <2>3, AccessTimes DEF HeldSince
  <2> QED
    BY <2>1, <2>2, <2>4
<1> QED
  BY <1>1, AccessInvariance, PTL

-----------------------------------------------------------------------------
(* The pump and the order it stands beside. *)

OnSite == {"ARRIVED", "DISPENSING"} \cup OutcomeRecorded \cup Terminal

PumpRows ==
  [at : {"new", "left"}] \cup [at : {"existing"}, held : BOOLEAN]
    \cup [at : {"authorize"}, looked : Nat] \cup [at : {"record"}, reply : Reply, looked : Nat]
    \cup [at : {"done"}, authorization : Nat]

AuthorizedRows == {i \in DOMAIN authorizations : authorizations[i].status = "AUTHORIZED"}

\* Authorisations are looked up newest first, and there is a newest.
NewestAuthorized == AuthorizedRows # {} => \E i \in AuthorizedRows : \A k \in AuthorizedRows : k <= i

\* Whoever is past the look at the order has seen it where the tanker is, and the
\* pump took the pin of whoever has an authorisation to show or to record.
UnlockFounded(r) ==
  /\ r.at \in {"existing", "authorize", "record"} => orderStatus \in OnSite
  /\ r.at = "done" => r.authorization \in AuthorizedRows

\* Whoever asks the pump found no unlock among the rows it looked at.
LookedBefore(r) ==
  r.at \in {"authorize", "record"} =>
    r.looked <= Len(authorizations) /\ \A i \in AuthorizedRows : r.looked < i

PumpIInv ==
  /\ PumpTypeOK
  /\ job \in [Request -> PumpRows]
  /\ granted # {} => orderStatus \in OnSite
  /\ \A q \in Request : UnlockFounded(job[q])
  /\ \A q \in Request : LookedBefore(job[q])
  /\ \A i, k \in AuthorizedRows : i < k => authorizations[k].looked < i
  /\ \A q \in Request : job[q].at = "record" /\ job[q].reply = "AUTHORIZED" => q \in granted
  /\ \A i \in AuthorizedRows : authorizations[i].by \in granted
  /\ NewestAuthorized

\* An order does not leave the site again except to its end.
LEMMA SiteIsFinal ==
  ASSUME NEW from, NEW to, NEW actor, CanTransition(from, to, actor), from \in OnSite
  PROVE  to \in OnSite
<1>1. PICK t \in TransitionTable : t.from = from /\ t.to = to /\ actor \in t.actors
  BY DEF CanTransition
<1>2. from \notin Terminal
  BY DEF CanTransition
<1>3. CASE t \in TRANSITIONS
  BY <1>1, <1>2, <1>3 DEF TRANSITIONS, Row, OnSite, OutcomeRecorded, Terminal
<1>4. CASE t \in CUSTOMER_CANCELLATIONS
  BY <1>1, <1>4 DEF CUSTOMER_CANCELLATIONS, Row, OnSite, Terminal
<1>5. CASE t \in ADMIN_CANCELLATIONS
  BY <1>1, <1>5 DEF ADMIN_CANCELLATIONS, Row, OnSite, Terminal
<1> QED
  BY <1>1, <1>3, <1>4, <1>5 DEF TransitionTable

LEMMA NewestIs ==
  ASSUME PumpIInv
  PROVE  /\ findAuthorized # 0 => findAuthorized \in AuthorizedRows
         /\ findAuthorized = 0 => AuthorizedRows = {}
<1>1. CASE AuthorizedRows = {}
  BY <1>1 DEF findAuthorized, AuthorizedRows
<1>2. CASE AuthorizedRows # {}
  <2>1. \E i \in AuthorizedRows : \A k \in AuthorizedRows : k <= i
    BY <1>2 DEF PumpIInv, NewestAuthorized
  <2>2. findAuthorized = CHOOSE i \in AuthorizedRows : \A k \in AuthorizedRows : k <= i
    BY <1>2 DEF findAuthorized, AuthorizedRows
  <2>3. 0 \notin AuthorizedRows
    BY DEF AuthorizedRows, PumpIInv, PumpTypeOK
  <2> QED
    BY <1>2, <2>1, <2>2, <2>3
<1> QED
  BY <1>1, <1>2

LEMMA PumpRowFields ==
  ASSUME NEW r \in PumpRows
  PROVE  /\ r.at = "existing" => r.held \in BOOLEAN
         /\ r.at \in {"authorize", "record"} => r.looked \in Nat
         /\ r.at = "record" => r.reply \in Reply
         /\ r.at = "done" => r.authorization \in Nat
         /\ "authorization" \in DOMAIN r => r.at = "done"
BY DEF PumpRows

LEMMA PumpInitIInv == RequestsInit /\ PumpInit => PumpIInv
<1> SUFFICES ASSUME RequestsInit, PumpInit PROVE PumpIInv
  OBVIOUS
<1>1. PumpTypeOK /\ AuthorizedRows = {}
  BY MovesBounded DEF PumpInit, PumpTypeOK, AuthorizedRows, Status
<1>2. [at |-> "new"] \in PumpRows
  BY DEF PumpRows
<1>3. job \in [Request -> PumpRows] /\ \A q \in Request : job[q].at = "new"
  BY <1>2 DEF RequestsInit
<1> QED
  BY <1>1, <1>3 DEF PumpIInv, PumpInit, UnlockFounded, LookedBefore, NewestAuthorized

\* A statement that only reads.
LEMMA UnlockReads ==
  ASSUME PumpIInv, NEW q \in Request, NEW r \in PumpRows, r.at # "record", UnlockFounded(r),
         LookedBefore(r), Goto(q, r), UNCHANGED pump
  PROVE  PumpIInv'
<1>1. job' \in [Request -> PumpRows] /\ \A p \in Request : job'[p] = IF p = q THEN r ELSE job[p]
  BY DEF PumpIInv, Goto
<1>2. \A p \in Request : UnlockFounded(job'[p])
  BY <1>1 DEF PumpIInv
<1>3. (\A p \in Request : UnlockFounded(job[p]))'
  BY <1>2 DEF UnlockFounded, pump, AuthorizedRows
<1>5. \A p \in Request : LookedBefore(job'[p])
  BY <1>1 DEF PumpIInv
<1>6. (\A p \in Request : LookedBefore(job[p]))'
  BY <1>5 DEF LookedBefore, pump, AuthorizedRows
<1>4. PumpTypeOK' /\ NewestAuthorized' /\ AuthorizedRows' = AuthorizedRows
  BY DEF PumpIInv, pump, PumpTypeOK, NewestAuthorized, AuthorizedRows
<1> QED
  BY <1>1, <1>3, <1>4, <1>6 DEF PumpIInv, pump

LEMMA UnlockLeaves ==
  [at |-> "left"] \in PumpRows /\ UnlockFounded([at |-> "left"]) /\ LookedBefore([at |-> "left"])
BY DEF PumpRows, UnlockFounded, LookedBefore

LEMMA FindOrderStep ==
  ASSUME PumpIInv, NEW q \in Request, FindOrder(q)
  PROVE  PumpIInv'
<1> DEFINE r == [at |-> "existing", held |-> held]
<1>1. r \in PumpRows
  BY DEF PumpIInv, PumpTypeOK, PumpRows
<1>2. r.at = "existing" /\ UnlockFounded(r) /\ LookedBefore(r)
  BY DEF FindOrder, UnlockFounded, LookedBefore, ALLOWED_STATUSES, OnSite
<1> QED
  BY <1>1, <1>2, UnlockReads DEF FindOrder

LEMMA FindExistingStep ==
  ASSUME PumpIInv, NEW q \in Request, FindExisting(q)
  PROVE  PumpIInv'
<1>1. job[q] \in PumpRows /\ job[q].at = "existing" /\ UNCHANGED pump /\ orderStatus \in OnSite
  BY DEF FindExisting, At, PumpIInv, UnlockFounded
<1>2. CASE findAuthorized # 0
  <2> DEFINE r == [at |-> "done", authorization |-> findAuthorized]
  <2>1. findAuthorized \in AuthorizedRows /\ findAuthorized \in Nat
    BY <1>2, NewestIs DEF AuthorizedRows, PumpIInv, PumpTypeOK
  <2>2. r \in PumpRows /\ r.at = "done" /\ UnlockFounded(r) /\ LookedBefore(r)
    BY <2>1 DEF PumpRows, UnlockFounded, LookedBefore
  <2>3. Goto(q, r)
    BY <1>2 DEF FindExisting
  <2> QED
    BY <1>1, <2>2, <2>3, UnlockReads
<1>3. CASE findAuthorized = 0 /\ job[q].held
  <2> DEFINE r == [at |-> "authorize", looked |-> Len(authorizations)]
  <2>1. Len(authorizations) \in Nat
    BY DEF PumpIInv, PumpTypeOK
  <2>2. Goto(q, r)
    BY <1>3 DEF FindExisting
  <2>3. AuthorizedRows = {}
    BY <1>3, NewestIs
  <2>4. r \in PumpRows /\ r.at = "authorize" /\ r.looked = Len(authorizations)
    BY <2>1 DEF PumpRows
  <2> HIDE DEF r
  <2>5. UnlockFounded(r) /\ LookedBefore(r)
    BY <1>1, <2>1, <2>3, <2>4 DEF UnlockFounded, LookedBefore
  <2> QED
    BY <1>1, <2>2, <2>4, <2>5, UnlockReads
<1>4. CASE findAuthorized = 0 /\ ~ job[q].held
  BY <1>1, <1>4, UnlockLeaves, UnlockReads DEF FindExisting, Leave
<1> QED
  BY <1>2, <1>3, <1>4

\* The device decides; its answer may be lost after it granted the unlock.
LEMMA AuthorizeStep ==
  ASSUME PumpIInv, NEW q \in Request, Authorize(q)
  PROVE  PumpIInv'
<1>1. job[q].at = "authorize" /\ orderStatus \in OnSite /\ job[q] \in PumpRows
      /\ UNCHANGED <<orderStatus, held, moves, authorizations>>
  BY DEF Authorize, At, PumpIInv, UnlockFounded
<1>2. PICK reply \in Reply :
        /\ Goto(q, [at |-> "record", reply |-> reply, looked |-> job[q].looked])
        /\ granted' \in CASE reply = "AUTHORIZED" -> {granted \cup {q}}
                          [] reply = "REFUSED"    -> {granted}
                          [] reply = "FAILED"     -> {granted, granted \cup {q}}
  BY DEF Authorize
<1> DEFINE r == [at |-> "record", reply |-> reply, looked |-> job[q].looked]
<1>3. /\ granted \subseteq granted' /\ granted' \subseteq granted \cup {q}
      /\ reply = "AUTHORIZED" => q \in granted'
  <2>1. CASE reply = "AUTHORIZED"
    BY <1>2, <2>1
  <2>2. CASE reply = "REFUSED"
    BY <1>2, <2>2
  <2>3. CASE reply = "FAILED"
    BY <1>2, <2>3
  <2> QED
    BY <2>1, <2>2, <2>3 DEF Reply
<1>4. r \in PumpRows /\ r.at = "record" /\ r.reply = reply /\ r.looked = job[q].looked
  BY <1>1, PumpRowFields DEF PumpRows
<1>5. job' \in [Request -> PumpRows] /\ \A p \in Request : job'[p] = IF p = q THEN r ELSE job[p]
  BY <1>2, <1>4 DEF PumpIInv, Goto
<1> HIDE DEF r
<1>6. PumpTypeOK'
  BY <1>1, <1>3 DEF PumpIInv, PumpTypeOK
<1>7. AuthorizedRows' = AuthorizedRows /\ NewestAuthorized'
  BY <1>1 DEF AuthorizedRows, NewestAuthorized, PumpIInv
<1>8. (\A p \in Request : UnlockFounded(job[p]))'
  BY <1>1, <1>4, <1>5, <1>7 DEF UnlockFounded, PumpIInv
<1>9. \A p \in Request : job'[p].at = "record" /\ job'[p].reply = "AUTHORIZED" => p \in granted'
  BY <1>3, <1>4, <1>5 DEF PumpIInv
<1>10. \A i \in AuthorizedRows' : authorizations'[i].by \in granted'
  BY <1>1, <1>3, <1>7 DEF PumpIInv
<1>11. (\A p \in Request : LookedBefore(job[p]))'
  BY <1>1, <1>4, <1>5, <1>7 DEF LookedBefore, PumpIInv
<1>12. (\A i, k \in AuthorizedRows : i < k => authorizations[k].looked < i)'
  BY <1>1, <1>7 DEF PumpIInv
<1> QED
  BY <1>1, <1>5, <1>6, <1>7, <1>8, <1>9, <1>10, <1>11, <1>12 DEF PumpIInv

\* The new row is the newest there is.
LEMMA RecordAuthorizationStep ==
  ASSUME PumpIInv, NEW q \in Request, RecordAuthorization(q)
  PROVE  PumpIInv'
<1> DEFINE row == [by |-> q, status |-> job[q].reply, looked |-> job[q].looked]
           n == Len(authorizations)
<1>1. /\ job[q].at = "record" /\ job[q].reply \in Reply /\ job[q].looked \in Nat /\ orderStatus \in OnSite
      /\ UNCHANGED <<orderStatus, held, moves, granted>>
  BY PumpRowFields DEF RecordAuthorization, At, PumpIInv, UnlockFounded
<1>2. row \in AuthorizationRow /\ row.by = q /\ row.status = job[q].reply /\ row.looked = job[q].looked
  BY <1>1 DEF AuthorizationRow
<1>3. authorizations \in Seq(AuthorizationRow) /\ authorizations' = Append(authorizations, row)
  BY DEF RecordAuthorization, PumpIInv, PumpTypeOK
<1> HIDE DEF row
<1>4. /\ n \in Nat /\ DOMAIN authorizations = 1..n /\ DOMAIN authorizations' = 1..(n + 1)
      /\ authorizations' \in Seq(AuthorizationRow)
      /\ \A i \in 1..n : authorizations'[i] = authorizations[i]
      /\ authorizations'[n + 1] = row
      /\ Len(authorizations) = n /\ Len(authorizations') = n + 1
  BY <1>2, <1>3
<1> DEFINE r == IF job[q].reply = "AUTHORIZED" THEN [at |-> "done", authorization |-> n + 1]
                                                ELSE [at |-> "left"]
<1>5. Goto(q, r)
  BY DEF RecordAuthorization, Leave
<1> HIDE DEF n
<1>6. /\ AuthorizedRows' = IF row.status = "AUTHORIZED" THEN AuthorizedRows \cup {n + 1} ELSE AuthorizedRows
      /\ AuthorizedRows \subseteq 1..n
  BY <1>4 DEF AuthorizedRows
<1>7. /\ r \in PumpRows /\ r.at \in {"done", "left"}
      /\ r.at = "done" => r.authorization = n + 1 /\ row.status = "AUTHORIZED"
  BY <1>2, <1>4 DEF PumpRows
<1>8. job' \in [Request -> PumpRows] /\ \A p \in Request : job'[p] = IF p = q THEN r ELSE job[p]
  BY <1>5, <1>7 DEF PumpIInv, Goto
<1> HIDE DEF r
<1>9. PumpTypeOK'
  BY <1>1, <1>4 DEF PumpIInv, PumpTypeOK
<1>10. NewestAuthorized'
  <2>1. CASE row.status = "AUTHORIZED"
    <3>1. AuthorizedRows' = AuthorizedRows \cup {n + 1}
      BY <1>6, <2>1
    <3>2. n \in Nat /\ AuthorizedRows \subseteq 1..n
      BY <1>4, <1>6
    <3>3. \A i \in AuthorizedRows' : i <= n + 1
      BY <3>1, <3>2
    <3> QED
      BY <3>1, <3>3 DEF NewestAuthorized
  <2>2. CASE row.status # "AUTHORIZED"
    BY <1>6, <2>2 DEF NewestAuthorized, PumpIInv
  <2> QED
    BY <2>1, <2>2
<1>11. (\A p \in Request : UnlockFounded(job[p]))'
  <2>1. \A i \in AuthorizedRows : i \in AuthorizedRows'
    BY <1>6
  <2>2. r.at = "done" => r.authorization \in AuthorizedRows'
    BY <1>6, <1>7
  <2>3. \A p \in Request : UnlockFounded(job[p])
    BY DEF PumpIInv
  <2>4. ASSUME NEW p \in Request, p # q PROVE UnlockFounded(job[p])'
    BY <1>1, <1>8, <2>1, <2>3, <2>4 DEF UnlockFounded
  <2>5. UnlockFounded(job[q])'
    BY <1>1, <1>7, <1>8, <2>2 DEF UnlockFounded
  <2> QED
    BY <2>4, <2>5
<1>12. \A p \in Request : job'[p].at = "record" /\ job'[p].reply = "AUTHORIZED" => p \in granted'
  BY <1>1, <1>7, <1>8 DEF PumpIInv
<1>13. \A i \in AuthorizedRows' : authorizations'[i].by \in granted'
  <2>1. row.status = "AUTHORIZED" => row.by \in granted
    BY <1>1, <1>2 DEF PumpIInv
  <2> QED
    BY <1>1, <1>4, <1>6, <2>1 DEF PumpIInv
<1>14. \A p \in Request : LookedBefore(job[p])
  BY DEF PumpIInv
<1>15. (\A p \in Request : LookedBefore(job[p]))'
  <2>1. ASSUME NEW p \in Request, p # q, job[p].at \in {"authorize", "record"}
        PROVE  job[p].looked <= n + 1 /\ \A i \in AuthorizedRows' : job[p].looked < i
    <3>1. job[p].looked \in Nat /\ job[p].looked <= n /\ \A i \in AuthorizedRows : job[p].looked < i
      BY <1>4, <1>14, <2>1, PumpRowFields DEF LookedBefore, PumpIInv
    <3>2. job[p].looked < n + 1
      BY <1>4, <3>1
    <3> QED
      BY <1>4, <1>6, <3>1, <3>2
  <2>2. ASSUME NEW p \in Request, p # q PROVE LookedBefore(job[p])'
    BY <1>4, <1>8, <2>1, <2>2 DEF LookedBefore
  <2>3. LookedBefore(job[q])'
    BY <1>7, <1>8 DEF LookedBefore
  <2> QED
    BY <2>2, <2>3
<1>16. \A i, k \in AuthorizedRows' : i < k => authorizations'[k].looked < i
  <2>1. \A i \in AuthorizedRows : row.looked < i
    BY <1>1, <1>2, <1>14 DEF LookedBefore
  <2>2. \A i, k \in AuthorizedRows : i < k => authorizations'[k].looked < i
    BY <1>4, <1>6 DEF PumpIInv
  <2>3. \A k \in AuthorizedRows : ~(n + 1 < k)
    BY <1>4, <1>6
  <2> QED
    BY <1>4, <1>6, <2>1, <2>2, <2>3
<1> QED
  BY <1>1, <1>8, <1>9, <1>10, <1>11, <1>12, <1>13, <1>15, <1>16 DEF PumpIInv

LEMMA OrderMovesStep ==
  ASSUME PumpIInv, OrderMoves
  PROVE  PumpIInv'
<1>1. PICK to \in Status, actor \in Actor : CanTransition(orderStatus, to, actor) /\ orderStatus' = to
  BY DEF OrderMoves
<1>2. /\ moves < MaxMoves /\ moves' = moves + 1 /\ UNCHANGED <<job, authorizations, granted>>
      /\ held' \in {FALSE, TRUE, held}
  BY DEF OrderMoves
<1>3. orderStatus \in OnSite => orderStatus' \in OnSite
  BY <1>1, SiteIsFinal
<1>4. PumpTypeOK'
  <2>1. held' \in BOOLEAN
    BY <1>2 DEF PumpIInv, PumpTypeOK
  <2>2. moves' \in 0..MaxMoves
    BY <1>2, MovesBounded DEF PumpIInv, PumpTypeOK
  <2> QED
    BY <1>1, <1>2, <2>1, <2>2 DEF PumpIInv, PumpTypeOK
<1>5. AuthorizedRows' = AuthorizedRows /\ NewestAuthorized'
  BY <1>2 DEF AuthorizedRows, NewestAuthorized, PumpIInv
<1>6. (\A p \in Request : UnlockFounded(job[p]))'
  BY <1>2, <1>3, <1>5 DEF UnlockFounded, PumpIInv
<1>7. (\A p \in Request : LookedBefore(job[p]))'
  BY <1>2, <1>5 DEF LookedBefore, PumpIInv
<1> QED
  BY <1>2, <1>3, <1>4, <1>5, <1>6, <1>7 DEF PumpIInv

LEMMA PumpInvariance == PumpSpec => []PumpIInv
<1> DEFINE Moves == (\E q \in Request : PumpNext(q)) \/ OrderMoves
<1>1. PumpIInv /\ Moves => PumpIInv'
  BY FindOrderStep, FindExistingStep, AuthorizeStep, RecordAuthorizationStep, OrderMovesStep DEF PumpNext
<1>2. PumpIInv /\ UNCHANGED <<job, pump>> => PumpIInv'
  BY DEF PumpIInv, pump, PumpTypeOK, UnlockFounded, LookedBefore, AuthorizedRows, NewestAuthorized
<1>3. PumpIInv /\ [Moves]_<<job, pump>> => PumpIInv'
  BY <1>1, <1>2
<1> QED
  BY PumpInitIInv, <1>3, PTL DEF PumpSpec

\* The pump's rows and the order beside them keep their types.
THEOREM PumpTypeCorrect == PumpSpec => []PumpTypeOK
<1>1. PumpIInv => PumpTypeOK
  BY DEF PumpIInv
<1> QED
  BY <1>1, PumpInvariance, PTL

\* However many taps, lost answers and moves of the order there are, the pump is unlocked only where
\* the tanker is, every pin shown or waited for is one the pump took, and nobody who asks once an
\* unlock is on record gets another (iot-dispense.service.js, getOwnOrderPumpPin).
THEOREM PinsOpenPumps == PumpSpec => []PinOpensPumpOnSite
<1>1. ASSUME PumpIInv PROVE PinOpensPumpOnSite
  <2>1. getOwnOrderPumpPin \in granted \cup {None}
    BY <1>1, NewestIs DEF getOwnOrderPumpPin, PumpIInv
  <2>2. ASSUME NEW q \in Request, "authorization" \in DOMAIN job[q]
        PROVE  authorizations[job[q].authorization].by \in granted
    <3>1. job[q].at = "done"
      BY <1>1, <2>2, PumpRowFields DEF PumpIInv
    <3> QED
      BY <1>1, <3>1 DEF PumpIInv, UnlockFounded
  <2>3. ASSUME NEW i \in DOMAIN authorizations, NEW k \in DOMAIN authorizations, i < k,
               authorizations[i].status = "AUTHORIZED", authorizations[k].status = "AUTHORIZED"
        PROVE  authorizations[k].looked < i
    BY <1>1, <2>3 DEF PumpIInv, AuthorizedRows
  <2> QED
    BY <1>1, <2>1, <2>2, <2>3 DEF PumpIInv, PinOpensPumpOnSite, OnSite
<1> QED
  BY <1>1, PumpInvariance, PTL

-----------------------------------------------------------------------------
(* The timeline of a price. *)

InBand(was, to) == (to - was) * 100 <= SanityBand * was /\ (was - to) * 100 <= SanityBand * was

PublishAsk  == [at : {"publish:current"}, scope : PriceScope, rate : Rate, from : Nat, admin : Admin]
PublishJob  == [at : {"publish"}, current : Nat, held : BOOLEAN, row : PriceRow]
ActivateAsk == [at : {"activate:current"}, price : Nat, scope : PriceScope, from : Nat,
                approver : Admin \cup {None}]
ActivateJob == [at : {"supersede", "activate"}, price : Nat, scope : Nat, from : Nat,
                approver : Admin \cup {None}]
WithdrawJob == [at : {"withdraw"}, price : Nat, to : {"CANCELLED", "DRAFT"}, ends : BOOLEAN]

PriceJobs ==
  UNION {[at : {"new", "left"}], PublishAsk, PublishJob, ActivateAsk, ActivateJob, WithdrawJob}

\* A rate about to be published that is not held is in the band of the rate it replaces:
\* that rate may meanwhile be superseded or withdrawn, but a row never changes its rate.
PriceKnown(r) ==
  r.at = "publish" => /\ r.current \in {0} \cup DOMAIN prices
                      /\ ~ r.held /\ r.current # 0 => InBand(prices[r.current].rate, r.row.rate)

PriceIInv ==
  /\ PricingTypeOK
  /\ job \in [Request -> PriceJobs]
  /\ \A q \in Request : PriceKnown(job[q])
  /\ noOverlap(prices)

\* The rows keep their rates.
Amends(new, old) ==
  /\ new \in Seq(PriceRow) /\ Len(new) = Len(old) /\ DOMAIN new = DOMAIN old
  /\ \A k \in DOMAIN old : new[k].rate = old[k].rate

\* A row is replaced by one with the same rate, if there is such a row at all.
LEMMA RowReplaced ==
  ASSUME NEW rows \in Seq(PriceRow), NEW i, NEW row,
         i \in DOMAIN rows => row \in PriceRow /\ row.rate = rows[i].rate
  PROVE  Amends([rows EXCEPT ![i] = row], rows)
<1> DEFINE new == [rows EXCEPT ![i] = row]
<1>1. CASE i \notin DOMAIN rows
  <2>1. new = rows
    BY <1>1
  <2> QED
    BY <2>1 DEF Amends
<1>2. CASE i \in DOMAIN rows
  <2>1. new \in Seq(PriceRow) /\ Len(new) = Len(rows) /\ DOMAIN new = DOMAIN rows
    BY <1>2
  <2>2. \A k \in DOMAIN rows : new[k] = IF k = i THEN row ELSE rows[k]
    BY <1>2
  <2> QED
    BY <1>2, <2>1, <2>2 DEF Amends
<1> QED
  BY <1>1, <1>2

\* A column is written.
LEMMA ColumnOf ==
  ASSUME NEW row \in PriceRow
  PROVE  /\ \A v \in PriceStatus : LET new == [row EXCEPT !.status = v]
                                   IN new \in PriceRow /\ new.rate = row.rate
         /\ \A v \in Nat \cup {None} : LET new == [row EXCEPT !.until = v]
                                        IN new \in PriceRow /\ new.rate = row.rate
         /\ \A v \in Admin \cup {None} : LET new == [row EXCEPT !.approver = v]
                                          IN new \in PriceRow /\ new.rate = row.rate
         /\ row.rate \in Rate /\ row.from \in Nat /\ row.until \in Nat \cup {None}
         /\ row.approver \in Admin \cup {None}
BY DEF PriceRow

LEMMA ColumnWritten ==
  ASSUME NEW rows \in Seq(PriceRow), NEW i
  PROVE  /\ \A v \in PriceStatus : Amends([rows EXCEPT ![i].status = v], rows)
         /\ \A v \in Nat \cup {None} : Amends([rows EXCEPT ![i].until = v], rows)
         /\ \A v \in Admin \cup {None} : Amends([rows EXCEPT ![i].approver = v], rows)
<1>1. i \in DOMAIN rows => rows[i] \in PriceRow
  OBVIOUS
<1>2. ASSUME NEW v \in PriceStatus PROVE Amends([rows EXCEPT ![i].status = v], rows)
  BY <1>1, ColumnOf, RowReplaced
<1>3. ASSUME NEW v \in Nat \cup {None} PROVE Amends([rows EXCEPT ![i].until = v], rows)
  BY <1>1, ColumnOf, RowReplaced
<1>4. ASSUME NEW v \in Admin \cup {None} PROVE Amends([rows EXCEPT ![i].approver = v], rows)
  BY <1>1, ColumnOf, RowReplaced
<1> QED
  BY <1>2, <1>3, <1>4

LEMMA AmendsTwice ==
  ASSUME NEW a, NEW b, NEW c, Amends(b, a), Amends(c, b)
  PROVE  Amends(c, a)
BY DEF Amends

LEMMA PriceJobFields ==
  ASSUME NEW r \in PriceJobs
  PROVE  /\ r.at = "publish:current" => r \in PublishAsk
         /\ r.at = "publish" => r \in PublishJob
         /\ r.at = "activate:current" => r \in ActivateAsk
         /\ r.at \in {"supersede", "activate"} => r \in ActivateJob
         /\ r.at = "withdraw" => r \in WithdrawJob
BY DEF PriceJobs, PublishAsk, PublishJob, ActivateAsk, ActivateJob, WithdrawJob

LEMMA PriceInitIInv == RequestsInit /\ PricingInit => PriceIInv
<1> SUFFICES ASSUME RequestsInit, PricingInit PROVE PriceIInv
  OBVIOUS
<1>1. today \in 0..MaxDay /\ product \in {"ACTIVE", "INACTIVE"}
  BY TimelineBounds DEF PricingInit
<1>2. prices \in Seq(PriceRow) /\ Len(prices) <= MaxPrices /\ noOverlap(prices)
  <2>1. CASE prices = << >>
    BY <2>1, TimelineBounds DEF noOverlap
  <2>2. CASE prices # << >>
    <3>1. PICK s \in PriceScope, r \in Rate, a \in Admin :
            prices = <<[scope |-> s, rate |-> r, from |-> 0, until |-> None, status |-> "ACTIVE", held |-> FALSE,
                        author |-> a, approver |-> None]>>
      BY <2>2 DEF PricingInit
    <3> DEFINE row == [scope |-> s, rate |-> r, from |-> 0, until |-> None, status |-> "ACTIVE", held |-> FALSE,
                       author |-> a, approver |-> None]
    <3>2. row \in PriceRow
      BY DEF PriceRow, PriceStatus
    <3> HIDE DEF row
    <3>3. prices = <<row>>
      BY <3>1 DEF row
    <3> QED
      BY <3>2, <3>3, TimelineBounds DEF noOverlap
  <2> QED
    BY <2>1, <2>2
<1>3. [at |-> "new"] \in PriceJobs
  BY DEF PriceJobs
<1>4. job \in [Request -> PriceJobs] /\ \A q \in Request : job[q].at = "new"
  BY <1>3 DEF RequestsInit
<1> QED
  BY <1>1, <1>2, <1>4 DEF PriceIInv, PricingTypeOK, PriceKnown

\* A statement that only reads.
LEMMA PriceReads ==
  ASSUME PriceIInv, NEW q \in Request, NEW r \in PriceJobs, PriceKnown(r), Goto(q, r), UNCHANGED catalogue
  PROVE  PriceIInv'
<1>1. job' \in [Request -> PriceJobs] /\ \A p \in Request : job'[p] = IF p = q THEN r ELSE job[p]
  BY DEF PriceIInv, Goto
<1>2. UNCHANGED <<today, product, prices>>
  BY DEF catalogue
<1>3. (\A p \in Request : PriceKnown(job[p]))'
  BY <1>1, <1>2 DEF PriceKnown, PriceIInv
<1>4. PricingTypeOK'
  BY <1>2 DEF PricingTypeOK, PriceIInv
<1>5. noOverlap(prices)'
  BY <1>2 DEF noOverlap, overlapping, PriceIInv
<1> QED
  BY <1>1, <1>3, <1>4, <1>5 DEF PriceIInv

\* What the database accepts has no overlap, and what it refuses it leaves as it was.
LEMMA KeepsApart ==
  ASSUME PriceIInv, NEW rows, Write(rows)
  PROVE  noOverlap(prices)'
<1>1. (noOverlap(rows) /\ prices' = rows) \/ prices' = prices
  BY DEF Write, Accepted
<1> QED
  BY <1>1 DEF noOverlap, overlapping, PriceIInv

\* A statement that amends rows, accepted or refused by the database.
LEMMA PriceWrites ==
  ASSUME PriceIInv, NEW q \in Request, NEW r \in PriceJobs, r.at # "publish", Goto(q, r),
         NEW rows, Amends(rows, prices), Write(rows), UNCHANGED <<today, product>>
  PROVE  PriceIInv'
<1>1. job' \in [Request -> PriceJobs] /\ \A p \in Request : job'[p] = IF p = q THEN r ELSE job[p]
  BY DEF PriceIInv, Goto
<1>2. Amends(prices, prices)
  BY DEF Amends, PriceIInv, PricingTypeOK
<1>3. Amends(prices', prices)
  BY <1>2 DEF Write
<1>4. (\A p \in Request : PriceKnown(job[p]))'
  <2> SUFFICES ASSUME NEW p \in Request PROVE PriceKnown(job[p])'
    OBVIOUS
  <2>1. CASE p = q
    BY <1>1, <2>1 DEF PriceKnown
  <2>2. CASE p # q
    BY <1>1, <1>3, <2>2 DEF PriceKnown, PriceIInv, Amends
  <2> QED
    BY <2>1, <2>2
<1>5. PricingTypeOK'
  BY <1>3 DEF PricingTypeOK, PriceIInv, Amends
<1>6. noOverlap(prices)'
  BY KeepsApart
<1> QED
  BY <1>1, <1>4, <1>5, <1>6 DEF PriceIInv

LEMMA PriceLeaves == [at |-> "left"] \in PriceJobs /\ PriceKnown([at |-> "left"])
BY DEF PriceJobs, PriceKnown

LEMMA CurrentIsRow ==
  ASSUME PriceIInv, NEW scope, NEW current \in findActivePriceForScope(scope)
  PROVE  current \in {0} \cup DOMAIN prices /\ current \in Nat
BY DEF findActivePriceForScope, Newest, inForce, PriceIInv, PricingTypeOK

LEMMA BandHolds ==
  ASSUME PriceIInv, NEW current \in DOMAIN prices, NEW asked \in Rate, current # 0, ~ outOfBand(current, asked)
  PROVE  InBand(prices[current].rate, asked)
<1>1. PICK was \in Nat : was = prices[current].rate
  <2>1. prices[current] \in PriceRow
    BY DEF PriceIInv, PricingTypeOK
  <2>2. prices[current].rate \in Rate
    BY <2>1 DEF PriceRow
  <2> QED
    BY <2>2, BandIsPercent
<1>2. PICK band \in Nat : band = SanityBand * was
  BY <1>1, BandIsPercent
<1>3. asked \in Nat
  BY BandIsPercent
<1>4. ~ ((IF asked > was THEN asked - was ELSE was - asked) * 100 > band)
  BY <1>1, <1>2 DEF outOfBand
<1>5. (asked - was) * 100 <= band /\ (was - asked) * 100 <= band
  BY <1>2, <1>1, <1>3, <1>4
<1> QED
  BY <1>1, <1>2, <1>5 DEF InBand

LEMMA PublishPriceStep ==
  ASSUME PriceIInv, NEW q \in Request, NEW admin \in Admin, NEW scope \in PriceScope, NEW asked \in Rate,
         NEW from \in today..MaxDay, PublishPrice(q, admin, scope, asked, from)
  PROVE  PriceIInv'
<1> DEFINE r == [at |-> "publish:current", scope |-> scope, rate |-> asked, from |-> from, admin |-> admin]
<1>1. from \in Nat
  BY TimelineBounds DEF PriceIInv, PricingTypeOK
<1>2. r \in PriceJobs
  BY <1>1 DEF PriceJobs, PublishAsk
<1>3. PriceKnown(r)
  BY DEF PriceKnown
<1> QED
  BY <1>2, <1>3, PriceReads DEF PublishPrice, AsksPrice

LEMMA FindCurrentStep ==
  ASSUME PriceIInv, NEW q \in Request, FindCurrent(q)
  PROVE  PriceIInv'
<1>1. job[q] \in PublishAsk
  BY PriceJobFields DEF PriceIInv, FindCurrent, At
<1>2. PICK j \in PublishAsk : j = job[q]
  BY <1>1
<1>3. j.scope \in PriceScope /\ j.rate \in Rate /\ j.from \in Nat /\ j.admin \in Admin
  BY DEF PublishAsk
<1> DEFINE row == [scope |-> j.scope, rate |-> j.rate, from |-> j.from,
                   until |-> None, status |-> "ACTIVE", held |-> FALSE,
                   author |-> j.admin, approver |-> None]
<1>4. PICK current \in findActivePriceForScope(j.scope) :
        Goto(q, [at |-> "publish", current |-> current, held |-> outOfBand(current, j.rate), row |-> row])
  BY <1>2 DEF FindCurrent
<1>5. row \in PriceRow /\ row.rate = j.rate
  BY <1>3 DEF PriceRow, PriceStatus
<1> HIDE DEF row
<1>6. current \in {0} \cup DOMAIN prices /\ current \in Nat
  BY CurrentIsRow
<1>7. PICK outside \in BOOLEAN : outside = outOfBand(current, j.rate)
  BY DEF outOfBand
<1> DEFINE r == [at |-> "publish", current |-> current, held |-> outside, row |-> row]
<1>8. r \in PublishJob /\ r.current = current /\ r.held = outside /\ r.row = row
  BY <1>5, <1>6 DEF PublishJob
<1>9. ~ outside /\ current # 0 => InBand(prices[current].rate, row.rate)
  BY <1>3, <1>5, <1>6, <1>7, BandHolds
<1>10. Goto(q, r)
  BY <1>4, <1>7
<1> HIDE DEF r
<1>11. PriceKnown(r)
  BY <1>5, <1>6, <1>8, <1>9 DEF PriceKnown
<1>12. r \in PriceJobs
  BY <1>8 DEF PriceJobs
<1>13. UNCHANGED catalogue
  BY DEF FindCurrent
<1> QED
  BY <1>10, <1>11, <1>12, <1>13, PriceReads

\* The table with another row in it, and perhaps the one before it closed.
LEMMA PriceAdded ==
  ASSUME PriceIInv, NEW q \in Request, Leave(q), UNCHANGED <<today, product>>, Len(prices) < MaxPrices,
         NEW rows, Amends(rows, prices), NEW row \in PriceRow, Write(Append(rows, row))
  PROVE  PriceIInv'
<1> DEFINE new == Append(rows, row)
           n == Len(prices)
<1>1. CASE prices' = prices
  <2>1. UNCHANGED catalogue
    BY <1>1 DEF catalogue
  <2> QED
    BY <2>1, PriceReads, PriceLeaves DEF Leave
<1>2. CASE prices' = new
  <2>1. /\ n \in Nat /\ DOMAIN prices = 1..n /\ DOMAIN rows = 1..n
        /\ new \in Seq(PriceRow) /\ DOMAIN new = 1..(n + 1) /\ Len(new) = n + 1
        /\ \A k \in 1..n : new[k] = rows[k]
    <3>1. prices \in Seq(PriceRow) /\ rows \in Seq(PriceRow) /\ Len(rows) = n
      BY DEF PriceIInv, PricingTypeOK, Amends
    <3>2. n \in Nat /\ DOMAIN prices = 1..n /\ DOMAIN rows = 1..n
      BY <3>1
    <3> QED
      BY <3>1, <3>2
  <2> HIDE DEF new, n
  <2>2. \A k \in 1..n : new[k].rate = prices[k].rate
    BY <2>1 DEF Amends
  <2>3. job' \in [Request -> PriceJobs]
        /\ \A p \in Request : job'[p] = IF p = q THEN [at |-> "left"] ELSE job[p]
    BY PriceLeaves DEF PriceIInv, Goto, Leave
  <2>4. (\A p \in Request : PriceKnown(job[p]))'
    <3> SUFFICES ASSUME NEW p \in Request PROVE PriceKnown(job[p])'
      OBVIOUS
    <3>1. CASE p = q
      BY <2>3, <3>1 DEF PriceKnown
    <3>2. CASE p # q
      BY <1>2, <2>1, <2>2, <2>3, <3>2 DEF PriceKnown, PriceIInv
    <3> QED
      BY <3>1, <3>2
  <2>5. PricingTypeOK'
    BY <1>2, <2>1, TimelineBounds DEF PricingTypeOK, PriceIInv, n
  <2>6. noOverlap(prices)'
    BY KeepsApart
  <2> QED
    BY <2>3, <2>4, <2>5, <2>6 DEF PriceIInv
<1> QED
  BY <1>1, <1>2 DEF Write

LEMMA WritePriceStep ==
  ASSUME PriceIInv, NEW q \in Request, WritePrice(q)
  PROVE  PriceIInv'
<1>1. PICK j \in PublishJob : j = job[q]
  BY PriceJobFields DEF PriceIInv, WritePrice, At
<1>2. j.current \in Nat /\ j.held \in BOOLEAN /\ j.row \in PriceRow
  BY <1>1 DEF PublishJob
<1>3. prices \in Seq(PriceRow) /\ Len(prices) < MaxPrices /\ Leave(q) /\ UNCHANGED <<today, product>>
  BY DEF PriceIInv, PricingTypeOK, WritePrice
<1>4. Amends(prices, prices)
  BY <1>3 DEF Amends
<1>5. CASE j.held
  <2> DEFINE a == [j.row EXCEPT !.status = "PENDING_APPROVAL"]
             b == [a EXCEPT !.held = TRUE]
  <2>1. a \in PriceRow
    BY <1>2 DEF PriceRow, PriceStatus
  <2>2. Write(Append(prices, b))
    BY <1>1, <1>5 DEF WritePrice
  <2> HIDE DEF a
  <2>3. b \in PriceRow
    BY <2>1 DEF PriceRow
  <2> HIDE DEF b
  <2> QED
    BY <1>3, <1>4, <2>2, <2>3, PriceAdded
<1>6. CASE ~ j.held /\ j.current = 0
  BY <1>1, <1>2, <1>3, <1>4, <1>6, PriceAdded DEF WritePrice
<1>7. CASE ~ j.held /\ j.current # 0
  <2> DEFINE c == j.current
             a == [prices EXCEPT ![c].status = "SUPERSEDED"]
             b == [a EXCEPT ![c].until = j.row.from]
  <2>1. Amends(a, prices)
    BY <1>3, ColumnWritten DEF PriceStatus
  <2>2. Write(Append(b, j.row))
    BY <1>1, <1>7 DEF WritePrice
  <2> HIDE DEF a
  <2>3. Amends(b, a)
    <3>1. a \in Seq(PriceRow)
      BY <2>1 DEF Amends
    <3>2. j.row.from \in Nat
      BY <1>2 DEF PriceRow
    <3> QED
      BY <3>1, <3>2, ColumnWritten
  <2> HIDE DEF b
  <2>4. Amends(b, prices)
    BY <2>1, <2>3, AmendsTwice
  <2> QED
    BY <1>2, <1>3, <2>2, <2>4, PriceAdded
<1> QED
  BY <1>2, <1>5, <1>6, <1>7

LEMMA ActivatePriceStep ==
  ASSUME PriceIInv, NEW q \in Request, NEW admin \in Admin, NEW i \in DOMAIN prices, ActivatePrice(q, admin, i)
  PROVE  PriceIInv'
<1>1. prices[i] \in PriceRow /\ i \in Nat
  BY DEF PriceIInv, PricingTypeOK
<1>2. PICK approver \in Admin \cup {None} : approver = IF prices[i].held THEN admin ELSE None
  OBVIOUS
<1> DEFINE r == [at |-> "activate:current", price |-> i, scope |-> prices[i].scope, from |-> prices[i].from,
                 approver |-> approver]
<1>3. Goto(q, r) /\ UNCHANGED catalogue
  BY <1>2 DEF ActivatePrice, AsksPrice
<1>4. prices[i].scope \in PriceScope /\ prices[i].from \in Nat
  BY <1>1 DEF PriceRow
<1>5. r \in ActivateAsk
  BY <1>1, <1>4 DEF ActivateAsk
<1>6. r \in PriceJobs /\ PriceKnown(r)
  BY <1>5 DEF PriceJobs, PriceKnown
<1> QED
  BY <1>3, <1>6, PriceReads

LEMMA FindReplacedStep ==
  ASSUME PriceIInv, NEW q \in Request, FindReplaced(q)
  PROVE  PriceIInv'
<1>1. PICK j \in ActivateAsk : j = job[q]
  BY PriceJobFields DEF PriceIInv, FindReplaced, At
<1>2. PICK current \in findActivePriceForScope(j.scope), at \in {"supersede", "activate"} :
        Goto(q, [j EXCEPT !.at = at, !.scope = current])
  BY <1>1 DEF FindReplaced
<1>3. current \in Nat
  BY CurrentIsRow
<1> DEFINE r == [at |-> at, price |-> j.price, scope |-> current, from |-> j.from, approver |-> j.approver]
<1>4. [j EXCEPT !.at = at, !.scope = current] = r
  <2> DEFINE a == [j EXCEPT !.at = at]
  <2>1. a = [at |-> at, price |-> j.price, scope |-> j.scope, from |-> j.from, approver |-> j.approver]
    BY DEF ActivateAsk
  <2> HIDE DEF a
  <2>2. [a EXCEPT !.scope = current] = r
    BY <2>1
  <2> QED
    BY <2>2 DEF a
<1>5. r \in ActivateJob
  BY <1>3 DEF ActivateAsk, ActivateJob
<1>6. r \in PriceJobs /\ PriceKnown(r)
  BY <1>5 DEF PriceJobs, PriceKnown
<1> QED
  BY <1>2, <1>4, <1>6, PriceReads DEF FindReplaced

LEMMA SupersedeReplacedStep ==
  ASSUME PriceIInv, NEW q \in Request, SupersedeReplaced(q)
  PROVE  PriceIInv'
<1>1. PICK j \in ActivateJob : j = job[q]
  BY PriceJobFields DEF PriceIInv, SupersedeReplaced, At
<1>2. j.scope \in Nat /\ j.from \in Nat /\ prices \in Seq(PriceRow)
  BY DEF ActivateJob, PriceIInv, PricingTypeOK
<1> DEFINE a == [prices EXCEPT ![j.scope].status = "SUPERSEDED"]
           rows == [a EXCEPT ![j.scope].until = j.from]
<1>3. Write(rows) /\ Test(q, Accepted(rows), "activate") /\ UNCHANGED <<today, product>>
  BY <1>1 DEF SupersedeReplaced
<1>4. Amends(a, prices)
  BY <1>2, ColumnWritten DEF PriceStatus
<1> HIDE DEF a
<1>5. Amends(rows, a)
  <2>1. a \in Seq(PriceRow)
    BY <1>4 DEF Amends
  <2> QED
    BY <1>2, <2>1, ColumnWritten
<1> HIDE DEF rows
<1>6. Amends(rows, prices)
  BY <1>4, <1>5, AmendsTwice
<1>7. CASE Goto(q, [at |-> "left"])
  BY <1>3, <1>6, <1>7, PriceLeaves, PriceWrites
<1>8. CASE Goto(q, [j EXCEPT !.at = "activate"])
  <2> DEFINE r == [j EXCEPT !.at = "activate"]
  <2>1. r \in ActivateJob /\ r.at = "activate"
    BY DEF ActivateJob
  <2>2. Goto(q, r)
    BY <1>8
  <2> HIDE DEF r
  <2>3. r \in PriceJobs
    BY <2>1 DEF PriceJobs
  <2> QED
    BY <1>3, <1>6, <2>1, <2>2, <2>3, PriceWrites
<1> QED
  BY <1>1, <1>3, <1>7, <1>8 DEF Test, Proceed, Leave

LEMMA ActivateStep ==
  ASSUME PriceIInv, NEW q \in Request, Activate(q)
  PROVE  PriceIInv'
<1>1. PICK j \in ActivateJob : j = job[q]
  BY PriceJobFields DEF PriceIInv, Activate, At
<1>2. j.price \in Nat /\ j.approver \in Admin \cup {None} /\ prices \in Seq(PriceRow)
  BY DEF ActivateJob, PriceIInv, PricingTypeOK
<1> DEFINE i == j.price
           a == [prices EXCEPT ![i].status = "ACTIVE"]
           rows == [a EXCEPT ![i].approver = IF j.approver = None THEN @ ELSE j.approver]
<1>3. Write(rows) /\ Leave(q) /\ UNCHANGED <<today, product>>
  BY <1>1 DEF Activate
<1>4. Amends(a, prices)
  BY <1>2, ColumnWritten DEF PriceStatus
<1> HIDE DEF a
<1>5. Amends(rows, a)
  <2>1. a \in Seq(PriceRow)
    BY <1>4 DEF Amends
  <2>2. i \in DOMAIN a => a[i] \in PriceRow /\ a[i].approver \in Admin \cup {None}
    BY <2>1, ColumnOf
  <2> DEFINE v == IF j.approver = None THEN a[i].approver ELSE j.approver
             row == [a[i] EXCEPT !.approver = v]
  <2>3. i \in DOMAIN a => v \in Admin \cup {None}
    BY <1>2, <2>2
  <2>4. rows = [a EXCEPT ![i] = row]
    OBVIOUS
  <2> HIDE DEF v
  <2>5. i \in DOMAIN a => row \in PriceRow /\ row.rate = a[i].rate
    BY <2>2, <2>3, ColumnOf
  <2> HIDE DEF row
  <2> QED
    BY <2>1, <2>4, <2>5, RowReplaced
<1> HIDE DEF rows
<1>6. Amends(rows, prices)
  BY <1>4, <1>5, AmendsTwice
<1> QED
  BY <1>3, <1>6, PriceLeaves, PriceWrites DEF Leave

LEMMA WithdrawPriceStep ==
  ASSUME PriceIInv, NEW q \in Request, NEW i \in DOMAIN prices, NEW to \in {"CANCELLED", "DRAFT"},
         WithdrawPrice(q, i, to)
  PROVE  PriceIInv'
<1>1. PICK ends \in BOOLEAN : ends = (to = "CANCELLED" /\ prices[i].status = "ACTIVE")
  OBVIOUS
<1> DEFINE r == [at |-> "withdraw", price |-> i, to |-> to, ends |-> ends]
<1>2. Goto(q, r) /\ UNCHANGED catalogue
  BY <1>1 DEF WithdrawPrice, AsksPrice
<1>3. i \in Nat
  BY DEF PriceIInv, PricingTypeOK
<1>4. r \in WithdrawJob
  BY <1>3 DEF WithdrawJob
<1>5. r \in PriceJobs /\ PriceKnown(r)
  BY <1>4 DEF PriceJobs, PriceKnown
<1> QED
  BY <1>2, <1>5, PriceReads

LEMMA SetPriceStatusStep ==
  ASSUME PriceIInv, NEW q \in Request, SetPriceStatus(q)
  PROVE  PriceIInv'
<1>1. PICK j \in WithdrawJob : j = job[q]
  BY PriceJobFields DEF PriceIInv, SetPriceStatus, At
<1>2. j.price \in Nat /\ j.to \in PriceStatus /\ prices \in Seq(PriceRow) /\ today \in Nat
  BY TimelineBounds DEF WithdrawJob, PriceStatus, PriceIInv, PricingTypeOK
<1> DEFINE i == j.price
           a == [prices EXCEPT ![i].status = j.to]
           rows == [a EXCEPT ![i].until = IF j.ends THEN today ELSE @]
<1>3. Write(rows) /\ Leave(q) /\ UNCHANGED <<today, product>>
  BY <1>1 DEF SetPriceStatus
<1>4. Amends(a, prices)
  BY <1>2, ColumnWritten
<1> HIDE DEF a
<1>5. Amends(rows, a)
  <2>1. a \in Seq(PriceRow)
    BY <1>4 DEF Amends
  <2>2. i \in DOMAIN a => a[i] \in PriceRow /\ a[i].until \in Nat \cup {None}
    BY <2>1, ColumnOf
  <2> DEFINE v == IF j.ends THEN today ELSE a[i].until
             row == [a[i] EXCEPT !.until = v]
  <2>3. i \in DOMAIN a => v \in Nat \cup {None}
    BY <1>2, <2>2
  <2>4. rows = [a EXCEPT ![i] = row]
    OBVIOUS
  <2> HIDE DEF v
  <2>5. i \in DOMAIN a => row \in PriceRow /\ row.rate = a[i].rate
    BY <2>2, <2>3, ColumnOf
  <2> HIDE DEF row
  <2> QED
    BY <2>1, <2>4, <2>5, RowReplaced
<1> HIDE DEF rows
<1>6. Amends(rows, prices)
  BY <1>4, <1>5, AmendsTwice
<1> QED
  BY <1>3, <1>6, PriceLeaves, PriceWrites DEF Leave

\* The product is archived or restored, or the day ends.
LEMMA CatalogueStep ==
  ASSUME PriceIInv, (\E q \in Request : UpdateProduct(q)) \/ NextDay
  PROVE  PriceIInv'
<1>1. prices' = prices
  BY DEF UpdateProduct, NextDay
<1>2. today' \in 0..MaxDay
  BY TimelineBounds DEF UpdateProduct, NextDay, PriceIInv, PricingTypeOK
<1>3. product' \in {"ACTIVE", "INACTIVE"}
  BY DEF UpdateProduct, NextDay, PriceIInv, PricingTypeOK
<1>4. job' \in [Request -> PriceJobs] /\ \A p \in Request : job'[p] = job[p] \/ job'[p] = [at |-> "left"]
  <2>1. CASE NextDay
    BY <2>1 DEF NextDay, PriceIInv
  <2>2. ASSUME NEW q \in Request, UpdateProduct(q)
        PROVE  job' \in [Request -> PriceJobs] /\ \A p \in Request : job'[p] = job[p] \/ job'[p] = [at |-> "left"]
    BY <2>2, PriceLeaves DEF UpdateProduct, Leave, Goto, PriceIInv
  <2> QED
    BY <2>1, <2>2
<1>5. (\A p \in Request : PriceKnown(job[p]))'
  BY <1>1, <1>4 DEF PriceKnown, PriceIInv
<1> QED
  BY <1>1, <1>2, <1>3, <1>4, <1>5 DEF PriceIInv, PricingTypeOK, noOverlap, overlapping

LEMMA PriceInvariance == PricingSpec => []PriceIInv
<1> DEFINE Moves == (\E q \in Request : PricingNext(q)) \/ NextDay
<1>1. ASSUME PriceIInv, NEW q \in Request, PricingNext(q) PROVE PriceIInv'
  BY <1>1, PublishPriceStep, FindCurrentStep, WritePriceStep, ActivatePriceStep, FindReplacedStep,
     SupersedeReplacedStep, ActivateStep, WithdrawPriceStep, SetPriceStatusStep, CatalogueStep DEF PricingNext
<1>2. PriceIInv /\ UNCHANGED <<job, catalogue>> => PriceIInv'
  BY DEF PriceIInv, catalogue, PricingTypeOK, PriceKnown, noOverlap, overlapping
<1>3. PriceIInv /\ [Moves]_<<job, catalogue>> => PriceIInv'
  BY <1>1, <1>2, CatalogueStep
<1> QED
  BY PriceInitIInv, <1>3, PTL DEF PricingSpec

\* The timeline keeps its types under every interleaving of publishing, activating and withdrawing.
THEOREM PricingTypeCorrect == PricingSpec => []PricingTypeOK
<1>1. PriceIInv => PricingTypeOK
  BY DEF PriceIInv
<1> QED
  BY <1>1, PriceInvariance, PTL

\* One write changes one row, or adds one in the place of the row it was measured against.
TakesTheMeasuredPlace ==
  \E m, c :
    /\ DOMAIN prices' \subseteq DOMAIN prices \cup {m}
    /\ \A k \in DOMAIN prices : k \notin {m, c} => k \in DOMAIN prices' /\ prices'[k] = prices[k]
    /\ c = m \/ /\ c \in DOMAIN prices /\ m \notin DOMAIN prices
                /\ prices'[c].status # "ACTIVE" /\ InBand(prices[c].rate, prices'[m].rate)

\* Two rows of one city are never in force at once.
LEMMA InForceAlone ==
  ASSUME NEW rows, noOverlap(rows), NEW i \in DOMAIN rows, NEW k \in DOMAIN rows, i # k,
         rows[i] \in PriceRow, rows[k] \in PriceRow, NEW day \in Nat,
         rows[i].status = "ACTIVE", Covers(rows[i], day), rows[k].status = "ACTIVE", Covers(rows[k], day),
         rows[i].scope = rows[k].scope, rows[i].scope.city # None
  PROVE  FALSE
<1>1. PICK a \in PriceRow, b \in PriceRow : a = rows[i] /\ b = rows[k]
  OBVIOUS
<1>2. a.from \in Nat /\ b.from \in Nat /\ a.until \in Nat \cup {None} /\ b.until \in Nat \cup {None}
  BY DEF PriceRow
<1>3. a.from <= day /\ (a.until = None \/ a.until > day) /\ b.from <= day /\ (b.until = None \/ b.until > day)
  BY <1>1 DEF Covers
<1>4. overlapping(a, b)
  <2>1. a.until = None \/ b.from < a.until
    BY <1>2, <1>3
  <2>2. b.until = None \/ a.from < b.until
    BY <1>2, <1>3
  <2> QED
    BY <2>1, <2>2 DEF overlapping
<1> QED
  BY <1>1, <1>4 DEF noOverlap

LEMMA ForceOf ==
  ASSUME NEW scope, NEW i \in findActivePriceForScope(scope), i # 0
  PROVE  i \in DOMAIN prices /\ prices[i].status = "ACTIVE" /\ Covers(prices[i], today) /\ prices[i].scope = scope
BY DEF findActivePriceForScope, Newest, inForce

LEMMA OneRowTaken ==
  ASSUME NEW m, DOMAIN prices' \subseteq DOMAIN prices \cup {m},
         \A k \in DOMAIN prices : k # m => k \in DOMAIN prices' /\ prices'[k] = prices[k]
  PROVE  TakesTheMeasuredPlace
BY DEF TakesTheMeasuredPlace

\* What a longer table has where.
LEMMA Appended ==
  ASSUME NEW rows \in Seq(PriceRow), NEW row \in PriceRow, NEW new, new = Append(rows, row)
  PROVE  /\ DOMAIN new = 1..(Len(rows) + 1) /\ new[Len(rows) + 1] = row
         /\ \A k \in 1..Len(rows) : new[k] = rows[k]
OBVIOUS

LEMMA WriteTakesPlace ==
  ASSUME PriceIInv, NEW q \in Request, WritePrice(q), prices' # prices
  PROVE  TakesTheMeasuredPlace
<1>1. PICK j \in PublishJob : j = job[q]
  BY PriceJobFields DEF PriceIInv, WritePrice, At
<1>2. /\ j.current \in Nat /\ j.held \in BOOLEAN /\ j.row \in PriceRow
      /\ j.current \in {0} \cup DOMAIN prices
      /\ ~ j.held /\ j.current # 0 => InBand(prices[j.current].rate, j.row.rate)
  BY <1>1 DEF PublishJob, PriceIInv, PriceKnown
<1> DEFINE n == Len(prices)
<1>3. prices \in Seq(PriceRow) /\ n \in Nat /\ DOMAIN prices = 1..n
  BY DEF PriceIInv, PricingTypeOK
<1>4. CASE j.held \/ j.current = 0
  <2>1. PICK row \in PriceRow : prices' = Append(prices, row)
    <3> DEFINE a == [j.row EXCEPT !.status = "PENDING_APPROVAL"]
               b == [a EXCEPT !.held = TRUE]
    <3>1. a \in PriceRow
      BY <1>2 DEF PriceRow, PriceStatus
    <3>2. j.held => prices' = Append(prices, b)
      BY <1>1 DEF WritePrice, Write
    <3> HIDE DEF a
    <3>3. b \in PriceRow
      BY <3>1 DEF PriceRow
    <3> HIDE DEF b
    <3>4. ~ j.held => prices' = Append(prices, j.row)
      BY <1>1, <1>4 DEF WritePrice, Write
    <3> QED
      BY <1>2, <3>2, <3>3, <3>4
  <2>2. DOMAIN prices' = 1..(n + 1) /\ \A k \in 1..n : prices'[k] = prices[k]
    <3> HIDE DEF n
    <3>1. PICK new : new = prices'
      OBVIOUS
    <3>2. DOMAIN new = 1..(Len(prices) + 1) /\ \A k \in 1..Len(prices) : new[k] = prices[k]
      BY <1>3, <2>1, <3>1, Appended
    <3> QED
      BY <3>1, <3>2 DEF n
  <2> HIDE DEF n
  <2>3. n + 1 \notin DOMAIN prices /\ DOMAIN prices' = DOMAIN prices \cup {n + 1}
    BY <1>3, <2>2
  <2> QED
    BY <1>3, <2>2, <2>3, OneRowTaken
<1>5. CASE ~ j.held /\ j.current # 0
  <2> DEFINE c == j.current
             a == [prices EXCEPT ![c].status = "SUPERSEDED"]
             b == [a EXCEPT ![c].until = j.row.from]
  <2>1. prices' = Append(b, j.row)
    BY <1>1, <1>5 DEF WritePrice, Write
  <2>2. c \in DOMAIN prices /\ prices[c] \in PriceRow
    BY <1>2, <1>3, <1>5
  <2>3. a \in Seq(PriceRow) /\ DOMAIN a = 1..n /\ a[c].status = "SUPERSEDED" /\ Len(a) = n
        /\ \A k \in 1..n : k # c => a[k] = prices[k]
    <3>1. [prices[c] EXCEPT !.status = "SUPERSEDED"] \in PriceRow
      BY <2>2, ColumnOf DEF PriceStatus
    <3>2. [prices[c] EXCEPT !.status = "SUPERSEDED"].status = "SUPERSEDED"
      BY <2>2 DEF PriceRow
    <3> DEFINE ended == [prices[c] EXCEPT !.status = "SUPERSEDED"]
    <3>3. a = [prices EXCEPT ![c] = ended]
      OBVIOUS
    <3> HIDE DEF a, ended
    <3> QED
      BY <1>3, <2>2, <3>1, <3>2, <3>3 DEF ended
  <2> HIDE DEF a
  <2>4. b \in Seq(PriceRow) /\ DOMAIN b = 1..n /\ b[c].status = "SUPERSEDED" /\ Len(b) = n
        /\ \A k \in 1..n : k # c => b[k] = prices[k]
    <3> DEFINE ended == [a[c] EXCEPT !.until = j.row.from]
    <3>1. a[c] \in PriceRow /\ j.row.from \in Nat
      BY <1>2, <1>3, <2>2, <2>3, ColumnOf
    <3>2. ended \in PriceRow /\ ended.status = "SUPERSEDED"
      BY <2>3, <3>1, ColumnOf DEF PriceRow
    <3>3. b = [a EXCEPT ![c] = ended]
      OBVIOUS
    <3> HIDE DEF b, ended
    <3> QED
      BY <1>3, <2>2, <2>3, <3>2, <3>3
  <2> HIDE DEF b
  <2>5. DOMAIN prices' = 1..(n + 1) /\ prices'[n + 1] = j.row /\ \A k \in 1..n : prices'[k] = b[k]
    <3> HIDE DEF n
    <3>1. PICK new : new = prices'
      OBVIOUS
    <3>2. b \in Seq(PriceRow) /\ new = Append(b, j.row) /\ j.row \in PriceRow
      BY <1>2, <2>1, <2>4, <3>1
    <3>3. /\ DOMAIN new = 1..(Len(b) + 1) /\ new[Len(b) + 1] = j.row
          /\ \A k \in 1..Len(b) : new[k] = b[k]
      BY <3>2, Appended
    <3> QED
      BY <2>4, <3>1, <3>3
  <2> HIDE DEF n
  <2>6. /\ n + 1 \notin DOMAIN prices /\ DOMAIN prices' = DOMAIN prices \cup {n + 1}
        /\ prices'[c].status # "ACTIVE" /\ InBand(prices[c].rate, prices'[n + 1].rate)
    BY <1>2, <1>3, <1>5, <2>2, <2>4, <2>5
  <2>7. \A k \in DOMAIN prices : k \notin {n + 1, c} => k \in DOMAIN prices' /\ prices'[k] = prices[k]
    BY <1>3, <2>4, <2>5, <2>6
  <2> QED
    BY <2>2, <2>6, <2>7 DEF TakesTheMeasuredPlace
<1> QED
  BY <1>2, <1>4, <1>5

\* The other statements write one row of those there are.
LEMMA OneRowWritten ==
  ASSUME NEW q, SupersedeReplaced(q) \/ Activate(q) \/ SetPriceStatus(q)
  PROVE  TakesTheMeasuredPlace
<1>1. SUFFICES ASSUME prices' # prices PROVE TakesTheMeasuredPlace
  BY DEF TakesTheMeasuredPlace
<1>2. PICK m : /\ DOMAIN prices' = DOMAIN prices
               /\ \A k \in DOMAIN prices : k # m => prices'[k] = prices[k]
  <2>1. CASE SupersedeReplaced(q)
    <3> DEFINE m == job[q].scope
               a == [prices EXCEPT ![m].status = "SUPERSEDED"]
               rows == [a EXCEPT ![m].until = job[q].from]
    <3>1. prices' = rows
      BY <1>1, <2>1 DEF SupersedeReplaced, Write
    <3>2. DOMAIN a = DOMAIN prices /\ \A k \in DOMAIN prices : k # m => a[k] = prices[k]
      OBVIOUS
    <3> HIDE DEF a
    <3>3. DOMAIN rows = DOMAIN a /\ \A k \in DOMAIN a : k # m => rows[k] = a[k]
      OBVIOUS
    <3> HIDE DEF rows
    <3> QED
      BY <3>1, <3>2, <3>3
  <2>2. CASE Activate(q)
    <3> DEFINE m == job[q].price
               a == [prices EXCEPT ![m].status = "ACTIVE"]
               rows == [a EXCEPT ![m].approver = IF job[q].approver = None THEN @ ELSE job[q].approver]
    <3>1. prices' = rows
      BY <1>1, <2>2 DEF Activate, Write
    <3>2. DOMAIN a = DOMAIN prices /\ \A k \in DOMAIN prices : k # m => a[k] = prices[k]
      OBVIOUS
    <3> HIDE DEF a
    <3>3. DOMAIN rows = DOMAIN a /\ \A k \in DOMAIN a : k # m => rows[k] = a[k]
      OBVIOUS
    <3> HIDE DEF rows
    <3> QED
      BY <3>1, <3>2, <3>3
  <2>3. CASE SetPriceStatus(q)
    <3> DEFINE m == job[q].price
               a == [prices EXCEPT ![m].status = job[q].to]
               rows == [a EXCEPT ![m].until = IF job[q].ends THEN today ELSE @]
    <3>1. prices' = rows
      BY <1>1, <2>3 DEF SetPriceStatus, Write
    <3>2. DOMAIN a = DOMAIN prices /\ \A k \in DOMAIN prices : k # m => a[k] = prices[k]
      OBVIOUS
    <3> HIDE DEF a
    <3>3. DOMAIN rows = DOMAIN a /\ \A k \in DOMAIN a : k # m => rows[k] = a[k]
      OBVIOUS
    <3> HIDE DEF rows
    <3> QED
      BY <3>1, <3>2, <3>3
  <2> QED
    BY <2>1, <2>2, <2>3
<1> QED
  BY <1>2, OneRowTaken

LEMMA PlaceTaken ==
  ASSUME PriceIInv, NEW q \in Request, PricingNext(q), prices' # prices
  PROVE  TakesTheMeasuredPlace
<1>1. WritePrice(q) \/ SupersedeReplaced(q) \/ Activate(q) \/ SetPriceStatus(q)
  BY DEF PricingNext, PublishPrice, FindCurrent, ActivatePrice, WithdrawPrice, FindReplaced, UpdateProduct,
         AsksPrice, catalogue
<1> QED
  BY <1>1, WriteTakesPlace, OneRowWritten

\* Whichever row takes over from whichever: it was measured against that one, or both would
\* have been in force together, before the write or after it.
LEMMA TakeoverInBand ==
  ASSUME PriceIInv, PriceIInv', today' = today, prices' = prices \/ TakesTheMeasuredPlace,
         NEW scope \in PriceScope, scope.city # None,
         NEW i \in findActivePriceForScope(scope), NEW j \in findActivePriceForScope(scope)', i # 0, j \notin {0, i}
  PROVE  InBand(prices[i].rate, prices'[j].rate)
<1>1. /\ prices \in Seq(PriceRow) /\ prices' \in Seq(PriceRow) /\ today \in Nat
      /\ noOverlap(prices) /\ noOverlap(prices')
  BY TimelineBounds DEF PriceIInv, PricingTypeOK, noOverlap, overlapping
<1>2. i \in DOMAIN prices /\ prices[i].status = "ACTIVE" /\ Covers(prices[i], today) /\ prices[i].scope = scope
  BY ForceOf
<1>3. j \in DOMAIN prices' /\ prices'[j].status = "ACTIVE" /\ Covers(prices'[j], today) /\ prices'[j].scope = scope
  BY DEF findActivePriceForScope, Newest, inForce, Covers
<1>4. ASSUME NEW rows \in Seq(PriceRow), noOverlap(rows), i \in DOMAIN rows, j \in DOMAIN rows,
             rows[i] = prices[i], rows[j] = prices'[j]
      PROVE  FALSE
  <2>1. rows[i] \in PriceRow /\ rows[j] \in PriceRow
    BY <1>4
  <2> QED
    BY <1>1, <1>2, <1>3, <1>4, <2>1, InForceAlone
<1>5. CASE prices' = prices
  BY <1>1, <1>2, <1>3, <1>4, <1>5
<1>6. CASE TakesTheMeasuredPlace
  <2>1. PICK m, c :
          /\ DOMAIN prices' \subseteq DOMAIN prices \cup {m}
          /\ \A k \in DOMAIN prices : k \notin {m, c} => k \in DOMAIN prices' /\ prices'[k] = prices[k]
          /\ c = m \/ /\ c \in DOMAIN prices /\ m \notin DOMAIN prices
                      /\ prices'[c].status # "ACTIVE" /\ InBand(prices[c].rate, prices'[m].rate)
    BY <1>6 DEF TakesTheMeasuredPlace
  <2>2. CASE j \notin {m, c}
    BY <1>1, <1>2, <1>3, <1>4, <2>1, <2>2
  <2>3. CASE j = m /\ i # c
    BY <1>1, <1>2, <1>3, <1>4, <2>1, <2>3
  <2>4. CASE j = m /\ i = c
    BY <2>1, <2>4
  <2>5. CASE j = c /\ c # m
    BY <1>3, <2>1, <2>5
  <2> QED
    BY <2>2, <2>3, <2>4, <2>5
<1> QED
  BY <1>5, <1>6

\* BR-607: whatever is published, activated or withdrawn between the look at the rate in force and
\* the write, within a day no rate of a city takes over from one more than the band away
\* (publishPrice's band check, and the exclusion constraint that refuses a stale one).
THEOREM TakeoversInBand == PricingSpec => TakeoversAreMeasured
<1> DEFINE Moves == (\E q \in Request : PricingNext(q)) \/ NextDay
           Measured ==
             today' = today =>
               \A scope \in PriceScope :
                 \A i \in findActivePriceForScope(scope), j \in findActivePriceForScope(scope)' :
                   scope.city # None /\ i # 0 /\ j \notin {0, i} =>
                     LET change == prices'[j].rate - prices[i].rate
                     IN change * 100 <= SanityBand * prices[i].rate /\ -change * 100 <= SanityBand * prices[i].rate
<1>1. ASSUME PriceIInv, PriceIInv', [Moves]_<<job, catalogue>> PROVE Measured
  <2> SUFFICES ASSUME today' = today, NEW scope \in PriceScope, scope.city # None,
                      NEW i \in findActivePriceForScope(scope), NEW j \in findActivePriceForScope(scope)',
                      i # 0, j \notin {0, i}, NEW change, change = prices'[j].rate - prices[i].rate
               PROVE  change * 100 <= SanityBand * prices[i].rate /\ -change * 100 <= SanityBand * prices[i].rate
    OBVIOUS
  <2>1. prices' = prices \/ TakesTheMeasuredPlace
    <3>1. CASE NextDay \/ UNCHANGED <<job, catalogue>>
      BY <3>1 DEF NextDay, catalogue
    <3>2. CASE \E q \in Request : PricingNext(q)
      BY <1>1, <3>2, PlaceTaken
    <3> QED
      BY <1>1, <3>1, <3>2
  <2>2. InBand(prices[i].rate, prices'[j].rate)
    BY <1>1, <2>1, TakeoverInBand
  <2>3. i \in DOMAIN prices /\ j \in DOMAIN prices'
    BY ForceOf DEF findActivePriceForScope, Newest, inForce
  <2>4. prices[i] \in PriceRow /\ prices'[j] \in PriceRow
    BY <1>1, <2>3 DEF PriceIInv, PricingTypeOK
  <2>5. PICK was \in Nat, to \in Nat : was = prices[i].rate /\ to = prices'[j].rate
    BY <2>4, BandIsPercent DEF PriceRow
  <2>6. PICK band \in Nat : band = SanityBand * was
    BY BandIsPercent
  <2>7. (to - was) * 100 <= band /\ (was - to) * 100 <= band /\ change = to - was
    BY <2>2, <2>5, <2>6 DEF InBand
  <2>8. change * 100 <= band /\ -change * 100 <= band
    BY <2>6, <2>7
  <2> QED
    BY <2>5, <2>6, <2>8
<1>2. PricingSpec => [][Moves]_<<job, catalogue>>
  BY DEF PricingSpec
<1>3. PriceIInv /\ PriceIInv' /\ [Moves]_<<job, catalogue>> => [Measured]_catalogue
  BY <1>1
<1> QED
  BY <1>2, <1>3, PriceInvariance, PTL DEF TakeoversAreMeasured

-----------------------------------------------------------------------------
(* Companies and their history. *)

RegisterJob == [at : {"duplicate", "register"}, user : Person, number : Number, company : {None}]
ResubmitJob == [at : {"rejected", "duplicate", "resubmit", "resubmit:update"}, number : Number, company : Company,
                record : Nat]
DecideJob   == [at : {"decide", "decide:update"}, company : Company, from : Verification,
                to : {"APPROVED", "REJECTED"}, record : Nat]
OperateJob  == [at : {"operate", "operate:update"}, company : Company, from : Verification,
                to : {"SUSPENDED", "ACTIVE"}, record : Nat]
MemberJob   == [at : {"add", "upsert", "update", "setRole"}, company : Company, by : Person, user : Person,
                role : ASSIGNABLE_MEMBER_ROLES]
RemoveJob   == [at : {"remove", "setRemoved"}, company : Company, by : Person, user : Person, role : {None}]
AskedJob    == [at : {"done"}, user : Person]

CompanyJobs ==
  UNION {[at : {"new", "left"}], RegisterJob, ResubmitJob, DecideJob, OperateJob, MemberJob, RemoveJob, AskedJob}

\* A committed record approved the company.
WasApproved(c) == \E i \in DOMAIN history[c] : history[c][i].seen # 0 /\ history[c][i].to = "APPROVED"

\* v is what a committed decision says that saw every other one.
Standing(c, v) ==
  \E i \in Decisions(c) : history[c][i].to = v /\ \A k \in Decisions(c) : k <= history[c][i].seen

\* The open transaction's own record.
Recorded(r, from, to) ==
  /\ r.record \in DOMAIN history[r.company]
  /\ history[r.company][r.record].from = from /\ history[r.company][r.record].to = to

\* What a request read and may rely on when it writes: that there is a company, that it had been
\* approved, that the person has a row, and its own record.  What the company's status is, it may not.
CompanyKnown(r) ==
  /\ r.at \in {"decide", "decide:update"} => companies[r.company] # None /\ r.from # r.to
  /\ r.at \in {"operate", "operate:update"} => companies[r.company] # None /\ WasApproved(r.company)
  /\ r.at = "resubmit:update" => Recorded(r, "REJECTED", "PENDING")
  /\ r.at = "decide:update" => Recorded(r, r.from, r.to)
  /\ r.at = "operate:update" => Recorded(r, r.from, r.from)
  /\ r.at \in {"setRole", "setRemoved"} => members[r.company][r.user] # None

StandingsTold ==
  \A c \in Company : companies[c] # None =>
    /\ Standing(c, companies[c].verification)
    /\ companies[c].account # "INACTIVE" => WasApproved(c)

CompanyIInv ==
  /\ CorporateTypeOK
  /\ job \in [Request -> CompanyJobs]
  /\ \A q \in Request : CompanyKnown(job[q])
  /\ StandingsTold

\* What no step takes away: companies, members' rows, and records, whose ends are never rewritten.
HistoryGrows(old, new) ==
  /\ DOMAIN old \subseteq DOMAIN new
  /\ \A i \in DOMAIN old : /\ new[i].from = old[i].from /\ new[i].to = old[i].to
                           /\ old[i].seen # 0 => new[i].seen # 0

NothingLost ==
  \A c \in Company : /\ companies[c] # None => companies'[c] # None
                     /\ \A u \in Person : members[c][u] # None => members'[c][u] # None
                     /\ HistoryGrows(history[c], history'[c])

LEMMA CompanyJobFields ==
  ASSUME NEW r \in CompanyJobs
  PROVE  /\ r.at = "register" => r \in RegisterJob
         /\ r.at = "duplicate" => r \in RegisterJob \/ r \in ResubmitJob
         /\ r.at \in {"rejected", "resubmit", "resubmit:update"} => r \in ResubmitJob
         /\ r.at \in {"decide", "decide:update"} => r \in DecideJob
         /\ r.at \in {"operate", "operate:update"} => r \in OperateJob
         /\ r.at \in {"add", "upsert", "update", "setRole"} => r \in MemberJob
         /\ r.at \in {"remove", "setRemoved"} => r \in RemoveJob
BY DEF CompanyJobs, RegisterJob, ResubmitJob, DecideJob, OperateJob, MemberJob, RemoveJob, AskedJob

LEMMA CompanyLeaves == [at |-> "left"] \in CompanyJobs /\ CompanyKnown([at |-> "left"]) /\ CompanyKnown([at |-> "left"])'
BY DEF CompanyJobs, CompanyKnown

\* A request that stays where it is keeps what it may rely on.
LEMMA CompanyKnownKept ==
  ASSUME CompanyIInv, NothingLost, NEW p \in Request, job'[p] = job[p]
  PROVE  CompanyKnown(job[p])'
<1>1. PICK j \in CompanyJobs : j = job[p] /\ CompanyKnown(j)
  BY DEF CompanyIInv
<1>2. \A c \in Company : WasApproved(c) => WasApproved(c)'
  BY DEF NothingLost, HistoryGrows, WasApproved
<1>3. CASE j.at \in {"decide", "decide:update"}
  <2>1. j.company \in Company
    BY <1>3, CompanyJobFields DEF DecideJob
  <2> QED
    BY <1>1, <1>3, <2>1 DEF CompanyKnown, NothingLost, HistoryGrows, Recorded
<1>4. CASE j.at \in {"operate", "operate:update"}
  <2>1. PICK c \in Company : c = j.company
    BY <1>4, CompanyJobFields DEF OperateJob
  <2>2. WasApproved(c)' /\ companies'[c] # None
    BY <1>1, <1>2, <1>4, <2>1 DEF CompanyKnown, NothingLost
  <2>3. WasApproved(j.company)'
    BY <2>1, <2>2 DEF WasApproved
  <2> QED
    BY <1>1, <1>4, <2>1, <2>2, <2>3 DEF CompanyKnown, NothingLost, HistoryGrows, Recorded
<1>5. CASE j.at \in {"resubmit:update"}
  <2>1. j.company \in Company
    BY <1>5, CompanyJobFields DEF ResubmitJob
  <2> QED
    BY <1>1, <1>5, <2>1 DEF CompanyKnown, NothingLost, HistoryGrows, Recorded
<1>6. CASE j.at \in {"setRole", "setRemoved"}
  <2>1. j.company \in Company /\ j.user \in Person
    BY <1>6, CompanyJobFields DEF MemberJob, RemoveJob
  <2> QED
    BY <1>1, <1>6, <2>1 DEF CompanyKnown, NothingLost
<1>7. CASE j.at \notin {"decide", "decide:update", "operate", "operate:update", "resubmit:update", "setRole", "setRemoved"}
  BY <1>1, <1>7 DEF CompanyKnown
<1> QED
  BY <1>3, <1>4, <1>5, <1>6, <1>7

LEMMA CompanyInitIInv == RequestsInit /\ CorporateInit => CompanyIInv
<1> SUFFICES ASSUME RequestsInit, CorporateInit PROVE CompanyIInv
  OBVIOUS
<1>1. [at |-> "new"] \in CompanyJobs
  BY DEF CompanyJobs
<1>2. job \in [Request -> CompanyJobs] /\ \A q \in Request : job[q].at = "new"
  BY <1>1 DEF RequestsInit
<1>3. \A q \in Request : CompanyKnown(job[q])
  BY <1>2 DEF CompanyKnown
<1>4. CASE /\ companies = [k \in Company |-> None]
           /\ members = [k \in Company |-> [v \in Person |-> None]]
           /\ history = [k \in Company |-> << >>]
  <2>1. CorporateTypeOK
    BY <1>4 DEF CorporateTypeOK
  <2> QED
    BY <1>2, <1>3, <1>4, <2>1 DEF CompanyIInv, StandingsTold
<1>5. ASSUME NEW c \in Company, NEW u \in Person, NEW n \in Number, Founded(c, u, n)
      PROVE  CompanyIInv
  <2> DEFINE first == [from |-> None, to |-> "PENDING", seen |-> 1]
             second == [from |-> "PENDING", to |-> "APPROVED", seen |-> 2]
  <2>1. first \in VerificationRecord /\ second \in VerificationRecord
        /\ first.from # first.to /\ second.from # second.to /\ second.to = "APPROVED"
        /\ first.seen = 1 /\ second.seen = 2
    BY NoneIsNoCompany DEF VerificationRecord, Verification
  <2>2. history = [k \in Company |-> IF k = c THEN <<first, second>> ELSE << >>]
    BY <1>5 DEF Founded
  <2> HIDE DEF first, second
  <2>3. history \in [Company -> Seq(VerificationRecord)]
    BY <2>1, <2>2
  <2>4. [number |-> n, verification |-> "APPROVED", account |-> "ACTIVE"] \in CompanyRow
    BY DEF CompanyRow, Verification
  <2>5. [role |-> OWNER_ROLE, status |-> "ACTIVE"] \in MemberRow
    BY DEF MemberRow
  <2>6. CorporateTypeOK
    BY <1>5, <2>3, <2>4, <2>5 DEF CorporateTypeOK, Founded
  <2>7. DOMAIN history[c] = {1, 2} /\ history[c][1] = first /\ history[c][2] = second
    BY <2>2
  <2>8. Standing(c, "APPROVED") /\ WasApproved(c)
    BY <2>1, <2>7 DEF Standing, Decisions, WasApproved
  <2>9. \A k \in Company : companies[k] # None => k = c /\ companies[k].verification = "APPROVED"
    BY <1>5 DEF Founded
  <2> QED
    BY <1>2, <1>3, <2>6, <2>8, <2>9 DEF CompanyIInv, StandingsTold
<1> QED
  BY <1>4, <1>5 DEF CorporateInit

\* A statement that only reads.
LEMMA CompanyReads ==
  ASSUME CompanyIInv, NEW q \in Request, NEW r \in CompanyJobs, CompanyKnown(r), Goto(q, r), UNCHANGED corporate
  PROVE  CompanyIInv'
<1>1. companies' = companies /\ members' = members /\ history' = history
  BY DEF corporate
<1>2. job' \in [Request -> CompanyJobs] /\ \A p \in Request : job'[p] = r \/ job'[p] = job[p]
  BY DEF Goto, CompanyIInv
<1>3. (\A p \in Request : CompanyKnown(job[p]))'
  BY <1>1, <1>2, SMTT(30) DEF CompanyKnown, CompanyIInv, WasApproved, Recorded
<1>4. CorporateTypeOK'
  BY <1>1 DEF CompanyIInv, CorporateTypeOK
<1>5. StandingsTold'
  BY <1>1 DEF CompanyIInv, StandingsTold, Standing, Decisions, WasApproved
<1> QED
  BY <1>2, <1>3, <1>4, <1>5 DEF CompanyIInv

\* The history of one company changes: what it tells of the others it still tells.
LEMMA OtherStandings ==
  ASSUME CompanyIInv, NEW c \in Company, NEW d \in Company, d # c,
         companies'[d] = companies[d], history'[d] = history[d], companies'[d] # None
  PROVE  (Standing(d, companies[d].verification) /\ (companies[d].account # "INACTIVE" => WasApproved(d)))'
<1>1. Standing(d, companies[d].verification) /\ (companies[d].account # "INACTIVE" => WasApproved(d))
  BY DEF CompanyIInv, StandingsTold
<1> QED
  BY <1>1 DEF Standing, Decisions, WasApproved

\* The first statement: the record is there, and tells nothing yet.
LEMMA RecordInserted ==
  ASSUME CompanyIInv, NEW q \in Request, NEW j \in UNION {ResubmitJob, DecideJob, OperateJob}, j = job[q],
         NEW from \in Verification, NEW to \in Verification, NEW step,
         InsertRecord(q, from, to, step),
         \/ j \in ResubmitJob /\ step = "resubmit:update" /\ from = "REJECTED" /\ to = "PENDING"
         \/ /\ j \in DecideJob /\ step = "decide:update" /\ from = j.from /\ to = j.to
            /\ companies[j.company] # None /\ from # to
         \/ /\ j \in OperateJob /\ step = "operate:update" /\ from = j.from /\ to = j.from
            /\ companies[j.company] # None /\ WasApproved(j.company)
  PROVE  CompanyIInv'
<1>1. PICK c \in Company : c = j.company
  BY DEF ResubmitJob, DecideJob, OperateJob
<1>2. PICK n \in Nat : n = Len(history[c])
  BY DEF CompanyIInv, CorporateTypeOK
<1> DEFINE record == [from |-> from, to |-> to, seen |-> 0]
           moved == [j EXCEPT !.at = step]
           r == [moved EXCEPT !.record = n + 1]
<1>3. /\ history' = [history EXCEPT ![c] = Append(@, record)] /\ companies' = companies /\ members' = members
      /\ Goto(q, r)
  BY <1>1, <1>2 DEF InsertRecord
<1>4. record \in VerificationRecord /\ record.from = from /\ record.to = to /\ record.seen = 0
  BY DEF VerificationRecord
<1>5. r \in CompanyJobs /\ r.at = step /\ r.record = n + 1 /\ r.company = c
      /\ (step # "resubmit:update" => r.from = j.from) /\ (step = "decide:update" => r.to = j.to)
  <2>1. CASE j \in ResubmitJob /\ step = "resubmit:update"
    <3>1. moved \in ResubmitJob /\ moved.at = step /\ moved.company = c
      BY <1>1, <2>1 DEF ResubmitJob
    <3> HIDE DEF moved
    <3>2. r \in ResubmitJob /\ r.at = step /\ r.record = n + 1 /\ r.company = c
      BY <1>2, <3>1 DEF ResubmitJob
    <3> QED
      BY <2>1, <3>2 DEF CompanyJobs
  <2>2. CASE j \in DecideJob /\ step = "decide:update"
    <3>1. moved \in DecideJob /\ moved.at = step /\ moved.company = c /\ moved.from = j.from /\ moved.to = j.to
      BY <1>1, <2>2 DEF DecideJob
    <3> HIDE DEF moved
    <3>2. r \in DecideJob /\ r.at = step /\ r.record = n + 1 /\ r.company = c /\ r.from = j.from /\ r.to = j.to
      BY <1>2, <3>1 DEF DecideJob
    <3> QED
      BY <2>2, <3>2 DEF CompanyJobs
  <2>3. CASE j \in OperateJob /\ step = "operate:update"
    <3>1. moved \in OperateJob /\ moved.at = step /\ moved.company = c /\ moved.from = j.from
      BY <1>1, <2>3 DEF OperateJob
    <3> HIDE DEF moved
    <3>2. r \in OperateJob /\ r.at = step /\ r.record = n + 1 /\ r.company = c /\ r.from = j.from
      BY <1>2, <3>1 DEF OperateJob
    <3> QED
      BY <2>3, <3>2 DEF CompanyJobs
  <2> QED
    BY <2>1, <2>2, <2>3
<1> HIDE DEF record, moved, r
<1>6. /\ history' \in [Company -> Seq(VerificationRecord)] /\ DOMAIN history[c] = 1..n /\ DOMAIN history'[c] = 1..(n + 1)
      /\ (\A i \in 1..n : history'[c][i] = history[c][i]) /\ history'[c][n + 1] = record
      /\ \A d \in Company : d # c => history'[d] = history[d]
  BY <1>2, <1>3, <1>4 DEF CompanyIInv, CorporateTypeOK
<1>7. NothingLost
  BY <1>3, <1>6 DEF NothingLost, HistoryGrows
<1>8. job' \in [Request -> CompanyJobs] /\ job'[q] = r /\ \A p \in Request : p # q => job'[p] = job[p]
  BY <1>3, <1>5 DEF Goto, CompanyIInv
<1>9. CompanyKnown(r)'
  <2>1. step \in {"decide:update", "operate:update"} => companies[c] # None
    BY <1>1
  <2>2. step = "operate:update" => WasApproved(c)'
    BY <1>1, <1>6 DEF WasApproved
  <2>3. step = "operate:update" => WasApproved(r.company)'
    BY <1>5, <2>2 DEF WasApproved
  <2>4. Recorded(r, from, to)'
    BY <1>4, <1>5, <1>6 DEF Recorded
  <2> QED
    BY <1>3, <1>5, <2>1, <2>3, <2>4 DEF CompanyKnown
<1>10. (\A p \in Request : CompanyKnown(job[p]))'
  <2> SUFFICES ASSUME NEW p \in Request PROVE CompanyKnown(job[p])'
    OBVIOUS
  <2>1. CASE p = q
    BY <1>8, <1>9, <2>1 DEF CompanyKnown, Recorded, WasApproved
  <2>2. CASE p # q
    BY <1>7, <1>8, <2>2, CompanyKnownKept
  <2> QED
    BY <2>1, <2>2
<1>11. ASSUME NEW d \in Company, companies'[d] # None
       PROVE  (Standing(d, companies[d].verification) /\ (companies[d].account # "INACTIVE" => WasApproved(d)))'
  <2>1. CASE d # c
    BY <1>3, <1>6, <1>11, <2>1, OtherStandings
  <2>2. CASE d = c
    <3>1. Standing(c, companies[c].verification) /\ (companies[c].account # "INACTIVE" => WasApproved(c))
      BY <1>3, <1>11, <2>2 DEF CompanyIInv, StandingsTold
    <3>2. Decisions(c)' = Decisions(c) /\ Decisions(c) \subseteq 1..n
      BY <1>4, <1>6 DEF Decisions
    <3> QED
      BY <1>3, <1>6, <2>2, <3>1, <3>2 DEF Standing, WasApproved
  <2> QED
    BY <2>1, <2>2
<1>12. CorporateTypeOK'
  BY <1>3, <1>6 DEF CompanyIInv, CorporateTypeOK
<1> QED
  BY <1>8, <1>10, <1>11, <1>12 DEF CompanyIInv, StandingsTold

\* A company's row is written as its record n is committed: n saw every other record.
LEMMA CompanyWritten ==
  ASSUME CompanyIInv, NEW q \in Request, Leave(q), NEW c \in Company, NEW row \in CompanyRow, NEW n \in Nat,
         companies' = [companies EXCEPT ![c] = row],
         members' \in [Company -> [Person -> MemberRow \cup {None}]],
         \A k \in Company : \A u \in Person : members[k][u] # None => members'[k][u] # None,
         history' \in [Company -> Seq(VerificationRecord)],
         \A d \in Company : d # c => history'[d] = history[d],
         HistoryGrows(history[c], history'[c]),
         n \in DOMAIN history'[c], history'[c][n].seen = Len(history'[c]),
         DOMAIN history'[c] \subseteq DOMAIN history[c] \cup {n},
         \A i \in DOMAIN history[c] : i # n => history'[c][i].seen = history[c][i].seen,
         \/ history'[c][n].from # history'[c][n].to /\ row.verification = history'[c][n].to
         \/ /\ history'[c][n].from = history'[c][n].to /\ n \in DOMAIN history[c]
            /\ companies[c] # None /\ row.verification = companies[c].verification,
         row.account # "INACTIVE" => WasApproved(c) \/ history'[c][n].to = "APPROVED"
  PROVE  CompanyIInv'
<1>1. companies' \in [Company -> CompanyRow \cup {None}] /\ companies'[c] = row /\ row # None
      /\ \A d \in Company : d # c => companies'[d] = companies[d]
  BY NoneIsNoCompany DEF CompanyIInv, CorporateTypeOK
<1>2. CorporateTypeOK'
  BY <1>1 DEF CorporateTypeOK
<1>3. NothingLost
  <2>1. \A d \in Company : HistoryGrows(history[d], history'[d])
    BY DEF HistoryGrows
  <2> QED
    BY <1>1, <2>1 DEF NothingLost
<1>4. job' \in [Request -> CompanyJobs] /\ \A p \in Request : job'[p] = [at |-> "left"] \/ job'[p] = job[p]
  BY CompanyLeaves DEF Leave, Goto, CompanyIInv
<1>5. (\A p \in Request : CompanyKnown(job[p]))'
  <2> SUFFICES ASSUME NEW p \in Request PROVE CompanyKnown(job[p])'
    OBVIOUS
  <2>1. CASE job'[p] = [at |-> "left"]
    BY <2>1 DEF CompanyKnown
  <2>2. CASE job'[p] = job[p]
    BY <1>3, <2>2, CompanyKnownKept
  <2> QED
    BY <1>4, <2>1, <2>2
<1>6. DOMAIN history'[c] = 1..Len(history'[c]) /\ Len(history'[c]) \in Nat /\ n # 0 /\ Len(history'[c]) # 0
  BY <1>2 DEF CorporateTypeOK
<1>7. row.account # "INACTIVE" => WasApproved(c)'
  <2>1. WasApproved(c) => WasApproved(c)'
    BY DEF WasApproved, HistoryGrows
  <2>2. history'[c][n].to = "APPROVED" => WasApproved(c)'
    BY <1>6 DEF WasApproved
  <2> QED
    BY <2>1, <2>2
<1>8. Decisions(c)' \subseteq 1..Len(history'[c])
  BY <1>6 DEF Decisions
<1>9. Standing(c, row.verification)'
  <2>1. CASE history'[c][n].from # history'[c][n].to
    <3>1. n \in Decisions(c)'
      BY <1>6, <2>1 DEF Decisions
    <3> QED
      BY <1>8, <2>1, <3>1 DEF Standing
  <2>2. CASE history'[c][n].from = history'[c][n].to
    <3>1. PICK i \in Decisions(c) : history[c][i].to = row.verification /\ \A k \in Decisions(c) : k <= history[c][i].seen
      BY <2>2 DEF CompanyIInv, StandingsTold, Standing
    <3>2. Decisions(c)' = Decisions(c) /\ n \notin Decisions(c)
      BY <2>2 DEF Decisions, HistoryGrows
    <3>3. i \in DOMAIN history[c] /\ i # n
      BY <3>1, <3>2 DEF Decisions
    <3>4. history'[c][i].to = history[c][i].to /\ history'[c][i].seen = history[c][i].seen
      BY <3>3 DEF HistoryGrows
    <3> QED
      BY <3>1, <3>2, <3>4 DEF Standing
  <2> QED
    BY <2>1, <2>2
<1>10. ASSUME NEW d \in Company, companies'[d] # None
       PROVE  (Standing(d, companies[d].verification) /\ (companies[d].account # "INACTIVE" => WasApproved(d)))'
  <2>1. CASE d # c
    BY <1>1, <1>10, <2>1, OtherStandings
  <2>2. CASE d = c
    BY <1>1, <1>7, <1>9, <2>2 DEF Standing, Decisions, WasApproved
  <2> QED
    BY <2>1, <2>2
<1> QED
  BY <1>2, <1>4, <1>5, <1>10 DEF CompanyIInv, StandingsTold

\* The second statement of an open transaction, and its commit.
LEMMA AccountUpdated ==
  ASSUME CompanyIInv, NEW q \in Request, NEW j, j = job[q], NEW c \in Company, c = j.company,
         NEW n, n = j.record, NEW row \in CompanyRow, UpdateAccount(q, row),
         NEW from, NEW to, Recorded(j, from, to),
         \/ from # to /\ row.verification = to
         \/ from = to /\ companies[c] # None /\ row.verification = companies[c].verification,
         row.account # "INACTIVE" => WasApproved(c) \/ to = "APPROVED"
  PROVE  CompanyIInv'
<1>1. PICK h \in Seq(VerificationRecord) : h = history[c]
  BY DEF CompanyIInv, CorporateTypeOK
<1>2. PICK old : old = h[n]
  OBVIOUS
<1>3. n \in DOMAIN h /\ n \in Nat /\ old \in VerificationRecord /\ old.from = from /\ old.to = to
  BY <1>1, <1>2 DEF Recorded
<1>4. PICK l \in Nat : l = Len(h)
  BY <1>1
<1> DEFINE new == [old EXCEPT !.seen = l]
<1>5. new \in VerificationRecord /\ new.from = from /\ new.to = to /\ new.seen = l
  BY <1>3 DEF VerificationRecord
<1>6. history' = [history EXCEPT ![c] = [h EXCEPT ![n] = new]]
  <2>1. history' = [history EXCEPT ![c][n].seen = l]
    BY <1>1, <1>4 DEF UpdateAccount
  <2> QED
    BY <1>1, <1>2, <2>1 DEF CompanyIInv, CorporateTypeOK
<1> HIDE DEF new
<1>7. history'[c] = [h EXCEPT ![n] = new] /\ \A d \in Company : d # c => history'[d] = history[d]
  BY <1>6 DEF CompanyIInv, CorporateTypeOK
<1>8. PICK g : g = history'[c]
  OBVIOUS
<1>9. g \in Seq(VerificationRecord) /\ DOMAIN g = DOMAIN h /\ Len(g) = l /\ g[n] = new
      /\ \A i \in DOMAIN h : i # n => g[i] = h[i]
  BY <1>3, <1>4, <1>5, <1>7, <1>8
<1>10. history' \in [Company -> Seq(VerificationRecord)]
  BY <1>6, <1>7, <1>8, <1>9 DEF CompanyIInv, CorporateTypeOK
<1>11. HistoryGrows(h, g)
  <2>1. l # 0
    BY <1>3, <1>4
  <2> QED
    BY <1>2, <1>3, <1>5, <1>9, <2>1 DEF HistoryGrows
<1>12. companies' = [companies EXCEPT ![c] = row] /\ Leave(q) /\ members' = members
  BY DEF UpdateAccount
<1>13. members' \in [Company -> [Person -> MemberRow \cup {None}]]
  BY <1>12 DEF CompanyIInv, CorporateTypeOK
<1>14. /\ HistoryGrows(history[c], history'[c]) /\ DOMAIN history'[c] = DOMAIN history[c] /\ n \in DOMAIN history[c]
       /\ history'[c][n].from = from /\ history'[c][n].to = to /\ history'[c][n].seen = Len(history'[c])
       /\ \A i \in DOMAIN history[c] : i # n => history'[c][i].seen = history[c][i].seen
  BY <1>1, <1>3, <1>5, <1>8, <1>9, <1>11
<1>15. \A k \in Company : \A u \in Person : members[k][u] # None => members'[k][u] # None
  BY <1>12
<1>16. /\ \A d \in Company : d # c => history'[d] = history[d]
       /\ n \in DOMAIN history'[c] /\ DOMAIN history'[c] \subseteq DOMAIN history[c] \cup {n}
       /\ row.account # "INACTIVE" => WasApproved(c) \/ history'[c][n].to = "APPROVED"
  BY <1>7, <1>14
<1>17. \/ history'[c][n].from # history'[c][n].to /\ row.verification = history'[c][n].to
       \/ /\ history'[c][n].from = history'[c][n].to /\ n \in DOMAIN history[c]
          /\ companies[c] # None /\ row.verification = companies[c].verification
  BY <1>14
<1>18. companies' = [companies EXCEPT ![c] = row] /\ Leave(q) /\ n \in Nat
  BY <1>3, <1>12
<1> QED
  BY <1>10, <1>13, <1>14, <1>15, <1>16, <1>17, <1>18, CompanyWritten

\* A member's row is written; rows are never taken away.
LEMMA MemberWritten ==
  ASSUME CompanyIInv, NEW q \in Request, UNCHANGED <<companies, history>>, Leave(q),
         members' \in [Company -> [Person -> MemberRow \cup {None}]],
         \A k \in Company : \A u \in Person : members[k][u] # None => members'[k][u] # None
  PROVE  CompanyIInv'
<1>1. job' \in [Request -> CompanyJobs] /\ \A p \in Request : job'[p] = [at |-> "left"] \/ job'[p] = job[p]
  BY CompanyLeaves DEF Leave, Goto, CompanyIInv
<1>2. CorporateTypeOK'
  BY DEF CompanyIInv, CorporateTypeOK
<1>3. NothingLost
  BY DEF NothingLost, HistoryGrows
<1>4. (\A p \in Request : CompanyKnown(job[p]))'
  <2> SUFFICES ASSUME NEW p \in Request PROVE CompanyKnown(job[p])'
    OBVIOUS
  <2>1. CASE job'[p] = [at |-> "left"]
    BY <2>1 DEF CompanyKnown
  <2>2. CASE job'[p] = job[p]
    BY <1>3, <2>2, CompanyKnownKept
  <2> QED
    BY <1>1, <2>1, <2>2
<1>5. StandingsTold'
  BY DEF CompanyIInv, StandingsTold, Standing, Decisions, WasApproved
<1> QED
  BY <1>1, <1>2, <1>4, <1>5 DEF CompanyIInv

LEMMA CompanyLeft ==
  ASSUME CompanyIInv, NEW q \in Request, Leave(q), UNCHANGED corporate
  PROVE  CompanyIInv'
BY CompanyLeaves, CompanyReads DEF Leave

\* The chains of reads of registration, resubmission and the member changes.
LEMMA CompanyProceeds ==
  ASSUME CompanyIInv, NEW q \in Request, NEW j, j = job[q], NEW step, Goto(q, [j EXCEPT !.at = step]), UNCHANGED corporate,
         \/ j \in RegisterJob /\ step = "register"
         \/ j \in ResubmitJob /\ step \in {"duplicate", "resubmit"}
         \/ j \in MemberJob /\ step = "upsert"
         \/ j \in MemberJob /\ step = "setRole" /\ members[j.company][j.user] # None
         \/ j \in RemoveJob /\ step = "setRemoved" /\ members[j.company][j.user] # None
  PROVE  CompanyIInv'
<1> DEFINE r == [j EXCEPT !.at = step]
<1>1. r \in CompanyJobs /\ r.at = step
  BY DEF CompanyJobs, RegisterJob, ResubmitJob, MemberJob, RemoveJob
<1>2. r.at \in {"setRole", "setRemoved"} => members[r.company][r.user] # None
  BY DEF RegisterJob, ResubmitJob, MemberJob, RemoveJob
<1>3. Goto(q, r)
  OBVIOUS
<1>4. r.at \notin {"decide", "decide:update", "operate", "operate:update", "resubmit:update"}
  BY <1>1
<1> HIDE DEF r
<1>5. CompanyKnown(r)
  BY <1>2, <1>4 DEF CompanyKnown
<1> QED
  BY <1>1, <1>3, <1>5, CompanyReads

LEMMA FindOwnMembershipsStep ==
  ASSUME CompanyIInv, NEW q \in Request, NEW u \in Person, NEW n \in Number,
         FindOwnMemberships(q, u, n) \/ FindApplicant(q, u, n)
  PROVE  CompanyIInv'
<1>1. PICK r \in RegisterJob \cup ResubmitJob : Goto(q, r) /\ r.at \in {"duplicate", "rejected"} /\ UNCHANGED corporate
  <2>1. CASE FindOwnMemberships(q, u, n)
    BY <2>1 DEF FindOwnMemberships, RegisterJob
  <2>2. CASE FindApplicant(q, u, n)
    <3>1. PICK c \in Company : /\ Goto(q, [at |-> "rejected", number |-> n, company |-> c, record |-> 0])
                              /\ UNCHANGED corporate
      BY <2>2 DEF FindApplicant, findActiveMemberships
    <3>2. [at |-> "rejected", number |-> n, company |-> c, record |-> 0] \in ResubmitJob
      BY DEF ResubmitJob
    <3> QED
      BY <3>1, <3>2
  <2> QED
    BY <2>1, <2>2
<1>2. r \in CompanyJobs /\ CompanyKnown(r)
  BY <1>1 DEF CompanyJobs, CompanyKnown
<1> QED
  BY <1>1, <1>2, CompanyReads

LEMMA FindDuplicateStep ==
  ASSUME CompanyIInv, NEW q \in Request, FindDuplicate(q) \/ FindRejected(q)
  PROVE  CompanyIInv'
<1>1. PICK j : j = job[q]
  OBVIOUS
<1>2. j.at = "duplicate" => (j \in RegisterJob /\ j.company = None) \/ (j \in ResubmitJob /\ j.company # None)
  BY <1>1, NoneIsNoCompany, CompanyJobFields DEF CompanyIInv, RegisterJob, ResubmitJob
<1>3. j.at = "rejected" => j \in ResubmitJob
  BY <1>1, CompanyJobFields DEF CompanyIInv
<1>4. CASE Leave(q)
  BY <1>4, CompanyLeft DEF FindDuplicate, FindRejected
<1>5. CASE FindDuplicate(q) /\ ~ Leave(q)
  BY <1>1, <1>2, <1>5, CompanyProceeds DEF FindDuplicate, Proceed, At
<1>6. CASE FindRejected(q) /\ ~ Leave(q)
  BY <1>1, <1>3, <1>6, CompanyProceeds DEF FindRejected, Proceed, At
<1> QED
  BY <1>4, <1>5, <1>6

LEMMA CreateRegistrationStep ==
  ASSUME CompanyIInv, NEW q \in Request, CreateRegistration(q)
  PROVE  CompanyIInv'
<1>1. PICK j \in RegisterJob : j = job[q]
  BY CompanyJobFields DEF CompanyIInv, CreateRegistration, At
<1>2. CASE UNCHANGED corporate
  BY <1>2, CompanyLeft DEF CreateRegistration
<1>3. ASSUME NEW c \in Company,
             companies' = [companies EXCEPT ![c] = [number |-> j.number, verification |-> "PENDING", account |-> "INACTIVE"]],
             history' = [history EXCEPT ![c] = Append(@, [from |-> None, to |-> "PENDING", seen |-> Len(@) + 1])],
             members' = [members EXCEPT ![c][j.user] = [role |-> OWNER_ROLE, status |-> "ACTIVE"]]
      PROVE  CompanyIInv'
  <2>1. PICK h \in Seq(VerificationRecord), l \in Nat : h = history[c] /\ l = Len(h)
    BY DEF CompanyIInv, CorporateTypeOK
  <2> DEFINE row == [number |-> j.number, verification |-> "PENDING", account |-> "INACTIVE"]
             owner == [role |-> OWNER_ROLE, status |-> "ACTIVE"]
             record == [from |-> None, to |-> "PENDING", seen |-> l + 1]
  <2>2. row \in CompanyRow /\ row.verification = "PENDING" /\ row.account = "INACTIVE"
    BY <1>1 DEF CompanyRow, Verification, RegisterJob
  <2>3. owner \in MemberRow /\ owner # None
    BY NoneIsNoCompany DEF MemberRow
  <2>4. record \in VerificationRecord /\ record.from # record.to /\ record.to = "PENDING" /\ record.seen = l + 1
    BY NoneIsNoCompany DEF VerificationRecord, Verification
  <2>5. /\ companies' = [companies EXCEPT ![c] = row] /\ members' = [members EXCEPT ![c][j.user] = owner]
        /\ history' = [history EXCEPT ![c] = Append(h, record)]
    BY <1>3, <2>1
  <2> HIDE DEF row, owner, record
  <2>6. /\ members' \in [Company -> [Person -> MemberRow \cup {None}]]
        /\ \A k \in Company : \A u \in Person : members[k][u] # None => members'[k][u] # None
    BY <2>3, <2>5 DEF CompanyIInv, CorporateTypeOK
  <2>7. PICK g : g = Append(h, record)
    OBVIOUS
  <2>8. g \in Seq(VerificationRecord) /\ Len(g) = l + 1 /\ DOMAIN g = 1..(l + 1) /\ DOMAIN h = 1..l
        /\ g[l + 1] = record /\ \A i \in 1..l : g[i] = h[i]
    BY <2>1, <2>4, <2>7
  <2>9. history' \in [Company -> Seq(VerificationRecord)] /\ history'[c] = g
        /\ \A d \in Company : d # c => history'[d] = history[d]
    BY <2>5, <2>7, <2>8 DEF CompanyIInv, CorporateTypeOK
  <2>10. HistoryGrows(h, g)
    BY <2>8 DEF HistoryGrows
  <2>11. Leave(q)
    BY DEF CreateRegistration
  <2>12. PICK n \in Nat : n = l + 1
    BY <2>1
  <2>13. /\ n \in DOMAIN history'[c] /\ history'[c][n] = record /\ history'[c][n].seen = Len(history'[c])
         /\ DOMAIN history'[c] \subseteq DOMAIN history[c] \cup {n}
         /\ \A i \in DOMAIN history[c] : i # n => history'[c][i].seen = history[c][i].seen
    BY <2>1, <2>4, <2>8, <2>9, <2>12
  <2>14. /\ history'[c][n].from # history'[c][n].to /\ row.verification = history'[c][n].to
         /\ row.account # "INACTIVE" => WasApproved(c) \/ history'[c][n].to = "APPROVED"
    BY <2>2, <2>4, <2>13
  <2>15. companies' = [companies EXCEPT ![c] = row] /\ HistoryGrows(history[c], history'[c])
    BY <2>1, <2>5, <2>9, <2>10
  <2> QED
    BY <2>2, <2>6, <2>9, <2>11, <2>13, <2>14, <2>15, CompanyWritten
<1> QED
  BY <1>1, <1>2, <1>3 DEF CreateRegistration

\* A transaction that rolls back leaves a record nobody sees.
LEMMA RollBackStep ==
  ASSUME CompanyIInv, NEW q \in Request, RollBack(q)
  PROVE  CompanyIInv'
BY CompanyLeft DEF RollBack

LEMMA ResubmitRegistrationStep ==
  ASSUME CompanyIInv, NEW q \in Request, InsertResubmission(q) \/ ResubmitRegistration(q)
  PROVE  CompanyIInv'
<1>1. PICK j \in ResubmitJob : j = job[q] /\ CompanyKnown(j)
  BY CompanyJobFields DEF CompanyIInv, InsertResubmission, ResubmitRegistration, At
<1>2. {"PENDING", "REJECTED"} \subseteq Verification
  BY DEF Verification
<1>3. CASE InsertResubmission(q)
  BY <1>1, <1>2, <1>3, RecordInserted DEF InsertResubmission
<1>4. CASE ResubmitRegistration(q)
  <2> DEFINE row == [number |-> j.number, verification |-> "PENDING", account |-> "INACTIVE"]
  <2>1. row \in CompanyRow /\ row.verification = "PENDING" /\ row.account = "INACTIVE" /\ j.company \in Company
    BY DEF CompanyRow, Verification, ResubmitJob
  <2>2. UpdateAccount(q, row) /\ j.at = "resubmit:update"
    BY <1>1, <1>4 DEF ResubmitRegistration, At
  <2> HIDE DEF row
  <2>3. Recorded(j, "REJECTED", "PENDING")
    BY <1>1, <2>2 DEF CompanyKnown
  <2> QED
    BY <1>1, <2>1, <2>2, <2>3, AccountUpdated
<1> QED
  BY <1>3, <1>4

LEMMA FindForDecisionStep ==
  ASSUME CompanyIInv, NEW q \in Request, NEW c \in Company, NEW to \in {"APPROVED", "REJECTED"}, FindForDecision(q, c, to)
  PROVE  CompanyIInv'
<1>1. PICK from : from = companies[c].verification
  OBVIOUS
<1> DEFINE r == [at |-> "decide", company |-> c, from |-> from, to |-> to, record |-> 0]
<1>2. companies[c] # None /\ from # to /\ Goto(q, r) /\ UNCHANGED corporate
  BY <1>1 DEF FindForDecision
<1>3. from \in Verification
  BY <1>1, <1>2 DEF CompanyIInv, CorporateTypeOK, CompanyRow
<1>4. r \in CompanyJobs /\ CompanyKnown(r)
  BY <1>2, <1>3 DEF CompanyJobs, DecideJob, CompanyKnown
<1> QED
  BY <1>2, <1>4, CompanyReads

LEMMA RecordDecisionStep ==
  ASSUME CompanyIInv, NEW q \in Request, InsertDecision(q) \/ RecordDecision(q)
  PROVE  CompanyIInv'
<1>1. PICK j \in DecideJob : j = job[q] /\ CompanyKnown(j) /\ j.at \in {"decide", "decide:update"}
  BY CompanyJobFields DEF CompanyIInv, InsertDecision, RecordDecision, At
<1>2. PICK c \in Company : c = j.company
  BY DEF DecideJob
<1>3. PICK old : old = companies[c]
  OBVIOUS
<1>4. companies[c] # None /\ j.from # j.to
  BY <1>1, <1>2 DEF CompanyKnown
<1>5. old \in CompanyRow /\ (old.account # "INACTIVE" => WasApproved(c))
  BY <1>3, <1>4 DEF CompanyIInv, CorporateTypeOK, StandingsTold
<1>6. j.to \in {"APPROVED", "REJECTED"} /\ j.to \in Verification /\ j.from \in Verification
  BY DEF DecideJob, Verification
<1>7. CASE InsertDecision(q)
  BY <1>1, <1>2, <1>4, <1>6, <1>7, RecordInserted DEF InsertDecision
<1>8. CASE RecordDecision(q)
  <2> DEFINE account == IF j.to = "APPROVED" THEN "ACTIVE" ELSE old.account
             row == [old EXCEPT !.verification = j.to, !.account = account]
  <2>1. UpdateAccount(q, row) /\ j.at = "decide:update"
    <3>1. row = [old EXCEPT !.verification = j.to, !.account = IF j.to = "APPROVED" THEN "ACTIVE" ELSE @]
      OBVIOUS
    <3> HIDE DEF row
    <3> QED
      BY <1>1, <1>2, <1>3, <1>8, <3>1 DEF RecordDecision, At
  <2>2. account \in {"ACTIVE", "SUSPENDED", "INACTIVE"} /\ (account # "INACTIVE" => WasApproved(c) \/ j.to = "APPROVED")
    BY <1>5 DEF CompanyRow
  <2> HIDE DEF account
  <2>3. row \in CompanyRow /\ row.verification = j.to /\ row.account = account
    BY <1>5, <1>6, <2>2 DEF CompanyRow
  <2> HIDE DEF row
  <2>4. Recorded(j, j.from, j.to)
    BY <1>1, <2>1 DEF CompanyKnown
  <2> QED
    BY <1>1, <1>2, <1>4, <2>1, <2>2, <2>3, <2>4, AccountUpdated
<1> QED
  BY <1>7, <1>8

LEMMA FindForStatusChangeStep ==
  ASSUME CompanyIInv, NEW q \in Request, NEW c \in Company, NEW target \in {"SUSPENDED", "ACTIVE"},
         FindForStatusChange(q, c, target)
  PROVE  CompanyIInv'
<1>1. companies[c] # None /\ companies[c].verification = "APPROVED"
  BY DEF FindForStatusChange
<1> DEFINE r == [at |-> "operate", company |-> c, from |-> "APPROVED", to |-> target, record |-> 0]
<1>2. Goto(q, r) /\ UNCHANGED corporate
  BY <1>1 DEF FindForStatusChange
<1>3. WasApproved(c)
  BY <1>1 DEF CompanyIInv, StandingsTold, Standing, WasApproved, Decisions
<1>4. r \in CompanyJobs /\ CompanyKnown(r)
  BY <1>1, <1>3 DEF CompanyJobs, OperateJob, Verification, CompanyKnown
<1> QED
  BY <1>2, <1>4, CompanyReads

LEMMA RecordAccountStatusChangeStep ==
  ASSUME CompanyIInv, NEW q \in Request, InsertStatusChange(q) \/ RecordAccountStatusChange(q)
  PROVE  CompanyIInv'
<1>1. PICK j \in OperateJob : j = job[q] /\ CompanyKnown(j) /\ j.at \in {"operate", "operate:update"}
  BY CompanyJobFields DEF CompanyIInv, InsertStatusChange, RecordAccountStatusChange, At
<1>2. PICK c \in Company : c = j.company
  BY DEF OperateJob
<1>3. PICK old : old = companies[c]
  OBVIOUS
<1>4. companies[c] # None /\ WasApproved(c) /\ WasApproved(j.company)
  BY <1>1, <1>2 DEF CompanyKnown
<1>5. old \in CompanyRow
  BY <1>3, <1>4 DEF CompanyIInv, CorporateTypeOK
<1>6. j.to \in {"ACTIVE", "SUSPENDED"} /\ j.from \in Verification
  BY DEF OperateJob
<1>7. CASE InsertStatusChange(q)
  BY <1>1, <1>2, <1>4, <1>6, <1>7, RecordInserted DEF InsertStatusChange
<1>8. CASE RecordAccountStatusChange(q)
  <2> DEFINE row == [old EXCEPT !.account = j.to]
  <2>1. UpdateAccount(q, row) /\ j.at = "operate:update"
    BY <1>1, <1>2, <1>3, <1>8 DEF RecordAccountStatusChange, At
  <2>2. row \in CompanyRow /\ row.verification = old.verification
    BY <1>5, <1>6 DEF CompanyRow
  <2> HIDE DEF row
  <2>3. Recorded(j, j.from, j.from)
    BY <1>1, <2>1 DEF CompanyKnown
  <2> QED
    BY <1>1, <1>2, <1>3, <1>4, <2>1, <2>2, <2>3, AccountUpdated
<1> QED
  BY <1>7, <1>8

LEMMA ResolveManagerStep ==
  ASSUME CompanyIInv, NEW q \in Request, NEW u \in Person, NEW v \in Person, NEW step, NEW role,
         ResolveManager(q, u, v, step, role),
         (step \in {"add", "update"} /\ role \in ASSIGNABLE_MEMBER_ROLES) \/ (step = "remove" /\ role = None)
  PROVE  CompanyIInv'
<1>1. PICK c \in Company : Goto(q, [at |-> step, company |-> c, by |-> u, user |-> v, role |-> role]) /\ UNCHANGED corporate
  BY DEF ResolveManager, findActiveMemberships
<1> DEFINE r == [at |-> step, company |-> c, by |-> u, user |-> v, role |-> role]
<1>2. r \in MemberJob \/ r \in RemoveJob
  BY DEF MemberJob, RemoveJob
<1>3. r \in CompanyJobs /\ CompanyKnown(r)
  BY <1>2 DEF CompanyJobs, CompanyKnown
<1> QED
  BY <1>1, <1>3, CompanyReads

\* A member change reads once more: the person elsewhere, or the row to change.
LEMMA FindMemberStep ==
  ASSUME CompanyIInv, NEW q \in Request, FindElsewhere(q) \/ FindMemberToUpdate(q) \/ FindMemberToRemove(q)
  PROVE  CompanyIInv'
<1>1. PICK j : j = job[q]
  OBVIOUS
<1>2. (j.at \in {"add", "update"} => j \in MemberJob) /\ (j.at = "remove" => j \in RemoveJob)
  BY <1>1, CompanyJobFields DEF CompanyIInv
<1>3. CASE Leave(q)
  BY <1>3, CompanyLeft DEF FindElsewhere, FindMemberToUpdate, FindMemberToRemove
<1>4. CASE FindElsewhere(q) /\ ~ Leave(q)
  BY <1>1, <1>2, <1>4, CompanyProceeds DEF FindElsewhere, Proceed, At
<1>5. CASE FindMemberToUpdate(q) /\ ~ Leave(q)
  BY <1>1, <1>2, <1>5, CompanyProceeds DEF FindMemberToUpdate, Proceed, At, IsMember
<1>6. CASE FindMemberToRemove(q) /\ ~ Leave(q)
  BY <1>1, <1>2, <1>6, CompanyProceeds DEF FindMemberToRemove, Proceed, At, IsMember
<1> QED
  BY <1>3, <1>4, <1>5, <1>6

LEMMA MemberRowStep ==
  ASSUME CompanyIInv, NEW q \in Request, UpsertMember(q) \/ SetMemberRole(q) \/ RemoveMember(q)
  PROVE  CompanyIInv'
<1>1. PICK j \in MemberJob \cup RemoveJob :
        /\ j = job[q]
        /\ j.at \in {"upsert", "setRole"} => j \in MemberJob
        /\ j.at \in {"setRole", "setRemoved"} => members[j.company][j.user] # None
  BY CompanyJobFields DEF CompanyIInv, CompanyKnown, UpsertMember, SetMemberRole, RemoveMember, At
<1>2. j.company \in Company /\ j.user \in Person /\ (j.at \in {"upsert", "setRole"} => j.role \in ASSIGNABLE_MEMBER_ROLES)
  BY <1>1 DEF MemberJob, RemoveJob
<1>3. PICK c \in Company, u \in Person : c = j.company /\ u = j.user
  BY <1>2
<1>4. PICK old : old = members[c][u]
  OBVIOUS
<1>5. old \in MemberRow \cup {None} /\ members \in [Company -> [Person -> MemberRow \cup {None}]]
  BY <1>4 DEF CompanyIInv, CorporateTypeOK
<1>6. PICK row \in MemberRow : members' = [members EXCEPT ![c][u] = row]
  <2>1. CASE UpsertMember(q)
    <3>1. [role |-> j.role, status |-> "ACTIVE"] \in MemberRow
      BY <1>1, <1>2, <2>1 DEF UpsertMember, At, MemberRow
    <3> QED
      BY <1>1, <1>3, <2>1, <3>1 DEF UpsertMember
  <2>2. CASE SetMemberRole(q)
    <3>1. old \in MemberRow /\ j.role \in ASSIGNABLE_MEMBER_ROLES
      BY <1>1, <1>2, <1>3, <1>4, <1>5, <2>2 DEF SetMemberRole, At
    <3>2. [old EXCEPT !.role = j.role] \in MemberRow
      BY <3>1 DEF MemberRow
    <3>3. members' = [members EXCEPT ![c][u].role = j.role]
      BY <1>1, <1>3, <2>2 DEF SetMemberRole
    <3>4. members' = [members EXCEPT ![c][u] = [old EXCEPT !.role = j.role]]
      BY <1>4, <1>5, <3>3
    <3> QED
      BY <3>2, <3>4
  <2>3. CASE RemoveMember(q)
    <3>1. old \in MemberRow
      BY <1>1, <1>3, <1>4, <1>5, <2>3 DEF RemoveMember, At
    <3>2. [old EXCEPT !.status = "REMOVED"] \in MemberRow
      BY <3>1 DEF MemberRow
    <3>3. members' = [members EXCEPT ![c][u].status = "REMOVED"]
      BY <1>1, <1>3, <2>3 DEF RemoveMember
    <3>4. members' = [members EXCEPT ![c][u] = [old EXCEPT !.status = "REMOVED"]]
      BY <1>4, <1>5, <3>3
    <3> QED
      BY <3>2, <3>4
  <2> QED
    BY <2>1, <2>2, <2>3
<1>7. row # None
  BY NoneIsNoCompany
<1>8. /\ members' \in [Company -> [Person -> MemberRow \cup {None}]]
      /\ \A k \in Company : \A v \in Person : members[k][v] # None => members'[k][v] # None
  BY <1>5, <1>6, <1>7
<1> QED
  BY <1>8, MemberWritten DEF UpsertMember, SetMemberRole, RemoveMember

LEMMA AskAccountStep ==
  ASSUME CompanyIInv, NEW q \in Request, NEW u \in Person, AskToOrder(q, u) \/ AskToSignIn(q, u)
  PROVE  CompanyIInv'
<1>1. [at |-> "done", user |-> u] \in CompanyJobs /\ CompanyKnown([at |-> "done", user |-> u])
  BY DEF CompanyJobs, AskedJob, CompanyKnown
<1> QED
  BY <1>1, CompanyReads, CompanyLeft DEF AskToOrder, AskToSignIn

LEMMA CompanyInvariance == CorporateSpec => []CompanyIInv
<1> DEFINE Moves == \E q \in Request : CorporateNext(q)
<1>1. ASSUME CompanyIInv, NEW q \in Request, CorporateNext(q) PROVE CompanyIInv'
  <2>1. CASE \E u, v \in Person : \/ \E role \in ASSIGNABLE_MEMBER_ROLES, step \in {"add", "update"} :
                                       ResolveManager(q, u, v, step, role)
                                  \/ ResolveManager(q, u, v, "remove", None)
    BY <1>1, <2>1, ResolveManagerStep
  <2> QED
    BY <1>1, <2>1, FindOwnMembershipsStep, FindDuplicateStep, CreateRegistrationStep, RollBackStep, ResubmitRegistrationStep,
       FindForDecisionStep, RecordDecisionStep, FindForStatusChangeStep, RecordAccountStatusChangeStep,
       FindMemberStep, MemberRowStep, AskAccountStep DEF CorporateNext
<1>2. CompanyIInv /\ UNCHANGED <<job, corporate>> => CompanyIInv'
  BY DEF CompanyIInv, corporate, CorporateTypeOK, CompanyKnown, WasApproved, Recorded, StandingsTold, Standing, Decisions
<1>3. CompanyIInv /\ [Moves]_<<job, corporate>> => CompanyIInv'
  BY <1>1, <1>2
<1> QED
  BY CompanyInitIInv, <1>3, PTL DEF CorporateSpec

\* Companies, members and history keep their types under every interleaving of reviews,
\* applications and member changes (corporate.repository.js).
THEOREM CorporateTypeCorrect == CorporateSpec => []CorporateTypeOK
<1>1. CompanyIInv => CorporateTypeOK
  BY DEF CompanyIInv
<1> QED
  BY <1>1, CompanyInvariance, PTL

\* BR-207: every review and every status change writes unconditionally after it read, its record and
\* then the row (recordVerificationDecision, recordAccountStatusChange, resubmitRegistration).  Even so
\* the status is what a committed decision says that no other committed one follows, and no company
\* operates or is suspended that no record approved.
THEOREM HistoryTellsStanding == CorporateSpec => []HistoryTellsStatus
<1>1. CompanyIInv => HistoryTellsStatus
  BY DEF CompanyIInv, StandingsTold, Standing, WasApproved, HistoryTellsStatus
<1> QED
  BY <1>1, CompanyInvariance, PTL

-----------------------------------------------------------------------------
(* Quotes, orders and the outbox. *)

ProfileJob == [at : {"insertProfile"}, owner : Owner]
ConsentJob == [at : {"setProfile"}, owner : Owner, agree : BOOLEAN, changes : BOOLEAN]
SaveJob    == [at : {"saveAddress"}, owner : Owner, serviceable : {TRUE, None}, default : BOOLEAN]
EditJob    == [at : {"editAddress"}, address : Nat, default : BOOLEAN, serviceable : {TRUE, None}]
ArchiveJob == [at : {"promote", "archive"}, address : Nat, next : Nat]
QuoteAsk   == [at : {"quote:product", "quote:rate"}, owner : Owner, address : Nat]
QuoteJob   == [at : {"quote:delivery", "quote:save"}, owner : Owner, address : Nat, rate : Nat]
OrderStep  == {"order:read", "order:similar", "order:number", "order:insert"}
OrderJob   == [at : OrderStep, owner : Owner, quote : Nat, mode : PaymentMode, acknowledge : BOOLEAN,
               asked : Nat, number : Nat]
ReserveJob == [at : {"order:reserve"}, number : Nat]

BookJobs == UNION {[at : {"new", "left"}], ProfileJob, ConsentJob, SaveJob, EditJob, ArchiveJob}
ShopJobs == UNION {BookJobs, QuoteAsk, QuoteJob, OrderJob, ReserveJob}

\* What an earlier look at the quote still tells, the number computed, and the order inserted.
ShopKnown(r) ==
  /\ r.at \in OrderStep => /\ r.quote \in DOMAIN quotes
                           /\ quotes[r.quote].owner = r.owner /\ r.asked < quotes[r.quote].expires
  /\ r.at = "order:insert" => r.number \in 1..Len(orders) + 1
  /\ r.at = "order:reserve" => /\ r.number \in 1..Len(orders)
                               /\ orders[r.number].status # "CANCELLED_BY_ADMIN"
                               /\ <<r.number, RESERVED>> \notin outbox

ReservesApart ==
  \A p, q \in Request : job[p].at = "order:reserve" /\ job[q].at = "order:reserve" /\ job[p].number = job[q].number => p = q

\* The n-th order has number n and the one order of its quote.
QuotesAgree ==
  /\ \A i \in DOMAIN orders :
       LET k == orders[i].quote
       IN /\ orders[i].number = i /\ k \in DOMAIN quotes
          /\ orders[i].owner = quotes[k].owner /\ orders[i].rate = quotes[k].rate
          /\ orders[i].address = quotes[k].address /\ orders[i].asked < quotes[k].expires
  /\ \A i, j \in DOMAIN orders : orders[i].quote = orders[j].quote => i = j
  /\ \A k \in DOMAIN quotes : quotes[k].status = "CONSUMED" <=> \E i \in DOMAIN orders : orders[i].quote = k

EventsAgree ==
  /\ \A e \in outbox : e[1] \in DOMAIN orders
  /\ \A i \in DOMAIN orders :
       /\ <<i, CREATED>> \in outbox
       /\ <<i, ALLOCATION_REQUESTED>> \in outbox <=> orders[i].mode = "CASH_ON_DELIVERY"
       /\ <<i, CANCELLED>> \in outbox <=> orders[i].status = "CANCELLED_BY_ADMIN"
       /\ ~ (<<i, CANCELLED>> \in outbox /\ <<i, RESERVED>> \in outbox)

ShopIInv ==
  /\ BookTypeOK /\ PlacementTypeOK
  /\ job \in [Request -> ShopJobs]
  /\ \A q \in Request : ShopKnown(job[q])
  /\ ReservesApart /\ QuotesAgree /\ EventsAgree

LEMMA ShopJobFields ==
  ASSUME NEW r \in ShopJobs
  PROVE  /\ r.at = "insertProfile" => r \in ProfileJob
         /\ r.at = "setProfile" => r \in ConsentJob
         /\ r.at = "saveAddress" => r \in SaveJob
         /\ r.at = "editAddress" => r \in EditJob
         /\ r.at \in {"promote", "archive"} => r \in ArchiveJob
         /\ r.at \in {"quote:product", "quote:rate"} => r \in QuoteAsk
         /\ r.at \in {"quote:delivery", "quote:save"} => r \in QuoteJob
         /\ r.at \in OrderStep => r \in OrderJob
         /\ r.at = "order:reserve" => r \in ReserveJob
<1>1. CASE r \in BookJobs
  <2>1. CASE r \in ProfileJob \cup ConsentJob
    BY <2>1 DEF ProfileJob, ConsentJob, OrderStep
  <2>2. CASE r \in SaveJob
    BY <2>2 DEF SaveJob, OrderStep
  <2>3. CASE r \in EditJob
    BY <2>3 DEF EditJob, OrderStep
  <2>4. CASE r \in ArchiveJob
    BY <2>4 DEF ArchiveJob, OrderStep
  <2>5. CASE r \in [at : {"new", "left"}]
    BY <2>5 DEF OrderStep
  <2> QED
    BY <1>1, <2>1, <2>2, <2>3, <2>4, <2>5 DEF BookJobs
<1>2. CASE r \in QuoteAsk \cup QuoteJob
  BY <1>2 DEF QuoteAsk, QuoteJob, OrderStep
<1>3. CASE r \in OrderJob \cup ReserveJob
  BY <1>3 DEF OrderJob, ReserveJob, OrderStep
<1> QED
  BY <1>1, <1>2, <1>3 DEF ShopJobs

LEMMA AddressFields ==
  ASSUME NEW a \in AddressRow
  PROVE  /\ a.owner \in Owner /\ a.edits \in Nat /\ a.serviceable \in {TRUE, None}
         /\ a.default \in BOOLEAN /\ a.archived \in BOOLEAN
BY DEF AddressRow

\* What a run may begin with: none, one, or two rows.
LEMMA ShortTable ==
  ASSUME NEW S, NEW a \in S, NEW b \in S, NEW s, s = << >> \/ s = <<a>> \/ s = <<b, a>>
  PROVE  s \in Seq(S) /\ Len(s) \in 0..2 /\ \A k \in DOMAIN s : s[k] = a \/ s[k] = b
<1>1. CASE s = << >>
  BY <1>1
<1>2. CASE s = <<a>>
  BY <1>2
<1>3. CASE s = <<b, a>>
  BY <1>3
<1> QED
  BY <1>1, <1>2, <1>3

LEMMA ShopInitIInv == RequestsInit /\ BookInit /\ PlacementInit => ShopIInv
<1> SUFFICES ASSUME RequestsInit, BookInit, PlacementInit PROVE ShopIInv
  OBVIOUS
<1>1. [at |-> "new"] \in ShopJobs
  BY DEF ShopJobs, BookJobs
<1>2. job \in [Request -> ShopJobs] /\ \A q \in Request : job[q].at = "new"
  BY <1>1 DEF RequestsInit
<1>3. (\A q \in Request : ShopKnown(job[q])) /\ ReservesApart
  BY <1>2 DEF ShopKnown, ReservesApart, OrderStep
<1>4. \A u \in Owner, d \in BOOLEAN : NewAddress(u, d) \in AddressRow
  BY DEF NewAddress, AddressRow
<1>5. addresses \in Seq(AddressRow) /\ Len(addresses) \in 0..2
  <2>1. CASE addresses = << >>
    BY <2>1
  <2>2. ASSUME NEW u \in Owner, addresses \in {<<NewAddress(u, TRUE)>>, <<NewAddress(u, FALSE), NewAddress(u, TRUE)>>}
        PROVE  addresses \in Seq(AddressRow) /\ Len(addresses) \in 0..2
    <3>1. PICK a \in AddressRow, b \in AddressRow : a = NewAddress(u, TRUE) /\ b = NewAddress(u, FALSE)
      BY <1>4
    <3>2. addresses = <<a>> \/ addresses = <<b, a>>
      BY <2>2, <3>1
    <3> QED
      BY <3>2, ShortTable
  <2> QED
    BY <2>1, <2>2 DEF BookInit
<1>6. BookTypeOK
  <2>1. profiles \in [Owner -> Consent \cup {None}]
    <3>1. [optIn |-> FALSE, asked |-> FALSE] \in Consent
      BY DEF Consent
    <3> QED
      BY <3>1 DEF BookInit
  <2>2. \A n \in 0..2 : n <= MaxAddresses
    BY BookBound
  <2> QED
    BY <1>5, <2>1, <2>2 DEF BookTypeOK
<1>7. quotes \in Seq(QuoteRow) /\ Len(quotes) \in 0..2 /\ \A k \in DOMAIN quotes : quotes[k].status = "ACTIVE"
  <2>1. CASE quotes = << >>
    BY <2>1
  <2>2. CASE addresses # << >> /\ quotes # << >>
    <3> DEFINE row == [owner |-> addresses[1].owner, address |-> 1, rate |-> 1,
                       expires |-> 1 + QuoteTtl, status |-> "ACTIVE"]
    <3>1. addresses[1] \in AddressRow
      BY <1>5, <2>2
    <3>2. row \in QuoteRow /\ row.status = "ACTIVE"
      <4>1. addresses[1].owner \in Owner
        BY <3>1, AddressFields
      <4>2. 1 + QuoteTtl \in Nat
        BY QuoteTimes
      <4> QED
        BY <4>1, <4>2 DEF QuoteRow
    <3>3. quotes \in {<<row>>, <<row, row>>}
      BY <2>2 DEF PlacementInit
    <3> HIDE DEF row
    <3>4. quotes \in Seq(QuoteRow) /\ Len(quotes) \in 0..2 /\ \A k \in DOMAIN quotes : quotes[k] = row
      BY <3>2, <3>3, ShortTable
    <3> QED
      BY <3>2, <3>4
  <2> QED
    BY <2>1, <2>2 DEF PlacementInit
<1>8. orders = << >> /\ outbox = {} /\ now = 1 /\ onSale = TRUE /\ rate = 1
  BY DEF PlacementInit
<1>9. PlacementTypeOK
  BY <1>7, <1>8, ShopBounds DEF PlacementTypeOK
<1>10. QuotesAgree /\ EventsAgree
  BY <1>7, <1>8 DEF QuotesAgree, EventsAgree
<1> QED
  BY <1>2, <1>3, <1>6, <1>9, <1>10 DEF ShopIInv

\* A statement that leaves quotes, orders and the outbox alone.
LEMMA ShopReads ==
  ASSUME ShopIInv, NEW q \in Request, NEW r \in ShopJobs, ShopKnown(r), r.at # "order:reserve",
         Goto(q, r), BookTypeOK', UNCHANGED counter
  PROVE  ShopIInv'
<1>1. quotes' = quotes /\ orders' = orders /\ outbox' = outbox /\ now' = now /\ onSale' = onSale /\ rate' = rate
  BY DEF counter
<1>2. job' \in [Request -> ShopJobs] /\ \A p \in Request : job'[p] = IF p = q THEN r ELSE job[p]
  BY DEF Goto, ShopIInv
<1>3. \A p \in Request : ShopKnown(job'[p])
  BY <1>2 DEF ShopIInv
<1>4. (\A p \in Request : ShopKnown(job[p]))'
  BY <1>1, <1>3 DEF ShopKnown
<1>5. PlacementTypeOK' /\ QuotesAgree' /\ EventsAgree'
  BY <1>1 DEF ShopIInv, PlacementTypeOK, QuotesAgree, EventsAgree
<1>6. ReservesApart'
  BY <1>2 DEF ShopIInv, ReservesApart
<1> QED
  BY <1>2, <1>4, <1>5, <1>6 DEF ShopIInv

LEMMA ShopLeaves == [at |-> "left"] \in ShopJobs /\ [at |-> "left"].at = "left" /\ ShopKnown([at |-> "left"])
BY DEF ShopJobs, BookJobs, ShopKnown, OrderStep

LEMMA ShopLeft ==
  ASSUME ShopIInv, NEW q \in Request, Leave(q), BookTypeOK', UNCHANGED counter
  PROVE  ShopIInv'
BY ShopLeaves, ShopReads DEF Leave

LEMMA BookJobsAreFree == ASSUME NEW r \in BookJobs PROVE r \in ShopJobs /\ ShopKnown(r) /\ r.at # "order:reserve"
<1>1. r \in ShopJobs
  BY DEF ShopJobs
<1>2. r.at \notin OrderStep \cup {"order:reserve"}
  <2>1. r.at \in {"new", "left", "insertProfile", "setProfile", "saveAddress", "editAddress", "promote", "archive"}
    <3>1. CASE r \in ProfileJob \cup ConsentJob
      BY <3>1 DEF ProfileJob, ConsentJob
    <3>2. CASE r \in SaveJob \cup EditJob
      BY <3>2 DEF SaveJob, EditJob
    <3>3. CASE r \in ArchiveJob \cup [at : {"new", "left"}]
      BY <3>3 DEF ArchiveJob
    <3> QED
      BY <3>1, <3>2, <3>3 DEF BookJobs
  <2> QED
    BY <2>1 DEF OrderStep
<1> QED
  BY <1>1, <1>2 DEF ShopKnown, OrderStep

LEMMA BookReads ==
  ASSUME ShopIInv, NEW q \in Request, NEW r \in BookJobs, Goto(q, r), UNCHANGED shop
  PROVE  ShopIInv'
<1>1. BookTypeOK' /\ UNCHANGED counter
  BY DEF ShopIInv, BookTypeOK, shop, book
<1> QED
  BY <1>1, BookJobsAreFree, ShopReads

\* A table of n rows, whatever each of them became.
LEMMA TableRewritten ==
  ASSUME NEW S, NEW rows, NEW old \in Seq(S), DOMAIN rows = DOMAIN old, rows = [a \in DOMAIN old |-> rows[a]],
         \A a \in DOMAIN old : rows[a] \in S
  PROVE  rows \in Seq(S) /\ Len(rows) = Len(old)
OBVIOUS

LEMMA AddressReplaced ==
  ASSUME NEW rows \in Seq(AddressRow), NEW a, NEW row, a \in DOMAIN rows => row \in AddressRow
  PROVE  [rows EXCEPT ![a] = row] \in Seq(AddressRow) /\ Len([rows EXCEPT ![a] = row]) = Len(rows)
<1> DEFINE new == [rows EXCEPT ![a] = row]
<1>1. DOMAIN new = DOMAIN rows /\ new = [b \in DOMAIN rows |-> new[b]]
  OBVIOUS
<1>2. \A b \in DOMAIN rows : rows[b] \in AddressRow /\ new[b] = IF b = a THEN row ELSE rows[b]
  OBVIOUS
<1> HIDE DEF new
<1>3. new \in Seq(AddressRow) /\ Len(new) = Len(rows)
  BY <1>1, <1>2, TableRewritten
<1> QED
  BY <1>3 DEF new

LEMMA DefaultsCleared ==
  ASSUME BookTypeOK, NEW u, NEW but
  PROVE  ClearDefault(u, but) \in Seq(AddressRow) /\ Len(ClearDefault(u, but)) = Len(addresses)
<1> DEFINE rows == ClearDefault(u, but)
<1>1. DOMAIN rows = DOMAIN addresses /\ rows = [a \in DOMAIN addresses |-> rows[a]]
  BY DEF ClearDefault
<1>2. ASSUME NEW a \in DOMAIN addresses PROVE rows[a] \in AddressRow
  <2>1. addresses[a] \in AddressRow
    BY DEF BookTypeOK
  <2>2. [addresses[a] EXCEPT !.default = FALSE] \in AddressRow
    BY <2>1 DEF AddressRow
  <2>3. rows[a] = [addresses[a] EXCEPT !.default = FALSE] \/ rows[a] = addresses[a]
    BY DEF ClearDefault
  <2> QED
    BY <2>1, <2>2, <2>3
<1>3. addresses \in Seq(AddressRow)
  BY DEF BookTypeOK
<1> HIDE DEF rows
<1>4. rows \in Seq(AddressRow) /\ Len(rows) = Len(addresses)
  BY <1>1, <1>2, <1>3, TableRewritten
<1> QED
  BY <1>4 DEF rows

LEMMA RowsCommitted ==
  ASSUME BookTypeOK, NEW rows \in Seq(AddressRow), Len(rows) <= MaxAddresses, Commits(rows), UNCHANGED profiles
  PROVE  BookTypeOK'
<1>1. addresses' = rows \/ addresses' = addresses
  BY DEF Commits
<1> QED
  BY <1>1 DEF BookTypeOK

LEMMA BookAskStep ==
  ASSUME ShopIInv, NEW q \in Request, NEW u \in Owner, UNCHANGED counter,
         \/ RegisterCustomer(q, u) \/ UpdateProfile(q, u) \/ CreateAddress(q, u)
         \/ \E a \in DOMAIN addresses : UpdateAddress(q, u, a) \/ ArchiveAddress(q, u, a)
  PROVE  ShopIInv'
<1> DEFINE Reads == \E r \in BookJobs : Goto(q, r) /\ UNCHANGED shop
<1>1. \A a \in DOMAIN addresses : a \in Nat /\ addresses[a] \in AddressRow
  BY DEF ShopIInv, BookTypeOK
<1>2. ASSUME RegisterCustomer(q, u) PROVE Reads
  <2>1. [at |-> "insertProfile", owner |-> u] \in BookJobs
    BY DEF BookJobs, ProfileJob
  <2> QED
    BY <1>2, <2>1 DEF RegisterCustomer, AsksBook, shop
<1>3. ASSUME UpdateProfile(q, u) PROVE Reads
  <2>1. PICK agree \in BOOLEAN, changes \in BOOLEAN :
          Goto(q, [at |-> "setProfile", owner |-> u, agree |-> agree, changes |-> changes]) /\ UNCHANGED book
    BY <1>3 DEF UpdateProfile, AsksBook
  <2>2. [at |-> "setProfile", owner |-> u, agree |-> agree, changes |-> changes] \in BookJobs
    BY DEF BookJobs, ConsentJob
  <2> QED
    BY <2>1, <2>2 DEF shop
<1>4. ASSUME CreateAddress(q, u) PROVE Reads
  <2>1. PICK default \in BOOLEAN, s \in {TRUE, None} :
          Goto(q, [at |-> "saveAddress", owner |-> u, serviceable |-> s, default |-> default]) /\ UNCHANGED book
    BY <1>4 DEF CreateAddress, AsksBook, checkServiceability
  <2>2. [at |-> "saveAddress", owner |-> u, serviceable |-> s, default |-> default] \in BookJobs
    BY DEF BookJobs, SaveJob
  <2> QED
    BY <2>1, <2>2 DEF shop
<1>5. ASSUME NEW a \in DOMAIN addresses, UpdateAddress(q, u, a) PROVE Reads
  <2>1. addresses[a].serviceable \in {TRUE, None}
    BY <1>1, AddressFields
  <2>2. PICK default \in BOOLEAN, s \in {TRUE, None} :
          Goto(q, [at |-> "editAddress", address |-> a, default |-> default, serviceable |-> s]) /\ UNCHANGED book
    BY <1>5, <2>1 DEF UpdateAddress, AsksBook, checkServiceability
  <2>3. [at |-> "editAddress", address |-> a, default |-> default, serviceable |-> s] \in BookJobs
    BY <1>1 DEF BookJobs, EditJob
  <2> QED
    BY <2>2, <2>3 DEF shop
<1>6. ASSUME NEW a \in DOMAIN addresses, ArchiveAddress(q, u, a) PROVE Reads
  <2>1. PICK at \in {"promote", "archive"} : Goto(q, [at |-> at, address |-> a, next |-> 0]) /\ UNCHANGED book
    BY <1>6 DEF ArchiveAddress, AsksBook
  <2>2. [at |-> at, address |-> a, next |-> 0] \in BookJobs
    BY <1>1 DEF BookJobs, ArchiveJob
  <2> QED
    BY <2>1, <2>2 DEF shop
<1>7. Reads
  BY <1>2, <1>3, <1>4, <1>5, <1>6
<1> QED
  BY <1>7, BookReads

LEMMA ProfileStep ==
  ASSUME ShopIInv, NEW q \in Request, UNCHANGED counter, InsertProfile(q) \/ SetProfile(q)
  PROVE  ShopIInv'
<1>1. \A agree \in BOOLEAN : [optIn |-> agree, asked |-> agree] \in Consent
  BY DEF Consent
<1>2. PICK j \in ShopJobs : j = job[q]
  BY DEF ShopIInv
<1>3. profiles \in [Owner -> Consent \cup {None}] /\ addresses' = addresses /\ Leave(q)
  BY DEF ShopIInv, BookTypeOK, InsertProfile, SetProfile
<1>4. profiles' \in [Owner -> Consent \cup {None}]
  <2>1. CASE InsertProfile(q)
    <3>1. PICK agree \in BOOLEAN :
            profiles' = [profiles EXCEPT ![j.owner] = IF @ = None THEN [optIn |-> agree, asked |-> agree] ELSE @]
      BY <1>2, <2>1 DEF InsertProfile
    <3> QED
      BY <1>1, <1>3, <3>1
  <2>2. CASE SetProfile(q)
    <3>1. j.agree \in BOOLEAN
      BY <1>2, <2>2, ShopJobFields DEF SetProfile, At, ConsentJob
    <3>2. profiles' = [profiles EXCEPT ![j.owner] = IF j.changes THEN [optIn |-> j.agree, asked |-> j.agree] ELSE @]
      BY <1>2, <2>2 DEF SetProfile
    <3>3. [optIn |-> j.agree, asked |-> j.agree] \in Consent
      BY <1>1, <3>1
    <3> QED
      BY <1>3, <3>2, <3>3
  <2> QED
    BY <2>1, <2>2
<1>5. BookTypeOK'
  BY <1>3, <1>4 DEF ShopIInv, BookTypeOK
<1> QED
  BY <1>3, <1>5, ShopLeft

LEMMA SaveAddressStep ==
  ASSUME ShopIInv, NEW q \in Request, UNCHANGED counter, SaveAddress(q)
  PROVE  ShopIInv'
<1>1. PICK j \in SaveJob : j = job[q]
  BY ShopJobFields DEF ShopIInv, SaveAddress, At
<1> DEFINE rest == IF j.default THEN ClearDefault(j.owner, 0) ELSE addresses
           row == [owner |-> j.owner, default |-> j.default, archived |-> FALSE, edits |-> 0,
                   serviceable |-> j.serviceable]
<1>2. row \in AddressRow
  BY DEF SaveJob, AddressRow
<1>3. BookTypeOK /\ addresses \in Seq(AddressRow) /\ Len(addresses) < MaxAddresses
  BY DEF ShopIInv, BookTypeOK, SaveAddress
<1>4. rest \in Seq(AddressRow) /\ Len(rest) = Len(addresses)
  BY <1>3, DefaultsCleared
<1>5. Commits(Append(rest, row)) /\ Leave(q) /\ UNCHANGED profiles
  BY <1>1 DEF SaveAddress
<1> HIDE DEF rest, row
<1>6. Append(rest, row) \in Seq(AddressRow) /\ Len(Append(rest, row)) = Len(rest) + 1
  BY <1>2, <1>4
<1>7. Len(Append(rest, row)) <= MaxAddresses
  BY <1>3, <1>4, <1>6, BookBound
<1>8. BookTypeOK'
  BY <1>3, <1>5, <1>6, <1>7, RowsCommitted
<1> QED
  BY <1>5, <1>8, ShopLeft

LEMMA EditsWritten == ASSUME NEW a \in AddressRow, NEW n, n \in Nat PROVE [a EXCEPT !.edits = n] \in AddressRow
BY DEF AddressRow

LEMMA ServiceabilityWritten ==
  ASSUME NEW a, a \in AddressRow, NEW s \in {TRUE, None}
  PROVE  [a EXCEPT !.serviceable = s] \in AddressRow
BY DEF AddressRow

LEMMA EditAddressStep ==
  ASSUME ShopIInv, NEW q \in Request, UNCHANGED counter, EditAddress(q)
  PROVE  ShopIInv'
<1>1. PICK j \in EditJob : j = job[q]
  BY ShopJobFields DEF ShopIInv, EditAddress, At
<1>2. PICK a \in Nat, d \in BOOLEAN, s \in {TRUE, None} : a = j.address /\ d = j.default /\ s = j.serviceable
  BY DEF EditJob
<1>3. BookTypeOK /\ addresses \in Seq(AddressRow) /\ Len(addresses) <= MaxAddresses
  BY DEF ShopIInv, BookTypeOK
<1> DEFINE rest == IF d THEN ClearDefault(addresses[a].owner, a) ELSE addresses
           rows == [rest EXCEPT ![a].default = @ \/ d, ![a].edits = @ + 1, ![a].serviceable = s]
<1>4. rest \in Seq(AddressRow) /\ Len(rest) = Len(addresses)
  BY <1>3, DefaultsCleared
<1>5. Commits(rows) /\ Leave(q) /\ UNCHANGED profiles
  BY <1>1, <1>2 DEF EditAddress
<1> HIDE DEF rest
<1>6. PICK old : old = rest[a]
  OBVIOUS
<1> DEFINE agreed == old.default \/ d
           row == [[[old EXCEPT !.default = agreed] EXCEPT !.edits = old.edits + 1] EXCEPT !.serviceable = s]
<1>7. a \in DOMAIN rest => row \in AddressRow /\ rows = [rest EXCEPT ![a] = row]
  <2> SUFFICES ASSUME a \in DOMAIN rest PROVE row \in AddressRow /\ rows = [rest EXCEPT ![a] = row]
    OBVIOUS
  <2>1. old \in AddressRow
    BY <1>4, <1>6
  <2>2. old.edits \in Nat
    BY <2>1, AddressFields
  <2>3. rows = [rest EXCEPT ![a] = row]
    <3>1. rows = [rest EXCEPT ![a] = [old EXCEPT !.default = old.default \/ d, !.edits = old.edits + 1, !.serviceable = s]]
      BY <1>4, <1>6
    <3> QED
      BY <3>1
  <2>4. agreed \in BOOLEAN
    OBVIOUS
  <2> HIDE DEF agreed
  <2>5. [old EXCEPT !.default = agreed] \in AddressRow
    BY <2>1, <2>4 DEF AddressRow
  <2>6. PICK x \in AddressRow : x = [old EXCEPT !.default = agreed]
    BY <2>5
  <2>7. [x EXCEPT !.edits = old.edits + 1] \in AddressRow
    BY <2>2, EditsWritten
  <2>8. [[x EXCEPT !.edits = old.edits + 1] EXCEPT !.serviceable = s] \in AddressRow
    BY <2>7, ServiceabilityWritten
  <2> QED
    BY <2>3, <2>6, <2>8
<1>8. a \notin DOMAIN rest => rows = rest
  BY <1>4
<1> HIDE DEF rows, row
<1>9. rows \in Seq(AddressRow) /\ Len(rows) = Len(rest)
  BY <1>4, <1>7, <1>8, AddressReplaced
<1>10. Len(rows) <= MaxAddresses
  BY <1>3, <1>4, <1>9
<1>11. BookTypeOK'
  BY <1>3, <1>5, <1>9, <1>10, RowsCommitted
<1> QED
  BY <1>5, <1>11, ShopLeft

LEMMA ArchiveStep ==
  ASSUME ShopIInv, NEW q \in Request, UNCHANGED counter, FindNextDefault(q) \/ CommitArchive(q)
  PROVE  ShopIInv'
<1>1. PICK j \in ArchiveJob : j = job[q]
  BY ShopJobFields DEF ShopIInv, FindNextDefault, CommitArchive, At
<1>2. BookTypeOK /\ addresses \in Seq(AddressRow) /\ Len(addresses) <= MaxAddresses
  BY DEF ShopIInv, BookTypeOK
<1>3. CASE FindNextDefault(q)
  <2>1. \A u : findForUser(u) \subseteq Nat
    BY <1>2, SMTT(30) DEF findForUser
  <2>2. PICK n \in Nat : Goto(q, [j EXCEPT !.at = "archive", !.next = n]) /\ UNCHANGED book
    BY <1>1, <1>3, <2>1 DEF FindNextDefault
  <2>3. [j EXCEPT !.at = "archive", !.next = n] \in ArchiveJob
    BY DEF ArchiveJob
  <2>4. [j EXCEPT !.at = "archive", !.next = n] \in BookJobs
    BY <2>3 DEF BookJobs
  <2> QED
    BY <2>2, <2>4, BookReads DEF shop
<1>4. CASE CommitArchive(q)
  <2> DEFINE rows == [a \in DOMAIN addresses |->
       CASE a = job[q].address -> [addresses[a] EXCEPT !.archived = TRUE, !.default = FALSE]
         [] a = job[q].next    -> [addresses[a] EXCEPT !.default = TRUE]
         [] OTHER              -> addresses[a]]
  <2>1. Commits(rows) /\ Leave(q) /\ UNCHANGED profiles
    BY <1>4 DEF CommitArchive
  <2>2. ASSUME NEW a \in DOMAIN addresses PROVE rows[a] \in AddressRow
    <3>1. addresses[a] \in AddressRow
      BY <1>2
    <3>2. /\ [addresses[a] EXCEPT !.archived = TRUE, !.default = FALSE] \in AddressRow
          /\ [addresses[a] EXCEPT !.default = TRUE] \in AddressRow
      BY <3>1 DEF AddressRow
    <3>3. \/ rows[a] = [addresses[a] EXCEPT !.archived = TRUE, !.default = FALSE]
          \/ rows[a] = [addresses[a] EXCEPT !.default = TRUE]
          \/ rows[a] = addresses[a]
      OBVIOUS
    <3> QED
      BY <3>1, <3>2, <3>3
  <2>3. DOMAIN rows = DOMAIN addresses /\ rows = [a \in DOMAIN addresses |-> rows[a]]
    OBVIOUS
  <2> HIDE DEF rows
  <2>4. rows \in Seq(AddressRow) /\ Len(rows) = Len(addresses)
    BY <1>2, <2>2, <2>3, TableRewritten
  <2>5. BookTypeOK'
    BY <1>2, <2>1, <2>4, RowsCommitted
  <2> QED
    BY <2>1, <2>5, ShopLeft
<1> QED
  BY <1>3, <1>4

LEMMA BookStep ==
  ASSUME ShopIInv, NEW q \in Request, BookNext(q), UNCHANGED counter
  PROVE  ShopIInv'
BY BookAskStep, ProfileStep, SaveAddressStep, EditAddressStep, ArchiveStep DEF BookNext

\* Quotes are added or run out; the rest of the shop stays.
LEMMA QuotesMove ==
  ASSUME ShopIInv, NEW q \in Request, Leave(q), UNCHANGED <<book, now, onSale, rate, orders, outbox>>,
         quotes' \in Seq(QuoteRow), Len(quotes') <= MaxQuotes, DOMAIN quotes \subseteq DOMAIN quotes',
         \A k \in DOMAIN quotes :
           /\ quotes'[k].owner = quotes[k].owner /\ quotes'[k].rate = quotes[k].rate
           /\ quotes'[k].address = quotes[k].address /\ quotes'[k].expires = quotes[k].expires
           /\ quotes'[k].status = "CONSUMED" <=> quotes[k].status = "CONSUMED",
         \A k \in DOMAIN quotes' : k \notin DOMAIN quotes => quotes'[k].status = "ACTIVE"
  PROVE  ShopIInv'
<1>1. BookTypeOK' /\ PlacementTypeOK'
  BY DEF ShopIInv, BookTypeOK, PlacementTypeOK, book
<1>2. job' \in [Request -> ShopJobs] /\ \A p \in Request : job'[p] = IF p = q THEN [at |-> "left"] ELSE job[p]
  BY ShopLeaves DEF Leave, Goto, ShopIInv
<1>3. \A p \in Request : ShopKnown(job'[p])
  BY <1>2, ShopLeaves DEF ShopIInv
<1>4. (\A p \in Request : ShopKnown(job[p]))'
  BY <1>3 DEF ShopKnown
<1>5. ReservesApart'
  BY <1>2 DEF ShopIInv, ReservesApart
<1>6. QuotesAgree'
  <2>1. \A i \in DOMAIN orders : orders[i].quote \in DOMAIN quotes
    BY DEF ShopIInv, QuotesAgree
  <2> QED
    BY <2>1 DEF ShopIInv, QuotesAgree
<1>7. EventsAgree'
  BY DEF ShopIInv, EventsAgree
<1> QED
  BY <1>1, <1>2, <1>4, <1>5, <1>6, <1>7 DEF ShopIInv

LEMMA ShopTests ==
  ASSUME ShopIInv, NEW q \in Request, NEW j, j = job[q], NEW ok, NEW step, Test(q, ok, step), UNCHANGED shop,
         [j EXCEPT !.at = step] \in ShopJobs, ok => ShopKnown([j EXCEPT !.at = step]),
         [j EXCEPT !.at = step].at # "order:reserve"
  PROVE  ShopIInv'
<1>1. BookTypeOK' /\ UNCHANGED counter
  BY DEF ShopIInv, BookTypeOK, shop, book
<1>2. CASE Leave(q)
  BY <1>1, <1>2, ShopLeft
<1>3. CASE ok /\ Goto(q, [j EXCEPT !.at = step])
  BY <1>1, <1>3, ShopReads
<1> QED
  BY <1>2, <1>3 DEF Test, Proceed

LEMMA QuoteStep ==
  ASSUME ShopIInv, NEW q \in Request,
         PriceQuote(q) \/ \E u \in Owner, a \in DOMAIN addresses : AskQuote(q, u, a)
  PROVE  ShopIInv'
<1>1. PICK j \in ShopJobs : j = job[q]
  BY DEF ShopIInv
<1>2. BookTypeOK' /\ UNCHANGED counter
  BY DEF ShopIInv, BookTypeOK, shop, book, PriceQuote, AskQuote, AsksShop
<1>3. CASE \E u \in Owner, a \in DOMAIN addresses : AskQuote(q, u, a)
  <2>1. PICK u \in Owner, a \in DOMAIN addresses : AskQuote(q, u, a)
    BY <1>3
  <2>2. a \in Nat
    BY DEF ShopIInv, BookTypeOK
  <2> DEFINE r == [at |-> "quote:product", owner |-> u, address |-> a]
  <2>3. Goto(q, r)
    BY <2>1 DEF AskQuote, AsksShop
  <2>4. r \in ShopJobs /\ ShopKnown(r) /\ r.at = "quote:product"
    BY <2>2 DEF ShopJobs, QuoteAsk, ShopKnown, OrderStep
  <2> HIDE DEF r
  <2> QED
    BY <1>2, <2>3, <2>4, ShopReads
<1>4. CASE PriceQuote(q) /\ At(q, "quote:product") /\ Test(q, onSale, "quote:rate")
  <2> DEFINE r == [j EXCEPT !.at = "quote:rate"]
  <2>1. r \in QuoteAsk /\ r.at = "quote:rate"
    BY <1>1, <1>4, ShopJobFields DEF At, QuoteAsk
  <2>2. UNCHANGED shop
    BY <1>4 DEF PriceQuote
  <2> HIDE DEF r
  <2>3. r \in ShopJobs /\ ShopKnown(r) /\ r.at # "order:reserve"
    BY <2>1 DEF ShopJobs, ShopKnown, OrderStep
  <2> QED
    BY <1>1, <1>4, <2>2, <2>3, ShopTests DEF r
<1>5. CASE PriceQuote(q) /\ At(q, "quote:rate") /\ rate # None /\ ~ Leave(q)
  <2> DEFINE r == [at |-> "quote:delivery", owner |-> j.owner, address |-> j.address, rate |-> rate]
  <2>1. j \in QuoteAsk
    BY <1>1, <1>5, ShopJobFields DEF At
  <2>2. rate \in Nat
    BY <1>5, ShopBounds DEF ShopIInv, PlacementTypeOK
  <2>3. r \in QuoteJob /\ r.at = "quote:delivery"
    BY <2>1, <2>2 DEF QuoteAsk, QuoteJob
  <2>4. Goto(q, r)
    BY <1>1, <1>5 DEF PriceQuote, At
  <2> HIDE DEF r
  <2>5. r \in ShopJobs /\ ShopKnown(r)
    BY <2>3 DEF ShopJobs, ShopKnown, OrderStep
  <2> QED
    BY <1>2, <2>3, <2>4, <2>5, ShopReads
<1>6. CASE PriceQuote(q) /\ At(q, "quote:delivery")
  <2> DEFINE r == [j EXCEPT !.at = "quote:save"]
  <2>1. r \in QuoteJob /\ r.at = "quote:save"
    BY <1>1, <1>6, ShopJobFields DEF At, QuoteJob
  <2>2. PICK covered \in BOOLEAN : Test(q, covered, "quote:save") /\ UNCHANGED shop
    BY <1>6 DEF PriceQuote, At
  <2> HIDE DEF r
  <2>3. r \in ShopJobs /\ ShopKnown(r) /\ r.at # "order:reserve"
    BY <2>1 DEF ShopJobs, ShopKnown, OrderStep
  <2> QED
    BY <1>1, <2>2, <2>3, ShopTests DEF r
<1>7. CASE Leave(q)
  BY <1>2, <1>7, ShopLeft
<1> QED
  BY <1>3, <1>4, <1>5, <1>6, <1>7 DEF PriceQuote

LEMMA SaveQuoteStep ==
  ASSUME ShopIInv, NEW q \in Request, SaveQuote(q) \/ ExpireLapsedQuotes(q)
  PROVE  ShopIInv'
<1>1. quotes \in Seq(QuoteRow) /\ Len(quotes) <= MaxQuotes /\ now \in Nat
  BY ShopBounds DEF ShopIInv, PlacementTypeOK
<1>2. Leave(q) /\ UNCHANGED <<book, now, onSale, rate, orders, outbox>>
  BY DEF SaveQuote, ExpireLapsedQuotes
<1>3. CASE SaveQuote(q)
  <2>1. PICK j \in QuoteJob : j = job[q]
    BY <1>3, ShopJobFields DEF ShopIInv, SaveQuote, At
  <2> DEFINE row == [owner |-> j.owner, address |-> j.address, rate |-> j.rate,
                     expires |-> now + QuoteTtl, status |-> "ACTIVE"]
  <2>2. row \in QuoteRow /\ row.status = "ACTIVE"
    BY <1>1, QuoteTimes DEF QuoteJob, QuoteRow
  <2>3. quotes' = Append(quotes, row) /\ Len(quotes) < MaxQuotes
    BY <1>3, <2>1 DEF SaveQuote
  <2> HIDE DEF row
  <2>4. /\ quotes' \in Seq(QuoteRow) /\ Len(quotes') = Len(quotes) + 1
        /\ DOMAIN quotes = 1..Len(quotes) /\ DOMAIN quotes' = 1..Len(quotes) + 1
        /\ \A k \in DOMAIN quotes : quotes'[k] = quotes[k]
        /\ quotes'[Len(quotes) + 1] = row
    BY <1>1, <2>2, <2>3
  <2>5. Len(quotes') <= MaxQuotes
    BY <1>1, <2>3, <2>4, ShopBounds
  <2>6. DOMAIN quotes \subseteq DOMAIN quotes' /\ \A k \in DOMAIN quotes' : k \notin DOMAIN quotes => k = Len(quotes) + 1
    BY <1>1, <2>4
  <2> QED
    BY <1>2, <2>2, <2>4, <2>5, <2>6, QuotesMove
<1>4. CASE ExpireLapsedQuotes(q)
  <2> DEFINE rows == [k \in DOMAIN quotes |->
       IF quotes[k].status = "ACTIVE" /\ quotes[k].expires < now
       THEN [quotes[k] EXCEPT !.status = "EXPIRED"] ELSE quotes[k]]
  <2>1. quotes' = rows
    BY <1>4 DEF ExpireLapsedQuotes
  <2>2. ASSUME NEW k \in DOMAIN quotes
        PROVE  /\ rows[k] \in QuoteRow
               /\ rows[k].owner = quotes[k].owner /\ rows[k].rate = quotes[k].rate
               /\ rows[k].address = quotes[k].address /\ rows[k].expires = quotes[k].expires
               /\ rows[k].status = "CONSUMED" <=> quotes[k].status = "CONSUMED"
    <3>1. PICK row \in QuoteRow : row = quotes[k]
      BY <1>1
    <3>2. \/ rows[k] = row
          \/ row.status = "ACTIVE" /\ rows[k] = [row EXCEPT !.status = "EXPIRED"]
      BY <3>1
    <3> HIDE DEF rows
    <3>3. CASE rows[k] = row
      BY <3>1, <3>3
    <3>4. CASE row.status = "ACTIVE" /\ rows[k] = [row EXCEPT !.status = "EXPIRED"]
      BY <3>1, <3>4 DEF QuoteRow
    <3> QED
      BY <3>2, <3>3, <3>4
  <2>3. DOMAIN rows = DOMAIN quotes /\ rows = [k \in DOMAIN quotes |-> rows[k]]
    OBVIOUS
  <2> HIDE DEF rows
  <2>4. rows \in Seq(QuoteRow) /\ Len(rows) = Len(quotes)
    BY <1>1, <2>2, <2>3
  <2> QED
    BY <1>1, <1>2, <2>1, <2>2, <2>3, <2>4, QuotesMove
<1> QED
  BY <1>3, <1>4

LEMMA PlaceOrderStep ==
  ASSUME ShopIInv, NEW q \in Request,
         \E u \in Owner, k \in DOMAIN quotes, m \in PaymentMode, x \in BOOLEAN : PlaceOrder(q, u, k, m, x)
  PROVE  ShopIInv'
<1>1. PICK u \in Owner, k \in DOMAIN quotes, m \in PaymentMode, x \in BOOLEAN : PlaceOrder(q, u, k, m, x)
  OBVIOUS
<1> DEFINE r == [at |-> "order:read", owner |-> u, quote |-> k, mode |-> m,
                 acknowledge |-> x, asked |-> now, number |-> 0]
<1>2. UNCHANGED shop /\ (Leave(q) \/ (shownStatus(k) = "ACTIVE" /\ Goto(q, r)))
  <2>1. PICK mayOrder \in BOOLEAN :
          IF mayOrder /\ shownStatus(k) = "ACTIVE" THEN AsksShop(q, r) ELSE At(q, "new") /\ Leave(q) /\ UNCHANGED shop
    BY <1>1 DEF PlaceOrder
  <2> QED
    BY <2>1 DEF AsksShop
<1>3. BookTypeOK' /\ UNCHANGED counter
  BY <1>2 DEF ShopIInv, BookTypeOK, shop, book
<1>4. CASE Leave(q)
  BY <1>3, <1>4, ShopLeft
<1>5. CASE shownStatus(k) = "ACTIVE" /\ Goto(q, r)
  <2>1. k \in Nat /\ now \in Nat /\ quotes[k] \in QuoteRow
    BY ShopBounds DEF ShopIInv, PlacementTypeOK
  <2>2. quotes[k].expires \in Nat
    BY <2>1 DEF QuoteRow
  <2>3. now < quotes[k].expires
    BY <1>5, <2>1, <2>2 DEF shownStatus
  <2>4. r \in OrderJob
    BY <2>1 DEF OrderJob, OrderStep
  <2>5. quotes[k].owner = u
    BY <1>1 DEF PlaceOrder
  <2>6. ShopKnown(r) /\ r.at = "order:read"
    BY <2>3, <2>5 DEF ShopKnown
  <2> HIDE DEF r
  <2>7. r \in ShopJobs
    BY <2>4 DEF ShopJobs
  <2> QED
    BY <1>3, <1>5, <2>6, <2>7, ShopReads
<1> QED
  BY <1>2, <1>4, <1>5

\* What the transaction does before it commits changes nothing.
LEMMA OrderReadsStep ==
  ASSUME ShopIInv, NEW q \in Request, ReadForOrder(q) \/ CheckSimilar(q)
  PROVE  ShopIInv'
<1>1. PICK j \in OrderJob : j = job[q] /\ ShopKnown(j)
  BY ShopJobFields DEF ShopIInv, ReadForOrder, CheckSimilar, At, OrderStep
<1>2. PICK step, ok : step \in {"order:similar", "order:number"} /\ Test(q, ok, step)
  BY DEF ReadForOrder, CheckSimilar
<1>3. UNCHANGED shop
  BY DEF ReadForOrder, CheckSimilar
<1> DEFINE r == [j EXCEPT !.at = step]
<1>4. r \in OrderJob /\ r.at = step /\ r.quote = j.quote /\ r.owner = j.owner /\ r.asked = j.asked
  BY <1>2 DEF OrderJob, OrderStep
<1>5. j.at \in OrderStep
  BY DEF OrderJob
<1> HIDE DEF r
<1>6. r \in ShopJobs /\ ShopKnown(r) /\ r.at # "order:reserve"
  BY <1>1, <1>2, <1>4, <1>5 DEF ShopJobs, ShopKnown, OrderStep
<1> QED
  BY <1>1, <1>2, <1>3, <1>6, ShopTests DEF r

\* The numbers are 1..n, so the highest is their count.
LEMMA MaxIs == ASSUME NEW S \in SUBSET Nat, NEW m \in S, \A k \in S : k <= m PROVE Max(S) = m
<1>1. \A x \in S : (\A y \in S : x >= y) => x = m
  OBVIOUS
<1>2. \A y \in S : m >= y
  OBVIOUS
<1> QED
  BY <1>1, <1>2 DEF Max

LEMMA NextNumber == ASSUME ShopIInv PROVE allocateOrderNumber = Len(orders) + 1
<1>1. orders \in Seq(OrderRow) /\ \A i \in DOMAIN orders : orders[i].number = i
  BY DEF ShopIInv, PlacementTypeOK, QuotesAgree
<1>2. PICK n \in Nat : n = Len(orders) /\ DOMAIN orders = 1..n
  BY <1>1
<1>3. {0} \cup {orders[i].number : i \in DOMAIN orders} = 0..n
  BY <1>1, <1>2
<1>4. Max(0..n) = n
  <2>1. 0..n \in SUBSET Nat /\ n \in 0..n /\ \A k \in 0..n : k <= n
    OBVIOUS
  <2> QED
    BY <2>1, MaxIs
<1>5. allocateOrderNumber = 1 + n
  BY <1>3, <1>4 DEF allocateOrderNumber
<1> QED
  BY <1>2, <1>5

LEMMA AllocateNumberStep ==
  ASSUME ShopIInv, NEW q \in Request, AllocateNumber(q)
  PROVE  ShopIInv'
<1>1. PICK j \in OrderJob : j = job[q] /\ ShopKnown(j)
  BY ShopJobFields DEF ShopIInv, AllocateNumber, At, OrderStep
<1>2. PICK n \in Nat : n = Len(orders) + 1 /\ n \in 1..Len(orders) + 1
  BY DEF ShopIInv, PlacementTypeOK
<1> DEFINE r == [j EXCEPT !.at = "order:insert", !.number = n]
<1>3. Goto(q, r) /\ UNCHANGED shop
  BY <1>1, <1>2, NextNumber DEF AllocateNumber
<1>4. /\ r \in OrderJob /\ r.at = "order:insert" /\ r.number = n
      /\ r.quote = j.quote /\ r.owner = j.owner /\ r.asked = j.asked
  BY DEF OrderJob, OrderStep
<1>5. j.at \in OrderStep
  BY DEF OrderJob
<1> HIDE DEF r
<1>6. r \in ShopJobs /\ ShopKnown(r)
  BY <1>1, <1>2, <1>4, <1>5 DEF ShopJobs, ShopKnown, OrderStep
<1>7. BookTypeOK' /\ UNCHANGED counter
  BY <1>3 DEF ShopIInv, BookTypeOK, shop, book
<1> QED
  BY <1>3, <1>4, <1>6, <1>7, ShopReads

LEMMA EventsOf ==
  ASSUME NEW m \in PaymentMode
  PROVE  /\ CREATED \in eventsFor(m) /\ RESERVED \notin eventsFor(m) /\ CANCELLED \notin eventsFor(m)
         /\ ALLOCATION_REQUESTED \in eventsFor(m) <=> m = "CASH_ON_DELIVERY"
         /\ eventsFor(m) \subseteq {CREATED, CONFIRMED, ALLOCATION_REQUESTED, RESERVED, CANCELLED}
         /\ initialStatus(m) \in {"PENDING_PAYMENT", "CONFIRMED"}
BY DEF eventsFor, initialStatus, CREATED, CONFIRMED, ALLOCATION_REQUESTED, RESERVED, CANCELLED

\* One quote taken: its row is the only one to change, and only its status.
LEMMA QuoteTaken ==
  ASSUME ShopIInv, NEW k \in DOMAIN quotes, quotes' = [quotes EXCEPT ![k].status = "CONSUMED"]
  PROVE  /\ quotes' \in Seq(QuoteRow) /\ Len(quotes') = Len(quotes) /\ DOMAIN quotes' = DOMAIN quotes
         /\ \A m \in DOMAIN quotes :
              /\ quotes'[m].owner = quotes[m].owner /\ quotes'[m].rate = quotes[m].rate
              /\ quotes'[m].address = quotes[m].address /\ quotes'[m].expires = quotes[m].expires
              /\ quotes'[m].status = IF m = k THEN "CONSUMED" ELSE quotes[m].status
<1>1. quotes \in Seq(QuoteRow)
  BY DEF ShopIInv, PlacementTypeOK
<1>2. PICK row \in QuoteRow : row = quotes[k]
  BY <1>1
<1>3. PICK taken : taken = [row EXCEPT !.status = "CONSUMED"]
  OBVIOUS
<1>4. /\ taken \in QuoteRow
      /\ taken.owner = row.owner /\ taken.rate = row.rate /\ taken.address = row.address
      /\ taken.expires = row.expires /\ taken.status = "CONSUMED"
  BY <1>3 DEF QuoteRow
<1>5. quotes' = [quotes EXCEPT ![k] = taken]
  BY <1>2, <1>3
<1>6. /\ quotes' \in Seq(QuoteRow) /\ Len(quotes') = Len(quotes) /\ DOMAIN quotes' = DOMAIN quotes
      /\ \A m \in DOMAIN quotes : quotes'[m] = IF m = k THEN taken ELSE quotes[m]
  BY <1>1, <1>5, <1>4
<1> QED
  BY <1>2, <1>6, <1>4

\* One order more, with the next number: every earlier row stays.
LEMMA OrderAppended ==
  ASSUME ShopIInv, NEW n, n = Len(orders) + 1, NEW row \in OrderRow, orders' = Append(orders, row)
  PROVE  /\ orders' \in Seq(OrderRow) /\ Len(orders') = n /\ n \in Nat /\ n \in DOMAIN orders' /\ n \notin DOMAIN orders
         /\ DOMAIN orders' = DOMAIN orders \cup {n} /\ DOMAIN orders = 1..n - 1 /\ DOMAIN orders' = 1..n
         /\ \A i \in DOMAIN orders : orders'[i] = orders[i] /\ i # n
         /\ orders'[n] = row
<1>1. orders \in Seq(OrderRow)
  BY DEF ShopIInv, PlacementTypeOK
<1> QED
  BY <1>1

LEMMA InsertOrderStep ==
  ASSUME ShopIInv, NEW q \in Request, InsertOrder(q)
  PROVE  ShopIInv'
<1>1. PICK j \in OrderJob : j = job[q] /\ ShopKnown(j) /\ j.at = "order:insert"
  BY ShopJobFields DEF ShopIInv, InsertOrder, At, OrderStep
<1>2. PICK k, m, n : k = j.quote /\ m = j.mode /\ m \in PaymentMode /\ n = j.number
  BY DEF OrderJob
<1>3. k \in DOMAIN quotes /\ quotes[k].owner = j.owner /\ j.asked < quotes[k].expires /\ n \in 1..Len(orders) + 1
  BY <1>1, <1>2 DEF ShopKnown, OrderStep
<1> DEFINE row == [number |-> n, owner |-> j.owner, quote |-> k, address |-> quotes[k].address,
                   rate |-> quotes[k].rate, mode |-> m, placed |-> now, asked |-> j.asked,
                   status |-> initialStatus(m)]
           Commit == /\ numberFree(n) /\ quoteUnused(k) /\ claimable(k)
                     /\ orders' = Append(orders, row) /\ quotes' = [quotes EXCEPT ![k].status = "CONSUMED"]
                     /\ Publish(n, eventsFor(m)) /\ Goto(q, [at |-> "order:reserve", number |-> n])
           Refuse == Leave(q) /\ UNCHANGED <<orders, quotes, outbox>>
<1>4. UNCHANGED <<book, now, onSale, rate>> /\ (Commit \/ Refuse)
  BY <1>1, <1>2 DEF InsertOrder
<1>5. BookTypeOK'
  BY <1>4 DEF ShopIInv, BookTypeOK, book
<1>6. CASE Refuse
  BY <1>4, <1>5, <1>6, ShopLeft DEF counter
<1>7. CASE Commit
  <2>1. orders \in Seq(OrderRow) /\ \A i \in DOMAIN orders : orders[i].number = i
    BY DEF ShopIInv, PlacementTypeOK, QuotesAgree
  <2>2. n = Len(orders) + 1
    BY <1>3, <1>7, <2>1 DEF numberFree
  <2>3. row \in OrderRow
    <3>1. quotes[k] \in QuoteRow /\ k \in Nat /\ now \in Nat /\ n \in Nat
      BY <1>3, <2>1, <2>2, ShopBounds DEF ShopIInv, PlacementTypeOK
    <3>2. quotes[k].address \in Nat /\ quotes[k].rate \in Nat
      BY <3>1 DEF QuoteRow
    <3>3. j.owner \in Owner /\ j.asked \in Nat
      BY DEF OrderJob
    <3>4. initialStatus(m) \in {"PENDING_PAYMENT", "CONFIRMED"}
      BY <1>2, EventsOf
    <3> QED
      BY <1>2, <3>1, <3>2, <3>3, <3>4 DEF OrderRow
  <2>4. /\ row.number = n /\ row.owner = quotes[k].owner /\ row.quote = k /\ row.address = quotes[k].address
        /\ row.rate = quotes[k].rate /\ row.mode = m /\ row.asked < quotes[k].expires
        /\ row.status \in {"PENDING_PAYMENT", "CONFIRMED"}
    BY <1>2, <1>3, EventsOf
  <2> HIDE DEF row
  <2>5. orders' = Append(orders, row) /\ quotes' = [quotes EXCEPT ![k].status = "CONSUMED"]
    BY <1>7
  <2>6. outbox' = outbox \cup ({n} \X eventsFor(m)) /\ Goto(q, [at |-> "order:reserve", number |-> n])
    BY <1>7 DEF Publish
  <2>7. /\ orders' \in Seq(OrderRow) /\ Len(orders') = n /\ n \in Nat /\ n \in DOMAIN orders' /\ n \notin DOMAIN orders
        /\ DOMAIN orders' = DOMAIN orders \cup {n} /\ DOMAIN orders = 1..n - 1 /\ DOMAIN orders' = 1..n
        /\ \A i \in DOMAIN orders : orders'[i] = orders[i] /\ i # n
        /\ orders'[n] = row
    BY <2>2, <2>3, <2>5, OrderAppended
  <2>8. /\ quotes' \in Seq(QuoteRow) /\ Len(quotes') = Len(quotes) /\ DOMAIN quotes' = DOMAIN quotes
        /\ \A x \in DOMAIN quotes :
             /\ quotes'[x].owner = quotes[x].owner /\ quotes'[x].rate = quotes[x].rate
             /\ quotes'[x].address = quotes[x].address /\ quotes'[x].expires = quotes[x].expires
             /\ quotes'[x].status = IF x = k THEN "CONSUMED" ELSE quotes[x].status
    BY <1>3, <2>5, QuoteTaken
  <2>9. PlacementTypeOK'
    <3>1. {n} \X eventsFor(m) \subseteq Nat \X {CREATED, CONFIRMED, ALLOCATION_REQUESTED, RESERVED, CANCELLED}
      BY <1>2, <2>7, EventsOf
    <3> QED
      BY <1>4, <2>6, <2>7, <2>8, <3>1 DEF ShopIInv, PlacementTypeOK
  <2>10. /\ \A i : i # n => \A t : <<i, t>> \in outbox' <=> <<i, t>> \in outbox
         /\ \A t : <<n, t>> \in outbox' <=> t \in eventsFor(m)
    <3>1. \A e \in outbox : e[1] # n
      BY <2>7 DEF ShopIInv, EventsAgree
    <3>2. \A t : <<n, t>> \notin outbox
      BY <3>1
    <3> QED
      BY <2>6, <3>2
  <2>11. EventsAgree'
    <3>1. \A e \in outbox' : e[1] \in DOMAIN orders'
      BY <2>6, <2>7 DEF ShopIInv, EventsAgree
    <3>2. ASSUME NEW i \in DOMAIN orders
          PROVE  /\ <<i, CREATED>> \in outbox'
                 /\ <<i, ALLOCATION_REQUESTED>> \in outbox' <=> orders'[i].mode = "CASH_ON_DELIVERY"
                 /\ <<i, CANCELLED>> \in outbox' <=> orders'[i].status = "CANCELLED_BY_ADMIN"
                 /\ ~ (<<i, CANCELLED>> \in outbox' /\ <<i, RESERVED>> \in outbox')
      BY <2>7, <2>10 DEF ShopIInv, EventsAgree
    <3>3. /\ <<n, CREATED>> \in outbox'
          /\ <<n, ALLOCATION_REQUESTED>> \in outbox' <=> orders'[n].mode = "CASH_ON_DELIVERY"
          /\ <<n, CANCELLED>> \in outbox' <=> orders'[n].status = "CANCELLED_BY_ADMIN"
          /\ ~ (<<n, CANCELLED>> \in outbox' /\ <<n, RESERVED>> \in outbox')
      BY <1>2, <2>4, <2>7, <2>10, EventsOf
    <3> QED
      BY <2>7, <3>1, <3>2, <3>3 DEF EventsAgree
  <2>12. QuotesAgree'
    <3>1. \A i \in DOMAIN orders : orders[i].quote # k
      BY <1>7 DEF quoteUnused
    <3>2. ASSUME NEW i \in DOMAIN orders'
          PROVE  /\ orders'[i].number = i /\ orders'[i].quote \in DOMAIN quotes'
                 /\ orders'[i].owner = quotes'[orders'[i].quote].owner
                 /\ orders'[i].rate = quotes'[orders'[i].quote].rate
                 /\ orders'[i].address = quotes'[orders'[i].quote].address
                 /\ orders'[i].asked < quotes'[orders'[i].quote].expires
      <4>1. CASE i = n
        BY <1>3, <2>4, <2>7, <2>8, <4>1
      <4>2. CASE i \in DOMAIN orders
        BY <2>7, <2>8, <4>2 DEF ShopIInv, QuotesAgree
      <4> QED
        BY <2>7, <4>1, <4>2
    <3>3. \A i, h \in DOMAIN orders' : orders'[i].quote = orders'[h].quote => i = h
      BY <2>4, <2>7, <3>1 DEF ShopIInv, QuotesAgree
    <3>4. ASSUME NEW x \in DOMAIN quotes'
          PROVE  quotes'[x].status = "CONSUMED" <=> \E i \in DOMAIN orders' : orders'[i].quote = x
      <4>1. CASE x = k
        BY <2>4, <2>7, <2>8, <4>1
      <4>2. CASE x # k
        BY <2>4, <2>7, <2>8, <4>2 DEF ShopIInv, QuotesAgree
      <4> QED
        BY <4>1, <4>2
    <3> QED
      BY <3>2, <3>3, <3>4 DEF QuotesAgree
  <2> DEFINE r == [at |-> "order:reserve", number |-> n]
  <2>13. r \in ReserveJob /\ r.at = "order:reserve" /\ r.number = n
    BY <2>7 DEF ReserveJob
  <2>14. Goto(q, r)
    BY <2>6
  <2> HIDE DEF r
  <2>15. r \in ShopJobs
    BY <2>13 DEF ShopJobs
  <2>16. job' \in [Request -> ShopJobs] /\ \A p \in Request : job'[p] = IF p = q THEN r ELSE job[p]
    BY <2>14, <2>15 DEF Goto, ShopIInv
  <2>17. \A p \in Request : job[p].at = "order:reserve" => job[p].number \in DOMAIN orders
    <3>1. \A p \in Request : job[p].at = "order:reserve" => job[p].number \in 1..Len(orders)
      BY DEF ShopIInv, ShopKnown
    <3> QED
      BY <2>2, <2>7, <3>1
  <2>18. ReservesApart'
    BY <2>7, <2>13, <2>16, <2>17 DEF ShopIInv, ReservesApart
  <2>19. \A p \in Request : ShopKnown(job[p])'
    <3> SUFFICES ASSUME NEW p \in Request PROVE ShopKnown(job[p])'
      OBVIOUS
    <3>1. CASE p = q
      BY <1>2, <2>4, <2>7, <2>10, <2>13, <2>16, <3>1, EventsOf DEF ShopKnown, OrderStep
    <3>2. CASE p # q
      <4>1. ShopKnown(job[p]) /\ job'[p] = job[p]
        BY <2>16, <3>2 DEF ShopIInv
      <4>2. job[p].at \in OrderStep => /\ job[p].quote \in DOMAIN quotes'
              /\ quotes'[job[p].quote].owner = job[p].owner /\ job[p].asked < quotes'[job[p].quote].expires
        BY <2>8, <4>1 DEF ShopKnown
      <4>3. job[p].at = "order:insert" => job[p].number \in 1..Len(orders') + 1
        BY <2>2, <2>7, <4>1 DEF ShopKnown
      <4>4. job[p].at = "order:reserve" => /\ job[p].number \in 1..Len(orders')
              /\ orders'[job[p].number].status # "CANCELLED_BY_ADMIN" /\ <<job[p].number, RESERVED>> \notin outbox'
        BY <2>7, <2>10, <2>17, <4>1 DEF ShopKnown
      <4> QED
        BY <4>1, <4>2, <4>3, <4>4 DEF ShopKnown
    <3> QED
      BY <3>1, <3>2
  <2> QED
    BY <1>5, <2>9, <2>11, <2>12, <2>16, <2>18, <2>19 DEF ShopIInv
<1> QED
  BY <1>4, <1>6, <1>7

\* The order of one number is reserved for, or cancelled; one event more tells it.
LEMMA ReserveOrCancelStep ==
  ASSUME ShopIInv, NEW q \in Request, ReserveOrCancel(q)
  PROVE  ShopIInv'
<1>1. PICK j \in ReserveJob : j = job[q] /\ ShopKnown(j) /\ j.at = "order:reserve"
  BY ShopJobFields DEF ShopIInv, ReserveOrCancel, At, OrderStep
<1>2. PICK n \in Nat : n = j.number
  BY DEF ReserveJob
<1>3. n \in DOMAIN orders /\ orders[n].status # "CANCELLED_BY_ADMIN" /\ <<n, RESERVED>> \notin outbox
  <2>1. DOMAIN orders = 1..Len(orders)
    BY DEF ShopIInv, PlacementTypeOK
  <2> QED
    BY <1>1, <1>2, <2>1 DEF ShopKnown
<1>4. /\ orders \in Seq(OrderRow)
      /\ \A i \in DOMAIN orders : orders[i] \in OrderRow /\ orders[i].number = i
  BY DEF ShopIInv, PlacementTypeOK, QuotesAgree
<1>5. UNCHANGED <<book, now, onSale, rate, quotes>> /\ Leave(q)
  BY DEF ReserveOrCancel
<1>6. job' \in [Request -> ShopJobs] /\ \A p \in Request : job'[p] = IF p = q THEN [at |-> "left"] ELSE job[p]
  BY <1>5, ShopLeaves DEF Leave, Goto, ShopIInv
<1>7. BookTypeOK'
  BY <1>5 DEF ShopIInv, BookTypeOK, book
<1> DEFINE rows == [i \in DOMAIN orders |->
                      IF orders[i].number = n THEN [orders[i] EXCEPT !.status = "CANCELLED_BY_ADMIN"] ELSE orders[i]]
<1>8. PICK event : \/ event = RESERVED /\ orders' = orders /\ outbox' = outbox \cup {<<n, event>>}
                   \/ event = CANCELLED /\ orders' = rows /\ outbox' = outbox \cup {<<n, event>>}
  <2>1. \A t : {n} \X {t} = {<<n, t>>}
    OBVIOUS
  <2> QED
    BY <1>1, <1>2, <2>1 DEF ReserveOrCancel, Publish
<1>9. /\ orders' \in Seq(OrderRow) /\ Len(orders') = Len(orders) /\ DOMAIN orders' = DOMAIN orders
      /\ \A i \in DOMAIN orders :
           /\ orders'[i].number = i /\ orders'[i].owner = orders[i].owner /\ orders'[i].quote = orders[i].quote
           /\ orders'[i].address = orders[i].address /\ orders'[i].rate = orders[i].rate
           /\ orders'[i].mode = orders[i].mode /\ orders'[i].asked = orders[i].asked
           /\ orders'[i].status = IF event = CANCELLED /\ i = n THEN "CANCELLED_BY_ADMIN" ELSE orders[i].status
  <2>1. CASE event = RESERVED /\ orders' = orders
    BY <1>4, <2>1 DEF RESERVED, CANCELLED
  <2>2. CASE event = CANCELLED /\ orders' = rows
    <3>1. ASSUME NEW i \in DOMAIN orders
          PROVE  /\ rows[i] \in OrderRow
                 /\ rows[i].number = i /\ rows[i].owner = orders[i].owner /\ rows[i].quote = orders[i].quote
                 /\ rows[i].address = orders[i].address /\ rows[i].rate = orders[i].rate
                 /\ rows[i].mode = orders[i].mode /\ rows[i].asked = orders[i].asked
                 /\ rows[i].status = IF i = n THEN "CANCELLED_BY_ADMIN" ELSE orders[i].status
      <4>1. PICK row \in OrderRow : row = orders[i] /\ row.number = i
        BY <1>4
      <4>2. rows[i] = IF i = n THEN [row EXCEPT !.status = "CANCELLED_BY_ADMIN"] ELSE row
        BY <4>1
      <4> HIDE DEF rows
      <4> QED
        BY <4>1, <4>2 DEF OrderRow
    <3>2. DOMAIN rows = DOMAIN orders /\ rows = [i \in DOMAIN orders |-> rows[i]]
      OBVIOUS
    <3> HIDE DEF rows
    <3>3. rows \in Seq(OrderRow) /\ Len(rows) = Len(orders)
      BY <1>4, <3>1, <3>2
    <3> QED
      BY <2>2, <3>1, <3>2, <3>3
  <2> QED
    BY <1>8, <2>1, <2>2
<1> HIDE DEF rows
<1>10. event \in {RESERVED, CANCELLED} /\ outbox' = outbox \cup {<<n, event>>}
  BY <1>8
<1>11. PlacementTypeOK'
  <2>1. <<n, event>> \in Nat \X {CREATED, CONFIRMED, ALLOCATION_REQUESTED, RESERVED, CANCELLED}
    BY <1>10
  <2> QED
    BY <1>5, <1>9, <1>10, <2>1 DEF ShopIInv, PlacementTypeOK
<1>12. QuotesAgree'
  <2>1. \A i \in DOMAIN orders : orders'[i].quote = orders[i].quote
    BY <1>9
  <2>2. ASSUME NEW i \in DOMAIN orders'
        PROVE  /\ orders'[i].number = i /\ orders'[i].quote \in DOMAIN quotes'
               /\ orders'[i].owner = quotes'[orders'[i].quote].owner
               /\ orders'[i].rate = quotes'[orders'[i].quote].rate
               /\ orders'[i].address = quotes'[orders'[i].quote].address
               /\ orders'[i].asked < quotes'[orders'[i].quote].expires
    BY <1>5, <1>9 DEF ShopIInv, QuotesAgree
  <2>3. \A i, h \in DOMAIN orders' : orders'[i].quote = orders'[h].quote => i = h
    BY <1>9, <2>1 DEF ShopIInv, QuotesAgree
  <2>4. \A k \in DOMAIN quotes' : quotes'[k].status = "CONSUMED" <=> \E i \in DOMAIN orders' : orders'[i].quote = k
    BY <1>5, <1>9, <2>1 DEF ShopIInv, QuotesAgree
  <2> QED
    BY <2>2, <2>3, <2>4 DEF QuotesAgree
<1>13. EventsAgree'
  <2>1. \A e \in outbox' : e[1] \in DOMAIN orders'
    BY <1>3, <1>9, <1>10 DEF ShopIInv, EventsAgree
  <2>2. ASSUME NEW i \in DOMAIN orders
        PROVE  /\ <<i, CREATED>> \in outbox'
               /\ <<i, ALLOCATION_REQUESTED>> \in outbox' <=> orders'[i].mode = "CASH_ON_DELIVERY"
               /\ <<i, CANCELLED>> \in outbox' <=> orders'[i].status = "CANCELLED_BY_ADMIN"
               /\ ~ (<<i, CANCELLED>> \in outbox' /\ <<i, RESERVED>> \in outbox')
    <3>1. /\ <<i, CREATED>> \in outbox
          /\ <<i, ALLOCATION_REQUESTED>> \in outbox <=> orders[i].mode = "CASH_ON_DELIVERY"
          /\ <<i, CANCELLED>> \in outbox <=> orders[i].status = "CANCELLED_BY_ADMIN"
          /\ ~ (<<i, CANCELLED>> \in outbox /\ <<i, RESERVED>> \in outbox)
      BY DEF ShopIInv, EventsAgree
    <3>2. \A t : <<i, t>> \in outbox' <=> <<i, t>> \in outbox \/ (i = n /\ t = event)
      BY <1>10
    <3>3. event # CREATED /\ event # ALLOCATION_REQUESTED /\ RESERVED # CANCELLED
      BY <1>10 DEF CREATED, ALLOCATION_REQUESTED, RESERVED, CANCELLED
    <3>4. <<i, CREATED>> \in outbox' /\ (<<i, ALLOCATION_REQUESTED>> \in outbox' <=> orders'[i].mode = "CASH_ON_DELIVERY")
      BY <1>9, <3>1, <3>2, <3>3
    <3>5. <<i, CANCELLED>> \in outbox' <=> orders'[i].status = "CANCELLED_BY_ADMIN"
      BY <1>9, <1>10, <3>1, <3>2, <3>3
    <3>6. ~ (<<i, CANCELLED>> \in outbox' /\ <<i, RESERVED>> \in outbox')
      BY <1>3, <1>10, <3>1, <3>2, <3>3
    <3> QED
      BY <3>4, <3>5, <3>6
  <2> QED
    BY <1>9, <2>1, <2>2 DEF EventsAgree
<1>14. ReservesApart'
  BY <1>6 DEF ShopIInv, ReservesApart
<1>15. ASSUME NEW p \in Request PROVE ShopKnown(job[p])'
  <2>1. CASE p = q
    BY <1>6, <2>1 DEF ShopKnown, OrderStep
  <2>2. CASE p # q
    <3>1. ShopKnown(job[p]) /\ job'[p] = job[p]
      BY <1>6, <2>2 DEF ShopIInv
    <3>2. job[p].at = "order:reserve" => job[p].number # n
      BY <1>1, <1>2, <2>2 DEF ShopIInv, ReservesApart
    <3>3. job[p].at = "order:reserve" => /\ job[p].number \in 1..Len(orders')
            /\ orders'[job[p].number].status # "CANCELLED_BY_ADMIN" /\ <<job[p].number, RESERVED>> \notin outbox'
      <4>1. DOMAIN orders = 1..Len(orders)
        BY <1>4
      <4> QED
        BY <1>9, <1>10, <3>1, <3>2, <4>1 DEF ShopKnown
    <3> QED
      BY <1>5, <1>9, <3>1, <3>3 DEF ShopKnown
  <2> QED
    BY <2>1, <2>2
<1> QED
  BY <1>6, <1>7, <1>11, <1>12, <1>13, <1>14, <1>15 DEF ShopIInv

\* The catalogue and the clock move on; nothing else does.
LEMMA CounterMoves ==
  ASSUME ShopIInv, UNCHANGED <<job, book, quotes, orders, outbox>>,
         now' \in 1..MaxNow, onSale' \in BOOLEAN, rate' \in (1..MaxNow) \cup {None}
  PROVE  ShopIInv'
<1>1. BookTypeOK' /\ PlacementTypeOK'
  BY DEF ShopIInv, BookTypeOK, PlacementTypeOK, book
<1>2. \A q \in Request : ShopKnown(job[q])'
  BY DEF ShopIInv, ShopKnown
<1>3. ReservesApart' /\ QuotesAgree' /\ EventsAgree'
  BY DEF ShopIInv, ReservesApart, QuotesAgree, EventsAgree
<1> QED
  BY <1>1, <1>2, <1>3 DEF ShopIInv

LEMMA ShopInvariance == PlacementSpec => []ShopIInv
<1>1. RequestsInit /\ BookInit /\ PlacementInit => ShopIInv
  BY ShopInitIInv
<1>2. ShopIInv /\ [(\E q \in Request : PlacementNext(q)) \/ RateChanges \/ SaleChanges \/ ClockAdvances]_<<job, shop>>
        => ShopIInv'
  <2> SUFFICES ASSUME ShopIInv, [(\E q \in Request : PlacementNext(q)) \/ RateChanges \/ SaleChanges \/ ClockAdvances]_<<job, shop>>
               PROVE  ShopIInv'
    OBVIOUS
  <2>1. now \in 1..MaxNow /\ onSale \in BOOLEAN /\ rate \in (1..MaxNow) \cup {None}
    BY DEF ShopIInv, PlacementTypeOK
  <2>2. ASSUME NEW q \in Request, PlacementNext(q) PROVE ShopIInv'
    BY <2>2, BookStep, QuoteStep, SaveQuoteStep, PlaceOrderStep, OrderReadsStep, AllocateNumberStep,
       InsertOrderStep, ReserveOrCancelStep DEF PlacementNext
  <2>3. CASE RateChanges
    BY <2>1, <2>3, CounterMoves DEF RateChanges
  <2>4. CASE SaleChanges
    BY <2>1, <2>4, CounterMoves DEF SaleChanges
  <2>5. CASE ClockAdvances
    <3>1. now + 1 \in 1..MaxNow
      BY <2>1, <2>5, ShopBounds DEF ClockAdvances
    <3> QED
      BY <2>1, <2>5, <3>1, CounterMoves DEF ClockAdvances
  <2>6. CASE UNCHANGED <<job, shop>>
    BY <2>1, <2>6, CounterMoves DEF shop, counter
  <2> QED
    BY <2>2, <2>3, <2>4, <2>5, <2>6
<1> QED
  BY <1>1, <1>2, PTL DEF PlacementSpec

\* Whatever requests, sweeps and catalogue changes run, the tables of the
\* address book and the shop keep their shape, and no request invents a row.
THEOREM ShopTypeCorrect == PlacementSpec => [](BookTypeOK /\ PlacementTypeOK)
BY ShopInvariance, PTL DEF ShopIInv

\* A quote is consumed by exactly one order, of its owner, address and rate,
\* asked for before it lapsed, for any number of taps, retries and sweeps.
THEOREM QuotesAreUsedOnce == PlacementSpec => []QuoteUsedOnce
<1>1. ShopIInv => QuoteUsedOnce
  <2> SUFFICES ASSUME ShopIInv PROVE QuoteUsedOnce
    OBVIOUS
  <2>1. ASSUME NEW k \in DOMAIN quotes
        PROVE  (quotes[k].status = "CONSUMED") <=> (Cardinality({i \in DOMAIN orders : orders[i].quote = k}) = 1)
    <3> DEFINE taken == {i \in DOMAIN orders : orders[i].quote = k}
    <3>1. CASE \E i \in DOMAIN orders : orders[i].quote = k
      <4>1. PICK i \in DOMAIN orders : orders[i].quote = k
        BY <3>1
      <4>2. taken = {i}
        BY <4>1 DEF ShopIInv, QuotesAgree
      <4>3. Cardinality(taken) = 1
        BY <4>2, FS_Singleton
      <4> QED
        BY <3>1, <4>3 DEF ShopIInv, QuotesAgree
    <3>2. CASE ~ \E i \in DOMAIN orders : orders[i].quote = k
      <4>1. taken = {}
        BY <3>2
      <4>2. Cardinality(taken) = 0
        BY <4>1, FS_EmptySet
      <4> QED
        BY <3>2, <4>2 DEF ShopIInv, QuotesAgree
    <3> QED
      BY <3>1, <3>2
  <2>2. ASSUME NEW i \in DOMAIN orders
        PROVE  /\ orders[i].owner = quotes[orders[i].quote].owner /\ orders[i].rate = quotes[orders[i].quote].rate
               /\ orders[i].address = quotes[orders[i].quote].address
               /\ orders[i].asked < quotes[orders[i].quote].expires
    BY DEF ShopIInv, QuotesAgree
  <2> QED
    BY <2>1, <2>2 DEF QuoteUsedOnce
<1> QED
  BY <1>1, ShopInvariance, PTL

\* The orders that exist are numbered 1..n: however many placements compute the
\* same number, one of them gets it and none is skipped.
THEOREM NumbersRunOn == PlacementSpec => []OrderNumbersConsecutive
<1>1. ShopIInv => OrderNumbersConsecutive
  <2> SUFFICES ASSUME ShopIInv PROVE OrderNumbersConsecutive
    OBVIOUS
  <2>1. DOMAIN orders = 1..Len(orders) /\ \A i \in DOMAIN orders : orders[i].number = i
    BY DEF ShopIInv, PlacementTypeOK, QuotesAgree
  <2> QED
    BY <2>1 DEF OrderNumbersConsecutive
<1> QED
  BY <1>1, ShopInvariance, PTL

\* The outbox tells of every order that exists and of no other; a confirmed one
\* asked for allocation, and its fuel was reserved or it was cancelled, not both.
THEOREM OutboxTellsEveryOrder == PlacementSpec => []OutboxTellsOrders
<1>1. ShopIInv => OutboxTellsOrders
  <2> SUFFICES ASSUME ShopIInv PROVE OutboxTellsOrders
    OBVIOUS
  <2>1. \A i \in DOMAIN orders : orders[i].number = i
    BY DEF ShopIInv, QuotesAgree
  <2>2. \A e \in outbox : e[1] \in DOMAIN orders /\ e = <<e[1], e[2]>>
    BY DEF ShopIInv, PlacementTypeOK, EventsAgree
  <2>3. ASSUME NEW i \in DOMAIN orders, NEW t
        PROVE  t \in {e[2] : e \in {e \in outbox : e[1] = orders[i].number}} <=> <<i, t>> \in outbox
    BY <2>1, <2>2
  <2>4. ASSUME NEW i \in DOMAIN orders
        PROVE  LET events == {e[2] : e \in {e \in outbox : e[1] = orders[i].number}}
               IN /\ CREATED \in events
                  /\ ALLOCATION_REQUESTED \in events <=> orders[i].mode = "CASH_ON_DELIVERY"
                  /\ CANCELLED \in events <=> orders[i].status = "CANCELLED_BY_ADMIN"
                  /\ ~(CANCELLED \in events /\ RESERVED \in events)
    BY <2>3 DEF ShopIInv, EventsAgree
  <2> QED
    BY <2>1, <2>2, <2>4 DEF OutboxTellsOrders
<1> QED
  BY <1>1, ShopInvariance, PTL

-----------------------------------------------------------------------------
(* Codes, accounts and sessions. *)

CodeFlow == {"register", "signin", "reset"}

SendJob     == [at : {"limits", "supersede", "issue"}, phone : Phone, purpose : Purpose, resends : Nat]
TypedJob    == [at : {"match", "mismatch", "spent"}, flow : CodeFlow, phone : Phone, purpose : Purpose, code : Nat]
ProvedJob   == [at : {"proved", "create", "verify", "gates", "setPassword", "revokeAll", "session", "done"},
                flow : CodeFlow, phone : Phone, purpose : Purpose, code : Nat]
PasswordJob == [at : {"gates", "session", "done"}, flow : {"login"}, phone : Phone]
TokenJob    == [at : {"gates", "lookup"}, flow : {"refresh"}, phone : Phone, token : Nat \X Nat]
RotateJob   == [at : {"rotate"}, token : Nat \X Nat, expires : Nat]
RotatedJob  == [at : {"done"}, token : Nat \X Nat]
RevokeJob   == [at : {"revoke"}, session : Nat, reason : RevocationReason]
ChangeJob   == [at : {"setPassword", "revokeAll"}, flow : {"change"}, phone : Phone, keep : Nat]

AccountJobs == UNION {[at : {"new", "left"}], SendJob, TypedJob, ProvedJob, PasswordJob, TokenJob, RotateJob,
                      RotatedJob, RevokeJob, ChangeJob}

\* What a request read that no other request undoes.
AccountKnown(r) ==
  /\ r \in TypedJob => r.code \in DOMAIN challenges
  /\ r \in ProvedJob => r.code \in DOMAIN challenges /\ challenges[r.code].consumed
  /\ r.at \in {"verify", "gates", "setPassword", "revokeAll", "session"} => users[r.phone] # None
  /\ r \in TokenJob => r.token[1] \in DOMAIN sessions
  /\ r \in RotateJob => r.token[1] \in DOMAIN sessions /\ r.expires <= sessions[r.token[1]].ceiling
  /\ r \in RotatedJob => r.token[1] \in DOMAIN sessions /\ r.token[2] < sessions[r.token[1]].rotation

\* What one request proved or exchanged, no other did.
SpentApart ==
  \A p, q \in Request : p # q =>
    /\ job[p] \in ProvedJob /\ job[q] \in ProvedJob => job[p].code # job[q].code
    /\ job[p] \in RotatedJob /\ job[q] \in RotatedJob => job[p].token # job[q].token

SessionsBacked ==
  \A s \in DOMAIN sessions : sessions[s].expires <= sessions[s].ceiling /\ users[sessions[s].user] # None

SignInIInv ==
  /\ SignInTypeOK
  /\ job \in [Request -> AccountJobs]
  /\ \A q \in Request : AccountKnown(job[q])
  /\ SpentApart /\ SessionsBacked

\* What a job may do follows from its step.
LEMMA AccountJobFields ==
  ASSUME NEW r \in AccountJobs
  PROVE  /\ r.at \in {"limits", "supersede", "issue"} => r \in SendJob
         /\ r.at \in {"match", "mismatch", "spent"} => r \in TypedJob
         /\ r.at \in {"proved", "create", "verify"} => r \in ProvedJob
         /\ r.at = "gates" => r \in ProvedJob \cup PasswordJob \cup TokenJob
         /\ r.at = "session" => r \in ProvedJob \cup PasswordJob
         /\ r.at = "lookup" => r \in TokenJob
         /\ r.at = "rotate" => r \in RotateJob
         /\ r.at = "revoke" => r \in RevokeJob
         /\ r.at \in {"setPassword", "revokeAll"} => r \in ProvedJob \cup ChangeJob
<1>1. CASE r \in [at : {"new", "left"}] \cup SendJob \cup TypedJob
  BY <1>1 DEF SendJob, TypedJob
<1>2. CASE r \in ProvedJob \cup PasswordJob \cup ChangeJob
  BY <1>2 DEF ProvedJob, PasswordJob, ChangeJob
<1>3. CASE r \in TokenJob \cup RotateJob
  BY <1>3 DEF TokenJob, RotateJob
<1>4. CASE r \in RotatedJob \cup RevokeJob
  BY <1>4 DEF RotatedJob, RevokeJob
<1> QED
  BY <1>1, <1>2, <1>3, <1>4 DEF AccountJobs

\* A job is of one kind: by its step, its flow or the fields it has.
LEMMA JobKinds ==
  /\ \A r \in [at : {"new", "left"}] \cup SendJob \cup RevokeJob \cup ChangeJob \cup PasswordJob :
       r \notin TypedJob /\ r \notin ProvedJob /\ r \notin TokenJob /\ r \notin RotateJob /\ r \notin RotatedJob
  /\ \A r \in TypedJob : r \notin ProvedJob /\ r \notin TokenJob /\ r \notin RotateJob /\ r \notin RotatedJob
  /\ \A r \in ProvedJob : r \notin TypedJob /\ r \notin TokenJob /\ r \notin RotateJob /\ r \notin RotatedJob
  /\ \A r \in TokenJob : r \notin TypedJob /\ r \notin ProvedJob /\ r \notin RotateJob /\ r \notin RotatedJob
  /\ \A r \in RotateJob : r \notin TypedJob /\ r \notin ProvedJob /\ r \notin TokenJob /\ r \notin RotatedJob
  /\ \A r \in RotatedJob : r \notin TypedJob /\ r \notin ProvedJob /\ r \notin TokenJob /\ r \notin RotateJob
<1>1. \A r : /\ r \in TypedJob => r.at \in {"match", "mismatch", "spent"}
             /\ r \in RotateJob => r.at = "rotate"
             /\ r \in ProvedJob => /\ r.at \in {"proved", "create", "verify", "gates", "setPassword", "revokeAll", "session", "done"}
                                   /\ r.flow \in CodeFlow /\ "flow" \in DOMAIN r
             /\ r \in TokenJob => r.at \in {"gates", "lookup"} /\ r.flow = "refresh"
             /\ r \in RotatedJob => r.at = "done" /\ "flow" \notin DOMAIN r
  BY DEF TypedJob, RotateJob, ProvedJob, TokenJob, RotatedJob
<1>2. \A r : /\ r \in [at : {"new", "left"}] => r.at \in {"new", "left"}
             /\ r \in SendJob => r.at \in {"limits", "supersede", "issue"}
             /\ r \in RevokeJob => r.at = "revoke"
             /\ r \in ChangeJob => r.at \in {"setPassword", "revokeAll"} /\ r.flow = "change"
             /\ r \in PasswordJob => r.at \in {"gates", "session", "done"} /\ r.flow = "login" /\ "flow" \in DOMAIN r
  BY DEF SendJob, RevokeJob, ChangeJob, PasswordJob
<1> QED
  BY <1>1, <1>2 DEF CodeFlow

LEMMA SessionFields ==
  ASSUME SignInIInv, NEW s \in DOMAIN sessions
  PROVE  /\ sessions[s] \in SessionRow /\ s \in Nat /\ sessions[s].user \in Phone
         /\ \A n \in {sessions[s].rotation, sessions[s].lastUsed, sessions[s].expires, sessions[s].ceiling} : n \in Nat
<1>1. sessions[s] \in SessionRow /\ s \in Nat
  BY DEF SignInIInv, SignInTypeOK
<1> QED
  BY <1>1 DEF SessionRow

\* Tables only grow, and what is consumed, signed up or rotated stays so.
AccountsFollow ==
  /\ SignInTypeOK' /\ SessionsBacked'
  /\ \A c \in DOMAIN challenges : c \in DOMAIN challenges' /\ (challenges[c].consumed => challenges'[c].consumed)
  /\ \A p \in Phone : users[p] # None => users'[p] # None
  /\ \A s \in DOMAIN sessions : /\ s \in DOMAIN sessions' /\ sessions'[s].ceiling = sessions[s].ceiling
                                /\ sessions[s].rotation <= sessions'[s].rotation

\* A request takes its next step, whatever else that step does to the tables.
LEMMA AccountMoves ==
  ASSUME SignInIInv, NEW q \in Request, NEW r \in AccountJobs, Goto(q, r), AccountsFollow, AccountKnown(r)',
         r \in ProvedJob => (job[q] \in ProvedJob /\ job[q].code = r.code) \/ ~challenges[r.code].consumed,
         r \in RotatedJob => r.token[1] \in DOMAIN sessions /\ r.token[2] = sessions[r.token[1]].rotation
  PROVE  SignInIInv'
<1>1. job' \in [Request -> AccountJobs] /\ \A p \in Request : job'[p] = IF p = q THEN r ELSE job[p]
  BY DEF Goto, SignInIInv
<1>2. \A p \in Request : AccountKnown(job[p]) /\ job[p] \in AccountJobs
  BY DEF SignInIInv
<1>3. ASSUME NEW p \in Request PROVE AccountKnown(job[p])'
  <2>1. CASE p = q
    BY <1>1, <2>1 DEF AccountKnown
  <2>2. CASE p # q
    <3>1. PICK j \in AccountJobs : j = job[p] /\ j = job'[p] /\ AccountKnown(j)
      BY <1>1, <1>2, <2>2
    <3>2. /\ j \in TypedJob => j.code \in DOMAIN challenges'
          /\ j \in ProvedJob => j.code \in DOMAIN challenges' /\ challenges'[j.code].consumed
      BY <3>1 DEF AccountsFollow, AccountKnown
    <3>3. j.at \in {"verify", "gates", "setPassword", "revokeAll", "session"} => users'[j.phone] # None
      <4>1. j.at \in {"verify", "gates", "setPassword", "revokeAll", "session"} => j.phone \in Phone
        BY AccountJobFields DEF ProvedJob, PasswordJob, TokenJob, ChangeJob
      <4> QED
        BY <3>1, <4>1 DEF AccountsFollow, AccountKnown
    <3>4. /\ j \in TokenJob => j.token[1] \in DOMAIN sessions'
          /\ j \in RotateJob => j.token[1] \in DOMAIN sessions' /\ j.expires <= sessions'[j.token[1]].ceiling
      BY <3>1 DEF AccountsFollow, AccountKnown
    <3>5. j \in RotatedJob => j.token[1] \in DOMAIN sessions' /\ j.token[2] < sessions'[j.token[1]].rotation
      <4> SUFFICES ASSUME j \in RotatedJob
                   PROVE  j.token[1] \in DOMAIN sessions' /\ j.token[2] < sessions'[j.token[1]].rotation
        OBVIOUS
      <4>1. PICK s \in DOMAIN sessions, n \in Nat : s = j.token[1] /\ n = j.token[2] /\ n < sessions[s].rotation
        BY <3>1 DEF RotatedJob, AccountKnown
      <4>2. s \in DOMAIN sessions' /\ sessions[s].rotation <= sessions'[s].rotation
        BY DEF AccountsFollow
      <4>3. sessions[s] \in SessionRow /\ sessions'[s] \in SessionRow
        BY <4>2 DEF SignInIInv, SignInTypeOK, AccountsFollow
      <4>4. sessions[s].rotation \in Nat /\ sessions'[s].rotation \in Nat
        BY <4>3 DEF SessionRow
      <4> QED
        BY <4>1, <4>2, <4>4
    <3> QED
      BY <3>1, <3>2, <3>3, <3>4, <3>5 DEF AccountKnown
  <2> QED
    BY <2>1, <2>2
<1>4. ASSUME NEW p \in Request, p # q
      PROVE  /\ r \in ProvedJob /\ job[p] \in ProvedJob => job[p].code # r.code
             /\ r \in RotatedJob /\ job[p] \in RotatedJob => job[p].token # r.token
  <2>1. CASE r \in ProvedJob /\ job[p] \in ProvedJob
    <3>1. challenges[job[p].code].consumed
      BY <1>2, <2>1 DEF AccountKnown
    <3>2. job[q] \in ProvedJob => job[p].code # job[q].code
      BY <1>4, <2>1 DEF SignInIInv, SpentApart
    <3>3. r \notin RotatedJob
      BY <2>1, JobKinds
    <3> QED
      BY <2>1, <3>1, <3>2, <3>3
  <2>2. CASE r \in RotatedJob /\ job[p] \in RotatedJob
    <3>1. PICK n \in Nat : n = job[p].token[2] /\ n < sessions[job[p].token[1]].rotation
      BY <1>2, <2>2 DEF AccountKnown, RotatedJob
    <3>2. job[p].token = r.token => n = sessions[job[p].token[1]].rotation
      BY <2>2, <3>1
    <3>3. job[p].token[1] \in DOMAIN sessions
      BY <1>2, <2>2 DEF AccountKnown
    <3>4. sessions[job[p].token[1]].rotation \in Nat
      BY <3>3, SessionFields
    <3>5. r \notin ProvedJob
      BY <2>2, JobKinds
    <3> QED
      BY <3>1, <3>2, <3>4, <3>5
  <2> QED
    BY <2>1, <2>2
<1>5. SpentApart'
  BY <1>1, <1>4 DEF SignInIInv, SpentApart
<1> QED
  BY <1>1, <1>3, <1>5 DEF SignInIInv, AccountsFollow

LEMMA AccountsStay == ASSUME SignInIInv, UNCHANGED accounts PROVE AccountsFollow
<1>1. clock' = clock /\ challenges' = challenges /\ users' = users /\ sessions' = sessions
  BY DEF accounts
<1>2. \A s \in DOMAIN sessions : sessions[s].rotation <= sessions[s].rotation
  <2>1. \A s \in DOMAIN sessions : sessions[s].rotation \in Nat
    BY SessionFields
  <2> QED
    BY <2>1
<1>3. SignInTypeOK' /\ SessionsBacked'
  BY <1>1 DEF SignInIInv, SignInTypeOK, SessionsBacked
<1> QED
  BY <1>1, <1>2, <1>3 DEF AccountsFollow

LEMMA CodesFollow ==
  ASSUME SignInIInv, clock' = clock, CodesOnly, challenges' \in Seq(ChallengeRow), Len(challenges') <= MaxChallenges,
         \A c \in DOMAIN challenges : c \in DOMAIN challenges' /\ (challenges[c].consumed => challenges'[c].consumed)
  PROVE  AccountsFollow
<1>1. users' = users /\ sessions' = sessions
  BY DEF CodesOnly
<1>2. \A s \in DOMAIN sessions : sessions[s].rotation <= sessions[s].rotation
  <2>1. \A s \in DOMAIN sessions : sessions[s].rotation \in Nat
    BY SessionFields
  <2> QED
    BY <2>1
<1>3. SignInTypeOK' /\ SessionsBacked'
  BY <1>1 DEF SignInIInv, SignInTypeOK, SessionsBacked
<1> QED
  BY <1>1, <1>2, <1>3 DEF AccountsFollow

\* A row of a user is written over or added, never taken away.
LEMMA UsersFollow ==
  ASSUME SignInIInv, UsersOnly, NEW p \in Phone, NEW row \in UserRow, users' = [users EXCEPT ![p] = row]
  PROVE  AccountsFollow /\ users'[p] # None
<1>1. clock' = clock /\ challenges' = challenges /\ sessions' = sessions
  BY DEF UsersOnly
<1>2. users \in [Phone -> UserRow \cup {None}] /\ row # None
  BY NoneIsNoUser DEF SignInIInv, SignInTypeOK
<1>3. users' \in [Phone -> UserRow \cup {None}] /\ \A u \in Phone : users'[u] = IF u = p THEN row ELSE users[u]
  BY <1>2
<1>4. \A s \in DOMAIN sessions : sessions[s].rotation \in Nat /\ sessions[s].user \in Phone
  BY SessionFields
<1>5. SignInTypeOK'
  BY <1>1, <1>3 DEF SignInIInv, SignInTypeOK
<1>6. SessionsBacked'
  BY <1>1, <1>2, <1>3, <1>4 DEF SignInIInv, SessionsBacked
<1>7. \A s \in DOMAIN sessions : sessions[s].rotation <= sessions'[s].rotation
  BY <1>1, <1>4
<1> QED
  BY <1>1, <1>2, <1>3, <1>5, <1>6, <1>7 DEF AccountsFollow

\* A session keeps its owner and its limit; one that was revoked keeps everything.
SessionsMove ==
  /\ sessions' \in Seq(SessionRow) /\ Len(sessions') <= MaxSessions
  /\ \A s \in DOMAIN sessions :
       /\ s \in DOMAIN sessions' /\ sessions'[s].ceiling = sessions[s].ceiling
       /\ sessions[s].rotation <= sessions'[s].rotation
       /\ ~Live(s) => sessions'[s] = sessions[s]
  /\ \A s \in DOMAIN sessions' : sessions'[s].expires <= sessions'[s].ceiling /\ users[sessions'[s].user] # None

LEMMA SessionsFollow == ASSUME SignInIInv, SessionsOnly, SessionsMove PROVE AccountsFollow
<1>1. clock' = clock /\ challenges' = challenges /\ users' = users
  BY DEF SessionsOnly
<1>2. SignInTypeOK' /\ SessionsBacked'
  BY <1>1 DEF SignInIInv, SignInTypeOK, SessionsBacked, SessionsMove
<1> QED
  BY <1>1, <1>2 DEF AccountsFollow, SessionsMove

LEMMA AccountLeft ==
  ASSUME SignInIInv, NEW q \in Request, Leave(q), AccountsFollow
  PROVE  SignInIInv'
<1> DEFINE r == [at |-> "left"]
<1>1. r \in [at : {"new", "left"}] /\ r.at = "left" /\ Goto(q, r)
  BY DEF Leave
<1> HIDE DEF r
<1>2. r \in AccountJobs
  BY <1>1 DEF AccountJobs
<1>3. AccountKnown(r)' /\ r \notin ProvedJob /\ r \notin RotatedJob
  BY <1>1, JobKinds DEF AccountKnown
<1> QED
  BY <1>1, <1>2, <1>3, AccountMoves

\* A request sends a code: it holds nothing yet.
LEMMA Sends ==
  ASSUME SignInIInv, NEW q \in Request, NEW r \in SendJob, Goto(q, r), AccountsFollow
  PROVE  SignInIInv'
<1>1. r \in AccountJobs /\ r.at \in {"limits", "supersede", "issue"}
  BY DEF AccountJobs, SendJob
<1>2. AccountKnown(r)' /\ r \notin ProvedJob /\ r \notin RotatedJob
  BY <1>1, JobKinds DEF AccountKnown
<1> QED
  BY <1>1, <1>2, AccountMoves

\* A request that proved a code goes on with it.
LEMMA Proceeds ==
  ASSUME SignInIInv, NEW q \in Request, NEW r \in ProvedJob, Goto(q, r), AccountsFollow,
         job[q] \in ProvedJob, job[q].code = r.code,
         r.at \in {"verify", "gates", "setPassword", "revokeAll", "session"} => users'[r.phone] # None
  PROVE  SignInIInv'
<1>1. r \in AccountJobs
  BY DEF AccountJobs
<1>2. r.code \in DOMAIN challenges /\ challenges[r.code].consumed
  BY DEF SignInIInv, AccountKnown
<1>3. AccountKnown(r)' /\ r \notin RotatedJob
  BY <1>2, JobKinds DEF AccountKnown, AccountsFollow
<1> QED
  BY <1>1, <1>3, AccountMoves

LEMMA HasLargest ==
  ASSUME NEW n \in Nat, NEW S, S \subseteq 1..n, S # {}
  PROVE  \E m \in S : \A k \in S : k <= m
<1> DEFINE T == {n - k : k \in S}
<1>1. PICK lt : lt = OpToRel(<, Nat)
  OBVIOUS
<1>2. IsWellFoundedOn(lt, Nat)
  BY <1>1, NatLessThanWellFounded
<1>3. \A x, y \in Nat : <<x, y>> \in lt <=> x < y
  BY <1>1 DEF OpToRel
<1>4. T \subseteq Nat /\ T # {}
  <2>1. \A k \in S : k \in 1..n /\ n - k \in Nat
    OBVIOUS
  <2> QED
    BY <2>1
<1> HIDE DEF T
<1>5. PICK x \in T : \A y \in T : ~ (<<y, x>> \in lt)
  BY <1>2, <1>4, WFMin
<1>6. \A y \in T : x <= y
  <2>1. \A y \in T : x \in Nat /\ y \in Nat /\ ~ (y < x)
    BY <1>3, <1>4, <1>5
  <2> QED
    BY <2>1
<1>7. PICK m \in S : x = n - m
  BY DEF T
<1>8. \A k \in S : n - k \in T
  BY DEF T
<1> QED
  BY <1>6, <1>7, <1>8

\* The newest live code is a row of the table, when there is one.
LEMMA NewestCode ==
  ASSUME SignInIInv, NEW p, NEW u
  PROVE  findLive(p, u) = 0 \/ findLive(p, u) \in DOMAIN challenges
<1> DEFINE live == {i \in DOMAIN challenges : LiveFor(p, u, i) /\ challenges[i].expires > clock}
<1>1. PICK n \in Nat : n = Len(challenges) /\ DOMAIN challenges = 1..n
  BY DEF SignInIInv, SignInTypeOK
<1>2. live \subseteq 1..n
  BY <1>1
<1>3. findLive(p, u) = IF live = {} THEN 0 ELSE CHOOSE i \in live : \A k \in live : k <= i
  BY DEF findLive
<1> HIDE DEF live
<1>4. live # {} => findLive(p, u) \in live
  BY <1>2, <1>3, HasLargest
<1> QED
  BY <1>1, <1>2, <1>3, <1>4

LEMMA ChallengeWritten ==
  ASSUME NEW c \in ChallengeRow
  PROVE  /\ \A b \in BOOLEAN : [c EXCEPT !.consumed = b] \in ChallengeRow
         /\ \A n \in 0..MaxAttempts : [c EXCEPT !.attempts = n] \in ChallengeRow
         /\ c.attempts \in 0..MaxAttempts /\ c.resends \in Nat /\ c.consumed \in BOOLEAN
BY DEF ChallengeRow

LEMMA CodeConsumed ==
  ASSUME SignInIInv, NEW i \in DOMAIN challenges, clock' = clock, CodesOnly, challenges' = consume(i)
  PROVE  AccountsFollow /\ i \in DOMAIN challenges' /\ challenges'[i].consumed
<1>1. challenges \in Seq(ChallengeRow) /\ challenges[i] \in ChallengeRow /\ Len(challenges) <= MaxChallenges
  BY DEF SignInIInv, SignInTypeOK
<1>2. PICK row \in ChallengeRow : row = [challenges[i] EXCEPT !.consumed = TRUE] /\ row.consumed
  <2>1. [challenges[i] EXCEPT !.consumed = TRUE] \in ChallengeRow
    BY <1>1, ChallengeWritten
  <2>2. [challenges[i] EXCEPT !.consumed = TRUE].consumed
    BY <1>1 DEF ChallengeRow
  <2> QED
    BY <2>1, <2>2
<1>3. challenges' = [challenges EXCEPT ![i] = row]
  BY <1>2 DEF consume
<1>4. /\ challenges' \in Seq(ChallengeRow) /\ Len(challenges') = Len(challenges)
      /\ DOMAIN challenges' = DOMAIN challenges
      /\ \A c \in DOMAIN challenges : challenges'[c] = IF c = i THEN row ELSE challenges[c]
  BY <1>1, <1>3
<1>5. Len(challenges') <= MaxChallenges
  BY <1>1, <1>4
<1> QED
  BY <1>2, <1>4, <1>5, CodesFollow

LEMMA SendStep ==
  ASSUME SignInIInv, NEW q \in Request, CodesOnly,
         \/ \E p \in Phone, u \in Purpose : FindForResend(q, p, u)
         \/ CheckSendLimits(q) \/ SupersedeLive(q) \/ IssueCode(q)
  PROVE  SignInIInv'
<1>1. challenges \in Seq(ChallengeRow) /\ Len(challenges) <= MaxChallenges /\ clock \in 0..MaxTime
  BY DEF SignInIInv, SignInTypeOK
<1>2. UNCHANGED <<clock, challenges>> => AccountsFollow
  BY AccountsStay DEF CodesOnly, accounts
<1>3. CASE \E p \in Phone, u \in Purpose : FindForResend(q, p, u)
  <2>1. PICK p \in Phone, u \in Purpose : FindForResend(q, p, u)
    BY <1>3
  <2>2. PICK n : n = IF findLive(p, u) = 0 THEN 0 ELSE challenges[findLive(p, u)].resends + 1
    OBVIOUS
  <2>3. n \in Nat
    <3>1. CASE findLive(p, u) = 0
      BY <2>2, <3>1
    <3>2. CASE findLive(p, u) # 0
      <4>1. PICK c \in ChallengeRow : c = challenges[findLive(p, u)]
        BY <1>1, <3>2, NewestCode
      <4>2. c.resends \in Nat
        BY ChallengeWritten
      <4> QED
        BY <2>2, <3>2, <4>1, <4>2
    <3> QED
      BY <3>1, <3>2
  <2> DEFINE r == [at |-> "limits", phone |-> p, purpose |-> u, resends |-> n]
  <2>4. UNCHANGED <<clock, challenges>> /\ (Leave(q) \/ Goto(q, r))
    BY <2>1, <2>2 DEF FindForResend
  <2>5. r \in SendJob
    BY <2>3 DEF SendJob
  <2> HIDE DEF r
  <2> QED
    BY <1>2, <2>4, <2>5, AccountLeft, Sends
<1>4. CASE CheckSendLimits(q)
  <2>1. PICK j \in SendJob : j = job[q]
    BY <1>4, AccountJobFields DEF SignInIInv, CheckSendLimits, At
  <2> DEFINE r == [j EXCEPT !.at = "supersede"]
  <2>2. UNCHANGED <<clock, challenges>> /\ (Leave(q) \/ Goto(q, r))
    BY <1>4, <2>1 DEF CheckSendLimits, Proceed
  <2>3. r \in SendJob
    BY DEF SendJob
  <2> HIDE DEF r
  <2> QED
    BY <1>2, <2>2, <2>3, AccountLeft, Sends
<1>5. CASE SupersedeLive(q)
  <2>1. PICK j \in SendJob : j = job[q]
    BY <1>5, AccountJobFields DEF SignInIInv, SupersedeLive, At
  <2> DEFINE r == [j EXCEPT !.at = "issue"]
             rows == consumeAllLive(j.phone, j.purpose)
  <2>2. clock' = clock /\ challenges' = rows /\ Goto(q, r)
    BY <1>5, <2>1 DEF SupersedeLive, Proceed
  <2>3. r \in SendJob
    BY DEF SendJob
  <2>4. ASSUME NEW c \in DOMAIN challenges
        PROVE  rows[c] \in ChallengeRow /\ (challenges[c].consumed => rows[c].consumed)
    <3>1. PICK row \in ChallengeRow : row = challenges[c] /\ row.consumed \in BOOLEAN
      BY <1>1, ChallengeWritten
    <3>2. PICK b \in BOOLEAN : rows[c] = [row EXCEPT !.consumed = b] /\ (row.consumed => b)
      <4>1. rows[c] = [row EXCEPT !.consumed = row.consumed \/ LiveFor(j.phone, j.purpose, c)]
        BY <3>1 DEF consumeAllLive
      <4> QED
        BY <3>1, <4>1
    <3> HIDE DEF rows
    <3>3. rows[c] \in ChallengeRow
      BY <3>2, ChallengeWritten
    <3>4. rows[c].consumed = b
      BY <3>2 DEF ChallengeRow
    <3> QED
      BY <3>1, <3>2, <3>3, <3>4
  <2>5. DOMAIN rows = DOMAIN challenges /\ rows = [c \in DOMAIN challenges |-> rows[c]]
    BY DEF consumeAllLive
  <2> HIDE DEF r, rows
  <2>6. rows \in Seq(ChallengeRow) /\ Len(rows) = Len(challenges)
    BY <1>1, <2>4, <2>5, TableRewritten
  <2>7. AccountsFollow
    BY <1>1, <2>2, <2>4, <2>5, <2>6, CodesFollow
  <2> QED
    BY <2>2, <2>3, <2>7, Sends
<1>6. CASE IssueCode(q)
  <2>1. PICK j \in SendJob : j = job[q]
    BY <1>6, AccountJobFields DEF SignInIInv, IssueCode, At
  <2> DEFINE row == [phone |-> j.phone, purpose |-> j.purpose, born |-> clock, expires |-> clock + OtpTtl,
                     attempts |-> 0, resends |-> j.resends, consumed |-> FALSE]
  <2>2. row \in ChallengeRow
    <3>1. clock + OtpTtl \in Nat /\ 0 \in 0..MaxAttempts
      BY <1>1, CodeLimits, CodeBounds
    <3> QED
      BY <1>1, <3>1 DEF SendJob, ChallengeRow
  <2>3. clock' = clock /\ challenges' = Append(challenges, row) /\ Len(challenges) < MaxChallenges /\ Leave(q)
    BY <1>6, <2>1 DEF IssueCode
  <2> HIDE DEF row
  <2>4. /\ challenges' \in Seq(ChallengeRow) /\ Len(challenges') = Len(challenges) + 1
        /\ \A c \in DOMAIN challenges : c \in DOMAIN challenges' /\ challenges'[c] = challenges[c]
    BY <1>1, <2>2, <2>3
  <2>5. Len(challenges') <= MaxChallenges
    BY <1>1, <2>3, <2>4, CodeBounds
  <2>6. AccountsFollow
    BY <2>3, <2>4, <2>5, CodesFollow
  <2> QED
    BY <2>3, <2>6, AccountLeft
<1> QED
  BY <1>3, <1>4, <1>5, <1>6

\* Many may find the same live code; the step only notes which row it was.
LEMMA TypeCodeStep ==
  ASSUME SignInIInv, NEW q \in Request, NEW flow \in CodeFlow, NEW p \in Phone, NEW u \in Purpose, NEW typed,
         FindForVerify(q, flow, p, u, typed), CodesOnly
  PROVE  SignInIInv'
<1>1. AccountsFollow
  BY AccountsStay DEF FindForVerify, CodesOnly, accounts
<1>2. PICK c : c = findLive(p, u) /\ (c = 0 \/ c \in DOMAIN challenges)
  BY NewestCode
<1>3. CASE Leave(q)
  BY <1>1, <1>3, AccountLeft
<1>4. CASE ~ Leave(q)
  <2>1. PICK step \in {"match", "mismatch", "spent"} :
          c # 0 /\ Goto(q, [at |-> step, flow |-> flow, phone |-> p, purpose |-> u, code |-> c])
    <3>1. /\ c # 0
          /\ Goto(q, [at |-> IF challenges[c].attempts >= MaxAttempts THEN "spent"
                             ELSE IF typed = c THEN "match" ELSE "mismatch",
                      flow |-> flow, phone |-> p, purpose |-> u, code |-> c])
      BY <1>2, <1>4 DEF FindForVerify
    <3> QED
      BY <3>1
  <2> DEFINE r == [at |-> step, flow |-> flow, phone |-> p, purpose |-> u, code |-> c]
  <2>2. c \in Nat /\ c \in DOMAIN challenges
    BY <1>2, <2>1 DEF SignInIInv, SignInTypeOK
  <2>3. r \in TypedJob /\ r.at = step /\ r.code = c
    BY <2>1, <2>2 DEF TypedJob
  <2>4. Goto(q, r)
    BY <2>1
  <2> HIDE DEF r
  <2>5. r \in AccountJobs
    BY <2>3 DEF AccountJobs
  <2>6. c \in DOMAIN challenges'
    BY <1>1, <2>2 DEF AccountsFollow
  <2>7. r \notin ProvedJob /\ r \notin TokenJob /\ r \notin RotateJob /\ r \notin RotatedJob
    BY <2>3, JobKinds
  <2>8. AccountKnown(r)'
    BY <2>1, <2>3, <2>6, <2>7 DEF AccountKnown
  <2> QED
    BY <1>1, <2>4, <2>5, <2>7, <2>8, AccountMoves
<1> QED
  BY <1>3, <1>4

\* Of the requests that typed the same code one consumes it, and goes on.
LEMMA ConsumeStep ==
  ASSUME SignInIInv, NEW q \in Request, CodesOnly, CountFailure(q) \/ ConsumeSpent(q) \/ ConsumeProved(q)
  PROVE  SignInIInv'
<1>1. PICK j \in TypedJob : j = job[q] /\ AccountKnown(j)
  BY AccountJobFields DEF SignInIInv, CountFailure, ConsumeSpent, ConsumeProved, At
<1>2. PICK c \in DOMAIN challenges : c = j.code
  BY <1>1 DEF AccountKnown
<1>3. clock' = clock
  BY DEF CountFailure, ConsumeSpent, ConsumeProved
<1>4. challenges \in Seq(ChallengeRow) /\ challenges[c] \in ChallengeRow /\ Len(challenges) <= MaxChallenges
  BY DEF SignInIInv, SignInTypeOK
<1>5. challenges' = challenges => AccountsFollow
  BY <1>3, AccountsStay DEF CodesOnly, accounts
<1>6. challenges' = consume(c) => AccountsFollow
  BY <1>3, CodeConsumed
<1>7. CASE CountFailure(q)
  <2>1. PICK row : row = challenges[c]
    OBVIOUS
  <2>2. \/ Leave(q) /\ challenges' = challenges
        \/ row.attempts < MaxAttempts /\ challenges' = registerFailedAttempt(c) /\ (Leave(q) \/ Goto(q, [j EXCEPT !.at = "spent"]))
    <3>1. row.attempts \in Nat /\ MaxAttempts \in Nat
      BY <1>4, <2>1, CodeLimits, ChallengeWritten
    <3> QED
      BY <1>1, <1>2, <1>7, <2>1, <3>1 DEF CountFailure, Proceed
  <2>3. ASSUME row.attempts < MaxAttempts, challenges' = registerFailedAttempt(c) PROVE AccountsFollow
    <3>1. row.attempts + 1 \in 0..MaxAttempts
      BY <1>4, <2>1, <2>3, CodeLimits, ChallengeWritten
    <3>2. PICK new \in ChallengeRow : new = [row EXCEPT !.attempts = row.attempts + 1] /\ new.consumed = row.consumed
      <4>1. [row EXCEPT !.attempts = row.attempts + 1] \in ChallengeRow
        BY <1>4, <2>1, <3>1, ChallengeWritten
      <4>2. [row EXCEPT !.attempts = row.attempts + 1].consumed = row.consumed
        BY <1>4, <2>1 DEF ChallengeRow
      <4> QED
        BY <4>1, <4>2
    <3>3. challenges' = [challenges EXCEPT ![c] = new]
      BY <2>1, <2>3, <3>2 DEF registerFailedAttempt
    <3>4. /\ challenges' \in Seq(ChallengeRow) /\ Len(challenges') = Len(challenges)
          /\ \A i \in DOMAIN challenges : /\ i \in DOMAIN challenges'
                                          /\ challenges'[i] = IF i = c THEN new ELSE challenges[i]
      BY <1>4, <3>3
    <3> QED
      BY <1>3, <1>4, <2>1, <3>2, <3>4, CodesFollow
  <2>4. AccountsFollow
    BY <1>5, <2>2, <2>3
  <2>5. CASE Leave(q)
    BY <2>4, <2>5, AccountLeft
  <2>6. CASE Goto(q, [j EXCEPT !.at = "spent"])
    <3>1. PICK r \in TypedJob : r = [j EXCEPT !.at = "spent"] /\ r.code = c /\ r.at = "spent"
      <4>1. [j EXCEPT !.at = "spent"] \in TypedJob /\ [j EXCEPT !.at = "spent"].code = c /\ [j EXCEPT !.at = "spent"].at = "spent"
        BY <1>2 DEF TypedJob
      <4> QED
        BY <4>1
    <3>2. r \in AccountJobs
      BY DEF AccountJobs
    <3>3. r \notin ProvedJob /\ r \notin TokenJob /\ r \notin RotateJob /\ r \notin RotatedJob
      BY JobKinds
    <3>4. AccountKnown(r)'
      BY <2>4, <3>1, <3>3 DEF AccountsFollow, AccountKnown
    <3> QED
      BY <2>4, <2>6, <3>1, <3>2, <3>3, <3>4, AccountMoves
  <2> QED
    BY <2>2, <2>5, <2>6
<1>8. CASE ConsumeSpent(q)
  BY <1>1, <1>2, <1>6, <1>8, AccountLeft DEF ConsumeSpent
<1>9. CASE ConsumeProved(q)
  <2>1. \/ Leave(q) /\ challenges' = challenges
        \/ ~challenges[c].consumed /\ challenges' = consume(c) /\ Goto(q, [j EXCEPT !.at = "proved"])
    BY <1>1, <1>2, <1>9 DEF ConsumeProved, consumable, Proceed
  <2>2. CASE Leave(q) /\ challenges' = challenges
    BY <1>5, <2>2, AccountLeft
  <2>3. CASE ~challenges[c].consumed /\ challenges' = consume(c) /\ Goto(q, [j EXCEPT !.at = "proved"])
    <3>1. PICK r \in ProvedJob : r = [j EXCEPT !.at = "proved"] /\ r.code = c /\ r.at = "proved"
      <4>1. /\ [j EXCEPT !.at = "proved"] \in ProvedJob /\ [j EXCEPT !.at = "proved"].code = c
            /\ [j EXCEPT !.at = "proved"].at = "proved"
        BY <1>2 DEF TypedJob, ProvedJob
      <4> QED
        BY <4>1
    <3>2. r \in AccountJobs
      BY DEF AccountJobs
    <3>3. r \notin TypedJob /\ r \notin TokenJob /\ r \notin RotateJob /\ r \notin RotatedJob
      BY JobKinds
    <3>4. AccountsFollow /\ c \in DOMAIN challenges' /\ challenges'[c].consumed
      BY <1>3, <2>3, CodeConsumed
    <3>5. AccountKnown(r)'
      BY <3>1, <3>3, <3>4 DEF AccountKnown
    <3> QED
      BY <2>3, <3>1, <3>2, <3>3, <3>4, <3>5, AccountMoves
  <2> QED
    BY <2>1, <2>2, <2>3
<1> QED
  BY <1>7, <1>8, <1>9

LEMMA ProvedMoved ==
  ASSUME NEW r \in ProvedJob
  PROVE  /\ r.phone \in Phone
         /\ \A step \in {"create", "verify", "gates", "setPassword", "revokeAll", "session", "done"} :
              /\ [r EXCEPT !.at = step] \in ProvedJob /\ [r EXCEPT !.at = step].at = step
              /\ [r EXCEPT !.at = step].code = r.code /\ [r EXCEPT !.at = step].phone = r.phone
BY DEF ProvedJob

\* The next step of a request that proved its code.
LEMMA ProvedProceeds ==
  ASSUME SignInIInv, NEW q \in Request, job[q] \in ProvedJob, NEW step, Proceed(q, step), AccountsFollow,
         step \in {"create", "verify", "gates", "setPassword", "revokeAll", "session", "done"},
         step \in {"create", "done"} \/ users'[job[q].phone] # None
  PROVE  SignInIInv'
<1>1. PICK j \in ProvedJob : j = job[q]
  OBVIOUS
<1>2. PICK r \in ProvedJob : r = [j EXCEPT !.at = step] /\ r.at = step /\ r.code = j.code /\ r.phone = j.phone
  <2>1. /\ [j EXCEPT !.at = step] \in ProvedJob /\ [j EXCEPT !.at = step].at = step
        /\ [j EXCEPT !.at = step].code = j.code /\ [j EXCEPT !.at = step].phone = j.phone
    BY ProvedMoved
  <2> QED
    BY <2>1
<1> QED
  BY <1>1, <1>2, Proceeds DEF Proceed

LEMMA FindAccountStep ==
  ASSUME SignInIInv, NEW q \in Request, FindAccount(q)
  PROVE  SignInIInv'
<1>1. AccountsFollow /\ users' = users
  BY AccountsStay DEF FindAccount, accounts
<1>2. job[q] \in ProvedJob
  BY AccountJobFields DEF SignInIInv, FindAccount, At
<1>3. job[q].flow \in CodeFlow
  BY <1>2 DEF ProvedJob
<1>4. CASE users[job[q].phone] = None
  <2>1. Leave(q) \/ Proceed(q, "create")
    BY <1>4 DEF FindAccount
  <2> QED
    BY <1>1, <1>2, <2>1, AccountLeft, ProvedProceeds
<1>5. CASE users[job[q].phone] # None
  <2>1. Leave(q) \/ Proceed(q, "verify") \/ Proceed(q, "gates")
    <3>1. CASE job[q].flow = "register"
      BY <1>5, <3>1 DEF FindAccount
    <3>2. CASE job[q].flow = "signin"
      BY <1>5, <3>2 DEF FindAccount
    <3>3. CASE job[q].flow = "reset"
      BY <1>5, <3>3 DEF FindAccount
    <3> QED
      BY <1>3, <3>1, <3>2, <3>3 DEF CodeFlow
  <2>2. users'[job[q].phone] # None
    BY <1>1, <1>5
  <2> QED
    BY <1>1, <1>2, <2>1, <2>2, AccountLeft, ProvedProceeds
<1> QED
  BY <1>4, <1>5

LEMMA CreateAccountStep ==
  ASSUME SignInIInv, NEW q \in Request, CreateAccount(q)
  PROVE  SignInIInv'
<1>1. PICK j \in ProvedJob : j = job[q]
  BY AccountJobFields DEF SignInIInv, CreateAccount, At
<1>2. PICK p \in Phone : p = j.phone
  BY ProvedMoved
<1>3. UsersOnly
  BY DEF CreateAccount
<1>4. CASE users[p] # None
  <2>1. Leave(q) /\ UNCHANGED accounts
    BY <1>1, <1>2, <1>3, <1>4 DEF CreateAccount, UsersOnly, accounts
  <2> QED
    BY <2>1, AccountsStay, AccountLeft
<1>5. CASE users[p] = None
  <2>1. PICK w \in Password \cup {None} :
          users' = [users EXCEPT ![p] = [status |-> "ACTIVE", password |-> w, verified |-> TRUE]]
    BY <1>1, <1>2, <1>5 DEF CreateAccount
  <2>2. PICK row \in UserRow : row = [status |-> "ACTIVE", password |-> w, verified |-> TRUE]
    BY DEF UserRow
  <2>3. AccountsFollow /\ users'[p] # None
    BY <1>3, <2>1, <2>2, UsersFollow
  <2>4. PICK step \in {"session", "gates"} : Proceed(q, step)
    BY <1>1, <1>2, <1>5 DEF CreateAccount
  <2> QED
    BY <1>1, <1>2, <2>3, <2>4, ProvedProceeds
<1> QED
  BY <1>4, <1>5

LEMMA UserWritten ==
  ASSUME NEW u \in UserRow
  PROVE  [u EXCEPT !.verified = TRUE] \in UserRow /\ \A w \in Password : [u EXCEPT !.password = w] \in UserRow
BY DEF UserRow

\* A phone the request's earlier statements found an account of still has one.
LEMMA HasAccount ==
  ASSUME SignInIInv, NEW q \in Request, job[q].at \in {"verify", "gates", "setPassword", "revokeAll", "session"}
  PROVE  job[q].phone \in Phone /\ users[job[q].phone] \in UserRow /\ users[job[q].phone] # None
<1>1. PICK j \in AccountJobs : j = job[q] /\ AccountKnown(j)
  BY DEF SignInIInv
<1>2. j.phone \in Phone
  BY <1>1, AccountJobFields DEF ProvedJob, PasswordJob, TokenJob, ChangeJob
<1>3. users[j.phone] # None
  BY <1>1 DEF AccountKnown
<1> QED
  BY <1>1, <1>2, <1>3 DEF SignInIInv, SignInTypeOK

LEMMA MarkVerifiedStep ==
  ASSUME SignInIInv, NEW q \in Request, MarkVerified(q)
  PROVE  SignInIInv'
<1>1. job[q] \in ProvedJob /\ job[q].at = "verify"
  BY AccountJobFields DEF SignInIInv, MarkVerified, At
<1>2. PICK p \in Phone : p = job[q].phone /\ users[p] \in UserRow
  BY <1>1, HasAccount
<1>3. PICK row \in UserRow : row = [users[p] EXCEPT !.verified = TRUE]
  BY <1>2, UserWritten
<1>4. UsersOnly /\ users' = [users EXCEPT ![p] = row]
  BY <1>2, <1>3 DEF MarkVerified
<1>5. AccountsFollow /\ users'[p] # None
  BY <1>4, UsersFollow
<1>6. PICK step \in {"revokeAll", "gates"} : Proceed(q, step)
  BY DEF MarkVerified
<1> QED
  BY <1>1, <1>2, <1>5, <1>6, ProvedProceeds

LEMMA PasswordProceeds ==
  ASSUME SignInIInv, NEW q \in Request, NEW r \in PasswordJob, Goto(q, r), AccountsFollow,
         r.at = "done" \/ users'[r.phone] # None
  PROVE  SignInIInv'
<1>1. r \in AccountJobs
  BY DEF AccountJobs
<1>2. r \notin TypedJob /\ r \notin ProvedJob /\ r \notin TokenJob /\ r \notin RotateJob /\ r \notin RotatedJob
  BY JobKinds
<1>3. AccountKnown(r)'
  BY <1>2 DEF AccountKnown
<1> QED
  BY <1>1, <1>2, <1>3, AccountMoves

LEMMA TokenProceeds ==
  ASSUME SignInIInv, NEW q \in Request, NEW r \in TokenJob, Goto(q, r), AccountsFollow,
         users'[r.phone] # None, r.token[1] \in DOMAIN sessions
  PROVE  SignInIInv'
<1>1. r \in AccountJobs
  BY DEF AccountJobs
<1>2. r \notin TypedJob /\ r \notin ProvedJob /\ r \notin RotateJob /\ r \notin RotatedJob
  BY JobKinds
<1>3. AccountKnown(r)'
  BY <1>2 DEF AccountKnown, AccountsFollow
<1> QED
  BY <1>1, <1>2, <1>3, AccountMoves

LEMMA AssertUsableStep ==
  ASSUME SignInIInv, NEW q \in Request, AssertUsable(q)
  PROVE  SignInIInv'
<1>1. AccountsFollow /\ users' = users
  BY AccountsStay DEF AssertUsable, accounts
<1>2. PICK j \in AccountJobs : j = job[q] /\ j.at = "gates" /\ AccountKnown(j)
  BY DEF SignInIInv, AssertUsable, At
<1>3. users'[j.phone] # None
  BY <1>1, <1>2 DEF AccountKnown
<1>4. CASE Leave(q)
  BY <1>1, <1>4, AccountLeft
<1>5. CASE j \in ProvedJob /\ ~ Leave(q)
  <2>1. PICK step \in {"setPassword", "session"} : Proceed(q, step)
    <3>1. j.flow \in CodeFlow
      BY <1>5 DEF ProvedJob
    <3> QED
      BY <1>2, <1>5, <3>1 DEF AssertUsable, CodeFlow
  <2> QED
    BY <1>1, <1>2, <1>3, <1>5, <2>1, ProvedProceeds
<1>6. CASE j \in PasswordJob /\ ~ Leave(q)
  <2>1. Proceed(q, "session")
    <3>1. j.flow = "login"
      BY <1>6 DEF PasswordJob
    <3> QED
      BY <1>2, <1>6, <3>1 DEF AssertUsable
  <2>2. PICK r \in PasswordJob : r = [j EXCEPT !.at = "session"] /\ r.phone = j.phone
    <3>1. [j EXCEPT !.at = "session"] \in PasswordJob /\ [j EXCEPT !.at = "session"].phone = j.phone
      BY <1>6 DEF PasswordJob
    <3> QED
      BY <3>1
  <2> QED
    BY <1>1, <1>2, <1>3, <2>1, <2>2, PasswordProceeds DEF Proceed
<1>7. CASE j \in TokenJob /\ ~ Leave(q)
  <2>1. Proceed(q, "lookup")
    <3>1. j.flow = "refresh"
      BY <1>7 DEF TokenJob
    <3> QED
      BY <1>2, <1>7, <3>1 DEF AssertUsable
  <2>2. PICK r \in TokenJob : r = [j EXCEPT !.at = "lookup"] /\ r.phone = j.phone /\ r.token = j.token
    <3>1. /\ [j EXCEPT !.at = "lookup"] \in TokenJob /\ [j EXCEPT !.at = "lookup"].phone = j.phone
          /\ [j EXCEPT !.at = "lookup"].token = j.token
      BY <1>7 DEF TokenJob
    <3> QED
      BY <3>1
  <2>3. j.token[1] \in DOMAIN sessions
    BY <1>2, <1>7 DEF AccountKnown
  <2> QED
    BY <1>1, <1>2, <1>3, <2>1, <2>2, <2>3, TokenProceeds DEF Proceed
<1> QED
  BY <1>2, <1>4, <1>5, <1>6, <1>7, AccountJobFields

LEMMA LoginStep ==
  ASSUME SignInIInv, NEW q \in Request, NEW p \in Phone, NEW w \in Password, Login(q, p, w)
  PROVE  SignInIInv'
<1>1. AccountsFollow /\ users'[p] # None
  BY AccountsStay DEF Login, accounts
<1>2. PICK r \in PasswordJob : r = [at |-> "gates", flow |-> "login", phone |-> p] /\ r.phone = p
  <2>1. [at |-> "gates", flow |-> "login", phone |-> p] \in PasswordJob
    BY DEF PasswordJob
  <2> QED
    BY <2>1
<1> QED
  BY <1>1, <1>2, PasswordProceeds DEF Login

LEMMA StartSessionStep ==
  ASSUME SignInIInv, NEW q \in Request, StartSession(q)
  PROVE  SignInIInv' /\ SessionsMove
<1>1. PICK j \in ProvedJob \cup PasswordJob : j = job[q] /\ j.at = "session"
  BY AccountJobFields DEF SignInIInv, StartSession, At
<1>2. PICK p \in Phone : p = j.phone /\ users[p] # None
  BY <1>1, HasAccount
<1>3. sessions \in Seq(SessionRow) /\ Len(sessions) <= MaxSessions /\ clock \in Nat
  BY CodeBounds DEF SignInIInv, SignInTypeOK
<1> DEFINE row == [user |-> p, rotation |-> 0, lastUsed |-> clock,
                   expires |-> clock + RefreshLife, ceiling |-> clock + SessionLife, revoked |-> None]
<1>4. row \in SessionRow /\ row.expires <= row.ceiling /\ row.user = p
  <2>1. clock + RefreshLife \in Nat /\ clock + SessionLife \in Nat /\ clock + RefreshLife <= clock + SessionLife
    BY <1>3, SessionLives
  <2> QED
    BY <1>3, <2>1 DEF SessionRow
<1>5. sessions' = Append(sessions, row) /\ Len(sessions) < MaxSessions /\ SessionsOnly /\ Proceed(q, "done")
  BY <1>1, <1>2 DEF StartSession
<1> HIDE DEF row
<1>6. /\ sessions' \in Seq(SessionRow) /\ Len(sessions') = Len(sessions) + 1
      /\ \A s \in DOMAIN sessions : s \in DOMAIN sessions' /\ sessions'[s] = sessions[s]
      /\ \A s \in DOMAIN sessions' : s \in DOMAIN sessions \/ sessions'[s] = row
  BY <1>3, <1>4, <1>5
<1>7. Len(sessions') <= MaxSessions
  BY <1>3, <1>5, <1>6, SessionBound
<1>8. \A s \in DOMAIN sessions : sessions[s].rotation \in Nat
  BY SessionFields
<1>9. SessionsMove
  <2>1. \A s \in DOMAIN sessions' : sessions'[s].expires <= sessions'[s].ceiling /\ users[sessions'[s].user] # None
    BY <1>2, <1>4, <1>6 DEF SignInIInv, SessionsBacked
  <2>2. \A s \in DOMAIN sessions : sessions[s].rotation <= sessions'[s].rotation
    BY <1>6, <1>8
  <2> QED
    BY <1>6, <1>7, <2>1, <2>2 DEF SessionsMove
<1>10. AccountsFollow
  BY <1>5, <1>9, SessionsFollow
<1>11. CASE j \in ProvedJob
  BY <1>1, <1>5, <1>9, <1>10, <1>11, ProvedProceeds
<1>12. CASE j \in PasswordJob
  <2>1. PICK r \in PasswordJob : r = [j EXCEPT !.at = "done"] /\ r.at = "done"
    <3>1. [j EXCEPT !.at = "done"] \in PasswordJob /\ [j EXCEPT !.at = "done"].at = "done"
      BY <1>12 DEF PasswordJob
    <3> QED
      BY <3>1
  <2>2. Goto(q, r)
    BY <1>1, <1>5, <2>1 DEF Proceed
  <2> QED
    BY <1>9, <1>10, <2>1, <2>2, PasswordProceeds
<1> QED
  BY <1>1, <1>9, <1>11, <1>12

LEMMA RefreshStep ==
  ASSUME SignInIInv, NEW q \in Request, NEW s \in DOMAIN sessions, NEW n \in 0..sessions[s].rotation, Refresh(q, s, n)
  PROVE  SignInIInv'
<1>1. AccountsFollow /\ users' = users
  BY AccountsStay DEF Refresh, accounts
<1>2. s \in Nat /\ n \in Nat /\ sessions[s].user \in Phone /\ users[sessions[s].user] # None
  BY SessionFields DEF SignInIInv, SessionsBacked
<1>3. PICK p \in Phone : p = sessions[s].user
  BY <1>2
<1>4. PICK r \in TokenJob : /\ r = [at |-> "gates", flow |-> "refresh", phone |-> p, token |-> <<s, n>>]
                            /\ r.phone = p /\ r.token[1] = s
  <2>1. [at |-> "gates", flow |-> "refresh", phone |-> p, token |-> <<s, n>>] \in TokenJob
    BY <1>2 DEF TokenJob
  <2> QED
    BY <2>1
<1>5. Goto(q, r)
  BY <1>3, <1>4 DEF Refresh
<1> QED
  BY <1>1, <1>2, <1>3, <1>4, <1>5, TokenProceeds

LEMMA RevokeAsked ==
  ASSUME SignInIInv, NEW q \in Request, NEW s \in Nat, NEW reason \in RevocationReason, AccountsFollow,
         Goto(q, [at |-> "revoke", session |-> s, reason |-> reason])
  PROVE  SignInIInv'
<1>1. PICK r \in RevokeJob : r = [at |-> "revoke", session |-> s, reason |-> reason] /\ r.at = "revoke"
  <2>1. [at |-> "revoke", session |-> s, reason |-> reason] \in RevokeJob
    BY DEF RevokeJob
  <2> QED
    BY <2>1
<1>2. r \in AccountJobs
  BY DEF AccountJobs
<1>3. r \notin TypedJob /\ r \notin ProvedJob /\ r \notin TokenJob /\ r \notin RotateJob /\ r \notin RotatedJob
  BY JobKinds
<1>4. AccountKnown(r)'
  BY <1>1, <1>3 DEF AccountKnown
<1> QED
  BY <1>1, <1>2, <1>3, <1>4, AccountMoves

LEMMA FindSessionStep ==
  ASSUME SignInIInv, NEW q \in Request, FindSession(q)
  PROVE  SignInIInv'
<1>1. AccountsFollow /\ sessions' = sessions
  BY AccountsStay DEF FindSession, accounts
<1>2. PICK j \in TokenJob : j = job[q] /\ AccountKnown(j)
  BY AccountJobFields DEF SignInIInv, FindSession, At
<1>3. PICK s \in DOMAIN sessions, n \in Nat : j.token = <<s, n>>
  BY <1>2 DEF TokenJob, AccountKnown
<1>4. s \in Nat /\ sessions[s].ceiling \in Nat /\ sessions[s].expires \in Nat /\ clock \in Nat
  BY SessionFields, CodeBounds DEF SignInIInv, SignInTypeOK
<1>5. \/ Leave(q)
      \/ Goto(q, [at |-> "revoke", session |-> s, reason |-> "EXPIRED"])
      \/ Goto(q, [at |-> "revoke", session |-> s, reason |-> "TOKEN_REUSE_DETECTED"])
      \/ Goto(q, [at |-> "rotate", token |-> <<s, n>>, expires |-> SlidingExpiry(s)])
  <2>1. j.token[1] = s /\ j.token[2] = n
    BY <1>3
  <2>2. CASE ~ Live(s)
    BY <1>2, <2>1, <2>2 DEF FindSession
  <2>3. CASE Live(s) /\ sessions[s].ceiling <= clock
    BY <1>2, <2>1, <2>3 DEF FindSession
  <2>4. CASE Live(s) /\ sessions[s].ceiling > clock /\ sessions[s].expires <= clock
    BY <1>2, <1>4, <2>1, <2>4 DEF FindSession
  <2>5. CASE Live(s) /\ sessions[s].ceiling > clock /\ ~ (sessions[s].expires <= clock)
    BY <1>2, <1>3, <1>4, <2>1, <2>5 DEF FindSession
  <2> QED
    BY <1>4, <2>2, <2>3, <2>4, <2>5
<1>6. CASE Goto(q, [at |-> "rotate", token |-> <<s, n>>, expires |-> SlidingExpiry(s)])
  <2>1. PICK e \in Nat : e = SlidingExpiry(s) /\ e <= sessions[s].ceiling
    <3>1. SlidingExpiry(s) \in Nat /\ SlidingExpiry(s) <= sessions[s].ceiling
      BY <1>4, SessionLives DEF SlidingExpiry
    <3> QED
      BY <3>1
  <2>2. PICK r \in RotateJob : /\ r = [at |-> "rotate", token |-> <<s, n>>, expires |-> e]
                               /\ r.at = "rotate" /\ r.token[1] = s /\ r.expires = e
    <3>1. [at |-> "rotate", token |-> <<s, n>>, expires |-> e] \in RotateJob
      BY <1>4 DEF RotateJob
    <3> QED
      BY <3>1
  <2>3. r \in AccountJobs
    BY DEF AccountJobs
  <2>4. r \notin TypedJob /\ r \notin ProvedJob /\ r \notin TokenJob /\ r \notin RotatedJob
    BY JobKinds
  <2>5. AccountKnown(r)'
    BY <1>1, <2>1, <2>2, <2>4 DEF AccountKnown
  <2> QED
    BY <1>1, <1>6, <2>1, <2>2, <2>3, <2>4, <2>5, AccountMoves
<1>7. {"EXPIRED", "TOKEN_REUSE_DETECTED"} \subseteq RevocationReason
  BY DEF RevocationReason
<1> QED
  BY <1>1, <1>4, <1>5, <1>6, <1>7, AccountLeft, RevokeAsked

\* Only the holder of the stored rotation exchanges it, and only while it lives.
LEMMA RotateStep ==
  ASSUME SignInIInv, NEW q \in Request, Rotate(q)
  PROVE  SignInIInv' /\ SessionsMove
<1>1. PICK j \in RotateJob : j = job[q] /\ AccountKnown(j)
  BY AccountJobFields DEF SignInIInv, Rotate, At
<1>2. PICK s \in DOMAIN sessions, n \in Nat, e \in Nat :
        j.token = <<s, n>> /\ j.expires = e /\ e <= sessions[s].ceiling
  BY <1>1 DEF RotateJob, AccountKnown
<1>3. sessions \in Seq(SessionRow) /\ Len(sessions) <= MaxSessions /\ clock \in Nat
  BY CodeBounds DEF SignInIInv, SignInTypeOK
<1>4. \A t \in DOMAIN sessions : sessions[t] \in SessionRow /\ t \in Nat /\ sessions[t].rotation \in Nat
  BY SessionFields
<1>5. SessionsOnly
  BY DEF Rotate
<1> DEFINE new == [sessions[s] EXCEPT !.rotation = sessions[s].rotation + 1, !.lastUsed = clock, !.expires = e]
<1>6. \/ Leave(q) /\ sessions' = sessions
      \/ /\ sessions[s].rotation = n /\ Live(s) /\ sessions' = [sessions EXCEPT ![s] = new]
         /\ Goto(q, [at |-> "done", token |-> <<s, n>>])
  <2>1. j.token[1] = s /\ j.token[2] = n
    BY <1>2
  <2>2. [sessions EXCEPT ![s].rotation = @ + 1, ![s].lastUsed = clock, ![s].expires = e] = [sessions EXCEPT ![s] = new]
    BY <1>3
  <2> QED
    BY <1>1, <1>2, <2>1, <2>2 DEF Rotate, rotatable
<1>7. /\ new \in SessionRow /\ new.user = sessions[s].user /\ new.ceiling = sessions[s].ceiling
      /\ new.rotation = sessions[s].rotation + 1 /\ new.expires = e
  <2>1. PICK row \in SessionRow : row = sessions[s] /\ row.rotation + 1 \in Nat
    BY <1>4
  <2>2. new = [row EXCEPT !.rotation = row.rotation + 1, !.lastUsed = clock, !.expires = e]
    BY <2>1
  <2>3. PICK up \in Nat : up = row.rotation + 1
    BY <2>1
  <2> HIDE DEF new
  <2>4. new = [row EXCEPT !.rotation = up, !.lastUsed = clock, !.expires = e]
    BY <2>2, <2>3
  <2>5. /\ new \in SessionRow /\ new.user = row.user /\ new.ceiling = row.ceiling
        /\ new.rotation = up /\ new.expires = e
    BY <1>3, <2>4 DEF SessionRow
  <2> QED
    BY <2>1, <2>3, <2>5
<1> HIDE DEF new
<1>8. CASE Leave(q) /\ sessions' = sessions
  <2>1. SessionsMove
    BY <1>3, <1>4, <1>8 DEF SessionsMove, SignInIInv, SessionsBacked
  <2> QED
    BY <1>5, <1>8, <2>1, SessionsFollow, AccountLeft
<1>9. CASE /\ sessions[s].rotation = n /\ Live(s) /\ sessions' = [sessions EXCEPT ![s] = new]
           /\ Goto(q, [at |-> "done", token |-> <<s, n>>])
  <2>1. /\ sessions' \in Seq(SessionRow) /\ Len(sessions') = Len(sessions) /\ DOMAIN sessions' = DOMAIN sessions
        /\ \A t \in DOMAIN sessions : sessions'[t] = IF t = s THEN new ELSE sessions[t]
    BY <1>3, <1>7, <1>9
  <2>2. SessionsMove
    <3>1. \A t \in DOMAIN sessions : /\ sessions'[t].ceiling = sessions[t].ceiling
                                     /\ sessions[t].rotation <= sessions'[t].rotation
                                     /\ ~Live(t) => sessions'[t] = sessions[t]
      BY <1>4, <1>7, <1>9, <2>1
    <3>2. \A t \in DOMAIN sessions : sessions'[t].expires <= sessions'[t].ceiling /\ users[sessions'[t].user] # None
      BY <1>2, <1>7, <2>1 DEF SignInIInv, SessionsBacked
    <3> QED
      BY <1>3, <2>1, <3>1, <3>2 DEF SessionsMove
  <2>3. AccountsFollow
    BY <1>5, <2>2, SessionsFollow
  <2>4. PICK r \in RotatedJob : /\ r = [at |-> "done", token |-> <<s, n>>]
                                /\ r.at = "done" /\ r.token[1] = s /\ r.token[2] = n
    <3>1. [at |-> "done", token |-> <<s, n>>] \in RotatedJob
      BY <1>4 DEF RotatedJob
    <3> QED
      BY <3>1
  <2>5. r \in AccountJobs
    BY DEF AccountJobs
  <2>6. r \notin TypedJob /\ r \notin ProvedJob /\ r \notin TokenJob /\ r \notin RotateJob
    BY JobKinds
  <2>7. n < sessions'[s].rotation
    BY <1>7, <1>9, <2>1
  <2>8. AccountKnown(r)'
    BY <2>1, <2>4, <2>6, <2>7 DEF AccountKnown
  <2> QED
    BY <1>9, <2>2, <2>3, <2>4, <2>5, <2>6, <2>8, AccountMoves
<1> QED
  BY <1>6, <1>8, <1>9

\* Sessions end: those a revocation names, unless they had ended before.
LEMMA SessionsEnd ==
  ASSUME SignInIInv, SessionsOnly, NEW rows, sessions' = rows, NEW reason \in RevocationReason,
         DOMAIN rows = DOMAIN sessions, rows = [s \in DOMAIN sessions |-> rows[s]],
         \A s \in DOMAIN sessions : rows[s] = sessions[s] \/ (Live(s) /\ rows[s] = [sessions[s] EXCEPT !.revoked = reason])
  PROVE  AccountsFollow /\ SessionsMove
<1>1. sessions \in Seq(SessionRow) /\ Len(sessions) <= MaxSessions
  BY DEF SignInIInv, SignInTypeOK
<1>2. ASSUME NEW s \in DOMAIN sessions
      PROVE  /\ rows[s] \in SessionRow /\ rows[s].user = sessions[s].user /\ rows[s].ceiling = sessions[s].ceiling
             /\ rows[s].expires = sessions[s].expires /\ rows[s].rotation = sessions[s].rotation
             /\ ~Live(s) => rows[s] = sessions[s]
  <2>1. PICK row \in SessionRow : row = sessions[s]
    BY SessionFields
  <2>2. rows[s] = row \/ (Live(s) /\ rows[s] = [row EXCEPT !.revoked = reason])
    BY <2>1
  <2> QED
    BY <2>1, <2>2 DEF SessionRow
<1>3. rows \in Seq(SessionRow) /\ Len(rows) = Len(sessions)
  BY <1>1, <1>2, TableRewritten
<1>4. \A s \in DOMAIN sessions : sessions[s].rotation <= rows[s].rotation
  <2>1. \A s \in DOMAIN sessions : sessions[s].rotation \in Nat
    BY SessionFields
  <2> QED
    BY <1>2, <2>1
<1>5. SessionsMove
  BY <1>1, <1>2, <1>3, <1>4 DEF SessionsMove, SignInIInv, SessionsBacked
<1> QED
  BY <1>5, SessionsFollow

LEMMA RevokedRows ==
  ASSUME SignInIInv, SessionsOnly, NEW user, NEW reason \in RevocationReason, NEW except,
         sessions' = revokeAllForUser(user, reason, except)
  PROVE  AccountsFollow /\ SessionsMove
<1> DEFINE rows == revokeAllForUser(user, reason, except)
<1>1. DOMAIN rows = DOMAIN sessions /\ rows = [s \in DOMAIN sessions |-> rows[s]]
  BY DEF revokeAllForUser
<1>2. \A s \in DOMAIN sessions : rows[s] = sessions[s] \/ (Live(s) /\ rows[s] = [sessions[s] EXCEPT !.revoked = reason])
  BY DEF revokeAllForUser
<1>3. sessions' = rows
  OBVIOUS
<1> HIDE DEF rows
<1> QED
  BY <1>1, <1>2, <1>3, SessionsEnd

LEMMA RevokeOneStep ==
  ASSUME SignInIInv, NEW q \in Request, RevokeOne(q)
  PROVE  SignInIInv' /\ SessionsMove
<1>1. PICK j \in RevokeJob : j = job[q]
  BY AccountJobFields DEF SignInIInv, RevokeOne, At
<1>2. PICK reason \in RevocationReason : reason = j.reason
  BY DEF RevokeJob
<1>3. Leave(q) /\ SessionsOnly /\ sessions' = revokeById(j.session, reason)
  BY <1>1, <1>2 DEF RevokeOne
<1> DEFINE rows == revokeById(j.session, reason)
<1>4. sessions \in Seq(SessionRow)
  BY DEF SignInIInv, SignInTypeOK
<1>5. DOMAIN rows = DOMAIN sessions /\ rows = [s \in DOMAIN sessions |-> rows[s]]
  BY <1>4 DEF revokeById
<1>6. ASSUME NEW s \in DOMAIN sessions
      PROVE  rows[s] = sessions[s] \/ (Live(s) /\ rows[s] = [sessions[s] EXCEPT !.revoked = reason])
  <2>1. CASE s = j.session
    <3>1. PICK row \in SessionRow : row = sessions[s]
      BY SessionFields
    <3>2. rows[s] = [row EXCEPT !.revoked = IF row.revoked = None THEN reason ELSE row.revoked]
      BY <1>4, <2>1, <3>1 DEF revokeById
    <3>3. row.revoked # None => [row EXCEPT !.revoked = row.revoked] = row
      BY DEF SessionRow
    <3> QED
      BY <3>1, <3>2, <3>3 DEF Live
  <2>2. CASE s # j.session
    BY <1>4, <2>2 DEF revokeById
  <2> QED
    BY <2>1, <2>2
<1> HIDE DEF rows
<1>7. AccountsFollow /\ SessionsMove
  BY <1>3, <1>5, <1>6, SessionsEnd DEF rows
<1> QED
  BY <1>3, <1>7, AccountLeft

LEMMA LogoutStep ==
  ASSUME SignInIInv, NEW q \in Request, NEW s \in DOMAIN sessions, Logout(q, s)
  PROVE  SignInIInv'
<1>1. AccountsFollow /\ s \in Nat
  BY AccountsStay, SessionFields DEF Logout, accounts
<1>2. PICK reason \in RevocationReason : Goto(q, [at |-> "revoke", session |-> s, reason |-> reason])
  BY DEF Logout, RevocationReason
<1> QED
  BY <1>1, <1>2, RevokeAsked

LEMMA LogoutAllStep ==
  ASSUME SignInIInv, NEW q \in Request, NEW s \in DOMAIN sessions, LogoutAll(q, s)
  PROVE  SignInIInv' /\ SessionsMove
<1>1. "LOGOUT_ALL" \in RevocationReason
  BY DEF RevocationReason
<1>2. AccountsFollow /\ SessionsMove
  BY <1>1, RevokedRows DEF LogoutAll
<1> QED
  BY <1>2, AccountLeft DEF LogoutAll

LEMMA ChangeProceeds ==
  ASSUME SignInIInv, NEW q \in Request, NEW r \in ChangeJob, Goto(q, r), AccountsFollow, users'[r.phone] # None
  PROVE  SignInIInv'
<1>1. r \in AccountJobs
  BY DEF AccountJobs
<1>2. r \notin TypedJob /\ r \notin ProvedJob /\ r \notin TokenJob /\ r \notin RotateJob /\ r \notin RotatedJob
  BY JobKinds
<1>3. AccountKnown(r)'
  BY <1>2 DEF AccountKnown
<1> QED
  BY <1>1, <1>2, <1>3, AccountMoves

LEMMA ChangePasswordStep ==
  ASSUME SignInIInv, NEW q \in Request, NEW s \in DOMAIN sessions, NEW w \in Password, ChangePassword(q, s, w)
  PROVE  SignInIInv'
<1>1. AccountsFollow /\ users' = users
  BY AccountsStay DEF ChangePassword, accounts
<1>2. PICK p \in Phone : p = sessions[s].user /\ users[p] # None /\ s \in Nat
  BY SessionFields DEF SignInIInv, SessionsBacked
<1>3. PICK r \in ChangeJob : r = [at |-> "setPassword", flow |-> "change", phone |-> p, keep |-> s] /\ r.phone = p
  <2>1. [at |-> "setPassword", flow |-> "change", phone |-> p, keep |-> s] \in ChangeJob
    BY <1>2 DEF ChangeJob
  <2> QED
    BY <2>1
<1>4. Goto(q, r)
  BY <1>2, <1>3 DEF ChangePassword
<1> QED
  BY <1>1, <1>2, <1>3, <1>4, ChangeProceeds

LEMMA SetPasswordStep ==
  ASSUME SignInIInv, NEW q \in Request, SetPassword(q)
  PROVE  SignInIInv'
<1>1. PICK j \in ProvedJob \cup ChangeJob : j = job[q] /\ j.at = "setPassword"
  BY AccountJobFields DEF SignInIInv, SetPassword, At
<1>2. PICK p \in Phone : p = j.phone /\ users[p] \in UserRow
  BY <1>1, HasAccount
<1>3. PICK w \in Password : users' = [users EXCEPT ![p].password = w]
  BY <1>1, <1>2 DEF SetPassword
<1>4. PICK row \in UserRow : row = [users[p] EXCEPT !.password = w]
  BY <1>2, UserWritten
<1>5. UsersOnly /\ users' = [users EXCEPT ![p] = row]
  BY <1>3, <1>4 DEF SetPassword
<1>6. AccountsFollow /\ users'[p] # None
  BY <1>5, UsersFollow
<1>7. CASE j \in ProvedJob
  <2>1. PICK step \in {"verify", "revokeAll"} : Proceed(q, step)
    BY DEF SetPassword
  <2> QED
    BY <1>1, <1>2, <1>6, <1>7, <2>1, ProvedProceeds
<1>8. CASE j \in ChangeJob
  <2>1. Proceed(q, "revokeAll")
    <3>1. j.flow = "change"
      BY <1>8 DEF ChangeJob
    <3> QED
      BY <1>1, <3>1 DEF SetPassword
  <2>2. PICK r \in ChangeJob : r = [j EXCEPT !.at = "revokeAll"] /\ r.phone = p
    <3>1. [j EXCEPT !.at = "revokeAll"] \in ChangeJob /\ [j EXCEPT !.at = "revokeAll"].phone = j.phone
      BY <1>8 DEF ChangeJob
    <3> QED
      BY <1>2, <3>1
  <2> QED
    BY <1>1, <1>6, <2>1, <2>2, ChangeProceeds DEF Proceed
<1> QED
  BY <1>1, <1>7, <1>8

LEMMA RevokeAllStep ==
  ASSUME SignInIInv, NEW q \in Request, RevokeAll(q)
  PROVE  SignInIInv' /\ SessionsMove
<1>1. PICK j \in ProvedJob \cup ChangeJob : j = job[q] /\ j.at = "revokeAll"
  BY AccountJobFields DEF SignInIInv, RevokeAll, At
<1>2. "PASSWORD_CHANGED" \in RevocationReason /\ SessionsOnly /\ users' = users
  BY DEF RevocationReason, RevokeAll, SessionsOnly
<1>3. AccountsFollow /\ SessionsMove
  BY <1>2, RevokedRows DEF RevokeAll
<1>4. CASE Leave(q)
  BY <1>3, <1>4, AccountLeft
<1>5. CASE ~ Leave(q)
  <2>1. Proceed(q, "session") /\ j.flow # "change"
    BY <1>1, <1>5 DEF RevokeAll
  <2>2. j \in ProvedJob
    BY <1>1, <2>1 DEF ChangeJob
  <2>3. users'[j.phone] # None
    BY <1>1, <1>2, HasAccount
  <2> QED
    BY <1>1, <1>3, <2>1, <2>2, <2>3, ProvedProceeds
<1> QED
  BY <1>4, <1>5

LEMMA SignInInitIInv == RequestsInit /\ SignInInit => SignInIInv
<1> SUFFICES ASSUME RequestsInit, SignInInit PROVE SignInIInv
  OBVIOUS
<1>1. clock \in 0..MaxTime /\ clock = 0
  BY CodeBounds DEF SignInInit
<1>2. challenges \in Seq(ChallengeRow) /\ Len(challenges) <= MaxChallenges
  <2>1. CASE challenges = << >>
    BY <2>1, CodeBounds
  <2>2. CASE challenges # << >>
    <3>1. PICK p \in Phone, u \in Purpose :
            challenges = <<[phone |-> p, purpose |-> u, born |-> 0, expires |-> OtpTtl, attempts |-> 0,
                            resends |-> 0, consumed |-> FALSE]>>
      BY <2>2 DEF SignInInit
    <3>2. PICK row \in ChallengeRow : row = [phone |-> p, purpose |-> u, born |-> 0, expires |-> OtpTtl, attempts |-> 0,
                                             resends |-> 0, consumed |-> FALSE]
      <4>1. OtpTtl \in Nat /\ 0 \in 0..MaxTime /\ 0 \in 0..MaxAttempts
        BY CodeLimits, CodeBounds
      <4>2. [phone |-> p, purpose |-> u, born |-> 0, expires |-> OtpTtl, attempts |-> 0,
             resends |-> 0, consumed |-> FALSE] \in ChallengeRow
        BY <4>1 DEF ChallengeRow
      <4> QED
        BY <4>2
    <3>3. challenges = <<row>>
      BY <3>1, <3>2
    <3> QED
      BY <3>3, CodeBounds
  <2> QED
    BY <2>1, <2>2
<1>3. users \in [Phone -> UserRow \cup {None}]
  <2>1. \A t \in {"ACTIVE", "BLOCKED"}, w \in Password : [status |-> t, password |-> w, verified |-> TRUE] \in UserRow
    BY DEF UserRow
  <2> QED
    BY <2>1 DEF SignInInit
<1>4. sessions \in Seq(SessionRow) /\ Len(sessions) <= MaxSessions /\ SessionsBacked
  <2>1. CASE sessions = << >>
    BY <2>1, SessionBound DEF SessionsBacked
  <2>2. CASE sessions # << >>
    <3>1. PICK p \in Phone : users[p] # None /\ sessions = <<NewSession(p)>>
      BY <2>2 DEF SignInInit
    <3>2. PICK row \in SessionRow : row = NewSession(p) /\ row.expires <= row.ceiling /\ row.user = p
      <4>1. RefreshLife \in Nat /\ SessionLife \in Nat /\ RefreshLife <= SessionLife
        BY SessionLives
      <4>2. NewSession(p) \in SessionRow /\ NewSession(p).expires <= NewSession(p).ceiling /\ NewSession(p).user = p
        BY <4>1 DEF NewSession, SessionRow
      <4> QED
        BY <4>2
    <3>3. sessions = <<row>>
      BY <3>1, <3>2
    <3>4. sessions \in Seq(SessionRow) /\ Len(sessions) = 1 /\ \A s \in DOMAIN sessions : sessions[s] = row
      BY <3>3
    <3> QED
      BY <3>1, <3>2, <3>4, SessionBound DEF SessionsBacked
  <2> QED
    BY <2>1, <2>2
<1>5. PICK r \in [at : {"new", "left"}] : r = [at |-> "new"] /\ r.at = "new"
  <2>1. [at |-> "new"] \in [at : {"new", "left"}] /\ [at |-> "new"].at = "new"
    OBVIOUS
  <2> QED
    BY <2>1
<1>6. job \in [Request -> AccountJobs] /\ \A q \in Request : job[q] = r
  BY <1>5 DEF RequestsInit, AccountJobs
<1>7. AccountKnown(r) /\ r \notin ProvedJob /\ r \notin RotatedJob
  BY <1>5, JobKinds DEF AccountKnown
<1>8. SpentApart /\ \A q \in Request : AccountKnown(job[q])
  BY <1>6, <1>7 DEF SpentApart
<1> QED
  BY <1>1, <1>2, <1>3, <1>4, <1>6, <1>8 DEF SignInIInv, SignInTypeOK

\* Nothing that is kept depends on the time.
LEMMA TickStep ==
  ASSUME SignInIInv, UNCHANGED <<challenges, users, sessions, job>>, clock' \in 0..MaxTime
  PROVE  SignInIInv'
<1>1. SignInTypeOK' /\ SessionsBacked' /\ SpentApart'
  BY DEF SignInIInv, SignInTypeOK, SessionsBacked, SpentApart
<1>2. \A q \in Request : AccountKnown(job[q])'
  BY DEF SignInIInv, AccountKnown
<1> QED
  BY <1>1, <1>2 DEF SignInIInv

LEMMA SessionsRest ==
  ASSUME SignInIInv, sessions' = sessions
  PROVE  SessionsMove
<1>1. \A s \in DOMAIN sessions : sessions[s].rotation \in Nat
  BY SessionFields
<1> QED
  BY <1>1 DEF SignInIInv, SignInTypeOK, SessionsBacked, SessionsMove

LEMMA AccountStep ==
  ASSUME SignInIInv, NEW q \in Request, SignInNext(q)
  PROVE  SignInIInv' /\ SessionsMove
<1>1. CASE CodesNext(q) /\ CodesOnly
  <2>1. SignInIInv'
    BY <1>1, SendStep, ConsumeStep DEF CodesNext
  <2> QED
    BY <1>1, <2>1, SessionsRest DEF CodesOnly
<1>2. ASSUME NEW p \in Phone, NEW c, Register(q, p, c) \/ ResetPassword(q, p, c) \/ \E u \in Purpose : SignInWithCode(q, p, u, c)
      PROVE  SignInIInv' /\ SessionsMove
  <2>1. PICK flow \in CodeFlow, u \in Purpose : FindForVerify(q, flow, p, u, c) /\ CodesOnly
    BY <1>2 DEF Register, ResetPassword, SignInWithCode, CodeFlow, Purpose
  <2>2. SignInIInv'
    BY <2>1, TypeCodeStep
  <2> QED
    BY <2>1, <2>2, SessionsRest DEF CodesOnly
<1>3. CASE FindAccount(q) \/ CreateAccount(q) \/ MarkVerified(q) \/ AssertUsable(q)
  <2>1. sessions' = sessions
    BY <1>3 DEF FindAccount, CreateAccount, MarkVerified, AssertUsable, accounts, UsersOnly
  <2> QED
    BY <1>3, <2>1, SessionsRest, FindAccountStep, CreateAccountStep, MarkVerifiedStep, AssertUsableStep
<1>4. ASSUME NEW p \in Phone, NEW w \in Password, Login(q, p, w) PROVE SignInIInv' /\ SessionsMove
  BY <1>4, LoginStep, SessionsRest DEF Login, accounts
<1>5. ASSUME NEW s \in DOMAIN sessions, NEW n \in 0..sessions[s].rotation, Refresh(q, s, n)
      PROVE  SignInIInv' /\ SessionsMove
  BY <1>5, RefreshStep, SessionsRest DEF Refresh, accounts
<1>6. CASE FindSession(q)
  BY <1>6, FindSessionStep, SessionsRest DEF FindSession, accounts
<1>7. CASE StartSession(q) \/ Rotate(q) \/ RevokeOne(q) \/ RevokeAll(q)
  BY <1>7, StartSessionStep, RotateStep, RevokeOneStep, RevokeAllStep
<1>8. ASSUME NEW s \in DOMAIN sessions, Logout(q, s) \/ LogoutAll(q, s) PROVE SignInIInv' /\ SessionsMove
  <2>1. CASE Logout(q, s)
    BY <2>1, LogoutStep, SessionsRest DEF Logout, accounts
  <2>2. CASE LogoutAll(q, s)
    BY <2>2, LogoutAllStep
  <2> QED
    BY <1>8, <2>1, <2>2
<1>9. ASSUME NEW s \in DOMAIN sessions, NEW w \in Password, ChangePassword(q, s, w) PROVE SignInIInv' /\ SessionsMove
  BY <1>9, ChangePasswordStep, SessionsRest DEF ChangePassword, accounts
<1>10. CASE SetPassword(q)
  BY <1>10, SetPasswordStep, SessionsRest DEF SetPassword, UsersOnly
<1> QED
  BY <1>1, <1>2, <1>3, <1>4, <1>5, <1>6, <1>7, <1>8, <1>9, <1>10 DEF SignInNext

LEMMA SignInStep ==
  ASSUME SignInIInv, [(\E q \in Request : SignInNext(q)) \/ (Tick /\ CodesOnly)]_<<job, accounts>>
  PROVE  SignInIInv' /\ SessionsMove
<1>1. ASSUME NEW q \in Request, SignInNext(q) PROVE SignInIInv' /\ SessionsMove
  BY <1>1, AccountStep
<1>2. CASE Tick /\ CodesOnly
  <2>1. clock' \in 0..MaxTime
    BY <1>2, CodeBounds DEF Tick, SignInIInv, SignInTypeOK
  <2> QED
    BY <1>2, <2>1, TickStep, SessionsRest DEF Tick, CodesOnly
<1>3. CASE UNCHANGED <<job, accounts>>
  <2>1. clock' \in 0..MaxTime
    BY <1>3 DEF accounts, SignInIInv, SignInTypeOK
  <2> QED
    BY <1>3, <2>1, TickStep, SessionsRest DEF accounts
<1> QED
  BY <1>1, <1>2, <1>3

LEMMA SignInInvariance == SignInSpec => []SignInIInv
<1>1. RequestsInit /\ SignInInit => SignInIInv
  BY SignInInitIInv
<1>2. SignInIInv /\ [(\E q \in Request : SignInNext(q)) \/ (Tick /\ CodesOnly)]_<<job, accounts>> => SignInIInv'
  BY SignInStep
<1> QED
  BY <1>1, <1>2, PTL DEF SignInSpec

\* Codes, accounts and sessions keep their shape: no attempt is counted past the
\* limit, and no statement writes to a row its request has not read.
THEOREM SignInTypeCorrect == SignInSpec => []SignInTypeOK
BY SignInInvariance, PTL DEF SignInIInv

\* However many requests read the same live code or present the same refresh
\* token, one of them proves the phone or gets the next token.
THEOREM CredentialsAreSpentOnce == SignInSpec => []CredentialsSpentOnce
<1>1. SignInIInv => CredentialsSpentOnce
  <2> SUFFICES ASSUME SignInIInv PROVE CredentialsSpentOnce
    OBVIOUS
  <2>1. ASSUME NEW r \in AccountJobs
        PROVE  /\ r.at = "proved" \/ ("code" \in DOMAIN r /\ r.at \notin {"match", "mismatch", "spent"}) => r \in ProvedJob
               /\ r.at = "done" /\ "token" \in DOMAIN r => r \in RotatedJob
    <3>1. CASE r \in [at : {"new", "left"}] \cup SendJob \cup TypedJob
      BY <3>1 DEF SendJob, TypedJob
    <3>2. CASE r \in ProvedJob
      BY <3>2 DEF ProvedJob
    <3>3. CASE r \in PasswordJob \cup ChangeJob
      BY <3>3 DEF PasswordJob, ChangeJob
    <3>4. CASE r \in TokenJob \cup RotateJob
      BY <3>4 DEF TokenJob, RotateJob
    <3>5. CASE r \in RevokeJob
      BY <3>5 DEF RevokeJob
    <3>6. CASE r \in RotatedJob
      BY <3>6 DEF RotatedJob
    <3> QED
      BY <3>1, <3>2, <3>3, <3>4, <3>5, <3>6 DEF AccountJobs
  <2>2. \A q \in Request : (Proved(q) => job[q] \in ProvedJob) /\ (Refreshed(q) => job[q] \in RotatedJob)
    BY <2>1 DEF SignInIInv, Proved, Refreshed, At
  <2> QED
    BY <2>2 DEF SignInIInv, SpentApart, CredentialsSpentOnce
<1> QED
  BY <1>1, SignInInvariance, PTL

\* Logout, password change, reuse of a token and expiry race the rotation: a
\* session that was revoked keeps the first reason and is never extended.
THEOREM RevokedForGood == SignInSpec => RevocationIsFinal
<1>1. SignInIInv /\ [(\E q \in Request : SignInNext(q)) \/ (Tick /\ CodesOnly)]_<<job, accounts>>
        => [\A s \in DOMAIN sessions :
              /\ ~Live(s) => sessions'[s] = sessions[s]
              /\ sessions'[s].expires <= sessions[s].ceiling]_sessions
  <2> SUFFICES ASSUME SignInIInv, [(\E q \in Request : SignInNext(q)) \/ (Tick /\ CodesOnly)]_<<job, accounts>>
               PROVE  \A s \in DOMAIN sessions :
                        /\ ~Live(s) => sessions'[s] = sessions[s]
                        /\ sessions'[s].expires <= sessions[s].ceiling
    OBVIOUS
  <2>1. SessionsMove
    BY SignInStep
  <2> QED
    BY <2>1 DEF SessionsMove
<1> QED
  BY <1>1, SignInInvariance, PTL DEF SignInSpec, RevocationIsFinal

-----------------------------------------------------------------------------
(* Idempotency keys (BR-803): a key's row is the mutex of its runs and, once *)
(* completed, the only answer there is.                                      *)

\* OneRunCounts and the promise of OneAnswer follow from these.
CallsIInv ==
  /\ IdempotencyTypeOK
  /\ OwnerHoldsRow
  /\ AnsweredAsStored
  /\ StoredForItsBody
  /\ StoresItsBody

-----------------------------------------------------------------------------
LEMMA CallsInitIInv == IdempotencyInit => CallsIInv
<1> SUFFICES ASSUME IdempotencyInit PROVE CallsIInv
  OBVIOUS
<1>1. IdempotencyTypeOK
  BY DEF IdempotencyInit, IdempotencyTypeOK, Call, Step
<1>2. \A q \in Client : calls[q].at = "new"
  BY DEF IdempotencyInit
<1>3. OwnerHoldsRow /\ AnsweredAsStored /\ StoresItsBody
  BY <1>2 DEF OwnerHoldsRow, AnsweredAsStored, StoresItsBody, Owning
<1>4. StoredForItsBody
  BY DEF IdempotencyInit, StoredForItsBody
<1> QED
  BY <1>1, <1>3, <1>4 DEF CallsIInv

\* One statement of a request keeps the types.
LEMMA CallsTypeStep ==
  ASSUME CallsIInv, NEW q \in Client, IdempotencyNext(q)
  PROVE  IdempotencyTypeOK'
<1> USE DEF CallsIInv, IdempotencyTypeOK, Goes
<1>1. CASE Claim(q)
  BY <1>1 DEF Claim, KeyRow, Call, Step
<1>2. CASE FindClaimed(q)
  BY <1>2 DEF FindClaimed, KeyRow, Call, Step
<1>3. CASE RunOperation(q)
  BY <1>3 DEF RunOperation, Answer, Call, Step
<1>4. CASE StoreAnswer(q)
  <2>1. /\ keys[calls[q].key] \in KeyRow
        /\ calls[q].answer \in Answer
    BY <1>4 DEF StoreAnswer, OwnerHoldsRow, StoresItsBody, Owning, Call
  <2> QED
    BY <1>4, <2>1 DEF StoreAnswer, KeyRow, Call, Step
<1>5. CASE StoreFails(q)
  BY <1>5 DEF StoreFails, Call, Step
<1>6. CASE ReleaseKey(q)
  BY <1>6 DEF ReleaseKey, Call, Step
<1>7. CASE ReleaseFails(q)
  BY <1>7 DEF ReleaseFails, Call, Step
<1> QED
  BY <1>1, <1>2, <1>3, <1>4, <1>5, <1>6, <1>7 DEF IdempotencyNext

\* What a statement of q does to its key's row and to q; the rest stays.
LEMMA OnlyItsRow ==
  ASSUME IdempotencyTypeOK, NEW q \in Client, IdempotencyNext(q)
  PROVE  /\ \A r \in Client : r # q => calls'[r] = calls[r]
         /\ \A k \in Key : k # calls[q].key => keys'[k] = keys[k]
         /\ calls'[q].key = calls[q].key /\ calls'[q].body = calls[q].body
<1> USE DEF IdempotencyTypeOK, Call, Goes
<1>1. CASE Claim(q)
  BY <1>1 DEF Claim
<1>2. CASE FindClaimed(q)
  BY <1>2 DEF FindClaimed
<1>3. CASE RunOperation(q)
  BY <1>3 DEF RunOperation
<1>4. CASE StoreAnswer(q)
  BY <1>4 DEF StoreAnswer
<1>5. CASE StoreFails(q)
  BY <1>5 DEF StoreFails
<1>6. CASE ReleaseKey(q)
  BY <1>6 DEF ReleaseKey
<1>7. CASE ReleaseFails(q)
  BY <1>7 DEF ReleaseFails
<1> QED
  BY <1>1, <1>2, <1>3, <1>4, <1>5, <1>6, <1>7 DEF IdempotencyNext

\* The row's mutual exclusion: while a request owns its key's row, no other does.
LEMMA OneOwner ==
  ASSUME CallsIInv, NEW q \in Client, NEW r \in Client,
         calls[q].at \in Owning, calls[r].at \in Owning, calls[q].key = calls[r].key
  PROVE  q = r
BY DEF CallsIInv, OwnerHoldsRow

LEMMA CallsStep ==
  ASSUME CallsIInv, NEW q \in Client, IdempotencyNext(q)
  PROVE  CallsIInv'
<1> DEFINE k == calls[q].key
<1> USE DEF CallsIInv
<1>1. IdempotencyTypeOK'
  BY CallsTypeStep
<1>2. /\ \A r \in Client : r # q => calls'[r] = calls[r]
      /\ \A j \in Key : j # k => keys'[j] = keys[j]
      /\ calls'[q].key = k /\ calls'[q].body = calls[q].body
  BY OnlyItsRow
<1>3. k \in Key /\ \A r \in Client : calls[r].key \in Key
  BY DEF IdempotencyTypeOK, Call
<1>4. CASE Claim(q)
  <2>1. CASE keys[k] = Nothing
    <3>1. /\ keys'[k] = [by |-> q, body |-> calls[q].body, state |-> "IN_PROGRESS", answer |-> Nothing]
          /\ calls'[q].at = "run"
      BY <1>4, <2>1, <1>3 DEF Claim, Goes, IdempotencyTypeOK, Call
    <3>2. keys'[k] # Nothing
      <4>1. keys'[k] \in KeyRow
        BY <1>3, <3>1 DEF IdempotencyTypeOK, KeyRow, Call
      <4> QED
        BY <4>1, NothingIsNothing
    <3>3. OwnerHoldsRow'
      BY <1>2, <1>3, <2>1, <3>1, <3>2 DEF OwnerHoldsRow
    <3>4. AnsweredAsStored'
      BY <1>2, <1>3, <2>1, <3>1 DEF AnsweredAsStored
    <3>5. StoredForItsBody'
      BY <1>2, <3>1 DEF StoredForItsBody
    <3>6. StoresItsBody'
      BY <1>2, <1>3, <2>1, <3>1 DEF StoresItsBody, OwnerHoldsRow
    <3> QED
      BY <1>1, <3>3, <3>4, <3>5, <3>6
  <2>2. CASE keys[k] # Nothing
    <3>1. keys' = keys /\ calls'[q].at = "find"
      BY <1>4, <2>2 DEF Claim, Goes, IdempotencyTypeOK, Call
    <3> QED
      BY <1>1, <1>2, <3>1 DEF OwnerHoldsRow, AnsweredAsStored, StoredForItsBody, StoresItsBody, Owning
  <2> QED
    BY <2>1, <2>2
<1>5. CASE FindClaimed(q)
  <2>1. keys' = keys
    BY <1>5 DEF FindClaimed
  <2>2. \/ calls'[q].at \in {"new", "failed"}
        \/ /\ calls'[q].at = "answered" /\ calls'[q].answer = keys[k].answer
           /\ keys[k] # Nothing /\ keys[k].body = calls[q].body /\ keys[k].state # "IN_PROGRESS"
    BY <1>5 DEF FindClaimed, Goes, IdempotencyTypeOK, Call
  <2>3. keys[k] # Nothing => keys[k].state \in {"IN_PROGRESS", "COMPLETED"}
    BY <1>3 DEF IdempotencyTypeOK, KeyRow
  <2>4. OwnerHoldsRow' /\ StoresItsBody'
    BY <1>2, <2>1, <2>2 DEF OwnerHoldsRow, StoresItsBody, Owning
  <2>5. AnsweredAsStored'
    BY <1>2, <1>3, <2>1, <2>2, <2>3 DEF AnsweredAsStored, StoredForItsBody
  <2> QED
    BY <1>1, <2>1, <2>4, <2>5 DEF StoredForItsBody
<1>6. CASE RunOperation(q)
  <2>1. keys' = keys
    BY <1>6 DEF RunOperation
  <2>2. calls[q].at = "run"
    BY <1>6 DEF RunOperation
  <2>3. \/ calls'[q].at = "release"
        \/ \E kind \in {"created", "rejected"} :
             /\ calls'[q].at = "store"
             /\ calls'[q].answer = [kind |-> kind, run |-> q, body |-> calls[q].body]
    BY <1>6 DEF RunOperation, Goes, IdempotencyTypeOK, Call
  <2>4. calls'[q].at = "store" => calls'[q].answer # Nothing /\ calls'[q].answer.body = calls[q].body
    BY <2>3, NothingIsNothing DEF Answer, IdempotencyTypeOK, Call
  <2>5. OwnerHoldsRow' /\ StoresItsBody'
    BY <1>2, <2>1, <2>2, <2>3, <2>4 DEF OwnerHoldsRow, StoresItsBody, Owning
  <2> QED
    BY <1>1, <1>2, <2>1, <2>3, <2>5 DEF AnsweredAsStored, StoredForItsBody
<1>7. CASE StoreAnswer(q)
  <2>1. /\ calls[q].at = "store" /\ keys[k] # Nothing /\ keys[k].by = q
        /\ keys[k].state = "IN_PROGRESS" /\ keys[k].body = calls[q].body
        /\ calls[q].answer # Nothing /\ calls[q].answer.body = calls[q].body
    BY <1>7 DEF StoreAnswer, OwnerHoldsRow, StoresItsBody, Owning
  <2>2. keys[k] \in KeyRow
    BY <1>3, <2>1 DEF IdempotencyTypeOK
  <2>3. /\ keys'[k].state = "COMPLETED" /\ keys'[k].answer = calls[q].answer
        /\ keys'[k].body = keys[k].body
        /\ calls'[q].at = "answered" /\ calls'[q].answer = calls[q].answer
    BY <1>7, <1>3, <2>2 DEF StoreAnswer, Goes, IdempotencyTypeOK, Call, KeyRow
  <2>4. keys'[k] # Nothing
    <3>1. keys'[k] \in KeyRow
      BY <1>7, <1>3, <2>1, <2>2 DEF StoreAnswer, Goes, IdempotencyTypeOK, Call, KeyRow
    <3> QED
      BY <3>1, NothingIsNothing
  <2>5. \A r \in Client : r # q /\ calls[r].key = k => calls[r].at \notin Owning \cup {"answered"}
    BY <2>1, OneOwner DEF AnsweredAsStored, Owning
  <2>6. OwnerHoldsRow' /\ StoresItsBody'
    BY <1>2, <1>3, <2>3, <2>5 DEF OwnerHoldsRow, StoresItsBody, Owning
  <2>7. AnsweredAsStored'
    BY <1>2, <1>3, <2>1, <2>3, <2>4, <2>5 DEF AnsweredAsStored
  <2>8. StoredForItsBody'
    BY <1>2, <2>1, <2>3 DEF StoredForItsBody
  <2> QED
    BY <1>1, <2>6, <2>7, <2>8
<1>8. CASE StoreFails(q)
  <2>1. /\ keys' = keys /\ calls[q].at = "store"
        /\ calls'[q].at \in {"release", "failed"}
    BY <1>8 DEF StoreFails, Goes, IdempotencyTypeOK, Call
  <2> QED
    BY <1>1, <1>2, <2>1 DEF OwnerHoldsRow, AnsweredAsStored, StoredForItsBody, StoresItsBody, Owning
<1>9. CASE ReleaseKey(q)
  <2>1. /\ calls[q].at = "release" /\ calls'[q].at = "failed"
        /\ keys[k] # Nothing /\ keys[k].by = q /\ keys[k].state = "IN_PROGRESS"
    BY <1>9 DEF ReleaseKey, Goes, OwnerHoldsRow, Owning, IdempotencyTypeOK, Call
  <2>2. keys'[k] = Nothing
    BY <1>9, <1>3, <2>1 DEF ReleaseKey, IdempotencyTypeOK
  <2>3. \A r \in Client : r # q /\ calls[r].key = k => calls[r].at \notin Owning \cup {"answered"}
    BY <2>1, OneOwner DEF AnsweredAsStored, Owning
  <2>4. OwnerHoldsRow' /\ StoresItsBody'
    BY <1>2, <1>3, <2>1, <2>3 DEF OwnerHoldsRow, StoresItsBody, Owning
  <2>5. AnsweredAsStored'
    BY <1>2, <1>3, <2>1, <2>3 DEF AnsweredAsStored
  <2>6. StoredForItsBody'
    BY <1>2, <2>2 DEF StoredForItsBody
  <2> QED
    BY <1>1, <2>4, <2>5, <2>6
<1>10. CASE ReleaseFails(q)
  <2>1. keys' = keys /\ calls'[q].at = "failed"
    BY <1>10 DEF ReleaseFails, Goes, IdempotencyTypeOK, Call
  <2> QED
    BY <1>1, <1>2, <2>1 DEF OwnerHoldsRow, AnsweredAsStored, StoredForItsBody, StoresItsBody, Owning
<1> QED
  BY <1>4, <1>5, <1>6, <1>7, <1>8, <1>9, <1>10 DEF IdempotencyNext

LEMMA CallsStutter == CallsIInv /\ UNCHANGED idempotency => CallsIInv'
BY DEF CallsIInv, idempotency, IdempotencyTypeOK, OwnerHoldsRow, AnsweredAsStored, StoredForItsBody,
       StoresItsBody

LEMMA CallsInvariance == IdempotencySpec => []CallsIInv
<1>1. CallsIInv /\ [\E q \in Client : IdempotencyNext(q)]_idempotency => CallsIInv'
  BY CallsStep, CallsStutter
<1> QED
  BY CallsInitIInv, <1>1, PTL DEF IdempotencySpec

-----------------------------------------------------------------------------
\* The table and the requests keep their types.
THEOREM CallsTypeCorrect == IdempotencySpec => []IdempotencyTypeOK
<1>1. CallsIInv => IdempotencyTypeOK
  BY DEF CallsIInv
<1> QED
  BY <1>1, CallsInvariance, PTL

\* No two requests ever both have a result of their own under one key: they
\* would both own its row, or be answered by one.
THEOREM OneRunPerKey == IdempotencySpec => []OneRunCounts
<1>1. CallsIInv => OneRunCounts
  <2> SUFFICES ASSUME CallsIInv, NEW q \in Client, NEW r \in Client,
                      q # r, calls[q].key = calls[r].key,
                      \A c \in {q, r} : /\ calls[c].at \in {"store", "answered"}
                                        /\ calls[c].answer.run = c
               PROVE  FALSE
    BY DEF OneRunCounts
  <2>1. ~(calls[q].at = "store" /\ calls[r].at = "store")
    BY OneOwner DEF Owning
  <2>2. ~(calls[q].at = "answered" /\ calls[r].at = "answered")
    BY DEF CallsIInv, AnsweredAsStored
  <2>3. \A c, d \in {q, r} : ~(calls[c].at = "store" /\ calls[d].at = "answered")
    BY DEF CallsIInv, OwnerHoldsRow, AnsweredAsStored, Owning
  <2> QED
    BY <2>1, <2>2, <2>3
<1> QED
  BY <1>1, CallsInvariance, PTL

-----------------------------------------------------------------------------
\* A request that has its answer takes no step.
LEMMA AnswersAreLast ==
  ASSUME NEW q \in Client, IdempotencyNext(q)
  PROVE  calls[q].at # "answered"
BY DEF IdempotencyNext, Claim, FindClaimed, RunOperation, StoreAnswer, StoreFails, ReleaseKey,
       ReleaseFails

\* A step of the requests is a step of the promise or none: the first answer
\* under a key is given, and whoever is answered later is answered the same.
LEMMA StepKeepsPromise ==
  ASSUME CallsIInv, NEW q \in Client, IdempotencyNext(q)
  PROVE  Promise!Next \/ told' = told
<1> DEFINE k == calls[q].key
           asked == <<calls'[q].body, calls'[q].answer>>
<1>1. /\ \A r \in Client : r # q => calls'[r] = calls[r]
      /\ calls'[q].key = k
      /\ calls[q].at # "answered"
      /\ k \in Key
  BY OnlyItsRow, AnswersAreLast DEF CallsIInv, IdempotencyTypeOK, Call
<1>2. CallsIInv'
  BY CallsStep
<1>3. \A j \in Key : j # k => told'[j] = told[j]
  BY <1>1 DEF told
<1>4. told = [j \in Key |-> told[j]] /\ told' = [j \in Key |-> told'[j]]
  BY DEF told
<1>5. CASE calls'[q].at # "answered"
  <2>1. \A r \in Client : calls'[r].at = "answered" /\ calls'[r].key = k
                         <=> calls[r].at = "answered" /\ calls[r].key = k
    BY <1>1, <1>5
  <2>2. \A r \in Client : calls[r].at = "answered" => calls'[r] = calls[r]
    BY <1>1
  <2>3. told'[k] = told[k]
    <3>1. \A a : a \in told'[k] <=> a \in told[k]
      BY <1>1, <2>1, <2>2 DEF told
    <3>2. told'[k] = {<<calls'[r].body, calls'[r].answer>> :
                         r \in {r \in Client : calls'[r].at = "answered" /\ calls'[r].key = k}}
      BY <1>1 DEF told
    <3>3. told[k] = {<<calls[r].body, calls[r].answer>> :
                        r \in {r \in Client : calls[r].at = "answered" /\ calls[r].key = k}}
      BY <1>1 DEF told
    <3> QED
      BY <3>1, <3>2, <3>3
  <2> QED
    BY <1>3, <1>4, <2>3
<1>6. CASE calls'[q].at = "answered"
  <2>1. told'[k] = told[k] \cup {asked}
    BY <1>1, <1>6 DEF told
  <2>2. CASE told[k] = {}
    <3>1. asked \in told'[k] /\ told' = [told EXCEPT ![k] = {asked}]
      BY <1>1, <1>3, <1>4, <2>1, <2>2
    <3> QED
      BY <1>1, <2>2, <3>1 DEF Promise!Next, Promise!Give
  <2>3. CASE told[k] # {}
    <3>1. PICK r \in Client : calls[r].at = "answered" /\ calls[r].key = k
      BY <1>1, <2>3 DEF told
    <3>2. <<calls[r].body, calls[r].answer>> \in told[k]
      BY <1>1, <3>1 DEF told
    <3>3. calls'[r] = calls[r] /\ r # q
      BY <1>1, <3>1
    <3>4. calls'[q].answer = keys'[k].answer /\ calls'[r].answer = keys'[k].answer
      BY <1>1, <1>2, <1>6, <3>1, <3>3 DEF CallsIInv, AnsweredAsStored
    <3>5. calls'[q].answer.body = calls'[q].body /\ calls'[r].answer.body = calls'[r].body
      BY <1>1, <1>2, <1>6, <3>1, <3>3 DEF CallsIInv, AnsweredAsStored
    <3>6. asked = <<calls[r].body, calls[r].answer>>
      BY <3>3, <3>4, <3>5
    <3>7. told'[k] = told[k]
      BY <2>1, <3>2, <3>6
    <3> QED
      BY <1>3, <1>4, <3>7
  <2> QED
    BY <2>2, <2>3
<1> QED
  BY <1>5, <1>6

\* BR-803: the requests with their rows, failures and retries implement a store
\* that answers each key once and for ever.
THEOREM KeysAnswerOnce == IdempotencySpec => AnswersOnce
<1>1. IdempotencyInit => Promise!Init
  BY DEF IdempotencyInit, Promise!Init, told
<1>2. CallsIInv /\ [\E q \in Client : IdempotencyNext(q)]_idempotency => [Promise!Next]_told
  <2>1. ASSUME UNCHANGED idempotency PROVE told' = told
    BY <2>1 DEF idempotency, told
  <2> QED
    BY <2>1, StepKeepsPromise
<1> QED
  BY <1>1, <1>2, CallsInvariance, PTL DEF IdempotencySpec, AnswersOnce, Promise!Spec

-----------------------------------------------------------------------------
(* The parts together, as MCPlatform runs them. *)

\* A part that does not run keeps its rows.
LEMMA OthersRest ==
  ASSUME [Next]_vars
  PROVE  /\ part # "identity"    => UNCHANGED accounts
         /\ part # "companies"   => UNCHANGED corporate
         /\ part # "roster"      => UNCHANGED roster
         /\ part # "pump"        => UNCHANGED pump
         /\ part # "pricing"     => UNCHANGED catalogue
         /\ part # "shop"        => UNCHANGED shop
         /\ part # "access"      => UNCHANGED access
         /\ part # "process"     => UNCHANGED process
         /\ part # "taxes"       => UNCHANGED taxation
         /\ part # "idempotency" => UNCHANGED idempotency
         /\ part # "orders"      => UNCHANGED order
         /\ part' = part
BY DEF Next, vars

\* Beside resting parts, the part that runs is the system its module specifies:
\* nothing a request sees or writes comes from another part.
THEOREM PartsRunAlone ==
  Spec => /\ part = "identity"    => SignInSpec
          /\ part = "companies"   => CorporateSpec
          /\ part = "roster"      => RosterSpec
          /\ part = "pump"        => PumpSpec
          /\ part = "pricing"     => PricingSpec
          /\ part = "shop"        => PlacementSpec
          /\ part = "access"      => AccessSpec
          /\ part = "process"     => LifecycleSpec
          /\ part = "taxes"       => TaxSpec
          /\ part = "idempotency" => IdempotencySpec
          /\ part = "orders"      => OrderSpec
<1>1. Spec /\ part = "identity" => SignInSpec
  <2>1. Init /\ part = "identity" => RequestsInit /\ SignInInit
    BY DEF Init
  <2>2. part = "identity" /\ [Next]_vars => [(\E q \in Request : SignInNext(q)) \/ (Tick /\ CodesOnly)]_<<job, accounts>>
    BY DEF Next, Steps, vars
  <2>3. part = "identity" /\ [Next]_vars => (part = "identity")'
    BY DEF Next, vars
  <2> QED
    BY <2>1, <2>2, <2>3, PTL DEF Spec, SignInSpec
<1>2. Spec /\ part = "companies" => CorporateSpec
  <2>1. Init /\ part = "companies" => RequestsInit /\ CorporateInit
    BY DEF Init
  <2>2. part = "companies" /\ [Next]_vars => [\E q \in Request : CorporateNext(q)]_<<job, corporate>>
    BY DEF Next, Steps, vars
  <2>3. part = "companies" /\ [Next]_vars => (part = "companies")'
    BY DEF Next, vars
  <2> QED
    BY <2>1, <2>2, <2>3, PTL DEF Spec, CorporateSpec
<1>3. Spec /\ part = "roster" => RosterSpec
  <2>1. Init /\ part = "roster" => RequestsInit /\ RosterInit
    BY DEF Init
  <2>2. part = "roster" /\ [Next]_vars => [\E q \in Request : RosterNext(q)]_<<job, roster>>
    BY DEF Next, Steps, vars
  <2>3. part = "roster" /\ [Next]_vars => (part = "roster")'
    BY DEF Next, vars
  <2> QED
    BY <2>1, <2>2, <2>3, PTL DEF Spec, RosterSpec
<1>4. Spec /\ part = "pump" => PumpSpec
  <2>1. Init /\ part = "pump" => RequestsInit /\ PumpInit
    BY DEF Init
  <2>2. part = "pump" /\ [Next]_vars => [(\E q \in Request : PumpNext(q)) \/ OrderMoves]_<<job, pump>>
    BY DEF Next, Steps, vars
  <2>3. part = "pump" /\ [Next]_vars => (part = "pump")'
    BY DEF Next, vars
  <2> QED
    BY <2>1, <2>2, <2>3, PTL DEF Spec, PumpSpec
<1>5. Spec /\ part = "pricing" => PricingSpec
  <2>1. Init /\ part = "pricing" => RequestsInit /\ PricingInit
    BY DEF Init
  <2>2. part = "pricing" /\ [Next]_vars => [(\E q \in Request : PricingNext(q)) \/ NextDay]_<<job, catalogue>>
    BY DEF Next, Steps, vars
  <2>3. part = "pricing" /\ [Next]_vars => (part = "pricing")'
    BY DEF Next, vars
  <2> QED
    BY <2>1, <2>2, <2>3, PTL DEF Spec, PricingSpec
<1>6. Spec /\ part = "shop" => PlacementSpec
  <2>1. Init /\ part = "shop" => RequestsInit /\ BookInit /\ PlacementInit
    BY DEF Init
  <2>2. part = "shop" /\ [Next]_vars => [(\E q \in Request : PlacementNext(q)) \/ RateChanges \/ SaleChanges \/ ClockAdvances]_<<job, shop>>
    BY DEF Next, Steps, vars
  <2>3. part = "shop" /\ [Next]_vars => (part = "shop")'
    BY DEF Next, vars
  <2> QED
    BY <2>1, <2>2, <2>3, PTL DEF Spec, PlacementSpec
<1>7. Spec /\ part = "access" => AccessSpec
  <2>1. Init /\ part = "access" => RequestsInit /\ AccessInit
    BY DEF Init
  <2>2. part = "access" /\ [Next]_vars => [(\E q \in Request : AccessNext(q)) \/ (\E a \in Account : HolderChanges(a)) \/ HourPasses]_<<job, access>>
    BY DEF Next, Steps, vars
  <2>3. part = "access" /\ [Next]_vars => (part = "access")'
    BY DEF Next, vars
  <2> QED
    BY <2>1, <2>2, <2>3, PTL DEF Spec, AccessSpec
<1>8. Spec /\ part = "process" => LifecycleSpec
  <2>1. Init /\ part = "process" => RequestsInit /\ LifecycleInit
    BY DEF Init
  <2>2. part = "process" /\ [Next]_vars => [LifecycleNext]_<<job, process>>
    BY DEF Next, Steps, vars
  <2>3. part = "process" /\ [Next]_vars => (part = "process")'
    BY DEF Next, vars
  <2> QED
    BY <2>1, <2>2, <2>3, PTL DEF Spec, LifecycleSpec
<1>9. Spec /\ part = "taxes" => TaxSpec
  <2>1. Init /\ part = "taxes" => TaxInit
    BY DEF Init
  <2>2. part = "taxes" /\ [Next]_vars => [TaxNext]_taxation
    BY DEF Next, Steps, vars
  <2>3. part = "taxes" /\ [Next]_vars => (part = "taxes")'
    BY DEF Next, vars
  <2> QED
    BY <2>1, <2>2, <2>3, PTL DEF Spec, TaxSpec
<1>10. Spec /\ part = "idempotency" => IdempotencySpec
  <2>1. Init /\ part = "idempotency" => IdempotencyInit
    BY DEF Init
  <2>2. part = "idempotency" /\ [Next]_vars => [\E q \in Client : IdempotencyNext(q)]_idempotency
    BY DEF Next, Steps, vars
  <2>3. part = "idempotency" /\ [Next]_vars => (part = "idempotency")'
    BY DEF Next, vars
  <2> QED
    BY <2>1, <2>2, <2>3, PTL DEF Spec, IdempotencySpec
<1>11. Spec /\ part = "orders" => OrderSpec
  <2>1. Init /\ part = "orders" => OrderInit
    BY DEF Init
  <2>2. part = "orders" /\ [Next]_vars => [OrderNext]_order
    BY DEF Next, Steps, vars
  <2>3. part = "orders" /\ [Next]_vars => (part = "orders")'
    BY DEF Next, vars
  <2> QED
    BY <2>1, <2>2, <2>3, PTL DEF Spec, OrderSpec
<1> QED
  BY <1>1, <1>2, <1>3, <1>4, <1>5, <1>6, <1>7, <1>8, <1>9, <1>10, <1>11, PTL

\* The others stay as Init leaves them.
LEMMA PartsAtRest ==
  Spec => /\ part = "identity"    \/ []NoAccounts
          /\ part = "companies"   \/ []NoCompanies
          /\ part = "roster"      \/ []NoRoster
          /\ part = "pump"        \/ []PumpInit
          /\ part = "pricing"     \/ []NoCatalogue
          /\ part = "shop"        \/ [](NoBook /\ NoShop)
          /\ part = "access"      \/ []NoAccess
          /\ part = "process"     \/ []LifecycleInit
          /\ part = "taxes"       \/ []TaxInit
          /\ part = "idempotency" \/ []NoCalls
          /\ part = "orders"      \/ []NoOrder
<1>1. Spec => part = "identity" \/ []NoAccounts
  <2>1. Init => part = "identity" \/ (NoAccounts /\ part # "identity")
    BY DEF Init
  <2>2. NoAccounts /\ part # "identity" /\ [Next]_vars => (NoAccounts /\ part # "identity")'
    BY OthersRest DEF accounts, NoAccounts
  <2> QED
    BY <2>1, <2>2, PTL DEF Spec
<1>2. Spec => part = "companies" \/ []NoCompanies
  <2>1. Init => part = "companies" \/ (NoCompanies /\ part # "companies")
    BY DEF Init
  <2>2. NoCompanies /\ part # "companies" /\ [Next]_vars => (NoCompanies /\ part # "companies")'
    BY OthersRest DEF corporate, NoCompanies
  <2> QED
    BY <2>1, <2>2, PTL DEF Spec
<1>3. Spec => part = "roster" \/ []NoRoster
  <2>1. Init => part = "roster" \/ (NoRoster /\ part # "roster")
    BY DEF Init
  <2>2. NoRoster /\ part # "roster" /\ [Next]_vars => (NoRoster /\ part # "roster")'
    BY OthersRest DEF roster, NoRoster
  <2> QED
    BY <2>1, <2>2, PTL DEF Spec
<1>4. Spec => part = "pump" \/ []PumpInit
  <2>1. Init => part = "pump" \/ (PumpInit /\ part # "pump")
    BY DEF Init
  <2>2. PumpInit /\ part # "pump" /\ [Next]_vars => (PumpInit /\ part # "pump")'
    BY OthersRest DEF pump, PumpInit
  <2> QED
    BY <2>1, <2>2, PTL DEF Spec
<1>5. Spec => part = "pricing" \/ []NoCatalogue
  <2>1. Init => part = "pricing" \/ (NoCatalogue /\ part # "pricing")
    BY DEF Init
  <2>2. NoCatalogue /\ part # "pricing" /\ [Next]_vars => (NoCatalogue /\ part # "pricing")'
    BY OthersRest DEF catalogue, NoCatalogue
  <2> QED
    BY <2>1, <2>2, PTL DEF Spec
<1>6. Spec => part = "shop" \/ [](NoBook /\ NoShop)
  <2>1. Init => part = "shop" \/ ((NoBook /\ NoShop) /\ part # "shop")
    BY DEF Init
  <2>2. (NoBook /\ NoShop) /\ part # "shop" /\ [Next]_vars => ((NoBook /\ NoShop) /\ part # "shop")'
    BY OthersRest DEF shop, book, counter, NoBook, NoShop
  <2> QED
    BY <2>1, <2>2, PTL DEF Spec
<1>7. Spec => part = "access" \/ []NoAccess
  <2>1. Init => part = "access" \/ (NoAccess /\ part # "access")
    BY DEF Init
  <2>2. NoAccess /\ part # "access" /\ [Next]_vars => (NoAccess /\ part # "access")'
    BY OthersRest DEF access, NoAccess
  <2> QED
    BY <2>1, <2>2, PTL DEF Spec
<1>8. Spec => part = "process" \/ []LifecycleInit
  <2>1. Init => part = "process" \/ (LifecycleInit /\ part # "process")
    BY DEF Init
  <2>2. LifecycleInit /\ part # "process" /\ [Next]_vars => (LifecycleInit /\ part # "process")'
    BY OthersRest DEF process, LifecycleInit
  <2> QED
    BY <2>1, <2>2, PTL DEF Spec
<1>9. Spec => part = "taxes" \/ []TaxInit
  <2>1. Init => part = "taxes" \/ (TaxInit /\ part # "taxes")
    BY DEF Init
  <2>2. TaxInit /\ part # "taxes" /\ [Next]_vars => (TaxInit /\ part # "taxes")'
    BY OthersRest DEF taxation, TaxInit
  <2> QED
    BY <2>1, <2>2, PTL DEF Spec
<1>10. Spec => part = "idempotency" \/ []NoCalls
  <2>1. Init => part = "idempotency" \/ (NoCalls /\ part # "idempotency")
    BY DEF Init
  <2>2. NoCalls /\ part # "idempotency" /\ [Next]_vars => (NoCalls /\ part # "idempotency")'
    BY OthersRest DEF idempotency, NoCalls
  <2> QED
    BY <2>1, <2>2, PTL DEF Spec
<1>11. Spec => part = "orders" \/ []NoOrder
  <2>1. Init => part = "orders" \/ (NoOrder /\ part # "orders")
    BY DEF Init
  <2>2. NoOrder /\ part # "orders" /\ [Next]_vars => (NoOrder /\ part # "orders")'
    BY OthersRest DEF order, NoOrder, OrderInit
  <2> QED
    BY <2>1, <2>2, PTL DEF Spec
<1> QED
  BY <1>1, <1>2, <1>3, <1>4, <1>5, <1>6, <1>7, <1>8, <1>9, <1>10, <1>11, PTL

\* Every row of every part is of its type, those of the parts at rest included
\* (what the services' schemas and the database's columns promise).
THEOREM PlatformTypeCorrect == Spec => []PlatformTypeOK
<1>1. Spec => []SignInTypeOK
  <2>1. NoAccounts => SignInTypeOK
    BY CodeBounds, SessionBound DEF NoAccounts, SignInTypeOK
  <2> QED
    BY <2>1, PartsAtRest, PartsRunAlone, SignInTypeCorrect, PTL
<1>2. Spec => []CorporateTypeOK
  <2>1. NoCompanies => CorporateTypeOK
    BY DEF NoCompanies, CorporateTypeOK
  <2> QED
    BY <2>1, PartsAtRest, PartsRunAlone, CorporateTypeCorrect, PTL
<1>3. Spec => []RosterTypeOK
  <2>1. NoRoster => RosterTypeOK
    BY ReadingsAndRows DEF NoRoster, RosterTypeOK
  <2> QED
    BY <2>1, PartsAtRest, PartsRunAlone, TypeCorrect, PTL
<1>4. Spec => []PumpTypeOK
  <2>1. PumpInit => PumpTypeOK
    BY MovesBounded DEF PumpInit, Status, PumpTypeOK
  <2> QED
    BY <2>1, PartsAtRest, PartsRunAlone, PumpTypeCorrect, PTL
<1>5. Spec => []PricingTypeOK
  <2>1. NoCatalogue => PricingTypeOK
    BY TimelineBounds DEF NoCatalogue, PricingTypeOK
  <2> QED
    BY <2>1, PartsAtRest, PartsRunAlone, PricingTypeCorrect, PTL
<1>6. Spec => [](BookTypeOK /\ PlacementTypeOK)
  <2>1. NoBook /\ NoShop => BookTypeOK /\ PlacementTypeOK
    BY AddressLimit, BookBound, ShopBounds DEF NoBook, NoShop, BookTypeOK, PlacementTypeOK
  <2> QED
    BY <2>1, PartsAtRest, PartsRunAlone, ShopTypeCorrect, PTL
<1>7. Spec => []AccessTypeOK
  <2>1. NoAccess => AccessTypeOK
    BY AccessTimes, RoleNames DEF NoAccess, HolderRow, PRINCIPALS, AccessTypeOK
  <2> QED
    BY <2>1, PartsAtRest, PartsRunAlone, AccessTypeCorrect, PTL
<1>8. Spec => []LifecycleTypeOK
  <2>1. LifecycleInit => LifecycleTypeOK
    BY DEF LifecycleInit, LifecycleTypeOK
  <2> QED
    BY <2>1, PartsAtRest, PartsRunAlone, ProcessTypeCorrect, PTL
<1>9. Spec => []TaxTypeOK
  <2>1. TaxInit => TaxTypeOK
    BY DEF TaxInit, TaxTypeOK
  <2> QED
    BY <2>1, PartsAtRest, PartsRunAlone, TaxTypeCorrect, PTL
<1>10. Spec => []IdempotencyTypeOK
  <2>1. NoCalls => IdempotencyTypeOK
    BY CallsHaveKeys DEF NoCalls, TheFirst, Call, Step, IdempotencyTypeOK
  <2> QED
    BY <2>1, PartsAtRest, PartsRunAlone, CallsTypeCorrect, PTL
<1>11. Spec => []OrderTypeOK
  <2>1. NoOrder => OrderTypeOK
    BY DEF NoOrder, OrderInit, OrderTypeOK, Status, Actor
  <2> QED
    BY <2>1, PartsAtRest, PartsRunAlone, OrderTypeCorrect, PTL
<1> QED
  BY <1>1, <1>2, <1>3, <1>4, <1>5, <1>6, <1>7, <1>8, <1>9, <1>10, <1>11, PTL DEF PlatformTypeOK

\* What the parts promise holds of the platform, whichever part runs: nothing at
\* rest breaks a promise either.  The three about requests are those of the part
\* that serves them.
THEOREM PlatformKeepsItsPromises ==
  Spec => /\ part = "identity" => []CredentialsSpentOnce
          /\ part = "pump"     => []PinOpensPumpOnSite
          /\ part = "process"  => []HandlersKeepTheirPool
          /\ [](HistoryTellsStatus /\ OneCrew /\ OneRunCounts)
          /\ [](QuoteUsedOnce /\ OrderNumbersConsecutive /\ OutboxTellsOrders)
          /\ [](StaleAccessIsBounded /\ BreakdownBalances)
          /\ [](NoClockOnceConfirmed /\ DeliveryPassedEveryStage)
          /\ [](OutcomeNeverCancelled /\ CancellationRecordAgrees)
          /\ RevocationIsFinal /\ AnswersOnce /\ TakeoversAreMeasured
<1>1. Spec => /\ part = "identity" => []CredentialsSpentOnce
              /\ part = "pump"     => []PinOpensPumpOnSite
              /\ part = "process"  => []HandlersKeepTheirPool
  BY PartsRunAlone, CredentialsAreSpentOnce, PinsOpenPumps, NoHandlerWithoutPool, PTL
<1>2. Spec => []HistoryTellsStatus
  <2>1. NoCompanies => HistoryTellsStatus
    BY DEF NoCompanies, HistoryTellsStatus
  <2> QED
    BY <2>1, PartsAtRest, PartsRunAlone, HistoryTellsStanding, PTL
<1>3. Spec => []OneCrew
  <2>1. NoRoster => OneCrew
    BY DEF NoRoster, OneCrew, activeAssignments, openShifts
  <2> QED
    BY <2>1, PartsAtRest, PartsRunAlone, OneCrewPerTanker, PTL
<1>4. Spec => TakeoversAreMeasured
  <2>1. NoCatalogue /\ NoCatalogue' => UNCHANGED catalogue
    BY DEF NoCatalogue, catalogue
  <2> QED
    BY <2>1, PartsAtRest, PartsRunAlone, TakeoversInBand, PTL DEF TakeoversAreMeasured
<1>5. Spec => []OneRunCounts
  <2>1. NoCalls => OneRunCounts
    BY DEF NoCalls, OneRunCounts
  <2> QED
    BY <2>1, PartsAtRest, PartsRunAlone, OneRunPerKey, PTL
<1>6. Spec => [](QuoteUsedOnce /\ OrderNumbersConsecutive /\ OutboxTellsOrders)
  <2>1. NoBook /\ NoShop => QuoteUsedOnce /\ OrderNumbersConsecutive /\ OutboxTellsOrders
    BY DEF NoShop, QuoteUsedOnce, OrderNumbersConsecutive, OutboxTellsOrders
  <2> QED
    BY <2>1, PartsAtRest, PartsRunAlone, QuotesAreUsedOnce, NumbersRunOn, OutboxTellsEveryOrder, PTL
<1>7. Spec => []StaleAccessIsBounded
  <2>1. NoAccess => StaleAccessIsBounded
    BY DEF NoAccess, StaleAccessIsBounded
  <2> QED
    BY <2>1, PartsAtRest, PartsRunAlone, AccessEndsWithARole, PTL
<1>8. Spec => []BreakdownBalances
  <2>1. TaxInit => BreakdownBalances
    BY TaxInitIInv, BalancedByRules
  <2> QED
    BY <2>1, PartsAtRest, PartsRunAlone, BreakdownsBalance, PTL
<1>9. Spec => RevocationIsFinal
  <2>1. NoAccounts /\ NoAccounts' => UNCHANGED sessions
    BY DEF NoAccounts
  <2> QED
    BY <2>1, PartsAtRest, PartsRunAlone, RevokedForGood, PTL DEF RevocationIsFinal
<1>10. Spec => AnswersOnce
  <2>1. NoCalls => Promise!Init
    BY DEF NoCalls, Promise!Init, told
  <2>2. NoCalls /\ NoCalls' => UNCHANGED told
    BY DEF NoCalls, told
  <2> QED
    BY <2>1, <2>2, PartsAtRest, PartsRunAlone, KeysAnswerOnce, PTL DEF AnswersOnce, Promise!Spec
<1>11. Spec => [](NoClockOnceConfirmed /\ DeliveryPassedEveryStage)
  <2>1. NoOrder => NoClockOnceConfirmed /\ DeliveryPassedEveryStage
    BY DEF NoOrder, OrderInit, NoClockOnceConfirmed, DeliveryPassedEveryStage
  <2> QED
    BY <2>1, PartsAtRest, PartsRunAlone, ConfirmedOrdersNeverLapse, DeliveriesPassEveryStage, PTL
<1>12. Spec => [](OutcomeNeverCancelled /\ CancellationRecordAgrees)
  <2>1. NoOrder => OutcomeNeverCancelled /\ CancellationRecordAgrees
    BY DEF NoOrder, OrderInit, OutcomeNeverCancelled, CancellationRecordAgrees, OutcomeRecorded, CancelledStatus
  <2> QED
    BY <2>1, PartsAtRest, PartsRunAlone, OutcomesAreNeverCancelled, CancellationRecordsAgree, PTL
<1> QED
  BY <1>1, <1>2, <1>3, <1>4, <1>5, <1>6, <1>7, <1>8, <1>9, <1>10, <1>11, <1>12, PTL
===============================================================================
