------------------------------- MODULE Lifecycle -------------------------------
(***************************************************************************)
(* One process of the server: its boot, its requests and its end (server.js, *)
(* app.js, shared/lifecycle, shutdown-guard, health, infrastructure/database *)
(* prisma and migration-status).  start and shutdown are two chains of       *)
(* awaited steps that may overlap: a signal can come while booting.  The     *)
(* supervisor starts another process after any exit.                         *)
(***************************************************************************)
EXTENDS Requests

ASSUME NoneIsNoExit == None \notin {"failed", "drained", "forced"}

VARIABLES
  boot,    \* how far start() has come
  drain,   \* how far shutdown() has come; shuttingDown is drain # "no"
  pool,    \* the database pool is open
  exit     \* how the process ended, or None

process == <<boot, drain, pool, exit>>

Running == exit = None
isShuttingDown == drain # "no"

\* Someone waits on the connection; behind one that hung up a handler runs on, abandoned.
InFlight(q) == job[q].at \in {"parsing", "handling"}
Unfinished(q) == InFlight(q) \/ At(q, "abandoned")

\* start(): the database is verified before the port is bound, or it is the end.
ConnectDatabase ==
  /\ Running /\ boot = "connecting"
  /\ \/ boot' = "migrating" /\ pool' = TRUE /\ UNCHANGED exit
     \/ exit' = "failed" /\ UNCHANGED <<boot, pool>>
  /\ UNCHANGED <<job, drain>>

\* findPendingMigrations only reports; then the port is bound, also when a
\* shutdown has begun meanwhile.
Listen ==
  /\ Running /\ boot = "migrating"
  /\ boot' = "listening"
  /\ UNCHANGED <<job, drain, pool, exit>>

---------------------------------------------------------------------------
\* createApp: rejectDuringShutdown comes before the body is read.  Once the
\* listener is closed a request can only come on a connection kept alive.
ReceiveRequest(q) ==
  /\ Running /\ boot = "listening" /\ At(q, "new")
  /\ IF isShuttingDown THEN Leave(q) ELSE Proceed(q, "parsing")
  /\ UNCHANGED process

\* A malformed, oversized or broken-off body and an unmatched path end here.
RouteRequest(q) ==
  /\ Running /\ At(q, "parsing")
  /\ Leave(q) \/ Proceed(q, "handling")
  /\ UNCHANGED process

\* The health check's query races a timeout, so a slow database reads as down.
checkDatabaseHealth == IF pool THEN {"up", "down"} ELSE {"down"}

AnswerRequest(q) ==
  /\ Running /\ At(q, "handling")
  /\ \/ Leave(q)
     \/ \E health \in checkDatabaseHealth : Goto(q, [at |-> "done", health |-> health])
  /\ UNCHANGED process

\* Nothing tells a handler that its client is gone.
HangUp(q) ==
  /\ Running /\ At(q, "handling")
  /\ Proceed(q, "abandoned")
  /\ UNCHANGED process

\* With the pool closed under it, an abandoned handler ends as well, in an error.
FinishAbandoned(q) ==
  /\ Running /\ At(q, "abandoned")
  /\ Leave(q)
  /\ UNCHANGED process

---------------------------------------------------------------------------
\* shutdown(), for a signal, an uncaught exception or an unhandled rejection;
\* beginShutdown refuses the second.  A server not yet listening is not closed.
BeginShutdown ==
  /\ Running /\ ~isShuttingDown
  /\ drain' = IF boot = "listening" THEN "closing" ELSE "disconnecting"
  /\ UNCHANGED <<job, boot, pool, exit>>

\* Mutant: the close is not awaited.
closedAtOnce == TRUE

\* server.close() resolves with the last connection, not with the last handler:
\* one whose client hung up is not waited for.
closed == \A q \in Request : ~InFlight(q)

CloseServer ==
  /\ Running /\ drain = "closing" /\ closed
  /\ drain' = "disconnecting"
  /\ UNCHANGED <<job, boot, pool, exit>>

DisconnectDatabase ==
  /\ Running /\ drain = "disconnecting"
  /\ drain' = "exiting" /\ pool' = FALSE
  /\ UNCHANGED <<job, boot, exit>>

ExitProcess ==
  /\ Running /\ drain = "exiting"
  /\ exit' = "drained"
  /\ UNCHANGED <<job, boot, drain, pool>>

\* The backstop timer runs from the start of the shutdown to its end.
ForceExit ==
  /\ Running /\ isShuttingDown
  /\ exit' = "forced"
  /\ UNCHANGED <<job, boot, drain, pool>>

\* The next process; what was running is cut.
Restart ==
  /\ ~Running
  /\ boot' = "connecting" /\ drain' = "no" /\ pool' = FALSE /\ exit' = None
  /\ job' = [q \in Request |-> IF Unfinished(q) THEN [at |-> "left"] ELSE job[q]]

LifecycleNext ==
  \/ ConnectDatabase \/ Listen
  \/ \E q \in Request : 
       \/ ReceiveRequest(q) \/ RouteRequest(q) \/ AnswerRequest(q)
       \/ HangUp(q) \/ FinishAbandoned(q)
  \/ BeginShutdown \/ CloseServer \/ DisconnectDatabase \/ ExitProcess \/ ForceExit
  \/ Restart

LifecycleInit == boot = "connecting" /\ drain = "no" /\ pool = FALSE /\ exit = None

LifecycleSpec == RequestsInit /\ LifecycleInit /\ [][LifecycleNext]_<<job, process>>

LifecycleTypeOK ==
  /\ boot \in {"connecting", "migrating", "listening"}
  /\ drain \in {"no", "closing", "disconnecting", "exiting"}
  /\ pool \in BOOLEAN
  /\ exit \in {None, "failed", "drained", "forced"}

---------------------------------------------------------------------------
\* "In-flight requests are unaffected", for those somebody still waits for:
\* whatever order the boot, signals, crashes and the backstop come in, such a
\* request has its database, and only a forced exit leaves it unanswered.  An
\* abandoned handler has no such promise: the drain closes the pool under it.
HandlersKeepTheirPool ==
  \A q \in Request : InFlight(q) => (exit = None /\ pool) \/ exit = "forced"
===============================================================================
