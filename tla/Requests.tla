------------------------------- MODULE Requests -------------------------------
(***************************************************************************)
(* What the services share.  A request is a chain of awaited statements;     *)
(* between two of them every other request may run.  job[q] names the        *)
(* statement q runs next and holds what the earlier ones read: a finished    *)
(* request keeps what it obtained.  A request a restart cuts short is one    *)
(* that never takes its next step.                                           *)
(***************************************************************************)
CONSTANTS None, Request   \* requests that arrive, each served once

VARIABLE job

RequestsInit == job = [q \in Request |-> [at |-> "new"]]

At(q, step) == job[q].at = step
Goto(q, r)  == job' = [job EXCEPT ![q] = r]

\* The next statement of the same request, with what it read so far.
Proceed(q, step) == Goto(q, [job[q] EXCEPT !.at = step])

\* The request is answered and holds nothing (an error, or nothing to keep).
Leave(q) == Goto(q, [at |-> "left"])

\* A check: the request goes on, or is answered with an error.
Test(q, ok, step) == IF ok THEN Proceed(q, step) ELSE Leave(q)

Finished(q) == job[q].at \in {"left", "done"}
===============================================================================
