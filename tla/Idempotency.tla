------------------------------ MODULE Idempotency ------------------------------
(***************************************************************************)
(* Idempotent requests (platform/services/idempotency.service.js and its     *)
(* repository; POST /orders is run through it).  A key is the unique         *)
(* (user, endpoint, key) and a body stands for its fingerprint.  A request   *)
(* may fail at any statement, or stop there for good when the process does.  *)
(***************************************************************************)
EXTENDS Integers

CONSTANTS
  Client,          \* requests, each sent once; a retry is another request
  Key, Body,
  Nothing          \* no row, no answer

VARIABLES
  keys,            \* idempotency_keys by (user, endpoint, key)
  calls            \* the requests

idempotency == <<keys, calls>>

\* What the operation answered: the run that produced it tells two results apart.
Answer == [kind : {"created", "rejected"}, run : Client, body : Body]

KeyRow == [by : Client, body : Body, state : {"IN_PROGRESS", "COMPLETED"},
           answer : Answer \cup {Nothing}]

ASSUME NothingIsNothing == Nothing \notin KeyRow \cup Answer

\* A call is answered for good, told to retry (409 or 500), or on its way.
Step == {"new", "find", "run", "store", "release", "answered", "failed"}

Call == [at : Step, key : Key, body : Body, answer : Answer \cup {Nothing}]

Goes(q, step) == calls' = [calls EXCEPT ![q].at = step]

\* requireIdempotencyKey lets no request in without one.
IdempotencyInit ==
  /\ keys = [k \in Key |-> Nothing]
  /\ calls \in [Client -> {[at |-> "new", key |-> k, body |-> b, answer |-> Nothing] :
                             k \in Key, b \in Body}]

\* Mutant: a key that is still in progress is taken for abandoned.
ClaimAbandoned(q) ==
  /\ calls[q].at = "new"
  /\ LET k == calls[q].key
     IN IF keys[k] = Nothing \/ keys[k].state = "IN_PROGRESS"
        THEN /\ keys' = [keys EXCEPT ![k] = [by |-> q, body |-> calls[q].body,
                                             state |-> "IN_PROGRESS", answer |-> Nothing]]
             /\ Goes(q, "run")
        ELSE Goes(q, "find") /\ UNCHANGED keys

\* claim: the insert itself, refused by the unique index when the row is there.
Claim(q) ==
  /\ calls[q].at = "new"
  /\ LET k == calls[q].key
     IN IF keys[k] = Nothing
        THEN /\ keys' = [keys EXCEPT ![k] = [by |-> q, body |-> calls[q].body,
                                             state |-> "IN_PROGRESS", answer |-> Nothing]]
             /\ Goes(q, "run")
        ELSE Goes(q, "find") /\ UNCHANGED keys

\* Mutant: the fingerprint of the body is not compared.
ReplayAnyBody(q) ==
  /\ calls[q].at = "find"
  /\ LET row == keys[calls[q].key]
     IN IF row = Nothing
        THEN Goes(q, "new")
        ELSE IF row.state = "IN_PROGRESS"
        THEN Goes(q, "failed")
        ELSE calls' = [calls EXCEPT ![q].at = "answered", ![q].answer = row.answer]
  /\ UNCHANGED keys

\* The row that stood in the way: gone again, another body's, unfinished, or a replay.
FindClaimed(q) ==
  /\ calls[q].at = "find"
  /\ LET row == keys[calls[q].key]
     IN IF row = Nothing
        THEN Goes(q, "new")
        ELSE IF row.body # calls[q].body \/ row.state = "IN_PROGRESS"
        THEN Goes(q, "failed")
        ELSE calls' = [calls EXCEPT ![q].at = "answered", ![q].answer = row.answer]
  /\ UNCHANGED keys

\* operation(): a result or a client error to keep, or a server error to retry.
RunOperation(q) ==
  /\ calls[q].at = "run"
  /\ \/ \E kind \in {"created", "rejected"} :
          calls' = [calls EXCEPT ![q].at = "store",
                                 ![q].answer = [kind |-> kind, run |-> q, body |-> calls[q].body]]
     \/ Goes(q, "release")
  /\ UNCHANGED keys

\* complete() writes by id; only the run that claimed the row knows it.
StoreAnswer(q) ==
  /\ calls[q].at = "store"
  /\ keys' = [keys EXCEPT ![calls[q].key].state = "COMPLETED",
                          ![calls[q].key].answer = calls[q].answer]
  /\ Goes(q, "answered")

\* The write failed: a result's key is freed, a client error's stays claimed.
StoreFails(q) ==
  /\ calls[q].at = "store"
  /\ Goes(q, IF calls[q].answer.kind = "created" THEN "release" ELSE "failed")
  /\ UNCHANGED keys

\* release() deletes the row while it is IN_PROGRESS.
ReleaseKey(q) ==
  /\ calls[q].at = "release"
  /\ keys' = [keys EXCEPT ![calls[q].key] =
                IF @ # Nothing /\ @.by = q /\ @.state = "IN_PROGRESS" THEN Nothing ELSE @]
  /\ Goes(q, "failed")

ReleaseFails(q) ==
  /\ calls[q].at = "release"
  /\ Goes(q, "failed")
  /\ UNCHANGED keys

IdempotencyNext(q) ==
  \/ Claim(q) \/ FindClaimed(q) \/ RunOperation(q)
  \/ StoreAnswer(q) \/ StoreFails(q) \/ ReleaseKey(q) \/ ReleaseFails(q)

IdempotencySpec == IdempotencyInit /\ [][\E q \in Client : IdempotencyNext(q)]_idempotency

IdempotencyTypeOK == keys \in [Key -> KeyRow \cup {Nothing}] /\ calls \in [Client -> Call]

---------------------------------------------------------------------------
\* A key has one run at a time, and while a request is between its claim and
\* its end the key's row is its own (what complete-by-id and release rely on).
Owning == {"run", "store", "release"}

OwnerHoldsRow ==
  \A q \in Client : calls[q].at \in Owning =>
    /\ keys[calls[q].key] # Nothing
    /\ keys[calls[q].key].by = q /\ keys[calls[q].key].state = "IN_PROGRESS"

\* A client that was answered was answered what the key's row says.
AnsweredAsStored ==
  \A q \in Client : calls[q].at = "answered" =>
    /\ keys[calls[q].key] # Nothing
    /\ keys[calls[q].key].state = "COMPLETED"
    /\ keys[calls[q].key].answer = calls[q].answer
    /\ calls[q].answer # Nothing /\ calls[q].answer.body = calls[q].body

\* A completed row holds the answer to the body it was claimed with.
StoredForItsBody ==
  \A k \in Key : keys[k] # Nothing /\ keys[k].state = "COMPLETED" =>
    keys[k].answer # Nothing /\ keys[k].answer.body = keys[k].body

StoresItsBody ==
  \A q \in Client : calls[q].at \in Owning =>
    /\ keys[calls[q].key].body = calls[q].body
    /\ calls[q].at = "store" => calls[q].answer # Nothing /\ calls[q].answer.body = calls[q].body

\* "Without this, the guaranteed outcome is two orders": two requests never both
\* have a result of their own under one key, unless one was told it failed.
OneRunCounts ==
  \A q, r \in Client :
    (/\ q # r /\ calls[q].key = calls[r].key
     /\ \A c \in {q, r} : /\ calls[c].at \in {"store", "answered"}
                          /\ calls[c].answer.run = c)
    => FALSE

\* What clients asked for and were given, for the promise of OneAnswer.
told ==
  [k \in Key |-> {<<calls[q].body, calls[q].answer>> :
                    q \in {q \in Client : calls[q].at = "answered" /\ calls[q].key = k}}]

Promise == INSTANCE OneAnswer WITH given <- told

\* Whatever retries, failures and restarts do, the answers clients see are those
\* of a store that answers each key once: a replay is the first answer, to the
\* body it was the answer to.
AnswersOnce == Promise!Spec
===============================================================================
