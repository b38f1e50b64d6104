----------------------------- MODULE OneTimeCodes -----------------------------
(***************************************************************************)
(* One-time codes (identity/services/otp.service.js and otp.repository.js).  *)
(* A code is the row that was created for it; hashing and the SMS are left   *)
(* out.  A request that proves a code goes on at its own step "proved".      *)
(***************************************************************************)
EXTENDS Requests, Integers, Sequences, FiniteSets

CONSTANTS
  Phone,            \* identifiers (a phone number and its principal)
  OtpTtl,           \* OTP_TTL_SECONDS, in ticks
  ResendCooldown,   \* RESEND_COOLDOWN_SECONDS: the wait after each resend
  MaxSends,         \* OTP_MAX_SENDS_PER_IDENTIFIER_PER_HOUR
  MaxSendsPerIp,    \* OTP_MAX_SENDS_PER_IP_PER_HOUR
  Hour,             \* the window of both limits, in ticks
  MaxAttempts,      \* OTP_MAX_VERIFY_ATTEMPTS
  MaxTime,          \* bound: ticks of the clock
  MaxChallenges     \* bound: codes ever issued

ASSUME CodeLimits == /\ {OtpTtl, MaxSends, MaxSendsPerIp, Hour, MaxAttempts} \subseteq Nat \ {0}
                     /\ ResendCooldown \in Seq(Nat) /\ ResendCooldown # << >>
ASSUME CodeBounds == MaxTime \in Nat /\ MaxChallenges \in Nat \ {0}   \* a run may begin with a code

VARIABLES
  clock,
  challenges   \* otp_challenges, by creation

Purpose == {"LOGIN", "SIGNUP", "PASSWORD_RESET"}

ChallengeRow ==
  [phone: Phone, purpose: Purpose, born: 0..MaxTime, expires: Nat,
   attempts: 0..MaxAttempts, resends: Nat, consumed: BOOLEAN]

LiveFor(phone, purpose, i) ==
  /\ challenges[i].phone = phone
  /\ challenges[i].purpose = purpose
  /\ ~challenges[i].consumed

\* The newest live row, or 0.
findLive(phone, purpose) ==
  LET live == {i \in DOMAIN challenges :
                 LiveFor(phone, purpose, i) /\ challenges[i].expires > clock}
  IN IF live = {} THEN 0 ELSE CHOOSE i \in live : \A k \in live : k <= i

countSince(phone) ==
  Cardinality({i \in DOMAIN challenges :
                 challenges[i].phone = phone /\ challenges[i].born >= clock - Hour})

\* Every request of a run comes from one address.
countByIpSince == Cardinality({i \in DOMAIN challenges : challenges[i].born >= clock - Hour})

cooldownFor(resends) ==
  ResendCooldown[IF resends < Len(ResendCooldown) THEN resends + 1 ELSE Len(ResendCooldown)]

consumeAllLive(phone, purpose) ==
  [i \in DOMAIN challenges |->
     [challenges[i] EXCEPT !.consumed = @ \/ LiveFor(phone, purpose, i)]]

\* consume(): updateMany with consumedAt null; how many rows it matched, and the result.
consumable(i) == ~challenges[i].consumed
consume(i) == [challenges EXCEPT ![i].consumed = TRUE]

\* An atomic increment, which attempts_within_max refuses past the last attempt.
registerFailedAttempt(i) == [challenges EXCEPT ![i].attempts = @ + 1]

---------------------------------------------------------------------------
\* requestOtp, one action per awaited statement.
FindForResend(q, phone, purpose) ==
  /\ At(q, "new")
  /\ LET live == findLive(phone, purpose)
         resent == IF live = 0 THEN 0 ELSE challenges[live].resends + 1
     IN IF live # 0 /\ clock - challenges[live].born < cooldownFor(challenges[live].resends)
        THEN Leave(q)
        ELSE Goto(q, [at |-> "limits", phone |-> phone, purpose |-> purpose, resends |-> resent])
  /\ UNCHANGED <<clock, challenges>>

CheckSendLimits(q) ==
  /\ At(q, "limits")
  /\ IF countSince(job[q].phone) >= MaxSends \/ countByIpSince >= MaxSendsPerIp
     THEN Leave(q)
     ELSE Proceed(q, "supersede")
  /\ UNCHANGED <<clock, challenges>>

SupersedeLive(q) ==
  /\ At(q, "supersede")
  /\ challenges' = consumeAllLive(job[q].phone, job[q].purpose)
  /\ Proceed(q, "issue")
  /\ UNCHANGED clock

IssueCode(q) ==
  /\ At(q, "issue")
  /\ Len(challenges) < MaxChallenges
  /\ challenges' = Append(challenges,
       [phone |-> job[q].phone, purpose |-> job[q].purpose, born |-> clock,
        expires |-> clock + OtpTtl, attempts |-> 0, resends |-> job[q].resends,
        consumed |-> FALSE])
  /\ Leave(q)
  /\ UNCHANGED clock

---------------------------------------------------------------------------
\* verifyOtp.  typed is the code the caller entered: a row's own, or 0 for no row's.
FindForVerify(q, flow, phone, purpose, typed) ==
  /\ At(q, "new")
  /\ LET live == findLive(phone, purpose)
     IN IF live = 0
        THEN Leave(q)
        ELSE Goto(q, [at |-> IF challenges[live].attempts >= MaxAttempts THEN "spent"
                             ELSE IF typed = live THEN "match" ELSE "mismatch",
                      flow |-> flow, phone |-> phone, purpose |-> purpose, code |-> live])
  /\ UNCHANGED <<clock, challenges>>

\* Mutant: the constraint on the attempts is missing.
CountFailureUnchecked(q) ==
  /\ At(q, "mismatch")
  /\ challenges' = registerFailedAttempt(job[q].code)
  /\ IF challenges[job[q].code].attempts + 1 >= MaxAttempts THEN Proceed(q, "spent") ELSE Leave(q)
  /\ UNCHANGED clock

\* A racing request may have made the last attempt already.
CountFailure(q) ==
  /\ At(q, "mismatch")
  /\ LET row == challenges[job[q].code]
     IN IF row.attempts >= MaxAttempts
        THEN Leave(q) /\ UNCHANGED challenges
        ELSE /\ challenges' = registerFailedAttempt(job[q].code)
             /\ IF row.attempts + 1 >= MaxAttempts THEN Proceed(q, "spent") ELSE Leave(q)
  /\ UNCHANGED clock

ConsumeSpent(q) ==
  /\ At(q, "spent")
  /\ challenges' = consume(job[q].code)
  /\ Leave(q)
  /\ UNCHANGED clock

ConsumeProved(q) ==
  /\ At(q, "match")
  /\ IF consumable(job[q].code)
     THEN challenges' = consume(job[q].code) /\ Proceed(q, "proved")
     ELSE Leave(q) /\ UNCHANGED challenges
  /\ UNCHANGED clock

CodesNext(q) ==
  \/ \E p \in Phone, u \in Purpose : FindForResend(q, p, u)
  \/ CheckSendLimits(q)
  \/ SupersedeLive(q)
  \/ IssueCode(q)
  \/ CountFailure(q)
  \/ ConsumeSpent(q)
  \/ ConsumeProved(q)

Tick == clock < MaxTime /\ clock' = clock + 1 /\ UNCHANGED <<challenges, job>>
===============================================================================
