-------------------------------- MODULE SignIn --------------------------------
(***************************************************************************)
(* Accounts and sessions (identity/services/auth.service.js,                 *)
(* session.service.js, account-gate.js and their repositories).  A refresh   *)
(* token is the pair of its session and the rotation it was signed for, so   *)
(* the stored hash is rotation_counter.  Access tokens, password hashing and *)
(* device details are left out.  The gate the companies install is asked as  *)
(* an outside answer here; CorporateAccounts has its rule.                   *)
(***************************************************************************)
EXTENDS OneTimeCodes

CONSTANTS
  Customer,       \* the identifiers of principal CUSTOMER
  Password,       \* passwords a caller may type
  RefreshLife,    \* JWT_REFRESH_EXPIRES_IN, in ticks
  SessionLife,    \* SESSION_ABSOLUTE_LIFETIME, in ticks
  MaxSessions     \* bound: sessions ever started

ASSUME SessionLives == RefreshLife \in Nat \ {0} /\ SessionLife \in Nat /\ RefreshLife <= SessionLife
ASSUME SessionBound == MaxSessions \in Nat \ {0}   \* a run may begin with a session

VARIABLES
  users,      \* users by identifier
  sessions    \* user_sessions, by creation

accounts == <<clock, challenges, users, sessions>>

UserRow == [status: {"ACTIVE", "BLOCKED", "DELETED"}, password: Password \cup {None},
            verified: BOOLEAN]

ASSUME NoneIsNoUser == None \notin UserRow

RevocationReason ==
  {"LOGOUT", "LOGOUT_ALL", "DEVICE_REVOKED", "TOKEN_REUSE_DETECTED", "PASSWORD_CHANGED", "EXPIRED"}

SessionRow ==
  [user: Phone, rotation: Nat, lastUsed: Nat, expires: Nat, ceiling: Nat,
   revoked: RevocationReason \cup {None}]

Live(s) == sessions[s].revoked = None

\* Mutant: a second revocation overwrites the first one's reason.
revokeAgain(s, reason) == [sessions EXCEPT ![s].revoked = reason]

\* revokeById: one session, unless it is revoked already.
revokeById(s, reason) ==
  [sessions EXCEPT ![s].revoked = IF @ = None THEN reason ELSE @]

\* revokeAllForUser: every live session of the user but one (0 for none excepted).
revokeAllForUser(user, reason, except) ==
  [s \in DOMAIN sessions |->
     IF sessions[s].user = user /\ Live(s) /\ s # except
     THEN [sessions[s] EXCEPT !.revoked = reason] ELSE sessions[s]]

\* The sliding expiry never reaches past the absolute one.
SlidingExpiry(s) ==
  IF clock + RefreshLife > sessions[s].ceiling THEN sessions[s].ceiling ELSE clock + RefreshLife

CodesOnly == UNCHANGED <<users, sessions>>
UsersOnly == UNCHANGED <<clock, challenges, sessions>>
SessionsOnly == UNCHANGED <<clock, challenges, users>>

\* A run begins with what earlier requests may have left: a code just sent, an
\* account with a password, a session just started.
NewSession(phone) ==
  [user |-> phone, rotation |-> 0, lastUsed |-> 0, expires |-> RefreshLife,
   ceiling |-> SessionLife, revoked |-> None]

SignInInit ==
  /\ clock = 0
  /\ challenges \in {<< >>} \cup
       {<<[phone |-> p, purpose |-> u, born |-> 0, expires |-> OtpTtl, attempts |-> 0,
           resends |-> 0, consumed |-> FALSE]>> : p \in Phone, u \in Purpose}
  /\ users \in [Phone -> {None} \cup {[status |-> t, password |-> w, verified |-> TRUE] :
                                       t \in {"ACTIVE", "BLOCKED"}, w \in Password}]
  /\ sessions \in {<< >>} \cup {<<NewSession(p)>> : p \in {p \in Phone : users[p] # None}}

---------------------------------------------------------------------------
\* register, authenticateWithOtp and resetPassword begin by proving a code.
Register(q, phone, typed) ==
  phone \in Customer /\ FindForVerify(q, "register", phone, "SIGNUP", typed) /\ CodesOnly

SignInWithCode(q, phone, purpose, typed) ==
  /\ purpose \in {"LOGIN", "SIGNUP"}
  /\ FindForVerify(q, "signin", phone, purpose, typed)
  /\ CodesOnly

ResetPassword(q, phone, typed) ==
  FindForVerify(q, "reset", phone, "PASSWORD_RESET", typed) /\ CodesOnly

\* Which flow may create the account it did not find.
MayCreate(r) == \/ r.flow = "register"
                \/ r.flow = "signin" /\ r.purpose = "SIGNUP" /\ r.phone \in Customer

FindAccount(q) ==
  /\ At(q, "proved")
  /\ IF users[job[q].phone] = None
     THEN IF MayCreate(job[q]) THEN Proceed(q, "create") ELSE Leave(q)
     ELSE CASE job[q].flow = "register" -> Leave(q)
            [] job[q].flow = "signin"   -> Proceed(q, "verify")
            [] job[q].flow = "reset"    -> Proceed(q, "gates")
  /\ UNCHANGED accounts

\* createWithRole; the unique (phone, principal) refuses the second of two.
CreateAccount(q) ==
  /\ At(q, "create")
  /\ IF users[job[q].phone] # None
     THEN Leave(q) /\ UNCHANGED users
     ELSE /\ \E p \in IF job[q].flow = "register" THEN Password ELSE {None} :
               users' = [users EXCEPT ![job[q].phone] =
                           [status |-> "ACTIVE", password |-> p, verified |-> TRUE]]
          /\ Proceed(q, IF job[q].flow = "register" THEN "session" ELSE "gates")
  /\ UsersOnly

MarkVerified(q) ==
  /\ At(q, "verify")
  /\ users' = [users EXCEPT ![job[q].phone].verified = TRUE]
  /\ Proceed(q, IF job[q].flow = "reset" THEN "revokeAll" ELSE "gates")
  /\ UsersOnly

\* assertUsableAccount: the account's own status, then every installed gate.
evaluateAccountGates == BOOLEAN

AssertUsable(q) ==
  /\ At(q, "gates")
  /\ \E pass \in evaluateAccountGates :
        IF ~pass \/ users[job[q].phone].status # "ACTIVE"
        THEN Leave(q)
        ELSE Proceed(q, CASE job[q].flow = "reset"   -> "setPassword"
                        [] job[q].flow = "refresh" -> "lookup"
                        [] OTHER                   -> "session")
  /\ UNCHANGED accounts

Login(q, phone, typed) ==
  /\ At(q, "new")
  /\ users[phone] # None /\ users[phone].password = typed
  /\ Goto(q, [at |-> "gates", flow |-> "login", phone |-> phone])
  /\ UNCHANGED accounts

\* startSession, and touchLastLogin after it.
StartSession(q) ==
  /\ At(q, "session")
  /\ Len(sessions) < MaxSessions
  /\ sessions' = Append(sessions,
       [user |-> job[q].phone, rotation |-> 0, lastUsed |-> clock,
        expires |-> clock + RefreshLife, ceiling |-> clock + SessionLife, revoked |-> None])
  /\ Proceed(q, "done")
  /\ SessionsOnly

---------------------------------------------------------------------------
\* refresh: the token's own signature and expiry first (an old token may have
\* lapsed), then the account, then the stored session.
Refresh(q, s, rotation) ==
  /\ At(q, "new")
  /\ rotation = sessions[s].rotation => sessions[s].lastUsed + RefreshLife > clock
  /\ Goto(q, [at |-> "gates", flow |-> "refresh", phone |-> sessions[s].user,
              token |-> <<s, rotation>>])
  /\ UNCHANGED accounts

FindSession(q) ==
  /\ At(q, "lookup")
  /\ LET s == job[q].token[1]
         row == sessions[s]
     IN CASE ~Live(s)                          -> Leave(q)
          [] Live(s) /\ row.ceiling <= clock   -> Goto(q, [at |-> "revoke", session |-> s, reason |-> "EXPIRED"])
          [] Live(s) /\ row.ceiling > clock /\ row.expires <= clock -> Leave(q)
          [] OTHER -> IF job[q].token[2] # row.rotation
                      THEN Goto(q, [at |-> "revoke", session |-> s, reason |-> "TOKEN_REUSE_DETECTED"])
                      ELSE Goto(q, [at |-> "rotate", token |-> job[q].token, expires |-> SlidingExpiry(s)])
  /\ UNCHANGED accounts

\* Mutant: the rotation is conditional on the session only, not on the stored hash.
rotatableWhileLive(s, rotation) == Live(s)

\* rotate: updateMany where the stored hash is still the presented one and the
\* session is not revoked; no row matched is an error.
rotatable(s, rotation) == sessions[s].rotation = rotation /\ Live(s)

Rotate(q) ==
  /\ At(q, "rotate")
  /\ LET s == job[q].token[1]
     IN IF rotatable(s, job[q].token[2])
        THEN /\ sessions' = [sessions EXCEPT ![s].rotation = @ + 1, ![s].lastUsed = clock,
                                             ![s].expires = job[q].expires]
             /\ Goto(q, [at |-> "done", token |-> job[q].token])
        ELSE Leave(q) /\ UNCHANGED sessions
  /\ SessionsOnly

RevokeOne(q) ==
  /\ At(q, "revoke")
  /\ sessions' = revokeById(job[q].session, job[q].reason)
  /\ Leave(q)
  /\ SessionsOnly

\* logout, and revokeSession, whose lookup only tells a foreign session apart.
Logout(q, s) ==
  /\ At(q, "new")
  /\ \E reason \in {"LOGOUT", "DEVICE_REVOKED"} :
       Goto(q, [at |-> "revoke", session |-> s, reason |-> reason])
  /\ UNCHANGED accounts

LogoutAll(q, s) ==
  /\ At(q, "new")
  /\ sessions' = revokeAllForUser(sessions[s].user, "LOGOUT_ALL", 0)
  /\ Leave(q)
  /\ SessionsOnly

---------------------------------------------------------------------------
\* changePassword, from session s: the current password is checked on the row read first.
ChangePassword(q, s, typed) ==
  /\ At(q, "new")
  /\ users[sessions[s].user].password \in {typed, None}
  /\ Goto(q, [at |-> "setPassword", flow |-> "change", phone |-> sessions[s].user, keep |-> s])
  /\ UNCHANGED accounts

SetPassword(q) ==
  /\ At(q, "setPassword")
  /\ \E p \in Password : users' = [users EXCEPT ![job[q].phone].password = p]
  /\ Proceed(q, IF job[q].flow = "reset" THEN "verify" ELSE "revokeAll")
  /\ UsersOnly

RevokeAll(q) ==
  /\ At(q, "revokeAll")
  /\ sessions' = revokeAllForUser(job[q].phone, "PASSWORD_CHANGED",
                                  IF job[q].flow = "change" THEN job[q].keep ELSE 0)
  /\ IF job[q].flow = "change" THEN Leave(q) ELSE Proceed(q, "session")
  /\ SessionsOnly

SignInNext(q) ==
  \/ CodesNext(q) /\ CodesOnly
  \/ \E p \in Phone, c \in 0..Len(challenges) :
       \/ Register(q, p, c)
       \/ ResetPassword(q, p, c)
       \/ \E u \in Purpose : SignInWithCode(q, p, u, c)
  \/ FindAccount(q) \/ CreateAccount(q) \/ MarkVerified(q) \/ AssertUsable(q)
  \/ \E p \in Phone, w \in Password : Login(q, p, w)
  \/ StartSession(q)
  \/ \E s \in DOMAIN sessions : \E r \in 0..sessions[s].rotation : Refresh(q, s, r)
  \/ FindSession(q) \/ Rotate(q) \/ RevokeOne(q)
  \/ \E s \in DOMAIN sessions :
       Logout(q, s) \/ LogoutAll(q, s) \/ \E w \in Password : ChangePassword(q, s, w)
  \/ SetPassword(q) \/ RevokeAll(q)

SignInSpec ==
  /\ RequestsInit /\ SignInInit
  /\ [][(\E q \in Request : SignInNext(q)) \/ (Tick /\ CodesOnly)]_<<job, accounts>>

SignInTypeOK ==
  /\ clock \in 0..MaxTime
  /\ challenges \in Seq(ChallengeRow) /\ Len(challenges) <= MaxChallenges
  /\ users \in [Phone -> UserRow \cup {None}]
  /\ sessions \in Seq(SessionRow) /\ Len(sessions) <= MaxSessions

---------------------------------------------------------------------------
Proved(q) == At(q, "proved") \/ ("code" \in DOMAIN job[q] /\ job[q].at \notin {"match", "mismatch", "spent"})

Refreshed(q) == At(q, "done") /\ "token" \in DOMAIN job[q]

\* A code proves its phone once and a refresh token is exchanged once, however
\* many requests find the same live row and present it at the same moment.
CredentialsSpentOnce ==
  \A q, r \in Request : q # r =>
    /\ Proved(q) /\ Proved(r) => job[q].code # job[r].code
    /\ Refreshed(q) /\ Refreshed(r) => job[q].token # job[r].token

\* A revoked session keeps its first reason and is never extended or rotated
\* again, and no session outlives its absolute limit.
RevocationIsFinal ==
  [][\A s \in DOMAIN sessions :
       /\ ~Live(s) => sessions'[s] = sessions[s]
       /\ sessions'[s].expires <= sessions[s].ceiling]_sessions
===============================================================================
