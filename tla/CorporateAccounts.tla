--------------------------- MODULE CorporateAccounts ---------------------------
(***************************************************************************)
(* Companies, their review and their members (corporate/services and         *)
(* corporate.repository.js).  Reviews and member changes read first and      *)
(* write unconditionally afterwards.  A write to a company is a transaction  *)
(* of two statements, its record in the verification history and then the    *)
(* row; the first locks nothing another reviewer needs, so transactions on   *)
(* one company overlap.                                                      *)
(***************************************************************************)
EXTENDS Requests, Integers, SequencesExt

CONSTANTS
  Company,     \* corporate account ids
  Person,      \* users with a customer identity
  Number       \* registration identifiers

VARIABLES
  companies,   \* corporate_accounts
  members,     \* corporate_members, by company and user
  history      \* corporate_verification_records, by company

corporate == <<companies, members, history>>

Verification == {"PENDING", "APPROVED", "REJECTED"}

CompanyRow == [number: Number, verification: Verification,
               account: {"ACTIVE", "SUSPENDED", "INACTIVE"}]

OWNER_ROLE == "CORPORATE_OWNER"
ASSIGNABLE_MEMBER_ROLES == {"CORPORATE_ADMIN", "PURCHASE_MANAGER", "VIEWER"}
MEMBER_MANAGING_ROLES == {OWNER_ROLE, "CORPORATE_ADMIN"}

MemberRow == [role: ASSIGNABLE_MEMBER_ROLES \cup {OWNER_ROLE}, status: {"ACTIVE", "REMOVED"}]

\* seen is how many records the company had when this one was committed; 0 while
\* its transaction is open, and for good once it has rolled back.
VerificationRecord == [from: Verification \cup {None}, to: Verification, seen: Nat]

ASSUME NoneIsNoCompany == None \notin Company \cup CompanyRow \cup MemberRow \cup Verification

IsMember(c, u) == members[c][u] # None /\ members[c][u].status = "ACTIVE"

findActiveMemberships(u) == {c \in Company : IsMember(c, u)}

findByRegistration(n) == {c \in Company : companies[c] # None /\ companies[c].number = n}

\* The first statement of a transaction on a company: its record, not yet visible.
InsertRecord(q, from, to, step) ==
  LET c == job[q].company
  IN /\ history' = [history EXCEPT ![c] = Append(@, [from |-> from, to |-> to, seen |-> 0])]
     /\ Goto(q, [job[q] EXCEPT !.at = step, !.record = Len(history[c]) + 1])
     /\ UNCHANGED <<companies, members>>

\* The second, and the commit: the row's lock is held from one to the other.
UpdateAccount(q, row) ==
  LET c == job[q].company
  IN /\ companies' = [companies EXCEPT ![c] = row]
     /\ history' = [history EXCEPT ![c][job[q].record].seen = Len(history[c])]
     /\ Leave(q)
     /\ UNCHANGED members

\* A transaction that times out or loses its connection, or a deadlock.
RollBack(q) ==
  /\ job[q].at \in {"resubmit:update", "decide:update", "operate:update"}
  /\ Leave(q)
  /\ UNCHANGED corporate

---------------------------------------------------------------------------
\* registerCorporate.
FindOwnMemberships(q, u, n) ==
  /\ At(q, "new")
  /\ findActiveMemberships(u) = {}
  /\ Goto(q, [at |-> "duplicate", user |-> u, number |-> n, company |-> None])
  /\ UNCHANGED corporate

FindDuplicate(q) ==
  /\ At(q, "duplicate")
  /\ IF findByRegistration(job[q].number) \ {job[q].company} # {}
     THEN Leave(q)
     ELSE Proceed(q, IF job[q].company = None THEN "register" ELSE "resubmit")
  /\ UNCHANGED corporate

\* createRegistration; the identifier is unique.
CreateRegistration(q) ==
  /\ At(q, "register")
  /\ \E c \in {c \in Company : companies[c] = None} :
       IF findByRegistration(job[q].number) # {}
       THEN UNCHANGED corporate
       ELSE /\ companies' = [companies EXCEPT ![c] =
                 [number |-> job[q].number, verification |-> "PENDING", account |-> "INACTIVE"]]
            /\ history' = [history EXCEPT ![c] =
                 Append(@, [from |-> None, to |-> "PENDING", seen |-> Len(@) + 1])]
            /\ members' = [members EXCEPT ![c][job[q].user] = [role |-> OWNER_ROLE, status |-> "ACTIVE"]]
  /\ Leave(q)

\* resubmitCorporate: who may, then what the company's status is, then the identifier.
FindApplicant(q, u, n) ==
  /\ At(q, "new")
  /\ \E c \in findActiveMemberships(u) :
       /\ members[c][u].role \in MEMBER_MANAGING_ROLES
       /\ Goto(q, [at |-> "rejected", number |-> n, company |-> c, record |-> 0])
  /\ UNCHANGED corporate

FindRejected(q) ==
  /\ At(q, "rejected")
  /\ IF companies[job[q].company].verification = "REJECTED"
     THEN Proceed(q, "duplicate") ELSE Leave(q)
  /\ UNCHANGED corporate

InsertResubmission(q) ==
  /\ At(q, "resubmit")
  /\ InsertRecord(q, "REJECTED", "PENDING", "resubmit:update")

\* A taken identifier fails the update and takes the record back with it.
ResubmitRegistration(q) ==
  /\ At(q, "resubmit:update")
  /\ findByRegistration(job[q].number) \ {job[q].company} = {}
  /\ UpdateAccount(q, [number |-> job[q].number, verification |-> "PENDING", account |-> "INACTIVE"])

---------------------------------------------------------------------------
\* approve and reject.
FindForDecision(q, c, to) ==
  /\ At(q, "new")
  /\ companies[c] # None /\ companies[c].verification # to
  /\ to \in {"APPROVED", "REJECTED"}
  /\ Goto(q, [at |-> "decide", company |-> c, from |-> companies[c].verification, to |-> to, record |-> 0])
  /\ UNCHANGED corporate

InsertDecision(q) ==
  /\ At(q, "decide")
  /\ InsertRecord(q, job[q].from, job[q].to, "decide:update")

RecordDecision(q) ==
  /\ At(q, "decide:update")
  /\ UpdateAccount(q, [companies[job[q].company] EXCEPT
       !.verification = job[q].to,
       !.account = IF job[q].to = "APPROVED" THEN "ACTIVE" ELSE @])

\* suspend and reactivate: the operational axis only.
FindForStatusChange(q, c, target) ==
  /\ At(q, "new")
  /\ companies[c] # None
  /\ companies[c].verification = "APPROVED" /\ companies[c].account # target
  /\ Goto(q, [at |-> "operate", company |-> c, from |-> companies[c].verification, to |-> target, record |-> 0])
  /\ UNCHANGED corporate

InsertStatusChange(q) ==
  /\ At(q, "operate")
  /\ InsertRecord(q, job[q].from, job[q].from, "operate:update")

\* Mutant: the write restores the verification that was read as well.
RecordBothAxes(q) ==
  /\ At(q, "operate:update")
  /\ UpdateAccount(q, [companies[job[q].company] EXCEPT !.account = job[q].to, !.verification = job[q].from])

RecordAccountStatusChange(q) ==
  /\ At(q, "operate:update")
  /\ UpdateAccount(q, [companies[job[q].company] EXCEPT !.account = job[q].to])

---------------------------------------------------------------------------
\* Member changes.  resolveActiveMembership and assertCanManageMembers come
\* first; the target is looked up in the caller's company only.
ResolveManager(q, u, v, step, role) ==
  /\ At(q, "new")
  /\ \E c \in findActiveMemberships(u) :
       /\ companies[c].verification = "APPROVED"
       /\ members[c][u].role \in MEMBER_MANAGING_ROLES
       /\ Goto(q, [at |-> step, company |-> c, by |-> u, user |-> v, role |-> role])
  /\ UNCHANGED corporate

\* addMember refuses a person of another company, and only that.
FindElsewhere(q) ==
  /\ At(q, "add")
  /\ IF findActiveMemberships(job[q].user) \ {job[q].company} # {}
     THEN Leave(q) ELSE Proceed(q, "upsert")
  /\ UNCHANGED corporate

\* upsertMember writes the role of a row that exists as well as of a new one.
UpsertMember(q) ==
  /\ At(q, "upsert")
  /\ members' = [members EXCEPT ![job[q].company][job[q].user] =
                   [role |-> job[q].role, status |-> "ACTIVE"]]
  /\ Leave(q)
  /\ UNCHANGED <<companies, history>>

FindMemberToUpdate(q) ==
  /\ At(q, "update")
  /\ IF IsMember(job[q].company, job[q].user) /\ members[job[q].company][job[q].user].role # OWNER_ROLE
     THEN Proceed(q, "setRole") ELSE Leave(q)
  /\ UNCHANGED corporate

SetMemberRole(q) ==
  /\ At(q, "setRole")
  /\ members' = [members EXCEPT ![job[q].company][job[q].user].role = job[q].role]
  /\ Leave(q)
  /\ UNCHANGED <<companies, history>>

\* Never the last owner, never oneself.
countActiveOwners(c) ==
  Cardinality({u \in Person : IsMember(c, u) /\ members[c][u].role = OWNER_ROLE})

FindMemberToRemove(q) ==
  /\ At(q, "remove")
  /\ LET c == job[q].company
         u == job[q].user
     IN IF /\ IsMember(c, u)
           /\ members[c][u].role = OWNER_ROLE => countActiveOwners(c) > 1
           /\ u # job[q].by
        THEN Proceed(q, "setRemoved") ELSE Leave(q)
  /\ UNCHANGED corporate

RemoveMember(q) ==
  /\ At(q, "setRemoved")
  /\ members' = [members EXCEPT ![job[q].company][job[q].user].status = "REMOVED"]
  /\ Leave(q)
  /\ UNCHANGED <<companies, history>>

---------------------------------------------------------------------------
\* The login and ordering gates: a usable company lets its member pass, none at
\* all has no opinion, and a rejection stops ordering but not signing in.
Usable(c) == companies[c].verification = "APPROVED" /\ companies[c].account = "ACTIVE"

Blocked(u) == findActiveMemberships(u) # {} /\ ~\E c \in findActiveMemberships(u) : Usable(c)

decideCorporateOrdering(u) == ~Blocked(u)

\* The reason reported is the most actionable one: pending, then approved, then rejected.
decideCorporateAccess(u) ==
  Blocked(u) => \A c \in findActiveMemberships(u) : companies[c].verification = "REJECTED"

AskToOrder(q, u) ==
  /\ At(q, "new")
  /\ decideCorporateOrdering(u)
  /\ Goto(q, [at |-> "done", user |-> u])
  /\ UNCHANGED corporate

AskToSignIn(q, u) ==
  /\ At(q, "new")
  /\ decideCorporateAccess(u) /\ ~decideCorporateOrdering(u)
  /\ Leave(q)
  /\ UNCHANGED corporate

CorporateNext(q) ==
  \/ \E u \in Person, n \in Number : FindOwnMemberships(q, u, n) \/ FindApplicant(q, u, n)
  \/ FindDuplicate(q) \/ CreateRegistration(q)
  \/ FindRejected(q) \/ InsertResubmission(q) \/ ResubmitRegistration(q) \/ RollBack(q)
  \/ \E c \in Company, to \in {"APPROVED", "REJECTED"} : FindForDecision(q, c, to)
  \/ InsertDecision(q) \/ RecordDecision(q)
  \/ \E c \in Company, to \in {"SUSPENDED", "ACTIVE"} : FindForStatusChange(q, c, to)
  \/ InsertStatusChange(q) \/ RecordAccountStatusChange(q)
  \/ \E u, v \in Person :
       \/ \E role \in ASSIGNABLE_MEMBER_ROLES, step \in {"add", "update"} :
            ResolveManager(q, u, v, step, role)
       \/ ResolveManager(q, u, v, "remove", None)
  \/ FindElsewhere(q) \/ UpsertMember(q)
  \/ FindMemberToUpdate(q) \/ SetMemberRole(q)
  \/ FindMemberToRemove(q) \/ RemoveMember(q)
  \/ \E u \in Person : AskToOrder(q, u) \/ AskToSignIn(q, u)

\* A run begins with one approved company and its owner, or with none.
Founded(c, u, n) ==
  /\ companies = [k \in Company |-> IF k = c THEN [number |-> n, verification |-> "APPROVED", account |-> "ACTIVE"]
                                   ELSE None]
  /\ members = [k \in Company |-> [v \in Person |-> IF k = c /\ v = u THEN [role |-> OWNER_ROLE, status |-> "ACTIVE"]
                                                    ELSE None]]
  /\ history = [k \in Company |-> IF k = c THEN <<[from |-> None, to |-> "PENDING", seen |-> 1],
                                                  [from |-> "PENDING", to |-> "APPROVED", seen |-> 2]>>
                                  ELSE << >>]

CorporateInit ==
  \/ \E c \in Company, u \in Person, n \in Number : Founded(c, u, n)
  \/ /\ companies = [k \in Company |-> None]
     /\ members = [k \in Company |-> [v \in Person |-> None]]
     /\ history = [k \in Company |-> << >>]

CorporateSpec ==
  RequestsInit /\ CorporateInit /\ [][\E q \in Request : CorporateNext(q)]_<<job, corporate>>

CorporateTypeOK ==
  /\ companies \in [Company -> CompanyRow \cup {None}]
  /\ members \in [Company -> [Person -> MemberRow \cup {None}]]
  /\ history \in [Company -> Seq(VerificationRecord)]

---------------------------------------------------------------------------
\* The decisions in force or past: committed, and not a suspension's or a
\* reactivation's record, whose two ends are the same.
Decisions(c) ==
  {i \in DOMAIN history[c] : history[c][i].seen # 0 /\ history[c][i].from # history[c][i].to}

\* The history tells a company's standing (BR-207), up to writes that overlapped:
\* its status is what a committed decision says, every other one was recorded
\* before that one committed, and no company operates or is suspended that no
\* record approved.  So with no two writes at once the status is the latest
\* decision, which is more than two reviewers at once leave true.
HistoryTellsStatus ==
  \A c \in Company : companies[c] # None =>
    /\ \E i \in Decisions(c) : /\ history[c][i].to = companies[c].verification
                              /\ \A k \in Decisions(c) : k <= history[c][i].seen
    /\ companies[c].account # "INACTIVE" =>
         \E i \in DOMAIN history[c] : history[c][i].seen # 0 /\ history[c][i].to = "APPROVED"
===============================================================================
