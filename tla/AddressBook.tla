------------------------------ MODULE AddressBook ------------------------------
(***************************************************************************)
(* A customer's profile and delivery addresses (customer/services/customer   *)
(* and address, and their repositories).  A transaction is what it reads,    *)
(* then what it commits: its row locks hold its writes back until then, and  *)
(* a write by id does not look at the row again.  The text of an address is  *)
(* left out; a new coordinate only changes the cached serviceability.        *)
(***************************************************************************)
EXTENDS Requests, Integers, SequencesExt

CONSTANTS
  Owner,          \* customers
  MaxSaved,       \* MAX_ADDRESSES_PER_USER
  MaxAddresses    \* bound: addresses ever saved

ASSUME AddressLimit == MaxSaved \in Nat \ {0}
ASSUME BookBound == MaxAddresses \in Nat \ {0, 1}   \* a run may begin with two

VARIABLES
  profiles,       \* customer_profiles: whether marketing was agreed to
  addresses       \* addresses, by creation

book == <<profiles, addresses>>

Consent == [optIn : BOOLEAN, asked : BOOLEAN]   \* asked: marketingOptInAt is set

AddressRow ==
  [owner : Owner, default : BOOLEAN, archived : BOOLEAN, edits : Nat,
   serviceable : {TRUE, None}]

SavedBy(u, a) == addresses[a].owner = u /\ ~addresses[a].archived

findForUser(u) == {a \in DOMAIN addresses : SavedBy(u, a)}
countForUser(u) == Cardinality(findForUser(u))

\* addresses_one_default_per_user.
OneDefaultIn(rows) ==
  \A a, b \in DOMAIN rows :
    (\A c \in {a, b} : rows[c].default /\ ~rows[c].archived) /\ rows[a].owner = rows[b].owner => a = b

Commits(rows) == addresses' = IF OneDefaultIn(rows) THEN rows ELSE addresses

\* updateMany where isDefault: no address of u but one (0 for none) stays the default.
ClearDefault(u, but) ==
  [a \in DOMAIN addresses |->
     IF SavedBy(u, a) /\ a # but THEN [addresses[a] EXCEPT !.default = FALSE] ELSE addresses[a]]

\* A provider that fails leaves the address unchecked; it is saved anyway.
checkServiceability == {TRUE, None}

AsksBook(q, r) == At(q, "new") /\ Goto(q, r) /\ UNCHANGED book

---------------------------------------------------------------------------
\* registerCustomer looks for a profile, then inserts; the second is refused.
RegisterCustomer(q, u) ==
  profiles[u] = None /\ AsksBook(q, [at |-> "insertProfile", owner |-> u])

InsertProfile(q) ==
  /\ At(q, "insertProfile")
  /\ \E agree \in BOOLEAN :
       profiles' = [profiles EXCEPT ![job[q].owner] =
                      IF @ = None THEN [optIn |-> agree, asked |-> agree] ELSE @]
  /\ Leave(q)
  /\ UNCHANGED addresses

\* updateCustomerProfile: consent is dated only when it changes, and against the row read first.
UpdateProfile(q, u) ==
  /\ profiles[u] # None
  /\ \E agree \in BOOLEAN :
       AsksBook(q, [at |-> "setProfile", owner |-> u, agree |-> agree, changes |-> agree # profiles[u].optIn])

SetProfile(q) ==
  /\ At(q, "setProfile")
  /\ profiles' = [profiles EXCEPT ![job[q].owner] =
                    IF job[q].changes THEN [optIn |-> job[q].agree, asked |-> job[q].agree] ELSE @]
  /\ Leave(q)
  /\ UNCHANGED addresses

---------------------------------------------------------------------------
\* createAddress: the count, then the provider, then one transaction.  The first
\* address is the default.
CreateAddress(q, u) ==
  /\ countForUser(u) < MaxSaved
  /\ \E wanted \in BOOLEAN, s \in checkServiceability :
       AsksBook(q, [at |-> "saveAddress", owner |-> u, serviceable |-> s,
                    default |-> wanted \/ countForUser(u) = 0])

SaveAddress(q) ==
  /\ At(q, "saveAddress")
  /\ Len(addresses) < MaxAddresses
  /\ LET u == job[q].owner
         rest == IF job[q].default THEN ClearDefault(u, 0) ELSE addresses
     IN Commits(Append(rest, [owner |-> u, default |-> job[q].default, archived |-> FALSE,
                              edits |-> 0, serviceable |-> job[q].serviceable]))
  /\ Leave(q)
  /\ UNCHANGED profiles

\* updateForUser: the row is looked up, then written by id.
UpdateAddress(q, u, a) ==
  /\ a \in findForUser(u)
  /\ \E wanted \in BOOLEAN, s \in checkServiceability \cup {addresses[a].serviceable} :
       AsksBook(q, [at |-> "editAddress", address |-> a, default |-> wanted, serviceable |-> s])

EditAddress(q) ==
  /\ At(q, "editAddress")
  /\ LET a == job[q].address
         rest == IF job[q].default THEN ClearDefault(addresses[a].owner, a) ELSE addresses
     IN Commits([rest EXCEPT ![a].default = @ \/ job[q].default, ![a].edits = @ + 1,
                             ![a].serviceable = job[q].serviceable])
  /\ Leave(q)
  /\ UNCHANGED profiles

\* archiveForUser: the row, then the most recently edited other one if it was the default.
ArchiveAddress(q, u, a) ==
  /\ a \in findForUser(u)
  /\ AsksBook(q, [at |-> IF addresses[a].default THEN "promote" ELSE "archive",
                  address |-> a, next |-> 0])

FindNextDefault(q) ==
  /\ At(q, "promote")
  /\ LET a == job[q].address
         others == findForUser(addresses[a].owner) \ {a}
     IN \E n \in IF others = {} THEN {0} ELSE {o \in others : \A p \in others : addresses[p].edits <= addresses[o].edits} :
          Goto(q, [job[q] EXCEPT !.at = "archive", !.next = n])
  /\ UNCHANGED book

CommitArchive(q) ==
  /\ At(q, "archive")
  /\ Commits([a \in DOMAIN addresses |->
       CASE a = job[q].address -> [addresses[a] EXCEPT !.archived = TRUE, !.default = FALSE]
         [] a = job[q].next    -> [addresses[a] EXCEPT !.default = TRUE]
         [] OTHER              -> addresses[a]])
  /\ Leave(q)
  /\ UNCHANGED profiles

BookNext(q) ==
  \/ \E u \in Owner :
       \/ RegisterCustomer(q, u) \/ UpdateProfile(q, u) \/ CreateAddress(q, u)
       \/ \E a \in DOMAIN addresses : UpdateAddress(q, u, a) \/ ArchiveAddress(q, u, a)
  \/ InsertProfile(q) \/ SetProfile(q) \/ SaveAddress(q) \/ EditAddress(q)
  \/ FindNextDefault(q) \/ CommitArchive(q)

\* A customer arrives with nothing, or registered with saved addresses.
NewAddress(u, isDefault) ==
  [owner |-> u, default |-> isDefault, archived |-> FALSE, edits |-> 0, serviceable |-> TRUE]

BookInit ==
  \/ profiles = [u \in Owner |-> None] /\ addresses = << >>
  \/ /\ profiles = [u \in Owner |-> [optIn |-> FALSE, asked |-> FALSE]]
     /\ \E u \in Owner : addresses \in {<<NewAddress(u, TRUE)>>, <<NewAddress(u, FALSE), NewAddress(u, TRUE)>>}

BookTypeOK ==
  /\ profiles \in [Owner -> Consent \cup {None}]
  /\ addresses \in Seq(AddressRow) /\ Len(addresses) <= MaxAddresses
===============================================================================
