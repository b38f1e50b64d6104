---------------------------- MODULE MCOrderDispatch ----------------------------
(***************************************************************************)
(* OrderDispatch with one order of one litre and two tankers that each have  *)
(* one.  Two requests besides the create request and the sweep are four      *)
(* processes at work on the order; the row ids are as many as they can use.  *)
(***************************************************************************)
EXTENDS OrderDispatch, TLC

CONSTANTS r1, r2, r3, r4, r5, o1, v1, v2, q1, q2, s1

OneOrder == {o1}
TwoTankers == {v1, v2}
OneRequest == {q1}
TwoRequests == {q1, q2}
ThreeRows == {r1, r2, r3}
FiveRows == {r1, r2, r3, r4, r5}
OneLitre == {1}
OneLitreEach == [o \in Order |-> 1]
Tanks == (v1 :> 2) @@ (v2 :> 1)
LowTanks == (v1 :> 1) @@ (v2 :> 1)
NoMovement == {}
Confirmed == {"CONFIRMED"}
EitherPayment == {"CONFIRMED", "PENDING_PAYMENT"}
NoOrder == {}

\* v2 holds the fuel but is not dispatchable: an accept on it finds out late.
OnlyFirst == {v1}

NoTarget == {}
SomeTargets == {"CONFIRMED", "ALLOCATING", "ASSIGNED", "EN_ROUTE"}

AllKinds ==
  {"ACCEPT", "REJECT", "START_TRIP", "CANCEL_OWN", "CANCEL_ADMIN", "ADMIN_MOVE",
   "ADMIN_RESERVE", "ADMIN_RELEASE", "SWEEP"}
PoolKinds == {"ACCEPT", "REJECT", "CANCEL_OWN", "CANCEL_ADMIN", "SWEEP"}
CancelOnly == {"CANCEL_OWN"}
AcceptAndSweep == {"ACCEPT", "SWEEP"}

\* Requests are alike; the row ids are not permuted, FreshRow chooses among them.
Symmetry == Permutations(Request)
================================================================================
