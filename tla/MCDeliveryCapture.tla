-------------------------- MODULE MCDeliveryCapture --------------------------
(***************************************************************************)
(* DeliveryCapture with two litres ordered and readings of 0, 1 and 2: full, *)
(* partial, empty and regressing deliveries.  Arriving, starting and one     *)
(* submission take three requests; the others are repeats, a second driver   *)
(* tap or an operator.                                                       *)
(***************************************************************************)
EXTENDS DeliveryCapture

CONSTANTS q1, q2, q3, q4, d1, d2

ThreeRequests == {q1, q2, q3}
FourRequests == {q1, q2, q3, q4}
OneDelivery == {d1}
TwoDeliveries == {d1, d2}
OneFails == {d2}
NoneFails == {}
Meter == {"METER"}
EitherMeasure == {"METER", "STOCK"}
Figures == {0, 1, 2}
EndPoints == {0, 2}
NoTarget == {}
SomeTargets == {"CANCELLED_BY_ADMIN", "DISPENSING", "CLOSED"}
==============================================================================
