---------------------------- MODULE MCInventoryTx ----------------------------
(***************************************************************************)
(* Two sessions at a time on two tankers, two orders and two row ids: every *)
(* pair of operations interleaves in every way, on one tanker and on two.   *)
(***************************************************************************)
EXTENDS InventoryTx, TLC

CONSTANTS r1, r2, o1, o2, v1, v2, t1, t2

MCReservation == {r1, r2}
MCOrder == {o1, o2}
MCVehicle == {v1, v2}
MCTx == {t1, t2}
MCQuantity == {1}
MCCapacity == (v1 :> 2) @@ (v2 :> 1)
MCOpening == (v1 :> 1) @@ (v2 :> 1)
MCMovement == {-2, -1, 1}
MCObserved == {0}

\* Two people dip the same tank at once; both read the same dipstick.
OnlyDips == {"DIP"}
SameObservation == {1}
DipCapacity == (v1 :> 2) @@ (v2 :> 2)
DipOpening == (v1 :> 2) @@ (v2 :> 0)
AllOperations == {"HOLD", "SETTLE", "ADJUST", "DIP"}
================================================================================
