------------------------------- MODULE OneAnswer -------------------------------
(***************************************************************************)
(* What an idempotency key promises its clients (BR-803): whoever presents   *)
(* it asks for one thing and is given one answer, for ever.                  *)
(***************************************************************************)
CONSTANT Key

VARIABLE given   \* what clients of a key asked for, with the answer they were given

Init == given = [k \in Key |-> {}]

Give(k) == \E a \in given'[k] : given[k] = {} /\ given' = [given EXCEPT ![k] = {a}]

Next == \E k \in Key : Give(k)

Spec == Init /\ [][Next]_given
===============================================================================
