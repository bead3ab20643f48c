----------------------------- MODULE MCDelivery -----------------------------
(***************************************************************************)
(* Delivery for TLC: one node, two commands, two events.                   *)
(***************************************************************************)
EXTENDS Delivery

CONSTANTS c1, c2, e1, e2

Sole(ids) == IF ids = {} THEN 0 ELSE CHOOSE n \in ids : TRUE
OneDisturbed == {S \in SUBSET Parts : Cardinality(S) <= 1}
=============================================================================
