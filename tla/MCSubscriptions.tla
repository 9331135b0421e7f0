--------------------------- MODULE MCSubscriptions ---------------------------
(***************************************************************************)
(* Instances of Subscriptions: a free account and one plan for sale.       *)
(***************************************************************************)
EXTENDS Subscriptions

CONSTANTS pro, free, parse

Limits == [p \in {pro, free} |-> [f \in Feature |-> IF p = pro THEN 2 ELSE 1]]
==============================================================================
