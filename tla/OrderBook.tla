----------------------------- MODULE OrderBook -----------------------------
(***************************************************************************)
(* What a customer may rely on when paying for a registration              *)
(* (src/Aryu/payments, webinar, ebook): an order is opened, paid at most   *)
(* once and stays paid; access is given only on account of a paid order    *)
(* and is never taken away.                                                *)
(***************************************************************************)
CONSTANTS Order, Reg, RegOf

VARIABLES state,   \* state[o]: absent, open or paid
          access   \* the registrations with access

TypeOK == state \in [Order -> {"absent", "open", "paid"}] /\ access \in SUBSET Reg

Init == state = [o \in Order |-> "absent"] /\ access = {}

Open(o) == /\ state[o] = "absent"
           /\ state' = [state EXCEPT ![o] = "open"] /\ UNCHANGED access

\* the payment is recorded, and access may come with it
Pay(o) == /\ state[o] = "open"
          /\ state' = [state EXCEPT ![o] = "paid"]
          /\ access' \in {access, access \cup {RegOf[o]}}

Grant(o) == /\ state[o] = "paid"
            /\ access' = access \cup {RegOf[o]} /\ UNCHANGED state

Next == \E o \in Order : Open(o) \/ Pay(o) \/ Grant(o)

Spec == Init /\ [][Next]_<<state, access>>
=============================================================================
