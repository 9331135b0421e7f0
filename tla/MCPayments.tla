----------------------------- MODULE MCPayments -----------------------------
(***************************************************************************)
(* Instances of Payments: a plain order, two webinar orders of one seat,   *)
(* and two orders of one ebook registration, MaxOrders of them created.    *)
(***************************************************************************)
EXTENDS Payments, FiniteSets, TLC

CONSTANTS plain1, webinar1, webinar2, ebook1, ebook2, t1, t2, t3, seat, copy,
    MaxOrders,   \* bound: orders that are created
    Capturable   \* bound: the orders whose payment may be captured

Kinds == [o \in Order |-> CASE o = plain1 -> "plain"
                            [] o \in {webinar1, webinar2} -> "webinar"
                            [] OTHER -> "ebook"]
RegOfOrder == [o \in Order |-> IF o \in {ebook1, ebook2} THEN copy ELSE seat]
ThreadSymmetry == Permutations(Thread)

Asked == {o \in Order : txn[o].status # "none"}
         \cup {OrderAt(t) : t \in {t \in Thread : At(t, "first") \/ At(t, "create")}}
FewOrders == /\ Cardinality(Asked) <= MaxOrders
             /\ \A o \in Order : Captured(o) => o \in Capturable
=============================================================================
