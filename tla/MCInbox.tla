------------------------------ MODULE MCInbox -------------------------------
(***************************************************************************)
(* Instances of Inbox: any two of the messages at a time.                  *)
(***************************************************************************)
EXTENDS Inbox, TLC

CONSTANT MaxBegun   \* bound: messages that were sent or received at all

InboxSymmetry ==
    Permutations(In) \cup Permutations(Out) \cup Permutations(Process)
        \cup Permutations(Consumer)

Begun == acked \cup {x \in Out : \/ open[x] # None \/ out[x] # "none"
                                 \/ Underway(x) \/ x \in lost \/ got[x] > 0}
FewBegun == Cardinality(Begun) <= MaxBegun
=============================================================================
