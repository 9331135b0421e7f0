----------------------------- MODULE MCConsumers -----------------------------
(***************************************************************************)
(* The two kinds of socket share no state: a behaviour of this model is one *)
(* of the chat or one of the notifications.                                 *)
(***************************************************************************)
EXTENDS Chat, Notifications, TLC
CONSTANTS a, b, student, boss,
          MaxBusy   \* bound: sockets that are connected and twice the requests under way
VARIABLE socketOf
Symmetry == Permutations(Request)

MCSide == a :> "student" @@ b :> "trainer"
\* a text, a deletion, one that takes it back, the form of a PUT
MCBody == {[on |-> {}, off |-> {}], [on |-> {"is_deleted"}, off |-> {}],
           [on |-> {}, off |-> {"is_deleted"}], [on |-> {}, off |-> Flag]}
MCOwner == a :> student @@ b :> boss

FewBusy == Cardinality(Members) + 2 * Cardinality({r \in Request : request[r].id # 0}) <= MaxBusy

Init == RoomInit /\ BadgeInit /\ socketOf \in {"chat", "notifications"}
Next == /\ UNCHANGED socketOf
        /\ \/ socketOf = "chat" /\ RoomNext /\ UNCHANGED badgeVars
           \/ socketOf = "notifications" /\ BadgeNext /\ UNCHANGED chatVars
Spec == Init /\ [][Next]_<<chatVars, badgeVars, socketOf>>
=============================================================================
