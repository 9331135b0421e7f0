----------------------------- MODULE MCLiveQuiz -----------------------------
(***************************************************************************)
(* Three rooms for TLC: one where the host and a participant have a single *)
(* socket each, which come and go, and two where the participant has two   *)
(* tabs, or the room two hosts, all of which are there from the start to   *)
(* the end of a shorter quiz.                                              *)
(***************************************************************************)
EXTENDS LiveQuiz

CONSTANTS host, anna, admin, deputy, tab1, tab2, q1, q2,
    Few   \* bound: messages of the hosts in a room with three sockets
VARIABLE room

MCOwner == [s \in Socket |-> IF s \in {admin, deputy} THEN host ELSE anna]
Present == CASE room = "single" -> {admin, tab1}
             [] room = "tabs" -> {admin, tab1, tab2}
             [] room = "hosts" -> {admin, deputy, tab1}

MCInit == Init /\ room \in {"single", "tabs", "hosts"}
MCNext == /\ UNCHANGED room
          /\ \/ \E s \in Present : Handle(s) \/ Ask(s)
             \/ \E task \in saving : SaveAnswer(task)
          /\ room = "single" \/ commands' = 0 \/ (commands' <= Few /\ Connected' = Present)
MCSpec == MCInit /\ [][MCNext]_<<vars, room>>
=============================================================================
