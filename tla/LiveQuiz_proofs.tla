-------------------------- MODULE LiveQuiz_proofs --------------------------
(***************************************************************************)
(* Theorems about LiveQuiz, for every number of questions, participants and *)
(* commands, and every interleaving of any number of sockets of each: the  *)
(* result of a question that has ended, what clients show, and the boards. *)
(***************************************************************************)
EXTENDS LiveQuiz, SequenceTheorems, FiniteSetTheorems, TLAPS

-----------------------------------------------------------------------------
(* The invariant                                                            *)

\* only a host runs commands, only a participant answers
HostLabel == {"clear", "run", "end", "result", "announce"}
PlayerLabel == {"check", "mark", "rank", "zero", "award"}
Roles == \A s \in Socket : /\ conn[s].pc \in HostLabel => s \in Hosts
                           /\ conn[s].pc \in PlayerLabel => s \in Players

\* what a host has written or will write is about the current question, since
\* nobody else changes it
Commanding == \A h \in Socket :
    /\ conn[h].pc \in HostLabel => conn[h].q = current.q
    /\ At(h, "clear") \/ At(h, "run") =>
         current.status = "preview" /\ conn[h].status = "running"
    /\ At(h, "run") => starts[current.q] > 0
    /\ At(h, "end") => current.status # "none" /\ conn[h].status = "ended"
    /\ At(h, "result") => current.status = "ended" /\ conn[h].status = "ended"
    /\ At(h, "announce") => current.status = conn[h].status /\ current.status # "none"

\* a question runs only after its answers were cleared
Started == current.status = "running" => starts[current.q] > 0

Stored == current.status = "ended" =>
    current.q \in results \/ \E h \in Hosts : At(h, "result")

\* the current state was written and is not announced yet: what clients have
\* seen so far does not matter, unless a start is to be announced, which names
\* no question
Replaced == \E h \in Hosts : \/ At(h, "result")
                             \/ At(h, "announce") /\ conn[h].status # "running"
Starting == \E h \in Hosts : At(h, "announce") /\ conn[h].status = "running"

\* the last message that a client has yet to read announces the current state;
\* if it is a start, the client shows, or reads just before it, that question
Last(s) == inbox[s][Len(inbox[s])]
QueueTells(s) == inbox[s] # <<>> =>
    /\ ~Starting => Last(s) = current
    /\ Starting => Last(s) = [q |-> current.q, status |-> "preview"]
    /\ Len(inbox[s]) > 1 /\ Last(s).status = "running" =>
         inbox[s][Len(inbox[s]) - 1] = [q |-> current.q, status |-> "preview"]

ScreenTells(s) ==
    /\ inbox[s] = <<>> /\ ~Starting => screen[s].status = current.status
    /\ inbox[s] = <<>> /\ current.status # "none" => screen[s].q = current.q
    /\ Len(inbox[s]) = 1 /\ Last(s).status = "running" => screen[s].q = current.q

Shown == ~Replaced => \A s \in Connected : QueueTells(s) /\ (~At(s, "restore") => ScreenTells(s))

Room == Commanding /\ Started /\ Stored /\ Shown
RoomInv == TypeOK /\ Roles /\ Room

\* two sockets of one owner are in the middle of something only after they overlapped
Alone == \A s, u \in Socket :
    s # u /\ Owner[s] = Owner[u] /\ Busy(s) /\ Busy(u) => Owner[s] \in overlapped

\* an answer of p that is marked and not counted yet has a start left for it
Tabs(p) == {s \in Socket : Owner[s] = p}
Counting(s) == conn[s].pc \in {"rank", "zero", "award"}
Marks(p, s) == LET q == conn[s].q IN
    /\ conn[s].pc \in PlayerLabel => starts[q] > 0
    /\ At(s, "mark") => p \notin answered[q]
    /\ Counting(s) => awarded[p][q] < starts[q]
    /\ Counting(s) /\ p \notin answered[q] => awarded[p][q] + 1 < starts[q]
Awarding(p) ==
    /\ \A q \in Question : awarded[p][q] <= starts[q]
    /\ \A s \in Tabs(p) : Marks(p, s)
    /\ \A q \in Question : p \notin answered[q] /\ starts[q] > 0 => awarded[p][q] < starts[q]

\* rows of p that are stored or will be, and the points they are worth
Rows(p) == {row \in saving \cup answers \cup lost : row.by = p}
Right(p) == {row \in Rows(p) : row.score = 1}
Entered(p, s) == /\ At(s, "zero") => p \notin ranked
                 /\ At(s, "award") => p \in ranked
Boards(p) ==
    /\ IsFiniteSet(Rows(p))
    /\ \A row \in Rows(p) : awarded[p][row.q] > 0
    /\ p \notin ranked => board[p] = 0
    /\ \A s \in Tabs(p) : Entered(p, s)
    /\ (\A q \in Question : starts[q] <= 1) =>
         /\ \A r1, r2 \in Rows(p) : r1.q = r2.q => r1 = r2
         /\ board[p] = Cardinality(Right(p))

AnswerInv(p) == Awarding(p) /\ Boards(p)

QuizInv ==
    /\ TypeOK /\ Roles /\ Alone
    /\ Host \notin overlapped => Room /\ \A p \in Participant \ overlapped : AnswerInv(p)

-----------------------------------------------------------------------------
(* Types                                                                    *)

LEMMA OwnerType == \A s \in Socket : s \in Players <=> Owner[s] \in Participant
  BY LiveQuizAssumption DEF Players, Hosts

LEMMA ClosedType == Closed \in Consumer /\ Waiting \in State
  <1>1. AnyQuestion \in Question
    BY LiveQuizAssumption DEF AnyQuestion
  <1>2. QED
    BY <1>1 DEF Closed, Waiting, Consumer, State, Label, Status, Points

\* what a step of one consumer leaves as it is
Moves(s) == /\ conn' \in [Socket -> Consumer]
            /\ \A u \in Socket \ {s} : conn'[u] = conn[u]

LEMMA GotoDoes ==
  ASSUME TypeOK, NEW s \in Socket, NEW label \in Label, Goto(s, label)
  PROVE  /\ Moves(s) /\ conn'[s].pc = label /\ conn'[s].q = conn[s].q
         /\ conn'[s].status = conn[s].status /\ conn'[s].score = conn[s].score
  <1>1. [conn[s] EXCEPT !.pc = label] \in Consumer
    BY DEF TypeOK, Consumer
  <1>2. conn' = [conn EXCEPT ![s] = [conn[s] EXCEPT !.pc = label]]
    BY DEF Goto
  <1>3. conn'[s] = [conn[s] EXCEPT !.pc = label]
    BY <1>2 DEF TypeOK
  <1>4. conn[s] \in Consumer
    BY DEF TypeOK
  <1>5. Moves(s)
    BY <1>1, <1>2 DEF TypeOK, Moves
  <1>6. QED
    BY <1>3, <1>4, <1>5 DEF Consumer

LEMMA BecomesDoes ==
  ASSUME TypeOK, NEW s \in Socket, NEW c \in Consumer, conn' = [conn EXCEPT ![s] = c]
  PROVE  Moves(s) /\ conn'[s] = c
  BY DEF TypeOK, Moves

LEMMA LocalDoes ==
  ASSUME TypeOK, NEW s \in Socket, NEW label \in Label, NEW q \in Question,
         NEW status \in Status, Local(s, label, q, status)
  PROVE  /\ Moves(s) /\ conn'[s].pc = label /\ conn'[s].q = q /\ conn'[s].status = status
  <1> DEFINE c == [pc |-> label, q |-> q, status |-> status, score |-> 0]
  <1>1. c \in Consumer
    BY DEF Consumer, Points
  <1>2. conn' = [conn EXCEPT ![s] = c]
    BY DEF Local
  <1> HIDE DEF c
  <1>3. Moves(s) /\ conn'[s] = c
    BY <1>1, <1>2, BecomesDoes
  <1>4. QED
    BY <1>3 DEF c

LEMMA BeginDoes ==
  ASSUME TypeOK, NEW s \in Socket, Begin(s)
  PROVE  /\ overlapped' \subseteq Participant \cup {Host} /\ overlapped \subseteq overlapped'
         /\ \A u \in Socket \ {s} : Owner[u] = Owner[s] /\ Busy(u) => Owner[s] \in overlapped'
  BY LiveQuizAssumption DEF TypeOK, Begin

LEMMA SubmitDoes ==
  ASSUME TypeOK, NEW s \in Socket, NEW score \in Points, Submit(s, score)
  PROVE  Moves(s) /\ conn'[s].pc = "check" /\ conn'[s].q = current.q
  <1> DEFINE c == [pc |-> "check", q |-> current.q, status |-> "running", score |-> score]
  <1>1. c \in Consumer
    BY DEF TypeOK, State, Consumer, Label, Status
  <1>2. conn' = [conn EXCEPT ![s] = c]
    BY DEF Submit
  <1> HIDE DEF c
  <1>3. Moves(s) /\ conn'[s] = c
    BY <1>1, <1>2, BecomesDoes
  <1>4. QED
    BY <1>3 DEF c

LEMMA MovesRoles ==
  ASSUME TypeOK, Roles, NEW s \in Socket, Moves(s),
         /\ conn'[s].pc \in HostLabel => s \in Hosts
         /\ conn'[s].pc \in PlayerLabel => s \in Players
  PROVE  conn' \in [Socket -> Consumer] /\ Roles'
  BY DEF Roles, Moves, Hosts, Players

LEMMA InitTypes == Init => TypeOK /\ Roles
  <1> SUFFICES ASSUME Init PROVE TypeOK /\ Roles
    OBVIOUS
  <1>1. \A s \in Socket : conn[s] = Closed /\ conn[s].pc = "closed"
    BY DEF Init, Closed
  <1>2. Roles
    BY <1>1 DEF Roles, HostLabel, PlayerLabel
  <1>3. inbox \in [Socket -> Seq(State)]
    BY DEF Init
  <1>4. commands \in 0 .. MaxCommands
    BY LiveQuizAssumption DEF Init
  <1>5. QED
    BY <1>2, <1>3, <1>4, ClosedType DEF Init, TypeOK

LEMMA NextTypes == TypeOK /\ Roles /\ [Next]_vars => TypeOK' /\ Roles'
  <1> SUFFICES ASSUME TypeOK, Roles, [Next]_vars PROVE TypeOK' /\ Roles'
    OBVIOUS
  <1> DEFINE Conn == conn' \in [Socket -> Consumer] /\ Roles'
  <1>1. ASSUME NEW s \in Socket, Connect(s) PROVE TypeOK' /\ Roles'
    <2>1. Goto(s, "restore")
      BY <1>1 DEF Connect
    <2>2. Conn
      BY <2>1, <1>1, GotoDoes, MovesRoles DEF Connect, At, Label, Roles, HostLabel, PlayerLabel
    <2>3. <<>> \in Seq(State)
      OBVIOUS
    <2>4. QED
      BY <1>1, <2>2, <2>3 DEF Connect, TypeOK, redis
  <1>2. ASSUME NEW s \in Socket, Restore(s) PROVE TypeOK' /\ Roles'
    <2>1. Goto(s, "open")
      BY <1>2 DEF Restore
    <2>2. Conn
      BY <2>1, <1>2, GotoDoes, MovesRoles DEF Restore, At, Label, Roles, HostLabel, PlayerLabel
    <2>3. QED
      BY <1>2, <2>2 DEF Restore, TypeOK, redis
  <1>3. ASSUME NEW s \in Socket, Announce(s) PROVE TypeOK' /\ Roles'
    <2>1. Goto(s, "open")
      BY <1>3 DEF Announce
    <2>2. Conn
      BY <2>1, <1>3, GotoDoes, MovesRoles DEF Announce, At, Label, Roles, HostLabel, PlayerLabel
    <2>3. [q |-> conn[s].q, status |-> conn[s].status] \in State
      BY DEF TypeOK, Consumer, State
    <2>4. \A u \in Socket : inbox'[u] \in Seq(State)
      BY <1>3, <2>3, AppendProperties DEF Announce, TypeOK
    <2>5. inbox' \in [Socket -> Seq(State)]
      BY <1>3, <2>4 DEF Announce
    <2>6. QED
      BY <1>3, <2>2, <2>5 DEF Announce, TypeOK, redis
  <1>4. ASSUME NEW s \in Socket, ClearAnswered(s) PROVE TypeOK' /\ Roles'
    <2>1. Goto(s, "run")
      BY <1>4 DEF ClearAnswered
    <2>2. Conn
      BY <2>1, <1>4, GotoDoes, MovesRoles DEF ClearAnswered, At, Label, Roles, HostLabel, PlayerLabel
    <2>3. QED
      BY <1>4, <2>2 DEF ClearAnswered, TypeOK, redis, Consumer
  <1>5. ASSUME NEW s \in Socket, Run(s) PROVE TypeOK' /\ Roles'
    <2>1. Goto(s, "announce")
      BY <1>5 DEF Run
    <2>2. Conn
      BY <2>1, <1>5, GotoDoes, MovesRoles DEF Run, At, Label, Roles, HostLabel, PlayerLabel
    <2>3. QED
      BY <1>5, <2>2 DEF Run, TypeOK, redis, State, Status
  <1>6. ASSUME NEW s \in Socket, EndStatus(s) PROVE TypeOK' /\ Roles'
    <2>1. Goto(s, "result")
      BY <1>6 DEF EndStatus
    <2>2. Conn
      BY <2>1, <1>6, GotoDoes, MovesRoles DEF EndStatus, At, Label, Roles, HostLabel, PlayerLabel
    <2>3. QED
      BY <1>6, <2>2 DEF EndStatus, TypeOK, redis, State, Status
  <1>7. ASSUME NEW s \in Socket, StoreResult(s) PROVE TypeOK' /\ Roles'
    <2>1. Goto(s, "announce")
      BY <1>7 DEF StoreResult
    <2>2. Conn
      BY <2>1, <1>7, GotoDoes, MovesRoles DEF StoreResult, At, Label, Roles, HostLabel, PlayerLabel
    <2>3. QED
      BY <1>7, <2>2 DEF StoreResult, TypeOK, redis, Consumer
  <1>8. ASSUME NEW s \in Socket, CheckAnswered(s) PROVE TypeOK' /\ Roles'
    <2>1. Goto(s, IF Owner[s] \in answered[conn[s].q] THEN "open" ELSE "mark")
      BY <1>8 DEF CheckAnswered
    <2>2. Conn
      BY <2>1, <1>8, GotoDoes, MovesRoles DEF CheckAnswered, At, Label, Roles, HostLabel, PlayerLabel
    <2>3. QED
      BY <1>8, <2>2 DEF CheckAnswered, TypeOK, redis
  <1>9. ASSUME NEW s \in Socket, MarkAnswered(s) PROVE TypeOK' /\ Roles'
    <2>1. Goto(s, "rank")
      BY <1>9 DEF MarkAnswered
    <2>2. Conn
      BY <2>1, <1>9, GotoDoes, MovesRoles DEF MarkAnswered, At, Label, Roles, HostLabel, PlayerLabel
    <2>3. QED
      BY <1>9, <2>2, OwnerType DEF MarkAnswered, TypeOK, redis, Roles, PlayerLabel, At, Consumer
  <1>10. ASSUME NEW s \in Socket, ReadRank(s) PROVE TypeOK' /\ Roles'
    <2>1. Goto(s, IF Owner[s] \in ranked THEN "award" ELSE "zero")
      BY <1>10 DEF ReadRank
    <2>2. Conn
      BY <2>1, <1>10, GotoDoes, MovesRoles DEF ReadRank, At, Label, Roles, HostLabel, PlayerLabel
    <2>3. QED
      BY <1>10, <2>2 DEF ReadRank, TypeOK, redis
  <1>11. ASSUME NEW s \in Socket, EnterBoard(s) PROVE TypeOK' /\ Roles'
    <2>1. Goto(s, "award")
      BY <1>11 DEF EnterBoard
    <2>2. Conn
      BY <2>1, <1>11, GotoDoes, MovesRoles DEF EnterBoard, At, Label, Roles, HostLabel, PlayerLabel
    <2>3. QED
      BY <1>11, <2>2, OwnerType DEF EnterBoard, TypeOK, redis, Roles, PlayerLabel, At
  <1>12. ASSUME NEW s \in Socket, Award(s) PROVE TypeOK' /\ Roles'
    <2>1. Goto(s, "open")
      BY <1>12 DEF Award
    <2>2. Conn
      BY <2>1, <1>12, GotoDoes, MovesRoles DEF Award, At, Label, Roles, HostLabel, PlayerLabel
    <2>3. Owner[s] \in Participant /\ conn[s].q \in Question /\ conn[s].score \in Points
      BY <1>12, OwnerType DEF Award, TypeOK, Roles, PlayerLabel, At, Consumer
    <2>4. [by |-> Owner[s], q |-> conn[s].q, score |-> conn[s].score] \in Answer
      BY <2>3 DEF Answer
    <2>5. board' \in [Participant -> Nat] /\ awarded' \in [Participant -> [Question -> Nat]]
      BY <1>12, <2>3 DEF Award, TypeOK, Points
    <2>6. QED
      BY <1>12, <2>2, <2>4, <2>5 DEF Award, TypeOK, redis
  <1>13. ASSUME NEW s \in Socket, Disconnect(s) PROVE TypeOK' /\ Roles'
    <2>0. conn' = [conn EXCEPT ![s] = Closed] /\ Closed.pc = "closed"
      BY <1>13 DEF Disconnect, Closed
    <2>1. Conn
      BY <2>0, ClosedType, BecomesDoes, MovesRoles DEF HostLabel, PlayerLabel
    <2>2. QED
      BY <1>13, <2>1 DEF Disconnect, TypeOK, redis
  <1>14. ASSUME NEW s \in Socket, Receive(s) PROVE TypeOK' /\ Roles'
    <2>1. Head(inbox[s]) \in State /\ Tail(inbox[s]) \in Seq(State)
      BY <1>14 DEF Receive, TypeOK
    <2>2. Roles'
      BY <1>14 DEF Receive, Roles
    <2>3. QED
      BY <1>14, <2>1, <2>2 DEF Receive, TypeOK, redis, State, Status
  <1>15. ASSUME NEW s \in Socket, NEW q \in Question, SendQuestion(s, q) PROVE TypeOK' /\ Roles'
    <2>1. /\ Local(s, "announce", q, "preview") /\ s \in Hosts /\ commands' \in 0 .. MaxCommands
        /\ overlapped' \subseteq Participant \cup {Host}
      BY <1>15, LiveQuizAssumption, BeginDoes DEF SendQuestion, Command, TypeOK
    <2>2. Conn
      BY <2>1, LocalDoes, MovesRoles DEF TypeOK, State, Label, Status, HostLabel, PlayerLabel
    <2>3. QED
      BY <1>15, <2>1, <2>2 DEF SendQuestion, TypeOK, redis, State, Status
  <1>16. ASSUME NEW s \in Socket, StartQuestion(s) PROVE TypeOK' /\ Roles'
    <2>1. /\ Local(s, "clear", current.q, "running") /\ s \in Hosts /\ commands' \in 0 .. MaxCommands
        /\ overlapped' \subseteq Participant \cup {Host}
      BY <1>16, LiveQuizAssumption, BeginDoes DEF StartQuestion, Command, TypeOK
    <2>2. Conn
      BY <2>1, LocalDoes, MovesRoles DEF TypeOK, State, Label, Status, HostLabel, PlayerLabel
    <2>3. QED
      BY <1>16, <2>1, <2>2 DEF StartQuestion, TypeOK, redis, State, Status
  <1>17. ASSUME NEW s \in Socket, EndQuestion(s) PROVE TypeOK' /\ Roles'
    <2>1. /\ Local(s, "end", current.q, "ended") /\ s \in Hosts /\ commands' \in 0 .. MaxCommands
        /\ overlapped' \subseteq Participant \cup {Host}
      BY <1>17, LiveQuizAssumption, BeginDoes DEF EndQuestion, Command, TypeOK
    <2>2. Conn
      BY <2>1, LocalDoes, MovesRoles DEF TypeOK, State, Label, Status, HostLabel, PlayerLabel
    <2>3. QED
      BY <1>17, <2>1, <2>2 DEF EndQuestion, TypeOK, redis, State, Status
  <1>18. ASSUME NEW s \in Socket, NEW score \in Points, Submit(s, score) PROVE TypeOK' /\ Roles'
    <2>1. Conn
      BY <1>18, SubmitDoes, MovesRoles DEF Submit, HostLabel, PlayerLabel
    <2>2. overlapped' \subseteq Participant \cup {Host}
      BY <1>18, BeginDoes DEF Submit
    <2>3. QED
      BY <1>18, <2>1, <2>2 DEF Submit, TypeOK, redis
  <1>19. ASSUME NEW task \in saving, SaveAnswer(task) PROVE TypeOK' /\ Roles'
    BY <1>19 DEF SaveAnswer, TypeOK, Roles, redis
  <1>20. CASE UNCHANGED vars
    BY <1>20 DEF vars, TypeOK, Roles, redis
  <1>21. QED
    BY <1>1, <1>2, <1>3, <1>4, <1>5, <1>6, <1>7, <1>8, <1>9, <1>10, <1>11, <1>12, <1>13, <1>14,
       <1>15, <1>16, <1>17, <1>18, <1>19, <1>20 DEF Next, Handle, Ask

\* Every reachable state is well typed, for any number of sockets, hosts and tabs:
\* a socket of a participant never runs a command, nor one of a host an answer.
THEOREM TypeCorrect == Spec => []TypeOK
  BY InitTypes, NextTypes, PTL DEF Spec

-----------------------------------------------------------------------------
(* Overlapping                                                              *)

\* no other socket of its owner has a message in hand
Sole(s) == \A u \in Socket \ {s} : Owner[u] = Owner[s] => ~Busy(u)

LEMMA LabelsAreBusy ==
  \A s \in Socket : conn[s].pc \in HostLabel \cup PlayerLabel => Busy(s)
  BY DEF HostLabel, PlayerLabel, Busy

LEMMA SoleIs ==
  ASSUME TypeOK, Alone, NEW s \in Socket, Owner[s] \notin overlapped',
         Begin(s) \/ (Busy(s) /\ overlapped \subseteq overlapped')
  PROVE  Sole(s)
  BY BeginDoes DEF Alone, Sole

\* a socket that goes on, or stops, overlaps with no more than before
LEMMA StepAlone ==
  ASSUME TypeOK, Alone, NEW s \in Socket, Moves(s),
         \/ Begin(s)
         \/ /\ overlapped' = overlapped
            /\ conn'[s].pc \in HostLabel \cup PlayerLabel => Busy(s),
         conn'[s].pc \in HostLabel \cup PlayerLabel \cup {"closed", "restore", "open"}
  PROVE  Alone' /\ overlapped \subseteq overlapped'
  <1>1. overlapped \subseteq overlapped'
    BY BeginDoes
  <1>2. ASSUME NEW v \in Socket, NEW u \in Socket, v # u, Owner[v] = Owner[u], Busy(v)', Busy(u)'
        PROVE  Owner[v] \in overlapped'
    <2>1. CASE v # s /\ u # s
      BY <1>1, <1>2, <2>1 DEF Alone, Moves, Busy
    <2>2. CASE v = s \/ u = s
      <3>1. PICK w \in Socket \ {s} : Owner[w] = Owner[s] /\ Busy(w) /\ Owner[v] = Owner[s]
        BY <1>2, <2>2 DEF Moves, Busy
      <3>2. conn'[s].pc \in HostLabel \cup PlayerLabel
        BY <1>2, <2>2 DEF Busy
      <3>3. CASE Begin(s)
        BY <3>1, <3>3, BeginDoes
      <3>4. CASE Busy(s)
        BY <1>1, <3>1, <3>4 DEF Alone
      <3>5. QED
        BY <3>2, <3>3, <3>4
    <2>3. QED
      BY <2>1, <2>2
  <1>3. QED
    BY <1>1, <1>2 DEF Alone

LEMMA NextAlone ==
  TypeOK /\ Roles /\ Alone /\ [Next]_vars => Alone' /\ overlapped \subseteq overlapped'
  <1> SUFFICES ASSUME TypeOK, Roles, Alone, [Next]_vars
               PROVE  Alone' /\ overlapped \subseteq overlapped'
    OBVIOUS
  <1>1. ASSUME UNCHANGED <<conn, overlapped>> PROVE Alone' /\ overlapped \subseteq overlapped'
    BY <1>1 DEF Alone, Busy
  <1>2. ASSUME NEW s \in Socket, NEW label \in HostLabel \cup PlayerLabel \cup {"open"},
               Goto(s, label), conn[s].pc \in HostLabel \cup PlayerLabel, overlapped' = overlapped
        PROVE  Alone' /\ overlapped \subseteq overlapped'
    <2>1. Moves(s) /\ conn'[s].pc = label
      BY <1>2, GotoDoes DEF HostLabel, PlayerLabel, Label
    <2>2. QED
      BY <1>2, <2>1, LabelsAreBusy, StepAlone
  <1>3. ASSUME NEW s \in Socket, Moves(s), conn'[s].pc \in {"closed", "restore", "open"},
               overlapped' = overlapped
        PROVE  Alone' /\ overlapped \subseteq overlapped'
    BY <1>3, StepAlone DEF HostLabel, PlayerLabel
  <1>4. ASSUME NEW s \in Socket, Handle(s) PROVE Alone' /\ overlapped \subseteq overlapped'
    <2>1. CASE Restore(s)
      BY <1>3, <2>1, GotoDoes DEF Restore, Label
    <2>2. CASE Receive(s)
      BY <1>1, <2>2 DEF Receive
    <2>3. CASE Announce(s)
      BY <1>2, <2>3 DEF Announce, At, HostLabel
    <2>4. CASE ClearAnswered(s)
      BY <1>2, <2>4 DEF ClearAnswered, At, HostLabel
    <2>5. CASE Run(s)
      BY <1>2, <2>5 DEF Run, At, HostLabel
    <2>6. CASE EndStatus(s)
      BY <1>2, <2>6 DEF EndStatus, At, HostLabel
    <2>7. CASE StoreResult(s)
      BY <1>2, <2>7 DEF StoreResult, At, HostLabel
    <2>8. CASE CheckAnswered(s)
      <3>1. PICK label \in {"open", "mark"} : Goto(s, label)
        BY <2>8 DEF CheckAnswered
      <3>2. QED
        BY <1>2, <2>8, <3>1 DEF CheckAnswered, At, PlayerLabel
    <2>9. CASE MarkAnswered(s)
      BY <1>2, <2>9 DEF MarkAnswered, At, PlayerLabel
    <2>10. CASE ReadRank(s)
      <3>1. PICK label \in {"award", "zero"} : Goto(s, label)
        BY <2>10 DEF ReadRank
      <3>2. QED
        BY <1>2, <2>10, <3>1 DEF ReadRank, At, PlayerLabel
    <2>11. CASE EnterBoard(s)
      BY <1>2, <2>11 DEF EnterBoard, At, PlayerLabel
    <2>12. CASE Award(s)
      BY <1>2, <2>12 DEF Award, At, PlayerLabel
    <2>13. QED
      BY <1>4, <2>1, <2>2, <2>3, <2>4, <2>5, <2>6, <2>7, <2>8, <2>9, <2>10, <2>11, <2>12 DEF Handle
  <1>5. ASSUME NEW s \in Socket, Ask(s) PROVE Alone' /\ overlapped \subseteq overlapped'
    <2>0. current.q \in Question
      BY DEF TypeOK, State
    <2>1. CASE Connect(s)
      BY <1>3, <2>1, GotoDoes DEF Connect, Label
    <2>2. CASE Disconnect(s)
      <3>1. conn' = [conn EXCEPT ![s] = Closed] /\ Closed.pc = "closed"
        BY <2>2 DEF Disconnect, Closed
      <3>2. Moves(s) /\ conn'[s].pc = "closed"
        BY <3>1, BecomesDoes, ClosedType
      <3>3. QED
        BY <1>3, <2>2, <3>2 DEF Disconnect
    <2>3. CASE StartQuestion(s)
      <3>1. Moves(s) /\ conn'[s].pc = "clear" /\ Begin(s)
        BY <2>0, <2>3, LocalDoes DEF StartQuestion, Command, Label, Status
      <3>2. QED
        BY <3>1, StepAlone DEF HostLabel
    <2>4. CASE EndQuestion(s)
      <3>1. Moves(s) /\ conn'[s].pc = "end" /\ Begin(s)
        BY <2>0, <2>4, LocalDoes DEF EndQuestion, Command, Label, Status
      <3>2. QED
        BY <3>1, StepAlone DEF HostLabel
    <2>5. ASSUME NEW q \in Question, SendQuestion(s, q)
          PROVE  Alone' /\ overlapped \subseteq overlapped'
      <3>1. Moves(s) /\ conn'[s].pc = "announce" /\ Begin(s)
        BY <2>5, LocalDoes DEF SendQuestion, Command, Label, Status
      <3>2. QED
        BY <3>1, StepAlone DEF HostLabel
    <2>6. ASSUME NEW score \in Points, Submit(s, score)
          PROVE  Alone' /\ overlapped \subseteq overlapped'
      <3>1. Moves(s) /\ conn'[s].pc = "check" /\ Begin(s)
        BY <2>6, SubmitDoes DEF Submit
      <3>2. QED
        BY <3>1, StepAlone DEF PlayerLabel
    <2>7. QED
      BY <1>5, <2>1, <2>2, <2>3, <2>4, <2>5, <2>6 DEF Ask
  <1>6. ASSUME NEW task \in saving, SaveAnswer(task) PROVE Alone' /\ overlapped \subseteq overlapped'
    BY <1>1, <1>6 DEF SaveAnswer
  <1>7. CASE UNCHANGED vars
    BY <1>1, <1>7 DEF vars
  <1>8. QED
    BY <1>4, <1>5, <1>6, <1>7 DEF Next

-----------------------------------------------------------------------------
(* Hosts that do not overlap: results and screens                           *)

LEMMA InitRoom == Init => Room
  <1> SUFFICES ASSUME Init PROVE Room
    OBVIOUS
  <1>1. /\ current.status = "none" /\ Connected = {}
        /\ \A s \in Socket : conn[s].pc = "closed"
    BY DEF Init, Waiting, Closed, Connected, At
  <1>2. QED
    BY <1>1 DEF Room, Commanding, Started, Stored, Shown, HostLabel, At

\* no other host is in the middle of a command
LEMMA SoleHost ==
  ASSUME NEW h \in Hosts, Sole(h), Roles
  PROVE  /\ \A u \in Socket \ {h} : conn[u].pc \notin HostLabel
         /\ Starting <=> At(h, "announce") /\ conn[h].status = "running"
         /\ Replaced <=> \/ At(h, "result")
                         \/ At(h, "announce") /\ conn[h].status # "running"
         /\ (\E u \in Hosts : At(u, "result")) <=> At(h, "result")
  <1>1. \A u \in Socket \ {h} : conn[u].pc \notin HostLabel
    BY LabelsAreBusy DEF Sole, Roles, Hosts
  <1>2. \A u \in Hosts \ {h} : ~At(u, "announce") /\ ~At(u, "result")
    BY <1>1 DEF At, HostLabel, Hosts
  <1>3. QED
    BY <1>1, <1>2 DEF Starting, Replaced

LEMMA SoleHostNext ==
  ASSUME NEW h \in Hosts, Sole(h), Moves(h), Roles
  PROVE  /\ Starting' <=> conn'[h].pc = "announce" /\ conn'[h].status = "running"
         /\ Replaced' <=> \/ conn'[h].pc = "result"
                          \/ conn'[h].pc = "announce" /\ conn'[h].status # "running"
         /\ (\E u \in Hosts : At(u, "result"))' <=> conn'[h].pc = "result"
  <1>1. \A u \in Hosts \ {h} : conn'[u].pc # "announce" /\ conn'[u].pc # "result"
    BY SoleHost DEF Moves, HostLabel, Hosts
  <1>2. Hosts' = Hosts
    BY DEF Hosts
  <1>3. QED
    BY <1>1, <1>2 DEF Starting, Replaced, At

\* a step that is none of a command leaves the commands as they were
LEMMA AsideKeeps ==
  ASSUME RoomInv, NEW s \in Socket, Moves(s), Roles',
         conn[s].pc \notin HostLabel, conn'[s].pc \notin HostLabel,
         UNCHANGED <<current, results, starts>>
  PROVE  /\ Commanding' /\ Started' /\ Stored'
         /\ Starting' <=> Starting
         /\ Replaced' <=> Replaced
  <1>1. \A u \in Socket : \/ conn'[u] = conn[u]
                          \/ conn[u].pc \notin HostLabel /\ conn'[u].pc \notin HostLabel
    BY DEF Moves
  <1> USE <1>1 DEF RoomInv, Room, HostLabel, At, Moves
  <1>2. Commanding'
    BY DEF Commanding
  <1>3. Started'
    BY DEF Started
  <1>4. Stored'
    BY DEF Stored, Hosts
  <1>5. (Starting' <=> Starting) /\ (Replaced' <=> Replaced)
    BY DEF Starting, Replaced, Hosts
  <1>6. QED
    BY <1>2, <1>3, <1>4, <1>5

\* an answer in progress changes nothing that the room shows
LEMMA AnswerKeeps ==
  ASSUME RoomInv, NEW s \in Socket, Moves(s), Roles',
         conn[s].pc \in {"open"} \cup PlayerLabel, conn'[s].pc \in {"open"} \cup PlayerLabel,
         UNCHANGED <<current, results, starts, inbox, screen>>
  PROVE  Room'
  <1>1. conn[s].pc \notin HostLabel /\ conn'[s].pc \notin HostLabel
    BY DEF HostLabel, PlayerLabel
  <1>2. /\ Commanding' /\ Started' /\ Stored'
        /\ Starting' <=> Starting
        /\ Replaced' <=> Replaced
    BY <1>1, AsideKeeps
  <1>3. \A u \in Socket : /\ conn'[u].pc = "closed" <=> conn[u].pc = "closed"
                          /\ conn'[u].pc = "restore" <=> conn[u].pc = "restore"
    BY DEF Moves, PlayerLabel
  <1>4. Connected' = Connected
    BY <1>3 DEF Connected, At
  <1>5. Shown'
    BY <1>2, <1>3, <1>4 DEF RoomInv, Room, Shown, QueueTells, ScreenTells, Last, At, Connected
  <1>6. QED
    BY <1>2, <1>5 DEF Room

LEMMA ConnectKeeps ==
  ASSUME RoomInv, NEW s \in Socket, Connect(s), Roles'
  PROVE  Room'
  <1>1. /\ Moves(s) /\ conn[s].pc \notin HostLabel /\ conn'[s].pc = "restore"
        /\ conn'[s].pc \notin HostLabel
    BY GotoDoes DEF RoomInv, Room, Connect, At, HostLabel, Label
  <1>2. /\ Commanding' /\ Started' /\ Stored'
        /\ Starting' <=> Starting
        /\ Replaced' <=> Replaced
    BY <1>1, AsideKeeps DEF Connect, redis
  <1>3. ASSUME ~Replaced', NEW u \in Connected'
        PROVE  QueueTells(u)' /\ (~At(u, "restore") => ScreenTells(u))'
    <2>1. CASE u = s
      <3>1. inbox'[s] = <<>>
        BY DEF Connect, RoomInv, TypeOK
      <3>2. QED
        BY <1>1, <2>1, <3>1 DEF QueueTells, At
    <2>2. CASE u # s
      <3>1. u \in Connected /\ conn'[u] = conn[u] /\ inbox'[u] = inbox[u] /\ screen'[u] = screen[u]
        BY <1>1, <1>3, <2>2 DEF Connected, At, Moves, Connect, RoomInv, TypeOK
      <3>2. QED
        BY <1>2, <1>3, <3>1 DEF RoomInv, Room, Shown, QueueTells, ScreenTells, Last, At,
               Connect, redis
    <2>3. QED
      BY <2>1, <2>2
  <1>4. QED
    BY <1>2, <1>3 DEF Room, Shown

LEMMA DisconnectKeeps ==
  ASSUME RoomInv, NEW s \in Socket, Disconnect(s), Roles'
  PROVE  Room'
  <1>1. /\ Moves(s) /\ conn[s].pc \notin HostLabel /\ conn'[s].pc = "closed"
        /\ conn'[s].pc \notin HostLabel
    <2>1. conn' = [conn EXCEPT ![s] = Closed] /\ Closed.pc = "closed"
      BY DEF Disconnect, Closed
    <2>2. QED
      BY <2>1, BecomesDoes, ClosedType DEF RoomInv, Room, Disconnect, At, HostLabel
  <1>2. /\ Commanding' /\ Started' /\ Stored'
        /\ Starting' <=> Starting
        /\ Replaced' <=> Replaced
    BY <1>1, AsideKeeps DEF Disconnect, redis
  <1>3. ASSUME ~Replaced', NEW u \in Connected'
        PROVE  QueueTells(u)' /\ (~At(u, "restore") => ScreenTells(u))'
    <2>1. /\ u # s /\ u \in Connected /\ conn'[u] = conn[u] /\ inbox'[u] = inbox[u]
          /\ screen'[u] = screen[u]
      BY <1>1, <1>3 DEF Connected, At, Moves, Disconnect, RoomInv, TypeOK
    <2>2. QED
      BY <1>2, <1>3, <2>1 DEF RoomInv, Room, Shown, QueueTells, ScreenTells, Last, At,
             Disconnect, redis
  <1>4. QED
    BY <1>2, <1>3 DEF Room, Shown

LEMMA RestoreKeeps ==
  ASSUME RoomInv, NEW s \in Socket, Restore(s), Roles'
  PROVE  Room'
  <1>1. /\ Moves(s) /\ conn[s].pc = "restore" /\ conn'[s].pc = "open"
    BY GotoDoes DEF RoomInv, Room, Restore, At, Label
  <1>2. /\ Commanding' /\ Started' /\ Stored'
        /\ Starting' <=> Starting
        /\ Replaced' <=> Replaced
    BY <1>1, AsideKeeps DEF Restore, redis, HostLabel
  <1>3. ASSUME ~Replaced', NEW u \in Connected'
        PROVE  QueueTells(u)' /\ (~At(u, "restore") => ScreenTells(u))'
    <2>1. u \in Connected /\ (u # s => conn'[u] = conn[u] /\ screen'[u] = screen[u])
      BY <1>1, <1>3 DEF Connected, At, Moves, Restore, RoomInv, TypeOK
    <2>2. QueueTells(u)'
      BY <1>2, <1>3, <2>1 DEF RoomInv, Room, Shown, QueueTells, Last, Restore, redis
    <2>3. CASE u = s
      <3>1. screen'[s] = current
        BY DEF Restore, RoomInv, TypeOK
      <3>2. QED
        BY <2>2, <2>3, <3>1 DEF ScreenTells, Restore, redis
    <2>4. CASE u # s
      BY <1>2, <1>3, <2>1, <2>2, <2>4
         DEF RoomInv, Room, Shown, QueueTells, ScreenTells, Last, At, Restore, redis
    <2>5. QED
      BY <2>3, <2>4
  <1>4. QED
    BY <1>2, <1>3 DEF Room, Shown
LEMMA ReadsHead ==
  ASSUME NEW S, NEW seq \in Seq(S), seq # <<>>
  PROVE  /\ Len(seq) \in Nat \ {0} /\ Head(seq) = seq[1] /\ Tail(seq) \in Seq(S)
         /\ Len(Tail(seq)) = Len(seq) - 1
         /\ \A k \in 1 .. Len(seq) - 1 : Tail(seq)[k] = seq[k + 1]
         /\ Tail(seq) = <<>> <=> Len(seq) = 1
  <1>1. /\ Len(seq) \in Nat \ {0} /\ Tail(seq) \in Seq(S)
        /\ Len(Tail(seq)) = Len(seq) - 1
        /\ \A k \in 1 .. Len(Tail(seq)) : Tail(seq)[k] = seq[k + 1]
    BY HeadTailProperties, EmptySeq
  <1>2. Tail(seq) = <<>> <=> Len(Tail(seq)) = 0
    BY <1>1, EmptySeq
  <1>3. Head(seq) = seq[1]
    OBVIOUS
  <1>4. QED
    BY <1>1, <1>2, <1>3

LEMMA ReceiveKeeps ==
  ASSUME RoomInv, NEW s \in Socket, Receive(s), Roles'
  PROVE  Room'
  <1> DEFINE n == Len(inbox[s])
             m == Head(inbox[s])
  <1>1. conn' = conn /\ conn[s].pc = "open" /\ inbox[s] \in Seq(State) /\ inbox[s] # <<>>
    BY DEF Receive, RoomInv, TypeOK, At
  <1>2. /\ Commanding' /\ Started' /\ Stored'
        /\ Starting' <=> Starting
        /\ Replaced' <=> Replaced
    BY <1>1 DEF RoomInv, Room, Receive, redis, Commanding, Started, Stored, Starting, Replaced, At
  <1>3. /\ n \in Nat \ {0} /\ m = inbox[s][1] /\ inbox'[s] = Tail(inbox[s])
        /\ Len(inbox'[s]) = n - 1 /\ \A k \in 1 .. n - 1 : inbox'[s][k] = inbox[s][k + 1]
        /\ inbox'[s] = <<>> <=> n = 1
    BY <1>1, ReadsHead DEF Receive, RoomInv, TypeOK
  <1>4. screen[s] \in State /\ m \in State
        /\ screen'[s] = IF m.status = "running" THEN [screen[s] EXCEPT !.status = "running"] ELSE m
    BY <1>1, HeadTailProperties DEF Receive, RoomInv, TypeOK
  <1>5. /\ screen'[s].status = m.status
        /\ screen'[s].q = IF m.status = "running" THEN screen[s].q ELSE m.q
    BY <1>4 DEF State
  <1> HIDE DEF n, m
  <1>6. ASSUME ~Replaced', NEW u \in Connected'
        PROVE  QueueTells(u)' /\ (~At(u, "restore") => ScreenTells(u))'
    <2>1. u \in Connected
      BY <1>1, <1>6 DEF Connected, At
    <2>2. CASE u # s
      <3>1. inbox'[u] = inbox[u] /\ screen'[u] = screen[u]
        BY <2>1, <2>2 DEF Receive, RoomInv, TypeOK, Connected
      <3>2. QED
        BY <1>1, <1>2, <1>6, <2>1, <3>1
           DEF RoomInv, Room, Shown, QueueTells, ScreenTells, Last, At, Receive, redis
    <2>3. CASE u = s
      <3>1. QueueTells(s) /\ ScreenTells(s)
        BY <1>1, <1>2, <1>6, <2>1, <2>3 DEF RoomInv, Room, Shown, At
      <3>2. current' = current
        BY DEF Receive, redis
      <3>3. CASE n = 1
        <4>1. Last(s) = m /\ inbox'[s] = <<>>
          BY <1>3, <3>3 DEF Last, n
        <4>2. QueueTells(s)'
          BY <4>1 DEF QueueTells
        <4>3. /\ ~Starting => m = current
              /\ Starting => m = [q |-> current.q, status |-> "preview"]
              /\ m.status = "running" => screen[s].q = current.q
          BY <1>1, <3>1, <3>3, <4>1 DEF QueueTells, ScreenTells, n
        <4>4. QED
          BY <1>2, <1>3, <1>5, <2>3, <3>2, <3>3, <4>1, <4>2, <4>3 DEF ScreenTells, Last
      <3>4. CASE n # 1
        <4>1. n > 1 /\ inbox'[s] # <<>> /\ Last(s)' = Last(s)
          <5>1. n > 1
            BY <1>3, <3>4
          <5>2. inbox'[s][n - 1] = inbox[s][n]
            BY <1>3, <5>1
          <5>3. QED
            BY <1>3, <3>4, <5>1, <5>2 DEF Last, n
        <4>2. n > 2 => inbox'[s][n - 2] = inbox[s][n - 1]
          BY <1>3
        <4>3. QueueTells(s)'
          <5>1. Len(inbox'[s]) > 1 => Len(inbox'[s]) - 1 = n - 2 /\ n > 2
            BY <1>3
          <5>2. QED
            BY <1>1, <1>2, <1>3, <3>1, <3>2, <4>1, <4>2, <5>1 DEF QueueTells, n
        <4>4. n = 2 /\ Last(s).status = "running" => m = [q |-> current.q, status |-> "preview"]
          BY <1>1, <1>3, <3>1 DEF QueueTells, n
        <4>5. ASSUME Len(inbox'[s]) = 1, Last(s)'.status = "running"
              PROVE  screen'[s].q = current'.q
          <5>0. n \in Nat /\ n - 1 = 1
            BY <1>3, <4>5
          <5>1. n = 2
            BY <5>0
          <5>2. QED
            BY <1>5, <3>2, <4>1, <4>4, <4>5, <5>1
        <4>6. ScreenTells(s)'
          BY <4>1, <4>5 DEF ScreenTells
        <4>7. QED
          BY <2>3, <4>3, <4>6
      <3>5. QED
        BY <3>3, <3>4
    <2>4. QED
      BY <2>2, <2>3
  <1>7. QED
    BY <1>2, <1>6 DEF Room, Shown

LEMMA AnnounceKeeps ==
  ASSUME RoomInv, NEW h \in Socket, Sole(h), Announce(h), Roles', TypeOK'
  PROVE  Room'
  <1> DEFINE message == [q |-> conn[h].q, status |-> conn[h].status]
  <1>1. Moves(h) /\ conn[h].pc = "announce" /\ conn'[h].pc = "open" /\ h \in Hosts
    BY GotoDoes DEF RoomInv, Room, Announce, At, Label, Roles, HostLabel
  <1>2. /\ \A u \in Socket \ {h} : conn[u].pc \notin HostLabel /\ conn'[u].pc \notin HostLabel
        /\ ~Starting' /\ ~Replaced'
        /\ Starting => conn[h].status = "running"
        /\ Replaced => conn[h].status # "running"
    BY <1>1, SoleHost, SoleHostNext DEF RoomInv, Room, Moves, At
  <1>3. /\ current' = current /\ message = current /\ current \in State
        /\ current.status # "none" /\ conn[h].status = current.status
    BY <1>1 DEF RoomInv, Room, Commanding, Announce, redis, HostLabel, At, TypeOK, State
  <1>4. Commanding' /\ Started' /\ Stored'
    BY <1>1, <1>2 DEF RoomInv, Room, Commanding, Started, Stored, Announce, redis, HostLabel, At,
                      Hosts
  <1>5. ASSUME NEW u \in Connected'
        PROVE  QueueTells(u)' /\ (~At(u, "restore") => ScreenTells(u))'
    <2> DEFINE n == Len(inbox[u])
    <2>1. u \in Connected /\ u \in Socket /\ (conn[u].pc = "restore" <=> conn'[u].pc = "restore")
      BY <1>1, <1>5 DEF Connected, At, Moves
    <2>2. inbox[u] \in Seq(State) /\ n \in Nat
      BY <2>1 DEF RoomInv, Room, TypeOK
    <2>3. inbox'[u] = Append(inbox[u], current)
      BY <1>3, <2>1 DEF Announce
    <2>4. /\ Len(inbox'[u]) = n + 1 /\ inbox'[u][n + 1] = current
          /\ \A k \in 1 .. n : inbox'[u][k] = inbox[u][k]
      BY <1>3, <2>2, <2>3, AppendProperties
    <2>5. inbox'[u] # <<>> /\ Last(u)' = current
      BY <2>2, <2>4, EmptySeq DEF Last
    <2>6. ASSUME current.status = "running"
          PROVE  /\ n > 0 => inbox[u][n] = [q |-> current.q, status |-> "preview"]
                 /\ ~At(u, "restore") /\ n = 0 => screen[u].q = current.q
      <3>1. Starting /\ ~Replaced
        BY <1>1, <1>3, <2>6, SoleHost DEF RoomInv, Room, At
      <3>2. QueueTells(u) /\ (~At(u, "restore") => ScreenTells(u))
        BY <2>1, <3>1 DEF RoomInv, Room, Shown
      <3>3. inbox[u] = <<>> <=> n = 0
        BY <2>2, EmptySeq
      <3>4. QED
        BY <1>3, <2>2, <3>1, <3>2, <3>3 DEF QueueTells, ScreenTells, Last
    <2> HIDE DEF n
    <2>7. QueueTells(u)'
      <3>1. Len(inbox'[u]) > 1 => n > 0 /\ inbox'[u][Len(inbox'[u]) - 1] = inbox[u][n]
        BY <2>2, <2>4
      <3>2. QED
        BY <1>2, <1>3, <2>5, <2>6, <3>1 DEF QueueTells
    <2>8. ASSUME ~At(u, "restore")' PROVE ScreenTells(u)'
      <3>1. ~At(u, "restore") /\ screen'[u] = screen[u]
        BY <2>1, <2>8 DEF At, Announce
      <3>2. Len(inbox'[u]) = 1 => n = 0
        BY <2>2, <2>4
      <3>3. QED
        BY <1>3, <2>5, <2>6, <3>1, <3>2 DEF ScreenTells
    <2>9. QED
      BY <2>7, <2>8
  <1>6. QED
    BY <1>4, <1>5 DEF Room, Shown
\* a command that is not about to announce anything, but perhaps a start
LEMMA CommandShows ==
  ASSUME RoomInv, NEW h \in Hosts, Sole(h), Moves(h), Roles', UNCHANGED <<inbox, screen>>,
         conn[h].pc \in {"open", "clear", "run"},
         \/ conn'[h].pc \in {"clear", "run", "end"} /\ current' = current
         \/ /\ conn'[h].pc = "announce" /\ conn'[h].status = "running"
            /\ current.status = "preview" /\ current' = [current EXCEPT !.status = "running"]
  PROVE  Shown'
  <1>1. h \in Socket /\ ~Starting /\ ~Replaced
    BY SoleHost DEF RoomInv, Room, At, Hosts
  <1>2. \A u \in Socket : /\ conn[u].pc = "closed" <=> conn'[u].pc = "closed"
                          /\ conn[u].pc = "restore" <=> conn'[u].pc = "restore"
    BY <1>1 DEF Moves
  <1>3. Connected' = Connected
    BY <1>2 DEF Connected, At
  <1>4. ASSUME NEW u \in Connected
        PROVE  QueueTells(u) /\ (~At(u, "restore") => ScreenTells(u))
    BY <1>1, <1>4 DEF RoomInv, Room, Shown
  <1>5. current \in State
    BY DEF RoomInv, Room, TypeOK
  <1>6. CASE conn'[h].pc # "announce"
    <2>1. ~Starting' /\ current' = current
      BY <1>6, SoleHostNext DEF RoomInv
    <2>2. QED
      BY <1>1, <1>2, <1>3, <1>4, <2>1 DEF Shown, QueueTells, ScreenTells, Last, At, Connected
  <1>7. CASE conn'[h].pc = "announce"
    <2>1. /\ Starting' /\ current'.q = current.q /\ current'.status = "running"
          /\ current = [q |-> current.q, status |-> "preview"]
      BY <1>5, <1>7, SoleHostNext DEF RoomInv, State
    <2>2. QED
      BY <1>1, <1>2, <1>3, <1>4, <2>1 DEF Shown, QueueTells, ScreenTells, Last, At, Connected
  <1>8. QED
    BY <1>6, <1>7

LEMMA SendKeeps ==
  ASSUME RoomInv, NEW h \in Socket, Sole(h), NEW q \in Question, SendQuestion(h, q), Roles'
  PROVE  Room'
  <1>1. /\ h \in Hosts /\ Moves(h) /\ conn[h].pc = "open" /\ conn'[h].pc = "announce"
        /\ conn'[h].q = q /\ conn'[h].status = "preview"
        /\ current' = [q |-> q, status |-> "preview"]
    BY LocalDoes DEF RoomInv, Room, SendQuestion, Command, At, Label, Status
  <1>2. /\ \A u \in Socket \ {h} : conn'[u].pc \notin HostLabel
        /\ Replaced'
    BY <1>1, SoleHost, SoleHostNext DEF RoomInv, Room, Moves, At
  <1>3. Commanding' /\ Started' /\ Stored' /\ Shown'
    BY <1>1, <1>2 DEF Commanding, Started, Stored, Shown, HostLabel, At
  <1>4. QED
    BY <1>3 DEF Room

LEMMA StartKeeps ==
  ASSUME RoomInv, NEW h \in Socket, Sole(h), StartQuestion(h), Roles'
  PROVE  Room'
  <1>1. current.q \in Question
    BY DEF RoomInv, Room, TypeOK, State
  <1>2. /\ h \in Hosts /\ Moves(h) /\ conn[h].pc = "open" /\ conn'[h].pc = "clear"
        /\ conn'[h].q = current.q /\ conn'[h].status = "running"
        /\ current' = current /\ current.status = "preview"
    BY <1>1, LocalDoes DEF RoomInv, Room, StartQuestion, Command, At, Label, Status, redis
  <1>3. /\ \A u \in Socket \ {h} : conn'[u].pc \notin HostLabel
    BY <1>2, SoleHost DEF RoomInv, Room, Moves, At
  <1>4. Commanding' /\ Started' /\ Stored'
    BY <1>2, <1>3 DEF Commanding, Started, Stored, HostLabel, At
  <1>5. Shown'
    BY <1>2, CommandShows DEF StartQuestion
  <1>6. QED
    BY <1>4, <1>5 DEF Room

LEMMA ClearKeeps ==
  ASSUME RoomInv, NEW h \in Socket, Sole(h), ClearAnswered(h), Roles'
  PROVE  Room'
  <1>1. /\ Moves(h) /\ conn[h].pc = "clear" /\ conn'[h].pc = "run"
        /\ conn'[h].q = conn[h].q /\ conn'[h].status = conn[h].status
        /\ current' = current /\ h \in Hosts
        /\ starts' = [starts EXCEPT ![conn[h].q] = @ + 1]
    BY GotoDoes DEF RoomInv, Room, ClearAnswered, At, Label, Roles, HostLabel
  <1>2. /\ \A u \in Socket \ {h} : conn'[u].pc \notin HostLabel
        /\ ~Replaced' /\ ~Replaced
    BY <1>1, SoleHost, SoleHostNext DEF RoomInv, Room, Moves, At
  <1>3. current.q = conn[h].q /\ current.status = "preview" /\ conn[h].status = "running"
    BY <1>1 DEF RoomInv, Room, Commanding, HostLabel, At
  <1>4. starts'[current.q] > 0
    BY <1>1, <1>3 DEF RoomInv, Room, TypeOK, State
  <1>5. Commanding' /\ Started' /\ Stored'
    BY <1>1, <1>2, <1>3, <1>4 DEF Commanding, Started, Stored, HostLabel, At
  <1>6. Shown'
    BY <1>1, CommandShows DEF ClearAnswered
  <1>7. QED
    BY <1>5, <1>6 DEF Room

LEMMA RunKeeps ==
  ASSUME RoomInv, NEW h \in Socket, Sole(h), Run(h), Roles'
  PROVE  Room'
  <1>1. /\ Moves(h) /\ conn[h].pc = "run" /\ conn'[h].pc = "announce"
        /\ conn'[h].q = conn[h].q /\ conn'[h].status = conn[h].status /\ h \in Hosts
        /\ current' = [current EXCEPT !.status = "running"] /\ starts' = starts
    BY GotoDoes DEF RoomInv, Room, Run, At, Label, Roles, HostLabel
  <1>2. /\ \A u \in Socket \ {h} : conn'[u].pc \notin HostLabel
    BY <1>1, SoleHost DEF RoomInv, Room, Moves, At
  <1>3. /\ current.q = conn[h].q /\ current.status = "preview" /\ conn[h].status = "running"
        /\ starts[current.q] > 0
    BY <1>1 DEF RoomInv, Room, Commanding, HostLabel, At
  <1>4. current'.q = current.q /\ current'.status = "running"
    BY <1>1 DEF RoomInv, Room, TypeOK, State
  <1>5. Commanding' /\ Started' /\ Stored'
    BY <1>1, <1>2, <1>3, <1>4 DEF Commanding, Started, Stored, HostLabel, At
  <1>6. Shown'
    BY <1>1, <1>3, CommandShows DEF Run
  <1>7. QED
    BY <1>5, <1>6 DEF Room

LEMMA EndKeeps ==
  ASSUME RoomInv, NEW h \in Socket, Sole(h), EndQuestion(h), Roles'
  PROVE  Room'
  <1>1. current.q \in Question
    BY DEF RoomInv, Room, TypeOK, State
  <1>2. /\ h \in Hosts /\ Moves(h) /\ conn[h].pc = "open" /\ conn'[h].pc = "end"
        /\ conn'[h].q = current.q /\ conn'[h].status = "ended"
        /\ current' = current /\ current.status # "none"
        /\ results' = results /\ starts' = starts
    BY <1>1, LocalDoes DEF RoomInv, Room, EndQuestion, Command, At, Label, Status, redis
  <1>3. /\ \A u \in Socket \ {h} : conn'[u].pc \notin HostLabel
        /\ ~\E u \in Hosts : At(u, "result")
    BY <1>2, SoleHost DEF RoomInv, Room, Moves, At
  <1>4. Commanding' /\ Started' /\ Stored'
    BY <1>2, <1>3 DEF RoomInv, Room, Commanding, Started, Stored, HostLabel, At
  <1>5. Shown'
    BY <1>2, CommandShows DEF EndQuestion
  <1>6. QED
    BY <1>4, <1>5 DEF Room

LEMMA EndStatusKeeps ==
  ASSUME RoomInv, NEW h \in Socket, Sole(h), EndStatus(h), Roles'
  PROVE  Room'
  <1>1. /\ Moves(h) /\ conn[h].pc = "end" /\ conn'[h].pc = "result"
        /\ conn'[h].q = conn[h].q /\ conn'[h].status = conn[h].status /\ h \in Hosts
        /\ current' = [current EXCEPT !.status = "ended"]
    BY GotoDoes DEF RoomInv, Room, EndStatus, At, Label, Roles, HostLabel
  <1>2. /\ \A u \in Socket \ {h} : conn'[u].pc \notin HostLabel
        /\ Replaced' /\ (\E u \in Hosts : At(u, "result"))'
    BY <1>1, SoleHost, SoleHostNext DEF RoomInv, Room, Moves, At
  <1>3. current.q = conn[h].q /\ conn[h].status = "ended"
    BY <1>1 DEF RoomInv, Room, Commanding, HostLabel, At
  <1>4. current'.q = current.q /\ current'.status = "ended"
    BY <1>1 DEF RoomInv, Room, TypeOK, State
  <1>5. Commanding' /\ Started' /\ Stored' /\ Shown'
    BY <1>1, <1>2, <1>3, <1>4 DEF Commanding, Started, Stored, Shown, HostLabel, At
  <1>6. QED
    BY <1>5 DEF Room

LEMMA StoreKeeps ==
  ASSUME RoomInv, NEW h \in Socket, Sole(h), StoreResult(h), Roles'
  PROVE  Room'
  <1>1. /\ Moves(h) /\ conn[h].pc = "result" /\ conn'[h].pc = "announce"
        /\ conn'[h].q = conn[h].q /\ conn'[h].status = conn[h].status /\ h \in Hosts
        /\ current' = current /\ results' = results \cup {conn[h].q}
    BY GotoDoes DEF RoomInv, Room, StoreResult, At, Label, Roles, HostLabel
  <1>2. current.q = conn[h].q /\ conn[h].status = "ended" /\ current.status = "ended"
    BY <1>1 DEF RoomInv, Room, Commanding, HostLabel, At
  <1>3. /\ \A u \in Socket \ {h} : conn'[u].pc \notin HostLabel
        /\ Replaced'
    BY <1>1, <1>2, SoleHost, SoleHostNext DEF RoomInv, Room, Moves, At
  <1>4. Commanding' /\ Started' /\ Stored' /\ Shown'
    BY <1>1, <1>2, <1>3 DEF Commanding, Started, Stored, Shown, HostLabel, At
  <1>5. QED
    BY <1>4 DEF Room

LEMMA NextRoom ==
  ASSUME Alone, RoomInv, [Next]_vars, Host \notin overlapped'
  PROVE  RoomInv'
  <1>1. TypeOK' /\ Roles'
    BY NextTypes DEF RoomInv
  <1>2. SUFFICES Room'
    BY <1>1 DEF RoomInv
  <1>0. ASSUME NEW s \in Socket, s \in Hosts, Begin(s) \/ conn[s].pc \in HostLabel PROVE Sole(s)
    <2>1. overlapped \subseteq overlapped' /\ Owner[s] = Host
      BY <1>0, NextAlone DEF RoomInv, Hosts
    <2>2. QED
      BY <1>0, <2>1, SoleIs, LabelsAreBusy DEF RoomInv
  <1> USE <1>1
  <1>3. ASSUME NEW s \in Socket, Ask(s) PROVE Room'
    <2>1. CASE \E score \in Points : Submit(s, score)
      <3>1. PICK score \in Points : Submit(s, score)
        BY <2>1
      <3>2. QED
        BY <3>1, SubmitDoes, AnswerKeeps DEF RoomInv, Submit, At, PlayerLabel, redis
    <2>2. CASE StartQuestion(s)
      BY <1>0, <2>2, StartKeeps DEF StartQuestion, Command
    <2>3. CASE EndQuestion(s)
      BY <1>0, <2>3, EndKeeps DEF EndQuestion, Command
    <2>4. CASE \E q \in Question : SendQuestion(s, q)
      BY <1>0, <2>4, SendKeeps DEF SendQuestion, Command
    <2>5. QED
      BY <1>3, <2>1, <2>2, <2>3, <2>4, ConnectKeeps, DisconnectKeeps DEF Ask
  <1>4. ASSUME NEW s \in Socket, Handle(s) PROVE Room'
    <2>1. CASE CheckAnswered(s)
      <3>1. PICK label \in {"open", "mark"} : Goto(s, label)
        BY <2>1 DEF CheckAnswered
      <3>2. QED
        BY <2>1, <3>1, GotoDoes, AnswerKeeps
           DEF RoomInv, CheckAnswered, At, PlayerLabel, Label, redis
    <2>2. CASE MarkAnswered(s)
      BY <2>2, GotoDoes, AnswerKeeps DEF RoomInv, MarkAnswered, At, PlayerLabel, Label, redis
    <2>3. CASE ReadRank(s)
      <3>1. PICK label \in {"award", "zero"} : Goto(s, label)
        BY <2>3 DEF ReadRank
      <3>2. QED
        BY <2>3, <3>1, GotoDoes, AnswerKeeps
           DEF RoomInv, ReadRank, At, PlayerLabel, Label, redis
    <2>4. CASE EnterBoard(s)
      BY <2>4, GotoDoes, AnswerKeeps DEF RoomInv, EnterBoard, At, PlayerLabel, Label, redis
    <2>5. CASE Award(s)
      BY <2>5, GotoDoes, AnswerKeeps DEF RoomInv, Award, At, PlayerLabel, Label, redis
    <2>6. conn[s].pc \in HostLabel => Sole(s)
      BY <1>0 DEF RoomInv, Roles
    <2>7. CASE Announce(s)
      BY <2>6, <2>7, AnnounceKeeps DEF Announce, At, HostLabel
    <2>8. CASE ClearAnswered(s)
      BY <2>6, <2>8, ClearKeeps DEF ClearAnswered, At, HostLabel
    <2>9. CASE Run(s)
      BY <2>6, <2>9, RunKeeps DEF Run, At, HostLabel
    <2>10. CASE EndStatus(s)
      BY <2>6, <2>10, EndStatusKeeps DEF EndStatus, At, HostLabel
    <2>11. CASE StoreResult(s)
      BY <2>6, <2>11, StoreKeeps DEF StoreResult, At, HostLabel
    <2>12. QED
      BY <1>4, <2>1, <2>2, <2>3, <2>4, <2>5, <2>7, <2>8, <2>9, <2>10, <2>11,
         RestoreKeeps, ReceiveKeeps DEF Handle
  <1>5. CASE UNCHANGED <<current, results, starts, conn, inbox, screen>>
    BY <1>5 DEF RoomInv, Room, Commanding, Started, Stored, Shown, Starting, Replaced,
                Connected, QueueTells, ScreenTells, Last, At
  <1>6. QED
    BY <1>3, <1>4, <1>5 DEF Next, SaveAnswer, vars, redis

-----------------------------------------------------------------------------
(* Tabs that do not overlap: awards and boards                              *)

LEMMA InitAnswers == Init => \A p \in Participant : AnswerInv(p)
  <1> SUFFICES ASSUME Init, NEW p \in Participant PROVE AnswerInv(p)
    OBVIOUS
  <1>1. Rows(p) = {} /\ Right(p) = {}
    BY DEF Init, Rows, Right
  <1>2. \A s \in Tabs(p) : conn[s].pc = "closed"
    BY DEF Init, Closed, Tabs
  <1>3. Awarding(p)
    BY <1>2 DEF Init, Awarding, Marks, PlayerLabel, Counting, At
  <1>4. Boards(p)
    BY <1>1, <1>2, FS_EmptySet DEF Init, Boards, Entered, At
  <1>5. QED
    BY <1>3, <1>4 DEF AnswerInv

\* a step that does nothing for p, whose tabs may connect, read and go
LEMMA ElsewhereKeeps ==
  ASSUME TypeOK, NEW p \in Participant, AnswerInv(p),
         \A u \in Tabs(p) : conn'[u] = conn[u] \/ conn'[u].pc \notin PlayerLabel,
         \A q \in Question : p \in answered'[q] <=> p \in answered[q],
         Rows(p)' = Rows(p), awarded'[p] = awarded[p], board'[p] = board[p],
         p \in ranked' <=> p \in ranked, starts' = starts
  PROVE  AnswerInv(p)'
  <1>1. \A u \in Tabs(p) : conn[u].q \in Question
    BY DEF TypeOK, Consumer, Tabs
  <1>2. \A u \in Tabs(p) : Marks(p, u)' /\ Entered(p, u)'
    BY <1>1 DEF AnswerInv, Awarding, Boards, Marks, Entered, PlayerLabel, Counting, At
  <1>3. Tabs(p)' = Tabs(p) /\ Right(p)' = Right(p)
    BY DEF Tabs, Right
  <1>4. Awarding(p)'
    BY <1>2, <1>3 DEF AnswerInv, Awarding
  <1>5. Boards(p)'
    BY <1>2, <1>3 DEF AnswerInv, Boards
  <1>6. QED
    BY <1>4, <1>5 DEF AnswerInv

LEMMA ClearAwards ==
  ASSUME TypeOK, Roles, NEW h \in Socket, ClearAnswered(h), NEW p \in Participant, AnswerInv(p)
  PROVE  AnswerInv(p)'
  <1> DEFINE k == conn[h].q
  <1>1. /\ Moves(h) /\ conn'[h].pc = "run" /\ k \in Question
        /\ answered' = [answered EXCEPT ![k] = {}] /\ starts' = [starts EXCEPT ![k] = @ + 1]
        /\ awarded' = awarded
    BY GotoDoes DEF ClearAnswered, Label, TypeOK, Consumer
  <1> HIDE DEF k
  <1>2. \A q \in Question : /\ starts[q] \in Nat
                            /\ starts'[q] = IF q = k THEN starts[q] + 1 ELSE starts[q]
                            /\ answered'[q] = IF q = k THEN {} ELSE answered[q]
    BY <1>1 DEF TypeOK
  <1>3. \A q \in Question : awarded[p][q] \in Nat
    BY DEF TypeOK
  <1>4. Tabs(p)' = Tabs(p) /\ \A s \in Tabs(p) : s \in Socket
    BY DEF Tabs
  <1>5. Awarding(p)'
    <2>1. \A q \in Question : awarded'[p][q] <= starts'[q]
      BY <1>1, <1>2, <1>3 DEF AnswerInv, Awarding
    <2>2. ASSUME NEW s \in Tabs(p), conn'[s].pc \in PlayerLabel PROVE Marks(p, s)'
      <3>1. conn'[s] = conn[s] /\ conn[s].q \in Question
        BY <1>1, <1>4, <2>2 DEF Moves, PlayerLabel, TypeOK, Consumer
      <3>2. Marks(p, s)
        BY DEF AnswerInv, Awarding
      <3>3. QED
        BY <1>1, <1>2, <1>3, <2>2, <3>1, <3>2 DEF AnswerInv, Awarding, Marks, Counting, At
    <2>3. \A s \in Tabs(p) : conn'[s].pc \notin PlayerLabel => Marks(p, s)'
      BY DEF Marks, Counting, At, PlayerLabel
    <2>4. \A q \in Question : p \notin answered'[q] /\ starts'[q] > 0 => awarded'[p][q] < starts'[q]
      BY <1>1, <1>2, <1>3 DEF AnswerInv, Awarding
    <2>5. QED
      BY <1>4, <2>1, <2>2, <2>3, <2>4 DEF Awarding
  <1>6. Boards(p)'
    <2>1. Rows(p)' = Rows(p) /\ board' = board /\ ranked' = ranked /\ Right(p)' = Right(p)
      BY DEF ClearAnswered, Rows, Right
    <2>2. (\A q \in Question : starts'[q] <= 1) => (\A q \in Question : starts[q] <= 1)
      BY <1>2
    <2>3. \A s \in Tabs(p) : Entered(p, s) => Entered(p, s)'
      BY <1>1, <1>4, <2>1 DEF Moves, Entered, At
    <2>4. QED
      BY <1>1, <1>4, <2>1, <2>2, <2>3 DEF AnswerInv, Boards
  <1>7. QED
    BY <1>5, <1>6 DEF AnswerInv

\* a step of the only tab of p that has an answer in hand, before it is counted
LEMMA TabKeeps ==
  ASSUME TypeOK, NEW p \in Participant, AnswerInv(p), NEW s \in Tabs(p), Sole(s), Moves(s),
         Marks(p, s)', Entered(p, s)',
         \A q \in Question : p \in answered[q] => p \in answered'[q],
         Rows(p)' = Rows(p), awarded' = awarded, board'[p] = board[p],
         p \in ranked => p \in ranked', starts' = starts
  PROVE  AnswerInv(p)'
  <1>1. \A u \in Tabs(p) \ {s} : conn'[u].pc \notin PlayerLabel
    BY LabelsAreBusy DEF Tabs, Sole, Moves
  <1>2. \A u \in Tabs(p) \ {s} : Marks(p, u)' /\ Entered(p, u)'
    BY <1>1 DEF Marks, Entered, PlayerLabel, Counting, At
  <1>3. Tabs(p)' = Tabs(p) /\ Right(p)' = Right(p)
    BY DEF Tabs, Right
  <1>4. Awarding(p)'
    BY <1>2, <1>3 DEF AnswerInv, Awarding
  <1>5. Boards(p)'
    BY <1>2, <1>3 DEF AnswerInv, Boards
  <1>6. QED
    BY <1>4, <1>5 DEF AnswerInv

LEMMA TabFacts ==
  ASSUME TypeOK, Roles, NEW p \in Participant, AnswerInv(p), NEW s \in Tabs(p)
  PROVE  /\ s \in Socket /\ Owner[s] = p /\ Marks(p, s) /\ Entered(p, s) /\ conn[s].q \in Question
         /\ conn[s].score \in Points
         /\ \A q \in Question : starts[q] \in Nat /\ awarded[p][q] \in Nat
         /\ \A q \in Question : p \notin answered[q] /\ starts[q] > 0 => awarded[p][q] < starts[q]
  BY DEF Tabs, AnswerInv, Awarding, Boards, TypeOK, Consumer

\* submit_answer up to the mark, the rank and the entry on the board
LEMMA AnswerAwards ==
  ASSUME RoomInv, NEW p \in Participant, AnswerInv(p), NEW s \in Tabs(p), Sole(s),
         \/ \E score \in Points : Submit(s, score)
         \/ CheckAnswered(s) \/ MarkAnswered(s) \/ ReadRank(s) \/ EnterBoard(s)
  PROVE  AnswerInv(p)'
  <1>0. TypeOK /\ Roles /\ s \in Socket /\ Owner[s] = p
    BY TabFacts DEF RoomInv
  <1>1. CASE \E score \in Points : Submit(s, score)
    <2>1. PICK score \in Points : Submit(s, score)
      BY <1>1
    <2>2. Moves(s) /\ conn'[s].pc = "check" /\ conn'[s].q = current.q
      BY <1>0, <2>1, SubmitDoes
    <2>3. /\ starts[current.q] > 0
          /\ UNCHANGED <<answered, awarded, starts, board, ranked, saving, answers, lost>>
      BY <2>1 DEF RoomInv, Room, Started, Submit, redis
    <2>4. Marks(p, s)' /\ Entered(p, s)' /\ Rows(p)' = Rows(p)
      BY <2>2, <2>3 DEF Marks, Entered, Counting, At, Rows
    <2>5. QED
      BY <1>0, <2>2, <2>3, <2>4, TabKeeps
  <1>2. CASE CheckAnswered(s)
    <2>1. PICK label \in {"open", "mark"} :
            Goto(s, label) /\ (label = "mark" => p \notin answered[conn[s].q])
      BY <1>0, <1>2 DEF CheckAnswered
    <2>2. /\ Moves(s) /\ conn'[s].pc = label /\ conn'[s].q = conn[s].q /\ conn[s].pc = "check"
          /\ UNCHANGED <<answered, awarded, starts, board, ranked, saving, answers, lost>>
      BY <1>0, <1>2, <2>1, GotoDoes DEF CheckAnswered, Label, At, redis
    <2>3. Marks(p, s)
      BY <1>0, TabFacts
    <2>4. Marks(p, s)' /\ Entered(p, s)' /\ Rows(p)' = Rows(p)
      BY <2>1, <2>2, <2>3 DEF Marks, Entered, Counting, At, PlayerLabel, Rows
    <2>5. QED
      BY <1>0, <2>2, <2>4, TabKeeps
  <1>3. CASE MarkAnswered(s)
    <2> DEFINE k == conn[s].q
    <2>1. /\ Moves(s) /\ conn'[s].pc = "rank" /\ conn'[s].q = k /\ conn[s].pc = "mark"
          /\ UNCHANGED <<awarded, starts, board, ranked, saving, answers, lost>>
      BY <1>0, <1>3, GotoDoes DEF MarkAnswered, Label, At
    <2>2. /\ answered' = [answered EXCEPT ![k] = @ \cup {p}]
      BY <1>0, <1>3 DEF MarkAnswered
    <2>3. Marks(p, s) /\ k \in Question
      BY <1>0, TabFacts
    <2>4. starts[k] > 0 /\ p \notin answered[k]
      BY <2>1, <2>3 DEF Marks, At, PlayerLabel
    <2>5. awarded[p][k] < starts[k]
      BY <1>0, <2>3, <2>4, TabFacts
    <2> HIDE DEF k
    <2>6. \A q \in Question : answered'[q] = IF q = k THEN answered[q] \cup {p} ELSE answered[q]
      BY <1>0, <2>2 DEF TypeOK
    <2>7. Marks(p, s)' /\ Entered(p, s)' /\ Rows(p)' = Rows(p)
      BY <2>1, <2>3, <2>4, <2>5, <2>6 DEF Marks, Entered, Counting, At, PlayerLabel, Rows
    <2>8. QED
      BY <1>0, <2>1, <2>6, <2>7, TabKeeps
  <1>4. CASE ReadRank(s)
    <2>1. PICK label \in {"award", "zero"} :
            Goto(s, label) /\ (label = "award" <=> p \in ranked)
      BY <1>0, <1>4 DEF ReadRank
    <2>2. /\ Moves(s) /\ conn'[s].pc = label /\ conn'[s].q = conn[s].q /\ conn[s].pc = "rank"
          /\ UNCHANGED <<answered, awarded, starts, board, ranked, saving, answers, lost>>
      BY <1>0, <1>4, <2>1, GotoDoes DEF ReadRank, Label, At, redis
    <2>3. Marks(p, s)
      BY <1>0, TabFacts
    <2>4. Marks(p, s)' /\ Entered(p, s)' /\ Rows(p)' = Rows(p)
      BY <2>1, <2>2, <2>3 DEF Marks, Entered, Counting, At, PlayerLabel, Rows
    <2>5. QED
      BY <1>0, <2>2, <2>4, TabKeeps
  <1>5. CASE EnterBoard(s)
    <2>1. /\ Moves(s) /\ conn'[s].pc = "award" /\ conn'[s].q = conn[s].q /\ conn[s].pc = "zero"
          /\ board' = [board EXCEPT ![p] = 0] /\ ranked' = ranked \cup {p}
          /\ UNCHANGED <<answered, awarded, starts, saving, answers, lost>>
      BY <1>0, <1>5, GotoDoes DEF EnterBoard, Label, At
    <2>2. Marks(p, s) /\ Entered(p, s)
      BY <1>0, TabFacts
    <2>3. board[p] = 0
      BY <2>1, <2>2 DEF AnswerInv, Boards, Entered, At
    <2>4. board'[p] = board[p]
      BY <1>0, <2>1, <2>3 DEF TypeOK
    <2>5. Marks(p, s)' /\ Entered(p, s)' /\ Rows(p)' = Rows(p)
      BY <2>1, <2>2 DEF Marks, Entered, Counting, At, PlayerLabel, Rows
    <2>6. QED
      BY <1>0, <2>1, <2>4, <2>5, TabKeeps
  <1>6. QED
    BY <1>1, <1>2, <1>3, <1>4, <1>5

LEMMA AwardAwards ==
  ASSUME TypeOK, Roles, NEW p \in Participant, AnswerInv(p), NEW s \in Tabs(p), Sole(s), Award(s)
  PROVE  AnswerInv(p)'
  <1> DEFINE k == conn[s].q
             new == [by |-> p, q |-> k, score |-> conn[s].score]
  <1>0. s \in Socket /\ Owner[s] = p /\ k \in Question /\ conn[s].score \in Points
    BY TabFacts
  <1>1. Moves(s) /\ conn'[s].pc = "open" /\ conn[s].pc = "award"
    BY <1>0, GotoDoes DEF Award, Label, At
  <1>2. /\ board' = [board EXCEPT ![p] = @ + new.score]
        /\ saving' = saving \cup {new}
        /\ awarded' = [awarded EXCEPT ![p][k] = @ + 1]
        /\ new.by = p /\ new.q = k /\ new.score \in Points
        /\ UNCHANGED <<answered, starts, ranked, answers, lost>>
    BY <1>0 DEF Award
  <1>3. \A u \in Tabs(p) : conn'[u].pc \notin PlayerLabel
    BY <1>1, LabelsAreBusy DEF Tabs, Sole, Moves, PlayerLabel
  <1>4. /\ awarded[p][k] < starts[k]
        /\ p \notin answered[k] => awarded[p][k] + 1 < starts[k]
        /\ p \in ranked
    BY <1>1, TabFacts DEF Marks, Entered, Counting, At
  <1> HIDE DEF k, new
  <1>5. \A q \in Question :
          /\ awarded[p][q] \in Nat /\ starts[q] \in Nat
          /\ awarded'[p][q] = IF q = k THEN awarded[p][q] + 1 ELSE awarded[p][q]
    BY <1>0, <1>2 DEF TypeOK
  <1>6. Tabs(p)' = Tabs(p) /\ \A u \in Tabs(p) : Marks(p, u)' /\ Entered(p, u)'
    BY <1>3 DEF Tabs, Marks, Entered, PlayerLabel, Counting, At
  <1>7. Awarding(p)'
    <2>1. \A q \in Question : awarded'[p][q] <= starts'[q]
      BY <1>2, <1>4, <1>5 DEF AnswerInv, Awarding
    <2>2. \A q \in Question : p \notin answered'[q] /\ starts'[q] > 0 => awarded'[p][q] < starts'[q]
      BY <1>2, <1>4, <1>5 DEF AnswerInv, Awarding
    <2>3. QED
      BY <1>6, <2>1, <2>2 DEF Awarding
  <1>8. Rows(p)' = Rows(p) \cup {new}
    BY <1>2 DEF Rows
  <1>9. \A row \in Rows(p) : row.q \in Question /\ row.score \in Points
    BY DEF Rows, TypeOK, Answer
  <1>10. IsFiniteSet(Rows(p)') /\ \A row \in Rows(p)' : awarded'[p][row.q] > 0
    <2>1. IsFiniteSet(Rows(p)')
      BY <1>8, FS_AddElement DEF AnswerInv, Boards
    <2>2. \A row \in Rows(p) : awarded[p][row.q] > 0
      BY DEF AnswerInv, Boards
    <2>3. awarded'[p][new.q] > 0
      BY <1>0, <1>2, <1>5
    <2>4. QED
      BY <1>5, <1>8, <1>9, <2>1, <2>2, <2>3
  <1>11. ASSUME \A q \in Question : starts'[q] <= 1
         PROVE  /\ \A r1, r2 \in Rows(p)' : r1.q = r2.q => r1 = r2
                /\ board'[p] = Cardinality(Right(p))'
    <2>1. /\ \A r1, r2 \in Rows(p) : r1.q = r2.q => r1 = r2
          /\ board[p] = Cardinality(Right(p))
          /\ IsFiniteSet(Rows(p)) /\ \A row \in Rows(p) : awarded[p][row.q] > 0
      BY <1>2, <1>11 DEF AnswerInv, Boards
    <2>2. awarded[p][k] = 0
      BY <1>0, <1>2, <1>4, <1>5, <1>11
    <2>3. \A row \in Rows(p) : row.q # k
      BY <2>1, <2>2
    <2>4. \A r1, r2 \in Rows(p)' : r1.q = r2.q => r1 = r2
      BY <1>2, <1>8, <2>1, <2>3
    <2>5. Right(p) \subseteq Rows(p) /\ IsFiniteSet(Right(p)) /\ board[p] \in Nat
      BY <2>1, FS_Subset DEF Right, TypeOK
    <2>6. CASE new.score = 1
      <3>1. Right(p)' = Right(p) \cup {new} /\ new \notin Right(p)
        BY <1>2, <1>8, <2>3, <2>6 DEF Right
      <3>2. Cardinality(Right(p)') = Cardinality(Right(p)) + 1
        BY <2>5, <3>1, FS_AddElement
      <3>3. QED
        BY <1>2, <2>1, <2>4, <2>6, <3>2 DEF TypeOK
    <2>7. CASE new.score # 1
      <3>1. Right(p)' = Right(p)
        BY <1>8, <2>7 DEF Right
      <3>2. board'[p] = board[p]
        BY <1>2, <2>5, <2>7 DEF TypeOK, Points
      <3>3. QED
        BY <2>1, <2>4, <3>1, <3>2
    <2>8. QED
      BY <2>6, <2>7
  <1>12. p \notin ranked' => board'[p] = 0
    BY <1>2, <1>4
  <1>13. Boards(p)'
    BY <1>6, <1>10, <1>11, <1>12 DEF Boards
  <1>14. QED
    BY <1>7, <1>13 DEF AnswerInv

LEMMA SaveAwards ==
  ASSUME TypeOK, NEW task \in saving, SaveAnswer(task), NEW p \in Participant, AnswerInv(p)
  PROVE  AnswerInv(p)'
  <1>1. Awarding(p)'
    BY DEF SaveAnswer, redis, AnswerInv, Awarding, Tabs, Marks, Counting, At
  <1>2. Rows(p)' \subseteq Rows(p) /\ IsFiniteSet(Rows(p)')
    BY FS_Subset DEF SaveAnswer, Rows, AnswerInv, Boards
  <1>3. ASSUME \A q \in Question : starts[q] <= 1 PROVE Rows(p)' = Rows(p) /\ Right(p)' = Right(p)
    <2>1. task.by = p => \A row \in answers : row.by = task.by /\ row.q = task.q => row = task
      BY <1>3 DEF AnswerInv, Boards, Rows
    <2>2. Rows(p)' = Rows(p)
      BY <1>2, <2>1 DEF SaveAnswer, Rows
    <2>3. QED
      BY <2>2 DEF Right
  <1>4. \A s \in Tabs(p) : Entered(p, s)'
    BY DEF SaveAnswer, redis, AnswerInv, Boards, Entered, At
  <1>5. Boards(p)'
    BY <1>2, <1>3, <1>4 DEF SaveAnswer, redis, AnswerInv, Boards, Tabs
  <1>6. QED
    BY <1>1, <1>5 DEF AnswerInv

LEMMA NextAnswers ==
  ASSUME Alone, RoomInv, [Next]_vars, NEW p \in Participant, AnswerInv(p), p \notin overlapped'
  PROVE  AnswerInv(p)'
  <1>0. TypeOK /\ Roles
    BY DEF RoomInv
  <1>1. ASSUME NEW s \in Tabs(p), Begin(s) \/ conn[s].pc \in PlayerLabel PROVE Sole(s)
    <2>1. s \in Socket /\ Owner[s] = p /\ overlapped \subseteq overlapped'
      BY <1>0, NextAlone DEF Tabs
    <2>2. QED
      BY <1>0, <1>1, <2>1, SoleIs, LabelsAreBusy
  \* what neither answers nor clears
  <1>2. ASSUME \A u \in Tabs(p) : conn'[u] = conn[u] \/ conn'[u].pc \notin PlayerLabel,
               UNCHANGED <<answered, board, ranked, saving, answers, lost, starts, awarded>>
        PROVE  AnswerInv(p)'
    BY <1>0, <1>2, ElsewhereKeeps DEF Rows
  <1>3. ASSUME NEW s \in Socket, Moves(s), conn'[s].pc \notin PlayerLabel,
               UNCHANGED <<answered, board, ranked, saving, answers, lost, starts, awarded>>
        PROVE  AnswerInv(p)'
    BY <1>2, <1>3 DEF Moves, Tabs
  \* another participant's answer
  <1>4. ASSUME NEW s \in Socket, Owner[s] # p, Moves(s), starts' = starts,
               \A q \in Question : p \in answered'[q] <=> p \in answered[q],
               Rows(p)' = Rows(p), awarded'[p] = awarded[p], board'[p] = board[p],
               p \in ranked' <=> p \in ranked
        PROVE  AnswerInv(p)'
    BY <1>0, <1>4, ElsewhereKeeps DEF Moves, Tabs
  <1>5. ASSUME NEW s \in Socket, Ask(s) PROVE AnswerInv(p)'
    <2>0. current.q \in Question
      BY <1>0 DEF TypeOK, State
    <2>1. CASE Connect(s)
      BY <1>0, <1>3, <2>1, GotoDoes DEF Connect, Label, PlayerLabel, redis
    <2>2. CASE Disconnect(s)
      <3>1. conn' = [conn EXCEPT ![s] = Closed] /\ Closed.pc \notin PlayerLabel
        BY <2>2 DEF Disconnect, Closed, PlayerLabel
      <3>2. Moves(s) /\ conn'[s].pc \notin PlayerLabel
        BY <1>0, <3>1, BecomesDoes, ClosedType
      <3>3. QED
        BY <1>3, <2>2, <3>2 DEF Disconnect, redis
    <2>3. CASE StartQuestion(s)
      <3>1. Moves(s) /\ conn'[s].pc = "clear"
        BY <1>0, <2>0, <2>3, LocalDoes DEF StartQuestion, Label, Status
      <3>2. QED
        BY <1>3, <2>3, <3>1 DEF StartQuestion, redis, PlayerLabel
    <2>4. CASE EndQuestion(s)
      <3>1. Moves(s) /\ conn'[s].pc = "end"
        BY <1>0, <2>0, <2>4, LocalDoes DEF EndQuestion, Label, Status
      <3>2. QED
        BY <1>3, <2>4, <3>1 DEF EndQuestion, redis, PlayerLabel
    <2>5. ASSUME NEW q \in Question, SendQuestion(s, q) PROVE AnswerInv(p)'
      <3>1. Moves(s) /\ conn'[s].pc = "announce"
        BY <1>0, <2>5, LocalDoes DEF SendQuestion, Label, Status
      <3>2. QED
        BY <1>3, <2>5, <3>1 DEF SendQuestion, PlayerLabel
    <2>6. ASSUME NEW score \in Points, Submit(s, score) PROVE AnswerInv(p)'
      <3>1. Moves(s) /\ Begin(s)
        BY <1>0, <2>6, SubmitDoes DEF Submit
      <3>2. CASE Owner[s] = p
        BY <1>1, <2>6, <3>1, <3>2, AnswerAwards DEF Tabs
      <3>3. CASE Owner[s] # p
        BY <1>4, <2>6, <3>1, <3>3 DEF Submit, redis, Rows
      <3>4. QED
        BY <3>2, <3>3
    <2>7. QED
      BY <1>5, <2>1, <2>2, <2>3, <2>4, <2>5, <2>6 DEF Ask
  <1>6. ASSUME NEW s \in Socket, Handle(s) PROVE AnswerInv(p)'
    <2>1. CASE Restore(s)
      BY <1>0, <1>3, <2>1, GotoDoes DEF Restore, Label, PlayerLabel, redis
    <2>2. CASE Receive(s)
      BY <1>2, <2>2 DEF Receive, redis
    <2>3. CASE Announce(s)
      BY <1>0, <1>3, <2>3, GotoDoes DEF Announce, Label, PlayerLabel, redis
    <2>4. CASE Run(s)
      BY <1>0, <1>3, <2>4, GotoDoes DEF Run, Label, PlayerLabel
    <2>5. CASE EndStatus(s)
      BY <1>0, <1>3, <2>5, GotoDoes DEF EndStatus, Label, PlayerLabel
    <2>6. CASE StoreResult(s)
      BY <1>0, <1>3, <2>6, GotoDoes DEF StoreResult, Label, PlayerLabel
    <2>7. CASE Owner[s] = p
      <3>1. s \in Tabs(p) /\ (conn[s].pc \in PlayerLabel => Sole(s))
        BY <1>1, <2>7 DEF Tabs
      <3>2. CASE CheckAnswered(s) \/ MarkAnswered(s) \/ ReadRank(s) \/ EnterBoard(s)
        <4>1. Sole(s)
          BY <3>1, <3>2 DEF CheckAnswered, MarkAnswered, ReadRank, EnterBoard, At, PlayerLabel
        <4>2. QED
          BY <3>1, <3>2, <4>1, AnswerAwards
      <3>3. CASE Award(s)
        BY <1>0, <3>1, <3>3, AwardAwards DEF Award, At, PlayerLabel
      <3>4. QED
        BY <1>0, <1>6, <2>1, <2>2, <2>3, <2>4, <2>5, <2>6, <3>2, <3>3, ClearAwards DEF Handle
    <2>8. CASE Owner[s] # p
      <3>1. CASE CheckAnswered(s)
        <4>1. PICK label \in {"open", "mark"} : Goto(s, label)
          BY <3>1 DEF CheckAnswered
        <4>2. Moves(s)
          BY <1>0, <4>1, GotoDoes DEF Label
        <4>3. QED
          BY <1>4, <2>8, <3>1, <4>2 DEF CheckAnswered, redis, Rows
      <3>2. CASE MarkAnswered(s)
        <4>1. Moves(s) /\ conn[s].q \in Question
          BY <1>0, <3>2, GotoDoes DEF MarkAnswered, Label, TypeOK, Consumer
        <4>2. \A q \in Question : p \in answered'[q] <=> p \in answered[q]
          BY <1>0, <2>8, <3>2, <4>1 DEF MarkAnswered, TypeOK
        <4>3. QED
          BY <1>4, <2>8, <3>2, <4>1, <4>2 DEF MarkAnswered, Rows
      <3>3. CASE ReadRank(s)
        <4>1. PICK label \in {"award", "zero"} : Goto(s, label)
          BY <3>3 DEF ReadRank
        <4>2. Moves(s)
          BY <1>0, <4>1, GotoDoes DEF Label
        <4>3. QED
          BY <1>4, <2>8, <3>3, <4>2 DEF ReadRank, redis, Rows
      <3>4. CASE EnterBoard(s)
        <4>1. Moves(s)
          BY <1>0, <3>4, GotoDoes DEF EnterBoard, Label
        <4>2. board'[p] = board[p] /\ (p \in ranked' <=> p \in ranked)
          BY <1>0, <2>8, <3>4 DEF EnterBoard, TypeOK
        <4>3. QED
          BY <1>4, <2>8, <3>4, <4>1, <4>2 DEF EnterBoard, Rows
      <3>5. CASE Award(s)
        <4>1. Moves(s)
          BY <1>0, <3>5, GotoDoes DEF Award, Label
        <4>2. board'[p] = board[p] /\ awarded'[p] = awarded[p]
          BY <1>0, <2>8, <3>5 DEF Award, TypeOK
        <4>3. Rows(p)' = Rows(p)
          BY <2>8, <3>5 DEF Award, Rows
        <4>4. QED
          BY <1>4, <2>8, <3>5, <4>1, <4>2, <4>3 DEF Award
      <3>6. QED
        BY <1>0, <1>6, <2>1, <2>2, <2>3, <2>4, <2>5, <2>6, <3>1, <3>2, <3>3, <3>4, <3>5,
           ClearAwards DEF Handle
    <2>9. QED
      BY <2>7, <2>8
  <1>7. CASE UNCHANGED vars
    BY <1>2, <1>7 DEF vars, redis
  <1>8. QED
    BY <1>0, <1>5, <1>6, <1>7, SaveAwards DEF Next

-----------------------------------------------------------------------------
(* What the room promises                                                   *)

LEMMA QuizInvariant == Spec => []QuizInv
  <1>1. Init => QuizInv
    <2>1. Init => Alone
      BY DEF Init, Closed, Alone, Busy
    <2>2. QED
      BY <2>1, InitTypes, InitRoom, InitAnswers DEF QuizInv
  <1>2. QuizInv /\ [Next]_vars => QuizInv'
    <2> SUFFICES ASSUME QuizInv, [Next]_vars PROVE QuizInv'
      OBVIOUS
    <2>1. TypeOK' /\ Roles' /\ Alone' /\ overlapped \subseteq overlapped'
      BY NextTypes, NextAlone DEF QuizInv
    <2>2. ASSUME Host \notin overlapped'
          PROVE  Room' /\ \A p \in Participant \ overlapped' : AnswerInv(p)'
      <3>1. Alone /\ RoomInv /\ \A p \in Participant \ overlapped : AnswerInv(p)
        BY <2>1, <2>2 DEF QuizInv, RoomInv
      <3>2. Room'
        BY <2>2, <3>1, NextRoom DEF RoomInv
      <3>3. ASSUME NEW p \in Participant \ overlapped' PROVE AnswerInv(p)'
        BY <2>1, <3>1, <3>3, NextAnswers
      <3>4. QED
        BY <3>2, <3>3
    <2>3. QED
      BY <2>1, <2>2 DEF QuizInv
  <1>3. QED
    BY <1>1, <1>2, PTL DEF Spec

\* As long as no two hosts have overlapped, a question that has ended has its
\* result between any two of their commands: whoever reconnects finds the answer.
THEOREM ResultIsStored == Spec => []EndedHasResult
  <1>1. QuizInv => EndedHasResult
    BY DEF QuizInv, Room, Stored, EndedHasResult, Resting, At
  <1>2. QED
    BY <1>1, QuizInvariant, PTL

\* ... and every client that has read its messages shows the current state,
\* however it connected between a write and its broadcast, for any number of
\* sockets of any owner.
THEOREM ScreensShowTheState == Spec => []ScreensAgree
  <1>1. QuizInv => ScreensAgree
    <2> SUFFICES ASSUME QuizInv, Host \notin overlapped, NEW s \in Socket, At(s, "open"),
                        inbox[s] = <<>>, Resting(Hosts)
                 PROVE  /\ screen[s].status = current.status
                        /\ current.status # "none" => screen[s].q = current.q
      BY DEF ScreensAgree
    <2>1. ~Replaced /\ ~Starting /\ s \in Connected /\ ~At(s, "restore")
      BY DEF Replaced, Starting, Resting, Connected, At
    <2>2. QED
      BY <2>1 DEF QuizInv, Room, Shown, ScreenTells
  <1>2. QED
    BY <1>1, QuizInvariant, PTL

\* ... and every start of a question counts at most one answer of each participant
\* none of whose tabs overlapped, for any number of tabs, participants and restarts.
THEOREM AwardsAreOnce == Spec => []AwardedOncePerStart
  <1>1. QuizInv => AwardedOncePerStart
    BY DEF QuizInv, AnswerInv, Awarding, AwardedOncePerStart
  <1>2. QED
    BY <1>1, QuizInvariant, PTL

\* ... whose points on the live board, while no question is started twice, are
\* those of his stored answers and of the answers whose row could not be saved.
THEOREM BoardsAreOne == Spec => []BoardsAgree
  <1>1. QuizInv => BoardsAgree
    <2> SUFFICES ASSUME QuizInv, Host \notin overlapped, NEW p \in Participant \ overlapped,
                        \A q \in Question : starts[q] <= 1, \A task \in saving : task.by # p
                 PROVE  board[p] = Cardinality({row \in answers \cup lost : row.by = p /\ row.score = 1})
      BY DEF BoardsAgree
    <2>1. Right(p) = {row \in answers \cup lost : row.by = p /\ row.score = 1}
      BY DEF Right, Rows
    <2>2. QED
      BY <2>1 DEF QuizInv, AnswerInv, Boards
  <1>2. QED
    BY <1>1, QuizInvariant, PTL
=============================================================================
