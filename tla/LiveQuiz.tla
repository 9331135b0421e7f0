------------------------------ MODULE LiveQuiz ------------------------------
(***************************************************************************)
(* A live quiz room (src/Aryu/live_quiz/consumers.py): WebSocket consumers *)
(* that share one room's state in Redis, the channel layer that carries    *)
(* their broadcasts, and the answers stored in the database.               *)
(*                                                                         *)
(* A consumer handles its own messages one at a time, so a socket is a     *)
(* process; every await on Redis is a step, and consumers interleave       *)
(* there.  The host sends, starts and ends questions; participants answer. *)
(* Texts, timers and leaderboard broadcasts are abstracted: a right answer *)
(* is worth one point, a wrong one none.                                   *)
(***************************************************************************)
EXTENDS Integers, Sequences, FiniteSets

CONSTANTS
    Question,
    Participant,
    Host,          \* the owner of an administrator's socket
    Socket,
    Owner,         \* Owner[s]: the host or a participant
    MaxCommands    \* bound: messages the hosts send

ASSUME LiveQuizAssumption ==
    /\ Question # {} /\ Host \notin Participant
    /\ Owner \in [Socket -> Participant \cup {Host}]
    /\ MaxCommands \in Nat

VARIABLES
    current,   \* room:current: the question and its status
    answered,  \* room:answered:q: the participants marked as answered
    results,   \* room:result:q: the questions whose result is stored
    board,     \* room:board: points by participant
    ranked,    \* the participants that are members of room:board
    saving,    \* _save_answer tasks that were created and have not run
    answers,   \* Answer rows, unique for (participant, question)
    lost,      \* history: answers whose row could not be saved
    starts,    \* how often the answers to q were cleared to start it
    awarded,   \* how often an answer of p to q was counted on the board
    commands,  \* messages the hosts have sent
    overlapped, \* owners two of whose sockets have had a message in hand at once
    conn,      \* conn[s]: the consumer of a socket
    inbox,     \* inbox[s]: broadcasts the channel layer holds for it
    screen     \* screen[s]: what its client shows

redis == <<current, answered, results, board, ranked>>
vars == <<redis, saving, answers, lost, starts, awarded, commands, overlapped, conn, inbox, screen>>

Status == {"none", "preview", "running", "ended"}
State == [q : Question, status : Status]
Points == {0, 1}
Answer == [by : Participant, q : Question, score : Points]
AnyQuestion == CHOOSE q \in Question : TRUE
Waiting == [q |-> AnyQuestion, status |-> "none"]
Closed == [pc |-> "closed", q |-> AnyQuestion, status |-> "none", score |-> 0]

Label == {"closed", "restore", "open", "clear", "run", "end", "result", "announce",
          "check", "mark", "rank", "zero", "award"}
Consumer == [pc : Label, q : Question, status : Status, score : Points]

Hosts == {s \in Socket : Owner[s] = Host}
Players == Socket \ Hosts

TypeOK ==
    /\ current \in State /\ results \in SUBSET Question
    /\ answered \in [Question -> SUBSET Participant]
    /\ board \in [Participant -> Nat] /\ ranked \in SUBSET Participant
    /\ saving \in SUBSET Answer /\ answers \in SUBSET Answer
    /\ lost \in SUBSET Answer
    /\ starts \in [Question -> Nat] /\ awarded \in [Participant -> [Question -> Nat]]
    /\ commands \in 0 .. MaxCommands /\ overlapped \subseteq Participant \cup {Host}
    /\ conn \in [Socket -> Consumer]
    /\ inbox \in [Socket -> Seq(State)]
    /\ screen \in [Socket -> State]

Init ==
    /\ current = Waiting /\ results = {}
    /\ answered = [q \in Question |-> {}]
    /\ board = [p \in Participant |-> 0] /\ ranked = {}
    /\ saving = {} /\ answers = {} /\ lost = {}
    /\ starts = [q \in Question |-> 0]
    /\ awarded = [p \in Participant |-> [q \in Question |-> 0]]
    /\ commands = 0 /\ overlapped = {}
    /\ conn = [s \in Socket |-> Closed]
    /\ inbox = [s \in Socket |-> <<>>]
    /\ screen = [s \in Socket |-> Waiting]

At(s, label) == conn[s].pc = label
Goto(s, label) == conn' = [conn EXCEPT ![s].pc = label]
Connected == {s \in Socket : ~At(s, "closed")}
\* s takes a message in hand, perhaps while another socket of its owner has one
Busy(s) == conn[s].pc \notin {"closed", "restore", "open"}
Begin(s) == overlapped' = overlapped \cup
    {Owner[u] : u \in {v \in Socket \ {s} : Owner[v] = Owner[s] /\ Busy(v)}}
Command(s) == At(s, "open") /\ s \in Hosts /\ commands < MaxCommands
              /\ commands' = commands + 1 /\ Begin(s)
-----------------------------------------------------------------------------
(* Connecting: the group is joined before the state is read                 *)

Connect(s) ==
    /\ At(s, "closed") /\ Goto(s, "restore")
    /\ inbox' = [inbox EXCEPT ![s] = <<>>]
    /\ UNCHANGED <<redis, saving, answers, lost, starts, awarded, commands, overlapped, screen>>

\* mutant: a client that reconnects waits for the next broadcast
RestoreLater(s) ==
    /\ At(s, "restore") /\ Goto(s, "open")
    /\ screen' = [screen EXCEPT ![s] = Waiting]
    /\ UNCHANGED <<redis, saving, answers, lost, starts, awarded, commands, overlapped, inbox>>

\* send_current_state
Restore(s) ==
    /\ At(s, "restore") /\ Goto(s, "open")
    /\ screen' = [screen EXCEPT ![s] = current]
    /\ UNCHANGED <<redis, saving, answers, lost, starts, awarded, commands, overlapped, inbox>>

Disconnect(s) ==
    /\ At(s, "open")
    /\ conn' = [conn EXCEPT ![s] = Closed]
    /\ inbox' = [inbox EXCEPT ![s] = <<>>]
    /\ UNCHANGED <<redis, saving, answers, lost, starts, awarded, commands, overlapped, screen>>

\* question_preview, question_started, question_ended; "started" names no
\* question, the client starts the one it shows
Receive(s) == LET message == Head(inbox[s]) IN
    /\ At(s, "open") /\ inbox[s] # <<>>
    /\ inbox' = [inbox EXCEPT ![s] = Tail(@)]
    /\ screen' = [screen EXCEPT ![s] =
         IF message.status = "running" THEN [@ EXCEPT !.status = "running"] ELSE message]
    /\ UNCHANGED <<redis, saving, answers, lost, starts, awarded, commands, overlapped, conn>>

-----------------------------------------------------------------------------
(* The host                                                                 *)

Local(s, label, q, status) ==
    conn' = [conn EXCEPT ![s] = [pc |-> label, q |-> q, status |-> status, score |-> 0]]

\* group_send, the last step of every command
Announce(s) ==
    /\ At(s, "announce") /\ Goto(s, "open")
    /\ inbox' = [u \in Socket |-> IF u \in Connected
         THEN Append(inbox[u], [q |-> conn[s].q, status |-> conn[s].status]) ELSE inbox[u]]
    /\ UNCHANGED <<redis, saving, answers, lost, starts, awarded, commands, overlapped, screen>>

\* send_question: the question is cached and becomes the current one
SendQuestion(s, q) ==
    /\ Command(s)
    /\ current' = [q |-> q, status |-> "preview"]
    /\ Local(s, "announce", q, "preview")
    /\ UNCHANGED <<answered, results, board, ranked, saving, answers, lost, starts, awarded, inbox, screen>>

\* start_question: only a question in preview
StartQuestion(s) ==
    /\ Command(s) /\ current.status = "preview"
    /\ Local(s, "clear", current.q, "running")
    /\ UNCHANGED <<redis, saving, answers, lost, starts, awarded, inbox, screen>>

\* mutant: the answers are cleared when the question already runs
ClearAnsweredLate(s) ==
    /\ \/ /\ At(s, "clear") /\ Goto(s, "run") /\ UNCHANGED answered
          /\ starts' = [starts EXCEPT ![conn[s].q] = @ + 1]
       \/ /\ At(s, "announce") /\ conn[s].status = "running" /\ UNCHANGED <<conn, starts>>
          /\ answered' = [answered EXCEPT ![conn[s].q] = {}]
    /\ UNCHANGED <<current, results, board, ranked, saving, answers, lost, awarded, commands,
                   overlapped, inbox, screen>>

ClearAnswered(s) ==
    /\ At(s, "clear") /\ Goto(s, "run")
    /\ answered' = [answered EXCEPT ![conn[s].q] = {}]
    /\ starts' = [starts EXCEPT ![conn[s].q] = @ + 1]
    /\ UNCHANGED <<current, results, board, ranked, saving, answers, lost, awarded, commands,
                   overlapped, inbox, screen>>

Run(s) ==
    /\ At(s, "run") /\ Goto(s, "announce")
    /\ current' = [current EXCEPT !.status = "running"]
    /\ UNCHANGED <<answered, results, board, ranked, saving, answers, lost, starts, awarded, commands,
                   overlapped, inbox, screen>>

\* end_question: whatever the status is
EndQuestion(s) ==
    /\ Command(s) /\ current.status # "none"
    /\ Local(s, "end", current.q, "ended")
    /\ UNCHANGED <<redis, saving, answers, lost, starts, awarded, inbox, screen>>

EndStatus(s) ==
    /\ At(s, "end") /\ Goto(s, "result")
    /\ current' = [current EXCEPT !.status = "ended"]
    /\ UNCHANGED <<answered, results, board, ranked, saving, answers, lost, starts, awarded, commands,
                   overlapped, inbox, screen>>

\* mutant: the result of the question is stored only while it is running
StoreResultNever(s) ==
    /\ At(s, "result") /\ Goto(s, "announce")
    /\ results' = IF answered[conn[s].q] # {} THEN results \cup {conn[s].q} ELSE results
    /\ UNCHANGED <<current, answered, board, ranked, saving, answers, lost, starts, awarded, commands,
                   overlapped, inbox, screen>>

StoreResult(s) ==
    /\ At(s, "result") /\ Goto(s, "announce")
    /\ results' = results \cup {conn[s].q}
    /\ UNCHANGED <<current, answered, board, ranked, saving, answers, lost, starts, awarded, commands,
                   overlapped, inbox, screen>>

-----------------------------------------------------------------------------
(* A participant answers                                                    *)

\* submit_answer: rejected unless the question is running
Submit(s, score) ==
    /\ At(s, "open") /\ s \in Players /\ current.status = "running" /\ Begin(s)
    /\ conn' = [conn EXCEPT ![s] = [pc |-> "check", q |-> current.q,
                                    status |-> "running", score |-> score]]
    /\ UNCHANGED <<redis, saving, answers, lost, starts, awarded, commands, inbox, screen>>

\* sismember: "Already answered" ends the handler
CheckAnswered(s) ==
    /\ At(s, "check")
    /\ Goto(s, IF Owner[s] \in answered[conn[s].q] THEN "open" ELSE "mark")
    /\ UNCHANGED <<redis, saving, answers, lost, starts, awarded, commands, overlapped, inbox, screen>>

\* sadd; its reply is not looked at
MarkAnswered(s) ==
    /\ At(s, "mark") /\ Goto(s, "rank")
    /\ answered' = [answered EXCEPT ![conn[s].q] = @ \cup {Owner[s]}]
    /\ UNCHANGED <<current, results, board, ranked, saving, answers, lost, starts, awarded, commands,
                   overlapped, inbox, screen>>

\* mutant: whoever has no points is entered (again) with zero
ReadRankZeroAll(s) ==
    /\ At(s, "rank") /\ Goto(s, "zero")
    /\ UNCHANGED <<redis, saving, answers, lost, starts, awarded, commands, overlapped, inbox, screen>>

\* zscore: a participant who is not on the board yet is added with zero
ReadRank(s) ==
    /\ At(s, "rank") /\ Goto(s, IF Owner[s] \in ranked THEN "award" ELSE "zero")
    /\ UNCHANGED <<redis, saving, answers, lost, starts, awarded, commands, overlapped, inbox, screen>>

EnterBoard(s) ==
    /\ At(s, "zero") /\ Goto(s, "award")
    /\ board' = [board EXCEPT ![Owner[s]] = 0] /\ ranked' = ranked \cup {Owner[s]}
    /\ UNCHANGED <<current, answered, results, saving, answers, lost, starts, awarded, commands,
                   overlapped, inbox, screen>>

\* zincrby, and the task that saves the answer is created
Award(s) ==
    /\ At(s, "award") /\ Goto(s, "open")
    /\ board' = [board EXCEPT ![Owner[s]] = @ + conn[s].score]
    /\ saving' = saving \cup {[by |-> Owner[s], q |-> conn[s].q, score |-> conn[s].score]}
    /\ awarded' = [awarded EXCEPT ![Owner[s]][conn[s].q] = @ + 1]
    /\ UNCHANGED <<current, answered, results, ranked, answers, lost, starts, commands,
                   overlapped, inbox, screen>>

\* get_or_create: the first answer of a participant to a question stays; any
\* exception is swallowed, and the row is missing for good
SaveAnswer(task) ==
    /\ task \in saving /\ saving' = saving \ {task}
    /\ \/ /\ answers' = IF \E row \in answers : row.by = task.by /\ row.q = task.q
                        THEN answers ELSE answers \cup {task}
          /\ UNCHANGED lost
       \/ lost' = lost \cup {task} /\ UNCHANGED answers
    /\ UNCHANGED <<redis, starts, awarded, commands, overlapped, conn, inbox, screen>>

-----------------------------------------------------------------------------
Handle(s) ==
    \/ Restore(s) \/ Receive(s) \/ Announce(s)
    \/ ClearAnswered(s) \/ Run(s) \/ EndStatus(s) \/ StoreResult(s)
    \/ CheckAnswered(s) \/ MarkAnswered(s) \/ ReadRank(s) \/ EnterBoard(s) \/ Award(s)

Ask(s) ==
    \/ Connect(s) \/ Disconnect(s) \/ StartQuestion(s) \/ EndQuestion(s)
    \/ \E q \in Question : SendQuestion(s, q)
    \/ \E score \in Points : Submit(s, score)

Next == (\E s \in Socket : Handle(s) \/ Ask(s)) \/ (\E task \in saving : SaveAnswer(task))

Spec == Init /\ [][Next]_vars

-----------------------------------------------------------------------------
(* Properties                                                               *)

\* Two sockets of one owner that have a message in hand at once overwrite each
\* other's steps.  What follows is promised as long as no two hosts did, and to
\* the participants none of whose tabs did, however many of them are open.

Resting(S) == \A s \in S : conn[s].pc \in {"closed", "open"}

\* consumers.py:333 "Atomic mark as answered - prevents duplicate submissions":
\* every start of a question counts at most one answer of a participant on the
\* board, although the check and the mark are two commands and old answers are
\* cleared.
AwardedOncePerStart == Host \notin overlapped =>
    \A p \in Participant \ overlapped, q \in Question : awarded[p][q] <= starts[q]

\* While no question is started twice, the live board and the final one, which
\* adds up the Answer rows, differ for everyone by exactly the right answers
\* whose row could not be saved: nobody loses a point in any other way.
BoardsAgree == Host \notin overlapped => \A p \in Participant \ overlapped :
    /\ \A q \in Question : starts[q] <= 1
    /\ Resting({s \in Socket : Owner[s] = p}) /\ \A task \in saving : task.by # p
    => board[p] = Cardinality({row \in answers \cup lost : row.by = p /\ row.score = 1})

\* consumers.py:303 "Store result so reconnecting users can see what the answer
\* was": an ended question has its result.
EndedHasResult ==
    Host \notin overlapped /\ current.status = "ended" /\ Resting(Hosts) => current.q \in results

\* consumers.py:128-129 "Sends the exact state the user should see right now":
\* a client that has read its messages shows the current state, however
\* connecting and broadcasting interleaved.
ScreensAgree == Host \notin overlapped => \A s \in Socket :
    At(s, "open") /\ inbox[s] = <<>> /\ Resting(Hosts) =>
        /\ screen[s].status = current.status
        /\ current.status # "none" => screen[s].q = current.q
=============================================================================
