------------------------------ MODULE Attendance ------------------------------
(***************************************************************************)
(* The attendance rows of one trainer, or of one student, in one batch and *)
(* course (src/Aryu/aryuapp/views.py), and the working hours that three    *)
(* views compute from them.                                                *)
(*                                                                         *)
(* Time is counted in ticks; a day of the Indian calendar has DayTicks of  *)
(* them and begins Lag ticks before the day of UTC.  Two rows never have   *)
(* the same time (it is kept in microseconds).  Marking is a look at the   *)
(* rows that exist and an INSERT, without a transaction.  Break In and     *)
(* Break Out pair like Login and Logout and are left out, as are the       *)
(* checks of batch, course and today's schedule, which only refuse.        *)
(***************************************************************************)
EXTENDS Integers, Sequences, FiniteSets, SequencesExt, FiniteSetsExt

CONSTANTS
    DayTicks, Lag,   \* ticks of a day, and between midnight here and at UTC
    ClassHours,      \* ticks of the day at which the class is held
    Worker,          \* requests in progress
    MaxTime,         \* bound: the last tick
    MaxRows          \* bound: rows that are inserted

ASSUME AttendanceAssumption ==
    /\ DayTicks \in Nat \ {0} /\ Lag \in 0 .. DayTicks - 1
    /\ ClassHours \subseteq 0 .. DayTicks - 1
    /\ MaxTime \in Nat /\ MaxRows \in Nat

VARIABLES
    who,      \* whose rows these are
    now,
    rows,     \* in the order of their INSERTs
    worker    \* worker[w]: program counter and locals

vars == <<who, now, rows, worker>>

Time == 0 .. MaxTime
Status == {"Login", "Logout"}
Day(t) == t \div DayTicks
\* the day at UTC; days before the first are -1
UtcDay(t) == IF t < Lag THEN -1 ELSE (t - Lag) \div DayTicks
Days == {Day(t) : t \in Time} \cup {-1}

\* sure tells whether the request compared with rows of the row's own day and
\* nothing was inserted since then (history, never read by an action)
Row == [time : Time, status : Status, sure : BOOLEAN]
Idle == [at |-> "idle", time |-> 0, status |-> "Login", own |-> FALSE, seen |-> 0]

TypeOK ==
    /\ who \in {"trainer", "student"}
    /\ now \in Time
    /\ rows \in Seq(Row) /\ Len(rows) <= MaxRows
    /\ worker \in [Worker -> [at : {"idle", "checked"}, time : Time, status : Status,
                              own : BOOLEAN, seen : 0 .. MaxRows]]

Init ==
    /\ who \in {"trainer", "student"}
    /\ now = 0 /\ rows = <<>>
    /\ worker = [w \in Worker |-> Idle]

Numbers == 1 .. Len(rows)
Taken(t) == \/ \E i \in Numbers : rows[i].time = t
            \/ \E w \in Worker : worker[w].at = "checked" /\ worker[w].time = t

\* date__date is the day here
Marked(status, day) ==
    \E i \in Numbers : rows[i].status = status /\ Day(rows[i].time) = day

-----------------------------------------------------------------------------
(* Marking                                                                  *)

Check(w, time, status, own) ==
    /\ worker[w].at = "idle" /\ Len(rows) < MaxRows /\ ~Taken(time)
    /\ worker' = [worker EXCEPT ![w] =
           [at |-> "checked", time |-> time, status |-> status, own |-> own,
            seen |-> Len(rows)]]
    /\ UNCHANGED <<who, now, rows>>

\* mutant: without a look at the rows there are
TrainerMarksAgain(w, status) ==
    /\ who = "trainer"
    /\ Check(w, now, status, Day(now) = UtcDay(now))

\* create: the time is now, whose date is that of UTC
TrainerMarks(w, status) ==
    /\ who = "trainer" /\ ~Marked(status, UtcDay(now))
    /\ Check(w, now, status, Day(now) = UtcDay(now))

\* create with a date, admin_mark_attendance: the date is that of the offset
\* the client sent
DatedMarks(w, time, status, day) ==
    /\ day \in {Day(time), UtcDay(time)} /\ ~Marked(status, day)
    /\ Check(w, time, status, Day(time) = day)

\* admin_mark_attendance without a status marks a login and looks for none
UndeterminedMarks(w, time) ==
    /\ who = "trainer"
    /\ Check(w, time, "Login", FALSE)

\* a student's own request looks for nothing
StudentMarks(status) ==
    /\ who = "student" /\ Len(rows) < MaxRows /\ ~Taken(now)
    /\ rows' = Append(rows, [time |-> now, status |-> status, sure |-> FALSE])
    /\ UNCHANGED <<who, now, worker>>

Insert(w) == LET here == worker[w] IN
    /\ here.at = "checked" /\ Len(rows) < MaxRows
    /\ rows' = Append(rows, [time |-> here.time, status |-> here.status,
                             sure |-> here.own /\ here.seen = Len(rows)])
    /\ worker' = [worker EXCEPT ![w] = Idle]
    /\ UNCHANGED <<who, now>>

\* the request dies before its INSERT, or that fails
Fails(w) ==
    /\ worker[w].at = "checked"
    /\ worker' = [worker EXCEPT ![w] = Idle]
    /\ UNCHANGED <<who, now, rows>>

Tick == /\ now < MaxTime
        /\ now' = now + 1
        /\ UNCHANGED <<who, rows, worker>>

Next ==
    \/ \E w \in Worker :
        \/ \E status \in Status : \/ TrainerMarks(w, status)
                                  \/ \E time \in 0 .. now, day \in Days :
                                        DatedMarks(w, time, status, day)
        \/ \E time \in 0 .. now : UndeterminedMarks(w, time)
        \/ Insert(w) \/ Fails(w)
    \/ \E status \in Status : StudentMarks(status)
    \/ Tick

Spec == Init /\ [][Next]_vars

-----------------------------------------------------------------------------
(* Working hours                                                            *)

OnDay(d) == {i \in Numbers : Day(rows[i].time) = d}
OnUtcDay(d) == {i \in Numbers : UtcDay(rows[i].time) = d}
With(S, status) == {i \in S : rows[i].status = status}
Earliest(S) == Min({rows[i].time : i \in S})
Latest(S) == Max({rows[i].time : i \in S})
\* the rows of S in the order of their times (order_by)
ByTime(S) == CHOOSE order \in [1 .. Cardinality(S) -> S] :
    \A k, l \in 1 .. Cardinality(S) : k < l => rows[order[k]].time < rows[order[l]].time

\* list, full_logs of the trainer: a logout ends the login before it
Nobody == -1
\* mutants: a login counts until it is replaced; a login starts the sum afresh
AccountAgain(sum, i) ==
    IF rows[i].status = "Login" THEN [sum EXCEPT !.login = rows[i].time]
    ELSE IF sum.login = Nobody THEN sum
    ELSE [sum EXCEPT !.total = @ + rows[i].time - sum.login]
AccountAfresh(sum, i) ==
    IF rows[i].status = "Login" THEN [login |-> rows[i].time, total |-> 0]
    ELSE IF sum.login = Nobody THEN sum
    ELSE [login |-> Nobody, total |-> sum.total + rows[i].time - sum.login]

Account(sum, i) ==
    IF rows[i].status = "Login" THEN [sum EXCEPT !.login = rows[i].time]
    ELSE IF sum.login = Nobody THEN sum
    ELSE [login |-> Nobody, total |-> sum.total + rows[i].time - sum.login]
Worked(S) == FoldLeft(Account, [login |-> Nobody, total |-> 0], ByTime(S)).total

ListHours(d) == Worked(OnDay(d))
\* full_logs groups the rows by the date of their time, which is that of UTC
FullLogHours(d) == Worked(OnUtcDay(d))

\* mutant: till now, whether there is a logout or not
ReportTillNow(d) ==
    LET held == {i \in OnDay(d) : rows[i].time % DayTicks \in ClassHours}
        ins == With(held, "Login")
    IN IF ins = {} THEN 0 ELSE now - Earliest(ins)

\* _trainer_report: from the first login to the last logout, or till now, of
\* the rows in the hours of the class
ReportHours(d) ==
    LET held == {i \in OnDay(d) : rows[i].time % DayTicks \in ClassHours}
        ins == With(held, "Login")  outs == With(held, "Logout")
    IN IF ins = {} THEN 0
       ELSE (IF outs = {} THEN now ELSE Latest(outs)) - Earliest(ins)

\* mutant: a logout may be taken twice
PairShared(pairs, i) ==
    LET later == {j \in With(OnDay(Day(rows[i].time)), "Logout") :
                     rows[j].time > rows[i].time}
    IN IF later = {} THEN pairs
       ELSE pairs \cup {<<i, CHOOSE j \in later : rows[j].time = Earliest(later)>>}

\* list of the student: each login in turn takes the first later logout that
\* is not taken yet
Pair(pairs, i) ==
    LET later == {j \in With(OnDay(Day(rows[i].time)), "Logout") :
                     rows[j].time > rows[i].time /\ \A p \in pairs : p[2] # j}
    IN IF later = {} THEN pairs
       ELSE pairs \cup {<<i, CHOOSE j \in later : rows[j].time = Earliest(later)>>}
Sessions(d) == FoldLeft(Pair, {}, ByTime(With(OnDay(d), "Login")))
SessionTime(p) == rows[p[2]].time - rows[p[1]].time

-----------------------------------------------------------------------------
(* Properties                                                               *)

\* A trainer has two logins, or logouts, on one day only if another row was
\* inserted between the second request's look and its INSERT, or if it looked at
\* another day: that of UTC, or none.
OncePerDay ==
    who = "trainer" => \A i, j \in Numbers :
        i < j /\ rows[i].status = rows[j].status /\ Day(rows[i].time) = Day(rows[j].time)
            => ~rows[j].sure

\* Whatever was marked twice, out of order or on the wrong side of midnight, no
\* moment counts twice: the hours lie between the first login and the last
\* logout of the day.
HoursWithinPresence == \A d \in Days :
    LET ins == With(OnDay(d), "Login")  outs == With(OnDay(d), "Logout") IN
    /\ ListHours(d) >= 0
    /\ ListHours(d) > 0 => ListHours(d) <= Latest(outs) - Earliest(ins)

\* The three views agree about a day with one login and one logout after it,
\* both in the hours of the class and on one day of UTC.
ViewsAgree == \A d \in Days :
    LET ins == With(OnDay(d), "Login")  outs == With(OnDay(d), "Logout") IN
    /\ Cardinality(ins) = 1 /\ Cardinality(outs) = 1
    /\ Earliest(ins) < Earliest(outs)
    /\ \A i \in ins \cup outs : /\ rows[i].time % DayTicks \in ClassHours
                                /\ OnUtcDay(UtcDay(rows[i].time)) = OnDay(d)
    => LET u == UtcDay(Earliest(ins)) IN
       ListHours(d) = FullLogHours(u) /\ ListHours(d) = ReportHours(d)

\* A student's sessions never share a logout, and where logins and logouts
\* alternate their times add up to the hours that the trainer's views compute.
SessionsAddUp == \A d \in Days :
    LET order == ByTime(OnDay(d))  pairs == Sessions(d) IN
    /\ \A p, q \in pairs : p # q => p[2] # q[2]
    /\ (\A k \in 1 .. Len(order) - 1 : rows[order[k]].status # rows[order[k + 1]].status)
          => MapThenSumSet(SessionTime, pairs) = ListHours(d)

\* Hours that were worked are not lost by a row with a later time: a login that
\* is not followed by a logout, or a second logout, takes nothing away.
HoursKept == [][\A d \in Days :
    Len(rows') > Len(rows) /\ (\A i \in Numbers : rows[i].time < Last(rows').time)
        => ListHours(d)' >= ListHours(d)]_vars
=============================================================================
