--------------------------- MODULE CodeAssessment ---------------------------
(***************************************************************************)
(* Life cycle of a CodeSubmission of one CodingProblem                     *)
(* (src/Aryu/code_assessment): created and dispatched by the submit        *)
(* endpoint, evaluated by ExecutionService in a Celery worker (or inline,  *)
(* when CELERY_TASK_ALWAYS_EAGER is set), retried, abandoned or            *)
(* redelivered when something fails on the way.                            *)
(*                                                                         *)
(* A thread is a request thread or a Celery worker process.  Every         *)
(* database statement (or atomic block) and every call of the runner is a  *)
(* step of its own, so threads interleave where the code lets them.        *)
(* Source text, program output and timings are abstracted: the runner      *)
(* answers one of the outcomes evaluate_submission tells apart.            *)
(***************************************************************************)
EXTENDS Naturals, FiniteSets

CONSTANTS
    Sub,           \* submissions
    Thread,        \* request threads and worker processes
    Case,          \* identifiers of test cases, existing now or created later
    InitCases,     \* the test cases the problem has at the start
    Editable,      \* the test cases an administrator adds or deletes
    Eager,         \* CELERY_TASK_ALWAYS_EAGER: delay() runs the task inline
    MaxRetries,    \* max_retries of the task
    MaxRaises,     \* bound: exceptions (database or broker errors, soft time limit)
    MaxLost,       \* bound: threads killed whose message is acknowledged
    MaxRedelivered, \* bound: workers stopped whose message is delivered again
    MaxDisturbed   \* bound: threads killed, workers stopped and test cases edited,
                   \* together

ASSUME CodeAssessmentAssumption ==
    /\ Sub # {} /\ IsFiniteSet(Case)
    /\ InitCases \subseteq Case /\ Editable \subseteq Case
    /\ Eager \in BOOLEAN
    /\ {MaxRetries, MaxRaises, MaxLost, MaxRedelivered, MaxDisturbed} \subseteq Nat

VARIABLES
    row,       \* row[s]: the CodeSubmission row
    results,   \* results[s][<<c, o>>]: rows of SubmissionTestCaseResult
    counted,   \* counted[s]: what s added to problem.total_submissions_count
    accepted,  \* accepted[s]: what s added to problem.accepted_submissions_count
    cases,     \* the test cases of the problem
    deleted,   \* the test cases that were deleted (ids are never reused)
    queue,     \* queue[s][n]: messages "evaluate s", n retries so far
    thread,    \* thread[t]: program counter and locals
    faults     \* faults so far, by kind

vars == <<row, results, counted, accepted, cases, deleted, queue, thread, faults>>

Attempts == 0 .. MaxRetries
Outcome == {"pass", "fail", "compile_error"}
Graded == {"accepted", "failed", "compile_error"}
Terminal == Graded \cup {"system_error"}       \* constants.TERMINAL_STATUSES
Status == {"none", "queued", "running"} \cup Terminal
Evaluating == {"load", "empty", "fetch", "run", "store", "finish"}

\* score = round(passed / total * 100, 2), in whole percent
Score(passed, total) == (passed * 100) \div total

Idle == [pc |-> "idle", sub |-> CHOOSE s \in Sub : TRUE, try |-> 0, task |-> FALSE,
         total |-> 0, todo |-> {}, passed |-> 0, verdict |-> "unset", rows |-> {}]

ThreadState == [pc : {"idle", "dispatch", "retry", "mark", "ack"} \cup Evaluating,
                sub : Sub, try : Attempts, task : BOOLEAN, total : Nat,
                todo : SUBSET Case, passed : Nat, verdict : {"unset", "failed", "compile_error"},
                rows : SUBSET (Case \X Outcome)]

NoRow == [status |-> "none", total |-> 0, passed |-> 0, score |-> 0]

TypeOK ==
    /\ row \in [Sub -> [status : Status, total : Nat, passed : Nat, score : Nat]]
    /\ results \in [Sub -> [Case \X Outcome -> Nat]]
    /\ counted \in [Sub -> Nat] /\ accepted \in [Sub -> Nat]
    /\ cases \in SUBSET Case /\ deleted \in SUBSET Case
    /\ queue \in [Sub -> [Attempts -> Nat]]
    /\ thread \in [Thread -> ThreadState]
    /\ faults \in [{"raise", "lost", "redelivered"} -> Nat]

Init ==
    /\ row = [s \in Sub |-> NoRow]
    /\ results = [s \in Sub |-> [r \in Case \X Outcome |-> 0]]
    /\ counted = [s \in Sub |-> 0] /\ accepted = [s \in Sub |-> 0]
    /\ cases = InitCases /\ deleted = {}
    /\ queue = [s \in Sub |-> [n \in Attempts |-> 0]]
    /\ thread = [t \in Thread |-> Idle]
    /\ faults = [k \in {"raise", "lost", "redelivered"} |-> 0]

At(t, label) == thread[t].pc = label
Goto(t, label) == thread' = [thread EXCEPT ![t].pc = label]
Begin(t, s, n, task, label) ==
    thread' = [thread EXCEPT
        ![t] = [Idle EXCEPT !.pc = label, !.sub = s, !.try = n, !.task = task]]

-----------------------------------------------------------------------------
(* Submission and dispatch                                                  *)

\* POST .../submit/: the queued row is committed before the dispatch
Submit(t, s) ==
    /\ At(t, "idle") /\ row[s].status = "none"
    /\ row' = [row EXCEPT ![s].status = "queued"]
    /\ Begin(t, s, 0, FALSE, "dispatch")
    /\ UNCHANGED <<results, counted, accepted, cases, deleted, queue, faults>>

\* evaluate_submission_task.delay: publish, or run the task in this thread
Dispatch(t) ==
    /\ At(t, "dispatch")
    /\ \/ /\ ~Eager
          /\ queue' = [queue EXCEPT ![thread[t].sub][0] = @ + 1]
          /\ Goto(t, "idle")
       \/ /\ Eager
          /\ Begin(t, thread[t].sub, 0, TRUE, "load")
          /\ UNCHANGED queue
    /\ UNCHANGED <<row, results, counted, accepted, cases, deleted, faults>>

\* the broker cannot be reached: create_submission evaluates directly
DispatchFails(t) ==
    /\ At(t, "dispatch") /\ ~Eager /\ faults["raise"] < MaxRaises
    /\ faults' = [faults EXCEPT !["raise"] = @ + 1]
    /\ Begin(t, thread[t].sub, 0, FALSE, "load")
    /\ UNCHANGED <<row, results, counted, accepted, cases, deleted, queue>>

\* a Celery worker takes a message (acks_late: it is acknowledged at "ack")
Receive(t, s, n) ==
    /\ At(t, "idle") /\ queue[s][n] > 0
    /\ queue' = [queue EXCEPT ![s][n] = @ - 1]
    /\ Begin(t, s, n, TRUE, "load")
    /\ UNCHANGED <<row, results, counted, accepted, cases, deleted, faults>>

-----------------------------------------------------------------------------
(* ExecutionService.evaluate_submission                                     *)

\* test_cases.count(), then status = running is saved with the count
Load(t) == LET s == thread[t].sub  total == Cardinality(cases) IN
    /\ At(t, "load")
    /\ row' = [row EXCEPT ![s].status = "running", ![s].total = total]
    /\ thread' = [thread EXCEPT ![t].total = total,
                                ![t].pc = IF total = 0 THEN "empty" ELSE "fetch"]
    /\ UNCHANGED <<results, counted, accepted, cases, deleted, queue, faults>>

\* a problem without test cases: accepted, outside the problem's statistics
AcceptEmpty(t) == LET s == thread[t].sub IN
    /\ At(t, "empty")
    /\ row' = [row EXCEPT ![s] = [status |-> "accepted", total |-> 0,
                                  passed |-> 0, score |-> 100]]
    /\ Goto(t, "ack")
    /\ UNCHANGED <<results, counted, accepted, cases, deleted, queue, faults>>

\* the loop's query: the test cases as they are now, not as they were counted
FetchCases(t) ==
    /\ At(t, "fetch")
    /\ thread' = [thread EXCEPT ![t].todo = cases,
                                ![t].pc = IF cases = {} THEN "store" ELSE "run"]
    /\ UNCHANGED <<row, results, counted, accepted, cases, deleted, queue, faults>>

\* one call of the runner; a compile error ends the loop
RunCase(t, c, outcome) == LET me == thread[t] IN
    /\ At(t, "run") /\ c \in me.todo
    /\ thread' = [thread EXCEPT ![t] = [me EXCEPT
         !.todo = IF outcome = "compile_error" THEN {} ELSE @ \ {c},
         !.rows = @ \cup {<<c, outcome>>},
         !.passed = @ + (IF outcome = "pass" THEN 1 ELSE 0),
         !.verdict = CASE outcome = "compile_error" -> "compile_error"
                       [] outcome = "fail" /\ @ = "unset" -> "failed"
                       [] OTHER -> @,
         !.pc = IF outcome = "compile_error" \/ me.todo = {c} THEN "store" ELSE @]]
    /\ UNCHANGED <<row, results, counted, accepted, cases, deleted, queue, faults>>

\* mutant: the result rows replace the earlier ones only in memory, the last is lost
StoreResultsDropsPassed(t) == LET me == thread[t] IN
    /\ At(t, "store")
    /\ \A r \in me.rows : r[1] \in cases
    /\ results' = [results EXCEPT ![me.sub] =
         [r \in Case \X Outcome |-> IF r \in me.rows /\ r[2] # "pass" THEN @[r] + 1 ELSE @[r]]]
    /\ Goto(t, "finish")
    /\ UNCHANGED <<row, counted, accepted, cases, deleted, queue, faults>>

\* bulk_create, a transaction of its own; the test cases must still exist
StoreResults(t) == LET me == thread[t] IN
    /\ At(t, "store")
    /\ \A r \in me.rows : r[1] \in cases
    /\ results' = [results EXCEPT ![me.sub] =
         [r \in Case \X Outcome |-> IF r \in me.rows THEN @[r] + 1 ELSE @[r]]]
    /\ Goto(t, "finish")
    /\ UNCHANGED <<row, counted, accepted, cases, deleted, queue, faults>>

FinalStatus(me) == IF me.passed = me.total THEN "accepted"
                   ELSE IF me.verdict # "unset" THEN me.verdict ELSE "failed"

\* mutant: the counters are updated only for accepted submissions
FinaliseCountsAccepted(t) == LET me == thread[t] IN
    /\ At(t, "finish")
    /\ row' = [row EXCEPT ![me.sub] =
         [status |-> FinalStatus(me), total |-> me.total, passed |-> me.passed,
          score |-> Score(me.passed, me.total)]]
    /\ LET one == IF FinalStatus(me) = "accepted" THEN 1 ELSE 0 IN
         /\ counted' = [counted EXCEPT ![me.sub] = @ + one]
         /\ accepted' = [accepted EXCEPT ![me.sub] = @ + one]
    /\ Goto(t, "ack")
    /\ UNCHANGED <<results, cases, deleted, queue, faults>>

\* the atomic block: the grade and the problem's counters
Finalise(t) == LET me == thread[t] IN
    /\ At(t, "finish")
    /\ row' = [row EXCEPT ![me.sub] =
         [status |-> FinalStatus(me), total |-> me.total, passed |-> me.passed,
          score |-> Score(me.passed, me.total)]]
    /\ counted' = [counted EXCEPT ![me.sub] = @ + 1]
    /\ accepted' = [accepted EXCEPT
         ![me.sub] = @ + (IF FinalStatus(me) = "accepted" THEN 1 ELSE 0)]
    /\ Goto(t, "ack")
    /\ UNCHANGED <<results, cases, deleted, queue, faults>>

\* mutant: create_submission evaluates directly after a task that succeeded
ReturnFallsThrough(t) == LET me == thread[t] IN
    /\ At(t, "ack")
    /\ IF me.task THEN Begin(t, me.sub, 0, FALSE, "load")
       ELSE thread' = [thread EXCEPT ![t] = Idle]
    /\ UNCHANGED <<row, results, counted, accepted, cases, deleted, queue, faults>>

\* the task returns (the message is acknowledged) or the request is answered
Return(t) ==
    /\ At(t, "ack") /\ thread' = [thread EXCEPT ![t] = Idle]
    /\ UNCHANGED <<row, results, counted, accepted, cases, deleted, queue, faults>>

-----------------------------------------------------------------------------
(* Failures                                                                 *)

\* mutant: no handler, an exception ends the task
UnwindUnhandled(t) == thread' = [thread EXCEPT ![t] = Idle]

\* an exception leaves evaluate_submission: to the task's handler, or, in a
\* direct evaluation, out of the request
Unwind(t) == IF thread[t].task THEN Goto(t, "retry")
             ELSE thread' = [thread EXCEPT ![t] = Idle]

Raise(t) ==
    /\ thread[t].pc \in Evaluating /\ faults["raise"] < MaxRaises
    /\ faults' = [faults EXCEPT !["raise"] = @ + 1]
    /\ Unwind(t)
    /\ UNCHANGED <<row, results, counted, accepted, cases, deleted, queue>>

\* bulk_create meets a test case that was deleted meanwhile
IntegrityError(t) ==
    /\ At(t, "store") /\ \E r \in thread[t].rows : r[1] \notin cases
    /\ Unwind(t)
    /\ UNCHANGED <<row, results, counted, accepted, cases, deleted, queue, faults>>

\* self.retry publishes the next attempt unless the retries are used up (or the
\* task is eager); it raises in every case and the handler goes on to mark
Retry(t) == LET me == thread[t] IN
    /\ At(t, "retry")
    /\ queue' = IF ~Eager /\ me.try < MaxRetries
                THEN [queue EXCEPT ![me.sub][me.try + 1] = @ + 1] ELSE queue
    /\ Goto(t, "mark")
    /\ UNCHANGED <<row, results, counted, accepted, cases, deleted, faults>>

\* the handler raises again: in eager mode to create_submission, which then
\* evaluates directly
AfterMark(t) == IF Eager THEN Begin(t, thread[t].sub, 0, FALSE, "load")
                ELSE Goto(t, "ack")

MarkSystemError(t) ==
    /\ At(t, "mark")
    /\ row' = [row EXCEPT ![thread[t].sub].status = "system_error"]
    /\ AfterMark(t)
    /\ UNCHANGED <<results, counted, accepted, cases, deleted, queue, faults>>

MarkFails(t) ==
    /\ At(t, "mark") /\ faults["raise"] < MaxRaises
    /\ faults' = [faults EXCEPT !["raise"] = @ + 1]
    /\ AfterMark(t)
    /\ UNCHANGED <<row, results, counted, accepted, cases, deleted, queue>>

Edits == Cardinality((cases \cup deleted) \ InitCases) + Cardinality(deleted)
MayDisturb == faults["lost"] + faults["redelivered"] + Edits < MaxDisturbed

\* a process is killed and its message, if it had one, is not delivered again
\* (task_reject_on_worker_lost is not set)
Killed(t) ==
    /\ ~At(t, "idle") /\ faults["lost"] < MaxLost /\ MayDisturb
    /\ faults' = [faults EXCEPT !["lost"] = @ + 1]
    /\ thread' = [thread EXCEPT ![t] = Idle]
    /\ UNCHANGED <<row, results, counted, accepted, cases, deleted, queue>>

\* a worker stops before it acknowledges: the broker delivers the message again
Redeliver(t) == LET me == thread[t] IN
    /\ ~Eager /\ ~At(t, "idle") /\ me.task
    /\ faults["redelivered"] < MaxRedelivered /\ MayDisturb
    /\ faults' = [faults EXCEPT !["redelivered"] = @ + 1]
    /\ queue' = [queue EXCEPT ![me.sub][me.try] = @ + 1]
    /\ thread' = [thread EXCEPT ![t] = Idle]
    /\ UNCHANGED <<row, results, counted, accepted, cases, deleted>>

-----------------------------------------------------------------------------
(* Test cases are created and deleted through AdminTestCaseViewSet          *)

AddCase(c) ==
    /\ c \in Editable \ (cases \cup deleted) /\ MayDisturb
    /\ cases' = cases \cup {c}
    /\ UNCHANGED <<row, results, counted, accepted, deleted, queue, thread, faults>>

\* on_delete=CASCADE takes the result rows of the test case with it
DeleteCase(c) ==
    /\ c \in Editable \cap cases /\ MayDisturb
    /\ cases' = cases \ {c} /\ deleted' = deleted \cup {c}
    /\ results' = [s \in Sub |-> [r \in Case \X Outcome |->
                     IF r[1] = c THEN 0 ELSE results[s][r]]]
    /\ UNCHANGED <<row, counted, accepted, queue, thread, faults>>

-----------------------------------------------------------------------------
Evaluate(t) ==
    \/ Load(t) \/ AcceptEmpty(t) \/ FetchCases(t)
    \/ \E c \in Case, o \in Outcome : RunCase(t, c, o)
    \/ StoreResults(t) \/ Finalise(t) \/ IntegrityError(t)

Advance(t) == Dispatch(t) \/ Evaluate(t) \/ Return(t) \/ Retry(t) \/ MarkSystemError(t)

Fault(t) == DispatchFails(t) \/ Raise(t) \/ MarkFails(t) \/ Killed(t) \/ Redeliver(t)

Next ==
    \/ \E t \in Thread, s \in Sub : Submit(t, s)
    \/ \E t \in Thread, s \in Sub, n \in Attempts : Receive(t, s, n)
    \/ \E t \in Thread : Advance(t) \/ Fault(t)
    \/ \E c \in Case : AddCase(c) \/ DeleteCase(c)

Spec == Init /\ [][Next]_vars

\* processes keep running; a message that waits is eventually taken
FairSpec == /\ Spec
            /\ \A t \in Thread : WF_vars(Advance(t))
            /\ \A s \in Sub, n \in Attempts :
                 SF_vars(\E t \in Thread : Receive(t, s, n))

-----------------------------------------------------------------------------
(* Properties                                                               *)

\* A submission enters the problem's statistics at most once, plus once for
\* every message the broker delivered again: exceptions, retries and the
\* direct fallback never count it twice (execution_service.py:328-343).
CountedOnce == \A s \in Sub : counted[s] <= 1 + faults["redelivered"]

\* A grade other than that of an empty problem is in the statistics: the row
\* and the counters are written by one transaction.
GradedIsCounted == \A s \in Sub :
    row[s].status \in Graded /\ row[s].total > 0 => counted[s] >= 1

\* When tasks run inline, statistics and grades say the same at every moment,
\* whatever raised or died: counted iff graded on at least one test case, and
\* counted as accepted iff it shows accepted.
StatisticsMatchGrade == \A s \in Sub :
    /\ (counted[s] = 1) <=> (row[s].status \in Graded /\ row[s].total > 0)
    /\ (accepted[s] = 1) <=> (row[s].status = "accepted" /\ row[s].total > 0)

\* Unless a test case is added meanwhile, an accepted submission has a stored
\* passing result for every one that exists, even if others were deleted and
\* earlier attempts to evaluate it were abandoned at any point.
AcceptedIsBacked == cases \cup deleted \subseteq InitCases =>
    \A s \in Sub : row[s].status = "accepted" =>
        \A c \in cases : results[s][<<c, "pass">>] >= 1

\* When tasks run inline a grade is never revised.
GradeIsFinal == [][\A s \in Sub :
    row[s].status \in Graded => row'[s] = row[s]]_vars

\* One exception anywhere (in the dispatch, in the evaluation, in the runner) is
\* survived, or any number of test cases deleted meanwhile: every submission ends
\* in a terminal status and keeps it, unless a process was killed, a message
\* with it, or a second failure met the code where it handles only one.
TooMuchFailed == \/ faults["lost"] > 0 \/ faults["raise"] > 1
                 \/ faults["raise"] = 1 /\ deleted # {}
Settles == \A s \in Sub :
    (row[s].status # "none") ~> [](row[s].status \in Terminal) \/ TooMuchFailed

\* What a client may rely on when tasks run inline: GradeOnce.
GradeOf(s) == CASE row[s].status = "none" -> "absent"
                [] row[s].status \in Graded -> row[s].status
                [] OTHER -> "pending"
Abstract == INSTANCE GradeOnce WITH grade <- [s \in Sub |-> GradeOf(s)]
GradesOnce == Abstract!Spec
=============================================================================
