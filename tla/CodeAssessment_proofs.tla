------------------------ MODULE CodeAssessment_proofs ------------------------
(***************************************************************************)
(* Theorems about CodeAssessment and, composed with it, AssessmentProgress, *)
(* for every number of submissions, threads and test cases and every bound *)
(* on faults: types, the grades and the statistics of the problem, and the *)
(* progress that summaries store.                                          *)
(***************************************************************************)
EXTENDS AssessmentProgress, FiniteSetTheorems, TLAPS

-----------------------------------------------------------------------------
(* Type correctness.  The grade is a quotient, so the invariant also says   *)
(* that a thread past the empty-problem test never divides by zero.         *)

NonzeroTotal == \A t \in Thread :
    thread[t].pc \in {"fetch", "run", "store", "finish"} => thread[t].total # 0

TypeInv == TypeOK /\ NonzeroTotal

LEMMA ScoreType == ASSUME NEW p \in Nat, NEW t \in Nat, t # 0 PROVE Score(p, t) \in Nat
  BY SMT DEF Score

LEMMA IdleType == Idle \in ThreadState
  BY CodeAssessmentAssumption DEF Idle, Attempts, ThreadState

LEMMA CountType == TypeOK => Cardinality(cases) \in Nat
  BY FS_Subset, FS_CardinalityType, CodeAssessmentAssumption DEF TypeOK

LEMMA BeginType ==
  ASSUME TypeOK, NEW t \in Thread, NEW s \in Sub, NEW n \in Attempts, NEW task \in BOOLEAN,
         NEW label \in {"dispatch", "load"}, Begin(t, s, n, task, label)
  PROVE  /\ thread' \in [Thread -> ThreadState]
         /\ NonzeroTotal => NonzeroTotal'
  <1>1. [Idle EXCEPT !.pc = label, !.sub = s, !.try = n, !.task = task] \in ThreadState
    BY IdleType DEF ThreadState, Evaluating
  <1>2. QED
    BY <1>1, IdleType DEF TypeOK, Begin, NonzeroTotal, ThreadState

LEMMA GotoType ==
  ASSUME TypeOK, NEW t \in Thread, NEW label \in {"idle", "dispatch", "retry", "mark", "ack"},
         Goto(t, label)
  PROVE  /\ thread' \in [Thread -> ThreadState]
         /\ NonzeroTotal => NonzeroTotal'
  <1> DEFINE new == [thread[t] EXCEPT !.pc = label]
  <1>1. new \in ThreadState /\ new.pc = label
    BY DEF TypeOK, ThreadState
  <1>2. thread' = [thread EXCEPT ![t] = new]
    BY DEF Goto
  <1> HIDE DEF new
  <1>3. QED
    BY <1>1, <1>2 DEF TypeOK, NonzeroTotal

LEMMA ToIdleType ==
  ASSUME TypeOK, NEW t \in Thread, thread' = [thread EXCEPT ![t] = Idle]
  PROVE  /\ thread' \in [Thread -> ThreadState]
         /\ NonzeroTotal => NonzeroTotal'
  <1>1. Idle.pc = "idle" BY DEF Idle
  <1>2. QED BY <1>1, IdleType DEF TypeOK, NonzeroTotal

LEMMA QueueType ==
  ASSUME NEW q \in [Sub -> [Attempts -> Nat]], NEW s \in Sub, NEW n \in Attempts
  PROVE  [q EXCEPT ![s][n] = @ + 1] \in [Sub -> [Attempts -> Nat]]
  OBVIOUS

LEMMA RunCaseType ==
  ASSUME TypeInv, NEW t \in Thread, NEW c \in Case, NEW o \in Outcome, RunCase(t, c, o)
  PROVE  thread' \in [Thread -> ThreadState] /\ NonzeroTotal'
  <1> DEFINE me == thread[t]
             todo == IF o = "compile_error" THEN {} ELSE me.todo \ {c}
             rows == me.rows \cup {<<c, o>>}
             passed == me.passed + (IF o = "pass" THEN 1 ELSE 0)
             verdict == CASE o = "compile_error" -> "compile_error"
                          [] o = "fail" /\ me.verdict = "unset" -> "failed"
                          [] OTHER -> me.verdict
             pc == IF o = "compile_error" \/ me.todo = {c} THEN "store" ELSE me.pc
             new == [me EXCEPT !.todo = todo, !.rows = rows, !.passed = passed,
                               !.verdict = verdict, !.pc = pc]
  <1>1. me \in ThreadState /\ me.pc = "run" /\ me.total # 0
    BY DEF RunCase, At, TypeInv, TypeOK, NonzeroTotal
  <1>2. thread' = [thread EXCEPT ![t] = new]
    BY DEF RunCase
  <1>3. todo \in SUBSET Case /\ passed \in Nat
    BY <1>1 DEF ThreadState
  <1>4. rows \in SUBSET (Case \X Outcome)
    BY <1>1 DEF ThreadState
  <1>5. verdict \in {"unset", "failed", "compile_error"}
    BY <1>1 DEF ThreadState, Graded
  <1>6. pc \in {"run", "store"}
    BY <1>1
  <1> HIDE DEF todo, rows, passed, verdict, pc
  <1>7. new \in ThreadState /\ new.total # 0
    BY <1>1, <1>3, <1>4, <1>5, <1>6 DEF ThreadState, Evaluating
  <1> HIDE DEF new
  <1>8. QED
    BY <1>2, <1>7 DEF TypeInv, TypeOK, NonzeroTotal

LEMMA InitTypeInv == Init => TypeInv
  <1> SUFFICES ASSUME Init PROVE TypeInv
    OBVIOUS
  <1>1. NoRow \in [status : Status, total : Nat, passed : Nat, score : Nat]
    BY DEF NoRow, Status
  <1>2. Idle.pc = "idle"
    BY DEF Idle
  <1>3. TypeOK
    BY <1>1, IdleType, CodeAssessmentAssumption DEF Init, TypeOK
  <1>4. NonzeroTotal
    BY <1>2 DEF Init, NonzeroTotal
  <1>5. QED
    BY <1>3, <1>4 DEF TypeInv

LEMMA NextTypeInv == TypeInv /\ [Next]_vars => TypeInv'
  <1> SUFFICES ASSUME TypeInv, [Next]_vars PROVE TypeInv'
    OBVIOUS
  <1> USE DEF TypeInv
  <1>0. 0 \in Attempts
    BY CodeAssessmentAssumption DEF Attempts
  <1>1. ASSUME NEW t \in Thread, NEW s \in Sub, Submit(t, s) PROVE TypeInv'
    <2>1. /\ thread' \in [Thread -> ThreadState] /\ NonzeroTotal'
      BY <1>0, <1>1, BeginType DEF Submit
    <2>2. QED
      BY <1>1, <2>1 DEF Submit, TypeOK, Status
  <1>2. ASSUME NEW t \in Thread, NEW s \in Sub, NEW n \in Attempts, Receive(t, s, n) PROVE TypeInv'
    <2>1. /\ thread' \in [Thread -> ThreadState] /\ NonzeroTotal'
      BY <1>2, BeginType DEF Receive
    <2>2. queue' \in [Sub -> [Attempts -> Nat]]
      BY <1>2 DEF Receive, TypeOK
    <2>3. QED
      BY <1>2, <2>1, <2>2 DEF Receive, TypeOK
  <1>3. ASSUME NEW t \in Thread, Dispatch(t) PROVE TypeInv'
    <2> thread[t].sub \in Sub
      BY DEF TypeOK, ThreadState
    <2>1. /\ thread' \in [Thread -> ThreadState] /\ NonzeroTotal'
      BY <1>0, <1>3, BeginType, GotoType DEF Dispatch
    <2>2. queue' \in [Sub -> [Attempts -> Nat]]
      <3>1. queue \in [Sub -> [Attempts -> Nat]]
        BY DEF TypeOK
      <3>2. queue' = queue \/ queue' = [queue EXCEPT ![thread[t].sub][0] = @ + 1]
        BY <1>3 DEF Dispatch
      <3>3. QED
        BY <1>0, <3>1, <3>2, QueueType
    <2>3. QED
      BY <1>3, <2>1, <2>2 DEF Dispatch, TypeOK
  <1>4. ASSUME NEW t \in Thread, Load(t) PROVE TypeInv'
    <2> thread[t].sub \in Sub
      BY DEF TypeOK, ThreadState
    <2> Cardinality(cases) \in Nat
      BY CountType
    <2>1. /\ thread' \in [Thread -> ThreadState] /\ NonzeroTotal'
      <3> DEFINE total == Cardinality(cases)
                 new == [thread[t] EXCEPT !.total = total,
                                          !.pc = IF total = 0 THEN "empty" ELSE "fetch"]
      <3>1. thread[t] \in ThreadState
        BY DEF TypeOK
      <3>2. new \in ThreadState /\ (new.pc # "empty" => new.total # 0)
        BY <3>1 DEF ThreadState, Evaluating
      <3>3. thread' = [thread EXCEPT ![t] = new]
        BY <1>4 DEF Load
      <3> HIDE DEF new
      <3>4. QED
        BY <3>2, <3>3 DEF TypeOK, NonzeroTotal
    <2>2. row' \in [Sub -> [status : Status, total : Nat, passed : Nat, score : Nat]]
      BY <1>4 DEF Load, TypeOK, Status
    <2>3. QED
      BY <1>4, <2>1, <2>2 DEF Load, TypeOK
  <1>5. ASSUME NEW t \in Thread, AcceptEmpty(t) PROVE TypeInv'
    <2>1. /\ thread' \in [Thread -> ThreadState] /\ NonzeroTotal'
      BY <1>5, GotoType DEF AcceptEmpty
    <2>2. row' \in [Sub -> [status : Status, total : Nat, passed : Nat, score : Nat]]
      BY <1>5 DEF AcceptEmpty, TypeOK, Status, Terminal, Graded
    <2>3. QED
      BY <1>5, <2>1, <2>2 DEF AcceptEmpty, TypeOK
  <1>6. ASSUME NEW t \in Thread, FetchCases(t) PROVE TypeInv'
    <2>1. /\ thread' \in [Thread -> ThreadState] /\ NonzeroTotal'
      <3> DEFINE new == [thread[t] EXCEPT !.todo = cases,
                                          !.pc = IF cases = {} THEN "store" ELSE "run"]
      <3>1. thread[t] \in ThreadState /\ thread[t].total # 0
        BY <1>6 DEF FetchCases, At, TypeOK, NonzeroTotal
      <3>2. new \in ThreadState /\ new.total # 0
        BY <3>1 DEF ThreadState, Evaluating, TypeOK
      <3>3. thread' = [thread EXCEPT ![t] = new]
        BY <1>6 DEF FetchCases
      <3> HIDE DEF new
      <3>4. QED
        BY <3>2, <3>3 DEF TypeOK, NonzeroTotal
    <2>2. QED
      BY <1>6, <2>1 DEF FetchCases, TypeOK
  <1>7. ASSUME NEW t \in Thread, NEW c \in Case, NEW o \in Outcome, RunCase(t, c, o) PROVE TypeInv'
    <2>1. /\ thread' \in [Thread -> ThreadState] /\ NonzeroTotal'
      BY <1>7, RunCaseType
    <2>2. QED
      BY <1>7, <2>1 DEF RunCase, TypeOK
  <1>8. ASSUME NEW t \in Thread, StoreResults(t) PROVE TypeInv'
    <2>1. /\ thread' \in [Thread -> ThreadState] /\ NonzeroTotal'
      <3> thread[t].total # 0 /\ thread[t] \in ThreadState
        BY <1>8 DEF StoreResults, At, TypeOK, NonzeroTotal
      <3> QED
        BY <1>8 DEF StoreResults, Goto, TypeOK, NonzeroTotal, ThreadState, Evaluating
    <2>2. results' \in [Sub -> [Case \X Outcome -> Nat]]
      <3> DEFINE new(f) == [r \in Case \X Outcome |->
                              IF r \in thread[t].rows THEN f[r] + 1 ELSE f[r]]
      <3>1. \A f \in [Case \X Outcome -> Nat] : new(f) \in [Case \X Outcome -> Nat]
        OBVIOUS
      <3>2. results' = [results EXCEPT ![thread[t].sub] = new(@)]
        BY <1>8 DEF StoreResults
      <3> HIDE DEF new
      <3>3. QED
        BY <3>1, <3>2 DEF TypeOK
    <2>3. QED
      BY <1>8, <2>1, <2>2 DEF StoreResults, TypeOK
  <1>9. ASSUME NEW t \in Thread, Finalise(t) PROVE TypeInv'
    <2> DEFINE me == thread[t]
    <2>1. /\ thread' \in [Thread -> ThreadState] /\ NonzeroTotal'
      BY <1>9, GotoType DEF Finalise
    <2>2. /\ me.sub \in Sub /\ me.total \in Nat /\ me.passed \in Nat
          /\ me.total # 0 /\ FinalStatus(me) \in Status
      BY <1>9 DEF Finalise, At, TypeOK, NonzeroTotal, ThreadState, FinalStatus,
                  Status, Terminal, Graded
    <2>3. Score(me.passed, me.total) \in Nat
      BY <2>2, ScoreType
    <2>4. row' \in [Sub -> [status : Status, total : Nat, passed : Nat, score : Nat]]
      BY <1>9, <2>2, <2>3 DEF Finalise, TypeOK
    <2>5. counted' \in [Sub -> Nat] /\ accepted' \in [Sub -> Nat]
      BY <1>9, <2>2 DEF Finalise, TypeOK
    <2>6. QED
      BY <1>9, <2>1, <2>4, <2>5 DEF Finalise, TypeOK
  <1>10. ASSUME NEW t \in Thread, IntegrityError(t) PROVE TypeInv'
    BY <1>10, GotoType, ToIdleType DEF IntegrityError, Unwind, TypeOK
  <1>11. ASSUME NEW t \in Thread, Return(t) PROVE TypeInv'
    BY <1>11, ToIdleType DEF Return, TypeOK
  <1>12. ASSUME NEW t \in Thread, Retry(t) PROVE TypeInv'
    <2>1. /\ thread' \in [Thread -> ThreadState] /\ NonzeroTotal'
      BY <1>12, GotoType DEF Retry
    <2>2. queue' \in [Sub -> [Attempts -> Nat]]
      <3>1. CASE ~Eager /\ thread[t].try < MaxRetries
        <4>1. thread[t].sub \in Sub /\ thread[t].try + 1 \in Attempts
          <5> MaxRetries \in Nat
            BY CodeAssessmentAssumption
          <5> thread[t].sub \in Sub /\ thread[t].try \in Attempts
            BY DEF TypeOK, ThreadState
          <5> QED
            BY <3>1 DEF Attempts
        <4>2. QED
          BY <1>12, <3>1, <4>1, QueueType DEF Retry, TypeOK
      <3>2. CASE ~(~Eager /\ thread[t].try < MaxRetries)
        BY <1>12, <3>2 DEF Retry, TypeOK
      <3>3. QED
        BY <3>1, <3>2
    <2>3. QED
      BY <1>12, <2>1, <2>2 DEF Retry, TypeOK
  <1>13. ASSUME NEW t \in Thread, AfterMark(t)
         PROVE thread' \in [Thread -> ThreadState] /\ NonzeroTotal'
    <2> thread[t].sub \in Sub
      BY DEF TypeOK, ThreadState
    <2> QED
      BY <1>0, <1>13, BeginType, GotoType DEF AfterMark
  <1>14. ASSUME NEW t \in Thread, MarkSystemError(t) PROVE TypeInv'
    BY <1>13, <1>14 DEF MarkSystemError, TypeOK, Status, Terminal
  <1>15. ASSUME NEW t \in Thread, Fault(t) PROVE TypeInv'
    <2> thread[t].sub \in Sub /\ thread[t].try \in Attempts
      BY DEF TypeOK, ThreadState
    <2>0. faults' \in [{"raise", "lost", "redelivered"} -> Nat]
      <3> \/ faults' = [faults EXCEPT !["raise"] = @ + 1]
          \/ faults' = [faults EXCEPT !["lost"] = @ + 1]
          \/ faults' = [faults EXCEPT !["redelivered"] = @ + 1]
        BY <1>15 DEF Fault, DispatchFails, Raise, MarkFails, Killed, Redeliver
      <3> QED
        BY DEF TypeOK
    <2>1. CASE DispatchFails(t)
      <3>1. thread' \in [Thread -> ThreadState] /\ NonzeroTotal'
        BY <1>0, <2>1, BeginType DEF DispatchFails
      <3>2. QED
        BY <2>0, <2>1, <3>1 DEF DispatchFails, TypeOK
    <2>2. CASE Raise(t)
      <3>1. thread' \in [Thread -> ThreadState] /\ NonzeroTotal'
        BY <2>2, GotoType, ToIdleType DEF Raise, Unwind
      <3>2. QED
        BY <2>0, <2>2, <3>1 DEF Raise, TypeOK
    <2>3. CASE MarkFails(t)
      BY <1>13, <2>0, <2>3 DEF MarkFails, TypeOK
    <2>4. CASE Killed(t)
      <3>1. thread' \in [Thread -> ThreadState] /\ NonzeroTotal'
        BY <2>4, ToIdleType DEF Killed
      <3>2. QED
        BY <2>0, <2>4, <3>1 DEF Killed, TypeOK
    <2>5. CASE Redeliver(t)
      <3>1. thread' \in [Thread -> ThreadState] /\ NonzeroTotal'
        BY <2>5, ToIdleType DEF Redeliver
      <3>2. queue' \in [Sub -> [Attempts -> Nat]]
        BY <2>5 DEF Redeliver, TypeOK
      <3>3. QED
        BY <2>0, <2>5, <3>1, <3>2 DEF Redeliver, TypeOK
    <2>6. QED
      BY <1>15, <2>1, <2>2, <2>3, <2>4, <2>5 DEF Fault
  <1>16. ASSUME NEW c \in Case, AddCase(c) \/ DeleteCase(c) PROVE TypeInv'
    <2>1. CASE AddCase(c)
      BY <2>1 DEF AddCase, TypeOK, NonzeroTotal
    <2>2. CASE DeleteCase(c)
      <3>1. results' \in [Sub -> [Case \X Outcome -> Nat]]
        BY <2>2 DEF DeleteCase, TypeOK
      <3>2. QED
        BY <2>2, <3>1 DEF DeleteCase, TypeOK, NonzeroTotal
    <2>3. QED
      BY <1>16, <2>1, <2>2
  <1>17. CASE UNCHANGED vars
    BY <1>17 DEF vars, TypeOK, NonzeroTotal
  <1>18. QED
    BY <1>1, <1>2, <1>3, <1>4, <1>5, <1>6, <1>7, <1>8, <1>9, <1>10, <1>11, <1>12,
       <1>14, <1>15, <1>16, <1>17 DEF Next, Advance, Evaluate

\* Every reachable state is well typed: every status written is a known one, no
\* evaluation divides by a zero number of test cases.
THEOREM TypeCorrect == Spec => []TypeOK
  <1>1. Init => TypeInv
    BY InitTypeInv
  <1>2. TypeInv /\ [Next]_vars => TypeInv'
    BY NextTypeInv
  <1>3. TypeInv => TypeOK
    BY DEF TypeInv
  <1>4. QED
    BY <1>1, <1>2, <1>3, PTL DEF Spec

-----------------------------------------------------------------------------
(* Grades and statistics.  They rest on one fact: unless the broker        *)
(* delivers a message again, at most one thread or message at a time may   *)
(* still count a submission, and none once it is counted.                  *)

\* t may still add its submission to the statistics: it is going to evaluate
\* it, or, when tasks run inline, to come back to it after the handler
Working(t) == \/ thread[t].pc \in {"dispatch", "retry"} \cup Evaluating
              \/ Eager /\ thread[t].pc = "mark"

SoleWorker == \A t, u \in Thread :
    Working(t) /\ Working(u) /\ thread[t].sub = thread[u].sub => t = u

WorkerUncounted == \A t \in Thread : Working(t) =>
    /\ counted[thread[t].sub] = 0
    /\ row[thread[t].sub].status # "none"
    /\ \A n \in Attempts : queue[thread[t].sub][n] = 0

SoleMessage == \A s \in Sub, n \in Attempts : queue[s][n] > 0 =>
    /\ queue[s][n] = 1
    /\ \A m \in Attempts \ {n} : queue[s][m] = 0
    /\ counted[s] = 0
    /\ row[s].status # "none"

FreshUncounted == \A s \in Sub : row[s].status = "none" => counted[s] = 0

AtMostOne == \A s \in Sub : counted[s] <= 1

OnceInv == SoleWorker /\ WorkerUncounted /\ SoleMessage /\ FreshUncounted /\ AtMostOne

\* when tasks run inline nothing is queued and what is worked on has no grade
InlineInv ==
    /\ \A s \in Sub, n \in Attempts : queue[s][n] = 0
    /\ \A t \in Thread : Working(t) => row[thread[t].sub].status \notin Graded
    /\ \A s \in Sub : counted[s] = 0 => accepted[s] = 0
    /\ StatisticsMatchGrade

-----------------------------------------------------------------------------
(* A grade is never outside the statistics                                  *)

LEMMA InitGraded == Init => GradedIsCounted
  BY DEF Init, NoRow, GradedIsCounted, Graded

LEMMA NextGraded == TypeInv /\ GradedIsCounted /\ [Next]_vars => GradedIsCounted'
  <1> SUFFICES ASSUME TypeInv, GradedIsCounted, [Next]_vars PROVE GradedIsCounted'
    OBVIOUS
  <1> USE DEF TypeInv
  <1>1. CASE UNCHANGED <<row, counted>>
    BY <1>1 DEF GradedIsCounted
  <1>2. ASSUME NEW t \in Thread, NEW s \in Sub, Submit(t, s) PROVE GradedIsCounted'
    BY <1>2 DEF Submit, GradedIsCounted, TypeOK, Graded
  <1>3. ASSUME NEW t \in Thread, Load(t) PROVE GradedIsCounted'
    BY <1>3 DEF Load, GradedIsCounted, TypeOK, Graded
  <1>4. ASSUME NEW t \in Thread, AcceptEmpty(t) PROVE GradedIsCounted'
    <2>1. \A s \in Sub : row'[s].total > 0 => row'[s] = row[s]
      BY <1>4 DEF AcceptEmpty, TypeOK
    <2>2. counted' = counted
      BY <1>4 DEF AcceptEmpty
    <2>3. QED
      BY <2>1, <2>2 DEF GradedIsCounted
  <1>5. ASSUME NEW t \in Thread, Finalise(t) PROVE GradedIsCounted'
    <2> DEFINE me == thread[t]
    <2>1. me.sub \in Sub /\ counted' = [counted EXCEPT ![me.sub] = @ + 1]
      BY <1>5 DEF Finalise, TypeOK, ThreadState
    <2>2. counted'[me.sub] >= 1
      BY <2>1 DEF TypeOK
    <2>3. \A s \in Sub \ {me.sub} : row'[s] = row[s] /\ counted'[s] = counted[s]
      BY <1>5, <2>1 DEF Finalise, TypeOK
    <2>4. QED
      BY <2>2, <2>3 DEF GradedIsCounted
  <1>6. ASSUME NEW t \in Thread, MarkSystemError(t) PROVE GradedIsCounted'
    BY <1>6 DEF MarkSystemError, GradedIsCounted, TypeOK, Graded
  <1>7. QED
    BY <1>1, <1>2, <1>3, <1>4, <1>5, <1>6
    DEF Next, Advance, Evaluate, Fault, vars, Receive, Dispatch, FetchCases, RunCase,
        StoreResults, IntegrityError, Return, Retry, DispatchFails, Raise, MarkFails,
        Killed, Redeliver, AddCase, DeleteCase

\* A grade other than that of an empty problem is in the problem's statistics,
\* whatever failed, was retried or was delivered again on the way.
THEOREM GradesAreCounted == Spec => []GradedIsCounted
  <1>1. Init => TypeInv /\ GradedIsCounted
    BY InitTypeInv, InitGraded
  <1>2. TypeInv /\ GradedIsCounted /\ [Next]_vars => TypeInv' /\ GradedIsCounted'
    BY NextTypeInv, NextGraded
  <1>3. QED
    BY <1>1, <1>2, PTL DEF Spec

-----------------------------------------------------------------------------
(* An accepted submission is backed by stored results.  While no test case  *)
(* is added, the cases of the problem only get fewer, and a worker that has *)
(* passed as many as it counted has passed all that are left.              *)

Untouched == cases \cup deleted \subseteq InitCases

Passed(t) == {c \in Case : <<c, "pass">> \in thread[t].rows}

\* what a worker has run and has still to run, against what it counted
Promises(t) ==
    /\ At(t, "load") \/ At(t, "fetch") => thread[t].passed = 0 /\ thread[t].rows = {}
    /\ At(t, "empty") => cases = {}
    /\ At(t, "fetch") => Cardinality(cases) <= thread[t].total
    /\ At(t, "run") \/ At(t, "store") =>
         /\ thread[t].passed + Cardinality(thread[t].todo) <= thread[t].total
         /\ thread[t].passed + Cardinality(thread[t].todo) = thread[t].total =>
              cases \subseteq thread[t].todo \cup Passed(t)
    /\ At(t, "store") => thread[t].todo = {}
    /\ At(t, "finish") /\ thread[t].passed = thread[t].total =>
         \A c \in cases : results[thread[t].sub][<<c, "pass">>] >= 1

AcceptedBacked == \A s \in Sub : row[s].status = "accepted" =>
    \A c \in cases : results[s][<<c, "pass">>] >= 1

BackedInv == /\ InitCases \subseteq cases \cup deleted
             /\ Untouched => (\A t \in Thread : Promises(t)) /\ AcceptedBacked

\* no test case comes back and no result of one that is left goes away
Fewer == /\ cases' \subseteq cases
         /\ \A s \in Sub : \A c \in cases' :
              results[s][<<c, "pass">>] >= 1 => results'[s][<<c, "pass">>] >= 1

LEMMA FewerCount == ASSUME TypeOK, cases' \subseteq cases
                    PROVE  Cardinality(cases') <= Cardinality(cases)
  BY FS_Subset, CodeAssessmentAssumption DEF TypeOK

LEMMA PromiseKept ==
  ASSUME TypeOK, TypeOK', Fewer, NEW t \in Thread, Promises(t), thread'[t] = thread[t]
  PROVE  Promises(t)'
  <1> DEFINE s == thread[t].sub
  <1>1. s \in Sub /\ thread[t].total \in Nat
    BY DEF TypeOK, ThreadState
  <1>2. At(t, "fetch") => Cardinality(cases') <= thread[t].total
    <2>1. Cardinality(cases) \in Nat /\ Cardinality(cases') \in Nat
      BY CountType, FewerCount, FS_Subset, FS_CardinalityType, CodeAssessmentAssumption DEF TypeOK
    <2>2. QED
      BY <1>1, <2>1, FewerCount DEF Promises, Fewer
  <1>3. At(t, "finish") /\ thread[t].passed = thread[t].total =>
          \A c \in cases' : results'[s][<<c, "pass">>] >= 1
    <2>1. cases' \subseteq cases
      BY DEF Fewer
    <2>2. QED
      BY <1>1, <2>1 DEF Promises, Fewer
  <1>4. cases' \subseteq cases
    BY DEF Fewer
  <1>5. Passed(t)' = Passed(t)
    BY DEF Passed
  <1>6. QED
    BY <1>2, <1>3, <1>4, <1>5 DEF Promises, At

LEMMA BackedKept ==
  ASSUME TypeOK, TypeOK', Fewer, AcceptedBacked,
         \A s \in Sub : row'[s].status = "accepted" =>
           \/ row[s].status = "accepted"
           \/ \A c \in cases' : results'[s][<<c, "pass">>] >= 1
  PROVE  AcceptedBacked'
  <1> SUFFICES ASSUME NEW s \in Sub, row'[s].status = "accepted", row[s].status = "accepted",
                      NEW c \in cases'
               PROVE  results'[s][<<c, "pass">>] >= 1
    BY DEF AcceptedBacked
  <1>1. QED
    BY DEF Fewer, AcceptedBacked

\* a step of one worker
LEMMA WorkerStep ==
  ASSUME TypeOK, TypeOK', Fewer, deleted' = deleted, cases' = cases, BackedInv,
         NEW t \in Thread, \A u \in Thread \ {t} : thread'[u] = thread[u],
         Untouched => Promises(t)',
         Untouched => \A s \in Sub : row'[s].status = "accepted" =>
           \/ row[s].status = "accepted"
           \/ \A c \in cases' : results'[s][<<c, "pass">>] >= 1
  PROVE  BackedInv'
  <1>1. InitCases \subseteq cases' \cup deleted' /\ (Untouched' => Untouched)
    BY DEF BackedInv, Untouched
  <1>2. ASSUME Untouched PROVE (\A u \in Thread : Promises(u)') /\ AcceptedBacked'
    <2>1. \A u \in Thread \ {t} : Promises(u)'
      BY <1>2, PromiseKept DEF BackedInv
    <2>2. AcceptedBacked'
      BY <1>2, BackedKept DEF BackedInv
    <2>3. QED
      BY <1>2, <2>1, <2>2
  <1>3. QED
    BY <1>1, <1>2 DEF BackedInv

LEMMA InitBacked == Init => BackedInv
  <1> SUFFICES ASSUME Init PROVE BackedInv
    OBVIOUS
  <1>1. Idle.pc = "idle"
    BY DEF Idle
  <1>2. \A t \in Thread : Promises(t)
    BY <1>1 DEF Init, Promises, At
  <1>3. AcceptedBacked
    BY DEF Init, NoRow, AcceptedBacked
  <1>4. QED
    BY <1>2, <1>3 DEF Init, BackedInv

LEMMA NextBacked == TypeInv /\ TypeInv' /\ BackedInv /\ [Next]_vars => BackedInv'
  <1> SUFFICES ASSUME TypeInv, TypeInv', BackedInv, [Next]_vars PROVE BackedInv'
    OBVIOUS
  <1> USE DEF TypeInv
  <1>0. /\ IsFiniteSet(Case)
        /\ \A t \in Thread : thread[t] \in ThreadState /\ thread[t].sub \in Sub
        /\ \A t \in Thread : IsFiniteSet(thread[t].todo) /\ Cardinality(thread[t].todo) \in Nat
        /\ IsFiniteSet(cases) /\ Cardinality(cases) \in Nat
    <2>1. \A t \in Thread : /\ thread[t] \in ThreadState
                            /\ thread[t].sub \in Sub /\ thread[t].todo \subseteq Case
      BY DEF TypeOK, ThreadState
    <2>2. QED
      BY <2>1, FS_Subset, FS_CardinalityType, CodeAssessmentAssumption DEF TypeOK
  <1>a. ASSUME results' = results, cases' = cases PROVE Fewer
    BY <1>a DEF Fewer, TypeOK, Outcome
  \* a thread that goes where nothing is promised
  <1>b. ASSUME NEW t \in Thread, results' = results, cases' = cases, deleted' = deleted,
               \A u \in Thread \ {t} : thread'[u] = thread[u],
               \/ thread'[t].pc \in {"idle", "dispatch", "retry", "mark", "ack"}
               \/ thread'[t].pc = "load" /\ thread'[t].passed = 0 /\ thread'[t].rows = {},
               \A s \in Sub : row'[s].status = "accepted" =>
                 row[s].status = "accepted" \/ (Untouched => cases = {})
        PROVE  BackedInv'
    <2>1. Promises(t)'
      BY <1>b DEF Promises, At
    <2>2. QED
      BY <1>a, <1>b, <2>1, WorkerStep
  <1>c. ASSUME NEW t \in Thread, NEW s \in Sub, NEW n \in Attempts, NEW task \in BOOLEAN,
               NEW label \in {"dispatch", "load"}, Begin(t, s, n, task, label)
        PROVE  /\ \A u \in Thread \ {t} : thread'[u] = thread[u]
               /\ thread'[t].pc = label /\ thread'[t].passed = 0 /\ thread'[t].rows = {}
    BY <1>c, IdleType DEF Begin, TypeOK, Idle
  <1>d. ASSUME NEW t \in Thread, NEW label, Goto(t, label)
        PROVE  /\ \A u \in Thread \ {t} : thread'[u] = thread[u]
               /\ thread'[t] = [thread[t] EXCEPT !.pc = label] /\ thread'[t].pc = label
    <2>1. thread'[t] = [thread[t] EXCEPT !.pc = label] /\ thread[t] \in ThreadState
      BY <1>0, <1>d DEF Goto, TypeOK
    <2>2. QED
      BY <1>d, <2>1 DEF Goto, TypeOK, ThreadState
  <1>e. ASSUME NEW t \in Thread, thread' = [thread EXCEPT ![t] = Idle]
        PROVE  (\A u \in Thread \ {t} : thread'[u] = thread[u]) /\ thread'[t].pc = "idle"
    BY <1>e DEF TypeOK, Idle
  <1>f. ASSUME NEW t \in Thread, Unwind(t)
        PROVE  /\ \A u \in Thread \ {t} : thread'[u] = thread[u]
               /\ thread'[t].pc \in {"idle", "retry"}
    BY <1>d, <1>e, <1>f DEF Unwind
  <1>g. ASSUME NEW t \in Thread, AfterMark(t)
        PROVE  /\ \A u \in Thread \ {t} : thread'[u] = thread[u]
               /\ \/ thread'[t].pc = "ack"
                  \/ thread'[t].pc = "load" /\ thread'[t].passed = 0 /\ thread'[t].rows = {}
    <2>1. 0 \in Attempts
      BY CodeAssessmentAssumption DEF Attempts
    <2>2. QED
      BY <1>0, <1>c, <1>d, <1>g, <2>1 DEF AfterMark
  <1>1. ASSUME NEW t \in Thread, NEW s \in Sub, Submit(t, s) PROVE BackedInv'
    <2>1. 0 \in Attempts
      BY CodeAssessmentAssumption DEF Attempts
    <2>2. \A r \in Sub : row'[r].status = "accepted" => row[r].status = "accepted"
      BY <1>1 DEF Submit, TypeOK
    <2>3. QED
      BY <1>1, <1>b, <1>c, <2>1, <2>2 DEF Submit
  <1>2. ASSUME NEW t \in Thread, NEW s \in Sub, NEW n \in Attempts, Receive(t, s, n)
        PROVE  BackedInv'
    BY <1>2, <1>b, <1>c DEF Receive
  <1>3. ASSUME NEW t \in Thread, Dispatch(t) PROVE BackedInv'
    <2>1. 0 \in Attempts
      BY CodeAssessmentAssumption DEF Attempts
    <2>2. /\ \A u \in Thread \ {t} : thread'[u] = thread[u]
          /\ \/ thread'[t].pc = "idle"
             \/ thread'[t].pc = "load" /\ thread'[t].passed = 0 /\ thread'[t].rows = {}
      BY <1>0, <1>3, <1>c, <1>d, <2>1 DEF Dispatch
    <2>3. QED
      BY <1>3, <1>b, <2>2 DEF Dispatch
  <1>4. ASSUME NEW t \in Thread, DispatchFails(t) PROVE BackedInv'
    <2>1. 0 \in Attempts
      BY CodeAssessmentAssumption DEF Attempts
    <2>2. QED
      BY <1>0, <1>4, <1>b, <1>c, <2>1 DEF DispatchFails
  <1>5. ASSUME NEW t \in Thread, Load(t) PROVE BackedInv'
    <2> DEFINE total == Cardinality(cases)
               new == [[thread[t] EXCEPT !.total = total]
                         EXCEPT !.pc = IF total = 0 THEN "empty" ELSE "fetch"]
    <2>1. thread' = [thread EXCEPT ![t] = new]
      BY <1>0, <1>5 DEF Load, TypeOK
    <2>2. /\ new.pc = (IF total = 0 THEN "empty" ELSE "fetch")
          /\ new.total = total /\ new.passed = thread[t].passed /\ new.rows = thread[t].rows
      BY <1>0 DEF ThreadState
    <2>3. thread'[t] = new /\ \A u \in Thread \ {t} : thread'[u] = thread[u]
      BY <2>1 DEF TypeOK
    <2> HIDE DEF new
    <2>4. total = 0 => cases = {}
      BY <1>0, FS_EmptySet
    <2>5. ASSUME Untouched PROVE Promises(t)'
      <3>1. thread[t].passed = 0 /\ thread[t].rows = {}
        BY <1>5, <2>5 DEF Load, BackedInv, Promises
      <3>2. cases' = cases
        BY <1>5 DEF Load
      <3>3. QED
        BY <1>0, <2>2, <2>3, <2>4, <3>1, <3>2 DEF Promises, At
    <2>6. \A s \in Sub : row'[s].status = "accepted" => row[s].status = "accepted"
      BY <1>5 DEF Load, TypeOK
    <2>7. QED
      BY <1>5, <1>a, <2>3, <2>5, <2>6, WorkerStep DEF Load
  <1>6. ASSUME NEW t \in Thread, AcceptEmpty(t) PROVE BackedInv'
    <2>1. Untouched => cases = {}
      BY <1>6 DEF AcceptEmpty, BackedInv, Promises
    <2>2. QED
      BY <1>6, <1>b, <1>d, <2>1 DEF AcceptEmpty
  <1>7. ASSUME NEW t \in Thread, FetchCases(t) PROVE BackedInv'
    <2> DEFINE new == [[thread[t] EXCEPT !.todo = cases]
                         EXCEPT !.pc = IF cases = {} THEN "store" ELSE "run"]
    <2>1. thread' = [thread EXCEPT ![t] = new]
      BY <1>0, <1>7 DEF FetchCases, TypeOK
    <2>2. /\ new.pc = (IF cases = {} THEN "store" ELSE "run") /\ new.todo = cases
          /\ new.total = thread[t].total /\ new.passed = thread[t].passed
      BY <1>0 DEF ThreadState
    <2>3. thread'[t] = new /\ \A u \in Thread \ {t} : thread'[u] = thread[u]
      BY <2>1 DEF TypeOK
    <2> HIDE DEF new
    <2>4. ASSUME Untouched PROVE Promises(t)'
      <3>1. thread[t].passed = 0 /\ Cardinality(cases) <= thread[t].total
        BY <1>7, <2>4 DEF FetchCases, BackedInv, Promises
      <3>2. cases' = cases /\ new.passed + Cardinality(new.todo) <= new.total
        BY <1>0, <1>7, <2>2, <3>1 DEF FetchCases
      <3>3. QED
        BY <2>2, <2>3, <3>2 DEF Promises, At
    <2>5. QED
      BY <1>7, <1>a, <2>3, <2>4, WorkerStep DEF FetchCases
  <1>8. ASSUME NEW t \in Thread, NEW c \in Case, NEW o \in Outcome, RunCase(t, c, o)
        PROVE  BackedInv'
    <2> DEFINE me == thread[t]
               todo == IF o = "compile_error" THEN {} ELSE me.todo \ {c}
               rows == me.rows \cup {<<c, o>>}
               passed == me.passed + (IF o = "pass" THEN 1 ELSE 0)
               verdict == CASE o = "compile_error" -> "compile_error"
                            [] o = "fail" /\ me.verdict = "unset" -> "failed"
                            [] OTHER -> me.verdict
               pc == IF o = "compile_error" \/ me.todo = {c} THEN "store" ELSE me.pc
               new == [me EXCEPT !.todo = todo, !.rows = rows, !.passed = passed,
                                 !.verdict = verdict, !.pc = pc]
    <2>1. thread' = [thread EXCEPT ![t] = new]
      BY <1>8 DEF RunCase
    <2>2. /\ new.pc = pc /\ new.todo = todo /\ new.rows = rows
          /\ new.total = me.total /\ new.passed = passed
      BY <1>0 DEF ThreadState
    <2>3. thread'[t] = new /\ \A u \in Thread \ {t} : thread'[u] = thread[u]
      BY <2>1 DEF TypeOK
    <2>4. /\ me.pc = "run" /\ c \in me.todo /\ pc \in {"run", "store"} /\ cases' = cases
          /\ pc = "store" => todo = {}
      BY <1>8 DEF RunCase, At
    <2>5. /\ me.passed \in Nat /\ me.total \in Nat /\ IsFiniteSet(me.todo)
          /\ Cardinality(me.todo) \in Nat
      BY <1>0 DEF ThreadState
    <2>6. Cardinality(me.todo \ {c}) = Cardinality(me.todo) - 1
      BY <2>4, <2>5, FS_RemoveElement
    <2>7. Cardinality(todo) <= Cardinality(me.todo) - 1 /\ Cardinality(todo) \in Nat
      <3>1. Cardinality(me.todo \ {c}) \in Nat
        BY <2>5, FS_RemoveElement, FS_CardinalityType
      <3>2. CASE o = "compile_error"
        <4>1. todo = {} /\ Cardinality({}) = 0
          BY <3>2, FS_EmptySet
        <4>2. QED
          BY <2>5, <2>6, <3>1, <4>1
      <3>3. CASE o # "compile_error"
        BY <2>5, <2>6, <3>1, <3>3
      <3>4. QED
        BY <3>2, <3>3
    <2>8. o # "compile_error" => todo = me.todo \ {c} /\ Cardinality(todo) = Cardinality(me.todo) - 1
      BY <2>6
    <2>9. o = "pass" => <<c, "pass">> \in rows /\ passed = me.passed + 1
      OBVIOUS
    <2>10. o # "pass" => passed = me.passed
      BY <2>5
    <2>11. me.rows \subseteq rows
      OBVIOUS
    <2> HIDE DEF new, todo, rows, passed, verdict, pc
    <2>12. ASSUME Untouched PROVE Promises(t)'
      <3>1. /\ me.passed + Cardinality(me.todo) <= me.total
            /\ me.passed + Cardinality(me.todo) = me.total => cases \subseteq me.todo \cup Passed(t)
        BY <2>4, <2>12 DEF BackedInv, Promises, At
      <3>2. passed + Cardinality(todo) <= me.total
        BY <2>5, <2>7, <2>9, <2>10, <3>1
      <3>3. passed + Cardinality(todo) = me.total =>
              o = "pass" /\ me.passed + Cardinality(me.todo) = me.total
        BY <2>5, <2>7, <2>8, <2>9, <2>10, <3>1
      <3>4. Passed(t) \subseteq Passed(t)' /\ (o = "pass" => c \in Passed(t)')
        BY <2>2, <2>3, <2>9, <2>11 DEF Passed
      <3>5. passed + Cardinality(todo) = me.total => cases \subseteq todo \cup Passed(t)'
        BY <2>8, <3>1, <3>3, <3>4
      <3>6. QED
        BY <2>2, <2>3, <2>4, <3>2, <3>5 DEF Promises, At
    <2>13. QED
      BY <1>8, <1>a, <2>3, <2>12, WorkerStep DEF RunCase
  <1>9. ASSUME NEW t \in Thread, StoreResults(t) PROVE BackedInv'
    <2> DEFINE me == thread[t]
    <2>1. /\ thread'[t].pc = "finish" /\ thread'[t].passed = me.passed
          /\ thread'[t].total = me.total /\ thread'[t].sub = me.sub
      <3>1. thread'[t] = [me EXCEPT !.pc = "finish"]
        BY <1>9, <1>d DEF StoreResults
      <3>2. QED
        BY <1>0, <3>1 DEF ThreadState
    <2>2. \A s \in Sub, r \in Case \X Outcome :
            results'[s][r] = IF s = me.sub /\ r \in me.rows THEN results[s][r] + 1 ELSE results[s][r]
      BY <1>0, <1>9 DEF StoreResults, TypeOK
    <2>3. Fewer
      <3>1. cases' = cases
        BY <1>9 DEF StoreResults
      <3>2. \A s \in Sub, c \in cases : <<c, "pass">> \in Case \X Outcome /\ results[s][<<c, "pass">>] \in Nat
        BY DEF TypeOK, Outcome
      <3>3. \A s \in Sub, c \in cases :
               results[s][<<c, "pass">>] >= 1 => results'[s][<<c, "pass">>] >= 1
        BY <2>2, <3>2
      <3>4. QED
        BY <3>1, <3>3 DEF Fewer
    <2>4. ASSUME Untouched PROVE Promises(t)'
      <3>1. me.passed = me.total => cases \subseteq Passed(t)
        <4>1. At(t, "store") /\ me.passed \in Nat /\ me.total \in Nat
          BY <1>0, <1>9 DEF StoreResults, ThreadState
        <4>2. me.todo = {} /\ Cardinality(me.todo) = 0
          BY <2>4, <4>1, FS_EmptySet DEF BackedInv, Promises
        <4>3. me.passed + 0 = me.passed
          BY <4>1
        <4>4. me.passed + Cardinality(me.todo) = me.total => cases \subseteq me.todo \cup Passed(t)
          BY <2>4, <4>1 DEF BackedInv, Promises
        <4>5. QED
          BY <4>2, <4>3, <4>4
      <3>2. \A c \in Passed(t) : results'[me.sub][<<c, "pass">>] >= 1
        BY <1>0, <2>2 DEF Passed, TypeOK, Outcome
      <3>3. cases' = cases
        BY <1>9 DEF StoreResults
      <3>4. QED
        BY <2>1, <3>1, <3>2, <3>3 DEF Promises, At
    <2>5. QED
      BY <1>9, <1>d, <2>3, <2>4, WorkerStep DEF StoreResults
  <1>10. ASSUME NEW t \in Thread, Finalise(t) PROVE BackedInv'
    <2> DEFINE me == thread[t]
    <2>1. thread'[t].pc = "ack" /\ \A u \in Thread \ {t} : thread'[u] = thread[u]
      BY <1>10, <1>d DEF Finalise
    <2>2. Promises(t)'
      BY <2>1 DEF Promises, At
    <2>3. At(t, "finish") /\ cases' = cases /\ results' = results
      BY <1>10 DEF Finalise
    <2>4. \A s \in Sub : row'[s].status = "accepted" =>
            row[s].status = "accepted" \/ (s = me.sub /\ FinalStatus(me) = "accepted")
      BY <1>0, <1>10 DEF Finalise, TypeOK
    <2>5. me.verdict \in {"unset", "failed", "compile_error"}
      BY <1>0 DEF ThreadState
    <2>6. FinalStatus(me) = "accepted" => me.passed = me.total
      BY <2>5 DEF FinalStatus
    <2>7. Untouched => \A s \in Sub : row'[s].status = "accepted" =>
            row[s].status = "accepted" \/ \A c \in cases' : results'[s][<<c, "pass">>] >= 1
      BY <2>3, <2>4, <2>6 DEF BackedInv, Promises
    <2>8. QED
      BY <1>10, <1>a, <2>1, <2>2, <2>3, <2>7, WorkerStep DEF Finalise
  <1>11. ASSUME NEW t \in Thread, Return(t) PROVE BackedInv'
    BY <1>11, <1>b, <1>e DEF Return
  <1>12. ASSUME NEW t \in Thread, Raise(t) \/ IntegrityError(t) PROVE BackedInv'
    BY <1>12, <1>b, <1>f DEF Raise, IntegrityError
  <1>13. ASSUME NEW t \in Thread, Retry(t) PROVE BackedInv'
    BY <1>13, <1>b, <1>d DEF Retry
  <1>14. ASSUME NEW t \in Thread, MarkSystemError(t) PROVE BackedInv'
    <2>1. \A s \in Sub : row'[s].status = "accepted" => row[s].status = "accepted"
      BY <1>0, <1>14 DEF MarkSystemError, TypeOK
    <2>2. QED
      BY <1>14, <1>b, <1>g, <2>1 DEF MarkSystemError
  <1>15. ASSUME NEW t \in Thread, MarkFails(t) PROVE BackedInv'
    BY <1>15, <1>b, <1>g DEF MarkFails
  <1>16. ASSUME NEW t \in Thread, Killed(t) \/ Redeliver(t) PROVE BackedInv'
    BY <1>16, <1>b, <1>e DEF Killed, Redeliver
  <1>17. ASSUME NEW c \in Case, AddCase(c) PROVE BackedInv'
    <2>1. c \notin InitCases /\ c \in cases'
      BY <1>17 DEF AddCase, BackedInv
    <2>2. QED
      BY <1>17, <2>1 DEF AddCase, BackedInv, Untouched
  <1>18. ASSUME NEW c \in Case, DeleteCase(c) PROVE BackedInv'
    <2>1. /\ InitCases \subseteq cases' \cup deleted' /\ (Untouched' => Untouched)
          /\ thread' = thread /\ row' = row /\ cases' \subseteq cases /\ c \notin cases'
      BY <1>18 DEF DeleteCase, BackedInv, Untouched
    <2>2. \A s \in Sub, r \in Case \X Outcome : r[1] # c => results'[s][r] = results[s][r]
      BY <1>18 DEF DeleteCase
    <2>3. Fewer
      <3>1. \A x \in cases' : x # c /\ <<x, "pass">> \in Case \X Outcome /\ <<x, "pass">>[1] = x
        BY <2>1 DEF TypeOK, Outcome
      <3>2. \A s \in Sub, x \in cases' : results'[s][<<x, "pass">>] = results[s][<<x, "pass">>]
        BY <2>2, <3>1
      <3>3. QED
        BY <2>1, <3>2 DEF Fewer
    <2>4. ASSUME Untouched PROVE (\A t \in Thread : Promises(t)') /\ AcceptedBacked'
      <3>1. \A t \in Thread : Promises(t)'
        BY <2>1, <2>3, <2>4, PromiseKept DEF BackedInv
      <3>2. AcceptedBacked'
        BY <2>1, <2>3, <2>4, BackedKept DEF BackedInv
      <3>3. QED
        BY <3>1, <3>2
    <2>5. QED
      BY <2>1, <2>4 DEF BackedInv
  <1>19. CASE UNCHANGED vars
    BY <1>19 DEF vars, BackedInv, Untouched, Promises, Passed, At, AcceptedBacked
  <1>20. QED
    BY <1>1, <1>2, <1>3, <1>4, <1>5, <1>6, <1>7, <1>8, <1>9, <1>10, <1>11, <1>12, <1>13, <1>14,
       <1>15, <1>16, <1>17, <1>18, <1>19 DEF Next, Advance, Evaluate, Fault

\* Unless a test case is added meanwhile, an accepted submission has a stored
\* passing result for every test case there is (execution_service.py:215-319):
\* for any number of workers, retries, redeliveries and deletions.
THEOREM AcceptedIsEarned == Spec => []AcceptedIsBacked
  <1>1. Init => TypeInv /\ BackedInv
    BY InitTypeInv, InitBacked
  <1>2. TypeInv /\ BackedInv /\ [Next]_vars => TypeInv' /\ BackedInv'
    BY NextTypeInv, NextBacked
  <1>3. BackedInv => AcceptedIsBacked
    BY DEF BackedInv, Untouched, AcceptedBacked, AcceptedIsBacked
  <1>4. QED
    BY <1>1, <1>2, <1>3, PTL DEF Spec

-----------------------------------------------------------------------------
(* A submission is counted at most once                                     *)

\* a step after which nobody works on anything new
Quiet ==
    /\ counted' = counted /\ queue' = queue
    /\ \A s \in Sub : row'[s].status = "none" => row[s].status = "none"
    /\ \A u \in Thread : Working(u)' => Working(u) /\ thread'[u].sub = thread[u].sub

LEMMA QuietKeeps == ASSUME TypeOK, OnceInv, Quiet PROVE OnceInv'
  <1> thread \in [Thread -> ThreadState] /\ \A t \in Thread : thread[t].sub \in Sub
    BY DEF TypeOK, ThreadState
  <1>1. SoleWorker'
    BY DEF Quiet, OnceInv, SoleWorker
  <1>2. WorkerUncounted'
    BY DEF Quiet, OnceInv, WorkerUncounted
  <1>3. SoleMessage' /\ FreshUncounted' /\ AtMostOne'
    BY DEF Quiet, OnceInv, SoleMessage, FreshUncounted, AtMostOne
  <1>4. QED
    BY <1>1, <1>2, <1>3 DEF OnceInv

\* what an update of one thread says of all of them
LEMMA GotoWorks ==
  ASSUME TypeOK, NEW t \in Thread, NEW label, Goto(t, label)
  PROVE  /\ \A u \in Thread \ {t} : thread'[u] = thread[u]
         /\ thread'[t].pc = label /\ thread'[t].sub = thread[t].sub
         /\ thread'[t].total = thread[t].total
  <1>1. thread[t] \in ThreadState
    BY DEF TypeOK
  <1>2. thread' = [thread EXCEPT ![t] = [thread[t] EXCEPT !.pc = label]]
    BY DEF Goto
  <1>3. [thread[t] EXCEPT !.pc = label].pc = label
    BY <1>1 DEF ThreadState
  <1>4. QED
    BY <1>1, <1>2, <1>3 DEF TypeOK, ThreadState

LEMMA BeginWorks ==
  ASSUME TypeOK, NEW t \in Thread, NEW s, NEW n, NEW task, NEW label,
         Begin(t, s, n, task, label)
  PROVE  /\ \A u \in Thread \ {t} : thread'[u] = thread[u]
         /\ thread'[t].pc = label /\ thread'[t].sub = s
  BY IdleType DEF Begin, TypeOK, ThreadState

LEMMA IdleWorks ==
  ASSUME TypeOK, NEW t \in Thread, thread' = [thread EXCEPT ![t] = Idle]
  PROVE  /\ \A u \in Thread \ {t} : thread'[u] = thread[u]
         /\ thread'[t].pc = "idle"
  BY DEF TypeOK, Idle

LEMMA InitOnce == Init => OnceInv
  <1> SUFFICES ASSUME Init PROVE OnceInv
    OBVIOUS
  <1>1. \A t \in Thread : ~Working(t)
    BY DEF Init, Working, Idle, Evaluating
  <1>2. QED
    BY <1>1, CodeAssessmentAssumption
    DEF Init, NoRow, OnceInv, SoleWorker, WorkerUncounted, SoleMessage, FreshUncounted, AtMostOne

\* only a submission and a message from the broker start new work
LEMMA NoNewWork ==
  ASSUME TypeOK, NEW t \in Thread, Advance(t) \/ Fault(t), NEW u \in Thread, Working(u)'
  PROVE  Working(u) /\ thread'[u].sub = thread[u].sub
  <1>0. thread[t] \in ThreadState
    BY DEF TypeOK
  <1>1. CASE u # t
    <2>1. thread'[u] = thread[u]
      BY <1>1 DEF Advance, Evaluate, Fault, Dispatch, Load, AcceptEmpty, FetchCases, RunCase,
         StoreResults, Finalise, IntegrityError, Return, Retry, MarkSystemError,
         DispatchFails, Raise, MarkFails, Killed, Redeliver, Unwind, AfterMark,
         Goto, Begin, TypeOK
    <2>2. QED
      BY <2>1 DEF Working
  <1>2. CASE u = t /\ Working(t) /\ thread'[t].sub = thread[t].sub
    BY <1>2
  <1>3. CASE u = t /\ Load(t)
    BY <1>0, <1>3 DEF Load, Working, At, Evaluating, TypeOK, ThreadState
  <1>4. CASE u = t /\ FetchCases(t)
    BY <1>0, <1>4 DEF FetchCases, Working, At, Evaluating, TypeOK, ThreadState
  <1>5. CASE u = t /\ \E c \in Case, o \in Outcome : RunCase(t, c, o)
    BY <1>0, <1>5 DEF RunCase, Working, At, Evaluating, TypeOK, ThreadState
  <1>6. CASE u = t /\ thread' = [thread EXCEPT ![t] = Idle]
    <2>1. ~Working(t)'
      BY <1>6, IdleWorks DEF Working, Evaluating
    <2>2. QED
      BY <1>6, <2>1
  <1>7. CASE u = t /\ (AcceptEmpty(t) \/ StoreResults(t) \/ Finalise(t) \/ Retry(t))
    BY <1>7, GotoWorks DEF AcceptEmpty, StoreResults, Finalise, Retry, Working, At, Evaluating
  <1>8. CASE u = t /\ thread[t].pc \in Evaluating /\ Unwind(t)
    BY <1>6, <1>8, GotoWorks DEF Unwind, Working
  <1>9. CASE u = t /\ (Dispatch(t) \/ DispatchFails(t))
    <2>1. Working(t)
      BY <1>9 DEF Dispatch, DispatchFails, At, Working
    <2>2. thread'[t].sub = thread[t].sub
      BY <1>9, GotoWorks, BeginWorks DEF Dispatch, DispatchFails
    <2>3. QED
      BY <1>9, <2>1, <2>2
  <1>10. CASE u = t /\ At(t, "mark") /\ AfterMark(t)
    <2>1. CASE Eager
      BY <1>10, <2>1, BeginWorks DEF AfterMark, At, Working
    <2>2. CASE ~Eager
      BY <1>10, <2>2, GotoWorks DEF AfterMark, Working, Evaluating
    <2>3. QED
      BY <2>1, <2>2
  <1>11. QED
    BY <1>1, <1>3, <1>4, <1>5, <1>6, <1>7, <1>8, <1>9, <1>10
    DEF Advance, Evaluate, Fault, IntegrityError, Return, MarkSystemError, Raise, MarkFails,
        Killed, Redeliver, At, Evaluating

LEMMA NextOnce ==
  ASSUME Eager \/ MaxRedelivered = 0, TypeInv, OnceInv, [Next]_vars PROVE OnceInv'
  <1> USE DEF TypeInv
  <1> USE CodeAssessmentAssumption
  <1>0. /\ 0 \in Attempts
        /\ \A t \in Thread : thread[t] \in ThreadState /\ thread[t].sub \in Sub
    <2>1. 0 \in Attempts
      BY DEF Attempts
    <2>2. QED
      BY <2>1 DEF TypeOK, ThreadState
  <1>1. ASSUME NEW t \in Thread, NEW s \in Sub, Submit(t, s) PROVE OnceInv'
    <2>1. /\ \A u \in Thread \ {t} : thread'[u] = thread[u]
          /\ thread'[t].pc = "dispatch" /\ thread'[t].sub = s
      BY <1>1, BeginWorks DEF Submit
    <2>2. \A u \in Thread : Working(u) => thread[u].sub # s
      BY <1>1 DEF Submit, OnceInv, WorkerUncounted
    <2>3. \A n \in Attempts : queue[s][n] = 0
      BY <1>1 DEF Submit, OnceInv, SoleMessage, TypeOK
    <2>4. counted[s] = 0
      BY <1>1 DEF Submit, OnceInv, FreshUncounted
    <2>5. /\ row'[s].status = "queued" /\ \A r \in Sub \ {s} : row'[r] = row[r]
          /\ counted' = counted /\ queue' = queue
      BY <1>1 DEF Submit, TypeOK
    <2>6. \A u \in Thread \ {t} : Working(u)' <=> Working(u)
      BY <2>1 DEF Working
    <2>7. SoleWorker'
      BY <2>1, <2>2, <2>6 DEF OnceInv, SoleWorker
    <2>8. WorkerUncounted'
      BY <1>0, <2>1, <2>2, <2>3, <2>4, <2>5, <2>6 DEF OnceInv, WorkerUncounted
    <2>9. SoleMessage' /\ FreshUncounted' /\ AtMostOne'
      BY <2>3, <2>4, <2>5 DEF OnceInv, SoleMessage, FreshUncounted, AtMostOne
    <2>10. QED
      BY <2>7, <2>8, <2>9 DEF OnceInv
  <1>2. ASSUME NEW t \in Thread, NEW s \in Sub, NEW n \in Attempts, Receive(t, s, n)
        PROVE OnceInv'
    <2>1. /\ \A u \in Thread \ {t} : thread'[u] = thread[u]
          /\ thread'[t].pc = "load" /\ thread'[t].sub = s
      BY <1>2, BeginWorks DEF Receive
    <2>2. /\ queue[s][n] = 1 /\ \A m \in Attempts \ {n} : queue[s][m] = 0
          /\ counted[s] = 0 /\ row[s].status # "none"
      BY <1>2 DEF Receive, OnceInv, SoleMessage
    <2>3. \A u \in Thread : Working(u) => thread[u].sub # s
      BY <2>2 DEF OnceInv, WorkerUncounted
    <2>4. row' = row /\ counted' = counted
      BY <1>2 DEF Receive
    <2>5. /\ \A m \in Attempts : queue'[s][m] = 0
          /\ \A r \in Sub \ {s} : queue'[r] = queue[r]
      BY <1>2, <2>2 DEF Receive, TypeOK
    <2>6. \A u \in Thread \ {t} : Working(u)' <=> Working(u)
      BY <2>1 DEF Working
    <2>7. SoleWorker'
      BY <2>1, <2>3, <2>6 DEF OnceInv, SoleWorker
    <2>8. WorkerUncounted'
      BY <1>0, <2>1, <2>2, <2>3, <2>4, <2>5, <2>6 DEF OnceInv, WorkerUncounted
    <2>9. SoleMessage' /\ FreshUncounted' /\ AtMostOne'
      BY <2>4, <2>5 DEF OnceInv, SoleMessage, FreshUncounted, AtMostOne
    <2>10. QED
      BY <2>7, <2>8, <2>9 DEF OnceInv
  <1>3. ASSUME NEW t \in Thread, NEW n \in Attempts,
               Working(t), ~Working(t)', row' = row, counted' = counted,
               queue' = [queue EXCEPT ![thread[t].sub][n] = @ + 1],
               \A u \in Thread \ {t} : thread'[u] = thread[u]
        PROVE OnceInv'
    <2> DEFINE s == thread[t].sub
    <2>1. /\ counted[s] = 0 /\ row[s].status # "none"
          /\ \A m \in Attempts : queue[s][m] = 0
      BY <1>3 DEF OnceInv, WorkerUncounted
    <2>2. /\ queue'[s][n] = 1 /\ \A m \in Attempts \ {n} : queue'[s][m] = 0
          /\ \A r \in Sub \ {s} : queue'[r] = queue[r]
      BY <1>0, <1>3, <2>1 DEF TypeOK
    <2>3. \A u \in Thread : Working(u)' => Working(u) /\ u # t /\ thread'[u] = thread[u]
      BY <1>3 DEF Working
    <2>4. \A u \in Thread : Working(u)' => thread'[u].sub # s
      BY <1>3, <2>3 DEF OnceInv, SoleWorker
    <2>5. SoleWorker'
      BY <2>3 DEF OnceInv, SoleWorker
    <2>6. WorkerUncounted'
      BY <1>0, <1>3, <2>2, <2>3, <2>4 DEF OnceInv, WorkerUncounted
    <2>7. SoleMessage' /\ FreshUncounted' /\ AtMostOne'
      BY <1>3, <2>1, <2>2 DEF OnceInv, SoleMessage, FreshUncounted, AtMostOne
    <2>8. QED
      BY <2>5, <2>6, <2>7 DEF OnceInv
  <1>4. ASSUME NEW t \in Thread, Dispatch(t) PROVE OnceInv'
    <2>1. CASE Eager
      <3>1. Quiet
        BY <1>4, <2>1, NoNewWork DEF Dispatch, Advance, Quiet
      <3>2. QED
        BY <3>1, QuietKeeps
    <2>2. CASE ~Eager
      <3>1. Goto(t, "idle")
        BY <1>4, <2>2 DEF Dispatch
      <3>2. Working(t) /\ ~Working(t)'
        BY <1>4, <2>2, <3>1, GotoWorks DEF Dispatch, Working, At, Evaluating
      <3>3. QED
        BY <1>0, <1>3, <1>4, <2>2, <3>1, <3>2, GotoWorks DEF Dispatch
    <2>3. QED
      BY <2>1, <2>2
  <1>5. ASSUME NEW t \in Thread, Finalise(t) PROVE OnceInv'
    <2> DEFINE s == thread[t].sub
    <2>1. /\ \A u \in Thread \ {t} : thread'[u] = thread[u]
          /\ thread'[t].pc = "ack"
      BY <1>5, GotoWorks DEF Finalise
    <2>2. Working(t) /\ ~Working(t)'
      BY <1>5, <2>1 DEF Finalise, Working, At, Evaluating
    <2>3. counted[s] = 0 /\ \A n \in Attempts : queue[s][n] = 0
      BY <2>2 DEF OnceInv, WorkerUncounted
    <2>4. /\ counted'[s] = 1 /\ row'[s].status # "none" /\ queue' = queue
      <3>1. FinalStatus(thread[t]) # "none"
        BY <1>0 DEF FinalStatus, ThreadState, Graded
      <3>2. row'[s].status = FinalStatus(thread[t])
        BY <1>0, <1>5 DEF Finalise, TypeOK
      <3>3. QED
        BY <1>0, <1>5, <2>3, <3>1, <3>2 DEF Finalise, TypeOK
    <2>5. \A r \in Sub \ {s} : row'[r] = row[r] /\ counted'[r] = counted[r]
      BY <1>0, <1>5 DEF Finalise, TypeOK
    <2>6. \A u \in Thread : Working(u)' => Working(u) /\ thread'[u] = thread[u]
      BY <2>1, <2>2 DEF Working
    <2>7. \A u \in Thread : Working(u)' => thread'[u].sub # s
      BY <2>2, <2>6 DEF OnceInv, SoleWorker
    <2>8. SoleWorker'
      BY <2>6 DEF OnceInv, SoleWorker
    <2>9. WorkerUncounted'
      BY <1>0, <2>4, <2>5, <2>6, <2>7 DEF OnceInv, WorkerUncounted
    <2>10. SoleMessage' /\ FreshUncounted' /\ AtMostOne'
      BY <2>3, <2>4, <2>5 DEF OnceInv, SoleMessage, FreshUncounted, AtMostOne
    <2>11. QED
      BY <2>8, <2>9, <2>10 DEF OnceInv
  <1>6. ASSUME NEW t \in Thread, Retry(t) PROVE OnceInv'
    <2>1. /\ \A u \in Thread \ {t} : thread'[u] = thread[u]
          /\ thread'[t].pc = "mark" /\ thread'[t].sub = thread[t].sub
          /\ Working(t)
      BY <1>6, GotoWorks DEF Retry, Working, At
    <2>2. CASE ~Eager /\ thread[t].try < MaxRetries
      <3>1. thread[t].try + 1 \in Attempts
        BY <1>0, <2>2 DEF Attempts, ThreadState
      <3>2. ~Working(t)'
        BY <2>1, <2>2 DEF Working, Evaluating
      <3>3. QED
        BY <1>3, <1>6, <2>1, <2>2, <3>1, <3>2 DEF Retry
    <2>3. CASE ~(~Eager /\ thread[t].try < MaxRetries)
      <3>1. Quiet
        BY <1>6, <2>1, <2>3 DEF Retry, Quiet, Working
      <3>2. QED
        BY <3>1, QuietKeeps
    <2>4. QED
      BY <2>2, <2>3
  <1>7. ASSUME NEW t \in Thread, Advance(t) \/ Fault(t), counted' = counted, queue' = queue,
               \A s \in Sub : row'[s].status = "none" => row[s].status = "none"
        PROVE OnceInv'
    BY <1>7, NoNewWork, QuietKeeps DEF Quiet
  <1>8. ASSUME NEW t \in Thread, Load(t) PROVE OnceInv'
    <2>1. \A s \in Sub : row'[s].status = "none" => row[s].status = "none"
      BY <1>0, <1>8 DEF Load, TypeOK
    <2>2. QED
      BY <1>7, <1>8, <2>1 DEF Load, Advance, Evaluate
  <1>9. ASSUME NEW t \in Thread, AcceptEmpty(t) PROVE OnceInv'
    <2>1. \A s \in Sub : row'[s].status = "none" => row[s].status = "none"
      BY <1>0, <1>9 DEF AcceptEmpty, TypeOK
    <2>2. QED
      BY <1>7, <1>9, <2>1 DEF AcceptEmpty, Advance, Evaluate
  <1>10. ASSUME NEW t \in Thread, MarkSystemError(t) PROVE OnceInv'
    <2>1. \A s \in Sub : row'[s].status = "none" => row[s].status = "none"
      BY <1>0, <1>10 DEF MarkSystemError, TypeOK
    <2>2. QED
      BY <1>7, <1>10, <2>1 DEF MarkSystemError, Advance
  <1>11. ASSUME NEW t \in Thread, Redeliver(t) PROVE OnceInv'
    <2>1. faults["redelivered"] \in Nat /\ faults["redelivered"] < MaxRedelivered /\ ~Eager
      BY <1>11 DEF Redeliver, TypeOK
    <2>2. QED
      BY <2>1
  <1>12. ASSUME NEW t \in Thread, Advance(t) \/ Fault(t) PROVE OnceInv'
    BY <1>4, <1>5, <1>6, <1>7, <1>8, <1>9, <1>10, <1>11, <1>12
    DEF Advance, Evaluate, Fault, FetchCases, RunCase, StoreResults, IntegrityError, Return,
        DispatchFails, Raise, MarkFails, Killed
  <1>13. CASE UNCHANGED <<row, counted, queue, thread>>
    BY <1>13, QuietKeeps DEF Quiet, Working
  <1>14. QED
    BY <1>1, <1>2, <1>12, <1>13 DEF Next, AddCase, DeleteCase, vars

LEMMA OnceCorrect ==
  ASSUME Eager \/ MaxRedelivered = 0 PROVE Spec => [](TypeInv /\ OnceInv)
  <1>1. Init => TypeInv /\ OnceInv
    BY InitTypeInv, InitOnce
  <1>2. TypeInv /\ OnceInv /\ [Next]_vars => TypeInv' /\ OnceInv'
    BY NextTypeInv, NextOnce
  <1>3. QED
    BY <1>1, <1>2, PTL DEF Spec

\* Exceptions, retries, the handler's return to create_submission and killed
\* processes never make the statistics count a submission twice, for any number
\* of submissions and threads: only a message delivered again can.
THEOREM CountedAtMostOnce ==
  ASSUME Eager \/ MaxRedelivered = 0 PROVE Spec => []CountedOnce
  <1>1. TypeInv /\ OnceInv => CountedOnce
    BY DEF TypeInv, TypeOK, OnceInv, AtMostOne, CountedOnce
  <1>2. QED
    BY <1>1, OnceCorrect, PTL

-----------------------------------------------------------------------------
(* Tasks run inline: the statistics and the grades never disagree           *)

GradesKept == \A s \in Sub : row[s].status \in Graded => row'[s] = row[s]

LEMMA InitInline == Init => InlineInv
  <1> SUFFICES ASSUME Init PROVE InlineInv
    OBVIOUS
  <1>1. \A t \in Thread : ~Working(t)
    BY DEF Init, Working, Idle, Evaluating
  <1>2. StatisticsMatchGrade
    BY DEF Init, NoRow, StatisticsMatchGrade, Graded
  <1>3. QED
    BY <1>1, <1>2 DEF Init, InlineInv

\* the step that grades a submission finds it ungraded and leaves nobody at work on it
LEMMA GradingStep ==
  ASSUME TypeInv, OnceInv, InlineInv, NEW t \in Thread, AcceptEmpty(t) \/ Finalise(t)
  PROVE  /\ row[thread[t].sub].status \notin Graded \cup {"none"}
         /\ counted[thread[t].sub] = 0 /\ accepted[thread[t].sub] = 0
         /\ \A u \in Thread : Working(u)' =>
              /\ Working(u) /\ thread'[u].sub = thread[u].sub
              /\ thread[u].sub # thread[t].sub
  <1> thread[t].sub \in Sub
    BY DEF TypeInv, TypeOK, ThreadState
  <1>1. Working(t) /\ ~Working(t)'
    BY GotoWorks DEF TypeInv, AcceptEmpty, Finalise, Working, At, Evaluating
  <1>2. \A u \in Thread : Working(u)' => Working(u) /\ thread'[u].sub = thread[u].sub
    BY NoNewWork DEF TypeInv, Advance, Evaluate
  <1>3. QED
    BY <1>1, <1>2 DEF OnceInv, SoleWorker, WorkerUncounted, InlineInv

\* the step that grades in full: what it writes
LEMMA FinaliseWrites ==
  ASSUME TypeInv, OnceInv, InlineInv, NEW t \in Thread, Finalise(t)
  PROVE  LET s == thread[t].sub  g == FinalStatus(thread[t]) IN
         /\ s \in Sub /\ g \in Graded
         /\ row'[s].status = g /\ row'[s].total > 0
         /\ \A r \in Sub \ {s} : row'[r] = row[r]
         /\ counted' = [counted EXCEPT ![s] = 1]
         /\ accepted' = [accepted EXCEPT ![s] = IF g = "accepted" THEN 1 ELSE 0]
  <1> DEFINE s == thread[t].sub
             g == FinalStatus(thread[t])
             one == IF g = "accepted" THEN 1 ELSE 0
  <1>1. thread[t] \in ThreadState /\ s \in Sub /\ thread[t].total > 0
    <2>1. thread[t] \in ThreadState
      BY DEF TypeInv, TypeOK
    <2>2. thread[t].total # 0
      BY DEF Finalise, At, TypeInv, NonzeroTotal
    <2>3. QED
      BY <2>1, <2>2 DEF ThreadState
  <1>2. g \in Graded
    BY <1>1 DEF FinalStatus, ThreadState, Graded
  <1>3. /\ row'[s].status = g /\ row'[s].total = thread[t].total
        /\ \A r \in Sub \ {s} : row'[r] = row[r]
    BY <1>1 DEF Finalise, TypeInv, TypeOK
  <1>4. counted[s] = 0 /\ accepted[s] = 0
    BY GradingStep
  <1>5. counted' = [counted EXCEPT ![s] = 1]
    BY <1>1, <1>4 DEF Finalise, TypeInv, TypeOK
  <1>6. accepted' = [accepted EXCEPT ![s] = one]
    <2>1. accepted' = [accepted EXCEPT ![s] = @ + one] /\ one \in Nat
      BY DEF Finalise
    <2> HIDE DEF one
    <2>2. QED
      BY <1>1, <1>4, <2>1 DEF TypeInv, TypeOK
  <1>7. QED
    BY <1>1, <1>2, <1>3, <1>5, <1>6

LEMMA NextInline ==
  ASSUME Eager, TypeInv, OnceInv, OnceInv', InlineInv, [Next]_vars
  PROVE  InlineInv' /\ GradesKept
  <1> USE DEF TypeInv
  <1>0. \A t \in Thread : thread[t] \in ThreadState /\ thread[t].sub \in Sub
    BY DEF TypeOK, ThreadState
  <1>1. ASSUME queue' = queue, counted' = counted, accepted' = accepted,
               \A u \in Thread : Working(u)' => Working(u) /\ thread'[u].sub = thread[u].sub,
               \A s \in Sub : \/ row'[s] = row[s]
                              \/ row[s].status \notin Graded /\ row'[s].status \notin Graded
        PROVE InlineInv' /\ GradesKept
    <2>1. StatisticsMatchGrade'
      BY <1>1 DEF InlineInv, StatisticsMatchGrade, Graded
    <2>2. \A u \in Thread : Working(u)' => row'[thread'[u].sub].status \notin Graded
      BY <1>0, <1>1 DEF InlineInv
    <2>3. QED
      BY <1>1, <2>1, <2>2 DEF InlineInv, GradesKept
  <1>2. ASSUME NEW t \in Thread, NEW s \in Sub, Submit(t, s) PROVE InlineInv' /\ GradesKept
    <2>1. /\ \A u \in Thread \ {t} : thread'[u] = thread[u]
          /\ thread'[t].sub = s
      BY <1>2, BeginWorks DEF Submit
    <2>2. /\ row[s].status = "none" /\ row'[s].status = "queued"
          /\ \A r \in Sub \ {s} : row'[r] = row[r]
          /\ queue' = queue /\ counted' = counted /\ accepted' = accepted
      BY <1>2 DEF Submit, TypeOK
    <2>3. \A u \in Thread \ {t} : Working(u)' <=> Working(u)
      BY <2>1 DEF Working
    <2>4. StatisticsMatchGrade'
      BY <2>2 DEF InlineInv, StatisticsMatchGrade, Graded
    <2>5. \A u \in Thread : Working(u)' => row'[thread'[u].sub].status \notin Graded
      BY <1>0, <2>1, <2>2, <2>3 DEF InlineInv, Graded
    <2>6. QED
      BY <2>2, <2>4, <2>5 DEF InlineInv, GradesKept, Graded
  <1>3. ASSUME NEW t \in Thread, AcceptEmpty(t) \/ Finalise(t)
        PROVE  /\ row[thread[t].sub].status \notin Graded
               /\ counted[thread[t].sub] = 0 /\ accepted[thread[t].sub] = 0
               /\ \A u \in Thread : Working(u)' =>
                    /\ Working(u) /\ thread'[u].sub = thread[u].sub
                    /\ thread[u].sub # thread[t].sub
    BY <1>3, GradingStep
  <1>4. ASSUME NEW t \in Thread, AcceptEmpty(t) PROVE InlineInv' /\ GradesKept
    <2> DEFINE s == thread[t].sub
    <2>1. /\ row'[s].total = 0 /\ \A r \in Sub \ {s} : row'[r] = row[r]
          /\ queue' = queue /\ counted' = counted /\ accepted' = accepted
      BY <1>0, <1>4 DEF AcceptEmpty, TypeOK
    <2>2. StatisticsMatchGrade'
      BY <1>3, <1>4, <2>1 DEF InlineInv, StatisticsMatchGrade
    <2>3. \A u \in Thread : Working(u)' => row'[thread'[u].sub].status \notin Graded
      BY <1>0, <1>3, <1>4, <2>1 DEF InlineInv
    <2>4. QED
      BY <1>3, <1>4, <2>1, <2>2, <2>3 DEF InlineInv, GradesKept
  <1>5. ASSUME NEW t \in Thread, Finalise(t) PROVE InlineInv' /\ GradesKept
    <2> DEFINE s == thread[t].sub
               g == FinalStatus(thread[t])
    <2>1. /\ s \in Sub /\ g \in Graded
          /\ row'[s].status = g /\ row'[s].total > 0
          /\ \A r \in Sub \ {s} : row'[r] = row[r]
      BY <1>5, FinaliseWrites
    <2>2. counted'[s] = 1 /\ \A r \in Sub \ {s} : counted'[r] = counted[r]
      <3>1. counted' = [counted EXCEPT ![s] = 1]
        BY <1>5, FinaliseWrites
      <3>2. QED
        BY <2>1, <3>1 DEF TypeOK
    <2>3. /\ accepted'[s] = IF g = "accepted" THEN 1 ELSE 0
          /\ \A r \in Sub \ {s} : accepted'[r] = accepted[r]
      <3> DEFINE one == IF g = "accepted" THEN 1 ELSE 0
      <3>1. accepted' = [accepted EXCEPT ![s] = one]
        BY <1>5, FinaliseWrites
      <3> HIDE DEF one
      <3>2. accepted'[s] = one /\ \A r \in Sub \ {s} : accepted'[r] = accepted[r]
        BY <2>1, <3>1 DEF TypeOK
      <3>3. QED
        BY <3>2 DEF one
    <2>4. queue' = queue
      BY <1>5 DEF Finalise
    <2>5. StatisticsMatchGrade'
      <3>1. \A r \in Sub \ {s} :
              /\ (counted'[r] = 1) <=> (row'[r].status \in Graded /\ row'[r].total > 0)
              /\ (accepted'[r] = 1) <=> (row'[r].status = "accepted" /\ row'[r].total > 0)
        BY <2>1, <2>2, <2>3 DEF InlineInv, StatisticsMatchGrade
      <3>2. /\ (counted'[s] = 1) <=> (row'[s].status \in Graded /\ row'[s].total > 0)
            /\ (accepted'[s] = 1) <=> (row'[s].status = "accepted" /\ row'[s].total > 0)
        BY <2>1, <2>2, <2>3
      <3>3. QED
        BY <3>1, <3>2 DEF StatisticsMatchGrade
    <2>6. \A u \in Thread : Working(u)' => row'[thread'[u].sub].status \notin Graded
      BY <1>0, <1>3, <1>5, <2>1 DEF InlineInv
    <2>7. QED
      BY <1>3, <1>5, <2>1, <2>2, <2>3, <2>4, <2>5, <2>6 DEF InlineInv, GradesKept
  <1>6. ASSUME NEW t \in Thread, Load(t) \/ MarkSystemError(t) PROVE InlineInv' /\ GradesKept
    <2>1. Working(t)
      BY <1>6 DEF Load, MarkSystemError, Working, At, Evaluating
    <2>2. row[thread[t].sub].status \notin Graded
      BY <2>1 DEF InlineInv
    <2>3. \A s \in Sub : \/ row'[s] = row[s]
                         \/ row[s].status \notin Graded /\ row'[s].status \notin Graded
      <3>1. CASE Load(t)
        <4>1. row'[thread[t].sub].status = "running"
          BY <1>0, <3>1 DEF Load, TypeOK
        <4>2. \A s \in Sub : s # thread[t].sub => row'[s] = row[s]
          BY <1>0, <3>1 DEF Load, TypeOK
        <4>3. QED
          BY <2>2, <4>1, <4>2 DEF Graded
      <3>2. CASE MarkSystemError(t)
        <4>1. row'[thread[t].sub].status = "system_error"
          BY <1>0, <3>2 DEF MarkSystemError, TypeOK
        <4>2. \A s \in Sub : s # thread[t].sub => row'[s] = row[s]
          BY <1>0, <3>2 DEF MarkSystemError, TypeOK
        <4>3. QED
          BY <2>2, <4>1, <4>2 DEF Graded
      <3>3. QED
        BY <1>6, <3>1, <3>2
    <2>4. QED
      BY <1>1, <1>6, <2>3, NoNewWork DEF Load, MarkSystemError, Advance, Evaluate
  <1>7. ASSUME NEW t \in Thread, Advance(t) \/ Fault(t), row' = row, counted' = counted,
               accepted' = accepted, queue' = queue
        PROVE InlineInv' /\ GradesKept
    <2>1. \A u \in Thread : Working(u)' => Working(u) /\ thread'[u].sub = thread[u].sub
      BY <1>7, NoNewWork
    <2>2. \A s \in Sub : row'[s] = row[s]
      BY <1>7
    <2>3. QED
      BY <1>1, <1>7, <2>1, <2>2
  <1>8. ASSUME NEW t \in Thread, Advance(t) \/ Fault(t) PROVE InlineInv' /\ GradesKept
    BY <1>4, <1>5, <1>6, <1>7, <1>8
    DEF Advance, Evaluate, Fault, Dispatch, FetchCases, RunCase, StoreResults, IntegrityError,
        Return, Retry, DispatchFails, Raise, MarkFails, Killed, Redeliver
  <1>9. ASSUME NEW t \in Thread, NEW s \in Sub, NEW n \in Attempts, Receive(t, s, n)
        PROVE FALSE
    BY <1>9 DEF Receive, InlineInv
  <1>10. CASE UNCHANGED <<row, counted, accepted, queue, thread>>
    <2>1. \A u \in Thread : Working(u)' => Working(u) /\ thread'[u].sub = thread[u].sub
      BY <1>10 DEF Working
    <2>2. \A s \in Sub : row'[s] = row[s]
      BY <1>10
    <2>3. QED
      BY <1>1, <1>10, <2>1, <2>2
  <1>11. QED
    BY <1>2, <1>8, <1>9, <1>10 DEF Next, AddCase, DeleteCase, vars

\* When tasks run inline, what the problem's statistics say of a submission and
\* what its row says agree in every state, whatever raised or was killed.
THEOREM StatisticsAgree == ASSUME Eager PROVE Spec => []StatisticsMatchGrade
  <1>1. Init => InlineInv
    BY InitInline
  <1>2. (TypeInv /\ OnceInv) /\ (TypeInv /\ OnceInv)' /\ InlineInv /\ [Next]_vars => InlineInv'
    BY NextInline
  <1>3. InlineInv => StatisticsMatchGrade
    BY DEF InlineInv
  <1>4. QED
    BY <1>1, <1>2, <1>3, OnceCorrect, PTL DEF Spec

\* When tasks run inline no later step revises a grade.
THEOREM GradesAreFinal == ASSUME Eager PROVE Spec => GradeIsFinal
  <1>1. Init => InlineInv
    BY InitInline
  <1>2. (TypeInv /\ OnceInv) /\ (TypeInv /\ OnceInv)' /\ InlineInv /\ [Next]_vars
        => InlineInv' /\ [GradesKept]_vars
    BY NextInline
  <1>3. GradeIsFinal <=> [][GradesKept]_vars
    BY DEF GradeIsFinal, GradesKept
  <1>4. QED
    BY <1>1, <1>2, <1>3, OnceCorrect, PTL DEF Spec

-----------------------------------------------------------------------------
(* Tasks run inline: CodeAssessment implements GradeOnce.  The handler, its *)
(* retry and the direct fallback never show a client anything else than a   *)
(* submission that is absent, pending, then graded and counted at once.     *)

grade == [s \in Sub |-> GradeOf(s)]

LEMMA InitRefines == Init => Abstract!Init
  BY DEF Init, Abstract!Init, NoRow, GradeOf, Graded

LEMMA GradeUnchanged ==
  ASSUME \A s \in Sub : GradeOf(s)' = GradeOf(s) PROVE UNCHANGED grade
  BY DEF grade

LEMMA StepRefines ==
  ASSUME Eager, TypeInv, OnceInv, InlineInv, [Next]_vars
  PROVE  Abstract!Next \/ UNCHANGED <<grade, counted, accepted>>
  <1> USE DEF TypeInv
  <1>0. \A t \in Thread : thread[t] \in ThreadState /\ thread[t].sub \in Sub
    BY DEF TypeOK, ThreadState
  <1>1. ASSUME UNCHANGED <<row, counted, accepted>>
        PROVE  UNCHANGED <<grade, counted, accepted>>
    BY <1>1 DEF grade, GradeOf
  <1>2. ASSUME NEW t \in Thread, NEW s \in Sub, Submit(t, s) PROVE Abstract!Create(s)
    <2>1. row[s].status = "none" /\ row'[s].status = "queued"
      BY <1>2 DEF Submit, TypeOK
    <2>2. \A r \in Sub : r # s => row'[r] = row[r]
      BY <1>2 DEF Submit, TypeOK
    <2>3. GradeOf(s) = "absent" /\ GradeOf(s)' = "pending"
      BY <2>1 DEF GradeOf, Graded
    <2>4. \A r \in Sub : r # s => GradeOf(r)' = GradeOf(r)
      BY <2>2 DEF GradeOf
    <2>5. grade' = [grade EXCEPT ![s] = "pending"]
      BY <2>3, <2>4 DEF grade
    <2>6. QED
      BY <1>2, <2>3, <2>5 DEF Submit, Abstract!Create, grade
  <1>3. ASSUME NEW t \in Thread, Load(t) \/ MarkSystemError(t)
        PROVE  UNCHANGED <<grade, counted, accepted>>
    <2> PICK s \in Sub : s = thread[t].sub
      BY <1>0
    <2>1. Working(t)
      BY <1>3 DEF Load, MarkSystemError, Working, At, Evaluating
    <2>2. row[s].status \notin Graded \cup {"none"}
      BY <2>1 DEF InlineInv, OnceInv, WorkerUncounted
    <2>3. row'[s].status \in {"running", "system_error"}
      <3>1. CASE Load(t)
        BY <1>0, <3>1 DEF Load, TypeOK
      <3>2. CASE MarkSystemError(t)
        BY <1>0, <3>2 DEF MarkSystemError, TypeOK
      <3>3. QED
        BY <1>3, <3>1, <3>2
    <2>4. \A r \in Sub : r # s => row'[r] = row[r]
      <3>1. CASE Load(t)
        BY <1>0, <3>1 DEF Load, TypeOK
      <3>2. CASE MarkSystemError(t)
        BY <1>0, <3>2 DEF MarkSystemError, TypeOK
      <3>3. QED
        BY <1>3, <3>1, <3>2
    <2>5. GradeOf(s) = "pending" /\ GradeOf(s)' = "pending"
      BY <2>2, <2>3 DEF GradeOf, Graded
    <2>6. \A r \in Sub : GradeOf(r)' = GradeOf(r)
      BY <2>4, <2>5 DEF GradeOf
    <2>7. QED
      BY <1>3, <2>6, GradeUnchanged DEF Load, MarkSystemError
  <1>4. ASSUME NEW t \in Thread, AcceptEmpty(t) PROVE Abstract!AcceptUncounted(thread[t].sub)
    <2> PICK s \in Sub : s = thread[t].sub
      BY <1>0
    <2>1. row[s].status \notin Graded \cup {"none"}
      BY <1>4, GradingStep
    <2>2. row'[s].status = "accepted" /\ \A r \in Sub : r # s => row'[r] = row[r]
      BY <1>0, <1>4 DEF AcceptEmpty, TypeOK
    <2>3. GradeOf(s) = "pending" /\ GradeOf(s)' = "accepted"
      BY <2>1, <2>2 DEF GradeOf, Graded
    <2>4. \A r \in Sub : r # s => GradeOf(r)' = GradeOf(r)
      BY <2>2 DEF GradeOf
    <2>5. grade' = [grade EXCEPT ![s] = "accepted"]
      BY <2>3, <2>4 DEF grade
    <2>6. QED
      BY <1>0, <1>4, <2>3, <2>5 DEF AcceptEmpty, Abstract!AcceptUncounted, grade
  <1>5. ASSUME NEW t \in Thread, Finalise(t)
        PROVE  \E g \in Graded : Abstract!Grade(thread[t].sub, g)
    <2> PICK s \in Sub : s = thread[t].sub
      BY <1>0
    <2> PICK g : g = FinalStatus(thread[t])
      OBVIOUS
    <2>1. row[s].status \notin Graded \cup {"none"}
      BY <1>5, GradingStep
    <2>2. /\ g \in Graded /\ row'[s].status = g
          /\ \A r \in Sub : r # s => row'[r] = row[r]
          /\ counted' = [counted EXCEPT ![s] = 1]
          /\ accepted' = [accepted EXCEPT ![s] = IF g = "accepted" THEN 1 ELSE 0]
      BY <1>5, FinaliseWrites
    <2>3. GradeOf(s) = "pending" /\ GradeOf(s)' = g
      BY <2>1, <2>2 DEF GradeOf, Graded
    <2>4. \A r \in Sub : r # s => GradeOf(r)' = GradeOf(r)
      BY <2>2 DEF GradeOf
    <2>5. grade' = [grade EXCEPT ![s] = g]
      BY <2>3, <2>4 DEF grade
    <2>6. Abstract!Grade(s, g)
      BY <1>0, <2>2, <2>3, <2>5 DEF Abstract!Grade, grade
    <2>7. QED
      BY <2>2, <2>6
  <1>6. ASSUME NEW t \in Thread, NEW s \in Sub, NEW n \in Attempts, Receive(t, s, n)
        PROVE  UNCHANGED <<row, counted, accepted>>
    BY <1>6 DEF Receive
  <1>7. ASSUME NEW t \in Thread, Advance(t) \/ Fault(t)
        PROVE  \/ Load(t) \/ MarkSystemError(t) \/ AcceptEmpty(t) \/ Finalise(t)
               \/ UNCHANGED <<row, counted, accepted>>
    BY <1>7 DEF Advance, Evaluate, Fault, Dispatch, FetchCases, RunCase, StoreResults,
       IntegrityError, Return, Retry, DispatchFails, Raise, MarkFails, Killed, Redeliver
  <1>8. QED
    BY <1>0, <1>1, <1>2, <1>3, <1>4, <1>5, <1>6, <1>7
    DEF Next, AddCase, DeleteCase, vars, Abstract!Next, Abstract!Grades, Graded

\* The abstract specification a client may rely on: every behaviour of the
\* evaluation, with its failures, is one of GradeOnce.
THEOREM ImplementsGradeOnce == ASSUME Eager PROVE Spec => GradesOnce
  <1>1. Init => InlineInv /\ Abstract!Init
    BY InitInline, InitRefines
  <1>2. (TypeInv /\ OnceInv) /\ (TypeInv /\ OnceInv)' /\ InlineInv /\ [Next]_vars
        => InlineInv' /\ [Abstract!Next]_(Abstract!absVars)
    BY NextInline, StepRefines DEF Abstract!absVars, grade
  <1>3. QED
    BY <1>1, <1>2, OnceCorrect, PTL DEF Spec, GradesOnce, Abstract!Spec

-----------------------------------------------------------------------------
(* A student's stored progress is taken back only by summaries that overlap. *)
(* What a summary found is backed by the submissions as they still are, and  *)
(* if nothing was stored since it read, it is no worse than what is stored.  *)

\* a submission that has no grade has no score
UngradedIsZero == \A s \in Sub : row[s].status \notin Graded => row[s].score = 0

Progress == [score : Nat, is_passed : BOOLEAN, is_completed : BOOLEAN]

\* progress that a summary of the present submissions would not take back
Backed(a) == /\ a.score = 0 \/ \E s \in Submitted : a.score <= row[s].score
             /\ a.is_completed => Submitted # {}
             /\ a.is_passed => a.score >= PassMark

ProgressInv ==
    /\ attempt \in Progress /\ Backed(attempt)
    /\ reader \in [Reader -> [pc : {"idle", "store"}, found : Progress, behind : BOOLEAN]]
    /\ \A q \in Reader : reader[q].pc = "store" =>
         /\ Backed(reader[q].found)
         /\ reader[q].found.is_passed <=> reader[q].found.score >= PassMark
         /\ ~reader[q].behind => AtLeast(reader[q].found, attempt)

-----------------------------------------------------------------------------
(* Submissions only improve                                                 *)

RowsGrow == \A s \in Submitted : s \in Submitted' /\ row[s].score <= row'[s].score

LEMMA InitZero == Init => UngradedIsZero
  BY DEF Init, UngradedIsZero, NoRow

LEMMA RowSteps ==
  ASSUME TypeInv, [Next]_vars
  PROVE  \/ UNCHANGED row
         \/ \E t \in Thread, s \in Sub : Submit(t, s)
         \/ \E t \in Thread : Load(t) \/ MarkSystemError(t) \/ AcceptEmpty(t) \/ Finalise(t)
  <1>1. ASSUME NEW t \in Thread, Advance(t) \/ Fault(t)
        PROVE  UNCHANGED row \/ Load(t) \/ MarkSystemError(t) \/ AcceptEmpty(t) \/ Finalise(t)
    BY <1>1 DEF Advance, Evaluate, Fault, Dispatch, FetchCases, RunCase, StoreResults,
       IntegrityError, Return, Retry, DispatchFails, Raise, MarkFails, Killed, Redeliver
  <1>2. ASSUME NEW t \in Thread, NEW s \in Sub, NEW n \in Attempts, Receive(t, s, n)
        PROVE  UNCHANGED row
    BY <1>2 DEF Receive
  <1>3. QED
    BY <1>1, <1>2 DEF Next, AddCase, DeleteCase, vars

LEMMA NextGrows ==
  ASSUME Eager, TypeInv, TypeInv', OnceInv, InlineInv, GradesKept, UngradedIsZero, [Next]_vars
  PROVE  UngradedIsZero' /\ RowsGrow
  <1> USE DEF TypeInv
  <1>0. \A t \in Thread : thread[t] \in ThreadState /\ thread[t].sub \in Sub
    BY DEF TypeOK, ThreadState
  <1>1. CASE UNCHANGED row
    BY <1>1 DEF UngradedIsZero, RowsGrow, Submitted, TypeOK
  <1>2. ASSUME NEW t \in Thread, NEW s \in Sub, Submit(t, s)
        PROVE  UngradedIsZero' /\ \A r \in Submitted : r \in Submitted'
    BY <1>2 DEF Submit, UngradedIsZero, Submitted, TypeOK, Graded
  <1>3. ASSUME NEW t \in Thread, Load(t) \/ MarkSystemError(t)
        PROVE  UngradedIsZero' /\ \A r \in Submitted : r \in Submitted'
    <2>1. Working(t)
      <3>1. At(t, "load") \/ At(t, "mark")
        BY <1>3 DEF Load, MarkSystemError
      <3>2. QED
        BY <3>1 DEF Working, At, Evaluating
    <2>2. row[thread[t].sub].status \notin Graded
      BY <2>1 DEF InlineInv
    <2>3. CASE Load(t)
      BY <1>0, <2>2, <2>3 DEF Load, UngradedIsZero, Submitted, TypeOK, Graded
    <2>4. CASE MarkSystemError(t)
      BY <1>0, <2>2, <2>4 DEF MarkSystemError, UngradedIsZero, Submitted, TypeOK, Graded
    <2>5. QED
      BY <1>3, <2>3, <2>4
  <1>4. ASSUME NEW t \in Thread, AcceptEmpty(t)
        PROVE  UngradedIsZero' /\ \A r \in Submitted : r \in Submitted'
    BY <1>0, <1>4 DEF AcceptEmpty, UngradedIsZero, Submitted, TypeOK, Graded
  <1>5. ASSUME NEW t \in Thread, Finalise(t)
        PROVE  UngradedIsZero' /\ \A r \in Submitted : r \in Submitted'
    <2>1. /\ row'[thread[t].sub].status \in Graded
          /\ \A r \in Sub \ {thread[t].sub} : row'[r] = row[r]
      BY <1>5, FinaliseWrites
    <2>2. QED
      BY <1>0, <2>1 DEF UngradedIsZero, Submitted, Graded
  <1>6. UngradedIsZero' /\ \A r \in Submitted : r \in Submitted'
    BY <1>1, <1>2, <1>3, <1>4, <1>5, RowSteps DEF RowsGrow
  <1>7. \A r \in Sub : row[r].score <= row'[r].score
    <2> TAKE r \in Sub
    <2>1. row[r].score \in Nat /\ row'[r].score \in Nat
      BY DEF TypeOK
    <2>2. CASE row[r].status \in Graded
      BY <2>1, <2>2 DEF GradesKept
    <2>3. CASE row[r].status \notin Graded
      BY <2>1, <2>3 DEF UngradedIsZero
    <2>4. QED
      BY <2>2, <2>3
  <1>8. QED
    BY <1>6, <1>7 DEF RowsGrow, Submitted

-----------------------------------------------------------------------------
(* Summaries                                                                *)

LEMMA StaysBacked ==
  ASSUME TypeInv, TypeInv', RowsGrow, NEW a \in Progress, Backed(a), PassMark' = PassMark
  PROVE  Backed(a)'
  <1>1. \A s \in Sub : row[s].score \in Nat /\ row'[s].score \in Nat
    BY DEF TypeInv, TypeOK
  <1>2. QED
    BY <1>1 DEF Backed, RowsGrow, Submitted, Progress

LEMMA InitProgress == ProgressInit => ProgressInv
  BY ProgressAssumption
  DEF ProgressInit, ProgressInv, NoAttempt, Resting, Progress, Backed

LEMMA SubmissionStep ==
  ASSUME TypeInv, TypeInv', RowsGrow, ProgressInv, UNCHANGED attemptVars
  PROVE  ProgressInv'
  <1>1. attempt' = attempt /\ reader' = reader
    BY DEF attemptVars
  <1>2. Backed(attempt)'
    BY <1>1, StaysBacked DEF ProgressInv
  <1>3. ASSUME NEW q \in Reader, reader[q].pc = "store" PROVE Backed(reader[q].found)'
    BY <1>1, <1>3, StaysBacked DEF ProgressInv
  <1>4. QED
    BY <1>1, <1>2, <1>3 DEF ProgressInv, AtLeast

LEMMA ReadStep ==
  ASSUME TypeInv, ProgressInv, UNCHANGED vars, NEW q \in Reader, Read(q) PROVE ProgressInv'
  <1>1. PICK b \in {0} \cup {row[s].score : s \in Sub} :
          /\ reader[q].pc = "idle" /\ IsBestScore(b)
          /\ reader' = [reader EXCEPT ![q] =
               [pc |-> "store", behind |-> FALSE, found |->
                [score |-> b, is_passed |-> b >= PassMark, is_completed |-> Submitted # {}]]]
          /\ UNCHANGED attempt
    BY DEF Read
  <1> DEFINE f == [score |-> b, is_passed |-> b >= PassMark, is_completed |-> Submitted # {}]
  <1>2. \A s \in Sub : row[s].score \in Nat
    BY DEF TypeInv, TypeOK
  <1>3. f \in Progress
    BY <1>2, ProgressAssumption DEF Progress
  <1>4. Backed(f)
    BY <1>1, <1>2 DEF Backed, IsBestScore, Submitted
  <1>5. AtLeast(f, attempt)
    BY <1>1, <1>2, ProgressAssumption DEF AtLeast, IsBestScore, Submitted, ProgressInv, Backed, Progress
  <1>6. \A a : Backed(a) <=> Backed(a)'
    BY DEF vars, Backed, Submitted
  <1>7. f.is_passed <=> f.score >= PassMark
    OBVIOUS
  <1>8. reader' = [reader EXCEPT ![q] = [pc |-> "store", behind |-> FALSE, found |-> f]]
    BY <1>1
  <1> HIDE DEF f
  <1>9. QED
    BY <1>1, <1>3, <1>4, <1>5, <1>6, <1>7, <1>8 DEF ProgressInv, AtLeast

LEMMA StoreStep ==
  ASSUME TypeInv, ProgressInv, UNCHANGED vars, NEW q \in Reader, Store(q)
  PROVE  ProgressInv' /\ (AtLeast(attempt', attempt) \/ (reader[q].behind /\ reader'[q] = Resting))
  <1>1. \A a : Backed(a) <=> Backed(a)'
    BY DEF vars, Backed, Submitted
  <1>2. Resting \in [pc : {"idle", "store"}, found : Progress, behind : BOOLEAN]
        /\ Resting.pc = "idle"
    BY DEF Resting, NoAttempt, Progress
  <1>3. reader'[q] = Resting
    BY DEF Store, ProgressInv
  <1>4. \A p \in Reader : reader'[p].pc = "store" =>
          /\ p # q /\ reader[p].pc = "store" /\ reader'[p].behind
          /\ reader'[p].found = reader[p].found
    BY <1>2 DEF Store, ProgressInv
  <1>5. reader' \in [Reader -> [pc : {"idle", "store"}, found : Progress, behind : BOOLEAN]]
    BY <1>2 DEF Store, ProgressInv
  <1>6. attempt' \in Progress /\ Backed(attempt')
    BY DEF Store, ProgressInv
  <1>7. ProgressInv'
    BY <1>1, <1>4, <1>5, <1>6 DEF ProgressInv
  <1>8. reader[q].behind \/ AtLeast(attempt', attempt)
    BY DEF Store, ProgressInv
  <1>9. QED
    BY <1>3, <1>7, <1>8

-----------------------------------------------------------------------------
(* The theorem                                                              *)

Inv == TypeInv /\ OnceInv /\ InlineInv /\ UngradedIsZero /\ ProgressInv

Kept == \/ AtLeast(attempt', attempt)
        \/ \E q \in Reader : reader[q].behind /\ reader'[q] = Resting

LEMMA Reflexive == ProgressInv /\ attempt' = attempt => AtLeast(attempt', attempt)
  BY DEF ProgressInv, Progress, AtLeast

LEMMA NextProgress == Eager /\ Inv /\ [ProgressNext]_allVars => Inv' /\ Kept
  <1> SUFFICES ASSUME Eager, Inv, [ProgressNext]_allVars PROVE Inv' /\ Kept
    OBVIOUS
  <1>1. [Next]_vars
    BY DEF ProgressNext, allVars
  <1>2. TypeInv' /\ OnceInv'
    BY <1>1, NextTypeInv, NextOnce DEF Inv
  <1>3. InlineInv' /\ GradesKept
    BY <1>1, <1>2, NextInline DEF Inv
  <1>4. UngradedIsZero' /\ RowsGrow
    BY <1>1, <1>2, <1>3, NextGrows DEF Inv
  <1>5. ASSUME UNCHANGED attemptVars PROVE ProgressInv' /\ Kept
    <2>1. ProgressInv'
      BY <1>2, <1>4, <1>5, SubmissionStep DEF Inv
    <2>2. Kept
      BY <1>5, Reflexive DEF Inv, Kept, attemptVars
    <2>3. QED
      BY <2>1, <2>2
  <1>6. ASSUME NEW q \in Reader, Read(q), UNCHANGED vars PROVE ProgressInv' /\ Kept
    BY <1>6, ReadStep, Reflexive DEF Inv, Kept, Read
  <1>7. ASSUME NEW q \in Reader, Store(q), UNCHANGED vars PROVE ProgressInv' /\ Kept
    BY <1>7, StoreStep DEF Inv, Kept
  <1>8. ProgressInv' /\ Kept
    BY <1>5, <1>6, <1>7 DEF ProgressNext, allVars
  <1>9. QED
    BY <1>2, <1>3, <1>4, <1>8 DEF Inv

\* assessment_service.py:24-90 over the evaluations of execution_service.py: for
\* any number of submissions, workers, failures and summaries, progress is taken
\* back only by a summary that had read before the better one was stored.
THEOREM ProgressIsKept == ASSUME Eager PROVE ProgressSpec => NeverTakenBack
  <1>1. ProgressInit => Inv
    BY InitTypeInv, InitOnce, InitInline, InitZero, InitProgress DEF Inv, ProgressInit
  <1>2. Inv /\ [ProgressNext]_allVars => Inv' /\ [Kept]_allVars
    BY NextProgress
  <1>3. NeverTakenBack <=> [][Kept]_allVars
    BY DEF NeverTakenBack, Kept
  <1>4. QED
    BY <1>1, <1>2, <1>3, PTL DEF ProgressSpec
=============================================================================
