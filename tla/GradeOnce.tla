----------------------------- MODULE GradeOnce ------------------------------
(***************************************************************************)
(* What submitting code promises, seen from outside: a submission is       *)
(* absent, then pending, then graded, once and for all; the grade enters   *)
(* the problem's statistics in the same step.  Only the acceptance of a    *)
(* submission to a problem without test cases stays out of them.           *)
(***************************************************************************)
EXTENDS Naturals

CONSTANTS Sub
VARIABLES grade, counted, accepted

absVars == <<grade, counted, accepted>>

Grades == {"accepted", "failed", "compile_error"}

Init ==
    /\ grade = [s \in Sub |-> "absent"]
    /\ counted = [s \in Sub |-> 0] /\ accepted = [s \in Sub |-> 0]

Create(s) ==
    /\ grade[s] = "absent" /\ grade' = [grade EXCEPT ![s] = "pending"]
    /\ UNCHANGED <<counted, accepted>>

Grade(s, g) ==
    /\ grade[s] = "pending" /\ grade' = [grade EXCEPT ![s] = g]
    /\ counted' = [counted EXCEPT ![s] = 1]
    /\ accepted' = [accepted EXCEPT ![s] = IF g = "accepted" THEN 1 ELSE 0]

AcceptUncounted(s) ==
    /\ grade[s] = "pending" /\ grade' = [grade EXCEPT ![s] = "accepted"]
    /\ UNCHANGED <<counted, accepted>>

Next == \E s \in Sub : \/ Create(s) \/ AcceptUncounted(s)
                      \/ \E g \in Grades : Grade(s, g)

Spec == Init /\ [][Next]_absVars
=============================================================================
