------------------------- MODULE AssessmentProgress -------------------------
(***************************************************************************)
(* The stored progress of a student in an assessment of one problem        *)
(* (AssessmentService.get_assessment_summary), composed with the           *)
(* submissions it is computed from.  The summary endpoint reads all        *)
(* submissions in one query and stores what it computed later, so summaries *)
(* overlap with each other and with evaluations.                           *)
(***************************************************************************)
EXTENDS CodeAssessment

CONSTANTS
    Reader,     \* requests of the summary endpoint
    PassMark    \* passing_percentage

ASSUME ProgressAssumption == PassMark \in Nat

VARIABLES
    attempt,    \* the AssessmentAttempt row
    reader      \* reader[q]: what a request computed, and whether another
                \* summary was stored since it read
attemptVars == <<attempt, reader>>
allVars == <<vars, attemptVars>>

NoAttempt == [score |-> 0, is_passed |-> FALSE, is_completed |-> FALSE]
Resting == [pc |-> "idle", found |-> NoAttempt, behind |-> FALSE]

ProgressInit ==
    /\ Init
    /\ attempt = NoAttempt
    /\ reader = [q \in Reader |-> Resting]

Submitted == {s \in Sub : row[s].status # "none"}

\* mutant: no comparison with the score found so far, the last submission counts
IsLastScore(b) == \/ b = 0 /\ Submitted = {}
                  \/ \E s \in Submitted : b = row[s].score

\* the best score so far, 0 without submissions; one that is not graded has 0
IsBestScore(b) == /\ b = 0 \/ \E s \in Submitted : b = row[s].score
                  /\ \A s \in Submitted : row[s].score <= b

\* the query and the computation
Read(q) == \E b \in {0} \cup {row[s].score : s \in Sub} :
    /\ reader[q].pc = "idle" /\ IsBestScore(b)
    /\ reader' = [reader EXCEPT ![q] =
         [pc |-> "store", behind |-> FALSE, found |->
          [score |-> b, is_passed |-> b >= PassMark, is_completed |-> Submitted # {}]]]
    /\ UNCHANGED attempt

\* update_or_create, which locks the row and creates it if there is none
Store(q) ==
    /\ reader[q].pc = "store"
    /\ attempt' = reader[q].found
    /\ reader' = [p \in Reader |->
         IF p = q THEN Resting
         ELSE [reader[p] EXCEPT !.behind = reader[p].pc = "store"]]

ProgressNext ==
    \/ Next /\ UNCHANGED attemptVars
    \/ \E q \in Reader : (Read(q) \/ Store(q)) /\ UNCHANGED vars

ProgressSpec == ProgressInit /\ [][ProgressNext]_allVars

-----------------------------------------------------------------------------
(* Properties                                                               *)

AtLeast(new, old) == /\ new.score >= old.score
                     /\ old.is_passed => new.is_passed
                     /\ old.is_completed => new.is_completed

\* With inline tasks a student's progress is taken back only by a summary that
\* had read before the better one was stored: further submissions, evaluations
\* that fail and are repeated, and later summaries never lower it.
NeverTakenBack ==
    [][\/ AtLeast(attempt', attempt)
       \/ \E q \in Reader : reader[q].behind /\ reader'[q] = Resting]_allVars
=============================================================================
