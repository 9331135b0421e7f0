SPECIFICATION ProgressSpec
CONSTANTS
    Sub = {s1, s2}
    Thread = {t1, t2}
    Case = {c1}
    InitCases = {}
    Editable = {c1}
    Eager = TRUE
    MaxRetries = 2
    MaxRaises = 2
    MaxLost = 1
    Reader = {q1, q2}
    PassMark = 60
    MaxRedelivered = 0
    MaxDisturbed = 3
INVARIANT StatisticsMatchGrade
PROPERTIES GradesOnce NeverTakenBack
SYMMETRY ThreadSymmetry
\* nothing is left to do once every submission is settled
CHECK_DEADLOCK FALSE
