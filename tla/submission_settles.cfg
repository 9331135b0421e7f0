SPECIFICATION FairSpec
CONSTANTS
    Sub = {s1}
    Thread = {t1, t2}
    Case = {c1, c2}
    InitCases = {c1}
    Editable = {c1, c2}
    Eager = FALSE
    MaxRetries = 2
    MaxRaises = 2
    MaxLost = 1
    MaxRedelivered = 1
    MaxDisturbed = 1
INVARIANTS CountedOnce GradedIsCounted AcceptedIsBacked
PROPERTY Settles
\* nothing is left to do once every submission is settled
CHECK_DEADLOCK FALSE
