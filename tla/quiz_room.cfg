SPECIFICATION MCSpec
CONSTANTS
    host = host
    anna = anna
    admin = admin
    deputy = deputy
    tab1 = tab1
    tab2 = tab2
    q1 = q1
    q2 = q2
    Host = host
    Participant = {anna}
    Socket = {admin, deputy, tab1, tab2}
    Owner <- MCOwner
    Question = {q1, q2}
    MaxCommands = 4
    Few = 2
\* the bound on the host's messages ends the behaviour
CHECK_DEADLOCK FALSE
INVARIANTS AwardedOncePerStart BoardsAgree EndedHasResult ScreensAgree
