SPECIFICATION Spec
CONSTANTS
    lea = lea
    leo = leo
    w1 = w1
    w2 = w2
    first = first
    second = second
    Lead = {lea, leo}
    Worker = {w1, w2}
    Admin = {first, second}
    Batch = 1
    SendRetries = 1
    ErrorRetries = 1
    CheckRetries = 1
    MaxDisturbed = 1
\* a campaign that is over has nothing left to do
CHECK_DEADLOCK FALSE
INVARIANTS ReceivedOnce CountersAgree CompletedAddsUp
PROPERTY EveryoneAnswered
