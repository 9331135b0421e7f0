SPECIFICATION FairSpec
CONSTANTS
    pro = pro
    free = free
    parse = parse
    Order = {1, 2}
    Plan = {pro}
    Free = free
    Feature = {parse}
    Limit <- Limits
    Worker = {w1, w2}
    None = None
    MaxRequests = 3
    MaxCrashes = 1
CHECK_DEADLOCK FALSE
INVARIANTS DoneIsSubscribed OnceUnlessOverlapped SupersededIsExpired CurrentIsLast
PROPERTY PaidIsActivated
