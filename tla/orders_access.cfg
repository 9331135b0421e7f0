SPECIFICATION FairSpec
CONSTANTS
    plain1 = plain1
    webinar1 = webinar1
    webinar2 = webinar2
    ebook1 = ebook1
    ebook2 = ebook2
    t1 = t1
    t2 = t2
    t3 = t3
    seat = seat
    copy = copy
    Order = {ebook1}
    Reg = {seat, copy}
    Thread = {t1, t2}
    Kind <- Kinds
    RegOf <- RegOfOrder
    Retried = {ebook1}
    FailuresFirst = FALSE
    MaxOrders = 1
    Capturable = {ebook1}
    MaxRaises = 1
    MaxCrashes = 1
CHECK_DEADLOCK FALSE
INVARIANTS NothingForFree PaidIsFulfilled
PROPERTY AccessFollowsMoney
