SPECIFICATION Spec
CONSTANTS
    plain1 = plain1
    webinar1 = webinar1
    webinar2 = webinar2
    ebook1 = ebook1
    ebook2 = ebook2
    t1 = t1
    t2 = t2
    t3 = t3
    seat = seat
    copy = copy
    Order = {plain1, webinar1, webinar2}
    Reg = {seat, copy}
    Thread = {t1, t2}
    Kind <- Kinds
    RegOf <- RegOfOrder
    Retried = {webinar1}
    FailuresFirst = TRUE
    MaxOrders = 2
    Capturable = {webinar1}
    MaxRaises = 1
    MaxCrashes = 0
CONSTRAINT FewOrders
CHECK_DEADLOCK FALSE
SYMMETRY ThreadSymmetry
INVARIANT PaidIsFulfilled
PROPERTY KeepsTheBook
