SPECIFICATION Spec
CONSTANTS
    In = {m1, m2}
    Out = {x1, x2}
    Process = {p1, p2}
    Consumer = {c1, c2}
    None = None
    MaxFaults = 1
    MaxBegun = 2
SYMMETRY InboxSymmetry
CONSTRAINT FewBegun
CHECK_DEADLOCK FALSE
INVARIANTS InboundKept StoredIsShown SentIsReceived PendingIsUnderway
