SPECIFICATION Spec
CONSTANTS
    a = a
    b = b
    student = student
    boss = boss
    Socket = {a, b}
    Side <- MCSide
    Request = {r1, r2}
    Body <- MCBody
    Page = 1
    MaxMessages = 2
    MaxUnsent = 1
    Edited = {1}
    User = {student, boss}
    SuperAdmin = {boss}
    Client = {a, b}
    Owner <- MCOwner
    MaxNotes = 2
    MaxFailed = 1
    MaxBusy = 4
CONSTRAINT FewBusy
INVARIANTS NoGap BadgeCovers FlagsAsAsked
SYMMETRY Symmetry
CHECK_DEADLOCK FALSE
