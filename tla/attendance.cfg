SPECIFICATION Spec
CONSTANTS
    DayTicks = 4
    Lag = 1
    ClassHours = {1, 2, 3}
    Worker = {w1, w2}
    MaxTime = 4
    MaxRows = 4
SYMMETRY WorkerSymmetry
CHECK_DEADLOCK FALSE
INVARIANTS OncePerDay HoursWithinPresence ViewsAgree SessionsAddUp
PROPERTY HoursKept
