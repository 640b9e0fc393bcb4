\* One request at a time: bookings, and moves of a booking in time.
SPECIFICATION Spec
CONSTANTS
    b1 = b1
    b2 = b2
    None = None
    Branch = {b1}
    Request = {q1}
    ReservationId = {r1, r2}
    Horizon = 4
    DayLength = 2
    Duration = {1}
    MaxCopies = 2
    OpeningHours <- OneBranch
    Ops = {"create", "time"}
    MovesCancelled = FALSE
    StepsFail = FALSE
    LastTick = 0
CHECK_DEADLOCK FALSE
INVARIANT
    ReservationDay
