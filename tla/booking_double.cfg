\* Two bookings at once, for one artist's day.
SPECIFICATION Spec
CONSTANTS
    b1 = b1
    b2 = b2
    None = None
    Branch = {b1}
    Request = {q1, q2}
    ReservationId = {r1, r2}
    Horizon = 4
    DayLength = 2
    Duration = {1}
    MaxCopies = 2
    OpeningHours <- OneBranch
    Ops = {"create"}
    MovesCancelled = FALSE
    StepsFail = FALSE
    LastTick = 0
CHECK_DEADLOCK FALSE
INVARIANT
    NoOverbooking
