\* Bookings and cancellations racing, two at a time, on one artist's days.
\* A behaviour ends when every reservation id has been used and cancelled.
SPECIFICATION Spec
CONSTANTS
    b1 = b1
    b2 = b2
    None = None
    Branch = {b1}
    Request = {q1, q2}
    ReservationId = {r1, r2}
    Horizon = 4
    DayLength = 2
    Duration = {1, 2}
    MaxCopies = 2
    OpeningHours <- OneBranch
    Ops = {"create", "delete"}
    MovesCancelled = FALSE
    StepsFail = FALSE
    LastTick = 1
CHECK_DEADLOCK FALSE
SYMMETRY Symmetric
INVARIANTS
    NoHourLost
