\* One request at a time, no failing step, cancelled reservations left alone.
\* A behaviour ends when every reservation id has been used and cancelled.
SPECIFICATION Spec
CONSTANTS
    b1 = b1
    b2 = b2
    None = None
    Branch = {b1, b2}
    Request = {q1}
    ReservationId = {r1, r2}
    Horizon = 4
    DayLength = 2
    Duration = {1, 2}
    MaxCopies = 4
    OpeningHours <- TwoBranches
    Ops = {"create", "time", "branch", "delete"}
    MovesCancelled = FALSE
    StepsFail = FALSE
    LastTick = 1
CHECK_DEADLOCK FALSE
SYMMETRY Symmetric
INVARIANTS
    NoHourLost
    NoHourTwice
    OrderFollowsReservation
PROPERTY
    ImplementsCalendar
