\* Two requests in flight, every operation and every failure.
\* A behaviour ends when the bounds on ids and copies stop every request.
SPECIFICATION Spec
CONSTANTS
    b1 = b1
    b2 = b2
    None = None
    Branch = {b1, b2}
    Request = {q1, q2}
    ReservationId = {r1}
    Horizon = 2
    DayLength = 2
    Duration = {1}
    MaxCopies = 1
    OpeningHours <- Small
    Ops = {"create", "time", "services", "branch", "delete"}
    MovesCancelled = TRUE
    StepsFail = TRUE
    LastTick = 0
CHECK_DEADLOCK FALSE
SYMMETRY Symmetric
INVARIANTS
    TypeOK
    WithinOpeningHours
