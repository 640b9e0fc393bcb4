\* One request at a time; any round trip may fail.
SPECIFICATION Spec
CONSTANTS
    s1 = s1
    s2 = s2
    s3 = s3
    s4 = s4
    r1 = r1
    r2 = r2
    r3 = r3
    None = None
    Request = {q1}
    Service = {s1, s2, s3, s4}
    OfferService = {s1, s2, s3}
    Gift = {s1, s2}
    BookingId = {r1, r2, r3}
    MaxRefunds = 2
    StepFails = TRUE
SYMMETRY Symmetric
CHECK_DEADLOCK FALSE
INVARIANTS
    TypeOK
    LeftOrUsed
    UsedUpIsRedeemed
    BookingsRecorded
PROPERTY
    NothingServedIsRefunded
