\* One request at a time; a cancelled coupon is booked with.
SPECIFICATION Spec
CONSTANTS
    s1 = s1
    s2 = s2
    s3 = s3
    s4 = s4
    r1 = r1
    r2 = r2
    r3 = r3
    None = None
    Request = {q1}
    Service = {s1, s2, s3, s4}
    OfferService = {s1, s2, s3}
    Gift = {s1, s2}
    BookingId = {r1, r2}
    MaxRefunds = 2
    StepFails = TRUE
CHECK_DEADLOCK FALSE
PROPERTY
    CanceledNotUsed
