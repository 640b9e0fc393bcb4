\* Two requests in flight.
SPECIFICATION Spec
CONSTANTS
    q1 = q1
    q2 = q2
    None = None
    Request = {q1, q2}
    Sales = {"sharableOffer"}
    Ops = {"pay", "status", "receipt", "move"}
    Asked = {"Canceled"}
    Price = 3
    Deposit = 1
    RefundAmount = {1}
    StepsFail = FALSE
    MaxReceipts = 1
    MaxTransactions = 1
SYMMETRY Symmetric
INVARIANTS
    TypeOK
    ClosedHasNoReservation
    PaidInFull
