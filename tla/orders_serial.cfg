\* One request at a time; any of its round trips may fail.
SPECIFICATION Spec
CONSTANTS
    q1 = q1
    q2 = q2
    None = None
    Request = {q1}
    Sales = {"services", "sharableOffer", "coupon"}
    Ops = {"pay", "status", "assign", "method", "refund", "review", "receipt", "move"}
    Asked = {"Pending", "InQueue", "Working", "Completed", "Reviewed",
             "Canceled", "Absent", "Refunded"}
    Price = 3
    Deposit = 1
    RefundAmount = {1, 3}
    StepsFail = TRUE
    MaxReceipts = 2
    MaxTransactions = 2
INVARIANT
    OneGiftCoupon
PROPERTY
    ImplementsWorkflow
