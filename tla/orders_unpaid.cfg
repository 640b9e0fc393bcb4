\* Two requests in flight: a stale save takes a payment back.
SPECIFICATION Spec
CONSTANTS
    q1 = q1
    q2 = q2
    None = None
    Request = {q1, q2}
    Sales = {"services", "sharableOffer", "coupon"}
    Ops = {"pay", "status", "assign", "method", "refund", "review", "receipt"}
    Asked = {"Pending", "InQueue", "Working", "Completed", "Reviewed",
             "Canceled", "Absent", "Refunded"}
    Price = 3
    Deposit = 1
    RefundAmount = {1, 3}
    StepsFail = FALSE
    MaxReceipts = 2
    MaxTransactions = 2
SYMMETRY Symmetric
PROPERTY
    PaidStaysPaid
