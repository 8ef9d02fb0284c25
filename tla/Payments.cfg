\* Two requests or webhooks at a time, any failure, redelivered webhooks.
SPECIFICATION Spec
CONSTANTS
    TransactionId = {t1, t2, t3}
    Handler = {h1, h2}
    Gateway = {"Razorpay", "Stripe"}
    MaxAmount = 1
    None = None
SYMMETRY Symmetry
INVARIANTS TypeOK CompletedIsPaid RefundsAreBacked RefundedHasRefund
CHECK_DEADLOCK FALSE
