\* Two requests or webhooks at a time, any failure, redelivered webhooks.
SPECIFICATION FairSpec
CONSTANTS
    TransactionId = {t1, t2}
    Handler = {h1, h2}
    Gateway = {"Razorpay", "Stripe"}
    MaxAmount = 1
    None = None
PROPERTIES PaidIsRecorded PaidStaysRecorded
CHECK_DEADLOCK FALSE
