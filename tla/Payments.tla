------------------------------ MODULE Payments ------------------------------
(***************************************************************************)
(* The payment service (PaymentsService): deposits paid at one of two      *)
(* gateways, withdrawals settled by a timer in memory, and refunds.  A     *)
(* deposit is recorded as completed by the client's verification or by the *)
(* gateway's webhook, which comes late, twice or again after a failure.    *)
(*                                                                         *)
(* As in Positions, a Handler is one request, webhook or timer in progress *)
(* and an action is the code up to and including its next call of the      *)
(* database or of a gateway; save() writes only the fields changed in      *)
(* memory.                                                                 *)
(*                                                                         *)
(* Abstractions: currencies, fees, descriptions and the ids a gateway      *)
(* gives are left out: what matters of an id is whether the transaction    *)
(* has it, which is what a verification or a webhook finds it by.          *)
(***************************************************************************)
EXTENDS Naturals, FiniteSets, Counting

CONSTANTS
    TransactionId,   \* the ids of the transactions collection (a bound)
    Handler,         \* requests, webhooks and timers in progress together
    Gateway,         \* the payment methods with a gateway that are in use
    MaxAmount,       \* the largest amount of a transaction (a bound)
    None             \* no document, no id, no status

Type == {"Deposit", "Withdrawal", "Refund"}

Method == Gateway \cup {"BankTransfer"}

Status == {"Pending", "Processing", "Completed", "Failed", "Refunded"}

\* found: the gateway's id of the order or payment intent is stored.
\* original: metadata.originalTransactionId of a refund.
TransactionDoc ==
    [type : Type, method : Method, status : Status, amount : 1..MaxAmount,
     found : BOOLEAN, original : TransactionId \cup {None}]

\* What the gateway knows of a deposit: whether it is paid, how much of it is
\* refunded, and whether the event of the payment is acknowledged.
Account == [order : BOOLEAN, paid : BOOLEAN, acked : BOOLEAN,
            refunded : 0..MaxAmount]

ASSUME PaymentsAssumption ==
    /\ Gateway \subseteq {"Razorpay", "Stripe"}
    /\ MaxAmount \in Nat
    /\ IsFiniteSet(TransactionId) /\ IsFiniteSet(Handler)
    /\ None \notin TransactionDoc \cup TransactionId \cup Status

VARIABLES
    transactions,   \* the transactions collection
    gateway,        \* the gateway's side of each deposit
    handlers        \* where each request in progress is and what it has read

vars == <<transactions, gateway, handlers>>

Stage == {"idle", "createOrder", "saveOrder", "retrieve", "saveStatus",
          "settle", "settleFailed", "gatewayRefund", "saveRefund",
          "markRefunded"}

HandlerState ==
    [at : Stage,                                 \* the call it makes next
     transaction : TransactionId \cup {None},    \* the transaction it is about
     read : Status \cup {None},                  \* the status it has read
     status : Status \cup {None},                \* the status it is to write
     amount : 0..MaxAmount,                      \* the amount it refunds
     webhook : BOOLEAN]                          \* whether the gateway waits

Idle == [at |-> "idle", transaction |-> None, read |-> None, status |-> None,
         amount |-> 0, webhook |-> FALSE]

TypeOK ==
    /\ transactions \in [TransactionId -> TransactionDoc \cup {None}]
    /\ gateway \in [TransactionId -> Account]
    /\ handlers \in [Handler -> HandlerState]

Init ==
    /\ transactions = [t \in TransactionId |-> None]
    /\ gateway = [t \in TransactionId |->
          [order |-> FALSE, paid |-> FALSE, acked |-> FALSE, refunded |-> 0]]
    /\ handlers = [h \in Handler |-> Idle]

Stored == {t \in TransactionId : transactions[t] # None}

Goto(h, state) == handlers' = [handlers EXCEPT ![h] = state]

\* A new document is inserted under an unused id.
Insert(t, doc) ==
    /\ t \notin Stored
    /\ transactions' = [transactions EXCEPT ![t] = doc]

-----------------------------------------------------------------------------
(* Deposits                                                                *)

\* createDeposit saves the transaction; a method with no gateway is refused
\* only then.
CreateDeposit(h, method, amount) ==
    /\ handlers[h].at = "idle"
    /\ \E t \in TransactionId :
          /\ Insert(t, [type |-> "Deposit", method |-> method,
                        status |-> "Pending", amount |-> amount,
                        found |-> FALSE, original |-> None])
          /\ Goto(h, IF method \in Gateway
                     THEN [Idle EXCEPT !.at = "createOrder", !.transaction = t]
                     ELSE Idle)
    /\ UNCHANGED gateway

\* createRazorpayOrder, createStripePaymentIntent: the gateway's order ...
CreateOrder(h) ==
    /\ handlers[h].at = "createOrder"
    /\ gateway' = [gateway EXCEPT ![handlers[h].transaction].order = TRUE]
    /\ Goto(h, [handlers[h] EXCEPT !.at = "saveOrder"])
    /\ UNCHANGED transactions

\* ... and its id in the transaction, which the client is then told.
SaveOrder(h) ==
    /\ handlers[h].at = "saveOrder"
    /\ transactions' = [transactions EXCEPT ![handlers[h].transaction].found = TRUE]
    /\ Goto(h, Idle)
    /\ UNCHANGED gateway

\* The client, who knows the order, pays at the gateway.
CustomerPays(t) ==
    /\ t \in Stored
    /\ transactions[t].found
    /\ ~gateway[t].paid
    /\ gateway' = [gateway EXCEPT ![t].paid = TRUE]
    /\ UNCHANGED <<transactions, handlers>>

\* verifyRazorpayPayment finds the transaction and checks the signature,
\* which only a payment at the gateway yields.
ReadToVerifyRazorpay(h, t, valid) ==
    /\ handlers[h].at = "idle"
    /\ t \in Stored
    /\ transactions[t].found /\ transactions[t].method = "Razorpay"
    /\ valid => gateway[t].paid
    /\ Goto(h, [Idle EXCEPT !.at = "saveStatus", !.transaction = t,
                            !.read = transactions[t].status,
                            !.status = IF valid THEN "Completed" ELSE "Failed"])
    /\ UNCHANGED <<transactions, gateway>>

\* verifyStripePayment finds the transaction ...
ReadToVerifyStripe(h, t) ==
    /\ handlers[h].at = "idle"
    /\ t \in Stored
    /\ transactions[t].found /\ transactions[t].method = "Stripe"
    /\ Goto(h, [Idle EXCEPT !.at = "retrieve", !.transaction = t,
                            !.read = transactions[t].status])
    /\ UNCHANGED <<transactions, gateway>>

\* Slip: the intent's status is not looked at.
RetrieveIntentAny(h) ==
    /\ handlers[h].at = "retrieve"
    /\ Goto(h, [handlers[h] EXCEPT !.at = "saveStatus", !.status = "Completed"])
    /\ UNCHANGED <<transactions, gateway>>

\* Slip: of a deposit that is not Pending any more the payment is refused.
RetrieveIntentOnce(h) ==
    LET paid == gateway[handlers[h].transaction].paid
    IN  /\ handlers[h].at = "retrieve"
        /\ Goto(h, [handlers[h] EXCEPT
                      !.at = "saveStatus",
                      !.status = IF paid /\ handlers[h].read = "Pending"
                                 THEN "Completed" ELSE "Failed"])
        /\ UNCHANGED <<transactions, gateway>>

\* ... and asks the gateway for the intent.
RetrieveIntent(h) ==
    LET paid == gateway[handlers[h].transaction].paid
    IN  /\ handlers[h].at = "retrieve"
        /\ Goto(h, [handlers[h] EXCEPT
                      !.at = "saveStatus",
                      !.status = IF paid THEN "Completed" ELSE "Failed"])
        /\ UNCHANGED <<transactions, gateway>>

\* The gateway reports a payment, as often as it likes; handleWebhook finds
\* the transaction.
ReadWebhook(h, t) ==
    /\ handlers[h].at = "idle"
    /\ gateway[t].paid
    /\ Goto(h, [Idle EXCEPT !.at = "saveStatus", !.transaction = t,
                            !.read = transactions[t].status,
                            !.status = "Completed", !.webhook = TRUE])
    /\ UNCHANGED <<transactions, gateway>>

\* Slip: the event is acknowledged, the status left for the next one.
SaveStatusOnlyAck(h) ==
    LET t == handlers[h].transaction
    IN  /\ handlers[h].at = "saveStatus"
        /\ transactions' = [transactions EXCEPT
              ![t].status = IF handlers[h].webhook THEN @ ELSE handlers[h].status]
        /\ gateway' = [gateway EXCEPT ![t].acked = @ \/ handlers[h].webhook]
        /\ Goto(h, Idle)

\* The verification or webhook saves the status; a webhook is acknowledged.
SaveStatus(h) ==
    LET t == handlers[h].transaction
        changed == handlers[h].status # handlers[h].read
    IN  /\ handlers[h].at = "saveStatus"
        /\ transactions' = [transactions EXCEPT
              ![t].status = IF changed THEN handlers[h].status ELSE @]
        /\ gateway' = [gateway EXCEPT ![t].acked = @ \/ handlers[h].webhook]
        /\ Goto(h, Idle)

-----------------------------------------------------------------------------
(* Withdrawals                                                             *)

\* createWithdrawal saves the transaction and starts a timer.
CreateWithdrawal(h, amount) ==
    /\ handlers[h].at = "idle"
    /\ \E t \in TransactionId :
          /\ Insert(t, [type |-> "Withdrawal", method |-> "BankTransfer",
                        status |-> "Processing", amount |-> amount,
                        found |-> FALSE, original |-> None])
          /\ Goto(h, [Idle EXCEPT !.at = "settle", !.transaction = t])
    /\ UNCHANGED gateway

\* processWithdrawal: the timer ends and the transaction is saved ...
SettleWithdrawal(h) ==
    /\ handlers[h].at = "settle"
    /\ transactions' = [transactions EXCEPT
                          ![handlers[h].transaction].status = "Completed"]
    /\ Goto(h, Idle)
    /\ UNCHANGED gateway

\* ... or the save rejects, and is tried once more with another status.
SettlingRejects(h) ==
    /\ handlers[h].at = "settle"
    /\ Goto(h, [handlers[h] EXCEPT !.at = "settleFailed"])
    /\ UNCHANGED <<transactions, gateway>>

FailWithdrawal(h) ==
    /\ handlers[h].at = "settleFailed"
    /\ transactions' = [transactions EXCEPT
                          ![handlers[h].transaction].status = "Failed"]
    /\ Goto(h, Idle)
    /\ UNCHANGED gateway

-----------------------------------------------------------------------------
(* Refunds                                                                 *)

\* Slip: one of the gateways is left out.
ReadToRefundNoStripe(h, t, amount) ==
    /\ handlers[h].at = "idle"
    /\ t \in Stored
    /\ transactions[t].status = "Completed"
    /\ amount <= transactions[t].amount
    /\ Goto(h, [Idle EXCEPT
                  !.at = IF transactions[t].method = "Razorpay"
                         THEN "gatewayRefund" ELSE "saveRefund",
                  !.transaction = t, !.amount = amount])
    /\ UNCHANGED <<transactions, gateway>>

\* createRefund reads the transaction, which may be a withdrawal or a refund.
ReadToRefund(h, t, amount) ==
    /\ handlers[h].at = "idle"
    /\ t \in Stored
    /\ transactions[t].status = "Completed"
    /\ amount <= transactions[t].amount
    /\ Goto(h, [Idle EXCEPT
                  !.at = IF transactions[t].method \in Gateway
                         THEN "gatewayRefund" ELSE "saveRefund",
                  !.transaction = t, !.amount = amount])
    /\ UNCHANGED <<transactions, gateway>>

\* The gateway refunds no more than was paid and not yet refunded.
GatewayRefund(h) ==
    LET t == handlers[h].transaction
        total == gateway[t].refunded + handlers[h].amount
    IN  /\ handlers[h].at = "gatewayRefund"
        /\ gateway[t].paid
        /\ total <= transactions[t].amount
        /\ gateway' = [gateway EXCEPT ![t].refunded = total]
        /\ Goto(h, [handlers[h] EXCEPT !.at = "saveRefund"])
        /\ UNCHANGED transactions

\* Slip: the save is not awaited, and its failure not noticed.
SaveRefundUnawaited(h) ==
    /\ handlers[h].at = "saveRefund"
    /\ Goto(h, [handlers[h] EXCEPT !.at = "markRefunded"])
    /\ UNCHANGED <<transactions, gateway>>

\* The refund is saved as a transaction of its own ...
SaveRefund(h) ==
    LET t == handlers[h].transaction
    IN  /\ handlers[h].at = "saveRefund"
        /\ \E r \in TransactionId :
              Insert(r, [type |-> "Refund", method |-> transactions[t].method,
                         status |-> "Completed", amount |-> handlers[h].amount,
                         found |-> FALSE, original |-> t])
        /\ Goto(h, [handlers[h] EXCEPT !.at = "markRefunded"])
        /\ UNCHANGED gateway

\* Slip: a status that is not one of the enumeration.
MarkRefundedMisspelt(h) ==
    /\ handlers[h].at = "markRefunded"
    /\ transactions' = [transactions EXCEPT
                          ![handlers[h].transaction].status = "Refund"]
    /\ Goto(h, Idle)
    /\ UNCHANGED gateway

\* ... and the original, fully refunded or not, is marked.
MarkRefunded(h) ==
    /\ handlers[h].at = "markRefunded"
    /\ transactions' = [transactions EXCEPT
                          ![handlers[h].transaction].status = "Refunded"]
    /\ Goto(h, Idle)
    /\ UNCHANGED gateway

\* A call rejects or the process dies, timers included.
Abort(h) ==
    /\ handlers[h].at # "idle"
    /\ Goto(h, Idle)
    /\ UNCHANGED <<transactions, gateway>>

-----------------------------------------------------------------------------
Request(h) ==
    \/ \E method \in Method, amount \in 1..MaxAmount : CreateDeposit(h, method, amount)
    \/ \E t \in TransactionId, valid \in BOOLEAN : ReadToVerifyRazorpay(h, t, valid)
    \/ \E t \in TransactionId : ReadToVerifyStripe(h, t)
    \/ \E amount \in 1..MaxAmount : CreateWithdrawal(h, amount)
    \/ \E t \in TransactionId, amount \in 1..MaxAmount : ReadToRefund(h, t, amount)

Continue(h) ==
    \/ CreateOrder(h) \/ SaveOrder(h)
    \/ RetrieveIntent(h) \/ SaveStatus(h)
    \/ SettleWithdrawal(h) \/ SettlingRejects(h) \/ FailWithdrawal(h)
    \/ GatewayRefund(h) \/ SaveRefund(h) \/ MarkRefunded(h)

Next ==
    \/ \E t \in TransactionId : CustomerPays(t)
    \/ \E h \in Handler, t \in TransactionId : ReadWebhook(h, t)
    \/ \E h \in Handler : Request(h) \/ Continue(h) \/ Abort(h)

Spec == Init /\ [][Next]_vars

\* The gateway reports a payment again until the report is acknowledged, and
\* not all of the reports fail.
Redelivery(t) ==
    /\ SF_vars(\E h \in Handler : ReadWebhook(h, t) /\ ~gateway[t].acked)
    /\ SF_vars(\E h \in Handler : /\ handlers[h].transaction = t
                                  /\ handlers[h].webhook
                                  /\ SaveStatus(h))

\* Every call a request makes is answered or rejected in the end.
FairSpec ==
    /\ Spec
    /\ \A h \in Handler : WF_vars(Continue(h) \/ Abort(h))
    /\ \A t \in TransactionId : Redelivery(t)

-----------------------------------------------------------------------------
(* Properties under any interleaving and any failure                       *)

Deposits == {t \in Stored : /\ transactions[t].type = "Deposit"
                            /\ transactions[t].method \in Gateway}

RefundsOf(t) == {r \in Stored : transactions[r].original = t}

AmountOf == [r \in Stored |-> transactions[r].amount]

\* A deposit is recorded as completed or refunded only if the gateway has the
\* money, whichever of verification and webhook came first or failed.
CompletedIsPaid ==
    \A t \in Deposits :
        transactions[t].status \in {"Completed", "Refunded"} => gateway[t].paid

\* The refunds recorded of a deposit add up to no more than the gateway has
\* refunded, hence to no more than was paid, although createRefund may run
\* twice at once, fail half-way and be called again after a late webhook has
\* set the status back to Completed.
RefundsAreBacked ==
    \A t \in Deposits : SumOver(AmountOf, RefundsOf(t)) <= gateway[t].refunded

\* A transaction is marked Refunded only once a refund of it is recorded.
RefundedHasRefund ==
    \A t \in Stored : transactions[t].status = "Refunded" => RefundsOf(t) # {}

\* A deposit is paid, and no report of that is in progress or acknowledged:
\* so it is from the payment to the first report.
Unreported(t) ==
    /\ t \in Deposits
    /\ gateway[t].paid /\ ~gateway[t].acked
    /\ \A h \in Handler : handlers[h].webhook => handlers[h].transaction # t

\* A payment is recorded after it was made (handleWebhook), whether the deposit
\* was Pending by then or Failed by an earlier verification, and although
\* reports of it fail.  For how long is not said: a verification that fails
\* later, or read the deposit earlier, may still save Failed over it, and a
\* report that is acknowledged does not come again.
PaidIsRecorded ==
    \A t \in TransactionId :
        Unreported(t) ~> (t \in Stored /\ transactions[t].status = "Completed")

\* At Stripe it is recorded for good, unless a verification was about to save
\* Failed when the customer paid: one that asks the gateway later is told of
\* the payment (verifyStripePayment).  At Razorpay any client may still bring a
\* signature that is not valid.
PaidStaysRecorded ==
    \A t \in TransactionId :
        (/\ Unreported(t) /\ transactions[t].method = "Stripe"
         /\ \A h \in Handler :
                handlers[h].transaction = t => handlers[h].status # "Failed")
            ~> [](t \in Stored /\ transactions[t].status \in {"Completed", "Refunded"})
=============================================================================
