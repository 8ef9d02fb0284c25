-------------------------- MODULE Payments_proofs ---------------------------
(***************************************************************************)
(* Proofs about Payments, for any ids, handlers, gateways and amounts.     *)
(***************************************************************************)
EXTENDS Payments, Counting_proofs, TLAPS

(***************************************************************************)
(* The inductive invariant.  A verification, a webhook or a refund acts on *)
(* what it learned some calls ago; what no other request undoes is that    *)
(* the gateway was paid and that a refund is recorded.                     *)
(***************************************************************************)

Backed(t) == t \in Deposits => gateway[t].paid

\* What a handler in progress may rely on.
Held(h) ==
    LET t == handlers[h].transaction
        at == handlers[h].at
    IN  /\ at # "idle" => t \in Stored
        /\ at = "saveStatus" =>
              /\ handlers[h].status \in {"Completed", "Failed"}
              /\ handlers[h].status = "Completed" => Backed(t)
        /\ at \in {"settle", "settleFailed"} => transactions[t].type = "Withdrawal"
        /\ at \in {"gatewayRefund", "saveRefund"} => handlers[h].amount \in 1..MaxAmount
        /\ at \in {"saveRefund", "markRefunded"} => Backed(t)
        /\ at = "markRefunded" => RefundsOf(t) # {}

\* What is paid at a gateway is a transaction of the collection.
PaidStored == \A t \in TransactionId : gateway[t].paid => t \in Stored

IInv == /\ TypeOK
        /\ PaidStored
        /\ CompletedIsPaid
        /\ RefundedHasRefund
        /\ \A h \in Handler : Held(h)

LEMMA IdleType == Idle \in HandlerState
  BY PaymentsAssumption DEF Idle, HandlerState, Stage

LEMMA DocNotNone == \A d \in TransactionDoc : d # None
  BY PaymentsAssumption

LEMMA InitIInv == Init => IInv
<1> SUFFICES ASSUME Init PROVE IInv
  OBVIOUS
<1>1. gateway \in [TransactionId -> Account]
  <2>1. [order |-> FALSE, paid |-> FALSE, acked |-> FALSE, refunded |-> 0] \in Account
    BY PaymentsAssumption DEF Account
  <2>2. QED
    BY <2>1 DEF Init
<1>2. TypeOK
  BY <1>1, IdleType DEF Init, TypeOK
<1>3. Stored = {}
  BY DEF Init, Stored
<1>4. \A h \in Handler : handlers[h].at = "idle"
  BY DEF Init, Idle
<1>5. QED
  BY <1>2, <1>3, <1>4
     DEF IInv, CompletedIsPaid, RefundedHasRefund, Held, Deposits, PaidStored, Init

-----------------------------------------------------------------------------
(* What no step of the system undoes: a transaction stays, with what it is *)
(* about, and what was paid was paid.                                      *)

Grows ==
    /\ transactions' \in [TransactionId -> TransactionDoc \cup {None}]
    /\ \A t \in Stored : /\ t \in Stored'
                         /\ transactions'[t].type = transactions[t].type
                         /\ transactions'[t].method = transactions[t].method
                         /\ transactions'[t].original = transactions[t].original

\* The gateway only learns of payments, and of transactions it knows.
GatewayGrows ==
    /\ gateway' \in [TransactionId -> Account]
    /\ \A t \in TransactionId : gateway[t].paid => gateway'[t].paid
    /\ \A t \in TransactionId : gateway'[t].paid => t \in Stored

LEMMA BackedKept ==
    ASSUME Grows, GatewayGrows, NEW t, t \in Stored, Backed(t)
    PROVE  Backed(t)'
  BY DEF Grows, GatewayGrows, Backed, Deposits, Stored

LEMMA RefundsKept ==
    ASSUME Grows, NEW t PROVE RefundsOf(t) \subseteq RefundsOf(t)'
  BY DEF Grows, RefundsOf

LEMMA HeldKept ==
    ASSUME IInv, Grows, GatewayGrows, NEW h \in Handler, handlers'[h] = handlers[h]
    PROVE  Held(h)'
<1> DEFINE t == handlers[h].transaction
<1>1. Held(h)
  BY DEF IInv
<1>2. t \in Stored => /\ t \in Stored'
                      /\ transactions'[t].type = transactions[t].type
                      /\ Backed(t) => Backed(t)'
  BY BackedKept DEF Grows
<1>3. RefundsOf(t) # {} => RefundsOf(t)' # {}
  BY RefundsKept
<1>4. QED
  BY <1>1, <1>2, <1>3 DEF Held

\* A handler moves: the others may rely on what they relied on.
LEMMA StepIInv ==
    ASSUME IInv, NEW h \in Handler, NEW state \in HandlerState, Goto(h, state),
           Grows, GatewayGrows, CompletedIsPaid', RefundedHasRefund', Held(h)'
    PROVE  IInv'
<1>1. handlers'[h] = state /\ \A g \in Handler \ {h} : handlers'[g] = handlers[g]
  BY DEF Goto, IInv, TypeOK
<1>2. TypeOK'
  BY DEF Goto, IInv, TypeOK, Grows, GatewayGrows
<1>3. \A g \in Handler : Held(g)'
  BY <1>1, HeldKept
<1>4. PaidStored'
  BY DEF PaidStored, Grows, GatewayGrows
<1>5. QED
  BY <1>2, <1>3, <1>4 DEF IInv

LEMMA GoIdle ==
    ASSUME IInv, NEW h \in Handler, Goto(h, Idle) PROVE Held(h)'
  BY IdleType DEF Goto, IInv, TypeOK, Held, Idle

\* The collection is not written.
LEMMA SameTransactions ==
    ASSUME IInv, UNCHANGED transactions, GatewayGrows
    PROVE  Grows /\ CompletedIsPaid' /\ RefundedHasRefund'
<1>1. Grows
  BY DEF IInv, TypeOK, Grows, Stored
<1>2. Stored' = Stored /\ Deposits' = Deposits
  BY DEF Stored, Deposits
<1>3. CompletedIsPaid'
  BY <1>2 DEF IInv, CompletedIsPaid, GatewayGrows, Deposits, Stored
<1>4. RefundedHasRefund'
  BY <1>2 DEF IInv, RefundedHasRefund, RefundsOf
<1>5. QED
  BY <1>1, <1>3, <1>4

LEMMA SameGateway == ASSUME IInv, UNCHANGED gateway PROVE GatewayGrows
  BY DEF IInv, TypeOK, GatewayGrows, PaidStored

\* A document is inserted that is neither refunded nor a completed deposit.
LEMMA InsertKeeps ==
    ASSUME IInv, GatewayGrows, NEW t \in TransactionId, NEW doc \in TransactionDoc,
           Insert(t, doc), doc.status # "Refunded",
           doc.type = "Deposit" => doc.status \notin {"Completed", "Refunded"}
    PROVE  /\ Grows /\ CompletedIsPaid' /\ RefundedHasRefund'
           /\ Stored' = Stored \cup {t} /\ transactions'[t] = doc
<1>1. transactions' = [transactions EXCEPT ![t] = doc] /\ t \notin Stored
  BY DEF Insert
<1>2. /\ Stored' = Stored \cup {t} /\ transactions'[t] = doc
      /\ \A s \in Stored : transactions'[s] = transactions[s]
  BY <1>1, DocNotNone DEF IInv, TypeOK, Stored
<1>3. Grows
  BY <1>1, <1>2 DEF IInv, TypeOK, Grows
<1>4. CompletedIsPaid'
  BY <1>2 DEF IInv, CompletedIsPaid, Deposits, GatewayGrows, Stored
<1>5. RefundedHasRefund'
  BY <1>2, <1>3, RefundsKept DEF IInv, RefundedHasRefund
<1>6. QED
  BY <1>2, <1>3, <1>4, <1>5

\* The status of a transaction is written.
LEMMA UpdateKeeps ==
    ASSUME IInv, GatewayGrows, NEW t \in Stored, NEW status \in Status,
           transactions' = [transactions EXCEPT ![t].status = status],
           status \in {"Completed", "Refunded"} => Backed(t),
           status = "Refunded" => RefundsOf(t) # {}
    PROVE  Grows /\ CompletedIsPaid' /\ RefundedHasRefund'
<1> DEFINE doc == [transactions[t] EXCEPT !.status = status]
<1>1. /\ transactions \in [TransactionId -> TransactionDoc \cup {None}]
      /\ t \in TransactionId /\ transactions[t] \in TransactionDoc
  BY DEF IInv, TypeOK, Stored
<1>2. transactions' = [transactions EXCEPT ![t] = doc]
  BY <1>1 DEF TransactionDoc
<1>3. /\ doc \in TransactionDoc /\ doc.status = status
      /\ doc.type = transactions[t].type /\ doc.method = transactions[t].method
      /\ doc.original = transactions[t].original
  BY <1>1 DEF TransactionDoc
<1>4. doc # None
  BY <1>3, DocNotNone
<1> HIDE DEF doc
<1>5. /\ Stored' = Stored /\ transactions'[t] = doc
      /\ \A s \in Stored \ {t} : transactions'[s] = transactions[s]
  BY <1>1, <1>2, <1>4 DEF Stored
<1>6. Grows
  BY <1>1, <1>2, <1>3, <1>5 DEF Grows
<1>7. CompletedIsPaid'
  BY <1>3, <1>5 DEF IInv, CompletedIsPaid, Backed, Deposits, GatewayGrows, Stored
<1>8. RefundedHasRefund'
  BY <1>3, <1>5, <1>6, RefundsKept DEF IInv, RefundedHasRefund
<1>9. QED
  BY <1>6, <1>7, <1>8

-----------------------------------------------------------------------------
(* Deposits                                                                *)

LEMMA CreateDepositIInv ==
    ASSUME IInv, NEW h \in Handler, NEW method \in Method, NEW amount \in 1..MaxAmount,
           CreateDeposit(h, method, amount)
    PROVE  IInv'
<1> DEFINE doc == [type |-> "Deposit", method |-> method, status |-> "Pending",
                   amount |-> amount, found |-> FALSE, original |-> None]
<1>1. PICK t \in TransactionId :
          /\ Insert(t, doc)
          /\ Goto(h, IF method \in Gateway
                     THEN [Idle EXCEPT !.at = "createOrder", !.transaction = t]
                     ELSE Idle)
  BY DEF CreateDeposit
<1> DEFINE next == [Idle EXCEPT !.at = "createOrder", !.transaction = t]
<1>2. doc \in TransactionDoc /\ doc.status = "Pending" /\ doc.type = "Deposit"
  BY DEF TransactionDoc, Type, Status
<1> HIDE DEF doc
<1>3. GatewayGrows
  BY SameGateway DEF CreateDeposit
<1>4. /\ Grows /\ CompletedIsPaid' /\ RefundedHasRefund'
      /\ Stored' = Stored \cup {t}
  BY <1>1, <1>2, <1>3, InsertKeeps
<1>5. CASE Goto(h, Idle)
  BY <1>3, <1>4, <1>5, IdleType, GoIdle, StepIInv
<1>6. CASE Goto(h, next)
  <2>1. next \in HandlerState /\ next.at = "createOrder" /\ next.transaction = t
    BY IdleType DEF HandlerState, Idle, Stage
  <2>2. handlers'[h] = next
    BY <1>6 DEF Goto, IInv, TypeOK
  <2> HIDE DEF next
  <2>3. Held(h)'
    BY <1>4, <2>1, <2>2 DEF Held
  <2>4. QED
    BY <1>3, <1>4, <1>6, <2>1, <2>3, StepIInv
<1>7. QED
  BY <1>1, <1>5, <1>6

LEMMA CreateOrderIInv ==
    ASSUME IInv, NEW h \in Handler, CreateOrder(h) PROVE IInv'
<1> DEFINE t == handlers[h].transaction
           next == [handlers[h] EXCEPT !.at = "saveOrder"]
<1>1. /\ handlers[h] \in HandlerState /\ Held(h) /\ handlers[h].at = "createOrder"
      /\ gateway' = [gateway EXCEPT ![t].order = TRUE]
      /\ Goto(h, next) /\ UNCHANGED transactions
  BY DEF CreateOrder, IInv, TypeOK
<1>2. t \in Stored
  BY <1>1 DEF Held
<1>3. GatewayGrows
  BY <1>1 DEF IInv, TypeOK, GatewayGrows, Account, PaidStored
<1>4. next \in HandlerState /\ next.at = "saveOrder" /\ next.transaction = t
  BY <1>1 DEF HandlerState, Stage
<1>5. handlers'[h] = next /\ Stored' = Stored
  BY <1>1 DEF Goto, IInv, TypeOK, Stored
<1> HIDE DEF next
<1>6. Held(h)'
  BY <1>2, <1>4, <1>5 DEF Held
<1>7. QED
  BY <1>1, <1>3, <1>4, <1>6, SameTransactions, StepIInv

LEMMA SaveOrderIInv ==
    ASSUME IInv, NEW h \in Handler, SaveOrder(h) PROVE IInv'
<1> DEFINE t == handlers[h].transaction
           doc == [transactions[t] EXCEPT !.found = TRUE]
<1>1. /\ handlers[h] \in HandlerState /\ Held(h) /\ handlers[h].at = "saveOrder"
      /\ transactions \in [TransactionId -> TransactionDoc \cup {None}]
      /\ Goto(h, Idle) /\ UNCHANGED gateway
  BY DEF SaveOrder, IInv, TypeOK
<1>2. t \in Stored /\ t \in TransactionId /\ transactions[t] \in TransactionDoc
  BY <1>1 DEF Held, Stored
<1>3. transactions' = [transactions EXCEPT ![t] = doc]
  BY <1>1, <1>2 DEF SaveOrder, TransactionDoc
<1>4. /\ doc \in TransactionDoc /\ doc.status = transactions[t].status
      /\ doc.type = transactions[t].type /\ doc.method = transactions[t].method
      /\ doc.original = transactions[t].original
  BY <1>2 DEF TransactionDoc
<1>5. doc # None
  BY <1>4, DocNotNone
<1> HIDE DEF doc
<1>6. /\ Stored' = Stored /\ transactions'[t] = doc
      /\ \A s \in Stored \ {t} : transactions'[s] = transactions[s]
  BY <1>1, <1>2, <1>3, <1>5 DEF Stored
<1>7. Grows
  BY <1>1, <1>3, <1>4, <1>6 DEF Grows
<1>8. CompletedIsPaid'
  BY <1>1, <1>4, <1>6 DEF IInv, CompletedIsPaid, Deposits
<1>9. RefundedHasRefund'
  BY <1>4, <1>6, <1>7, RefundsKept DEF IInv, RefundedHasRefund
<1>10. QED
  BY <1>1, <1>7, <1>8, <1>9, IdleType, GoIdle, SameGateway, StepIInv

LEMMA CustomerPaysIInv ==
    ASSUME IInv, NEW t \in TransactionId, CustomerPays(t) PROVE IInv'
<1>1. GatewayGrows
  BY DEF CustomerPays, IInv, TypeOK, GatewayGrows, Account, PaidStored
<1>2. Grows /\ CompletedIsPaid' /\ RefundedHasRefund'
  BY <1>1, SameTransactions DEF CustomerPays
<1>3. TypeOK'
  BY <1>1 DEF CustomerPays, IInv, TypeOK, GatewayGrows
<1>4. \A h \in Handler : Held(h)'
  BY <1>1, <1>2, HeldKept DEF CustomerPays
<1>5. PaidStored'
  BY <1>1, <1>2 DEF PaidStored, Grows, GatewayGrows
<1>6. QED
  BY <1>2, <1>3, <1>4, <1>5 DEF IInv

\* A handler reads and goes on: nothing is written.
LEMMA ReadIInv ==
    ASSUME IInv, NEW h \in Handler, NEW state \in HandlerState, Goto(h, state),
           UNCHANGED <<transactions, gateway>>,
           state.transaction \in Stored,
           state.at \in {"retrieve", "gatewayRefund", "saveRefund", "saveStatus"},
           state.at = "saveStatus" => state.status \in {"Completed", "Failed"},
           state.at = "saveStatus" /\ state.status = "Completed"
              => Backed(state.transaction),
           state.at \in {"gatewayRefund", "saveRefund"} => state.amount \in 1..MaxAmount,
           state.at = "saveRefund" => Backed(state.transaction)
    PROVE  IInv'
<1>1. handlers'[h] = state
  BY DEF Goto, IInv, TypeOK
<1>2. Stored' = Stored /\ \A t : Backed(t)' <=> Backed(t)
  BY DEF Stored, Backed, Deposits
<1>3. Held(h)'
  BY <1>1, <1>2 DEF Held
<1>4. QED
  BY <1>3, SameGateway, SameTransactions, StepIInv

LEMMA ReadToVerifyRazorpayIInv ==
    ASSUME IInv, NEW h \in Handler, NEW t \in TransactionId, NEW valid \in BOOLEAN,
           ReadToVerifyRazorpay(h, t, valid)
    PROVE  IInv'
<1> DEFINE state == [Idle EXCEPT !.at = "saveStatus", !.transaction = t,
                            !.read = transactions[t].status,
                            !.status = IF valid THEN "Completed" ELSE "Failed"]
<1>1. /\ t \in Stored
      /\ valid => gateway[t].paid
      /\ Goto(h, state) /\ UNCHANGED <<transactions, gateway>>
  BY DEF ReadToVerifyRazorpay
<1>2. transactions[t].status \in Status
  BY <1>1 DEF IInv, TypeOK, Stored, TransactionDoc
<1>3. /\ state \in HandlerState /\ state.transaction = t /\ state.at = "saveStatus"
      /\ state.status \in {"Completed", "Failed"}
      /\ state.status = "Completed" => gateway[t].paid
  BY <1>1, <1>2, IdleType DEF HandlerState, Idle, Stage, Status
<1> HIDE DEF state
<1>4. QED
  BY <1>1, <1>3, ReadIInv DEF Backed

LEMMA ReadToVerifyStripeIInv ==
    ASSUME IInv, NEW h \in Handler, NEW t \in TransactionId, ReadToVerifyStripe(h, t)
    PROVE  IInv'
<1> DEFINE state == [Idle EXCEPT !.at = "retrieve", !.transaction = t,
                                 !.read = transactions[t].status]
<1>1. t \in Stored /\ Goto(h, state) /\ UNCHANGED <<transactions, gateway>>
  BY DEF ReadToVerifyStripe
<1>2. transactions[t].status \in Status
  BY <1>1 DEF IInv, TypeOK, Stored, TransactionDoc
<1>3. state \in HandlerState /\ state.transaction = t /\ state.at = "retrieve"
  BY <1>2, IdleType DEF HandlerState, Idle, Stage
<1> HIDE DEF state
<1>4. QED
  BY <1>1, <1>3, ReadIInv

LEMMA RetrieveIntentIInv ==
    ASSUME IInv, NEW h \in Handler, RetrieveIntent(h) PROVE IInv'
<1> DEFINE t == handlers[h].transaction
           state == [handlers[h] EXCEPT
                       !.at = "saveStatus",
                       !.status = IF gateway[t].paid THEN "Completed" ELSE "Failed"]
<1>1. /\ handlers[h] \in HandlerState /\ Held(h) /\ handlers[h].at = "retrieve"
      /\ Goto(h, state) /\ UNCHANGED <<transactions, gateway>>
  BY DEF RetrieveIntent, IInv, TypeOK
<1>2. /\ state \in HandlerState /\ state.transaction = t /\ state.at = "saveStatus"
      /\ state.status \in {"Completed", "Failed"}
      /\ state.status = "Completed" => gateway[t].paid
  BY <1>1 DEF HandlerState, Stage, Status
<1>3. t \in Stored
  BY <1>1 DEF Held
<1> HIDE DEF state
<1>4. QED
  BY <1>1, <1>2, <1>3, ReadIInv DEF Backed

LEMMA ReadWebhookIInv ==
    ASSUME IInv, NEW h \in Handler, NEW t \in TransactionId, ReadWebhook(h, t)
    PROVE  IInv'
<1> DEFINE state == [Idle EXCEPT !.at = "saveStatus", !.transaction = t,
                            !.read = transactions[t].status,
                            !.status = "Completed", !.webhook = TRUE]
<1>1. /\ gateway[t].paid /\ t \in Stored
      /\ Goto(h, state) /\ UNCHANGED <<transactions, gateway>>
  BY DEF ReadWebhook, IInv, PaidStored
<1>2. transactions[t].status \in Status
  BY <1>1 DEF IInv, TypeOK, Stored, TransactionDoc
<1>3. /\ state \in HandlerState /\ state.transaction = t /\ state.at = "saveStatus"
      /\ state.status = "Completed"
  BY <1>2, IdleType DEF HandlerState, Idle, Stage, Status
<1> HIDE DEF state
<1>4. QED
  BY <1>1, <1>3, ReadIInv DEF Backed

LEMMA SaveStatusIInv ==
    ASSUME IInv, NEW h \in Handler, SaveStatus(h) PROVE IInv'
<1> DEFINE t == handlers[h].transaction
           status == handlers[h].status
<1>1. /\ handlers[h] \in HandlerState /\ Held(h) /\ handlers[h].at = "saveStatus"
      /\ gateway' = [gateway EXCEPT ![t].acked = @ \/ handlers[h].webhook]
      /\ Goto(h, Idle)
      /\ transactions \in [TransactionId -> TransactionDoc \cup {None}]
  BY DEF SaveStatus, IInv, TypeOK
<1>2. /\ t \in Stored /\ t \in TransactionId /\ status \in {"Completed", "Failed"}
      /\ status = "Completed" => Backed(t)
      /\ transactions[t] \in TransactionDoc
  BY <1>1 DEF Held, Stored
<1>3. GatewayGrows
  <2>1. handlers[h].webhook \in BOOLEAN /\ gateway \in [TransactionId -> Account]
    BY <1>1 DEF HandlerState, IInv, TypeOK
  <2>2. QED
    BY <1>1, <2>1 DEF GatewayGrows, Account, IInv, PaidStored
<1>4. \/ transactions' = [transactions EXCEPT ![t].status = status]
      \/ transactions' = transactions
  BY <1>1, <1>2 DEF SaveStatus, TransactionDoc
<1>5. Grows /\ CompletedIsPaid' /\ RefundedHasRefund'
  BY <1>2, <1>3, <1>4, UpdateKeeps, SameTransactions DEF Status
<1>6. QED
  BY <1>1, <1>3, <1>5, IdleType, GoIdle, StepIInv

-----------------------------------------------------------------------------
(* Withdrawals                                                             *)

LEMMA CreateWithdrawalIInv ==
    ASSUME IInv, NEW h \in Handler, NEW amount \in 1..MaxAmount,
           CreateWithdrawal(h, amount)
    PROVE  IInv'
<1> DEFINE doc == [type |-> "Withdrawal", method |-> "BankTransfer",
                   status |-> "Processing", amount |-> amount, found |-> FALSE,
                   original |-> None]
<1>1. PICK t \in TransactionId :
          /\ Insert(t, doc)
          /\ Goto(h, [Idle EXCEPT !.at = "settle", !.transaction = t])
  BY DEF CreateWithdrawal
<1> DEFINE next == [Idle EXCEPT !.at = "settle", !.transaction = t]
<1>2. doc \in TransactionDoc /\ doc.status = "Processing" /\ doc.type = "Withdrawal"
  BY DEF TransactionDoc, Type, Status, Method
<1> HIDE DEF doc
<1>3. GatewayGrows
  BY SameGateway DEF CreateWithdrawal
<1>4. /\ Grows /\ CompletedIsPaid' /\ RefundedHasRefund'
      /\ Stored' = Stored \cup {t} /\ transactions'[t] = doc
  BY <1>1, <1>2, <1>3, InsertKeeps
<1>5. next \in HandlerState /\ next.at = "settle" /\ next.transaction = t
  BY IdleType DEF HandlerState, Idle, Stage
<1>6. handlers'[h] = next
  BY <1>1 DEF Goto, IInv, TypeOK
<1>7. Goto(h, next)
  BY <1>1
<1> HIDE DEF next
<1>8. Held(h)'
  BY <1>2, <1>4, <1>5, <1>6 DEF Held
<1>9. QED
  BY <1>3, <1>4, <1>5, <1>7, <1>8, StepIInv

\* The timer's two saves: of a withdrawal, which no gateway backs.
LEMMA SettleKeeps ==
    ASSUME IInv, NEW h \in Handler, handlers[h].at \in {"settle", "settleFailed"},
           NEW status \in {"Completed", "Failed"},
           transactions' = [transactions EXCEPT
                              ![handlers[h].transaction].status = status],
           Goto(h, Idle), UNCHANGED gateway
    PROVE  IInv'
<1> DEFINE t == handlers[h].transaction
<1>1. t \in Stored /\ transactions[t].type = "Withdrawal"
  BY DEF IInv, Held
<1>2. Backed(t)
  BY <1>1 DEF Backed, Deposits
<1>3. GatewayGrows
  BY SameGateway
<1>4. Grows /\ CompletedIsPaid' /\ RefundedHasRefund'
  BY <1>1, <1>2, <1>3, UpdateKeeps DEF Status
<1>5. QED
  BY <1>3, <1>4, IdleType, GoIdle, StepIInv

LEMMA SettlingRejectsIInv ==
    ASSUME IInv, NEW h \in Handler, SettlingRejects(h) PROVE IInv'
<1> DEFINE next == [handlers[h] EXCEPT !.at = "settleFailed"]
<1>1. /\ handlers[h] \in HandlerState /\ Held(h) /\ handlers[h].at = "settle"
      /\ Goto(h, next) /\ UNCHANGED <<transactions, gateway>>
  BY DEF SettlingRejects, IInv, TypeOK
<1>2. /\ next \in HandlerState /\ next.at = "settleFailed"
      /\ next.transaction = handlers[h].transaction
  BY <1>1 DEF HandlerState, Stage
<1>3. handlers'[h] = next /\ Stored' = Stored
  BY <1>1 DEF Goto, IInv, TypeOK, Stored
<1> HIDE DEF next
<1>4. Held(h)'
  BY <1>1, <1>2, <1>3 DEF Held
<1>5. QED
  BY <1>1, <1>2, <1>4, SameGateway, SameTransactions, StepIInv

-----------------------------------------------------------------------------
(* Refunds                                                                 *)

LEMMA ReadToRefundIInv ==
    ASSUME IInv, NEW h \in Handler, NEW t \in TransactionId, NEW amount \in 1..MaxAmount,
           ReadToRefund(h, t, amount)
    PROVE  IInv'
<1> DEFINE state == [Idle EXCEPT
                  !.at = IF transactions[t].method \in Gateway
                         THEN "gatewayRefund" ELSE "saveRefund",
                  !.transaction = t, !.amount = amount]
<1>1. t \in Stored /\ Goto(h, state) /\ UNCHANGED <<transactions, gateway>>
  BY DEF ReadToRefund
<1>2. amount \in 0..MaxAmount
  BY PaymentsAssumption
<1>3. /\ state \in HandlerState /\ state.transaction = t /\ state.amount = amount
      /\ state.at \in {"gatewayRefund", "saveRefund"}
      /\ state.at = "saveRefund" => transactions[t].method \notin Gateway
  BY <1>2, IdleType DEF HandlerState, Idle, Stage
<1> HIDE DEF state
<1>4. QED
  BY <1>1, <1>3, ReadIInv DEF Backed, Deposits

LEMMA GatewayRefundIInv ==
    ASSUME IInv, NEW h \in Handler, GatewayRefund(h) PROVE IInv'
<1> DEFINE t == handlers[h].transaction
           total == gateway[t].refunded + handlers[h].amount
           next == [handlers[h] EXCEPT !.at = "saveRefund"]
<1>1. /\ handlers[h] \in HandlerState /\ Held(h) /\ handlers[h].at = "gatewayRefund"
      /\ gateway \in [TransactionId -> Account] /\ gateway[t].paid
      /\ total <= transactions[t].amount
      /\ gateway' = [gateway EXCEPT ![t].refunded = total]
      /\ Goto(h, next) /\ UNCHANGED transactions
  BY DEF GatewayRefund, IInv, TypeOK
<1>2. t \in Stored /\ t \in TransactionId /\ handlers[h].amount \in 1..MaxAmount
  BY <1>1 DEF Held, Stored
<1>3. total \in 0..MaxAmount
  <2>1. transactions[t].amount \in 1..MaxAmount
    BY <1>2 DEF IInv, TypeOK, Stored, TransactionDoc
  <2>2. gateway[t].refunded \in 0..MaxAmount
    BY <1>1, <1>2 DEF Account
  <2>3. QED
    BY <1>1, <1>2, <2>1, <2>2, PaymentsAssumption
<1> HIDE DEF total
<1>4. GatewayGrows
  BY <1>1, <1>3 DEF GatewayGrows, Account, IInv, PaidStored
<1>5. /\ next \in HandlerState /\ next.at = "saveRefund" /\ next.transaction = t
      /\ next.amount = handlers[h].amount
  BY <1>1 DEF HandlerState, Stage
<1>6. handlers'[h] = next /\ Stored' = Stored /\ gateway'[t].paid
  BY <1>1, <1>2, <1>4 DEF Goto, IInv, TypeOK, Stored, GatewayGrows
<1> HIDE DEF next
<1>7. Held(h)'
  BY <1>2, <1>5, <1>6 DEF Held, Backed
<1>8. QED
  BY <1>1, <1>4, <1>5, <1>7, SameTransactions, StepIInv

LEMMA SaveRefundIInv ==
    ASSUME IInv, NEW h \in Handler, SaveRefund(h) PROVE IInv'
<1> DEFINE next == [handlers[h] EXCEPT !.at = "markRefunded"]
<1>1. /\ handlers[h] \in HandlerState /\ Held(h) /\ handlers[h].at = "saveRefund"
      /\ Goto(h, next) /\ UNCHANGED gateway
  BY DEF SaveRefund, IInv, TypeOK
<1>2. PICK t \in TransactionId :
          t = handlers[h].transaction /\ t \in Stored /\ Backed(t)
  BY <1>1 DEF Held, Stored
<1> DEFINE doc == [type |-> "Refund", method |-> transactions[t].method,
                   status |-> "Completed", amount |-> handlers[h].amount,
                   found |-> FALSE, original |-> t]
<1>3. PICK r \in TransactionId : Insert(r, doc)
  BY <1>2 DEF SaveRefund
<1>4. transactions[t].method \in Method /\ handlers[h].amount \in 1..MaxAmount
  BY <1>1, <1>2 DEF IInv, TypeOK, Stored, TransactionDoc, Held
<1>5. /\ doc \in TransactionDoc /\ doc.status = "Completed" /\ doc.type = "Refund"
      /\ doc.original = t
  BY <1>4 DEF TransactionDoc, Type, Status
<1> HIDE DEF doc
<1>6. GatewayGrows
  BY <1>1, SameGateway
<1>7. /\ Grows /\ CompletedIsPaid' /\ RefundedHasRefund'
      /\ Stored' = Stored \cup {r} /\ transactions'[r] = doc
  BY <1>3, <1>5, <1>6, InsertKeeps
<1>8. next \in HandlerState /\ next.at = "markRefunded" /\ next.transaction = t
  BY <1>1, <1>2 DEF HandlerState, Stage
<1>9. handlers'[h] = next
  BY <1>1 DEF Goto, IInv, TypeOK
<1>10. Backed(t)'
  BY <1>2, <1>6, <1>7, BackedKept
<1>11. r \in RefundsOf(t)'
  BY <1>5, <1>7 DEF RefundsOf
<1>12. t \in Stored'
  BY <1>2, <1>7
<1> HIDE DEF next
<1>13. Held(h)'
  BY <1>8, <1>9, <1>10, <1>11, <1>12 DEF Held
<1>14. QED
  BY <1>1, <1>6, <1>7, <1>8, <1>13, StepIInv

LEMMA MarkRefundedIInv ==
    ASSUME IInv, NEW h \in Handler, MarkRefunded(h) PROVE IInv'
<1> DEFINE t == handlers[h].transaction
<1>1. /\ Held(h) /\ handlers[h].at = "markRefunded"
      /\ transactions' = [transactions EXCEPT ![t].status = "Refunded"]
      /\ Goto(h, Idle) /\ UNCHANGED gateway
  BY DEF MarkRefunded, IInv
<1>2. t \in Stored /\ Backed(t) /\ RefundsOf(t) # {}
  BY <1>1 DEF Held
<1>3. GatewayGrows
  BY <1>1, SameGateway
<1>4. Grows /\ CompletedIsPaid' /\ RefundedHasRefund'
  BY <1>1, <1>2, <1>3, UpdateKeeps DEF Status
<1>5. QED
  BY <1>1, <1>3, <1>4, IdleType, GoIdle, StepIInv

LEMMA AbortIInv ==
    ASSUME IInv, NEW h \in Handler, Abort(h) PROVE IInv'
  BY IdleType, GoIdle, SameGateway, SameTransactions, StepIInv DEF Abort

-----------------------------------------------------------------------------
LEMMA NextIInv == IInv /\ [Next]_vars => IInv'
<1> SUFFICES ASSUME IInv, [Next]_vars PROVE IInv'
  OBVIOUS
<1>1. ASSUME NEW t \in TransactionId, CustomerPays(t) PROVE IInv'
  BY <1>1, CustomerPaysIInv
<1>2. ASSUME NEW h \in Handler, NEW t \in TransactionId, ReadWebhook(h, t)
      PROVE  IInv'
  BY <1>2, ReadWebhookIInv
<1>3. ASSUME NEW h \in Handler, Request(h) PROVE IInv'
  BY <1>3, CreateDepositIInv, ReadToVerifyRazorpayIInv, ReadToVerifyStripeIInv,
     CreateWithdrawalIInv, ReadToRefundIInv DEF Request
<1>4. ASSUME NEW h \in Handler, Continue(h) PROVE IInv'
  <2>1. CASE SettleWithdrawal(h)
    BY <2>1, SettleKeeps DEF SettleWithdrawal
  <2>2. CASE FailWithdrawal(h)
    BY <2>2, SettleKeeps DEF FailWithdrawal
  <2>3. QED
    BY <1>4, <2>1, <2>2, CreateOrderIInv, SaveOrderIInv, RetrieveIntentIInv,
       SaveStatusIInv, SettlingRejectsIInv, GatewayRefundIInv, SaveRefundIInv,
       MarkRefundedIInv DEF Continue
<1>5. ASSUME NEW h \in Handler, Abort(h) PROVE IInv'
  BY <1>5, AbortIInv
<1>6. CASE UNCHANGED vars
  <2>1. Grows /\ GatewayGrows /\ CompletedIsPaid' /\ RefundedHasRefund'
    BY <1>6, SameGateway, SameTransactions DEF vars
  <2>2. TypeOK' /\ PaidStored'
    BY <1>6 DEF vars, IInv, TypeOK, PaidStored, Stored
  <2>3. \A h \in Handler : Held(h)'
    BY <1>6, <2>1, HeldKept DEF vars
  <2>4. QED
    BY <2>1, <2>2, <2>3 DEF IInv
<1>7. QED
  BY <1>1, <1>2, <1>3, <1>4, <1>5, <1>6 DEF Next

-----------------------------------------------------------------------------
(* What is refunded.  Between the gateway's refund and its record the      *)
(* amount is in the hands of a request, which may drop it.                 *)

\* The refunds of t that a request is about to record.
OnTheWay(t) ==
    {h \in Handler : handlers[h].at = "saveRefund" /\ handlers[h].transaction = t}

HeldAmount == [h \in Handler |-> handlers[h].amount]

\* What the two add up to.
Recorded(t) == SumOver(AmountOf, RefundsOf(t))

Unrecorded(t) == SumOver(HeldAmount, OnTheWay(t))

BackedSoFar(t) == Recorded(t) + Unrecorded(t) <= gateway[t].refunded

\* The refunds on record and those on their way add up to no more than the
\* gateway has refunded.
RefundsInv ==
    /\ \A r \in Stored : transactions[r].original \in Stored \cup {None}
    /\ \A t \in Deposits : BackedSoFar(t)

\* The sums are natural numbers.
LEMMA RefundSums ==
    ASSUME IInv, NEW t
    PROVE  /\ NatsOn(AmountOf, RefundsOf(t))
           /\ NatsOn(HeldAmount, OnTheWay(t))
           /\ Recorded(t) \in Nat
           /\ Unrecorded(t) \in Nat
<1>1. NatsOn(AmountOf, RefundsOf(t))
  <2>1. IsFiniteSet(RefundsOf(t))
    BY FS_Subset, PaymentsAssumption DEF RefundsOf, Stored
  <2>2. ASSUME NEW r \in RefundsOf(t) PROVE AmountOf[r] \in Nat
    <3>1. r \in Stored /\ transactions[r] \in TransactionDoc
      BY DEF RefundsOf, Stored, IInv, TypeOK
    <3>2. transactions[r].amount \in Nat
      BY <3>1, PaymentsAssumption DEF TransactionDoc
    <3>3. QED
      BY <3>1, <3>2 DEF AmountOf
  <2>3. QED
    BY <2>1, <2>2 DEF NatsOn
<1>2. NatsOn(HeldAmount, OnTheWay(t))
  <2>1. IsFiniteSet(OnTheWay(t))
    BY FS_Subset, PaymentsAssumption DEF OnTheWay
  <2>2. \A h \in Handler : handlers[h].amount \in Nat
    BY PaymentsAssumption DEF IInv, TypeOK, HandlerState
  <2>3. QED
    BY <2>1, <2>2 DEF NatsOn, HeldAmount, OnTheWay
<1>3. QED
  BY <1>1, <1>2, SumType DEF Recorded, Unrecorded

\* The same refunds with the same amounts are on record.
LEMMA RecordedSame ==
    ASSUME NEW t, RefundsOf(t)' = RefundsOf(t),
           \A r \in RefundsOf(t) : transactions'[r].amount = transactions[r].amount
    PROVE  Recorded(t)' = Recorded(t)
<1>1. \A r \in RefundsOf(t) : AmountOf'[r] = AmountOf[r]
  BY DEF AmountOf, RefundsOf
<1>2. QED
  BY <1>1, SumSame DEF Recorded

\* A request that moves takes what it holds with it, or lets go of it.
LEMMA WayMoves ==
    ASSUME IInv, NEW h \in Handler, NEW state, Goto(h, state), NEW t
    PROVE  /\ \A g \in Handler \ {h} : HeldAmount'[g] = HeldAmount[g]
           /\ HeldAmount'[h] = state.amount
           /\ OnTheWay(t)' = IF state.at = "saveRefund" /\ state.transaction = t
                             THEN OnTheWay(t) \cup {h} ELSE OnTheWay(t) \ {h}
<1>1. handlers'[h] = state /\ \A g \in Handler \ {h} : handlers'[g] = handlers[g]
  BY DEF Goto, IInv, TypeOK
<1>2. QED
  BY <1>1 DEF HeldAmount, OnTheWay

LEMMA LetsGo ==
    ASSUME IInv, NEW h \in Handler, NEW state, Goto(h, state), NEW t,
           state.at # "saveRefund" \/ state.transaction # t
    PROVE  /\ Unrecorded(t)' <= Unrecorded(t)
           /\ h \in OnTheWay(t) =>
                 Unrecorded(t)' = Unrecorded(t) - handlers[h].amount
<1> DEFINE S == OnTheWay(t)
           f == HeldAmount
<1>1. OnTheWay(t)' = S \ {h} /\ \A g \in S \ {h} : HeldAmount'[g] = f[g]
  BY WayMoves DEF OnTheWay
<1>2. Unrecorded(t)' = SumOver(f, S \ {h})
  BY <1>1, SumSame DEF Unrecorded
<1>3. NatsOn(f, S)
  BY RefundSums
<1>4. SumOver(f, S \ {h}) <= SumOver(f, S)
  BY <1>3, SumOfFewer
<1>5. h \in S => SumOver(f, S \ {h}) = SumOver(f, S) - handlers[h].amount
  BY <1>3, SumRemove DEF HeldAmount
<1>6. QED
  BY <1>2, <1>4, <1>5 DEF Unrecorded

LEMMA TakesUp ==
    ASSUME IInv, NEW h \in Handler, NEW state, Goto(h, state), NEW t,
           state.at = "saveRefund", state.transaction = t, state.amount \in Nat,
           handlers[h].at # "saveRefund"
    PROVE  Unrecorded(t)' = Unrecorded(t) + state.amount
<1> DEFINE S == OnTheWay(t)
           f == HeldAmount
           g == [i \in Handler |-> IF i = h THEN state.amount ELSE f[i]]
<1>1. h \notin S /\ S \subseteq Handler
  BY DEF OnTheWay
<1>2. OnTheWay(t)' = S \cup {h} /\ \A i \in S \cup {h} : HeldAmount'[i] = g[i]
  BY <1>1, WayMoves
<1>3. Unrecorded(t)' = SumOver(g, S \cup {h})
  BY <1>2, SumSame DEF Unrecorded
<1>4. \A i \in S : g[i] = f[i]
  BY <1>1
<1>5. NatsOn(f, S) /\ NatsOn(g, S) /\ g[h] \in Nat
  BY <1>4, RefundSums DEF NatsOn
<1> HIDE DEF g, S, f
<1>6. SumOver(g, S \cup {h}) = SumOver(g, S) + g[h]
  BY <1>1, <1>5, SumAdd
<1>7. SumOver(g, S) = SumOver(f, S)
  BY <1>4, SumSame
<1>8. QED
  BY <1>3, <1>6, <1>7 DEF Unrecorded, g, S, f

\* No transaction comes or changes what it is about.
RecordsKept ==
    /\ Stored' = Stored
    /\ \A r \in Stored : /\ transactions'[r].type = transactions[r].type
                         /\ transactions'[r].method = transactions[r].method
                         /\ transactions'[r].amount = transactions[r].amount
                         /\ transactions'[r].original = transactions[r].original

LEMMA RecordsKeep ==
    ASSUME RecordsKept, RefundsInv
    PROVE  /\ Deposits' = Deposits
           /\ \A t : Recorded(t)' = Recorded(t)
           /\ \A r \in Stored' : transactions'[r].original \in Stored' \cup {None}
<1>1. ASSUME NEW t PROVE Recorded(t)' = Recorded(t)
  <2>1. RefundsOf(t)' = RefundsOf(t)
    BY DEF RecordsKept, RefundsOf
  <2>2. \A r \in RefundsOf(t) : transactions'[r].amount = transactions[r].amount
    BY DEF RecordsKept, RefundsOf
  <2>3. QED
    BY <2>1, <2>2, RecordedSame
<1>2. QED
  BY <1>1 DEF RecordsKept, Deposits, RefundsInv

\* An update of one field, which is not one of these.
LEMMA FieldUpdated ==
    ASSUME IInv, NEW t \in Stored, NEW doc,
           transactions' = [transactions EXCEPT ![t] = doc],
           doc \in TransactionDoc,
           doc.type = transactions[t].type, doc.method = transactions[t].method,
           doc.amount = transactions[t].amount,
           doc.original = transactions[t].original
    PROVE  RecordsKept
<1>1. /\ transactions'[t] = doc /\ doc # None
      /\ \A s \in TransactionId \ {t} : transactions'[s] = transactions[s]
  BY DocNotNone DEF IInv, TypeOK, Stored
<1>2. QED
  BY <1>1 DEF RecordsKept, Stored

LEMMA StatusUpdated ==
    ASSUME IInv, NEW t \in Stored, NEW status \in Status,
           transactions' = [transactions EXCEPT ![t].status = status]
    PROVE  RecordsKept
<1> DEFINE doc == [transactions[t] EXCEPT !.status = status]
<1>1. transactions[t] \in TransactionDoc
  BY DEF IInv, TypeOK, Stored
<1>2. /\ doc \in TransactionDoc
      /\ doc.type = transactions[t].type /\ doc.method = transactions[t].method
      /\ doc.amount = transactions[t].amount
      /\ doc.original = transactions[t].original
  BY <1>1 DEF TransactionDoc
<1>3. transactions' = [transactions EXCEPT ![t] = doc]
  BY <1>1 DEF TransactionDoc
<1> HIDE DEF doc
<1>4. QED
  BY <1>2, <1>3, FieldUpdated

\* What is recorded and what is on its way do not outgrow the gateway.
LEMMA StaysBacked ==
    ASSUME IInv, IInv', NEW t \in TransactionId, BackedSoFar(t),
           Recorded(t)' = Recorded(t), Unrecorded(t)' <= Unrecorded(t),
           Unrecorded(t)' \in Nat, gateway'[t].refunded >= gateway[t].refunded
    PROVE  BackedSoFar(t)'
<1>1. gateway[t].refunded \in Nat /\ gateway'[t].refunded \in Nat
  BY PaymentsAssumption DEF IInv, TypeOK, Account
<1>2. Recorded(t) \in Nat /\ Unrecorded(t) \in Nat
  BY RefundSums
<1>3. QED
  BY <1>1, <1>2 DEF BackedSoFar

LEMMA UnrecordedType == IInv' => \A t : Unrecorded(t)' \in Nat
<1> SUFFICES ASSUME IInv', NEW t PROVE Unrecorded(t)' \in Nat
  OBVIOUS
<1>1. IsFiniteSet(OnTheWay(t)')
  BY FS_Subset, PaymentsAssumption DEF OnTheWay
<1>2. \A h \in Handler : HeldAmount'[h] \in Nat
  BY PaymentsAssumption DEF IInv, TypeOK, HandlerState, HeldAmount
<1>3. NatsOn(HeldAmount', OnTheWay(t)')
  BY <1>1, <1>2 DEF NatsOn, OnTheWay
<1>4. QED
  BY <1>3, SumType DEF Unrecorded

\* A request moves, and takes up the refund of no deposit.
LEMMA MovesOn ==
    ASSUME IInv, IInv', RefundsInv, RecordsKept, NEW h \in Handler, NEW state,
           Goto(h, state),
           state.at # "saveRefund" \/ state.transaction \notin Deposits,
           \A t \in TransactionId : gateway'[t].refunded >= gateway[t].refunded
    PROVE  RefundsInv'
<1>1. ASSUME NEW t \in Deposits PROVE BackedSoFar(t)'
  <2>1. Unrecorded(t)' <= Unrecorded(t)
    BY LetsGo
  <2>2. t \in TransactionId /\ BackedSoFar(t)
    BY DEF RefundsInv, Deposits, Stored
  <2>3. QED
    BY <2>1, <2>2, RecordsKeep, StaysBacked, UnrecordedType
<1>2. QED
  BY <1>1, RecordsKeep DEF RefundsInv

LEMMA SameRefunded ==
    ASSUME IInv, UNCHANGED gateway
    PROVE  \A t \in TransactionId : gateway'[t].refunded >= gateway[t].refunded
<1>1. \A t \in TransactionId : gateway[t].refunded \in Int
  BY PaymentsAssumption DEF IInv, TypeOK, Account
<1>2. QED
  BY <1>1

LEMMA SameRecords == ASSUME UNCHANGED transactions PROVE RecordsKept
  BY DEF RecordsKept, Stored

LEMMA IdleAt == Idle.at = "idle"
  BY DEF Idle

\* A transaction is created that refunds nothing: none on record or on its way
\* is about it.
LEMMA CreationRefunds ==
    ASSUME IInv, IInv', RefundsInv, NEW t \in TransactionId,
           NEW doc \in TransactionDoc, Insert(t, doc), doc.original = None,
           NEW h \in Handler, NEW state, Goto(h, state), state.at # "saveRefund",
           UNCHANGED gateway
    PROVE  RefundsInv'
<1>1. /\ transactions' = [transactions EXCEPT ![t] = doc] /\ t \notin Stored
      /\ doc # None
  BY DocNotNone DEF Insert
<1>2. /\ Stored' = Stored \cup {t} /\ transactions'[t] = doc
      /\ \A s \in TransactionId \ {t} : transactions'[s] = transactions[s]
  BY <1>1 DEF IInv, TypeOK, Stored
<1>3. \A r \in Stored' : transactions'[r].original \in Stored' \cup {None}
  BY <1>1, <1>2 DEF RefundsInv, Stored
<1>4. ASSUME NEW u \in TransactionId PROVE Recorded(u)' = Recorded(u)
  <2>1. u # None
    BY PaymentsAssumption
  <2>2. RefundsOf(u)' = RefundsOf(u)
    BY <1>1, <1>2, <2>1 DEF RefundsOf, Stored
  <2>3. \A r \in RefundsOf(u) : transactions'[r].amount = transactions[r].amount
    BY <1>1, <1>2 DEF RefundsOf, Stored
  <2>4. QED
    BY <2>2, <2>3, RecordedSame
<1>5. ASSUME NEW u \in Deposits', u # t PROVE BackedSoFar(u)'
  <2>1. u \in TransactionId /\ u \in Deposits /\ BackedSoFar(u)
    BY <1>2, <1>5 DEF Deposits, Stored, RefundsInv
  <2>2. Unrecorded(u)' <= Unrecorded(u)
    BY LetsGo
  <2>3. QED
    BY <1>4, <2>1, <2>2, SameRefunded, StaysBacked, UnrecordedType
<1>6. BackedSoFar(t)'
  <2>1. RefundsOf(t) = {}
    BY <1>1, PaymentsAssumption DEF RefundsInv, RefundsOf, Stored
  <2>2. OnTheWay(t) = {}
    BY <1>1 DEF OnTheWay, IInv, Held
  <2>3. Recorded(t) = 0 /\ Unrecorded(t) = 0
    BY <2>1, <2>2, SumOfNone DEF Recorded, Unrecorded
  <2>4. gateway[t].refunded \in Nat
    BY PaymentsAssumption DEF IInv, TypeOK, Account
  <2>5. BackedSoFar(t)
    BY <2>3, <2>4 DEF BackedSoFar
  <2>6. Unrecorded(t)' <= Unrecorded(t)
    BY LetsGo
  <2>7. QED
    BY <1>4, <2>5, <2>6, SameRefunded, StaysBacked, UnrecordedType
<1>7. QED
  BY <1>3, <1>5, <1>6 DEF RefundsInv

LEMMA GatewayRefundRefunds ==
    ASSUME IInv, IInv', RefundsInv, NEW h \in Handler, GatewayRefund(h)
    PROVE  RefundsInv'
<1> DEFINE state == [handlers[h] EXCEPT !.at = "saveRefund"]
<1>1. handlers[h] \in HandlerState /\ Held(h)
  BY DEF IInv, TypeOK
<1>2. /\ handlers[h].at = "gatewayRefund" /\ UNCHANGED transactions
      /\ Goto(h, state)
  BY DEF GatewayRefund
<1>3. PICK t \in TransactionId : t = handlers[h].transaction
  BY <1>1, <1>2 DEF Held, Stored
<1>4. PICK amount \in Nat : amount = handlers[h].amount
  BY <1>1, PaymentsAssumption DEF HandlerState
<1>5. gateway' = [gateway EXCEPT ![t].refunded = gateway[t].refunded + amount]
  BY <1>3, <1>4 DEF GatewayRefund
<1>6. state.at = "saveRefund" /\ state.transaction = t /\ state.amount = amount
  BY <1>1, <1>3, <1>4 DEF HandlerState
<1> HIDE DEF state
<1>7. \A u \in TransactionId : gateway[u].refunded \in Nat
  BY PaymentsAssumption DEF IInv, TypeOK, Account
<1>8. \A u \in TransactionId :
          gateway'[u].refunded = IF u = t THEN gateway[t].refunded + amount
                                          ELSE gateway[u].refunded
  BY <1>5 DEF IInv, TypeOK, Account
<1>9. RecordsKept
  BY <1>2, SameRecords
<1>10. ASSUME NEW u \in Deposits PROVE BackedSoFar(u)'
  <2>1. u \in TransactionId /\ BackedSoFar(u) /\ Recorded(u)' = Recorded(u)
    BY <1>9, RecordsKeep DEF RefundsInv, Deposits, Stored
  <2>2. CASE u = t
    <3>1. Unrecorded(t)' = Unrecorded(t) + amount
      BY <1>2, <1>6, TakesUp
    <3>2. Recorded(t) \in Nat /\ Unrecorded(t) \in Nat
      BY RefundSums
    <3>3. QED
      BY <1>7, <1>8, <2>1, <2>2, <3>1, <3>2 DEF BackedSoFar
  <2>3. CASE u # t
    <3>1. Unrecorded(u)' <= Unrecorded(u)
      BY <1>2, <1>6, <2>3, LetsGo
    <3>2. gateway'[u].refunded >= gateway[u].refunded
      BY <1>7, <1>8, <2>1, <2>3
    <3>3. QED
      BY <2>1, <3>1, <3>2, StaysBacked, UnrecordedType
  <2>4. QED
    BY <2>2, <2>3
<1>11. QED
  BY <1>9, <1>10, RecordsKeep DEF RefundsInv

LEMMA SaveRefundRefunds ==
    ASSUME IInv, IInv', RefundsInv, NEW h \in Handler, SaveRefund(h)
    PROVE  RefundsInv'
<1> DEFINE state == [handlers[h] EXCEPT !.at = "markRefunded"]
<1>1. handlers[h] \in HandlerState /\ Held(h)
  BY DEF IInv, TypeOK
<1>2. handlers[h].at = "saveRefund" /\ UNCHANGED gateway /\ Goto(h, state)
  BY DEF SaveRefund
<1>3. PICK t \in TransactionId : t = handlers[h].transaction /\ t \in Stored
  BY <1>1, <1>2 DEF Held, Stored
<1>4. PICK amount \in 1..MaxAmount : amount = handlers[h].amount
  BY <1>1, <1>2 DEF Held
<1> DEFINE doc == [type |-> "Refund", method |-> transactions[t].method,
                   status |-> "Completed", amount |-> amount,
                   found |-> FALSE, original |-> t]
<1>5. PICK r \in TransactionId : Insert(r, doc)
  BY <1>3, <1>4 DEF SaveRefund
<1>6. /\ doc \in TransactionDoc /\ doc.type = "Refund" /\ doc.amount = amount
      /\ doc.original = t
  BY <1>3, <1>4 DEF TransactionDoc, Type, Status, IInv, TypeOK, Stored
<1>7. state.at = "markRefunded"
  BY <1>1 DEF HandlerState
<1> HIDE DEF doc, state
<1>8. /\ transactions' = [transactions EXCEPT ![r] = doc] /\ r \notin Stored
      /\ doc # None
  BY <1>5, <1>6, DocNotNone DEF Insert
<1>9. /\ Stored' = Stored \cup {r} /\ transactions'[r] = doc
      /\ \A s \in TransactionId \ {r} : transactions'[s] = transactions[s]
  BY <1>8 DEF IInv, TypeOK, Stored
<1>10. \A s \in Stored' : transactions'[s].original \in Stored' \cup {None}
  BY <1>3, <1>6, <1>8, <1>9 DEF RefundsInv, Stored
<1>11. ASSUME NEW u \in Deposits' PROVE BackedSoFar(u)'
  <2>1. u # r
    BY <1>6, <1>9 DEF Deposits
  <2>2. u \in TransactionId /\ u \in Deposits /\ BackedSoFar(u)
    BY <1>9, <2>1 DEF Deposits, Stored, RefundsInv
  <2>3. CASE u # t
    <3>1. RefundsOf(u)' = RefundsOf(u)
      BY <1>6, <1>8, <1>9, <2>3 DEF RefundsOf, Stored
    <3>2. \A s \in RefundsOf(u) : transactions'[s].amount = transactions[s].amount
      BY <1>8, <1>9 DEF RefundsOf, Stored
    <3>3. Recorded(u)' = Recorded(u)
      BY <3>1, <3>2, RecordedSame
    <3>4. Unrecorded(u)' <= Unrecorded(u)
      BY <1>2, <1>7, LetsGo
    <3>5. QED
      BY <1>2, <2>2, <3>3, <3>4, SameRefunded, StaysBacked, UnrecordedType
  <2>4. CASE u = t
    <3> DEFINE S == RefundsOf(t)
    <3>1. RefundsOf(t)' = S \cup {r} /\ r \notin S
      BY <1>6, <1>8, <1>9 DEF RefundsOf, Stored
    <3>2. AmountOf'[r] = amount /\ \A s \in S : AmountOf'[s] = AmountOf[s]
      BY <1>6, <1>8, <1>9 DEF AmountOf, RefundsOf, Stored
    <3>3. amount \in Nat
      BY PaymentsAssumption
    <3>4. NatsOn(AmountOf, S)
      BY RefundSums
    <3>5. NatsOn(AmountOf', S)
      BY <3>2, <3>4 DEF NatsOn
    <3> HIDE DEF S
    <3>6. SumOver(AmountOf', S \cup {r}) = SumOver(AmountOf', S) + amount
      BY <3>1, <3>2, <3>3, <3>5, SumAdd
    <3>7. SumOver(AmountOf', S) = SumOver(AmountOf, S)
      BY <3>2, SumSame
    <3>8. Recorded(t)' = Recorded(t) + amount
      BY <3>1, <3>6, <3>7 DEF Recorded, S
    <3>9. h \in OnTheWay(t)
      BY <1>2, <1>3 DEF OnTheWay
    <3>10. Unrecorded(t)' = Unrecorded(t) - amount
      BY <1>2, <1>4, <1>7, <3>9, LetsGo
    <3>11. Recorded(t) \in Nat /\ Unrecorded(t) \in Nat
      BY RefundSums
    <3>12. gateway'[t].refunded = gateway[t].refunded /\ BackedSoFar(t)
      BY <1>2, <2>2, <2>4
    <3>13. BackedSoFar(t)'
      BY <3>3, <3>8, <3>10, <3>11, <3>12 DEF BackedSoFar
    <3>14. QED
      BY <2>4, <3>13
  <2>5. QED
    BY <2>3, <2>4
<1>12. QED
  BY <1>10, <1>11 DEF RefundsInv

LEMMA RequestRefunds ==
    ASSUME IInv, IInv', RefundsInv, NEW h \in Handler, Request(h) PROVE RefundsInv'
<1>1. ASSUME NEW method \in Method, NEW amount \in 1..MaxAmount,
             CreateDeposit(h, method, amount)
      PROVE  RefundsInv'
  <2> DEFINE doc == [type |-> "Deposit", method |-> method, status |-> "Pending",
                     amount |-> amount, found |-> FALSE, original |-> None]
  <2>1. PICK t \in TransactionId :
            /\ Insert(t, doc)
            /\ Goto(h, IF method \in Gateway
                       THEN [Idle EXCEPT !.at = "createOrder", !.transaction = t]
                       ELSE Idle)
    BY <1>1 DEF CreateDeposit
  <2> DEFINE state == IF method \in Gateway
                      THEN [Idle EXCEPT !.at = "createOrder", !.transaction = t]
                      ELSE Idle
  <2>2. doc \in TransactionDoc /\ doc.original = None
    BY DEF TransactionDoc, Type, Status
  <2>3. Goto(h, state) /\ state.at # "saveRefund" /\ UNCHANGED gateway
    BY <1>1, <2>1 DEF Idle, CreateDeposit
  <2> HIDE DEF doc, state
  <2>4. QED
    BY <2>1, <2>2, <2>3, CreationRefunds
<1>2. ASSUME NEW amount \in 1..MaxAmount, CreateWithdrawal(h, amount)
      PROVE  RefundsInv'
  <2> DEFINE doc == [type |-> "Withdrawal", method |-> "BankTransfer",
                     status |-> "Processing", amount |-> amount,
                     found |-> FALSE, original |-> None]
  <2>1. PICK t \in TransactionId :
            /\ Insert(t, doc)
            /\ Goto(h, [Idle EXCEPT !.at = "settle", !.transaction = t])
    BY <1>2 DEF CreateWithdrawal
  <2> DEFINE state == [Idle EXCEPT !.at = "settle", !.transaction = t]
  <2>2. doc \in TransactionDoc /\ doc.original = None
    BY DEF TransactionDoc, Type, Status, Method
  <2>3. Goto(h, state) /\ state.at = "settle" /\ UNCHANGED gateway
    BY <1>2, <2>1 DEF Idle, CreateWithdrawal
  <2> HIDE DEF doc, state
  <2>4. QED
    BY <2>1, <2>2, <2>3, CreationRefunds
<1>3. ASSUME NEW t \in TransactionId, NEW valid \in BOOLEAN,
             ReadToVerifyRazorpay(h, t, valid)
      PROVE  RefundsInv'
  <2> DEFINE state == [Idle EXCEPT !.at = "saveStatus", !.transaction = t,
                            !.read = transactions[t].status,
                            !.status = IF valid THEN "Completed" ELSE "Failed"]
  <2>1. Goto(h, state) /\ UNCHANGED <<transactions, gateway>>
    BY <1>3 DEF ReadToVerifyRazorpay
  <2>2. state.at = "saveStatus"
    BY DEF Idle
  <2> HIDE DEF state
  <2>3. QED
    BY <2>1, <2>2, SameRecords, SameRefunded, MovesOn
<1>4. ASSUME NEW t \in TransactionId, ReadToVerifyStripe(h, t)
      PROVE  RefundsInv'
  <2> DEFINE state == [Idle EXCEPT !.at = "retrieve", !.transaction = t,
                                   !.read = transactions[t].status]
  <2>1. Goto(h, state) /\ UNCHANGED <<transactions, gateway>>
    BY <1>4 DEF ReadToVerifyStripe
  <2>2. state.at = "retrieve"
    BY DEF Idle
  <2> HIDE DEF state
  <2>3. QED
    BY <2>1, <2>2, SameRecords, SameRefunded, MovesOn
<1>5. ASSUME NEW t \in TransactionId, NEW amount \in 1..MaxAmount,
             ReadToRefund(h, t, amount)
      PROVE  RefundsInv'
  <2> DEFINE state == [Idle EXCEPT
                  !.at = IF transactions[t].method \in Gateway
                         THEN "gatewayRefund" ELSE "saveRefund",
                  !.transaction = t, !.amount = amount]
  <2>1. Goto(h, state) /\ UNCHANGED <<transactions, gateway>>
    BY <1>5 DEF ReadToRefund
  <2>2. state.transaction = t
          /\ (state.at = "saveRefund" => transactions[t].method \notin Gateway)
    BY DEF Idle
  <2> HIDE DEF state
  <2>3. state.at # "saveRefund" \/ state.transaction \notin Deposits
    BY <2>2 DEF Deposits
  <2>4. QED
    BY <2>1, <2>3, SameRecords, SameRefunded, MovesOn
<1>6. QED
  BY <1>1, <1>2, <1>3, <1>4, <1>5 DEF Request

LEMMA ContinueRefunds ==
    ASSUME IInv, IInv', RefundsInv, NEW h \in Handler, Continue(h) PROVE RefundsInv'
<1> DEFINE t == handlers[h].transaction
<1>1. handlers[h] \in HandlerState /\ Held(h)
  BY DEF IInv, TypeOK
<1>2. handlers[h].at # "idle" => t \in Stored /\ transactions[t] \in TransactionDoc
  BY <1>1 DEF Held, IInv, TypeOK, Stored
<1>3. CASE CreateOrder(h)
  <2> DEFINE state == [handlers[h] EXCEPT !.at = "saveOrder"]
  <2>1. /\ Goto(h, state) /\ UNCHANGED transactions
        /\ gateway' = [gateway EXCEPT ![t].order = TRUE]
    BY <1>3 DEF CreateOrder
  <2>2. state.at = "saveOrder"
    BY <1>1 DEF HandlerState
  <2> HIDE DEF state
  <2>3. \A u \in TransactionId : gateway'[u].refunded >= gateway[u].refunded
    BY <2>1, PaymentsAssumption DEF IInv, TypeOK, Account
  <2>4. QED
    BY <2>1, <2>2, <2>3, SameRecords, MovesOn
<1>4. CASE SaveOrder(h)
  <2> DEFINE doc == [transactions[t] EXCEPT !.found = TRUE]
  <2>1. /\ Goto(h, Idle) /\ UNCHANGED gateway /\ t \in Stored
        /\ transactions' = [transactions EXCEPT ![t] = doc]
    BY <1>2, <1>4 DEF SaveOrder, TransactionDoc
  <2>2. /\ doc \in TransactionDoc
        /\ doc.type = transactions[t].type /\ doc.method = transactions[t].method
        /\ doc.amount = transactions[t].amount
        /\ doc.original = transactions[t].original
    BY <1>2, <1>4 DEF SaveOrder, TransactionDoc
  <2> HIDE DEF doc
  <2>3. RecordsKept
    BY <2>1, <2>2, FieldUpdated
  <2>4. QED
    BY <2>1, <2>3, IdleAt, SameRefunded, MovesOn
<1>5. CASE RetrieveIntent(h)
  <2> DEFINE state == [handlers[h] EXCEPT
                         !.at = "saveStatus",
                         !.status = IF gateway[t].paid THEN "Completed" ELSE "Failed"]
  <2>1. Goto(h, state) /\ UNCHANGED <<transactions, gateway>>
    BY <1>5 DEF RetrieveIntent
  <2>2. state.at = "saveStatus"
    BY <1>1 DEF HandlerState
  <2> HIDE DEF state
  <2>3. QED
    BY <2>1, <2>2, SameRecords, SameRefunded, MovesOn
<1>6. CASE SaveStatus(h)
  <2>1. /\ Goto(h, Idle) /\ t \in Stored /\ handlers[h].status \in Status
        /\ gateway' = [gateway EXCEPT ![t].acked = @ \/ handlers[h].webhook]
    BY <1>1, <1>2, <1>6 DEF SaveStatus, Held, Status
  <2>2. \/ transactions' = [transactions EXCEPT ![t].status = handlers[h].status]
        \/ transactions' = transactions
    <3>1. transactions \in [TransactionId -> TransactionDoc \cup {None}]
      BY DEF IInv, TypeOK
    <3>2. QED
      BY <1>2, <1>6, <2>1, <3>1 DEF SaveStatus, TransactionDoc, Stored
  <2>3. RecordsKept
    BY <2>1, <2>2, StatusUpdated, SameRecords
  <2> DEFINE acked == gateway[t].acked \/ handlers[h].webhook
  <2>4. gateway' = [gateway EXCEPT ![t].acked = acked]
    BY <2>1
  <2> HIDE DEF acked
  <2>5. \A u \in TransactionId : gateway'[u].refunded >= gateway[u].refunded
    BY <2>4, PaymentsAssumption DEF IInv, TypeOK, Account
  <2>6. QED
    BY <2>1, <2>3, <2>5, IdleAt, MovesOn
<1>7. CASE SettleWithdrawal(h) \/ FailWithdrawal(h) \/ MarkRefunded(h)
  <2>1. PICK status \in Status :
            transactions' = [transactions EXCEPT ![t].status = status]
    BY <1>7 DEF SettleWithdrawal, FailWithdrawal, MarkRefunded, Status
  <2>2. Goto(h, Idle) /\ UNCHANGED gateway /\ t \in Stored
    BY <1>2, <1>7 DEF SettleWithdrawal, FailWithdrawal, MarkRefunded
  <2>3. QED
    BY <2>1, <2>2, IdleAt, StatusUpdated, SameRefunded, MovesOn
<1>8. CASE SettlingRejects(h)
  <2> DEFINE state == [handlers[h] EXCEPT !.at = "settleFailed"]
  <2>1. Goto(h, state) /\ UNCHANGED <<transactions, gateway>>
    BY <1>8 DEF SettlingRejects
  <2>2. state.at = "settleFailed"
    BY <1>1 DEF HandlerState
  <2> HIDE DEF state
  <2>3. QED
    BY <2>1, <2>2, SameRecords, SameRefunded, MovesOn
<1>9. QED
  BY <1>3, <1>4, <1>5, <1>6, <1>7, <1>8, GatewayRefundRefunds, SaveRefundRefunds
     DEF Continue

\* Nobody moves: the gateway learns of a payment, or nothing happens.
LEMMA NobodyMoves ==
    ASSUME IInv, IInv', RefundsInv, UNCHANGED <<transactions, handlers>>,
           \A t \in TransactionId : gateway'[t].refunded = gateway[t].refunded
    PROVE  RefundsInv'
<1>1. ASSUME NEW t PROVE Unrecorded(t)' = Unrecorded(t) /\ Recorded(t)' = Recorded(t)
  BY DEF Unrecorded, HeldAmount, OnTheWay, Recorded, AmountOf, RefundsOf, Stored
<1>2. QED
  BY <1>1 DEF RefundsInv, BackedSoFar, Deposits, Stored

LEMMA RefundsNext ==
    ASSUME IInv, IInv', RefundsInv, [Next]_vars PROVE RefundsInv'
<1>1. ASSUME NEW t \in TransactionId, CustomerPays(t) PROVE RefundsInv'
  BY <1>1, NobodyMoves DEF CustomerPays, IInv, TypeOK, Account
<1>2. ASSUME NEW h \in Handler, NEW t \in TransactionId, ReadWebhook(h, t)
      PROVE  RefundsInv'
  <2> DEFINE state == [Idle EXCEPT !.at = "saveStatus", !.transaction = t,
                            !.read = transactions[t].status,
                            !.status = "Completed", !.webhook = TRUE]
  <2>1. Goto(h, state) /\ UNCHANGED <<transactions, gateway>>
    BY <1>2 DEF ReadWebhook
  <2>2. state.at = "saveStatus"
    BY DEF Idle
  <2> HIDE DEF state
  <2>3. QED
    BY <2>1, <2>2, SameRecords, SameRefunded, MovesOn
<1>3. ASSUME NEW h \in Handler, Abort(h) PROVE RefundsInv'
  BY <1>3, IdleAt, SameRecords, SameRefunded, MovesOn DEF Abort
<1>4. CASE UNCHANGED vars
  BY <1>4, NobodyMoves DEF vars
<1>5. QED
  BY <1>1, <1>2, <1>3, <1>4, RequestRefunds, ContinueRefunds DEF Next

-----------------------------------------------------------------------------
LEMMA Invariance == Spec => []IInv
  BY InitIInv, NextIInv, PTL DEF Spec

\* Documents, the gateway's accounts and handlers keep their types whatever
\* overlaps and whatever fails.
THEOREM TypeCorrect == Spec => []TypeOK
  BY Invariance, PTL DEF IInv

\* However verifications, webhooks and refunds interleave and fail, a deposit
\* is completed or refunded only with the money at the gateway.
THEOREM CompletedPaid == Spec => []CompletedIsPaid
  BY Invariance, PTL DEF IInv

\* No transaction is marked Refunded without a refund of it on record
\* (createRefund saves the refund first).
THEOREM RefundedRecorded == Spec => []RefundedHasRefund
  BY Invariance, PTL DEF IInv

\* The refunds on record of a deposit never add up to more than the gateway has
\* refunded, for any number of requests at once, whichever fail half-way and
\* are called again (createRefund).
THEOREM RefundsBacked == Spec => []RefundsAreBacked
<1>1. Init => RefundsInv
  BY DEF Init, Stored, Deposits, RefundsInv
<1>2. IInv /\ IInv' /\ RefundsInv /\ [Next]_vars => RefundsInv'
  BY RefundsNext
<1>3. IInv /\ RefundsInv => RefundsAreBacked
  <2> SUFFICES ASSUME IInv, RefundsInv, NEW t \in Deposits
               PROVE  SumOver(AmountOf, RefundsOf(t)) <= gateway[t].refunded
    BY DEF RefundsAreBacked
  <2>1. t \in TransactionId /\ BackedSoFar(t)
    BY DEF RefundsInv, Deposits, Stored
  <2>2. gateway[t].refunded \in Nat
    BY <2>1, PaymentsAssumption DEF IInv, TypeOK, Account
  <2>3. QED
    BY <2>1, <2>2, RefundSums DEF BackedSoFar, Recorded
<1>4. QED
  BY <1>1, <1>2, <1>3, Invariance, PTL DEF Spec
=============================================================================
