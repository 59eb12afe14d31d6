---------------------------- MODULE OrderLifecycle -----------------------------
(***************************************************************************)
(* The life of one order (order.service.ts) beside its crypto payment:     *)
(* payOrderWithWallet, cancelOrder, refundOrder, updateOrderStatus and the *)
(* admin's deliverOrder (order-delivery.service.ts).  Each tests the       *)
(* status it read at its start and writes in later awaits, as the calls of *)
(* CryptoPayment do; processes, stock and faults are those of that module. *)
(***************************************************************************)
EXTENDS CryptoPayment

CONSTANTS
    InitialBalance,  \* the buyer's wallet, in totals of this order
    MaxRequests      \* bound: what the buyer and the admin ask for

ASSUME InitialBalanceAssumption == InitialBalance \in Nat
ASSUME RequestsAssumption == MaxRequests \in Nat

VARIABLES
    balance,     \* of the buyer's wallet
    newBalance,  \* process -> the balance it computed from the one it read
    charged,     \* PURCHASE rows of the order
    refunded,    \* REFUND rows of the order
    edited,      \* has an admin set the status by hand? (history)
    requests     \* calls of this module so far

moneyVars == <<balance, newBalance, charged, refunded>>
asked == <<edited, requests>>
orderVars == <<vars, moneyVars, asked>>

OrderSteps == {"deduct", "deductWrite", "purchaseRow", "sell", "cancel", "retire", "setRefunded",
               "refundBalance", "refundWrite", "refundRow", "typed"}

OrderInit ==
    /\ Init
    /\ balance = InitialBalance
    /\ newBalance = [p \in Proc |-> 0]
    /\ charged = 0
    /\ refunded = 0
    /\ edited = FALSE
    /\ requests = 0

Ask == requests < MaxRequests /\ requests' = requests + 1

\* The call has read the order.
Request(p, at) ==
    /\ Ask
    /\ Begin(p, at, "none", 0)
    /\ UNCHANGED <<goods, payVars, jobs, world, faults, moneyVars, edited>>

-------------------------------------------------------------------------------
(* payOrderWithWallet                                                      *)

PayRead(p) ==
    /\ order = "PENDING"
    /\ Request(p, "deduct")

\* deductBalance: the wallet is read and tested...
DeductBalance(p) ==
    /\ proc[p].at = "deduct"
    /\ IF balance >= 1
       THEN newBalance' = [newBalance EXCEPT ![p] = balance - 1] /\ Goto(p, "deductWrite", 0)
       ELSE Return(p) /\ UNCHANGED newBalance
    /\ UNCHANGED <<goods, payVars, jobs, world, faults, balance, charged, refunded, asked>>

\* ...then the balance computed from it is set, whatever the wallet holds by now...
WriteBalance(p) ==
    /\ proc[p].at \in {"deductWrite", "refundWrite"}
    /\ balance' = newBalance[p]
    /\ newBalance' = [newBalance EXCEPT ![p] = 0]
    /\ Goto(p, IF proc[p].at = "deductWrite" THEN "purchaseRow" ELSE "refundRow", 0)
    /\ UNCHANGED <<goods, payVars, jobs, world, faults, charged, refunded, asked>>

\* ...then createTransaction inserts the row.
PurchaseRow(p) ==
    /\ proc[p].at = "purchaseRow"
    /\ charged' = charged + 1
    /\ Goto(p, "sell", 0)
    /\ UNCHANGED <<goods, payVars, jobs, world, faults, balance, newBalance, refunded, asked>>

\* markSoldForOrder and the order, in one transaction that tests neither.
SellCommit(p) ==
    /\ proc[p].at = "sell"
    /\ hold' = IF hold = "RESERVED" THEN "SOLD" ELSE hold
    /\ order' = "COMPLETED"
    /\ Goto(p, "deliver", 0)
    /\ UNCHANGED <<reservedUntil, delivered, payVars, jobs, world, faults, moneyVars, asked>>

-------------------------------------------------------------------------------
(* cancelOrder and refundOrder                                             *)

CancelRead(p) ==
    /\ order = "PENDING"
    /\ Request(p, "cancel")

\* Faulty variant: the lines of the item are released whatever their status.
CancelAnyLines(p) ==
    /\ proc[p].at = "cancel"
    /\ hold' = "RELEASED"
    /\ order' = "CANCELLED"
    /\ Return(p)
    /\ UNCHANGED <<reservedUntil, delivered, payVars, jobs, world, faults, moneyVars, asked>>

\* restoreCancelledOrderItem releases what is RESERVED; the order is written without
\* a test, and the payment stays as it is.
CancelCommit(p) ==
    /\ proc[p].at = "cancel"
    /\ hold' = ReleasedHold
    /\ order' = "CANCELLED"
    /\ Return(p)
    /\ UNCHANGED <<reservedUntil, delivered, payVars, jobs, world, faults, moneyVars, asked>>

RefundRead(p) ==
    /\ order \in {"COMPLETED", "CANCELLED"}
    /\ Request(p, "retire")

\* Faulty variant: the lines are left as they are.
RetireNothing(p) ==
    /\ proc[p].at = "retire"
    /\ Goto(p, "setRefunded", 0)
    /\ UNCHANGED <<goods, payVars, jobs, world, faults, moneyVars, asked>>

\* retireForOrderItem, in a transaction of its own...
RetireLines(p) ==
    /\ proc[p].at = "retire"
    /\ hold' = IF hold = "SOLD" THEN "REFUNDED" ELSE hold
    /\ Goto(p, "setRefunded", 0)
    /\ UNCHANGED <<order, reservedUntil, delivered, payVars, jobs, world, faults, moneyVars, asked>>

\* ...then updateOrderStatus...
SetRefunded(p) ==
    /\ proc[p].at = "setRefunded"
    /\ order' = "REFUNDED"
    /\ Goto(p, "refundBalance", 0)
    /\ UNCHANGED <<hold, reservedUntil, delivered, payVars, jobs, world, faults, moneyVars, asked>>

\* ...then the money, the whole total however the order was paid: refundBalance reads
\* the wallet, and WriteBalance and the row follow.
RefundBalance(p) ==
    /\ proc[p].at = "refundBalance"
    /\ newBalance' = [newBalance EXCEPT ![p] = balance + 1]
    /\ Goto(p, "refundWrite", 0)
    /\ UNCHANGED <<goods, payVars, jobs, world, faults, balance, charged, refunded, asked>>

RefundRow(p) ==
    /\ proc[p].at = "refundRow"
    /\ refunded' = refunded + 1
    /\ Return(p)
    /\ UNCHANGED <<goods, payVars, jobs, world, faults, balance, newBalance, charged, asked>>

-------------------------------------------------------------------------------
(* The admin                                                               *)

\* updateOrderStatus, from any status to any other; no line is released.
UpdateStatus(s) ==
    /\ Ask
    /\ edited' = TRUE
    /\ order' = s
    /\ UNCHANGED <<hold, reservedUntil, delivered, payVars, jobs, proc, world, faults, moneyVars>>

\* To COMPLETED: the lines are sold with it, and what is undelivered is delivered.
UpdateCompleted(p) ==
    /\ Ask
    /\ edited' = TRUE
    /\ order' = "COMPLETED"
    /\ hold' = IF hold = "RESERVED" THEN "SOLD" ELSE hold
    /\ Begin(p, "deliver", "none", 0)
    /\ UNCHANGED <<reservedUntil, delivered, payVars, jobs, world, faults, moneyVars>>

\* deliverOrder: the status is tested, and what the admin typed is written later.
DeliverOrder(p) ==
    /\ order = "COMPLETED"
    /\ Request(p, "typed")

WriteTyped(p) ==
    /\ proc[p].at = "typed"
    /\ delivered' = "typed"
    /\ Return(p)
    /\ UNCHANGED <<order, hold, reservedUntil, payVars, jobs, world, faults, moneyVars, asked>>

-------------------------------------------------------------------------------

PayStep(p) ==
    \/ PayRead(p)
    \/ DeductBalance(p)
    \/ WriteBalance(p)
    \/ PurchaseRow(p)
    \/ SellCommit(p)

UndoStep(p) ==
    \/ CancelRead(p)
    \/ CancelCommit(p)
    \/ RefundRead(p)
    \/ RetireLines(p)
    \/ SetRefunded(p)
    \/ RefundBalance(p)
    \/ RefundRow(p)

AdminStep(p) ==
    \/ UpdateCompleted(p)
    \/ DeliverOrder(p)
    \/ WriteTyped(p)

\* Expiries, confirmations, sweeps, deliveries and faults, and the faults of the calls
\* here: each of them logs the failure and answers with an error.
PaymentSide == Next /\ UNCHANGED <<moneyVars, asked>>

OrderNext ==
    \/ PaymentSide
    \/ \E p \in Proc : PayStep(p) \/ UndoStep(p) \/ AdminStep(p)
    \/ \E s \in OrderStatus \ {"COMPLETED"} : UpdateStatus(s)

OrderSpec == OrderInit /\ [][OrderNext]_orderVars

-------------------------------------------------------------------------------

OrderTypeOK ==
    /\ DataOK
    /\ proc \in [Proc -> [at : Steps \cup OrderSteps, job : JobName \cup {"none"}, n : 0..Required]]
    /\ balance \in Nat
    /\ newBalance \in [Proc -> Nat]
    /\ charged \in Nat
    /\ refunded \in Nat
    /\ edited \in BOOLEAN
    /\ requests \in 0..MaxRequests

\* Unless an admin sets the status by hand, an order is completed, sold or delivered
\* only when it was paid: from the wallet, or by a whole and final transfer.  Wallet
\* payments, confirmations, cancels and refunds of one order overlap, and each writes
\* a status that another has changed since it looked.
CompletedIsFunded ==
    (~edited /\ (order = "COMPLETED" \/ hold = "SOLD" \/ delivered # "no"))
        => charged > 0 \/ (funds = "enough" /\ depth = Required)

\* A buyer does not get the money back and keep the goods on their way: once the total
\* was refunded, the lines are retired or back on sale, and no payment, confirmation
\* or cancel that is still running sells them to this order again.
RefundTakesGoodsBack ==
    (~edited /\ refunded > 0) => hold \in {"REFUNDED", "RELEASED"}

\* Content that was handed to the buyer is never sold again, whatever is cancelled,
\* refunded, expired, swept or edited after it was read.
HandedIsKept == delivered = "lines" => hold \in {"SOLD", "REFUNDED"}

-------------------------------------------------------------------------------
(* Three more statements of the code that TLC refutes; README.md tells how. *)

\* "Only allow cancellation if order is PENDING": nothing else is cancelled by a buyer.
OnlyPendingCancelled ==
    [][\A p \in Proc : CancelCommit(p) => order = "PENDING"]_orderVars

\* "refund amount to user wallet": it is refunded once.
RefundedOnce == ~edited => refunded <= 1

\* Only a PENDING order is paid from the wallet: it is charged once.
ChargedOnce == charged <= 1

===============================================================================
