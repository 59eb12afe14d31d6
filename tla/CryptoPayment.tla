---------------------------- MODULE CryptoPayment -----------------------------
(***************************************************************************)
(* The crypto payment of one order: createPayment and expirePayment        *)
(* (crypto-payment.service.ts), checkPayment, checkConfirmations and       *)
(* confirmPayment (blockchain-monitor.service.ts), the Bull jobs and cron  *)
(* ticks that call them (payment-verification.processor.ts,                *)
(* payment.scheduler.ts) and the delivery that follows.                    *)
(*                                                                         *)
(* A process is one asynchronous call: a request, a job or a cron tick.    *)
(* Every await is a step of its own, so what a call read may be stale by   *)
(* the time it writes.  The transactions of expirePayment and              *)
(* confirmPayment test nothing and commit in one step; that of the sweeper *)
(* counts the stale lines in one step and releases in another.             *)
(***************************************************************************)
EXTENDS Integers

CONSTANTS
    Proc,         \* calls in progress at the same time
    Required,     \* requiredConfirmations
    MaxFaults,    \* bound: failed awaits, crashed workers and reorganisations
    TxUnlisted    \* may an explorer show the balance but not the transaction?

ASSUME RequiredAssumption == Required \in Nat \ {0}
ASSUME FaultsAssumption == MaxFaults \in Nat
ASSUME TxUnlistedAssumption == TxUnlisted \in BOOLEAN

VARIABLES
    order,          \* Order.status
    hold,           \* the order's stock lines
    reservedUntil,  \* their deadline: the default one, that one passed, or expiresAt
    delivered,      \* OrderItem.deliveredContent: nothing, the lines, a placeholder, an admin's
    payment,        \* CryptoPayment.status, "NONE" before the row exists
    txHash,         \* is the incoming transaction recorded?
    forwardTxHash,  \* is an outgoing transaction recorded?
    jobs,           \* Bull queues: how many jobs of each name
    proc,           \* process -> where the call is and what it holds
    clock,          \* against expiresAt: before it, in the grace period, past that
    funds,          \* at the payment address
    depth,          \* confirmations of the latest transfer, counted up to Required
    sweep,          \* the sweeper's transaction: none, has counted the lines as stale,
                    \* or did so before their deadline moved ("late")
    sweptLate,      \* did such a late sweep release the lines? (history)
    faults          \* faults so far

goods == <<order, hold, reservedUntil, delivered>>
payVars == <<payment, txHash, forwardTxHash>>
world == <<clock, funds, depth, sweep, sweptLate>>
vars == <<goods, payVars, jobs, proc, world, faults>>

OrderStatus == {"PENDING", "COMPLETED", "CANCELLED", "REFUNDED"}
PaymentStatus == {"PENDING", "PAID", "CONFIRMING", "CONFIRMED", "FORWARDING",
                  "FORWARDED", "FORWARDING_FAILED", "EXPIRED", "FAILED"}
JobName == {"verify", "check", "forward"}
Steps == {"rest", "createRow", "sync", "queueVerify", "read", "poll", "paid", "queueCheck",
          "expire", "expireCommit", "depth", "count", "requeue", "confirm", "deliver",
          "soldLines", "hand", "queueForward"}

DeliverySteps == {"deliver", "soldLines", "hand"}

Rest == [at |-> "rest", job |-> "none", n |-> 0]

Init ==
    /\ order = "PENDING"
    /\ hold = "RESERVED"
    /\ reservedUntil = "default"
    /\ delivered = "no"
    /\ payment = "NONE"
    /\ txHash = FALSE
    /\ forwardTxHash = FALSE
    /\ jobs = [j \in JobName |-> 0]
    /\ proc = [p \in Proc |-> Rest]
    /\ clock = "active"
    /\ funds = "none"
    /\ depth = 0
    /\ sweep = "rest"
    /\ sweptLate = FALSE
    /\ faults = 0

-------------------------------------------------------------------------------

Overdue == clock # "active"

\* Faulty variant: a deadline that moved to expiresAt is not looked at.
LapsedByDefault == reservedUntil = "passed"

\* reservedUntil < now, the sweeper's condition.
HoldLapsed ==
    \/ reservedUntil = "passed"
    \/ reservedUntil = "expiresAt" /\ Overdue

\* A call starts, goes on, or returns.
Begin(p, at, job, n) ==
    /\ proc[p] = Rest
    /\ proc' = [proc EXCEPT ![p] = [at |-> at, job |-> job, n |-> n]]

Goto(p, at, n) == proc' = [proc EXCEPT ![p] = [at |-> at, job |-> proc[p].job, n |-> n]]

Return(p) == proc' = [proc EXCEPT ![p] = Rest]

\* queue.add of a job, and a worker taking one from the queue.
Enqueue(j) == jobs' = [jobs EXCEPT ![j] = @ + 1]

Dequeue(j) ==
    /\ jobs[j] > 0
    /\ jobs' = [jobs EXCEPT ![j] = @ - 1]

ReleasedHold == IF hold = "RESERVED" THEN "RELEASED" ELSE hold

-------------------------------------------------------------------------------
(* createPayment                                                           *)

\* The checks on the order it read: it must be PENDING, and an existing payment is
\* returned unless its grace period is over.  n = 1: there was such an old payment.
CreateCheck(p) ==
    /\ order = "PENDING"
    /\ payment = "NONE" \/ clock = "past"
    /\ Begin(p, "createRow", "none", IF payment = "NONE" THEN 0 ELSE 1)
    /\ UNCHANGED <<goods, payVars, jobs, world, faults>>

CreateRow(p) ==
    /\ proc[p].at = "createRow"
    /\ payment = "NONE"
    /\ payment' = "PENDING"
    /\ Goto(p, "sync", 0)
    /\ UNCHANGED <<goods, txHash, forwardTxHash, jobs, world, faults>>

\* orderId is unique: the insert of a second row throws.
CreateConflict(p) ==
    /\ proc[p].at = "createRow"
    /\ payment # "NONE"
    /\ Return(p)
    /\ UNCHANGED <<goods, payVars, jobs, world, faults>>

\* syncReservationExpiryForOrder: an update of what is RESERVED, in no transaction with
\* the row.  It may fall between a sweep's count and its release.
SyncReservation(p) ==
    /\ proc[p].at = "sync"
    /\ reservedUntil' = IF hold = "RESERVED" THEN "expiresAt" ELSE reservedUntil
    /\ sweep' = IF hold = "RESERVED" /\ sweep = "counted" THEN "late" ELSE sweep
    /\ Goto(p, "queueVerify", 0)
    /\ UNCHANGED <<order, hold, delivered, payVars, jobs, clock, funds, depth, sweptLate, faults>>

QueueVerify(p) ==
    /\ proc[p].at = "queueVerify"
    /\ Enqueue("verify")
    /\ Return(p)
    /\ UNCHANGED <<goods, payVars, world, faults>>

-------------------------------------------------------------------------------
(* verify-payment jobs, the every-minute cron, and checkPayment            *)

\* handleVerifyPayment reads the payment once before checkPayment reads it again.
StartVerify(p) ==
    /\ Dequeue("verify")
    /\ IF payment \notin {"PENDING", "PAID"} THEN proc[p] = Rest /\ UNCHANGED proc
       ELSE Begin(p, IF Overdue THEN "expire" ELSE "read", "verify", 0)
    /\ UNCHANGED <<goods, payVars, world, faults>>

\* checkPendingPayments, with the grace period; the admin's verify call as well.
StartPendingCron(p) ==
    /\ payment = "PENDING"
    /\ clock # "past"
    /\ Begin(p, "read", "none", 0)
    /\ UNCHANGED <<goods, payVars, jobs, world, faults>>

\* checkPayment skips a payment that is not PENDING and expires one past expiresAt.
ReadPayment(p) ==
    /\ proc[p].at = "read"
    /\ IF payment # "PENDING" THEN Return(p)
       ELSE Goto(p, IF Overdue THEN "expire" ELSE "poll", 0)
    /\ UNCHANGED <<goods, payVars, jobs, world, faults>>

\* Balance and latest transaction.  verifyTransaction refuses a transaction that is
\* below the minimum by itself, but a missing one is not verified.  n = 1: has a hash.
Poll(p) ==
    /\ proc[p].at = "poll"
    /\ \/ funds = "enough" /\ Goto(p, "paid", 1)
       \/ TxUnlisted /\ funds \in {"split", "enough"} /\ Goto(p, "paid", 0)
       \/ funds # "enough" /\ Return(p)
    /\ UNCHANGED <<goods, payVars, jobs, world, faults>>

\* Faulty variant: the hash is not stored.
WritePaidOnly(p) ==
    /\ proc[p].at = "paid"
    /\ payment' = "PAID"
    /\ Goto(p, "queueCheck", 0)
    /\ UNCHANGED <<goods, txHash, forwardTxHash, jobs, world, faults>>

WritePaid(p) ==
    /\ proc[p].at = "paid"
    /\ payment' = "PAID"
    /\ txHash' = (proc[p].n = 1)
    /\ Goto(p, "queueCheck", 0)
    /\ UNCHANGED <<goods, forwardTxHash, jobs, world, faults>>

QueueCheck(p) ==
    /\ proc[p].at = "queueCheck"
    /\ Enqueue("check")
    /\ Return(p)
    /\ UNCHANGED <<goods, payVars, world, faults>>

-------------------------------------------------------------------------------
(* Expiry                                                                  *)

\* Faulty variant: the cron compares expiresAt the wrong way round.
ExpireUnexpired(p) ==
    /\ payment = "PENDING"
    /\ ~Overdue
    /\ Begin(p, "expire", "none", 0)
    /\ UNCHANGED <<goods, payVars, jobs, world, faults>>

\* The five-minute cron, or a getPaymentStatus request, finds the payment overdue.
StartExpiry(p) ==
    /\ payment = "PENDING"
    /\ Overdue
    /\ Begin(p, "expire", "none", 0)
    /\ UNCHANGED <<goods, payVars, jobs, world, faults>>

\* expirePayment reads the status again...
ExpireRead(p) ==
    /\ proc[p].at = "expire"
    /\ IF payment = "PENDING" THEN Goto(p, "expireCommit", 0) ELSE Return(p)
    /\ UNCHANGED <<goods, payVars, jobs, world, faults>>

\* Faulty variant: the lines are not released with the payment.
ExpireOnly(p) ==
    /\ proc[p].at = "expireCommit"
    /\ payment' = "EXPIRED"
    /\ Return(p)
    /\ UNCHANGED <<goods, txHash, forwardTxHash, jobs, world, faults>>

\* ...and its transaction writes EXPIRED whatever the status has become.
ExpireCommit(p) ==
    /\ proc[p].at = "expireCommit"
    /\ payment' = "EXPIRED"
    /\ hold' = ReleasedHold
    /\ Return(p)
    /\ UNCHANGED <<order, reservedUntil, delivered, txHash, forwardTxHash, jobs, world, faults>>

\* Faulty variant: the sweeper takes every reservation.
SweepAll ==
    /\ sweep = "rest"
    /\ hold = "RESERVED"
    /\ sweep' = "counted"
    /\ UNCHANGED <<goods, payVars, jobs, proc, clock, funds, depth, sweptLate, faults>>

\* The sweeper looks at no payment: its transaction counts the item's lines past their
\* deadline...
SweepCount ==
    /\ sweep = "rest"
    /\ hold = "RESERVED" /\ HoldLapsed
    /\ sweep' = "counted"
    /\ UNCHANGED <<goods, payVars, jobs, proc, clock, funds, depth, sweptLate, faults>>

\* ...and releaseForOrderItem takes whatever is RESERVED, whatever its deadline is by now.
SweepRelease ==
    /\ sweep # "rest"
    /\ hold' = ReleasedHold
    /\ sweep' = "rest"
    /\ sweptLate' = (sweptLate \/ (sweep = "late" /\ hold = "RESERVED"))
    /\ UNCHANGED <<order, reservedUntil, delivered, payVars, jobs, proc, clock, funds, depth, faults>>

\* Its transaction is rolled back, or its process dies.
SweepAbort ==
    /\ faults < MaxFaults
    /\ sweep # "rest"
    /\ sweep' = "rest"
    /\ faults' = faults + 1
    /\ UNCHANGED <<goods, payVars, jobs, proc, clock, funds, depth, sweptLate>>

-------------------------------------------------------------------------------
(* check-confirmations jobs and confirmPayment                             *)

\* Processor and service read the payment one after the other and skip it alike, so
\* the second read decides.
StartCheck(p) ==
    /\ Dequeue("check")
    /\ IF payment = "CONFIRMED" \/ ~txHash THEN proc[p] = Rest /\ UNCHANGED proc
       ELSE Begin(p, "depth", "check", 0)
    /\ UNCHANGED <<goods, payVars, world, faults>>

ReadDepth(p) ==
    /\ proc[p].at = "depth"
    /\ Goto(p, "count", depth)
    /\ UNCHANGED <<goods, payVars, jobs, world, faults>>

\* Faulty variant: one confirmation too few is enough.
CountTooFew(p) ==
    /\ proc[p].at = "count"
    /\ payment' = IF proc[p].n > 0 THEN "CONFIRMING" ELSE "PAID"
    /\ Goto(p, IF proc[p].n + 1 >= Required THEN "confirm" ELSE "requeue", proc[p].n)
    /\ UNCHANGED <<goods, txHash, forwardTxHash, jobs, world, faults>>

\* The count decides the status, whatever the status is by now.
WriteConfirmations(p) ==
    /\ proc[p].at = "count"
    /\ payment' = IF proc[p].n > 0 THEN "CONFIRMING" ELSE "PAID"
    /\ Goto(p, IF proc[p].n >= Required THEN "confirm" ELSE "requeue", proc[p].n)
    /\ UNCHANGED <<goods, txHash, forwardTxHash, jobs, world, faults>>

\* Faulty variant: the next check is left to somebody else.
NoRequeue(p) ==
    /\ proc[p].at = "requeue"
    /\ Return(p)
    /\ UNCHANGED <<goods, payVars, jobs, world, faults>>

Requeue(p) ==
    /\ proc[p].at = "requeue"
    /\ Enqueue("check")
    /\ Return(p)
    /\ UNCHANGED <<goods, payVars, world, faults>>

\* One transaction: the payment, the lines still RESERVED, and the order, none tested.
ConfirmCommit(p) ==
    /\ proc[p].at = "confirm"
    /\ payment' = "CONFIRMED"
    /\ hold' = IF hold = "RESERVED" THEN "SOLD" ELSE hold
    /\ order' = "COMPLETED"
    /\ Goto(p, "deliver", 0)
    /\ UNCHANGED <<reservedUntil, delivered, txHash, forwardTxHash, jobs, world, faults>>

\* processInstantDelivery reads the order: it must be COMPLETED and not delivered.
\* confirmPayment, in a check job, goes on whatever comes of it; others return.
AfterDelivery(p) == IF proc[p].job = "check" THEN Goto(p, "queueForward", 0) ELSE Return(p)

DeliverCheck(p) ==
    /\ proc[p].at = "deliver"
    /\ IF order = "COMPLETED" /\ delivered = "no" THEN Goto(p, "soldLines", 0) ELSE AfterDelivery(p)
    /\ UNCHANGED <<goods, payVars, jobs, world, faults>>

\* The content is that of the lines marked SOLD (n = 1), or a placeholder...
ReadSoldLines(p) ==
    /\ proc[p].at = "soldLines"
    /\ Goto(p, "hand", IF hold = "SOLD" THEN 1 ELSE 0)
    /\ UNCHANGED <<goods, payVars, jobs, world, faults>>

\* ...and is written to the item whatever has become of the order.
HandOver(p) ==
    /\ proc[p].at = "hand"
    /\ delivered' = IF proc[p].n = 1 THEN "lines" ELSE "placeholder"
    /\ AfterDelivery(p)
    /\ UNCHANGED <<order, hold, reservedUntil, payVars, jobs, world, faults>>

QueueForward(p) ==
    /\ proc[p].at = "queueForward"
    /\ IF payment = "CONFIRMED" /\ ~forwardTxHash THEN Enqueue("forward") ELSE UNCHANGED jobs
    /\ Return(p)
    /\ UNCHANGED <<goods, payVars, world, faults>>

-------------------------------------------------------------------------------
(* What goes wrong, and what the buyer, the chain and the clock do.        *)

\* A failed await.  Everything but the delivery is caught in a handler that logs and
\* returns, so the job counts as done; a failed delivery is caught on the spot.
Fail(p) ==
    /\ faults < MaxFaults
    /\ proc[p] # Rest
    /\ faults' = faults + 1
    /\ IF proc[p].at \in DeliverySteps THEN AfterDelivery(p) ELSE Return(p)
    /\ UNCHANGED <<goods, payVars, jobs, world>>

\* The worker dies.  Bull finds its job stalled and queues it again; a request or a
\* cron tick is lost.
Crash(p) ==
    /\ faults < MaxFaults
    /\ proc[p] # Rest
    /\ faults' = faults + 1
    /\ IF proc[p].job \in JobName THEN Enqueue(proc[p].job) ELSE UNCHANGED jobs
    /\ Return(p)
    /\ UNCHANGED <<goods, payVars, world>>

\* The buyer pays at once, or pays too little and then the rest in a second transfer,
\* which leaves a latest transaction below the minimum ("split").
Transfer(f) ==
    /\ payment # "NONE"
    /\ <<funds, f>> \in {<<"none", "short">>, <<"none", "enough">>, <<"short", "split">>,
                         <<"short", "enough">>, <<"split", "enough">>}
    /\ funds' = f
    /\ UNCHANGED <<goods, payVars, jobs, proc, clock, depth, sweep, sweptLate, faults>>

Mine ==
    /\ funds = "enough" /\ depth < Required
    /\ depth' = depth + 1
    /\ UNCHANGED <<goods, payVars, jobs, proc, clock, funds, sweep, sweptLate, faults>>

\* A reorganisation takes a transfer that is not yet final back to the mempool.
Reorganise ==
    /\ faults < MaxFaults
    /\ 0 < depth /\ depth < Required
    /\ depth' = 0
    /\ faults' = faults + 1
    /\ UNCHANGED <<goods, payVars, jobs, proc, clock, funds, sweep, sweptLate>>

ClockTick ==
    /\ payment # "NONE"
    /\ \/ clock = "active" /\ clock' = "grace"
       \/ clock = "grace" /\ clock' = "past"
    /\ UNCHANGED <<goods, payVars, jobs, proc, funds, depth, sweep, sweptLate, faults>>

DefaultDeadlinePasses ==
    /\ reservedUntil = "default"
    /\ reservedUntil' = "passed"
    /\ UNCHANGED <<order, hold, delivered, payVars, jobs, proc, world, faults>>

-------------------------------------------------------------------------------

CreateStep(p) ==
    \/ CreateRow(p)
    \/ CreateConflict(p)
    \/ SyncReservation(p)
    \/ QueueVerify(p)

VerifyStep(p) ==
    \/ ReadPayment(p)
    \/ Poll(p)
    \/ WritePaid(p)
    \/ QueueCheck(p)
    \/ ExpireRead(p)
    \/ ExpireCommit(p)

ConfirmStep(p) ==
    \/ ReadDepth(p)
    \/ WriteConfirmations(p)
    \/ Requeue(p)
    \/ ConfirmCommit(p)
    \/ DeliverCheck(p)
    \/ ReadSoldLines(p)
    \/ HandOver(p)
    \/ QueueForward(p)

Start(p) ==
    \/ CreateCheck(p)
    \/ StartVerify(p)
    \/ StartPendingCron(p)
    \/ StartExpiry(p)
    \/ StartCheck(p)

Continue(p) == CreateStep(p) \/ VerifyStep(p) \/ ConfirmStep(p)

SweepStep == SweepCount \/ SweepRelease \/ SweepAbort

Environment ==
    \/ \E f \in {"short", "split", "enough"} : Transfer(f)
    \/ Mine
    \/ Reorganise
    \/ ClockTick
    \/ DefaultDeadlinePasses

Next ==
    \/ \E p \in Proc : Start(p) \/ Continue(p) \/ Fail(p) \/ Crash(p)
    \/ SweepStep
    \/ Environment

Spec == Init /\ [][Next]_vars

\* Calls that started go on; workers take queued jobs and the schedulers tick, however
\* busy the others are (Proc bounds the model, not the program); time passes, and
\* blocks are mined.  Nobody has to pay or to ask for a payment.
FairSpec ==
    /\ Spec
    /\ \A p \in Proc : WF_vars(Continue(p))
    /\ SF_vars(\E p \in Proc : StartVerify(p))
    /\ SF_vars(\E p \in Proc : StartCheck(p))
    /\ SF_vars(\E p \in Proc : StartPendingCron(p))
    /\ SF_vars(\E p \in Proc : StartExpiry(p))
    /\ WF_vars(SweepCount)
    /\ WF_vars(SweepRelease)
    /\ WF_vars(Mine)
    /\ WF_vars(ClockTick)
    /\ WF_vars(DefaultDeadlinePasses)

-------------------------------------------------------------------------------

Calls == [at : Steps, job : JobName \cup {"none"}, n : 0..Required]

DataOK ==
    /\ order \in OrderStatus
    /\ hold \in {"RESERVED", "RELEASED", "SOLD", "REFUNDED"}
    /\ reservedUntil \in {"default", "passed", "expiresAt"}
    /\ delivered \in {"no", "lines", "placeholder", "typed"}
    /\ payment \in PaymentStatus \cup {"NONE"}
    /\ txHash \in BOOLEAN
    /\ forwardTxHash \in BOOLEAN
    /\ jobs \in [JobName -> Nat]
    /\ clock \in {"active", "grace", "past"}
    /\ funds \in {"none", "short", "split", "enough"}
    /\ depth \in 0..Required
    /\ sweep \in {"rest", "counted", "late"}
    /\ sweptLate \in BOOLEAN
    /\ faults \in 0..MaxFaults

TypeOK == DataOK /\ proc \in [Proc -> Calls]

\* Nothing leaves the shop for a transfer that is missing, short or not final: an order
\* is completed, its lines are sold and its content is delivered only when one transfer
\* of the whole amount has all its confirmations, although the order of the polls, the
\* status writes and the reorganisations is open and no write tests the status.
CompletedIsPaid ==
    (order = "COMPLETED" \/ hold = "SOLD" \/ delivered # "no")
        => funds = "enough" /\ depth = Required

\* An expired payment never keeps goods off sale, whatever calls overlap its expiry.
ExpiredFreesStock == payment = "EXPIRED" => hold # "RESERVED"

\* "Only expire if still pending": a payment that was detected does not expire.
OnlyPendingExpires ==
    [][(payment # "EXPIRED" /\ payment' = "EXPIRED") => payment = "PENDING"]_vars

\* Once the reservation carries the payment's deadline, the buyer's lines are held for
\* them until that deadline: no late job, second call or sweep lets them go earlier, but
\* for a sweep that had counted them as stale by the old deadline before it moved.
StockWaitsForPayer ==
    (reservedUntil = "expiresAt" /\ clock = "active" /\ ~sweptLate)
        => hold \in {"RESERVED", "SOLD"}

\* The calls that will look at a detected payment again without anybody's help.
Watched ==
    \/ jobs["check"] > 0
    \/ \E p \in Proc : proc[p].at \in {"queueCheck", "depth", "count", "requeue", "confirm"}

\* "Don't throw - allow retry": a detected payment stays on somebody's list until it
\* is confirmed.  Only the job chain carries it on, no cron looks at PAID or CONFIRMING.
DetectedIsWatched == payment \in {"PAID", "CONFIRMING"} => Watched

\* A payment does not stay PENDING: it is detected, or the crons expire it.
PendingEnds == payment = "PENDING" ~> payment # "PENDING"

\* Reserved stock does not stay reserved: it is sold or goes back on sale, even when
\* the buyer never asks for a payment or the request dies half way.
StockSettles == hold = "RESERVED" ~> hold # "RESERVED"

\* A detected payment is confirmed, its order completed and its goods delivered.
DetectedIsDelivered == payment = "PAID" ~> (order = "COMPLETED" /\ delivered # "no")

\* deliveredContent is the "Actual content delivered": a buyer who paid in time gets
\* the lines reserved for them.
DeliveredIsContent == delivered # "placeholder"

-------------------------------------------------------------------------------
(* Three more statements that TLC refutes; README.md tells how.            *)

\* The deadline of an open payment, written to its lines, holds for them.
DeadlineHolds ==
    (reservedUntil = "expiresAt" /\ clock = "active") => hold \in {"RESERVED", "SOLD"}

\* "System continues checking expired payments within grace period" and "Prevents
\* premature expiration of late payments": a payment expires after its grace period.
GracePeriodHonoured ==
    [][(payment # "EXPIRED" /\ payment' = "EXPIRED") => clock = "past"]_vars

\* "Allows new payment only after grace period expires": a request that is let through
\* for that reason gets its payment.
RenewalSucceeds == [][\A p \in Proc : CreateConflict(p) => proc[p].n = 0]_vars

===============================================================================
