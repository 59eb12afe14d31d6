--------------------------------- MODULE Wallet --------------------------------
(***************************************************************************)
(* A user's wallet (wallet.service.ts): the balance, the ledger rows       *)
(* written beside it, and one crypto top-up, from createTopUp through      *)
(* checkTopUp and checkTopUpConfirmations (blockchain-monitor.service.ts)  *)
(* to processConfirmedTopUp.                                               *)
(*                                                                         *)
(* No call opens a transaction.  A balance change reads the wallet, writes *)
(* the balance it computed, and then inserts the ledger row; a process is  *)
(* one such call, and every await is a step of its own.                    *)
(***************************************************************************)
EXTENDS Integers

CONSTANTS
    Proc,         \* calls in progress at the same time
    Amounts,      \* sums of money, in cents
    TopUpAmount,  \* amountUsd of the top-up, in cents
    Required,     \* requiredConfirmations
    MaxChanges,   \* bound: balance changes asked for by orders and admins
    MaxFaults     \* bound: failed awaits, crashed workers and reorganisations

ASSUME AmountsAssumption == Amounts \subseteq Nat \ {0}
ASSUME TopUpAssumption == TopUpAmount \in Nat \ {0}
ASSUME RequiredAssumption == Required \in Nat \ {0}
ASSUME BoundAssumption == MaxChanges \in Nat /\ MaxFaults \in Nat

VARIABLES
    balance,       \* UserWallet.balance
    recorded,      \* what the ledger rows add up to (an adjustment with the sign of its change)
    credits,       \* what the balance writes added so far (history)
    topUpCredits,  \* how many of them were the top-up's (history)
    changes,       \* balance changes asked for so far
    topUp,         \* WalletTopUp.status, "NONE" before the row exists
    txHash,        \* is the incoming transaction recorded?
    creditedAt,    \* is the credit recorded?
    jobs,          \* Bull queue: how many jobs of each name
    proc,          \* process -> where the call is and what it holds
    clock,         \* against expiresAt: before it, in the grace period, past that
    funds,         \* at the payment address
    depth,         \* confirmations of the latest transfer, counted up to Required
    faults         \* faults so far

money == <<balance, recorded, credits, topUpCredits, changes>>
topUpVars == <<topUp, txHash, creditedAt>>
world == <<clock, funds, depth>>
vars == <<money, topUpVars, jobs, proc, world, faults>>

TopUpStatus == {"NONE", "PENDING", "PAID", "CONFIRMING", "CONFIRMED", "EXPIRED"}
JobName == {"verify", "check"}
Steps == {"rest", "write", "row", "queueVerify", "read", "poll", "paid", "queueCheck", "expire",
          "expireWrite", "depth", "count", "requeue", "confirm", "credit", "wallet", "mark"}

\* at: the next await; job: whose call it is; n: the confirmations or the balance it
\* computed; delta: the change of the balance.
Rest == [at |-> "rest", job |-> "none", n |-> 0, delta |-> 0]

\* createWallet starts at zero; getWallet creates the row on first use.
Init ==
    /\ balance = 0 /\ recorded = 0 /\ credits = 0 /\ topUpCredits = 0 /\ changes = 0
    /\ topUp = "NONE"
    /\ txHash = FALSE
    /\ creditedAt = FALSE
    /\ jobs = [j \in JobName |-> 0]
    /\ proc = [p \in Proc |-> Rest]
    /\ clock = "active"
    /\ funds = "none"
    /\ depth = 0
    /\ faults = 0

-------------------------------------------------------------------------------

Overdue == clock # "active"

Call(at, job, n, delta) == [at |-> at, job |-> job, n |-> n, delta |-> delta]

Begin(p, at, job) ==
    /\ proc[p] = Rest
    /\ proc' = [proc EXCEPT ![p] = Call(at, job, 0, 0)]

Goto(p, at, n, delta) == proc' = [proc EXCEPT ![p] = Call(at, proc[p].job, n, delta)]

Return(p) == proc' = [proc EXCEPT ![p] = Rest]

Enqueue(j) == jobs' = [jobs EXCEPT ![j] = @ + 1]

Dequeue(j) ==
    /\ jobs[j] > 0
    /\ jobs' = [jobs EXCEPT ![j] = @ - 1]

-------------------------------------------------------------------------------
(* Balance changes                                                         *)

\* The call has read the wallet and computed the new balance from it.
ReadWallet(p, delta) ==
    /\ changes < MaxChanges
    /\ changes' = changes + 1
    /\ proc[p] = Rest
    /\ proc' = [proc EXCEPT ![p] = Call("write", "none", balance + delta, delta)]
    /\ UNCHANGED <<balance, recorded, credits, topUpCredits, topUpVars, jobs, world, faults>>

AddBalance(p, a) == ReadWallet(p, a)

RefundBalance(p, a) == ReadWallet(p, a)

DeductBalance(p, a) == balance >= a /\ ReadWallet(p, 0 - a)

\* adjustBalance, by a positive or a negative amount; the result may not be negative.
AdjustBalance(p, delta) == balance + delta >= 0 /\ ReadWallet(p, delta)

\* Faulty variant: the computed balance is given to an increment.
WriteIncrement(p) ==
    /\ proc[p].at = "write"
    /\ balance' = balance + proc[p].n
    /\ credits' = IF proc[p].delta > 0 THEN credits + proc[p].delta ELSE credits
    /\ topUpCredits' = IF proc[p].job = "check" THEN topUpCredits + 1 ELSE topUpCredits
    /\ Goto(p, "row", 0, proc[p].delta)
    /\ UNCHANGED <<recorded, changes, topUpVars, jobs, world, faults>>

\* userWallet.update sets the balance that was computed, whatever it is by now.
WriteBalance(p) ==
    /\ proc[p].at = "write"
    /\ balance' = proc[p].n
    /\ credits' = IF proc[p].delta > 0 THEN credits + proc[p].delta ELSE credits
    /\ topUpCredits' = IF proc[p].job = "check" THEN topUpCredits + 1 ELSE topUpCredits
    /\ Goto(p, "row", 0, proc[p].delta)
    /\ UNCHANGED <<recorded, changes, topUpVars, jobs, world, faults>>

\* createTransaction, and back to the caller: processConfirmedTopUp goes on.
WriteRow(p) ==
    /\ proc[p].at = "row"
    /\ recorded' = recorded + proc[p].delta
    /\ IF proc[p].job = "check" THEN Goto(p, "mark", 0, 0) ELSE Return(p)
    /\ UNCHANGED <<balance, credits, topUpCredits, changes, topUpVars, jobs, world, faults>>

-------------------------------------------------------------------------------
(* createTopUp and checkTopUp                                              *)

CreateTopUp(p) ==
    /\ topUp = "NONE"
    /\ Begin(p, "queueVerify", "none")
    /\ topUp' = "PENDING"
    /\ UNCHANGED <<money, txHash, creditedAt, jobs, world, faults>>

QueueVerify(p) ==
    /\ proc[p].at = "queueVerify"
    /\ Enqueue("verify")
    /\ Return(p)
    /\ UNCHANGED <<money, topUpVars, world, faults>>

\* A verify-topup job...
StartVerify(p) ==
    /\ Dequeue("verify")
    /\ Begin(p, "read", "verify")
    /\ UNCHANGED <<money, topUpVars, world, faults>>

\* ...or checkPendingWalletTopUps, every minute, with the grace period.
StartPendingCron(p) ==
    /\ topUp = "PENDING"
    /\ clock # "past"
    /\ Begin(p, "read", "none")
    /\ UNCHANGED <<money, topUpVars, jobs, world, faults>>

ReadTopUp(p) ==
    /\ proc[p].at = "read"
    /\ IF topUp # "PENDING" THEN Return(p)
       ELSE Goto(p, IF Overdue THEN "expire" ELSE "poll", 0, 0)
    /\ UNCHANGED <<money, topUpVars, jobs, world, faults>>

\* Balance and latest transaction.  One below the minimum is refused by itself, a
\* missing one is not verified.  n = 1: has a hash.
Poll(p) ==
    /\ proc[p].at = "poll"
    /\ \/ funds = "enough" /\ Goto(p, "paid", 1, 0)
       \/ funds \in {"split", "enough"} /\ Goto(p, "paid", 0, 0)
       \/ funds # "enough" /\ Return(p)
    /\ UNCHANGED <<money, topUpVars, jobs, world, faults>>

WritePaid(p) ==
    /\ proc[p].at = "paid"
    /\ topUp' = "PAID"
    /\ txHash' = (proc[p].n = 1)
    /\ Goto(p, "queueCheck", 0, 0)
    /\ UNCHANGED <<money, creditedAt, jobs, world, faults>>

QueueCheck(p) ==
    /\ proc[p].at = "queueCheck"
    /\ Enqueue("check")
    /\ Return(p)
    /\ UNCHANGED <<money, topUpVars, world, faults>>

\* Faulty variant: the cron compares expiresAt the wrong way round.
ExpireUnexpired(p) ==
    /\ topUp = "PENDING"
    /\ ~Overdue
    /\ Begin(p, "expire", "none")
    /\ UNCHANGED <<money, topUpVars, jobs, world, faults>>

\* handleExpiredWalletTopUpsCron
StartExpiry(p) ==
    /\ topUp = "PENDING"
    /\ Overdue
    /\ Begin(p, "expire", "none")
    /\ UNCHANGED <<money, topUpVars, jobs, world, faults>>

\* expireWalletTopUp reads the status again, and writes EXPIRED by id.
ExpireRead(p) ==
    /\ proc[p].at = "expire"
    /\ IF topUp = "PENDING" THEN Goto(p, "expireWrite", 0, 0) ELSE Return(p)
    /\ UNCHANGED <<money, topUpVars, jobs, world, faults>>

ExpireWrite(p) ==
    /\ proc[p].at = "expireWrite"
    /\ topUp' = "EXPIRED"
    /\ Return(p)
    /\ UNCHANGED <<money, txHash, creditedAt, jobs, world, faults>>

-------------------------------------------------------------------------------
(* checkTopUpConfirmations and processConfirmedTopUp                       *)

StartCheck(p) ==
    /\ Dequeue("check")
    /\ IF topUp = "CONFIRMED" \/ ~txHash THEN proc[p] = Rest /\ UNCHANGED proc
       ELSE Begin(p, "depth", "check")
    /\ UNCHANGED <<money, topUpVars, world, faults>>

ReadDepth(p) ==
    /\ proc[p].at = "depth"
    /\ Goto(p, "count", depth, 0)
    /\ UNCHANGED <<money, topUpVars, jobs, world, faults>>

\* Faulty variant: one confirmation too few is enough.
CountTooFew(p) ==
    /\ proc[p].at = "count"
    /\ topUp' = IF proc[p].n > 0 THEN "CONFIRMING" ELSE "PAID"
    /\ Goto(p, IF proc[p].n + 1 >= Required THEN "confirm" ELSE "requeue", 0, 0)
    /\ UNCHANGED <<money, txHash, creditedAt, jobs, world, faults>>

\* The count decides the status, whatever the status is by now.
WriteConfirmations(p) ==
    /\ proc[p].at = "count"
    /\ topUp' = IF proc[p].n > 0 THEN "CONFIRMING" ELSE "PAID"
    /\ Goto(p, IF proc[p].n >= Required THEN "confirm" ELSE "requeue", 0, 0)
    /\ UNCHANGED <<money, txHash, creditedAt, jobs, world, faults>>

Requeue(p) ==
    /\ proc[p].at = "requeue"
    /\ Enqueue("check")
    /\ Return(p)
    /\ UNCHANGED <<money, topUpVars, world, faults>>

ConfirmWrite(p) ==
    /\ proc[p].at = "confirm"
    /\ topUp' = "CONFIRMED"
    /\ Goto(p, "credit", 0, 0)
    /\ UNCHANGED <<money, txHash, creditedAt, jobs, world, faults>>

\* processConfirmedTopUp: once, as far as this read can tell.
CreditRead(p) ==
    /\ proc[p].at = "credit"
    /\ IF topUp = "CONFIRMED" /\ ~creditedAt THEN Goto(p, "wallet", 0, 0) ELSE Return(p)
    /\ UNCHANGED <<money, topUpVars, jobs, world, faults>>

\* addBalance reads the wallet for itself.
CreditBalance(p) ==
    /\ proc[p].at = "wallet"
    /\ Goto(p, "write", balance + TopUpAmount, TopUpAmount)
    /\ UNCHANGED <<money, topUpVars, jobs, world, faults>>

MarkCredited(p) ==
    /\ proc[p].at = "mark"
    /\ creditedAt' = TRUE
    /\ Return(p)
    /\ UNCHANGED <<money, topUp, txHash, jobs, world, faults>>

-------------------------------------------------------------------------------
(* What goes wrong, and what the buyer, the chain and the clock do.        *)

\* A failed await: an error to the caller of a balance change, and a logged one in the
\* jobs, whose handlers return as if they were done.
Fail(p) ==
    /\ faults < MaxFaults
    /\ proc[p] # Rest
    /\ faults' = faults + 1
    /\ Return(p)
    /\ UNCHANGED <<money, topUpVars, jobs, world>>

\* The worker dies.  Bull finds its job stalled and queues it again.
Crash(p) ==
    /\ faults < MaxFaults
    /\ proc[p] # Rest
    /\ faults' = faults + 1
    /\ IF proc[p].job \in JobName THEN Enqueue(proc[p].job) ELSE UNCHANGED jobs
    /\ Return(p)
    /\ UNCHANGED <<money, topUpVars, world>>

\* At once, or too little and then the rest, which leaves a latest transaction below
\* the minimum ("split").
Transfer(f) ==
    /\ topUp # "NONE"
    /\ <<funds, f>> \in {<<"none", "short">>, <<"none", "enough">>, <<"short", "split">>,
                         <<"short", "enough">>, <<"split", "enough">>}
    /\ funds' = f
    /\ UNCHANGED <<money, topUpVars, jobs, proc, clock, depth, faults>>

Mine ==
    /\ funds = "enough" /\ depth < Required
    /\ depth' = depth + 1
    /\ UNCHANGED <<money, topUpVars, jobs, proc, clock, funds, faults>>

\* A transfer that is not yet final goes back to the mempool.
Reorganise ==
    /\ faults < MaxFaults
    /\ 0 < depth /\ depth < Required
    /\ depth' = 0
    /\ faults' = faults + 1
    /\ UNCHANGED <<money, topUpVars, jobs, proc, clock, funds>>

ClockTick ==
    /\ topUp # "NONE"
    /\ \/ clock = "active" /\ clock' = "grace"
       \/ clock = "grace" /\ clock' = "past"
    /\ UNCHANGED <<money, topUpVars, jobs, proc, funds, depth, faults>>

-------------------------------------------------------------------------------

ChangeStart(p) ==
    \/ \E a \in Amounts : AddBalance(p, a)
    \/ \E a \in Amounts : RefundBalance(p, a)
    \/ \E a \in Amounts : DeductBalance(p, a)
    \/ \E a \in Amounts : AdjustBalance(p, a) \/ AdjustBalance(p, 0 - a)

TopUpStart(p) ==
    \/ CreateTopUp(p)
    \/ StartVerify(p)
    \/ StartPendingCron(p)
    \/ StartExpiry(p)
    \/ StartCheck(p)

CheckStep(p) ==
    \/ QueueVerify(p)
    \/ ReadTopUp(p)
    \/ Poll(p)
    \/ WritePaid(p)
    \/ QueueCheck(p)
    \/ ExpireRead(p)
    \/ ExpireWrite(p)

CreditStep(p) ==
    \/ ReadDepth(p)
    \/ WriteConfirmations(p)
    \/ Requeue(p)
    \/ ConfirmWrite(p)
    \/ CreditRead(p)
    \/ CreditBalance(p)
    \/ WriteBalance(p)
    \/ WriteRow(p)
    \/ MarkCredited(p)

Continue(p) == CheckStep(p) \/ CreditStep(p)

Environment ==
    \/ \E f \in {"short", "split", "enough"} : Transfer(f)
    \/ Mine
    \/ Reorganise
    \/ ClockTick

Next ==
    \/ \E p \in Proc : ChangeStart(p) \/ TopUpStart(p) \/ Continue(p) \/ Fail(p) \/ Crash(p)
    \/ Environment

Spec == Init /\ [][Next]_vars

\* Calls that started go on, workers take queued jobs and the schedulers tick however
\* busy the others are, time passes and blocks are mined.  Nobody has to pay.
FairSpec ==
    /\ Spec
    /\ \A p \in Proc : WF_vars(Continue(p))
    /\ SF_vars(\E p \in Proc : StartVerify(p))
    /\ SF_vars(\E p \in Proc : StartCheck(p))
    /\ SF_vars(\E p \in Proc : StartPendingCron(p))
    /\ SF_vars(\E p \in Proc : StartExpiry(p))
    /\ WF_vars(Mine)
    /\ WF_vars(ClockTick)

-------------------------------------------------------------------------------

Calls == [at : Steps, job : JobName \cup {"none"}, n : Nat, delta : Int]

TypeOK ==
    /\ balance \in Nat
    /\ recorded \in Int
    /\ credits \in Nat
    /\ topUpCredits \in Nat
    /\ changes \in 0..MaxChanges
    /\ topUp \in TopUpStatus
    /\ txHash \in BOOLEAN
    /\ creditedAt \in BOOLEAN
    /\ jobs \in [JobName -> Nat]
    /\ proc \in [Proc -> Calls]
    /\ clock \in {"active", "grace", "past"}
    /\ funds \in {"none", "short", "split", "enough"}
    /\ depth \in 0..Required
    /\ faults \in 0..MaxFaults

Quiet == \A p \in Proc : proc[p] = Rest

\* Overlapping changes may lose one another, but never make money: a wallet holds no
\* less than nothing and no more than was ever added to it, although every call writes
\* a balance computed from what it read earlier.
BalanceIsFunded == 0 <= balance /\ balance <= credits

\* A top-up is credited only for one transfer of the whole amount with all its
\* confirmations, whatever the interleaving of polls, expiries and reorganisations.
CreditIsPaid == (topUpCredits > 0 \/ creditedAt) => funds = "enough" /\ depth = Required

\* A top-up does not stay PENDING: it is detected, or the crons expire it.
PendingTopUpEnds == topUp = "PENDING" ~> topUp # "PENDING"

\* The balance a row stores is the "Balance after transaction": when nobody is at work
\* and nothing failed, the rows account for the balance.
BalanceIsLedger == (Quiet /\ faults = 0) => balance = recorded

-------------------------------------------------------------------------------
(* Two more statements of the code that TLC refutes; README.md tells how.  *)

\* "topUp.creditedAt != null", and processConfirmedTopUp returns: a top-up is credited
\* at most once.
CreditedOnce == topUpCredits <= 1

\* "credit wallet balance on confirmed payment": once a top-up is CONFIRMED, its credit
\* has been written or some call is about to write it.
ConfirmedIsCredited ==
    topUp = "CONFIRMED" =>
        \/ topUpCredits > 0
        \/ \E p \in Proc : proc[p].at \in {"credit", "wallet", "write"} /\ proc[p].job = "check"

===============================================================================
