--------------------------- MODULE PaymentForwarding ---------------------------
(***************************************************************************)
(* CryptoPayment together with the forwarding of what was paid to the      *)
(* platform wallet: forwardPayment and ensureGasAvailable                  *)
(* (payment-forwarding.service.ts), the forward-payment job                *)
(* (payment-forwarding.processor.ts) and the admin's forward request       *)
(* (crypto-payment.admin.controller.ts).  The processes, the payment row   *)
(* and the faults are those of CryptoPayment, so that a forward overlaps   *)
(* the checks of the same payment.                                         *)
(***************************************************************************)
EXTENDS CryptoPayment

CONSTANTS
    NeedsGas,       \* is it a token, whose transfer is paid in another coin?
    AdminForwards,  \* does an admin ask for forwards?
    MaxAttempts     \* bound: how often Bull runs failing forward jobs again

ASSUME NeedsGasAssumption == NeedsGas \in BOOLEAN
ASSUME AdminForwardsAssumption == AdminForwards \in BOOLEAN
ASSUME AttemptsAssumption == MaxAttempts \in Nat

VARIABLES
    swept,           \* have the coins left for the platform wallet?
    gas,             \* coin for the fee: missing, on its way, there
    gasTopUpTxHash,  \* is a top-up recorded in the metadata?
    attempts         \* retries of forward jobs so far

fwdVars == <<swept, gas, gasTopUpTxHash, attempts>>
allVars == <<vars, fwdVars>>

ForwardSteps == {"fwdRead", "fwdMark", "fwdGas", "recordTopUp", "send", "recordForward",
                 "fwdFail", "fwdRetry"}

FwdInit ==
    /\ Init
    /\ swept = FALSE
    /\ gas = IF NeedsGas THEN "missing" ELSE "there"
    /\ gasTopUpTxHash = FALSE
    /\ attempts = 0

-------------------------------------------------------------------------------
(* Who calls forwardPayment                                                *)


\* handleForwardPayment: the job is dropped unless the payment can be forwarded.
StartForward(p) ==
    /\ Dequeue("forward")
    /\ IF payment \in {"CONFIRMED", "FORWARDING"} /\ ~forwardTxHash
       THEN Begin(p, "fwdRead", "forward", 0)
       ELSE proc[p] = Rest /\ UNCHANGED proc
    /\ UNCHANGED <<goods, payVars, world, faults, fwdVars>>

\* The admin's request calls the service without these conditions.
StartAdminForward(p) ==
    /\ AdminForwards
    /\ payment # "NONE"
    /\ Begin(p, "fwdRead", "none", 0)
    /\ UNCHANGED <<goods, payVars, jobs, world, faults, fwdVars>>

-------------------------------------------------------------------------------
(* forwardPayment                                                          *)

\* Faulty variant: a detected payment is forwarded before it is confirmed.
ReadForPaid(p) ==
    /\ proc[p].at = "fwdRead"
    /\ CASE payment \in {"PAID", "CONFIRMING", "CONFIRMED", "FORWARDING"} -> Goto(p, "fwdMark", 0)
         [] payment = "FORWARDED" -> Return(p)
         [] OTHER -> Goto(p, "fwdFail", 0)
    /\ UNCHANGED <<goods, payVars, jobs, world, faults, fwdVars>>

\* The status decides; the refusal is thrown inside the try block that handles every
\* other failure.  n = 1: the metadata read here names a gas top-up.
FwdRead(p) ==
    /\ proc[p].at = "fwdRead"
    /\ CASE payment \in {"CONFIRMED", "FORWARDING"} ->
              Goto(p, "fwdMark", IF gasTopUpTxHash THEN 1 ELSE 0)
         [] payment = "FORWARDED" -> Return(p)
         [] OTHER -> Goto(p, "fwdFail", 0)
    /\ UNCHANGED <<goods, payVars, jobs, world, faults, fwdVars>>

FwdMark(p) ==
    /\ proc[p].at = "fwdMark"
    /\ payment' = "FORWARDING"
    /\ Goto(p, "fwdGas", proc[p].n)
    /\ UNCHANGED <<goods, txHash, forwardTxHash, jobs, world, faults, fwdVars>>

\* ensureGasAvailable: go on, top up, or wait for the top-up of an earlier attempt.
FwdGas(p) ==
    /\ proc[p].at = "fwdGas"
    /\ \/ gas = "there" /\ Goto(p, "send", 0) /\ UNCHANGED gas
       \/ gas # "there" /\ proc[p].n = 0 /\ Goto(p, "recordTopUp", 0) /\ gas' = "sent"
       \/ gas # "there" /\ proc[p].n = 1 /\ Goto(p, "fwdRetry", 0) /\ UNCHANGED gas
    /\ UNCHANGED <<goods, payVars, jobs, world, faults, swept, gasTopUpTxHash, attempts>>

RecordTopUp(p) ==
    /\ proc[p].at = "recordTopUp"
    /\ gasTopUpTxHash' = TRUE
    /\ Goto(p, "fwdRetry", 0)
    /\ UNCHANGED <<goods, payVars, jobs, world, faults, swept, gas, attempts>>

\* Faulty variant: the status is written before the transfer.
SendLater(p) ==
    /\ proc[p].at = "send"
    /\ payment' = "FORWARDED"
    /\ forwardTxHash' = TRUE
    /\ Goto(p, "recordForward", 0)
    /\ UNCHANGED <<goods, txHash, jobs, world, faults, fwdVars>>

\* The transfer moves all there is, so a second one has nothing to move and throws.
Send(p) ==
    /\ proc[p].at = "send"
    /\ swept' = TRUE
    /\ IF swept THEN Goto(p, "fwdFail", 1) ELSE Goto(p, "recordForward", 0)
    /\ UNCHANGED <<goods, payVars, jobs, world, faults, gas, gasTopUpTxHash, attempts>>

RecordForward(p) ==
    /\ proc[p].at = "recordForward"
    /\ payment' = "FORWARDED"
    /\ forwardTxHash' = TRUE
    /\ Return(p)
    /\ UNCHANGED <<goods, txHash, jobs, world, faults, fwdVars>>

\* The catch block writes FORWARDING_FAILED over whatever the status is by now; a
\* validation error (n = 0) is not retried.
FwdFail(p) ==
    /\ proc[p].at = "fwdFail"
    /\ payment' = "FORWARDING_FAILED"
    /\ IF proc[p].n = 0 THEN Return(p) ELSE Goto(p, "fwdRetry", 0)
    /\ UNCHANGED <<goods, txHash, forwardTxHash, jobs, world, faults, fwdVars>>

\* The job throws and Bull queues it again; a request just fails.
FwdRetry(p) ==
    /\ proc[p].at = "fwdRetry"
    /\ IF proc[p].job = "forward" /\ attempts < MaxAttempts
       THEN Enqueue("forward") /\ attempts' = attempts + 1
       ELSE UNCHANGED <<jobs, attempts>>
    /\ Return(p)
    /\ UNCHANGED <<goods, payVars, world, faults, swept, gas, gasTopUpTxHash>>

\* A failed await: into the catch block, and from there to the retry.
FwdFault(p) ==
    /\ faults < MaxFaults
    /\ proc[p].at \in ForwardSteps \ {"fwdRetry"}
    /\ faults' = faults + 1
    /\ IF proc[p].at = "fwdFail" THEN Goto(p, "fwdRetry", 0) ELSE Goto(p, "fwdFail", 1)
    /\ UNCHANGED <<goods, payVars, jobs, world, fwdVars>>

GasArrives ==
    /\ gas = "sent"
    /\ gas' = "there"
    /\ UNCHANGED <<vars, swept, gasTopUpTxHash, attempts>>

-------------------------------------------------------------------------------

ForwardStep(p) ==
    \/ FwdRead(p)
    \/ FwdMark(p)
    \/ FwdGas(p)
    \/ RecordTopUp(p)
    \/ Send(p)
    \/ RecordForward(p)
    \/ FwdFail(p)
    \/ FwdRetry(p)

\* What the payment does by itself.  Its failure handling is that of its own steps.
PaymentStep ==
    /\ \/ \E p \in Proc : Start(p) \/ Continue(p) \/ Crash(p)
       \/ \E p \in Proc : proc[p].at \in Steps /\ Fail(p)
       \/ SweepStep
       \/ Environment
    /\ UNCHANGED fwdVars

FwdNext ==
    \/ PaymentStep
    \/ \E p \in Proc : \/ StartForward(p)
                       \/ StartAdminForward(p)
                       \/ ForwardStep(p)
                       \/ FwdFault(p)
    \/ GasArrives

FwdSpec == FwdInit /\ [][FwdNext]_allVars

\* The fairness of CryptoPayment, and the same for the forwarding.
FairFwdSpec ==
    /\ FwdSpec
    /\ \A p \in Proc : WF_allVars((Continue(p) /\ UNCHANGED fwdVars) \/ ForwardStep(p))
    /\ SF_allVars(\E p \in Proc : StartCheck(p) /\ UNCHANGED fwdVars)
    /\ SF_allVars(\E p \in Proc : StartForward(p))
    /\ WF_allVars(Mine /\ UNCHANGED fwdVars)

-------------------------------------------------------------------------------

FwdTypeOK ==
    /\ DataOK
    /\ proc \in [Proc -> [at : Steps \cup ForwardSteps, job : JobName \cup {"none"}, n : 0..Required]]
    /\ swept \in BOOLEAN
    /\ gas \in {"missing", "sent", "there"}
    /\ gasTopUpTxHash \in BOOLEAN
    /\ attempts \in 0..MaxAttempts

\* Coins leave the payment address only for a payment that was confirmed, with the
\* whole amount and every confirmation, and after its order was completed: no stale
\* status write, admin request or retry forwards a payment that is still open.
ForwardedIsPaid == swept => order = "COMPLETED" /\ funds = "enough" /\ depth = Required

\* The payment says "Successfully forwarded", or names an outgoing transaction, only
\* when the coins have left, whatever attempt wrote it last.
ForwardedIsSwept == (payment = "FORWARDED" \/ forwardTxHash) => swept

\* "Retries failed forwards with backoff": coins of a completed order that could not
\* be forwarded are forwarded in the end.
FailedIsRetried == payment = "FORWARDING_FAILED" ~> swept


-------------------------------------------------------------------------------
(* Two more statements of the schema and the code that TLC refutes; README.md tells *)
(* how.                                                                    *)

\* "Forwarding to platform wallet failed": this status is never written over a
\* forward that did happen.
FailedIsNotForwarded == payment = "FORWARDING_FAILED" => ~swept

\* "Payment must be CONFIRMED or FORWARDING before forwarding": a refused forward
\* leaves a payment that is still open as it is.
RefusalChangesNothing ==
    [][(payment \in {"PENDING", "PAID", "CONFIRMING"})
         => payment' # "FORWARDING_FAILED"]_allVars

===============================================================================
