-------------------------------- MODULE Transfers ------------------------------
(***************************************************************************)
(* Amounts of one payment on its chain, as the blockchain providers report *)
(* and move them: how a payment is detected and its confirmations counted  *)
(* (blockchain-monitor.service.ts), how the coin for a token's fee is      *)
(* topped up (hot-wallet.service.ts) and what is forwarded                 *)
(* (payment-forwarding.service.ts).  The statuses, jobs and faults around  *)
(* these calls are those of CryptoPayment and PaymentForwarding; here the  *)
(* amounts, prices and heights count that they leave out.                  *)
(***************************************************************************)
EXTENDS Calls, Sequences, FiniteSetsExt

CONSTANTS
    Coin,        \* kinds of coin: "UTXO" (BTC, LTC, BCH), "ETH", "ERC20", "TRC20"
    Amounts,     \* what the customer, or anybody, may transfer to the address at a time
    Asked,       \* CryptoPayment.amount
    Tolerance,   \* partialPaymentTolerancePercent
    RequiredDepth, \* requiredConfirmations
    GasLimit,    \* crypto.gas.gasLimit: of a native transfer
    TokenGas,    \* what the node may answer when it simulates a token's transfer
    FallbackGas, \* what estimateERC20TransferGas says when the simulation fails
    GasBuffer,   \* per cent: ethFeeBufferPercent and hotWallet.eth.gasBuffer
    Prices,      \* maxFeePerGas
    UtxoFee,     \* the fixed fee of BitcoinProvider.sendTransaction
    MinTrx,      \* MIN_TRX_SUN_FOR_TRC20_FORWARD
    TrxTopUp,    \* hotWallet.trx.trxTopUpAmount
    MaxTransfers, MaxHeight   \* bounds: transfers to the address, blocks

ASSUME TransfersAssumption ==
    /\ Coin \subseteq {"UTXO", "ETH", "ERC20", "TRC20"}
    /\ Amounts \subseteq Nat
    /\ Prices \subseteq Nat \ {0} /\ Prices # {}
    /\ TokenGas \subseteq Nat
    /\ Asked \in Nat \ {0}     \* createPayment refuses an order of nothing
    /\ Tolerance \in 0 .. 99   \* a part is always asked for
    /\ {RequiredDepth, GasLimit, FallbackGas, GasBuffer, UtxoFee, MinTrx, TrxTopUp} \subseteq Nat
    /\ MinTrx <= TrxTopUp
    /\ {MaxTransfers, MaxHeight} \subseteq Nat

VARIABLES
    coin,
    received,    \* transfers to the address, the block of each, 0 while it is in none
    funds,       \* what is at the address: incoming less outgoing
    moved,       \* what has left the address, fees in the same coin included
    gas,         \* coin for a token's fees at the address
    gasComing,   \* top-ups that are in no block yet
    height,      \* of the chain
    maxFee,      \* maxFeePerGas
    pay,         \* the payment's status, its transaction and the confirmations stored
    topUp        \* metadata.gasTopUpTxHash: the gas and the price the top-up was computed from

chainVars == <<coin, received, gasComing, height, maxFee>>
transferVars == <<chainVars, funds, moved, gas, pay, topUp>>

TransferSteps == {"balance", "latest", "detect", "block", "height", "count", "confirm",
                  "estimate", "gas", "topUp", "amount", "send"}

\* What calcEthTopUp may take a token's transfer to need.
Estimates == TokenGas \cup {FallbackGas}

\* A price of 0 stands for no hash in the metadata.
NoTopUp == [estimate |-> 0, price |-> 0]

TransfersInit ==
    /\ coin \in Coin
    /\ received = <<>>
    /\ funds = 0
    /\ moved = 0
    /\ gas = 0
    /\ gasComing = 0
    /\ height = 0
    /\ maxFee \in Prices
    /\ pay = [status |-> "PENDING", tx |-> 0, depth |-> 0]
    /\ topUp = NoTopUp

-------------------------------------------------------------------------------
(* The chain                                                               *)

\* Somebody transfers to the address: the customer, in one go or several, or the hot wallet
\* for a token's payment that shares it.
Transfer ==
    /\ Len(received) < MaxTransfers
    /\ \E a \in Amounts : /\ received' = Append(received, [amount |-> a, block |-> 0])
                          /\ funds' = funds + a
    /\ UNCHANGED <<coin, moved, gas, gasComing, height, maxFee, pay, topUp, callVars>>

Mine ==
    /\ height < MaxHeight
    /\ height' = height + 1
    /\ received' = [n \in DOMAIN received |->
                       IF received[n].block = 0 THEN [received[n] EXCEPT !.block = height']
                       ELSE received[n]]
    /\ gas' = gas + gasComing
    /\ gasComing' = 0
    /\ UNCHANGED <<coin, funds, moved, maxFee, pay, topUp, callVars>>

\* The price of gas, where the forward depends on it.
FeeMoves ==
    /\ coin \in {"ETH", "ERC20"}
    /\ maxFee' \in Prices \ {maxFee}
    /\ UNCHANGED <<coin, received, funds, moved, gas, gasComing, height, pay, topUp, callVars>>

\* Where TRC-20 is asked for with onlyConfirmed, the others list what is in no block too.
Listed == {n \in DOMAIN received : coin = "TRC20" => received[n].block > 0}

\* currentBlockHeight - tx.blockNumber + 1
ConfirmationsAt(block, top) == IF top - block + 1 > 0 THEN top - block + 1 ELSE 0

-------------------------------------------------------------------------------
(* Detection                                                               *)

\* A call's local variables: a transfer and an amount, and of a forward the metadata read with
\* the payment, the gas and the price its fee was computed from and the gas a token's
\* transaction is given.
Nothing ==
    [n |-> 0, amount |-> 0, metadata |-> NoTopUp, estimate |-> 0, price |-> 0, limit |-> 0]

Holding(step, held) ==
    [at |-> step, n |-> held.n, amount |-> held.amount, metadata |-> held.metadata,
     estimate |-> held.estimate, price |-> held.price, limit |-> held.limit]

\* A call goes on to its next await, keeping what it holds.
Continue(p, step, held) == Goto(p, Holding(step, held))

BeginTransfer(p, step, held) == Begin(p, Holding(step, held))

MinAcceptable(amount) == 100 * amount >= (100 - Tolerance) * Asked

CheckPayment(p) ==
    /\ pay.status = "PENDING"
    /\ BeginTransfer(p, "balance", Nothing)
    /\ UNCHANGED transferVars

\* getBalance: incoming less outgoing, read before the transaction is; an error ends the check.
GetBalance(p) ==
    /\ At(p, "balance")
    /\ \/ Continue(p, "latest", [Nothing EXCEPT !.amount = funds])
       \/ Return(p)
    /\ UNCHANGED transferVars

\* getTransactionByAddress: the latest transfer to the address alone.
GetTransactionByAddress(p) ==
    /\ At(p, "latest")
    /\ \/ Continue(p, "detect",
                   [calls[p] EXCEPT !.n = IF Listed = {} THEN 0 ELSE Max(Listed)])
       \/ Return(p)
    /\ UNCHANGED transferVars

\* Faulty variant: the transaction's amount is not compared.
AcceptsAny(c) == MinAcceptable(c.amount)

\* The balance suffices, and so does the transaction for itself (verifyTransaction).
Accepts(c) ==
    /\ MinAcceptable(c.amount)
    /\ c.n > 0 => MinAcceptable(received[c.n].amount)

\* The update is made whatever the row has become since it was read.
Detect(p) ==
    /\ At(p, "detect")
    /\ IF Accepts(calls[p]) THEN pay' = [status |-> "PAID", tx |-> calls[p].n, depth |-> 0]
       ELSE UNCHANGED pay
    /\ Return(p)
    /\ UNCHANGED <<chainVars, funds, moved, gas, topUp>>

-------------------------------------------------------------------------------
(* Confirmations                                                           *)

CheckConfirmations(p) ==
    /\ pay.tx > 0
    /\ pay.status # "CONFIRMED"
    /\ BeginTransfer(p, "block", [Nothing EXCEPT !.n = pay.tx])
    /\ UNCHANGED transferVars

\* The awaits of getTransactionConfirmations fail with an error or, on Ethereum and Tron, with 0.
ConfirmationsFail(p) ==
    IF coin = "UTXO" THEN Return(p) ELSE Continue(p, "count", [calls[p] EXCEPT !.amount = 0])

TransactionBlock(p) ==
    LET block == received[calls[p].n].block
    IN  /\ At(p, "block")
        /\ \/ ConfirmationsFail(p)
           \/ block = 0 /\ Continue(p, "count", [calls[p] EXCEPT !.amount = 0])
           \/ block > 0 /\ Continue(p, "height", [calls[p] EXCEPT !.amount = block])
        /\ UNCHANGED transferVars

CurrentHeight(p) ==
    /\ At(p, "height")
    /\ \/ ConfirmationsFail(p)
       \/ Continue(p, "count", [calls[p] EXCEPT !.amount = ConfirmationsAt(calls[p].amount, height)])
    /\ UNCHANGED transferVars

\* The count is stored with its status, and with the last one confirmPayment begins.
StoreCount(p) ==
    LET count == calls[p].amount
    IN  /\ At(p, "count")
        /\ pay' = [pay EXCEPT !.depth = count, !.status = IF count > 0 THEN "CONFIRMING" ELSE "PAID"]
        /\ IF count >= RequiredDepth THEN Continue(p, "confirm", Nothing) ELSE Return(p)
        /\ UNCHANGED <<chainVars, funds, moved, gas, topUp>>

Confirm(p) ==
    /\ At(p, "confirm")
    /\ pay' = [pay EXCEPT !.status = "CONFIRMED"]
    /\ Return(p)
    /\ UNCHANGED <<chainVars, funds, moved, gas, topUp>>

-------------------------------------------------------------------------------
(* Forwarding                                                              *)

\* forwardPayment marks the payment and sees to the fee.
ForwardPayment(p) ==
    /\ pay.status \in {"CONFIRMED", "FORWARDING"}
    /\ BeginTransfer(p, CASE coin = "ERC20" -> "estimate" [] coin = "TRC20" -> "gas" [] OTHER -> "amount",
                     [Nothing EXCEPT !.metadata = topUp])
    /\ pay' = [pay EXCEPT !.status = "FORWARDING"]
    /\ UNCHANGED <<chainVars, funds, moved, gas, topUp>>

\* An error on the way: FORWARDING_FAILED.
ForwardFails(p) ==
    /\ pay' = [pay EXCEPT !.status = "FORWARDING_FAILED"]
    /\ Return(p)

\* Faulty variant: there is no buffer.
WithBufferNone(units) == units

\* gasWithBuffer: rounded before it is multiplied by the price.
WithBuffer(units) == (units * (100 + GasBuffer)) \div 100

\* calcEthTopUp
TokenFee(estimate, price) == WithBuffer(estimate) * price

\* estimateNativeEthTransferFeeWei: rounded after.
NativeFee(price) == (GasLimit * price * (100 + GasBuffer)) \div 100

\* needsEthTopUp: the transfer is simulated, which takes what the token's contract and the
\* node make of it this time or fails, and the price is asked for.
CalcEthTopUp(p) ==
    /\ At(p, "estimate")
    /\ \E estimate \in Estimates :
          Continue(p, "gas", [calls[p] EXCEPT !.estimate = estimate, !.price = maxFee])
    /\ UNCHANGED transferVars

\* needsEthTopUp, needsTrxTopUp: is there less than that?
GasShort(c) == IF coin = "ERC20" THEN gas < TokenFee(c.estimate, c.price) ELSE gas < MinTrx

\* ensureGasAvailable; TronProvider.getTrxBalanceSun answers 0 when its call fails, and the
\* metadata, read with the payment, decides between a top-up and waiting for it.
EnsureGasAvailable(p) ==
    /\ At(p, "gas")
    /\ \/ ~GasShort(calls[p]) /\ Continue(p, "amount", calls[p])
       \/ /\ GasShort(calls[p]) \/ coin = "TRC20"
          /\ IF calls[p].metadata = NoTopUp THEN Continue(p, "topUp", Nothing) ELSE Return(p)
    /\ UNCHANGED transferVars

\* topUpEthGas computes the need again; topUpTrxEnergy sends the configured amount.
TopUpAmount(estimate) == IF coin = "ERC20" THEN TokenFee(estimate, maxFee) ELSE TrxTopUp

\* The hot wallet's transfer, and its hash in the metadata; the forward waits for a retry.
TopUpGas(p) ==
    /\ At(p, "topUp")
    /\ \E estimate \in Estimates :
          /\ gasComing' = gasComing + TopUpAmount(estimate)
          /\ topUp' = [estimate |-> estimate, price |-> maxFee]
    /\ Return(p)
    /\ UNCHANGED <<coin, received, height, maxFee, funds, moved, gas, pay>>

\* calculateAmountToForward: all the tokens on Tron, the amount less the fee of ETH, and the
\* amount asked for, whatever has come, of any other coin.  For an ERC-20 token the signer then
\* simulates the transfer itself, to give the transaction its gas.
CalculateAmountToForward(p) ==
    LET go(changes) == Continue(p, "send", changes) /\ UNCHANGED pay
        fee == NativeFee(maxFee)
    IN  /\ At(p, "amount")
        /\ CASE coin = "TRC20" -> go([calls[p] EXCEPT !.amount = funds])
             [] coin = "ETH" -> IF Asked > fee
                                THEN go([calls[p] EXCEPT !.amount = Asked - fee, !.price = maxFee])
                                ELSE ForwardFails(p)
             [] coin = "ERC20" -> \E limit \in TokenGas :
                                     go([calls[p] EXCEPT !.amount = Asked, !.limit = limit])
             [] OTHER -> go([calls[p] EXCEPT !.amount = Asked])
        /\ UNCHANGED <<chainVars, funds, moved, gas, topUp>>

\* What the transfer takes from the address beside the amount.
Fee ==
    CASE coin = "UTXO" -> UtxoFee
      [] coin = "ETH" -> GasLimit * maxFee
      [] OTHER -> 0

\* What it takes for a token's fee.
GasTaken(c) ==
    CASE coin = "ERC20" -> c.limit * maxFee
      [] coin = "TRC20" -> MinTrx
      [] OTHER -> 0

\* The chain takes a transfer that the address can pay for.
Payable(c) ==
    /\ c.amount > 0
    /\ c.amount + Fee <= funds
    /\ GasTaken(c) <= gas

\* sendTransaction, sendERC20Transaction; a token's fee leaves the coin it is paid in.  The
\* update that follows writes the metadata as they were when the call began.
SendTransaction(p) ==
    LET c == calls[p]
    IN  /\ At(p, "send")
        /\ IF Payable(c)
           THEN /\ funds' = funds - c.amount - Fee
                /\ moved' = moved + c.amount + Fee
                /\ gas' = gas - GasTaken(c)
                /\ pay' = [pay EXCEPT !.status = "FORWARDED"]
                /\ topUp' = c.metadata
                /\ Return(p)
           ELSE ForwardFails(p) /\ UNCHANGED <<funds, moved, gas, topUp>>
        /\ UNCHANGED chainVars

-------------------------------------------------------------------------------

\* The monitor's and the forwarding's jobs and cron ticks
TransferRequest(p) == CheckPayment(p) \/ CheckConfirmations(p) \/ ForwardPayment(p)

TransferStep(p) ==
    \/ GetBalance(p) \/ GetTransactionByAddress(p) \/ Detect(p)
    \/ TransactionBlock(p) \/ CurrentHeight(p) \/ StoreCount(p) \/ Confirm(p)
    \/ CalcEthTopUp(p) \/ EnsureGasAvailable(p) \/ TopUpGas(p) \/ CalculateAmountToForward(p) \/ SendTransaction(p)

ChainMoves == Transfer \/ Mine \/ FeeMoves

TransferNext == ChainMoves \/ \E p \in Proc : TransferRequest(p) \/ TransferStep(p)

TransferSpec == CallsInit /\ TransfersInit /\ [][TransferNext]_<<callVars, transferVars>>

TransfersTypeOK ==
    /\ coin \in Coin
    /\ received \in Seq([amount : Amounts, block : 0 .. MaxHeight])
    /\ {funds, moved, gas, gasComing, height, maxFee} \subseteq Nat
    /\ topUp \in [estimate : Nat, price : Nat]
    /\ pay.tx \in 0 .. Len(received) /\ pay.depth \in 0 .. MaxHeight

\* The confirmations a payment is credited with are those that a transfer of an acceptable amount
\* really has, although its block and the height are read apart, calls fail halfway and checks of
\* two transfers overwrite each other's transaction and count.
CountIsReached ==
    pay.depth > 0 =>
        \E n \in DOMAIN received :
            /\ MinAcceptable(received[n].amount)
            /\ received[n].block > 0
            /\ height - received[n].block + 1 >= pay.depth

\* What a token's transfer takes costs more than the buffer has set aside for it: the product of
\* gas and price has grown by more than the buffer, of which rounding keeps back a unit of gas.
BeyondBuffer(c) == 100 * c.limit * maxFee > ((100 + GasBuffer) * c.estimate - 99) * c.price

\* A forward that reaches the chain is refused only where one of these is so: what is there is
\* less than the amount asked for (a payment within the tolerance, or one already forwarded);
\* a UTXO address has not got the fee on top; the price of gas, or for a token the price and the
\* gas together, has risen beyond the buffer since the fee was set aside; something has left
\* the address before, and with it the coin for a token's fee.
RefusalIsExcused ==
    [][\A p \in Proc :
          (At(p, "send") /\ calls'[p] = Idle /\ pay'.status = "FORWARDING_FAILED") =>
              \/ funds < Asked
              \/ coin = "UTXO" /\ funds < Asked + UtxoFee
              \/ coin = "ETH" /\ 100 * maxFee > (100 + GasBuffer) * calls[p].price
              \/ coin = "ERC20" /\ BeyondBuffer(calls[p])
              \/ moved > 0]_<<calls, pay>>

\* A forward that goes on waiting for coin although a top-up has arrived and none of it was spent
\* waits because this attempt was told of more gas, or of a higher price, than the top-up was
\* computed from, or because the balance on Tron could not be read: where neither has grown
\* the top-up is enough.  (One that did not suffice is never followed by another.)
WaitIsExcused ==
    [][\A p \in Proc :
          (At(p, "gas") /\ calls'[p] = Idle) =>
              \/ gasComing > 0
              \/ moved > 0
              \/ coin = "TRC20"
              \/ calls[p].estimate > topUp.estimate
              \/ calls[p].price > topUp.price]_<<calls, pay>>

\* What stops a forward, for a while or for good, is one of the causes above.
ForwardIsExcused == RefusalIsExcused /\ WaitIsExcused

===============================================================================
