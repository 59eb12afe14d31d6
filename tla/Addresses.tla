-------------------------------- MODULE Addresses ------------------------------
(***************************************************************************)
(* Deposit addresses (system-wallet.service.ts, crypto.util.ts): every     *)
(* payment and every top-up takes the next index of its currency, and the  *)
(* address is derived from the currency's path and that index.             *)
(***************************************************************************)
EXTENDS Calls

CONSTANT
    Currency         \* the currencies paid in

\* CryptoCurrency
CryptoCurrency == {"BTC", "ETH", "LTC", "BCH", "USDT_ERC20", "USDT_TRC20", "USDC_ERC20"}

ASSUME AddressAssumption == Currency \subseteq CryptoCurrency

VARIABLES
    walletIndex,     \* SystemWalletIndex: currency -> nextIndex, -1 without a row
    issued           \* the rows of payments and top-ups that have an address

addressVars == <<walletIndex, issued>>

AddressesInit ==
    /\ walletIndex \in [Currency -> {-1, 0}]
    /\ issued = {}

\* The tokens on Ethereum go with ETH, any other currency by itself.
EthereumOr(c) == IF c \in {"ETH", "USDT_ERC20", "USDC_ERC20"} THEN "ETH" ELSE c

\* getMnemonicKey
MnemonicKey(c) == EthereumOr(c)

\* DERIVATION_PATHS, by coin type
DerivationPath(c) == EthereumOr(c)

\* How the key is written as an address: the cases of deriveAddress.
Encoding(c) == EthereumOr(c)

\* deriveAddress
DeriveAddress(c, index) == <<MnemonicKey(c), DerivationPath(c), index, Encoding(c)>>

\* generatePaymentAddress, for createPayment or createTopUp
GeneratePaymentAddress(p, c) ==
    /\ Begin(p, [at |-> "index.find", currency |-> c, request |-> requests + 1])
    /\ UNCHANGED addressVars

\* getNextIndex reads the counter in a transaction.
NextIndexFind(p) ==
    /\ At(p, "index.find")
    /\ Goto(p, [at |-> "index.update", currency |-> calls[p].currency, request |-> calls[p].request,
                seen |-> walletIndex[calls[p].currency]])
    /\ UNCHANGED addressVars

\* Faulty variant: the transaction is not serializable and writes what it read plus one.
IndexAfterStale(p) ==
    LET seen == calls[p].seen IN {IF seen = -1 THEN 1 ELSE seen + 1}

\* The counter after the update: none when a transaction has written the row, or created it,
\* since this one read it, because Postgres then refuses the update.
IndexAfter(p) ==
    LET seen == calls[p].seen
    IN  IF walletIndex[calls[p].currency] = seen
        THEN {IF seen = -1 THEN 1 ELSE seen + 1} ELSE {}

\* The row is created when it was missing, incremented and committed.
NextIndexUpdate(p) ==
    /\ At(p, "index.update")
    /\ \E i \in IndexAfter(p) :
          /\ walletIndex' = [walletIndex EXCEPT ![calls[p].currency] = i]
          /\ Goto(p, [at |-> "address.row", currency |-> calls[p].currency,
                      request |-> calls[p].request, index |-> i])
    /\ UNCHANGED issued

\* getNextIndex throws, and with it the request.
NextIndexRefused(p) ==
    /\ At(p, "index.update")
    /\ IndexAfter(p) = {}
    /\ Return(p)
    /\ UNCHANGED addressVars

\* The row of the CryptoPayment or WalletTopUp is inserted with the address.
AddressRow(p) ==
    /\ At(p, "address.row")
    /\ issued' = issued \cup {[request |-> calls[p].request, currency |-> calls[p].currency,
                               index |-> calls[p].index]}
    /\ Return(p)
    /\ UNCHANGED walletIndex

\* The insert fails, or the process dies: the index is skipped.
AddressAbort(p) ==
    /\ At(p, "address.row")
    /\ Return(p)
    /\ UNCHANGED addressVars

AddressStep(p) ==
    \/ NextIndexFind(p) \/ NextIndexUpdate(p) \/ NextIndexRefused(p)
    \/ AddressRow(p) \/ AddressAbort(p)

AddressNext ==
    \E p \in Proc : AddressStep(p) \/ \E c \in Currency : GeneratePaymentAddress(p, c)

AddressSpec ==
    CallsInit /\ AddressesInit /\ [][AddressNext]_<<callVars, addressVars>>

AddressesTypeOK ==
    /\ walletIndex \in [Currency -> Int]
    /\ issued \subseteq [request : 1 .. MaxRequests, currency : Currency, index : Nat]

\* No two payments or top-ups of one currency have the same index, hence the same address, even
\* when their requests take it at the same time and whether or not the counter's row was there.
IndexNamesOnePayment ==
    \A a, b \in issued : a.currency = b.currency /\ a.index = b.index => a = b

\* system-wallet.service.ts:161 "Generate a unique payment address for an order", and
\* documents/PHASE6_2_COMPLETION.md:200 "Unique address generated for each payment".
AddressIsFresh ==
    \A a, b \in issued :
        DeriveAddress(a.currency, a.index) = DeriveAddress(b.currency, b.index) => a = b

===============================================================================
