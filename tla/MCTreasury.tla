------------------------------- MODULE MCTreasury ------------------------------
(***************************************************************************)
(* Rates, deposit addresses and amounts on the chain for TLC.  They share  *)
(* no row: focus, chosen in the initial state, names the part that moves,  *)
(* and the others rest in one of their initial states.                     *)
(***************************************************************************)
EXTENDS Rates, Addresses, Transfers, TLC

CONSTANT Focus

VARIABLE focus

treasuryVars == <<callVars, rateVars, addressVars, transferVars, focus>>

MCSymmetry == Permutations(Proc)

Rest ==
    /\ focus # "addresses" => \A c \in Currency : walletIndex[c] = 0
    /\ focus # "transfers" => coin = "ETH"
    /\ focus # "transfers" \/ coin \in {"UTXO", "TRC20"} => maxFee = Min(Prices)

Init ==
    /\ focus \in Focus
    /\ CallsInit
    /\ RatesInit
    /\ AddressesInit
    /\ TransfersInit
    /\ Rest

Only(name) ==
    /\ focus = name
    /\ UNCHANGED focus
    /\ name # "rates" => UNCHANGED rateVars
    /\ name # "addresses" => UNCHANGED addressVars
    /\ name # "transfers" => UNCHANGED transferVars

Moves ==
    \/ Only("rates") /\ RateNext
    \/ Only("addresses") /\ AddressNext
    \/ Only("transfers") /\ TransferNext

\* Bound on the requests, fewer where time passes between them.
Next == Moves /\ requests' <= (IF focus = "rates" THEN MaxRequests - 1 ELSE MaxRequests)

Spec == Init /\ [][Next]_treasuryVars

===============================================================================
