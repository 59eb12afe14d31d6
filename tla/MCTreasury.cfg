SPECIFICATION Spec
CONSTANTS
    Focus = {"rates", "addresses", "transfers"}
    Proc = {p1, p2}
    MaxRequests = 4
    TTL = 2
    MaxLag = 1
    MaxTime = 7
    Currency = {"BTC", "ETH", "USDT_ERC20"}
    Coin = {"UTXO", "ETH", "ERC20", "TRC20"}
    Amounts = {50, 99, 100}
    Asked = 100
    Tolerance = 1
    RequiredDepth = 2
    GasLimit = 4
    TokenGas = {40, 48}
    FallbackGas = 60
    GasBuffer = 25
    Prices = {4, 5, 6}
    UtxoFee = 1
    MinTrx = 15
    TrxTopUp = 20
    MaxTransfers = 2
    MaxHeight = 3
INVARIANTS
    RateIsRecent
    IndexNamesOnePayment
    CountIsReached
PROPERTIES
    ForwardIsExcused
SYMMETRY MCSymmetry
CHECK_DEADLOCK FALSE
