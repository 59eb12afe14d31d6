---------------------------------- MODULE Rates --------------------------------
(***************************************************************************)
(* Exchange rates (exchange-rate.service.ts): getRate looks in Redis, then *)
(* in the rates table, then asks Tatum, then Kraken, and at last takes the *)
(* table's row however old it is; what it finds late it writes back early. *)
(*                                                                         *)
(* One pair of currencies, since every pair has its own key and row.  A    *)
(* rate is known by the time it was quoted.                                *)
(***************************************************************************)
EXTENDS Calls

CONSTANTS
    TTL,         \* cacheTTL
    MaxLag,      \* an await of getRate ends within this time
    MaxTime      \* bound: the clock

\* By default the lifetime is five minutes; the clients of the providers time out after ten seconds.
ASSUME RatesAssumption ==
    /\ TTL \in Nat \ {0} /\ MaxLag \in Nat \ {0} /\ MaxTime \in Nat
    /\ MaxLag <= 2 * TTL

VARIABLES
    rateCache,   \* rate:<crypto>:<fiat> in Redis: the quote and when the key expires
    rateRow,     \* the pair's CryptoExchangeRate
    now,
    oldest       \* the greatest age of a rate answered without need (history)

rateVars == <<rateCache, rateRow, now, oldest>>

\* CryptoExchangeRate, and a key of the cache
Quoted == [quotedAt : 0 .. MaxTime, expiresAt : 0 .. MaxTime + TTL]

NoRate == [quotedAt |-> 0, expiresAt |-> -1]

RatesInit ==
    /\ rateCache = NoRate
    /\ rateRow = NoRate
    /\ now = 0
    /\ oldest = 0

\* Faulty variant: a row counts whenever there is one.
UnexpiredEver(row) == row # NoRate

\* new Date() > rateRecord.expiresAt is what excludes a row.
Unexpired(row) == row # NoRate /\ now <= row.expiresAt

\* getRate; createPayment calls it once for the rate it stores and once more in
\* convertToCrypto, and getAllRates once for every pair.
GetRate(p, times) ==
    /\ Begin(p, [at |-> "rate.cache", left |-> times, since |-> now])
    /\ UNCHANGED rateVars

RateGoto(p, step, quotedAt) ==
    Goto(p, [at |-> step, left |-> calls[p].left, since |-> now, quotedAt |-> quotedAt])

\* getRate returns; the call may need a second one.
RateAnswered(p) ==
    IF calls[p].left = 1 THEN Return(p)
    ELSE Goto(p, [at |-> "rate.cache", left |-> calls[p].left - 1, since |-> now])

Older(quotedAt) == IF now - quotedAt > oldest THEN now - quotedAt ELSE oldest

RateCacheGet(p) ==
    /\ At(p, "rate.cache")
    /\ \/ /\ now < rateCache.expiresAt
          /\ oldest' = Older(rateCache.quotedAt)
          /\ RateAnswered(p)
       \/ RateGoto(p, "rate.row", 0) /\ UNCHANGED oldest   \* a miss, or Redis fails
    /\ UNCHANGED <<rateCache, rateRow, now>>

\* getRateFromDatabase, whose failures are answered by null.
RateRowGet(p) ==
    /\ At(p, "rate.row")
    /\ \/ Unexpired(rateRow) /\ RateGoto(p, "rate.refresh", rateRow.quotedAt)
       \/ RateGoto(p, "rate.tatum", 0)
    /\ UNCHANGED rateVars

\* The row's rate goes back to Redis for a whole TTL; when that fails the providers are asked.
RateRefresh(p) ==
    /\ At(p, "rate.refresh")
    /\ \/ /\ rateCache' = [quotedAt |-> calls[p].quotedAt, expiresAt |-> now + TTL]
          /\ oldest' = Older(calls[p].quotedAt)
          /\ RateAnswered(p)
       \/ RateGoto(p, "rate.tatum", 0) /\ UNCHANGED <<rateCache, oldest>>
    /\ UNCHANGED <<rateRow, now>>

\* fetchFromTatum: one of its two endpoints answers with a positive number, or it throws.
FetchFromTatum(p) ==
    /\ At(p, "rate.tatum")
    /\ RateGoto(p, "rate.saveCache", now) \/ RateGoto(p, "rate.kraken", 0)
    /\ UNCHANGED rateVars

FetchFromKraken(p) ==
    /\ At(p, "rate.kraken")
    /\ RateGoto(p, "rate.saveCache", now) \/ RateGoto(p, "rate.stale", 0)
    /\ UNCHANGED rateVars

\* saveRate, whose two writes fail on their own: expiresAt is computed with the quote.
SaveRateCache(p) ==
    /\ At(p, "rate.saveCache")
    /\ rateCache' \in {[quotedAt |-> calls[p].quotedAt, expiresAt |-> now + TTL], rateCache}
    /\ RateGoto(p, "rate.saveRow", calls[p].quotedAt)
    /\ UNCHANGED <<rateRow, now, oldest>>

SaveRateRow(p) ==
    LET quotedAt == calls[p].quotedAt
    IN  /\ At(p, "rate.saveRow")
        /\ rateRow' \in {[quotedAt |-> quotedAt, expiresAt |-> quotedAt + TTL], rateRow}
        /\ oldest' = Older(quotedAt)
        /\ RateAnswered(p)
        /\ UNCHANGED <<rateCache, now>>

\* allowStale: any row will do, and without one getRate throws.
RateStale(p) ==
    /\ At(p, "rate.stale")
    /\ \/ rateRow # NoRate /\ RateAnswered(p)
       \/ Return(p)
    /\ UNCHANGED rateVars

RateStep(p) ==
    \/ RateCacheGet(p) \/ RateRowGet(p) \/ RateRefresh(p) \/ FetchFromTatum(p)
    \/ FetchFromKraken(p) \/ SaveRateCache(p) \/ SaveRateRow(p) \/ RateStale(p)

\* Time passes, but not past the timeout of an await.
RateTick ==
    /\ now < MaxTime
    /\ \A p \in Proc : ~At(p, "idle") => now - calls[p].since < MaxLag
    /\ now' = now + 1
    /\ UNCHANGED <<rateCache, rateRow, oldest, callVars>>

\* exchange-rate.public.controller.ts and createPayment
RateRequest(p) == \E times \in {1, 2} : GetRate(p, times)

RateNext == RateTick \/ \E p \in Proc : RateRequest(p) \/ RateStep(p)

RateSpec == CallsInit /\ RatesInit /\ [][RateNext]_<<callVars, rateVars>>

RatesTypeOK ==
    /\ {rateCache, rateRow} \subseteq
           [quotedAt : 0 .. MaxTime, expiresAt : -1 .. MaxTime + TTL]
    /\ now \in 0 .. MaxTime
    /\ oldest \in 0 .. MaxTime

\* A rate that is answered without both providers having failed was quoted at most two lifetimes
\* and one await ago, however the calls that refresh, save and read the two caches overlap: a
\* row that is about to expire gives the key in Redis another lifetime, but never a third.
RateIsRecent == oldest <= 2 * TTL + MaxLag

===============================================================================
