----------------------------- MODULE Treasury_proofs ---------------------------
(* Proofs about Rates, Addresses and Transfers, and about the three resting    *)
(* side by side (MCTreasury), for any lifetimes and delays, any currencies,    *)
(* any amounts and prices and any number of overlapping requests.              *)
EXTENDS MCTreasury, FiniteSetTheorems, SequenceTheorems, WellFoundedInduction, TLAPS

-------------------------------------------------------------------------------
(* Exchange rates                                                              *)

\* What a call of getRate holds; quotedAt is of use at three of its awaits.
RateCalls ==
    {Idle}
        \cup [at : {"rate.cache"}, left : {1, 2}, since : 0 .. MaxTime]
        \cup [at : {"rate.row", "rate.tatum", "rate.kraken", "rate.stale", "rate.refresh",
                    "rate.saveCache", "rate.saveRow"},
              left : {1, 2}, since : 0 .. MaxTime, quotedAt : 0 .. MaxTime]

\* No await outlasts MaxLag; a quote on its way to Redis is of this await's start, or of a row
\* that had not expired then.
CallIsTimely(c) ==
    /\ c.at # "idle" => c.since <= now /\ now <= c.since + MaxLag
    /\ c.at = "rate.refresh" => c.since <= c.quotedAt + TTL /\ c.quotedAt <= now
    /\ c.at = "rate.saveCache" => c.quotedAt = c.since
    /\ c.at = "rate.saveRow" => c.since <= c.quotedAt + MaxLag /\ c.quotedAt <= c.since

\* How long the two copies of a quote may be answered.
CopiesEnd ==
    /\ rateRow.expiresAt <= rateRow.quotedAt + TTL /\ rateRow.quotedAt <= now
    /\ rateCache.expiresAt <= rateCache.quotedAt + 2 * TTL + MaxLag /\ rateCache.quotedAt <= now

CallsTimely == \A p \in Proc : CallIsTimely(calls[p])

RateCallsTyped == calls \in [Proc -> RateCalls]

RateInv == RateCallsTyped /\ RatesTypeOK /\ CopiesEnd /\ CallsTimely /\ RateIsRecent

\* What a step of the rates may change.
rateState == <<callVars, rateVars>>

USE RatesAssumption

LEMMA InitRate == CallsInit /\ RatesInit => RateInv
BY DEF CallsInit, RatesInit, RateInv, RateCallsTyped, RateCalls, Idle, RatesTypeOK, NoRate, CopiesEnd,
       CallsTimely, CallIsTimely, RateIsRecent

\* A step that gives one call a timely record and leaves the clock alone leaves all calls timely.
LEMMA OneRateCall ==
    ASSUME RateInv, NEW p \in Proc, NEW call \in RateCalls, CallIsTimely(call),
           calls' = [calls EXCEPT ![p] = call], now' = now
    PROVE  RateCallsTyped' /\ CallsTimely'
<1>1. RateCallsTyped'
  BY DEF RateInv, RateCallsTyped
<1>2. ASSUME NEW q \in Proc PROVE CallIsTimely(calls[q])'
  <2>1. CASE q = p
    <3>1. calls'[q] = call
      BY <2>1 DEF RateInv, RateCallsTyped
    <3> QED BY <3>1 DEF CallIsTimely
  <2>2. CASE q # p
    <3>1. calls'[q] = calls[q] /\ CallIsTimely(calls[q])
      BY <2>2 DEF RateInv, RateCallsTyped, CallsTimely
    <3> QED BY <3>1 DEF CallIsTimely
  <2> QED BY <2>1, <2>2
<1> QED
  BY <1>1, <1>2 DEF CallsTimely

\* The record a call goes on with at its next await, and the one it ends or begins again with.
LEMMA NextAwait ==
    ASSUME RateInv, NEW p \in Proc, calls[p].left \in {1, 2}, calls[p].at # "idle"
    PROVE  /\ \A q \in 0 .. MaxTime :
                 \A step \in {"rate.row", "rate.tatum", "rate.kraken", "rate.stale"} :
                    RateGoto(p, step, q) /\ now' = now => RateCallsTyped' /\ CallsTimely'
           /\ RateAnswered(p) /\ now' = now => RateCallsTyped' /\ CallsTimely'
           /\ Return(p) /\ now' = now => RateCallsTyped' /\ CallsTimely'
<1>1. now \in 0 .. MaxTime
  BY DEF RateInv, RatesTypeOK
<1>2. Idle \in RateCalls /\ CallIsTimely(Idle)
  BY DEF RateCalls, Idle, CallIsTimely
<1>3. Return(p) /\ now' = now => RateCallsTyped' /\ CallsTimely'
  BY <1>2, OneRateCall DEF Return, Goto
<1>4. ASSUME NEW left \in {1, 2}
      PROVE  /\ [at |-> "rate.cache", left |-> left, since |-> now] \in RateCalls
             /\ CallIsTimely([at |-> "rate.cache", left |-> left, since |-> now])
  BY <1>1 DEF RateCalls, CallIsTimely
<1>5. RateAnswered(p) /\ now' = now => RateCallsTyped' /\ CallsTimely'
  <2>1. CASE calls[p].left = 1
    BY <2>1, <1>3 DEF RateAnswered
  <2>2. CASE calls[p].left = 2
    BY <2>2, <1>4, OneRateCall DEF RateAnswered, Goto
  <2> QED BY <2>1, <2>2
<1>6. ASSUME NEW q \in 0 .. MaxTime, NEW step \in {"rate.row", "rate.tatum", "rate.kraken", "rate.stale"},
             RateGoto(p, step, q), now' = now
      PROVE  RateCallsTyped' /\ CallsTimely'
  <2> DEFINE call == [at |-> step, left |-> calls[p].left, since |-> now, quotedAt |-> q]
  <2>1. call \in RateCalls /\ CallIsTimely(call)
    BY <1>1 DEF RateCalls, CallIsTimely
  <2>2. calls' = [calls EXCEPT ![p] = call]
    BY <1>6 DEF RateGoto, Goto
  <2> HIDE DEF call
  <2> QED BY <2>1, <2>2, <1>6, OneRateCall
<1> QED
  BY <1>3, <1>5, <1>6

\* What a call that is not idle holds.
LEMMA RateFields ==
    ASSUME RateInv, NEW p \in Proc, calls[p].at # "idle"
    PROVE  /\ calls[p].left \in {1, 2} /\ calls[p].since \in 0 .. MaxTime
           /\ calls[p].at # "rate.cache" => calls[p].quotedAt \in 0 .. MaxTime
           /\ CallIsTimely(calls[p])
<1>1. calls[p] \in RateCalls /\ CallIsTimely(calls[p])
  BY DEF RateInv, RateCallsTyped, CallsTimely
<1> QED
  BY <1>1 DEF RateCalls, Idle

-------------------------------------------------------------------------------

LEMMA CacheGetStep ==
    ASSUME RateInv, NEW p \in Proc, RateCacheGet(p)
    PROVE  RateInv'
<1>1. calls[p].left \in {1, 2} /\ calls[p].at # "idle"
  BY RateFields DEF RateCacheGet, At
<1>2. UNCHANGED <<rateCache, rateRow, now>>
  BY DEF RateCacheGet
<1>3. RateCallsTyped' /\ CallsTimely'
  BY <1>1, <1>2, NextAwait DEF RateCacheGet
<1>4. CopiesEnd'
  BY <1>2 DEF RateInv, CopiesEnd
<1>5. RatesTypeOK' /\ RateIsRecent'
  BY <1>2 DEF RateCacheGet, RateInv, RatesTypeOK, CopiesEnd, RateIsRecent, Older
<1> QED
  BY <1>3, <1>4, <1>5 DEF RateInv

LEMMA RowGetStep ==
    ASSUME RateInv, NEW p \in Proc, RateRowGet(p)
    PROVE  RateInv'
<1>1. calls[p].left \in {1, 2} /\ calls[p].at # "idle"
  BY RateFields DEF RateRowGet, At
<1>2. UNCHANGED rateVars
  BY DEF RateRowGet
<1>3. RateCallsTyped' /\ CallsTimely'
  <2>1. CASE RateGoto(p, "rate.tatum", 0)
    BY <2>1, <1>1, <1>2, NextAwait DEF rateVars
  <2>2. CASE Unexpired(rateRow) /\ RateGoto(p, "rate.refresh", rateRow.quotedAt)
    <3> DEFINE call == [at |-> "rate.refresh", left |-> calls[p].left, since |-> now,
                        quotedAt |-> rateRow.quotedAt]
    <3>1. now <= rateRow.quotedAt + TTL /\ rateRow.quotedAt <= now
      BY <2>2 DEF Unexpired, RateInv, RatesTypeOK, CopiesEnd
    <3>2. call \in RateCalls /\ CallIsTimely(call)
      BY <1>1, <3>1 DEF RateCalls, CallIsTimely, RateInv, RatesTypeOK
    <3>3. calls' = [calls EXCEPT ![p] = call]
      BY <2>2 DEF RateGoto, Goto
    <3> HIDE DEF call
    <3> QED BY <3>2, <3>3, <1>2, OneRateCall DEF rateVars
  <2> QED BY <2>1, <2>2 DEF RateRowGet
<1> QED
  BY <1>2, <1>3 DEF RateInv, RatesTypeOK, CopiesEnd, RateIsRecent, rateVars

\* A row that has not expired when it is read gives the key in Redis one more lifetime.
LEMMA RefreshStep ==
    ASSUME RateInv, NEW p \in Proc, RateRefresh(p)
    PROVE  RateInv'
<1>1. calls[p].left \in {1, 2} /\ calls[p].at = "rate.refresh"
  BY RateFields DEF RateRefresh, At
<1>2. UNCHANGED <<rateRow, now>>
  BY DEF RateRefresh
<1>3. RateCallsTyped' /\ CallsTimely'
  BY <1>1, <1>2, NextAwait DEF RateRefresh
<1>4. /\ calls[p].quotedAt \in 0 .. MaxTime /\ calls[p].quotedAt <= now
      /\ now <= calls[p].quotedAt + TTL + MaxLag
  BY <1>1, RateFields DEF CallIsTimely, RateInv, RatesTypeOK
<1>5. CASE /\ rateCache' = [quotedAt |-> calls[p].quotedAt, expiresAt |-> now + TTL]
           /\ oldest' = Older(calls[p].quotedAt)
  <2>1. CopiesEnd' /\ RateIsRecent'
    BY <1>2, <1>4, <1>5 DEF RateInv, RatesTypeOK, CopiesEnd, RateIsRecent, Older
  <2>2. RatesTypeOK'
    BY <1>2, <1>4, <1>5 DEF RateInv, RatesTypeOK, Older
  <2> QED BY <1>3, <2>1, <2>2 DEF RateInv
<1>6. CASE UNCHANGED <<rateCache, oldest>>
  BY <1>2, <1>3, <1>6 DEF RateInv, RatesTypeOK, CopiesEnd, RateIsRecent
<1> QED
  BY <1>5, <1>6 DEF RateRefresh

LEMMA FetchStep ==
    ASSUME RateInv, NEW p \in Proc, FetchFromTatum(p) \/ FetchFromKraken(p)
    PROVE  RateInv'
<1>1. calls[p].left \in {1, 2} /\ calls[p].at # "idle"
  BY RateFields DEF FetchFromTatum, FetchFromKraken, At
<1>2. UNCHANGED rateVars
  BY DEF FetchFromTatum, FetchFromKraken
<1>3. RateCallsTyped' /\ CallsTimely'
  <2>1. CASE RateGoto(p, "rate.kraken", 0) \/ RateGoto(p, "rate.stale", 0)
    BY <2>1, <1>1, <1>2, NextAwait DEF rateVars
  <2>2. CASE RateGoto(p, "rate.saveCache", now)
    <3> DEFINE call == [at |-> "rate.saveCache", left |-> calls[p].left, since |-> now, quotedAt |-> now]
    <3>1. call \in RateCalls /\ CallIsTimely(call)
      BY <1>1 DEF RateCalls, CallIsTimely, RateInv, RatesTypeOK
    <3>2. calls' = [calls EXCEPT ![p] = call]
      BY <2>2 DEF RateGoto, Goto
    <3> HIDE DEF call
    <3> QED BY <3>1, <3>2, <1>2, OneRateCall DEF rateVars
  <2> QED BY <2>1, <2>2 DEF FetchFromTatum, FetchFromKraken
<1> QED
  BY <1>2, <1>3 DEF RateInv, RatesTypeOK, CopiesEnd, RateIsRecent, rateVars

LEMMA SaveCacheStep ==
    ASSUME RateInv, NEW p \in Proc, SaveRateCache(p)
    PROVE  RateInv'
<1> DEFINE call == [at |-> "rate.saveRow", left |-> calls[p].left, since |-> now,
                    quotedAt |-> calls[p].quotedAt]
<1>1. calls[p].left \in {1, 2} /\ calls[p].at = "rate.saveCache"
  BY RateFields DEF SaveRateCache, At
<1>2. UNCHANGED <<rateRow, now, oldest>> /\ calls' = [calls EXCEPT ![p] = call]
  BY DEF SaveRateCache, RateGoto, Goto
<1>3. /\ calls[p].quotedAt \in 0 .. MaxTime /\ calls[p].quotedAt <= now
      /\ now <= calls[p].quotedAt + MaxLag
  BY <1>1, RateFields DEF CallIsTimely, RateInv, RatesTypeOK
<1>4. call \in RateCalls /\ CallIsTimely(call)
  BY <1>1, <1>3 DEF RateCalls, CallIsTimely, RateInv, RatesTypeOK
<1> HIDE DEF call
<1>5. RateCallsTyped' /\ CallsTimely'
  BY <1>2, <1>4, OneRateCall
<1>6. rateCache' \in {[quotedAt |-> calls[p].quotedAt, expiresAt |-> now + TTL], rateCache}
  BY DEF SaveRateCache
<1>7. RatesTypeOK' /\ CopiesEnd' /\ RateIsRecent'
  BY <1>2, <1>3, <1>6 DEF RateInv, RatesTypeOK, CopiesEnd, RateIsRecent
<1> QED
  BY <1>5, <1>7 DEF RateInv

LEMMA SaveRowStep ==
    ASSUME RateInv, NEW p \in Proc, SaveRateRow(p)
    PROVE  RateInv'
<1>1. calls[p].left \in {1, 2} /\ calls[p].at = "rate.saveRow"
  BY RateFields DEF SaveRateRow, At
<1>2. UNCHANGED <<rateCache, now>>
  BY DEF SaveRateRow
<1>3. RateCallsTyped' /\ CallsTimely'
  BY <1>1, <1>2, NextAwait DEF SaveRateRow
<1>4. /\ calls[p].quotedAt \in 0 .. MaxTime /\ calls[p].quotedAt <= now
      /\ now <= calls[p].quotedAt + 2 * MaxLag
  BY <1>1, RateFields DEF CallIsTimely, RateInv, RatesTypeOK
<1>5. /\ rateRow' \in {[quotedAt |-> calls[p].quotedAt, expiresAt |-> calls[p].quotedAt + TTL], rateRow}
      /\ oldest' = Older(calls[p].quotedAt)
  BY DEF SaveRateRow
<1>6. RatesTypeOK' /\ CopiesEnd' /\ RateIsRecent'
  BY <1>2, <1>4, <1>5 DEF RateInv, RatesTypeOK, CopiesEnd, RateIsRecent, Older
<1> QED
  BY <1>3, <1>6 DEF RateInv

LEMMA StaleStep ==
    ASSUME RateInv, NEW p \in Proc, RateStale(p)
    PROVE  RateInv'
<1>1. calls[p].left \in {1, 2} /\ calls[p].at # "idle"
  BY RateFields DEF RateStale, At
<1>2. RateCallsTyped' /\ CallsTimely'
  BY <1>1, NextAwait DEF RateStale, rateVars
<1> QED
  BY <1>2 DEF RateStale, RateInv, RatesTypeOK, CopiesEnd, RateIsRecent, rateVars

\* The clock waits for whoever has been at one await for MaxLag.
LEMMA TickStep == RateInv /\ RateTick => RateInv'
<1> SUFFICES ASSUME RateInv, RateTick PROVE RateInv'
  OBVIOUS
<1>1. now < MaxTime /\ now' = now + 1 /\ UNCHANGED <<rateCache, rateRow, oldest, calls>>
  BY DEF RateTick, callVars
<1>2. ASSUME NEW p \in Proc PROVE CallIsTimely(calls[p])'
  <2>1. CASE calls[p].at = "idle"
    BY <2>1, <1>1 DEF CallIsTimely
  <2>2. CASE calls[p].at # "idle"
    <3>1. now - calls[p].since < MaxLag
      BY <2>2 DEF RateTick, At
    <3>2. now \in 0 .. MaxTime
      BY DEF RateInv, RatesTypeOK
    <3> QED BY <2>2, <3>1, <3>2, <1>1, RateFields DEF CallIsTimely
  <2> QED BY <2>1, <2>2
<1>3. CallsTimely' /\ RateCallsTyped'
  BY <1>1, <1>2 DEF CallsTimely, RateInv, RateCallsTyped
<1>4. RatesTypeOK' /\ CopiesEnd' /\ RateIsRecent'
  BY <1>1 DEF RateInv, RatesTypeOK, CopiesEnd, RateIsRecent
<1> QED
  BY <1>3, <1>4 DEF RateInv

LEMMA RateRequestStep ==
    ASSUME RateInv, NEW p \in Proc, RateRequest(p)
    PROVE  RateInv'
<1>1. PICK times \in {1, 2} : GetRate(p, times)
  BY DEF RateRequest
<1> DEFINE call == [at |-> "rate.cache", left |-> times, since |-> now]
<1>2. calls' = [calls EXCEPT ![p] = call] /\ UNCHANGED rateVars
  BY <1>1 DEF GetRate, Begin
<1>3. call \in RateCalls /\ CallIsTimely(call)
  BY DEF RateCalls, CallIsTimely, RateInv, RatesTypeOK
<1> HIDE DEF call
<1>4. RateCallsTyped' /\ CallsTimely'
  BY <1>2, <1>3, OneRateCall DEF rateVars
<1> QED
  BY <1>2, <1>4 DEF RateInv, RatesTypeOK, CopiesEnd, RateIsRecent, rateVars

LEMMA RateInvStep == RateInv /\ [RateNext]_rateState => RateInv'
<1> SUFFICES ASSUME RateInv, [RateNext]_rateState PROVE RateInv'
  OBVIOUS
<1>1. CASE RateTick
  BY <1>1, TickStep
<1>2. ASSUME NEW p \in Proc, RateStep(p) PROVE RateInv'
  BY <1>2, CacheGetStep, RowGetStep, RefreshStep, FetchStep, SaveCacheStep, SaveRowStep, StaleStep
     DEF RateStep
<1>3. ASSUME NEW p \in Proc, RateRequest(p) PROVE RateInv'
  BY <1>3, RateRequestStep
<1>4. CASE UNCHANGED rateState
  BY <1>4 DEF rateState, callVars, rateVars, RateInv, RateCallsTyped, RatesTypeOK, CopiesEnd, CallsTimely,
              CallIsTimely, RateIsRecent
<1> QED
  BY <1>1, <1>2, <1>3, <1>4 DEF RateNext

\* Rates, keys and clock keep their types.
THEOREM RatesTypeCorrect == RateSpec => []RatesTypeOK
<1>1. RateInv => RatesTypeOK
  BY DEF RateInv
<1> QED
  BY InitRate, RateInvStep, <1>1, PTL DEF RateSpec, rateState

\* However many calls refresh, save and read the two copies of a rate (getRate, saveRate), none
\* is answered more than two lifetimes and one await after it was quoted, unless both providers
\* failed and an expired row was taken.
THEOREM RecentCorrect == RateSpec => []RateIsRecent
<1>1. RateInv => RateIsRecent
  BY DEF RateInv
<1> QED
  BY InitRate, RateInvStep, <1>1, PTL DEF RateSpec, rateState

HIDE RatesAssumption

-------------------------------------------------------------------------------
(* Deposit addresses                                                           *)

\* What a request holds on its way to an address.
AddressCalls ==
    {Idle}
        \cup [at : {"index.find"}, currency : Currency, request : 1 .. MaxRequests]
        \cup [at : {"index.update"}, currency : Currency, request : 1 .. MaxRequests, seen : Int]
        \cup [at : {"address.row"}, currency : Currency, request : 1 .. MaxRequests, index : Nat]

AddressCallsTyped == requests \in 0 .. MaxRequests /\ calls \in [Proc -> AddressCalls]

\* An index is taken by the one request that raised the counter to it: by the time of its commit
\* the counter had never been there, and it is never lowered.
IndexIsTaken ==
    /\ \A c \in Currency : walletIndex[c] >= -1
    /\ \A a \in issued : a.index <= walletIndex[a.currency]
    /\ \A p \in Proc : At(p, "address.row") => calls[p].index <= walletIndex[calls[p].currency]
    /\ \A p \in Proc, a \in issued :
          At(p, "address.row") /\ calls[p].currency = a.currency => calls[p].index # a.index
    /\ \A p, q \in Proc :
          At(p, "address.row") /\ At(q, "address.row") /\ calls[p].currency = calls[q].currency
          /\ calls[p].index = calls[q].index => p = q

AddressInv == AddressCallsTyped /\ AddressesTypeOK /\ IndexIsTaken /\ IndexNamesOnePayment

\* What a step of the addresses may change.
addressState == <<callVars, addressVars>>

USE MaxRequestsAssumption, AddressAssumption

LEMMA InitAddress == CallsInit /\ AddressesInit => AddressInv
BY DEF CallsInit, AddressesInit, AddressInv, AddressCallsTyped, AddressCalls, Idle, AddressesTypeOK,
       IndexIsTaken, At, IndexNamesOnePayment

\* A call whose step is known holds the fields of that step.
LEMMA AddressFields ==
    ASSUME AddressCallsTyped, NEW p \in Proc
    PROVE  /\ At(p, "index.find") => calls[p].currency \in Currency /\ calls[p].request \in 1 .. MaxRequests
           /\ At(p, "index.update") =>
                 /\ calls[p].currency \in Currency /\ calls[p].request \in 1 .. MaxRequests
                 /\ calls[p].seen \in Int
           /\ At(p, "address.row") =>
                 /\ calls[p].currency \in Currency /\ calls[p].request \in 1 .. MaxRequests
                 /\ calls[p].index \in Nat
<1>1. calls[p] \in AddressCalls
  BY DEF AddressCallsTyped
<1> QED
  BY <1>1 DEF AddressCalls, At, Idle

\* The step of one call to another that holds no index.
LEMMA MoveWithoutIndex ==
    ASSUME AddressInv, NEW p \in Proc, NEW call \in AddressCalls, call.at # "address.row",
           calls' = [calls EXCEPT ![p] = call], requests' \in 0 .. MaxRequests,
           UNCHANGED addressVars
    PROVE  AddressInv'
<1>1. AddressCallsTyped'
  BY DEF AddressInv, AddressCallsTyped
<1>2. AddressesTypeOK' /\ IndexNamesOnePayment'
  BY DEF AddressInv, AddressesTypeOK, IndexNamesOnePayment, addressVars
<1>3. \A q \in Proc : At(q, "address.row")' => At(q, "address.row") /\ calls'[q] = calls[q]
  BY DEF AddressInv, AddressCallsTyped, At
<1>4. IndexIsTaken'
  BY <1>3 DEF AddressInv, IndexIsTaken, addressVars
<1> QED
  BY <1>1, <1>2, <1>4 DEF AddressInv

LEMMA IndexFindStep ==
    ASSUME AddressInv, NEW p \in Proc, NextIndexFind(p)
    PROVE  AddressInv'
<1> DEFINE call == [at |-> "index.update", currency |-> calls[p].currency,
                    request |-> calls[p].request, seen |-> walletIndex[calls[p].currency]]
<1>1. calls[p].currency \in Currency /\ calls[p].request \in 1 .. MaxRequests
  BY AddressFields DEF AddressInv, NextIndexFind
<1>2. call \in AddressCalls
  BY <1>1 DEF AddressInv, AddressesTypeOK, AddressCalls
<1>3. calls' = [calls EXCEPT ![p] = call] /\ requests' = requests /\ UNCHANGED addressVars
  BY DEF NextIndexFind, Goto
<1>4. requests' \in 0 .. MaxRequests
  BY <1>3 DEF AddressInv, AddressCallsTyped
<1> HIDE DEF call
<1> QED
  BY <1>2, <1>3, <1>4, MoveWithoutIndex DEF call

\* The commit raises the counter, so that the index it returns has not been given before.
LEMMA IndexUpdateStep ==
    ASSUME AddressInv, NEW p \in Proc, NextIndexUpdate(p)
    PROVE  AddressInv'
<1> DEFINE c == calls[p].currency
           call(i) == [at |-> "address.row", currency |-> c, request |-> calls[p].request, index |-> i]
<1>1. c \in Currency /\ calls[p].request \in 1 .. MaxRequests /\ calls[p].seen \in Int
  BY AddressFields DEF AddressInv, NextIndexUpdate
<1>2. PICK i \in IndexAfter(p) : /\ walletIndex' = [walletIndex EXCEPT ![c] = i]
                                 /\ calls' = [calls EXCEPT ![p] = call(i)]
                                 /\ requests' = requests /\ issued' = issued
  BY DEF NextIndexUpdate, Goto
<1>3. i \in Nat /\ i > walletIndex[c]
  BY <1>1, <1>2 DEF IndexAfter, AddressInv, IndexIsTaken, AddressesTypeOK
<1>4. call(i) \in AddressCalls
  BY <1>1, <1>3 DEF AddressCalls
<1> HIDE DEF c
<1>5. AddressCallsTyped'
  BY <1>2, <1>4 DEF AddressInv, AddressCallsTyped
<1>6. AddressesTypeOK' /\ IndexNamesOnePayment'
  BY <1>1, <1>2, <1>3 DEF AddressInv, AddressesTypeOK, IndexNamesOnePayment
<1>7. calls'[p] = call(i) /\ \A q \in Proc \ {p} : calls'[q] = calls[q]
  BY <1>2 DEF AddressInv, AddressCallsTyped
<1>8. walletIndex'[c] = i /\ \A d \in Currency \ {c} : walletIndex'[d] = walletIndex[d]
  BY <1>1, <1>2 DEF AddressInv, AddressesTypeOK
<1>9. \A a \in issued : a.currency \in Currency /\ a.index \in Nat
  BY DEF AddressInv, AddressesTypeOK
<1>10. \A q \in Proc : At(q, "address.row") => calls[q].currency \in Currency /\ calls[q].index \in Nat
  BY AddressFields DEF AddressInv
<1>11. walletIndex \in [Currency -> Int]
  BY DEF AddressInv, AddressesTypeOK
<1>12. IndexIsTaken'
  <2>1. \A d \in Currency : walletIndex'[d] >= walletIndex[d]
    BY <1>1, <1>3, <1>8, <1>11
  <2>2. \A d \in Currency : walletIndex'[d] >= -1
    BY <1>3, <1>8 DEF AddressInv, IndexIsTaken
  <2>3. \A a \in issued' : a.index <= walletIndex'[a.currency]
    <3> SUFFICES ASSUME NEW a \in issued PROVE a.index <= walletIndex'[a.currency]
      BY <1>2
    <3>1. a.index <= walletIndex[a.currency] /\ a.currency \in Currency /\ a.index \in Nat
      BY <1>9 DEF AddressInv, IndexIsTaken
    <3>2. walletIndex[a.currency] \in Int /\ walletIndex'[a.currency] \in Int
      BY <3>1, <1>3, <1>8, <1>11
    <3> QED BY <3>1, <3>2, <2>1
  <2>4. \A q \in Proc : At(q, "address.row")' => calls'[q].index <= walletIndex'[calls'[q].currency]
    <3> SUFFICES ASSUME NEW q \in Proc, At(q, "address.row")'
                 PROVE  calls'[q].index <= walletIndex'[calls'[q].currency]
      OBVIOUS
    <3>1. CASE q = p
      BY <3>1, <1>3, <1>7, <1>8
    <3>2. CASE q # p
      <4>1. calls'[q] = calls[q] /\ At(q, "address.row")
        BY <3>2, <1>7 DEF At
      <4>2. calls[q].index <= walletIndex[calls[q].currency]
        BY <4>1 DEF AddressInv, IndexIsTaken
      <4>3. calls[q].currency \in Currency /\ calls[q].index \in Nat
        BY <4>1, <1>10
      <4>4. walletIndex[calls[q].currency] \in Int /\ walletIndex'[calls[q].currency] \in Int
        BY <4>3, <1>3, <1>8, <1>11
      <4> QED BY <4>1, <4>2, <4>3, <4>4, <2>1
    <3> QED BY <3>1, <3>2
  <2>5. \A q \in Proc, a \in issued' :
            At(q, "address.row")' /\ calls'[q].currency = a.currency => calls'[q].index # a.index
    <3> SUFFICES ASSUME NEW q \in Proc, NEW a \in issued, At(q, "address.row")',
                        calls'[q].currency = a.currency
                 PROVE  calls'[q].index # a.index
      BY <1>2
    <3>1. CASE q = p
      <4>1. a.currency = c /\ a.index <= walletIndex[c] /\ a.index \in Nat
        BY <3>1, <1>7, <1>9 DEF AddressInv, IndexIsTaken
      <4> QED BY <3>1, <4>1, <1>1, <1>3, <1>7, <1>11
    <3>2. CASE q # p
      BY <3>2, <1>7 DEF At, AddressInv, IndexIsTaken
    <3> QED BY <3>1, <3>2
  <2>6. \A q \in Proc \ {p} :
            At(q, "address.row")' /\ calls'[q].currency = c => calls'[q].index < i
    <3> SUFFICES ASSUME NEW q \in Proc \ {p}, At(q, "address.row"), calls[q].currency = c
                 PROVE  calls[q].index < i
      BY <1>7 DEF At
    <3>1. calls[q].index <= walletIndex[c] /\ calls[q].index \in Nat
      BY <1>10 DEF AddressInv, IndexIsTaken
    <3> QED BY <3>1, <1>1, <1>3, <1>11
  <2>7. \A q, r \in Proc :
            At(q, "address.row")' /\ At(r, "address.row")' /\ calls'[q].currency = calls'[r].currency
            /\ calls'[q].index = calls'[r].index => q = r
    <3> SUFFICES ASSUME NEW q \in Proc, NEW r \in Proc, At(q, "address.row")', At(r, "address.row")',
                        calls'[q].currency = calls'[r].currency, calls'[q].index = calls'[r].index
                 PROVE  q = r
      OBVIOUS
    <3>1. CASE q # p /\ r # p
      BY <3>1, <1>7 DEF At, AddressInv, IndexIsTaken
    <3>2. CASE q = p /\ r # p
      BY <3>2, <2>6, <1>3, <1>7
    <3>3. CASE q # p /\ r = p
      BY <3>3, <2>6, <1>3, <1>7
    <3> QED BY <3>1, <3>2, <3>3
  <2> QED BY <2>2, <2>3, <2>4, <2>5, <2>7 DEF IndexIsTaken
<1> QED
  BY <1>5, <1>6, <1>12 DEF AddressInv

\* The row takes over the index of its call.
LEMMA AddressRowStep ==
    ASSUME AddressInv, NEW p \in Proc, AddressRow(p)
    PROVE  AddressInv'
<1> DEFINE row == [request |-> calls[p].request, currency |-> calls[p].currency, index |-> calls[p].index]
<1>1. /\ calls[p].currency \in Currency /\ calls[p].request \in 1 .. MaxRequests
      /\ calls[p].index \in Nat
  BY AddressFields DEF AddressInv, AddressRow
<1>2. /\ issued' = issued \cup {row} /\ walletIndex' = walletIndex
      /\ calls' = [calls EXCEPT ![p] = Idle] /\ requests' = requests
  BY DEF AddressRow, Return, Goto
<1>3. At(p, "address.row")
  BY DEF AddressRow
<1>4. AddressCallsTyped'
  BY <1>2 DEF AddressInv, AddressCallsTyped, AddressCalls
<1>5. AddressesTypeOK'
  BY <1>1, <1>2 DEF AddressInv, AddressesTypeOK
<1>6. \A q \in Proc : At(q, "address.row")' => q # p /\ At(q, "address.row") /\ calls'[q] = calls[q]
  BY <1>2 DEF AddressInv, AddressCallsTyped, At, Idle
<1>7. \A a \in issued : a.currency = row.currency => a.index # row.index
  BY <1>3 DEF AddressInv, IndexIsTaken
<1>8. IndexNamesOnePayment'
  BY <1>2, <1>7 DEF AddressInv, IndexNamesOnePayment
<1>9. row.index <= walletIndex[row.currency]
  BY <1>3 DEF AddressInv, IndexIsTaken
<1>10. \A q \in Proc : At(q, "address.row")' /\ calls'[q].currency = row.currency
                           => calls'[q].index # row.index
  BY <1>3, <1>6 DEF AddressInv, IndexIsTaken
<1>11. IndexIsTaken'
  <2>1. \A c \in Currency : walletIndex'[c] >= -1
    BY <1>2 DEF AddressInv, IndexIsTaken
  <2>2. \A a \in issued' : a.index <= walletIndex'[a.currency]
    BY <1>2, <1>9 DEF AddressInv, IndexIsTaken
  <2>3. \A q \in Proc : At(q, "address.row")' => calls'[q].index <= walletIndex'[calls'[q].currency]
    BY <1>2, <1>6 DEF AddressInv, IndexIsTaken
  <2>4. \A q \in Proc, a \in issued' :
            At(q, "address.row")' /\ calls'[q].currency = a.currency => calls'[q].index # a.index
    BY <1>2, <1>6, <1>10 DEF AddressInv, IndexIsTaken
  <2>5. \A q, r \in Proc :
            At(q, "address.row")' /\ At(r, "address.row")' /\ calls'[q].currency = calls'[r].currency
            /\ calls'[q].index = calls'[r].index => q = r
    BY <1>6 DEF AddressInv, IndexIsTaken
  <2> QED BY <2>1, <2>2, <2>3, <2>4, <2>5 DEF IndexIsTaken
<1> QED
  BY <1>4, <1>5, <1>8, <1>11 DEF AddressInv

LEMMA AddressInvStep == AddressInv /\ [AddressNext]_addressState => AddressInv'
<1> SUFFICES ASSUME AddressInv, [AddressNext]_addressState PROVE AddressInv'
  OBVIOUS
<1>1. Idle \in AddressCalls /\ Idle.at # "address.row"
  BY DEF AddressCalls, Idle
<1>2. ASSUME NEW p \in Proc, Return(p), UNCHANGED addressVars PROVE AddressInv'
  BY <1>1, <1>2, MoveWithoutIndex DEF Return, Goto, AddressInv, AddressCallsTyped
<1>3. ASSUME NEW p \in Proc, AddressStep(p) PROVE AddressInv'
  BY <1>2, <1>3, IndexFindStep, IndexUpdateStep, AddressRowStep
     DEF AddressStep, NextIndexRefused, AddressAbort
<1>4. ASSUME NEW p \in Proc, NEW c \in Currency, GeneratePaymentAddress(p, c) PROVE AddressInv'
  <2> DEFINE call == [at |-> "index.find", currency |-> c, request |-> requests + 1]
  <2>1. requests < MaxRequests /\ requests' = requests + 1 /\ calls' = [calls EXCEPT ![p] = call]
        /\ UNCHANGED addressVars
    BY <1>4 DEF GeneratePaymentAddress, Begin
  <2>2. call \in AddressCalls /\ requests' \in 0 .. MaxRequests
    BY <2>1 DEF AddressInv, AddressCallsTyped, AddressCalls
  <2> HIDE DEF call
  <2> QED BY <2>1, <2>2, MoveWithoutIndex DEF call
<1>5. CASE UNCHANGED addressState
  BY <1>5 DEF addressState, callVars, addressVars, AddressInv, AddressCallsTyped, AddressesTypeOK, IndexIsTaken, At,
              IndexNamesOnePayment
<1> QED
  BY <1>3, <1>4, <1>5 DEF AddressNext

\* Counters and rows keep their types.
THEOREM AddressesTypeCorrect == AddressSpec => []AddressesTypeOK
<1>1. AddressInv => AddressesTypeOK
  BY DEF AddressInv
<1> QED
  BY InitAddress, AddressInvStep, <1>1, PTL DEF AddressSpec, addressState

\* However many payments and top-ups take an address at once, no two of a currency get the same
\* index (getNextIndex with its serializable transaction).
THEOREM IndexCorrect == AddressSpec => []IndexNamesOnePayment
<1>1. AddressInv => IndexNamesOnePayment
  BY DEF AddressInv
<1> QED
  BY InitAddress, AddressInvStep, <1>1, PTL DEF AddressSpec, addressState

HIDE AddressAssumption
HIDE MaxRequestsAssumption

-------------------------------------------------------------------------------
(* Amounts on the chain                                                        *)

\* Calls that are begun for a payment that has been detected only.
PaidCall(c) ==
    c.at \in {"block", "height", "count", "confirm", "estimate", "gas", "topUp", "amount", "send"}

\* There is something at the address, or something has left it.
Paid == moved > 0 \/ funds > 0

\* A row's metadata: no top-up, or one that was computed at a price.
Metadata == {NoTopUp} \cup [estimate : Nat, price : Nat \ {0}]

\* What a call about a payment holds.
TransferCalls ==
    {Idle} \cup [at : TransferSteps, n : Nat, amount : Nat, metadata : Metadata, estimate : Nat,
                 price : Nat, limit : Nat]

\* The fee a token's forward found at the address is still there, unless a forward has taken it.
GasReserved(c) ==
    /\ coin = "ERC20" => moved > 0 \/ gas >= TokenFee(c.estimate, c.price)
    /\ coin = "TRC20" => moved > 0 \/ gas >= MinTrx

\* The amount a forward computed: with its fee, what is asked for.
AmountReserved(c) ==
    /\ coin \in {"UTXO", "ERC20"} => c.amount = Asked
    /\ coin = "ETH" => c.amount > 0 /\ c.amount + NativeFee(c.price) = Asked
    /\ coin = "TRC20" => moved > 0 \/ (c.amount > 0 /\ c.amount <= funds)

\* A count of confirmations that the transfer n has.
Reached(n, depth) ==
    depth > 0 => received[n].block > 0 /\ height - received[n].block + 1 >= depth

\* What a call holds of the chain is so, whatever the chain and other calls have done since.
TransferHeld(c) ==
    /\ c.at \in {"latest", "detect"} => moved > 0 \/ c.amount <= funds
    /\ c.at = "detect" => c.n \in 0 .. Len(received)
    /\ c.at \in {"block", "height", "count"} =>
          c.n \in 1 .. Len(received) /\ MinAcceptable(received[c.n].amount)
    /\ c.at = "height" => received[c.n].block = c.amount /\ c.amount > 0
    /\ c.at = "count" => Reached(c.n, c.amount)
    /\ PaidCall(c) => Paid
    /\ c.at \in {"estimate", "gas", "topUp"} => coin \in {"ERC20", "TRC20"}
    /\ c.at \in {"estimate", "gas"} /\ c.metadata # NoTopUp => moved > 0 \/ topUp # NoTopUp
    /\ c.at \in {"amount", "send"} => GasReserved(c)
    /\ c.at = "send" => AmountReserved(c)

\* Every call holds such a record.
TransferCallsOK ==
    calls \in [Proc -> TransferCalls] /\ \A p \in Proc : TransferHeld(calls[p])

\* The payment's transaction is a transfer of an acceptable amount.
PayOK ==
    /\ pay \in [status : {"PENDING", "PAID", "CONFIRMING", "CONFIRMED", "FORWARDING", "FORWARDED",
                          "FORWARDING_FAILED"}, tx : Nat, depth : Nat]
    /\ pay.tx > 0 => pay.tx \in 1 .. Len(received) /\ MinAcceptable(received[pay.tx].amount)
    /\ pay.tx > 0 \/ pay.status # "PENDING" => Paid

\* While no forward has spent it, what was topped up is at the address or on its way.
TopUpOK ==
    coin = "ERC20" /\ moved = 0 /\ topUp # NoTopUp =>
        gas + gasComing >= TokenFee(topUp.estimate, topUp.price)

\* Types.
ChainOK ==
    /\ coin \in {"UTXO", "ETH", "ERC20", "TRC20"} /\ coin \in Coin
    /\ received \in Seq([amount : Amounts, block : 0 .. MaxHeight])
    /\ funds \in Nat /\ moved \in Nat /\ gas \in Nat /\ gasComing \in Nat
    /\ height \in 0 .. MaxHeight /\ maxFee \in Prices /\ topUp \in Metadata

\* The invariant.
TransferInv == TransferCallsOK /\ ChainOK /\ PayOK /\ TopUpOK /\ CountIsReached

\* The fees with their buffers are numbers.
LEMMA TokenFeeNat ==
    ASSUME NEW e \in Nat, NEW price \in Nat
    PROVE  WithBuffer(e) \in Nat /\ TokenFee(e, price) \in Nat
<1>1. GasBuffer \in Nat
  BY TransfersAssumption
<1>2. e * (100 + GasBuffer) \in Nat
  BY <1>1
<1>3. PICK w \in Nat : w = WithBuffer(e)
  BY <1>2 DEF WithBuffer
<1>4. w * price \in Nat
  OBVIOUS
<1> QED
  BY <1>3, <1>4 DEF TokenFee

\* So is the one of a native transfer.
LEMMA NativeFeeNat ==
    ASSUME NEW price \in Nat PROVE NativeFee(price) \in Nat
<1>1. GasLimit \in Nat /\ GasBuffer \in Nat
  BY TransfersAssumption
<1>2. GasLimit * price \in Nat
  BY <1>1
<1>3. (GasLimit * price) * (100 + GasBuffer) \in Nat
  BY <1>1, <1>2
<1> QED
  BY <1>3 DEF NativeFee

\* Products of larger numbers are larger.
LEMMA ProductMonotone ==
    ASSUME NEW a \in Nat, NEW b \in Nat, NEW c \in Nat, NEW d \in Nat, a <= b, c <= d
    PROVE  a * c <= b * d
<1>1. a * c <= b * c /\ b * c <= b * d
  OBVIOUS
<1>2. a * c \in Nat /\ b * c \in Nat /\ b * d \in Nat
  OBVIOUS
<1> QED
  BY <1>1, <1>2

\* For more gas, and at a higher price, the fee with its buffer is no lower.
LEMMA TokenFeeMonotone ==
    ASSUME NEW e \in Nat, NEW price \in Nat, NEW e2 \in Nat, NEW price2 \in Nat,
           e <= e2, price <= price2
    PROVE  TokenFee(e, price) <= TokenFee(e2, price2)
<1>1. GasBuffer \in Nat
  BY TransfersAssumption
<1>2. PICK u \in Nat, v \in Nat : u = e * (100 + GasBuffer) /\ v = e2 * (100 + GasBuffer)
  BY <1>1
<1>3. PICK k \in Nat : k = 100 + GasBuffer
  BY <1>1
<1>4. u <= v
  BY <1>2, <1>3, ProductMonotone
<1>5. PICK x \in Nat, y \in Nat : x = WithBuffer(e) /\ y = WithBuffer(e2)
  BY TokenFeeNat
<1>6. x = u \div 100 /\ y = v \div 100
  BY <1>2, <1>5 DEF WithBuffer
<1>7. x <= y
  BY <1>4, <1>6
<1>8. x * price <= y * price2
  BY <1>7, ProductMonotone
<1> QED
  BY <1>5, <1>8 DEF TokenFee

\* A token's transfer that costs more than the fee set aside has grown beyond the buffer, up to
\* the unit of gas that rounding takes.
LEMMA TokenFeeExceeded ==
    ASSUME NEW e \in Nat, NEW price \in Nat, NEW limit \in Nat, NEW now1 \in Nat,
           limit * now1 > TokenFee(e, price)
    PROVE  100 * limit * now1 > ((100 + GasBuffer) * e - 99) * price
<1>1. PICK k \in Nat : k = 100 + GasBuffer
  BY TransfersAssumption
<1>2. PICK x \in Nat : x = k * e
  OBVIOUS
<1>3. PICK w \in Nat : w = WithBuffer(e)
  BY TokenFeeNat
<1>4. w = x \div 100
  <2>1. e * k = k * e
    OBVIOUS
  <2> QED BY <1>1, <1>2, <1>3, <2>1 DEF WithBuffer
<1>5. 100 * w >= x - 99
  BY <1>4
<1>6. PICK v \in Nat : v = limit * now1
  OBVIOUS
<1>7. PICK f \in Nat : f = w * price
  OBVIOUS
<1>8. v > f
  BY <1>3, <1>6, <1>7 DEF TokenFee
<1>9. 100 * v > 100 * f
  BY <1>8
<1>10. 100 * f = (100 * w) * price
  BY <1>7
<1>11. PICK y \in Int : y = x - 99
  OBVIOUS
<1>12. (100 * w) * price >= y * price
  <2>1. PICK z \in Nat : z = 100 * w
    OBVIOUS
  <2>2. z >= y
    BY <1>5, <1>11, <2>1
  <2>3. z * price >= y * price
    BY <2>2
  <2> QED BY <2>1, <2>3
<1>13. 100 * limit * now1 = 100 * v
  BY <1>6
<1>14. y * price \in Int /\ 100 * v \in Int /\ 100 * f \in Int
  OBVIOUS
<1>15. 100 * limit * now1 > y * price
  BY <1>9, <1>10, <1>12, <1>13, <1>14
<1> QED
  BY <1>1, <1>2, <1>11, <1>15

\* A native transfer that costs more than the fee set aside costs more gas than the buffer allows for.
LEMMA NativeFeeExceeded ==
    ASSUME NEW price \in Nat, NEW now1 \in Nat, GasLimit * now1 > NativeFee(price)
    PROVE  100 * now1 > (100 + GasBuffer) * price
<1>1. GasLimit \in Nat /\ GasBuffer \in Nat
  BY TransfersAssumption
<1>2. PICK u \in Nat : u = (GasLimit * price) * (100 + GasBuffer)
  BY <1>1
<1>3. PICK v \in Nat : v = GasLimit * now1
  BY <1>1
<1>4. v > u \div 100
  BY <1>2, <1>3 DEF NativeFee
<1>5. 100 * v > u
  BY <1>4
<1>6. PICK b \in Nat : b = (100 + GasBuffer) * price
  BY <1>1
<1>7. u = GasLimit * b
  BY <1>1, <1>2, <1>6
<1>8. PICK w \in Nat : w = 100 * now1
  OBVIOUS
<1>9. 100 * v = GasLimit * w
  BY <1>1, <1>3, <1>8
<1>10. GasLimit * w > GasLimit * b
  BY <1>5, <1>7, <1>9
<1>11. w > b
  <2> SUFFICES ASSUME w <= b PROVE FALSE
    OBVIOUS
  <2>1. GasLimit * w <= GasLimit * b
    BY <1>1
  <2> QED BY <1>10, <2>1, <1>1
<1> QED
  BY <1>6, <1>8, <1>11

\* what a step outside the payment's row and the calls may do
Grows ==
    /\ coin' = coin
    /\ Len(received') >= Len(received)
    /\ \A n \in 1 .. Len(received) :
          /\ received'[n].amount = received[n].amount
          /\ received[n].block > 0 => received'[n].block = received[n].block
    /\ moved' >= moved
    /\ moved' = 0 => funds' >= funds /\ gas' >= gas /\ (topUp # NoTopUp => topUp' # NoTopUp)
    /\ height' >= height

\* A payment that is paid stays so.
LEMMA StillPaid ==
    ASSUME TransferInv, ChainOK', Grows, Paid
    PROVE  Paid'
BY DEF TransferInv, ChainOK, Grows, Paid

\* A transfer's amount and block are numbers.
LEMMA Received ==
    ASSUME ChainOK, NEW n \in 1 .. Len(received)
    PROVE  received[n].amount \in Nat /\ received[n].block \in 0 .. MaxHeight
<1>1. received[n] \in [amount : Amounts, block : 0 .. MaxHeight]
  <2>1. received \in Seq([amount : Amounts, block : 0 .. MaxHeight])
    BY DEF ChainOK
  <2> QED BY <2>1, ElementOfSeq
<1> QED
  BY <1>1, TransfersAssumption

\* Transfers are numbered from 1.
LEMMA Places ==
    ASSUME ChainOK
    PROVE  Len(received) \in Nat /\ DOMAIN received = 1 .. Len(received)
<1>1. received \in Seq([amount : Amounts, block : 0 .. MaxHeight])
  BY DEF ChainOK
<1> QED
  BY <1>1, LenProperties

\* So are they after a step.
LEMMA PlacesNext ==
    ASSUME ChainOK'
    PROVE  Len(received') \in Nat /\ DOMAIN received' = 1 .. Len(received')
<1>1. received' \in Seq([amount : Amounts, block : 0 .. MaxHeight])
  BY DEF ChainOK
<1> QED
  BY <1>1, LenProperties

\* A transfer keeps its number, its amount and its block.
LEMMA StillThere ==
    ASSUME TransferInv, ChainOK', Grows, NEW n \in 1 .. Len(received)
    PROVE  /\ n \in 1 .. Len(received') /\ n \in DOMAIN received'
           /\ MinAcceptable(received[n].amount) <=> MinAcceptable(received'[n].amount)
           /\ received[n].block > 0 => received'[n].block = received[n].block
<1>1. ChainOK
  BY DEF TransferInv
<1>2. Len(received) \in Nat /\ Len(received') \in Nat /\ DOMAIN received' = 1 .. Len(received')
  BY <1>1, Places, PlacesNext
<1>3. Len(received') >= Len(received)
  BY DEF Grows
<1>4. n \in 1 .. Len(received')
  BY <1>2, <1>3
<1>5. received'[n].amount = received[n].amount
      /\ (received[n].block > 0 => received'[n].block = received[n].block)
  BY DEF Grows
<1> QED
  BY <1>2, <1>4, <1>5

\* What a call holds holds on while the chain grows.
LEMMA StillHeld ==
    ASSUME TransferInv, ChainOK', Grows, NEW c \in TransferCalls, TransferHeld(c)
    PROVE  TransferHeld(c)'
<1>1. c.at \in {"latest", "detect"} => moved' > 0 \/ c.amount <= funds'
  <2> SUFFICES ASSUME c.at \in {"latest", "detect"}, moved' = 0 PROVE c.amount <= funds'
    BY DEF ChainOK
  <2>1. moved = 0 /\ funds' >= funds /\ c.amount <= funds
    BY DEF TransferInv, ChainOK, Grows, TransferHeld
  <2>2. c.amount \in Nat
    BY DEF TransferCalls, Idle
  <2> QED BY <2>1, <2>2 DEF TransferInv, ChainOK
<1>2. c.at = "detect" => c.n \in 0 .. Len(received')
  BY DEF TransferInv, ChainOK, Grows, TransferHeld
<1>3. c.at \in {"block", "height", "count"} =>
         c.n \in 1 .. Len(received') /\ MinAcceptable(received'[c.n].amount)
  BY StillThere DEF TransferHeld
<1>4. c.at = "height" => received'[c.n].block = c.amount /\ c.amount > 0
  BY DEF TransferInv, ChainOK, Grows, TransferHeld
<1>5. c.at = "count" => Reached(c.n, c.amount)'
  <2> SUFFICES ASSUME c.at = "count", c.amount > 0
               PROVE  received'[c.n].block > 0 /\ height' - received'[c.n].block + 1 >= c.amount
    BY DEF Reached
  <2>1. c.n \in 1 .. Len(received) /\ received[c.n].block > 0
        /\ height - received[c.n].block + 1 >= c.amount
    BY DEF TransferHeld, Reached
  <2>2. received'[c.n].block = received[c.n].block /\ height' >= height
    BY <2>1 DEF Grows
  <2>3. ChainOK /\ height \in Nat /\ height' \in Nat
    BY TransfersAssumption DEF TransferInv, ChainOK
  <2>4. received[c.n].block \in Nat
    BY <2>1, <2>3, Received, TransfersAssumption
  <2>5. c.amount \in Nat
    BY DEF TransferCalls, Idle
  <2> QED BY <2>1, <2>2, <2>3, <2>4, <2>5
<1>6. PaidCall(c) => Paid'
  BY StillPaid DEF TransferHeld
<1>7. c.at \in {"estimate", "gas", "topUp"} => coin' \in {"ERC20", "TRC20"}
  BY DEF Grows, TransferHeld
<1>10. c.at \in {"estimate", "gas"} /\ c.metadata # NoTopUp => moved' > 0 \/ topUp' # NoTopUp
  <2> SUFFICES ASSUME c.at \in {"estimate", "gas"}, c.metadata # NoTopUp, moved' = 0
               PROVE  topUp' # NoTopUp
    BY DEF ChainOK
  <2>1. moved = 0
    BY DEF TransferInv, ChainOK, Grows
  <2> QED BY <2>1 DEF Grows, TransferHeld
<1>8. c.at \in {"amount", "send"} => GasReserved(c)'
  <2> SUFFICES ASSUME c.at \in {"amount", "send"} PROVE GasReserved(c)'
    OBVIOUS
  <2>1. c.estimate \in Nat /\ c.price \in Nat
    BY DEF TransferCalls, Idle
  <2>2. PICK w \in Nat : w = TokenFee(c.estimate, c.price)
    BY <2>1, TokenFeeNat
  <2>3. GasReserved(c)
    BY DEF TransferHeld
  <2>4. w = TokenFee(c.estimate, c.price)'
    BY <2>2 DEF TokenFee, WithBuffer
  <2>5. moved \in Nat /\ moved' \in Nat /\ gas \in Nat /\ gas' \in Nat /\ MinTrx \in Nat
    BY TransfersAssumption DEF TransferInv, ChainOK
  <2>6. coin' = coin /\ moved' >= moved /\ (moved' = 0 => gas' >= gas)
    BY DEF Grows
  <2>7. coin = "ERC20" => moved > 0 \/ gas >= w
    BY <2>2, <2>3 DEF GasReserved
  <2>8. coin = "TRC20" => moved > 0 \/ gas >= MinTrx
    BY <2>3 DEF GasReserved
  <2>9. coin = "ERC20" => moved' > 0 \/ gas' >= w
    BY <2>2, <2>5, <2>6, <2>7
  <2>10. coin = "TRC20" => moved' > 0 \/ gas' >= MinTrx
    BY <2>5, <2>6, <2>8
  <2> QED BY <2>4, <2>6, <2>9, <2>10 DEF GasReserved
<1>9. c.at = "send" => AmountReserved(c)'
  <2> SUFFICES ASSUME c.at = "send" PROVE AmountReserved(c)'
    OBVIOUS
  <2>1. c.price \in Nat /\ c.amount \in Nat
    BY DEF TransferCalls, Idle
  <2>2. PICK w \in Nat : w = NativeFee(c.price)
    BY <2>1, NativeFeeNat
  <2>3. AmountReserved(c)
    BY DEF TransferHeld
  <2>4. w = NativeFee(c.price)'
    BY <2>2 DEF NativeFee
  <2> QED BY <2>1, <2>2, <2>3, <2>4 DEF AmountReserved, Grows, TransferInv, ChainOK
<1> QED
  <2>1. (c.at \in {"block", "height", "count"} =>
            c.n \in 1 .. Len(received) /\ MinAcceptable(received[c.n].amount))'
    BY <1>3
  <2> QED BY <1>1, <1>2, <2>1, <1>4, <1>5, <1>6, <1>7, <1>8, <1>9, <1>10
       DEF TransferHeld, PaidCall, NoTopUp

\* The confirmations of a payment are not lost.
LEMMA StillReached ==
    ASSUME TransferInv, ChainOK', Grows, pay' = pay
    PROVE  CountIsReached'
<1> SUFFICES ASSUME pay.depth > 0
             PROVE  \E n \in DOMAIN received' : /\ MinAcceptable(received'[n].amount)
                                                /\ received'[n].block > 0
                                                /\ height' - received'[n].block + 1 >= pay.depth
  BY DEF CountIsReached, MinAcceptable
<1>1. PICK n \in DOMAIN received : /\ MinAcceptable(received[n].amount)
                                   /\ received[n].block > 0
                                   /\ height - received[n].block + 1 >= pay.depth
  BY DEF TransferInv, CountIsReached
<1>2. ChainOK /\ height \in Nat /\ height' \in Nat /\ pay.depth \in Nat /\ height' >= height
  BY TransfersAssumption DEF TransferInv, ChainOK, PayOK, Grows
<1>3. n \in 1 .. Len(received)
  BY <1>2, Places
<1>4. received[n].block \in Nat
  BY <1>2, <1>3, Received, TransfersAssumption
<1>5. n \in DOMAIN received' /\ MinAcceptable(received'[n].amount)
      /\ received'[n].block = received[n].block
  BY <1>1, <1>3, StillThere
<1> QED
  BY <1>1, <1>2, <1>4, <1>5

\* A payment's row stays right while the chain grows.
LEMMA StillPay ==
    ASSUME TransferInv, ChainOK', Grows, pay' = pay
    PROVE  PayOK'
<1>1. pay.tx > 0 => pay.tx \in 1 .. Len(received') /\ MinAcceptable(received'[pay.tx].amount)
  BY StillThere DEF TransferInv, PayOK
<1>2. pay.tx > 0 \/ pay.status # "PENDING" => Paid'
  BY StillPaid DEF TransferInv, PayOK
<1> QED
  BY <1>1, <1>2 DEF TransferInv, PayOK, MinAcceptable

\* The chain moves, and no call does.
LEMMA ChainStep ==
    ASSUME TransferInv, ChainOK', TopUpOK', Grows, pay' = pay, calls' = calls
    PROVE  TransferInv'
<1>1. ASSUME NEW p \in Proc PROVE TransferHeld(calls[p])'
  <2>1. PICK c \in TransferCalls : c = calls[p]
    BY DEF TransferInv, TransferCallsOK
  <2>2. TransferHeld(c)
    BY <2>1 DEF TransferInv, TransferCallsOK
  <2>3. TransferHeld(c)'
    BY <2>2, StillHeld
  <2>4. calls'[p] = c
    BY <2>1
  <2> QED BY <2>3, <2>4 DEF TransferHeld, PaidCall, GasReserved, AmountReserved, Reached
<1>2. TransferCallsOK'
  BY <1>1 DEF TransferInv, TransferCallsOK
<1> QED
  BY <1>2, StillReached, StillPay DEF TransferInv

\* One call moves: what the others hold holds on.
LEMMA CallStep ==
    ASSUME TransferInv, ChainOK', Grows, NEW p \in Proc, NEW c \in TransferCalls,
           calls' = [calls EXCEPT ![p] = c], TransferHeld(c)'
    PROVE  TransferCallsOK'
<1>1. calls' \in [Proc -> TransferCalls] /\ calls'[p] = c
      /\ \A q \in Proc : q # p => calls'[q] = calls[q]
  BY DEF TransferInv, TransferCallsOK
<1>2. ASSUME NEW q \in Proc PROVE TransferHeld(calls[q])'
  <2>1. PICK d \in TransferCalls : d = calls[q]
    BY DEF TransferInv, TransferCallsOK
  <2>2. TransferHeld(d)
    BY <2>1 DEF TransferInv, TransferCallsOK
  <2>3. TransferHeld(d)'
    BY <2>2, StillHeld
  <2>4. calls'[q] = c \/ calls'[q] = d
    BY <1>1, <2>1
  <2> QED BY <2>3, <2>4 DEF TransferHeld, PaidCall, GasReserved, AmountReserved, Reached
<1> QED
  BY <1>1, <1>2 DEF TransferCallsOK

\* A step of one call that writes nothing.
LEMMA QuietStep ==
    ASSUME TransferInv, NEW p \in Proc, NEW c \in TransferCalls,
           calls' = [calls EXCEPT ![p] = c], TransferHeld(c), UNCHANGED transferVars
    PROVE  TransferInv'
<1>1. ChainOK' /\ Grows /\ TopUpOK' /\ pay' = pay
  BY TransfersAssumption
     DEF TransferInv, ChainOK, Grows, TopUpOK, TokenFee, WithBuffer, transferVars, chainVars
<1>2. TransferHeld(c)'
  BY <1>1, StillHeld
<1>3. TransferCallsOK'
  BY <1>1, <1>2, CallStep
<1> QED
  BY <1>1, <1>3, StillReached, StillPay DEF TransferInv

\* The invariant holds at the start.
LEMMA InitTransfer == CallsInit /\ TransfersInit => TransferInv
<1> SUFFICES ASSUME CallsInit, TransfersInit PROVE TransferInv
  OBVIOUS
<1>1. ChainOK
  <2>1. <<>> \in Seq([amount : Amounts, block : 0 .. MaxHeight])
    OBVIOUS
  <2> QED BY <2>1, TransfersAssumption DEF TransfersInit, ChainOK, Metadata
<1>2. PayOK /\ TopUpOK /\ CountIsReached
  BY DEF TransfersInit, PayOK, TopUpOK, CountIsReached
<1>3. TransferCallsOK
  BY DEF CallsInit, Idle, TransferCallsOK, TransferCalls, TransferHeld, PaidCall
<1> QED
  BY <1>1, <1>2, <1>3 DEF TransferInv

\* A process without a call holds nothing.
LEMMA IdleHeld == Idle \in TransferCalls /\ TransferHeld(Idle)
BY DEF Idle, TransferCalls, TransferHeld, PaidCall

\* A transfer to the address.
LEMMA TransferMove == TransferInv /\ Transfer => TransferInv'
<1> SUFFICES ASSUME TransferInv, Transfer PROVE TransferInv'
  OBVIOUS
<1>1. PICK a \in Amounts : /\ received' = Append(received, [amount |-> a, block |-> 0])
                           /\ funds' = funds + a
  BY DEF Transfer
<1>2. UNCHANGED <<coin, moved, gas, gasComing, height, maxFee, pay, topUp, callVars>>
  BY DEF Transfer
<1>3. ChainOK /\ received \in Seq([amount : Amounts, block : 0 .. MaxHeight]) /\ a \in Nat
  BY TransfersAssumption DEF TransferInv, ChainOK
<1>4. [amount |-> a, block |-> 0] \in [amount : Amounts, block : 0 .. MaxHeight]
  BY TransfersAssumption
<1>5. PICK t \in [amount : Amounts, block : 0 .. MaxHeight] : t = [amount |-> a, block |-> 0]
  BY <1>4
<1>6. PICK R : R = [amount : Amounts, block : 0 .. MaxHeight]
  OBVIOUS
<1>7. received \in Seq(R) /\ t \in R /\ received' = Append(received, t)
  BY <1>1, <1>3, <1>5, <1>6
<1>8. /\ received' \in Seq(R)
      /\ Len(received') = Len(received) + 1
      /\ \A n \in 1 .. Len(received) : received'[n] = received[n]
  BY <1>7, AppendProperties
<1>9. ChainOK'
  BY <1>1, <1>2, <1>3, <1>6, <1>8 DEF ChainOK
<1>10. Len(received) \in Nat
  BY <1>3, Places
<1>11. Grows
  <2>1. coin' = coin /\ moved' = moved /\ gas' = gas /\ height' = height /\ funds' >= funds
    BY <1>1, <1>2, <1>3 DEF ChainOK
  <2>2. moved' >= moved /\ height' >= height /\ gas' >= gas
    BY <2>1, <1>3, TransfersAssumption DEF ChainOK
  <2>3. topUp' = topUp
    BY <1>2
  <2> QED BY <2>1, <2>2, <2>3, <1>8, <1>10 DEF Grows
<1>12. TopUpOK' /\ calls' = calls
  BY <1>2 DEF TransferInv, TopUpOK, TokenFee, WithBuffer, callVars
<1> QED
  BY <1>2, <1>9, <1>11, <1>12, ChainStep

\* An interval from 1 has one length.
LEMMA SameLength ==
    ASSUME NEW m \in Nat, NEW n \in Nat, 1 .. m = 1 .. n PROVE m = n
<1>1. \A k \in Nat : k \in 1 .. m <=> k \in 1 .. n
  OBVIOUS
<1>2. \A k \in Nat : 1 <= k /\ k <= m <=> 1 <= k /\ k <= n
  BY <1>1
<1>3. (m = 0 \/ m <= n) /\ (n = 0 \/ n <= m)
  BY <1>2
<1> QED
  BY <1>2, <1>3

\* A block takes in the transfers and top-ups that wait for one.
LEMMA MineMove == TransferInv /\ Mine => TransferInv'
<1> SUFFICES ASSUME TransferInv, Mine PROVE TransferInv'
  OBVIOUS
<1>1. /\ height < MaxHeight /\ height' = height + 1
      /\ received' = [n \in DOMAIN received |->
                         IF received[n].block = 0 THEN [received[n] EXCEPT !.block = height']
                         ELSE received[n]]
      /\ gas' = gas + gasComing /\ gasComing' = 0
      /\ UNCHANGED <<coin, funds, moved, maxFee, pay, topUp, callVars>>
  BY DEF Mine
<1>2. ChainOK /\ received \in Seq([amount : Amounts, block : 0 .. MaxHeight])
      /\ height \in 0 .. MaxHeight /\ MaxHeight \in Nat
  BY TransfersAssumption DEF TransferInv, ChainOK
<1>3. Len(received) \in Nat /\ DOMAIN received = 1 .. Len(received)
  BY <1>2, Places
<1>4. PICK h \in 0 .. MaxHeight : h = height'
  BY <1>1, <1>2
<1>5. ASSUME NEW n \in 1 .. Len(received)
      PROVE  /\ received'[n] \in [amount : Amounts, block : 0 .. MaxHeight]
             /\ received'[n].amount = received[n].amount
             /\ received[n].block > 0 => received'[n].block = received[n].block
  <2>1. PICK t \in [amount : Amounts, block : 0 .. MaxHeight] : t = received[n]
    BY <1>2, ElementOfSeq
  <2>2. received'[n] = IF t.block = 0 THEN [t EXCEPT !.block = h] ELSE t
    BY <1>1, <1>3, <1>4, <2>1
  <2>3. CASE t.block = 0
    <3>1. received'[n] = [amount |-> t.amount, block |-> h]
      BY <2>2, <2>3
    <3>2. received[n].block = 0
      BY <2>1, <2>3
    <3> QED BY <2>1, <3>1, <3>2
  <2>4. CASE t.block # 0
    BY <2>1, <2>2, <2>4
  <2> QED BY <2>3, <2>4
<1>6. DOMAIN received' = 1 .. Len(received) /\ received' = [n \in 1 .. Len(received) |-> received'[n]]
  BY <1>1, <1>3
<1>7. PICK R : R = [amount : Amounts, block : 0 .. MaxHeight]
  OBVIOUS
<1>8. \A n \in 1 .. Len(received) : received'[n] \in R
  BY <1>5, <1>7
<1>9. received' \in [1 .. Len(received) -> R]
  BY <1>6, <1>8
<1>10. received' \in Seq(R) /\ Len(received') = Len(received)
  <2>1. received' \in Seq(R)
    BY <1>3, <1>9, IsASeq
  <2>2. DOMAIN received' = 1 .. Len(received') /\ Len(received') \in Nat
    BY <2>1, LenProperties
  <2>3. 1 .. Len(received') = 1 .. Len(received)
    BY <2>2, <1>6
  <2>4. Len(received') = Len(received)
    BY <2>2, <2>3, <1>3, SameLength
  <2> QED BY <2>1, <2>4
<1>11. gas \in Nat /\ gasComing \in Nat /\ gas' \in Nat /\ gasComing' \in Nat
  BY <1>1, <1>2 DEF ChainOK
<1>12. ChainOK'
  BY <1>1, <1>2, <1>4, <1>7, <1>10, <1>11 DEF ChainOK
<1>13. Grows
  <2>1. coin' = coin /\ moved' = moved /\ funds' = funds /\ height' >= height /\ gas' >= gas
    BY <1>1, <1>2, <1>11
  <2>2. moved' >= moved /\ funds' >= funds
    BY <2>1, <1>2 DEF ChainOK
  <2>3. topUp' = topUp
    BY <1>1
  <2> QED BY <2>1, <2>2, <2>3, <1>3, <1>5, <1>10 DEF Grows
<1>14. TopUpOK'
  <2>1. gas' + gasComing' = gas + gasComing
    BY <1>1, <1>11
  <2> QED BY <2>1, <1>1 DEF TransferInv, TopUpOK, TokenFee, WithBuffer
<1> QED
  BY <1>1, <1>12, <1>13, <1>14, ChainStep DEF callVars

\* The price of gas moves: no call relies on the present one.
LEMMA FeeMove == TransferInv /\ FeeMoves => TransferInv'
<1> SUFFICES ASSUME TransferInv, FeeMoves PROVE TransferInv'
  OBVIOUS
<1>1. /\ maxFee' \in Prices
      /\ UNCHANGED <<coin, received, funds, moved, gas, gasComing, height, pay, topUp, calls>>
  BY DEF FeeMoves, callVars
<1>2. ChainOK' /\ TopUpOK'
  BY <1>1 DEF TransferInv, ChainOK, TopUpOK, TokenFee, WithBuffer
<1>3. ChainOK
  BY DEF TransferInv
<1>4. Len(received) \in Nat
  BY <1>3, Places
<1>5. Grows
  BY <1>1, <1>3, <1>4, TransfersAssumption DEF ChainOK, Grows
<1> QED
  BY <1>1, <1>2, <1>5, ChainStep

-----------------------------------------------------------------------------

\* The record a call goes on with.
LEMMA Continued ==
    ASSUME NEW step \in TransferSteps, NEW held,
           held.n \in Nat, held.amount \in Nat, held.metadata \in Metadata, held.estimate \in Nat,
           held.price \in Nat, held.limit \in Nat
    PROVE  \E c \in TransferCalls :
              /\ c = Holding(step, held) /\ c.at = step
              /\ c.n = held.n /\ c.amount = held.amount /\ c.metadata = held.metadata
              /\ c.estimate = held.estimate /\ c.price = held.price /\ c.limit = held.limit
<1>1. PICK c : c = [at |-> step, n |-> held.n, amount |-> held.amount, metadata |-> held.metadata,
                    estimate |-> held.estimate, price |-> held.price, limit |-> held.limit]
  OBVIOUS
<1>2. c \in TransferCalls
  BY <1>1 DEF TransferCalls
<1>3. c = Holding(step, held)
  BY <1>1 DEF Holding
<1> QED
  BY <1>1, <1>2, <1>3

\* Nothing but a number.
LEMMA NothingHeld ==
    /\ Nothing.n = 0 /\ Nothing.amount = 0 /\ Nothing.metadata = NoTopUp /\ Nothing.estimate = 0
    /\ Nothing.price = 0 /\ Nothing.limit = 0 /\ NoTopUp \in Metadata
BY DEF Nothing, Metadata

\* What a call that is not idle holds.
LEMMA CallFields ==
    ASSUME TransferInv, NEW p \in Proc, calls[p].at # "idle"
    PROVE  /\ calls[p].n \in Nat /\ calls[p].amount \in Nat /\ calls[p].metadata \in Metadata
           /\ calls[p].estimate \in Nat /\ calls[p].price \in Nat /\ calls[p].limit \in Nat
           /\ TransferHeld(calls[p]) /\ calls[p] \in TransferCalls
           /\ calls[p] \in [at : TransferSteps, n : Nat, amount : Nat, metadata : Metadata,
                            estimate : Nat, price : Nat, limit : Nat]
BY DEF TransferInv, TransferCallsOK, TransferCalls, Idle

\* checkPayment begins.
LEMMA CheckPaymentMove ==
    ASSUME TransferInv, NEW p \in Proc, CheckPayment(p)
    PROVE  TransferInv'
<1>1. PICK c \in TransferCalls : c = Holding("balance", Nothing) /\ c.at = "balance"
  <2>1. "balance" \in TransferSteps
    BY DEF TransferSteps
  <2> QED BY <2>1, NothingHeld, Continued
<1>2. TransferHeld(c)
  BY <1>1 DEF TransferHeld, PaidCall
<1>3. calls' = [calls EXCEPT ![p] = c] /\ UNCHANGED transferVars
  BY <1>1 DEF CheckPayment, BeginTransfer, Begin
<1> QED
  BY <1>1, <1>2, <1>3, QuietStep

\* The balance is read; it can only grow until something is forwarded.
LEMMA GetBalanceMove ==
    ASSUME TransferInv, NEW p \in Proc, GetBalance(p)
    PROVE  TransferInv'
<1>1. CASE Return(p)
  BY <1>1, IdleHeld, QuietStep DEF Return, Goto, GetBalance
<1>2. CASE Continue(p, "latest", [Nothing EXCEPT !.amount = funds])
  <2>1. PICK f \in Nat : f = funds
    BY DEF TransferInv, ChainOK
  <2>2. PICK held : held = [Nothing EXCEPT !.amount = f]
    OBVIOUS
  <2>3. held.amount = f /\ held.n = 0 /\ held.metadata = NoTopUp /\ held.estimate = 0
        /\ held.price = 0 /\ held.limit = 0
    BY <2>2 DEF Nothing
  <2>5. PICK c1 \in TransferCalls : c1 = Holding("latest", held) /\ c1.at = "latest" /\ c1.amount = f
    <3>1. "latest" \in TransferSteps
      BY DEF TransferSteps
    <3> QED BY <2>1, <2>3, <3>1, NothingHeld, Continued
  <2>4. calls' = [calls EXCEPT ![p] = c1] /\ UNCHANGED transferVars
    BY <1>2, <2>1, <2>2, <2>5 DEF Continue, Goto, GetBalance
  <2>6. TransferHeld(c1)
    BY <2>1, <2>5 DEF TransferHeld, PaidCall
  <2> QED BY <2>4, <2>5, <2>6, QuietStep
<1> QED
  BY <1>1, <1>2 DEF GetBalance

\* Any collection of finite sets has a member of which no other one is a part.
LEMMA SmallestSet ==
    ASSUME NEW S, IsFiniteSet(S), NEW C \in SUBSET (SUBSET S), C # {}
    PROVE  \E m \in C : \A n \in C : n \subseteq m => n = m
<1>1. IsWellFoundedOn(StrictSubsetOrdering(S), FiniteSubsetsOf(S)) /\ FiniteSubsetsOf(S) = SUBSET S
  BY FS_StrictSubsetOrderingWellFounded, FS_FiniteSubsetsOfFinite
<1>2. PICK m \in C : \A n \in C : ~(<<n, m>> \in StrictSubsetOrdering(S))
  BY <1>1, WFMin
<1>3. ASSUME NEW n \in C, n \subseteq m PROVE n = m
  BY <1>2, <1>3 DEF StrictSubsetOrdering
<1> QED BY <1>3

\* A finite set of integers has a largest member.
LEMMA MaxIsThere ==
    ASSUME NEW S, IsFiniteSet(S), S # {}, \A x \in S : x \in Int
    PROVE  Max(S) \in S /\ \A x \in S : Max(S) >= x
<1> DEFINE Bad == {s \in SUBSET S : s # {} /\ ~ \E x \in s : \A y \in s : x >= y}
<1>1. Bad = {}
  <2> SUFFICES ASSUME Bad # {} PROVE FALSE
    OBVIOUS
  <2>1. PICK m \in Bad : \A n \in Bad : n \subseteq m => n = m
    <3>1. \A C \in SUBSET (SUBSET S) : C # {} => \E m \in C : \A n \in C : n \subseteq m => n = m
      BY SmallestSet
    <3>2. Bad \in SUBSET (SUBSET S)
      OBVIOUS
    <3> HIDE DEF Bad
    <3> QED BY <3>1, <3>2
  <2>2. m \in SUBSET S /\ m # {} /\ ~ \E x \in m : \A y \in m : x >= y
    BY <2>1
  <2>3. PICK a \in m : TRUE
    BY <2>2
  <2>4. m \ {a} \notin Bad
    BY <2>1, <2>3
  <2>5. m \ {a} # {}
    <3>1. \A y \in {a} : a >= y
      BY <2>2, <2>3
    <3> QED BY <2>2, <2>3, <3>1
  <2>6. PICK b \in m \ {a} : \A y \in m \ {a} : b >= y
    BY <2>2, <2>4, <2>5
  <2>7. a \in Int /\ b \in Int
    BY <2>2, <2>3, <2>6
  <2>8. (\A y \in m : a >= y) \/ (\A y \in m : b >= y)
    BY <2>2, <2>6, <2>7
  <2> QED BY <2>2, <2>3, <2>6, <2>8
<1>2. S \notin Bad
  BY <1>1
<1>3. \E x \in S : \A y \in S : x >= y
  BY <1>2
<1> QED BY <1>3 DEF Max

\* Of transfers listed there is a latest.
LEMMA GreatestIsThere ==
    ASSUME NEW n \in Nat, NEW S \in SUBSET (1 .. n), S # {}
    PROVE  Max(S) \in S
<1>1. IsFiniteSet(1 .. n)
  BY FS_Interval
<1>0. IsFiniteSet(S)
  BY <1>1, FS_Subset
<1>2. \A x \in S : x \in Int
  OBVIOUS
<1> QED
  BY <1>0, <1>2, MaxIsThere

\* The latest transfer is read.
LEMMA LatestMove ==
    ASSUME TransferInv, NEW p \in Proc, GetTransactionByAddress(p)
    PROVE  TransferInv'
<1>1. CASE Return(p)
  BY <1>1, IdleHeld, QuietStep DEF Return, Goto, GetTransactionByAddress
<1>2. ASSUME ~Return(p) PROVE TransferInv'
  <2>1. PICK n : n = IF Listed = {} THEN 0 ELSE Max(Listed)
    OBVIOUS
  <2>2. ChainOK /\ TransferCallsOK /\ calls[p].at = "latest"
    BY DEF TransferInv, GetTransactionByAddress, At
  <2>3. Len(received) \in Nat /\ DOMAIN received = 1 .. Len(received)
    BY <2>2, Places
  <2>4. n \in 0 .. Len(received)
    <3>1. PICK S \in SUBSET (1 .. Len(received)) : S = Listed
      BY <2>3 DEF Listed
    <3>2. CASE S = {}
      BY <2>1, <2>3, <3>1, <3>2
    <3>3. CASE S # {}
      <4>1. Max(S) \in S
        BY <2>3, <3>1, <3>3, GreatestIsThere
      <4> QED BY <2>1, <2>3, <3>1, <3>3, <4>1
    <3> QED BY <3>2, <3>3
  <2>5. PICK a \in Nat : a = calls[p].amount
    BY <2>2, CallFields
  <2>6. PICK held : held = [calls[p] EXCEPT !.n = n]
    OBVIOUS
  <2>7. PICK c \in TransferCalls : c = Holding("detect", held) /\ c.at = "detect" /\ c.n = n /\ c.amount = a
    <3>1. PICK d : d = calls[p]
      OBVIOUS
    <3>2. d \in [at : TransferSteps, n : Nat, amount : Nat, metadata : Metadata, estimate : Nat,
                 price : Nat, limit : Nat]
      BY <2>2, <3>1, CallFields
    <3>3. held = [d EXCEPT !.n = n]
      BY <2>6, <3>1
    <3>4. held.n = n /\ held.amount = d.amount /\ held.metadata = d.metadata
          /\ held.estimate = d.estimate /\ held.price = d.price /\ held.limit = d.limit
      BY <3>2, <3>3
    <3>5. "detect" \in TransferSteps /\ n \in Nat
      BY <2>3, <2>4 DEF TransferSteps
    <3> QED BY <2>5, <3>1, <3>2, <3>4, <3>5, Continued
  <2>8. calls' = [calls EXCEPT ![p] = c] /\ UNCHANGED transferVars
    BY <1>2, <2>1, <2>6, <2>7 DEF GetTransactionByAddress, Continue, Goto
  <2>9. moved > 0 \/ a <= funds
    BY <2>2, <2>5 DEF TransferCallsOK, TransferHeld
  <2>10. TransferHeld(c)
    BY <2>4, <2>7, <2>9 DEF TransferHeld, PaidCall
  <2> QED BY <2>7, <2>8, <2>10, QuietStep
<1> QED
  BY <1>1, <1>2

\* A step that leaves the chain alone and may write the payment.
LEMMA SameChain ==
    ASSUME TransferInv, UNCHANGED <<chainVars, funds, moved, gas, topUp>>
    PROVE  ChainOK' /\ Grows /\ TopUpOK'
<1>1. ChainOK
  BY DEF TransferInv
<1>2. Len(received) \in Nat
  BY <1>1, Places
<1> QED
  BY <1>1, <1>2, TransfersAssumption
     DEF TransferInv, ChainOK, Grows, TopUpOK, TokenFee, WithBuffer, chainVars

\* An acceptable amount is not nothing.
LEMMA AcceptablePays ==
    ASSUME NEW a \in Nat, MinAcceptable(a) PROVE a > 0
<1>1. Asked \in Nat \ {0} /\ Tolerance \in 0 .. 99
  BY TransfersAssumption
<1>2. PICK k \in Nat \ {0} : k = 100 - Tolerance
  BY <1>1
<1>3. k * Asked > 0
  BY <1>1
<1>4. 100 * a >= k * Asked
  BY <1>2 DEF MinAcceptable
<1>5. k * Asked \in Nat
  BY <1>1
<1> QED
  BY <1>3, <1>4, <1>5

\* The payment becomes PAID with a transaction of an acceptable amount.
LEMMA DetectMove ==
    ASSUME TransferInv, NEW p \in Proc, Detect(p)
    PROVE  TransferInv'
<1>1. /\ UNCHANGED <<chainVars, funds, moved, gas, topUp>>
      /\ calls' = [calls EXCEPT ![p] = Idle] /\ calls[p].at = "detect"
  BY DEF Detect, Return, Goto, At
<1>2. ChainOK' /\ Grows /\ TopUpOK'
  BY <1>1, SameChain
<1>3. TransferHeld(Idle)'
  BY DEF Idle, TransferHeld, PaidCall
<1>4. TransferCallsOK'
  BY <1>1, <1>2, <1>3, IdleHeld, CallStep
<1>5. CASE pay' = pay
  BY <1>2, <1>4, <1>5, StillPay, StillReached DEF TransferInv
<1>6. CASE Accepts(calls[p]) /\ pay' = [status |-> "PAID", tx |-> calls[p].n, depth |-> 0]
  <2>1. PICK c \in TransferCalls : c = calls[p] /\ TransferHeld(c) /\ c.amount \in Nat /\ c.n \in Nat
    BY <1>1, CallFields
  <2>2. c.at = "detect" /\ c.n \in 0 .. Len(received) /\ (moved > 0 \/ c.amount <= funds)
    BY <1>1, <2>1 DEF TransferHeld
  <2>3. MinAcceptable(c.amount) /\ (c.n > 0 => MinAcceptable(received[c.n].amount))
    BY <1>6, <2>1 DEF Accepts
  <2>4. c.amount > 0
    BY <2>1, <2>3, AcceptablePays
  <2>5. Paid
    BY <2>1, <2>2, <2>4 DEF Paid, TransferInv, ChainOK
  <2>6. Paid'
    BY <1>1, <2>5 DEF Paid
  <2>7. received' = received
    BY <1>1 DEF chainVars
  <2>8. pay'.tx = c.n /\ pay'.depth = 0 /\ pay'.status = "PAID"
        /\ pay' = [status |-> "PAID", tx |-> c.n, depth |-> 0]
    BY <1>6, <2>1
  <2>9. PayOK'
    BY <2>1, <2>2, <2>3, <2>6, <2>7, <2>8 DEF PayOK, MinAcceptable
  <2>10. CountIsReached'
    BY <2>8 DEF CountIsReached
  <2> QED BY <1>2, <1>4, <2>9, <2>10 DEF TransferInv
<1> QED
  BY <1>5, <1>6 DEF Detect

\* checkConfirmations begins with the transaction of the row.
LEMMA CheckConfirmationsMove ==
    ASSUME TransferInv, NEW p \in Proc, CheckConfirmations(p)
    PROVE  TransferInv'
<1>1. PICK n \in Nat : n = pay.tx
  BY DEF TransferInv, PayOK
<1>2. PICK held : held = [Nothing EXCEPT !.n = n]
  OBVIOUS
<1>4. PICK c \in TransferCalls : c = Holding("block", held) /\ c.at = "block" /\ c.n = n
  <2>1. held.n = n /\ held.amount = 0 /\ held.metadata = NoTopUp /\ held.estimate = 0
        /\ held.price = 0 /\ held.limit = 0
    BY <1>2 DEF Nothing
  <2>2. "block" \in TransferSteps
    BY DEF TransferSteps
  <2> QED BY <1>1, <2>1, <2>2, NothingHeld, Continued
<1>3. calls' = [calls EXCEPT ![p] = c] /\ UNCHANGED transferVars /\ n > 0
  BY <1>1, <1>2, <1>4 DEF CheckConfirmations, BeginTransfer, Begin
<1>5. n \in 1 .. Len(received) /\ MinAcceptable(received[n].amount) /\ Paid
  BY <1>1, <1>3 DEF TransferInv, PayOK
<1>6. TransferHeld(c)
  BY <1>4, <1>5 DEF TransferHeld, PaidCall
<1> QED
  BY <1>3, <1>4, <1>6, QuietStep

\* What a call holds that looks for confirmations, with another amount at its next await.
LEMMA CountingMove ==
    ASSUME TransferInv, NEW p \in Proc, calls[p].at \in {"block", "height"},
           NEW step \in {"height", "count"}, NEW amount \in Nat,
           step = "height" => received[calls[p].n].block = amount /\ amount > 0,
           step = "count" => Reached(calls[p].n, amount),
           Continue(p, step, [calls[p] EXCEPT !.amount = amount]), UNCHANGED transferVars
    PROVE  TransferInv'
<1>1. PICK c : c = calls[p] /\ TransferHeld(c)
               /\ c \in [at : TransferSteps, n : Nat, amount : Nat, metadata : Metadata,
                         estimate : Nat, price : Nat, limit : Nat]
  BY CallFields
<1>2. PICK held : held = [c EXCEPT !.amount = amount]
  OBVIOUS
<1>3. held.n = c.n /\ held.amount = amount /\ held.metadata = c.metadata
      /\ held.estimate = c.estimate /\ held.price = c.price /\ held.limit = c.limit
  BY <1>1, <1>2
<1>4. step \in TransferSteps
  BY DEF TransferSteps
<1>6. PICK d \in TransferCalls : d = Holding(step, held) /\ d.at = step /\ d.n = c.n /\ d.amount = amount
  BY <1>1, <1>3, <1>4, Continued
<1>5. calls' = [calls EXCEPT ![p] = d]
  BY <1>1, <1>2, <1>6 DEF Continue, Goto
<1>7. c.n \in 1 .. Len(received) /\ MinAcceptable(received[c.n].amount) /\ Paid
  BY <1>1 DEF TransferHeld, PaidCall
<1>8. TransferHeld(d)
  BY <1>1, <1>6, <1>7 DEF TransferHeld, PaidCall
<1> QED
  BY <1>5, <1>6, <1>8, QuietStep

\* A count of 0 is stored without anything having been read.
LEMMA NoCount ==
    ASSUME TransferInv, NEW p \in Proc, calls[p].at \in {"block", "height"},
           Continue(p, "count", [calls[p] EXCEPT !.amount = 0]), UNCHANGED transferVars
    PROVE  TransferInv'
<1>1. PICK step \in {"height", "count"}, none \in Nat : step = "count" /\ none = 0
  OBVIOUS
<1>2. Continue(p, step, [calls[p] EXCEPT !.amount = none])
  BY <1>1
<1>3. Reached(calls[p].n, none)
  BY <1>1 DEF Reached
<1>4. step = "height" => received[calls[p].n].block = none /\ none > 0
  BY <1>1
<1> QED
  BY <1>2, <1>3, <1>4, CountingMove

\* An error on the way ends the check or counts 0.
LEMMA FailingCount ==
    ASSUME TransferInv, NEW p \in Proc, calls[p].at \in {"block", "height"},
           ConfirmationsFail(p), UNCHANGED transferVars
    PROVE  TransferInv'
<1>1. CASE Return(p)
  BY <1>1, IdleHeld, QuietStep DEF Return, Goto
<1>2. CASE Continue(p, "count", [calls[p] EXCEPT !.amount = 0])
  BY <1>2, NoCount
<1> QED
  BY <1>1, <1>2 DEF ConfirmationsFail

\* The block of the transaction is read.
LEMMA BlockMove ==
    ASSUME TransferInv, NEW p \in Proc, TransactionBlock(p)
    PROVE  TransferInv'
<1>1. calls[p].at = "block" /\ UNCHANGED transferVars
  BY DEF TransactionBlock, At
<1>2. CASE ConfirmationsFail(p)
  BY <1>1, <1>2, FailingCount
<1>3. CASE Continue(p, "count", [calls[p] EXCEPT !.amount = 0])
  BY <1>1, <1>3, NoCount
<1>4. CASE /\ received[calls[p].n].block > 0
           /\ Continue(p, "height", [calls[p] EXCEPT !.amount = received[calls[p].n].block])
  <2>1. ChainOK /\ calls[p].n \in 1 .. Len(received)
    BY <1>1, CallFields DEF TransferInv, TransferHeld
  <2>2. PICK block \in Nat : block = received[calls[p].n].block
    <3>1. received[calls[p].n].block \in 0 .. MaxHeight
      BY <2>1, Received
    <3>2. MaxHeight \in Nat
      BY TransfersAssumption
    <3> QED BY <3>1, <3>2
  <2>3. Continue(p, "height", [calls[p] EXCEPT !.amount = block])
    BY <1>4, <2>2
  <2> QED BY <1>1, <1>4, <2>2, <2>3, CountingMove
<1> QED
  BY <1>2, <1>3, <1>4 DEF TransactionBlock

\* The height is read; the chain is at least as high ever after.
LEMMA HeightMove ==
    ASSUME TransferInv, NEW p \in Proc, CurrentHeight(p)
    PROVE  TransferInv'
<1>1. calls[p].at = "height" /\ UNCHANGED transferVars
  BY DEF CurrentHeight, At
<1>2. CASE ConfirmationsFail(p)
  BY <1>1, <1>2, FailingCount
<1>3. CASE Continue(p, "count", [calls[p] EXCEPT !.amount = ConfirmationsAt(calls[p].amount, height)])
  <2>1. ChainOK /\ calls[p].n \in 1 .. Len(received)
        /\ received[calls[p].n].block = calls[p].amount /\ calls[p].amount > 0
    BY <1>1, CallFields DEF TransferInv, TransferHeld
  <2>2. PICK block \in Nat : block = calls[p].amount /\ block = received[calls[p].n].block
    BY <1>1, <2>1, CallFields
  <2>3. height \in Nat
    BY <2>1, TransfersAssumption DEF ChainOK
  <2>4. PICK count \in Nat : count = ConfirmationsAt(block, height)
    BY <2>2, <2>3 DEF ConfirmationsAt
  <2>5. count > 0 => height - block + 1 >= count
    BY <2>2, <2>3, <2>4 DEF ConfirmationsAt
  <2>6. Reached(calls[p].n, count)
    BY <2>1, <2>2, <2>5 DEF Reached
  <2>7. Continue(p, "count", [calls[p] EXCEPT !.amount = count])
    BY <1>3, <2>2, <2>4
  <2> QED BY <1>1, <2>6, <2>7, CountingMove
<1> QED
  BY <1>2, <1>3 DEF CurrentHeight

\* The count is stored.
LEMMA StoreCountMove ==
    ASSUME TransferInv, NEW p \in Proc, StoreCount(p)
    PROVE  TransferInv'
<1>1. PICK c \in TransferCalls : c = calls[p] /\ TransferHeld(c) /\ c.amount \in Nat /\ c.n \in Nat
  BY CallFields DEF StoreCount, At
<1>2. c.at = "count" /\ UNCHANGED <<chainVars, funds, moved, gas, topUp>>
  BY <1>1 DEF StoreCount, At
<1>3. ChainOK' /\ Grows /\ TopUpOK' /\ received' = received /\ height' = height
  BY <1>2, SameChain DEF chainVars
<1>4. c.n \in 1 .. Len(received) /\ MinAcceptable(received[c.n].amount) /\ Paid /\ Reached(c.n, c.amount)
  BY <1>1, <1>2 DEF TransferHeld, PaidCall
<1>5. Paid'
  BY <1>2, <1>4 DEF Paid
<1>6. PICK n \in Nat, s \in {"CONFIRMING", "PAID"} :
         n = c.amount /\ pay' = [pay EXCEPT !.depth = n, !.status = s]
  BY <1>1 DEF StoreCount
<1>7. pay' = [status |-> s, tx |-> pay.tx, depth |-> n] /\ pay.tx \in Nat
      /\ (pay.tx > 0 => pay.tx \in 1 .. Len(received) /\ MinAcceptable(received[pay.tx].amount))
  BY <1>6 DEF TransferInv, PayOK
<1>8. PICK tx \in Nat : tx = pay.tx
  BY <1>7
<1>9. pay'.status = s /\ pay'.tx = tx /\ pay'.depth = n
      /\ pay' \in [status : {"PENDING", "PAID", "CONFIRMING", "CONFIRMED", "FORWARDING", "FORWARDED",
                             "FORWARDING_FAILED"}, tx : Nat, depth : Nat]
  BY <1>6, <1>7, <1>8
<1>10. PayOK'
  BY <1>3, <1>5, <1>7, <1>8, <1>9 DEF PayOK, MinAcceptable
<1>11. CountIsReached'
  <2>1. c.n \in DOMAIN received
    BY <1>4, Places DEF TransferInv
  <2> QED BY <1>3, <1>4, <1>6, <1>9, <2>1 DEF CountIsReached, Reached, MinAcceptable
<1>12. TransferCallsOK'
  <2>1. CASE Return(p)
    <3>1. TransferHeld(Idle)'
      BY DEF Idle, TransferHeld, PaidCall
    <3> QED BY <1>3, <2>1, <3>1, IdleHeld, CallStep DEF Return, Goto
  <2>2. CASE Continue(p, "confirm", Nothing)
    <3>1. PICK d \in TransferCalls : d = Holding("confirm", Nothing) /\ d.at = "confirm"
      <4>1. "confirm" \in TransferSteps
        BY DEF TransferSteps
      <4> QED BY <4>1, NothingHeld, Continued
    <3>2. calls' = [calls EXCEPT ![p] = d]
      BY <2>2, <3>1 DEF Continue, Goto
    <3>3. TransferHeld(d)'
      BY <1>5, <3>1 DEF TransferHeld, PaidCall
    <3> QED BY <1>3, <3>1, <3>2, <3>3, CallStep
  <2> QED BY <2>1, <2>2 DEF StoreCount
<1> QED
  BY <1>3, <1>10, <1>11, <1>12 DEF TransferInv

\* A step writes the status alone, of a payment that is paid.
LEMMA StatusWritten ==
    ASSUME TransferInv, UNCHANGED <<chainVars, funds, moved, gas, topUp>>, Paid,
           NEW s \in {"CONFIRMED", "FORWARDING", "FORWARDING_FAILED"},
           pay' = [pay EXCEPT !.status = s]
    PROVE  PayOK' /\ CountIsReached'
<1>1. pay' = [status |-> s, tx |-> pay.tx, depth |-> pay.depth] /\ pay.tx \in Nat /\ pay.depth \in Nat
  BY DEF TransferInv, PayOK
<1>2. PICK tx \in Nat, depth \in Nat : tx = pay.tx /\ depth = pay.depth
  BY <1>1
<1>3. pay'.status = s /\ pay'.tx = tx /\ pay'.depth = depth
      /\ pay' \in [status : {"PENDING", "PAID", "CONFIRMING", "CONFIRMED", "FORWARDING", "FORWARDED",
                             "FORWARDING_FAILED"}, tx : Nat, depth : Nat]
  BY <1>1, <1>2
<1>4. received' = received /\ height' = height /\ Paid'
  BY DEF chainVars, Paid
<1>5. PayOK'
  BY <1>2, <1>3, <1>4 DEF TransferInv, PayOK, MinAcceptable
<1>6. CountIsReached'
  BY <1>2, <1>3, <1>4 DEF TransferInv, CountIsReached, MinAcceptable
<1> QED
  BY <1>5, <1>6

\* confirmPayment.
LEMMA ConfirmMove ==
    ASSUME TransferInv, NEW p \in Proc, Confirm(p)
    PROVE  TransferInv'
<1>1. /\ UNCHANGED <<chainVars, funds, moved, gas, topUp>> /\ calls[p].at = "confirm"
      /\ calls' = [calls EXCEPT ![p] = Idle] /\ pay' = [pay EXCEPT !.status = "CONFIRMED"]
  BY DEF Confirm, Return, Goto, At
<1>2. Paid
  BY <1>1, CallFields DEF TransferHeld, PaidCall
<1>3. PayOK' /\ CountIsReached'
  BY <1>1, <1>2, StatusWritten
<1>4. ChainOK' /\ Grows /\ TopUpOK'
  BY <1>1, SameChain
<1>5. TransferHeld(Idle)'
  BY DEF Idle, TransferHeld, PaidCall
<1>6. TransferCallsOK'
  BY <1>1, <1>4, <1>5, IdleHeld, CallStep
<1> QED
  BY <1>3, <1>4, <1>6 DEF TransferInv

\* forwardPayment begins.
LEMMA ForwardMove ==
    ASSUME TransferInv, NEW p \in Proc, ForwardPayment(p)
    PROVE  TransferInv'
<1>1. PICK step \in {"estimate", "gas", "amount"} :
         step = CASE coin = "ERC20" -> "estimate" [] coin = "TRC20" -> "gas" [] OTHER -> "amount"
  OBVIOUS
<1>2. PICK m \in Metadata : m = topUp
  BY DEF TransferInv, ChainOK
<1>11. PICK held : held = [Nothing EXCEPT !.metadata = m]
  OBVIOUS
<1>7. PICK c \in TransferCalls : c = Holding(step, held) /\ c.at = step /\ c.metadata = m
  <2>1. held.n = 0 /\ held.amount = 0 /\ held.metadata = m /\ held.estimate = 0
        /\ held.price = 0 /\ held.limit = 0
    BY <1>11 DEF Nothing
  <2>2. step \in TransferSteps
    BY DEF TransferSteps
  <2> QED BY <2>1, <2>2, Continued
<1>3. /\ UNCHANGED <<chainVars, funds, moved, gas, topUp>>
      /\ calls' = [calls EXCEPT ![p] = c] /\ pay' = [pay EXCEPT !.status = "FORWARDING"]
      /\ pay.status \in {"CONFIRMED", "FORWARDING"}
  BY <1>1, <1>2, <1>11, <1>7 DEF ForwardPayment, BeginTransfer, Begin
<1>4. Paid
  BY <1>3 DEF TransferInv, PayOK
<1>5. PayOK' /\ CountIsReached'
  BY <1>3, <1>4, StatusWritten
<1>6. ChainOK' /\ Grows /\ TopUpOK'
  BY <1>3, SameChain
<1>8. TransferHeld(c)
  BY <1>1, <1>2, <1>4, <1>7 DEF TransferHeld, PaidCall, GasReserved
<1>9. TransferHeld(c)'
  BY <1>6, <1>7, <1>8, StillHeld
<1>10. TransferCallsOK'
  BY <1>3, <1>6, <1>7, <1>9, CallStep
<1> QED
  BY <1>5, <1>6, <1>10 DEF TransferInv

\* The fee of a token's forward is computed.
LEMMA CalcMove ==
    ASSUME TransferInv, NEW p \in Proc, CalcEthTopUp(p)
    PROVE  TransferInv'
<1>1. calls[p].at = "estimate" /\ UNCHANGED transferVars
  BY DEF CalcEthTopUp, At
<1>2. PICK d : d = calls[p] /\ TransferHeld(d)
               /\ d \in [at : TransferSteps, n : Nat, amount : Nat, metadata : Metadata,
                         estimate : Nat, price : Nat, limit : Nat]
  BY <1>1, CallFields
<1>3. Paid /\ coin \in {"ERC20", "TRC20"} /\ (d.metadata # NoTopUp => moved > 0 \/ topUp # NoTopUp)
  BY <1>1, <1>2 DEF TransferHeld, PaidCall
<1>4. PICK f \in Nat : f = maxFee
  BY TransfersAssumption DEF TransferInv, ChainOK
<1>5. PICK e \in Nat : Continue(p, "gas", [calls[p] EXCEPT !.estimate = e, !.price = maxFee])
  BY TransfersAssumption DEF CalcEthTopUp, Estimates
<1>6. PICK held : held = [d EXCEPT !.estimate = e, !.price = f]
  OBVIOUS
<1>7. held.n = d.n /\ held.amount = d.amount /\ held.metadata = d.metadata
      /\ held.estimate = e /\ held.price = f /\ held.limit = d.limit
  BY <1>2, <1>6
<1>8. PICK c \in TransferCalls : c = Holding("gas", held) /\ c.at = "gas" /\ c.metadata = d.metadata
  <2>1. "gas" \in TransferSteps
    BY DEF TransferSteps
  <2> QED BY <1>2, <1>7, <2>1, Continued
<1>9. calls' = [calls EXCEPT ![p] = c]
  BY <1>2, <1>4, <1>5, <1>6, <1>8 DEF Continue, Goto
<1>10. TransferHeld(c)
  BY <1>3, <1>8 DEF TransferHeld, PaidCall
<1> QED
  BY <1>1, <1>8, <1>9, <1>10, QuietStep

\* The fee is at the address when the amount is about to be computed.
LEMMA EnsureGasMove ==
    ASSUME TransferInv, NEW p \in Proc, EnsureGasAvailable(p)
    PROVE  TransferInv'
<1>1. calls[p].at = "gas" /\ UNCHANGED transferVars
  BY DEF EnsureGasAvailable, At
<1>2. Paid /\ coin \in {"ERC20", "TRC20"}
  BY <1>1, CallFields DEF TransferHeld, PaidCall
<1>3. CASE Return(p)
  BY <1>1, <1>3, IdleHeld, QuietStep DEF Return, Goto
<1>4. CASE Continue(p, "topUp", Nothing)
  <2>1. PICK c \in TransferCalls : c = Holding("topUp", Nothing) /\ c.at = "topUp"
    <3>1. "topUp" \in TransferSteps
      BY DEF TransferSteps
    <3> QED BY <3>1, NothingHeld, Continued
  <2>2. calls' = [calls EXCEPT ![p] = c]
    BY <1>4, <2>1 DEF Continue, Goto
  <2>3. TransferHeld(c)
    BY <1>2, <2>1 DEF TransferHeld, PaidCall
  <2> QED BY <1>1, <2>1, <2>2, <2>3, QuietStep
<1>5. CASE ~GasShort(calls[p]) /\ Continue(p, "amount", calls[p])
  <2>1. gas \in Nat /\ MinTrx \in Nat
    BY TransfersAssumption DEF TransferInv, ChainOK
  <2>2. PICK d : d = calls[p] /\ d.n \in Nat /\ d.amount \in Nat /\ d.metadata \in Metadata
                 /\ d.estimate \in Nat /\ d.price \in Nat /\ d.limit \in Nat
    BY <1>1, CallFields
  <2>3. PICK c \in TransferCalls : /\ c = Holding("amount", d) /\ c.at = "amount"
                                   /\ c.estimate = d.estimate /\ c.price = d.price
    <3>1. "amount" \in TransferSteps
      BY DEF TransferSteps
    <3> QED BY <2>2, <3>1, Continued
  <2>5. calls' = [calls EXCEPT ![p] = c]
    BY <1>5, <2>2, <2>3 DEF Continue, Goto
  <2>6. PICK w \in Nat : w = TokenFee(d.estimate, d.price)
    BY <2>2, TokenFeeNat
  <2>7. GasReserved(c)
    BY <1>5, <2>1, <2>2, <2>3, <2>6 DEF GasShort, GasReserved
  <2>8. TransferHeld(c)
    BY <1>2, <2>3, <2>7 DEF TransferHeld, PaidCall
  <2> QED BY <1>1, <2>3, <2>5, <2>8, QuietStep
<1> QED
  BY <1>3, <1>4, <1>5 DEF EnsureGasAvailable

\* The hot wallet sends what an attempt asks for that is told of this gas at this price.
LEMMA TopUpMove ==
    ASSUME TransferInv, NEW p \in Proc, TopUpGas(p)
    PROVE  TransferInv'
<1>1. PICK e \in Nat : gasComing' = gasComing + TopUpAmount(e) /\ topUp' = [estimate |-> e, price |-> maxFee]
  BY TransfersAssumption DEF TopUpGas, Estimates
<1>2. /\ UNCHANGED <<coin, received, height, maxFee, funds, moved, gas, pay>>
      /\ calls' = [calls EXCEPT ![p] = Idle]
  BY DEF TopUpGas, Return, Goto
<1>3. ChainOK /\ gas \in Nat /\ gasComing \in Nat
  BY DEF TransferInv, ChainOK
<1>4. PICK f \in Nat \ {0} : f = maxFee
  BY <1>3, TransfersAssumption DEF ChainOK
<1>5. PICK w \in Nat : w = TokenFee(e, f)
  BY TokenFeeNat
<1>6. PICK t \in Nat : t = TopUpAmount(e) /\ (coin = "ERC20" => t = w)
  BY <1>4, <1>5, TransfersAssumption DEF TopUpAmount
<1>7. PICK m : m = [estimate |-> e, price |-> f]
  OBVIOUS
<1>8. topUp' = m /\ m.estimate = e /\ m.price = f /\ m \in Metadata /\ m # NoTopUp
  BY <1>1, <1>4, <1>7 DEF Metadata, NoTopUp
<1>9. gasComing' \in Nat
  BY <1>1, <1>3, <1>6
<1>10. ChainOK'
  BY <1>2, <1>3, <1>8, <1>9 DEF ChainOK
<1>11. TopUpOK'
  <2>1. TokenFee(topUp.estimate, topUp.price)' = w
    BY <1>5, <1>8 DEF TokenFee, WithBuffer
  <2>2. coin' = "ERC20" => gas' + gasComing' >= w
    BY <1>1, <1>2, <1>3, <1>6
  <2> QED BY <2>1, <2>2 DEF TopUpOK
<1>12. Len(received) \in Nat
  BY <1>3, Places
<1>13. Grows
  <2>1. topUp' # NoTopUp
    BY <1>8
  <2> QED BY <1>2, <1>3, <1>12, <2>1, TransfersAssumption DEF ChainOK, Grows, NoTopUp
<1>14. TransferHeld(Idle)'
  BY DEF Idle, TransferHeld, PaidCall
<1>15. TransferCallsOK'
  BY <1>2, <1>10, <1>13, <1>14, IdleHeld, CallStep
<1> QED
  BY <1>2, <1>10, <1>11, <1>13, <1>15, StillReached, StillPay DEF TransferInv

\* A forward fails on the way: its payment is marked, its call ends.
LEMMA FailMove ==
    ASSUME TransferInv, NEW p \in Proc, ForwardFails(p), Paid,
           UNCHANGED <<chainVars, funds, moved, gas, topUp>>
    PROVE  TransferInv'
<1>1. calls' = [calls EXCEPT ![p] = Idle] /\ pay' = [pay EXCEPT !.status = "FORWARDING_FAILED"]
  BY DEF ForwardFails, Return, Goto
<1>2. PayOK' /\ CountIsReached'
  BY <1>1, StatusWritten
<1>3. ChainOK' /\ Grows /\ TopUpOK'
  BY SameChain
<1>4. TransferHeld(Idle)'
  BY DEF Idle, TransferHeld, PaidCall
<1>5. TransferCallsOK'
  BY <1>1, <1>3, <1>4, IdleHeld, CallStep
<1> QED
  BY <1>2, <1>3, <1>5 DEF TransferInv

\* A call goes on to send an amount.
LEMMA SendNext ==
    ASSUME TransferInv, NEW p \in Proc, calls[p].at = "amount", UNCHANGED transferVars,
           NEW held, Continue(p, "send", held),
           held.n \in Nat, held.amount \in Nat, held.metadata \in Metadata, held.estimate \in Nat,
           held.price \in Nat, held.limit \in Nat, GasReserved(held), AmountReserved(held)
    PROVE  TransferInv'
<1>1. PICK d \in TransferCalls :
         /\ d = Holding("send", held) /\ d.at = "send" /\ d.amount = held.amount
         /\ d.estimate = held.estimate /\ d.price = held.price
  <2>1. "send" \in TransferSteps
    BY DEF TransferSteps
  <2> QED BY <2>1, Continued
<1>2. calls' = [calls EXCEPT ![p] = d]
  BY <1>1 DEF Continue, Goto
<1>3. Paid
  BY CallFields DEF TransferHeld, PaidCall
<1>4. GasReserved(d) /\ AmountReserved(d)
  BY <1>1 DEF GasReserved, AmountReserved
<1>5. TransferHeld(d)
  BY <1>1, <1>3, <1>4 DEF TransferHeld, PaidCall
<1> QED
  BY <1>1, <1>2, <1>5, QuietStep

\* The amount to forward.
LEMMA AmountMove ==
    ASSUME TransferInv, NEW p \in Proc, CalculateAmountToForward(p)
    PROVE  TransferInv'
<1>1. calls[p].at = "amount" /\ UNCHANGED <<chainVars, funds, moved, gas, topUp>>
  BY DEF CalculateAmountToForward, At
<1>2. PICK c : c = calls[p] /\ TransferHeld(c)
               /\ c \in [at : TransferSteps, n : Nat, amount : Nat, metadata : Metadata,
                         estimate : Nat, price : Nat, limit : Nat]
  BY <1>1, CallFields
<1>3. Paid /\ GasReserved(c)
  BY <1>1, <1>2 DEF TransferHeld, PaidCall
<1>4. ChainOK /\ funds \in Nat /\ moved \in Nat /\ gas \in Nat /\ Asked \in Nat
      /\ Asked > 0 /\ coin \in {"UTXO", "ETH", "ERC20", "TRC20"}
  BY TransfersAssumption DEF TransferInv, ChainOK
<1>5. PICK f \in Nat : f = maxFee
  BY TransfersAssumption DEF TransferInv, ChainOK
<1>6. PICK fee \in Nat : fee = NativeFee(f)
  BY NativeFeeNat
<1>7. CASE coin = "ETH" /\ Asked <= fee
  <2>1. ForwardFails(p)
    BY <1>4, <1>5, <1>6, <1>7 DEF CalculateAmountToForward
  <2> QED BY <1>1, <1>3, <2>1, FailMove
<1>8. CASE coin = "ETH" /\ ~(Asked <= fee)
  <2>1. PICK a \in Nat : a = Asked - fee /\ a > 0 /\ a + fee = Asked
    BY <1>4, <1>8
  <2>2. Asked > fee
    BY <1>4, <1>8
  <2>3. PICK held : held = [c EXCEPT !.amount = a, !.price = f]
    OBVIOUS
  <2>4. Continue(p, "send", held) /\ UNCHANGED pay
    BY <1>2, <1>4, <1>5, <1>6, <1>8, <2>1, <2>2, <2>3 DEF CalculateAmountToForward
  <2>5. held.n = c.n /\ held.amount = a /\ held.metadata = c.metadata
        /\ held.estimate = c.estimate /\ held.price = f /\ held.limit = c.limit
    BY <1>2, <2>3
  <2>6. GasReserved(held) /\ AmountReserved(held)
    BY <1>6, <1>8, <2>1, <2>5 DEF GasReserved, AmountReserved
  <2>7. UNCHANGED transferVars
    BY <1>1, <2>4 DEF transferVars
  <2> QED BY <1>1, <1>2, <2>4, <2>5, <2>6, <2>7, SendNext
<1>9. CASE coin # "ETH"
  <2>1. PICK a \in Nat, limit \in Nat :
           /\ Continue(p, "send", [c EXCEPT !.amount = a, !.limit = limit])
           /\ UNCHANGED pay
           /\ a = IF coin = "TRC20" THEN funds ELSE Asked
    <3>1. c.limit \in Nat /\ \A a : [c EXCEPT !.amount = a] = [c EXCEPT !.amount = a, !.limit = c.limit]
      BY <1>2
    <3>2. CASE coin = "TRC20"
      BY <1>2, <1>4, <3>1, <3>2 DEF CalculateAmountToForward
    <3>3. CASE coin = "UTXO"
      BY <1>2, <1>4, <3>1, <3>3 DEF CalculateAmountToForward
    <3>4. CASE coin = "ERC20"
      <4>1. PICK limit \in TokenGas :
               Continue(p, "send", [c EXCEPT !.amount = Asked, !.limit = limit]) /\ UNCHANGED pay
        BY <1>2, <3>4 DEF CalculateAmountToForward
      <4>2. limit \in Nat
        BY TransfersAssumption
      <4> QED BY <1>4, <3>4, <4>1, <4>2
    <3> QED BY <1>4, <1>9, <3>2, <3>3, <3>4
  <2>2. PICK held : held = [c EXCEPT !.amount = a, !.limit = limit]
    OBVIOUS
  <2>3. held.n = c.n /\ held.amount = a /\ held.metadata = c.metadata
        /\ held.estimate = c.estimate /\ held.price = c.price /\ held.limit = limit
    BY <1>2, <2>2
  <2>4. GasReserved(held)
    BY <1>3, <2>3 DEF GasReserved
  <2>5. AmountReserved(held)
    BY <1>3, <1>4, <1>9, <2>1, <2>3 DEF AmountReserved, Paid
  <2>6. UNCHANGED transferVars
    BY <1>1, <2>1 DEF transferVars
  <2>7. Continue(p, "send", held)
    BY <2>1, <2>2
  <2> QED BY <1>1, <1>2, <2>3, <2>4, <2>5, <2>6, <2>7, SendNext
<1> QED
  BY <1>7, <1>8, <1>9

\* What a transfer on the chain costs.
LEMMA FeeNat ==
    ASSUME TransferInv
    PROVE  Fee \in Nat /\ GasLimit * maxFee \in Nat
<1>1. maxFee \in Nat /\ GasLimit \in Nat /\ UtxoFee \in Nat
  BY TransfersAssumption DEF TransferInv, ChainOK
<1>2. GasLimit * maxFee \in Nat
  BY <1>1
<1> QED
  BY <1>1, <1>2 DEF Fee

\* And what it takes for a token's fee.
LEMMA GasTakenNat ==
    ASSUME TransferInv, NEW p \in Proc, calls[p].at = "send"
    PROVE  GasTaken(calls[p]) \in Nat
<1>1. PICK limit \in Nat, f \in Nat : limit = calls[p].limit /\ f = maxFee
  BY CallFields, TransfersAssumption DEF TransferInv, ChainOK
<1>2. limit * f \in Nat /\ MinTrx \in Nat
  BY TransfersAssumption
<1> QED
  BY <1>1, <1>2 DEF GasTaken

\* The forward's transfer.
LEMMA SendMove ==
    ASSUME TransferInv, NEW p \in Proc, SendTransaction(p)
    PROVE  TransferInv'
<1>1. calls[p].at = "send" /\ UNCHANGED chainVars
  BY DEF SendTransaction, At
<1>2. Paid
  BY <1>1, CallFields DEF TransferHeld, PaidCall
<1>3. CASE ~Payable(calls[p])
  BY <1>1, <1>2, <1>3, FailMove DEF SendTransaction
<1>4. CASE Payable(calls[p])
  <2>1. PICK a \in Nat, m \in Metadata : a = calls[p].amount /\ m = calls[p].metadata
    BY <1>1, CallFields
  <2>2. PICK fee \in Nat : fee = Fee
    BY FeeNat
  <2>3. PICK g \in Nat : g = GasTaken(calls[p])
    BY <1>1, GasTakenNat
  <2>4. ChainOK /\ funds \in Nat /\ moved \in Nat /\ gas \in Nat
    BY DEF TransferInv, ChainOK
  <2>5. /\ funds' = funds - a - fee /\ moved' = moved + a + fee /\ gas' = gas - g
        /\ pay' = [pay EXCEPT !.status = "FORWARDED"] /\ topUp' = m
        /\ calls' = [calls EXCEPT ![p] = Idle]
    BY <1>4, <2>1, <2>2, <2>3 DEF SendTransaction, Return, Goto
  <2>6. a > 0 /\ a + fee <= funds /\ g <= gas
    BY <1>4, <2>1, <2>2, <2>3 DEF Payable
  <2>7. funds' \in Nat /\ moved' \in Nat /\ moved' > 0 /\ moved' >= moved /\ gas' \in Nat
    BY <2>4, <2>5, <2>6
  <2>8. ChainOK'
    BY <1>1, <2>1, <2>4, <2>5, <2>7 DEF ChainOK, chainVars
  <2>9. Len(received) \in Nat
    BY <2>4, Places
  <2>10. Grows
    BY <1>1, <2>4, <2>7, <2>9, TransfersAssumption DEF ChainOK, Grows, chainVars
  <2>11. TopUpOK'
    BY <2>7 DEF TopUpOK
  <2>12. Paid'
    BY <2>7 DEF Paid
  <2>13. TransferHeld(Idle)'
    BY DEF Idle, TransferHeld, PaidCall
  <2>14. TransferCallsOK'
    BY <2>5, <2>8, <2>10, <2>13, IdleHeld, CallStep
  <2>15. pay' = [status |-> "FORWARDED", tx |-> pay.tx, depth |-> pay.depth]
         /\ pay.tx \in Nat /\ pay.depth \in Nat
    BY <2>5 DEF TransferInv, PayOK
  <2>16. PICK tx \in Nat, depth \in Nat : tx = pay.tx /\ depth = pay.depth
    BY <2>15
  <2>17. pay'.status = "FORWARDED" /\ pay'.tx = tx /\ pay'.depth = depth
         /\ pay' \in [status : {"PENDING", "PAID", "CONFIRMING", "CONFIRMED", "FORWARDING", "FORWARDED",
                                "FORWARDING_FAILED"}, tx : Nat, depth : Nat]
    BY <2>15, <2>16
  <2>18. received' = received /\ height' = height
    BY <1>1 DEF chainVars
  <2>19. PayOK'
    BY <2>12, <2>16, <2>17, <2>18 DEF TransferInv, PayOK, MinAcceptable
  <2>20. CountIsReached'
    BY <2>16, <2>17, <2>18 DEF TransferInv, CountIsReached, MinAcceptable
  <2> QED BY <2>8, <2>11, <2>14, <2>19, <2>20 DEF TransferInv
<1> QED
  BY <1>3, <1>4

\* Every step keeps the invariant.
LEMMA TransferInvStep ==
    ASSUME TransferInv, TransferNext \/ UNCHANGED <<callVars, transferVars>>
    PROVE  TransferInv'
<1>1. CASE ChainMoves
  BY <1>1, TransferMove, MineMove, FeeMove DEF ChainMoves
<1>2. ASSUME NEW p \in Proc, TransferRequest(p) PROVE TransferInv'
  BY <1>2, CheckPaymentMove, CheckConfirmationsMove, ForwardMove DEF TransferRequest
<1>3. ASSUME NEW p \in Proc, TransferStep(p) PROVE TransferInv'
  BY <1>3, GetBalanceMove, LatestMove, DetectMove, BlockMove, HeightMove, StoreCountMove, ConfirmMove,
     CalcMove, EnsureGasMove, TopUpMove, AmountMove, SendMove DEF TransferStep
<1>4. CASE UNCHANGED <<callVars, transferVars>>
  <2>1. UNCHANGED <<chainVars, funds, moved, gas, topUp>> /\ pay' = pay /\ calls' = calls
    BY <1>4 DEF callVars, transferVars
  <2> QED BY <2>1, SameChain, ChainStep
<1> QED
  BY <1>1, <1>2, <1>3, <1>4 DEF TransferNext

-----------------------------------------------------------------------------

\* What may make the chain refuse the transfer of a call.
Cause(c) ==
    \/ funds < Asked
    \/ coin = "UTXO" /\ funds < Asked + UtxoFee
    \/ coin = "ETH" /\ 100 * maxFee > (100 + GasBuffer) * c.price
    \/ coin = "ERC20" /\ BeyondBuffer(c)
    \/ moved > 0

\* A transfer is refused for one of these causes.
LEMMA Refused ==
    ASSUME TransferInv, NEW p \in Proc, SendTransaction(p), ~Payable(calls[p])
    PROVE  Cause(calls[p])
<1>1. PICK c \in TransferCalls : c = calls[p] /\ TransferHeld(c) /\ c.amount \in Nat
                                 /\ c.estimate \in Nat /\ c.price \in Nat /\ c.limit \in Nat
  BY CallFields DEF SendTransaction, At
<1>2. c.at = "send" /\ GasReserved(c) /\ AmountReserved(c)
  BY <1>1 DEF SendTransaction, At, TransferHeld
<1>3. /\ funds \in Nat /\ moved \in Nat /\ gas \in Nat /\ MinTrx \in Nat
      /\ Asked \in Nat /\ Asked > 0 /\ UtxoFee \in Nat /\ coin \in {"UTXO", "ETH", "ERC20", "TRC20"}
  BY TransfersAssumption DEF TransferInv, ChainOK
<1>4. PICK f \in Nat : f = maxFee
  BY TransfersAssumption DEF TransferInv, ChainOK
<1>5. PICK n \in Nat : n = NativeFee(c.price)
  BY <1>1, NativeFeeNat
<1>6. PICK w \in Nat : w = TokenFee(c.estimate, c.price)
  BY <1>1, TokenFeeNat
<1>7. PICK a \in Nat : a = c.amount
  BY <1>1
<1>8. ~(a > 0 /\ a + Fee <= funds /\ GasTaken(c) <= gas)
  BY <1>1, <1>7 DEF Payable
<1>9. CASE coin = "UTXO"
  <2>1. a = Asked /\ Fee = UtxoFee /\ GasTaken(c) = 0
    BY <1>2, <1>7, <1>9 DEF AmountReserved, Fee, GasTaken
  <2> QED BY <1>1, <1>3, <1>8, <1>9, <2>1 DEF Cause
<1>10. CASE coin = "ETH"
  <2>1. PICK g \in Nat : g = GasLimit * f
    BY <1>4, FeeNat
  <2>2. a > 0 /\ a + n = Asked /\ Fee = g /\ GasTaken(c) = 0
    BY <1>2, <1>4, <1>5, <1>7, <1>10, <2>1 DEF AmountReserved, Fee, GasTaken
  <2>3. funds < Asked \/ g > n
    BY <1>3, <1>8, <2>2
  <2>4. g > n => 100 * f > (100 + GasBuffer) * c.price
    BY <1>1, <1>4, <1>5, <2>1, NativeFeeExceeded
  <2> QED BY <1>1, <1>4, <1>10, <2>3, <2>4 DEF Cause
<1>11. CASE coin = "ERC20"
  <2>1. PICK l \in Nat, g \in Nat : l = c.limit /\ g = l * f
    BY <1>1
  <2>2. a = Asked /\ Fee = 0 /\ GasTaken(c) = g /\ (moved > 0 \/ gas >= w)
    BY <1>2, <1>4, <1>6, <1>7, <1>11, <2>1 DEF AmountReserved, GasReserved, Fee, GasTaken
  <2>3. funds < Asked \/ g > w \/ moved > 0
    BY <1>3, <1>8, <2>2
  <2>4. g > w => BeyondBuffer(c)
    <3>1. l * f > w => 100 * l * f > ((100 + GasBuffer) * c.estimate - 99) * c.price
      BY <1>1, <1>6, TokenFeeExceeded
    <3> QED BY <1>4, <2>1, <3>1 DEF BeyondBuffer
  <2> QED BY <1>1, <1>11, <2>3, <2>4 DEF Cause
<1>12. CASE coin = "TRC20"
  <2>1. Fee = 0 /\ GasTaken(c) = MinTrx /\ (moved > 0 \/ (a > 0 /\ a <= funds))
        /\ (moved > 0 \/ gas >= MinTrx)
    BY <1>2, <1>7, <1>12 DEF AmountReserved, GasReserved, Fee, GasTaken
  <2> QED BY <1>3, <1>8, <2>1 DEF Cause
<1> QED
  BY <1>3, <1>9, <1>10, <1>11, <1>12

\* What may make a forward wait for coin.
WaitCause(c) ==
    \/ gasComing > 0
    \/ moved > 0
    \/ coin = "TRC20"
    \/ c.estimate > topUp.estimate
    \/ c.price > topUp.price

\* A forward waits for one of these causes.
LEMMA Waits ==
    ASSUME TransferInv, NEW p \in Proc, EnsureGasAvailable(p), coin # "TRC20", GasShort(calls[p]),
           calls[p].metadata # NoTopUp
    PROVE  WaitCause(calls[p])
<1>1. PICK c \in TransferCalls : c = calls[p] /\ TransferHeld(c) /\ c.estimate \in Nat /\ c.price \in Nat
  BY CallFields DEF EnsureGasAvailable, At
<1> SUFFICES ASSUME gasComing = 0, moved = 0, ~(c.estimate > topUp.estimate), ~(c.price > topUp.price)
             PROVE  FALSE
  BY <1>1 DEF WaitCause, TransferInv, ChainOK
<1>2. coin = "ERC20" /\ topUp # NoTopUp
  BY <1>1 DEF EnsureGasAvailable, At, TransferHeld
<1>3. PICK e \in Nat, f \in Nat : e = topUp.estimate /\ f = topUp.price
  BY <1>2 DEF TransferInv, ChainOK, Metadata
<1>4. PICK u \in Nat, v \in Nat : u = TokenFee(c.estimate, c.price) /\ v = TokenFee(e, f)
  BY <1>1, <1>3, TokenFeeNat
<1>5. gas < u
  BY <1>1, <1>2, <1>4 DEF GasShort
<1>6. gas \in Nat /\ gas >= v
  BY <1>2, <1>3, <1>4 DEF TransferInv, ChainOK, TopUpOK
<1>7. u <= v
  BY <1>1, <1>3, <1>4, TokenFeeMonotone
<1> QED
  BY <1>4, <1>5, <1>6, <1>7

\* Every step is one of the chain's or one of a call.
LEMMA OneTransferMoves ==
    ASSUME TransferInv, TransferNext
    PROVE  \/ calls' = calls
           \/ \E q \in Proc : \E c : /\ calls' = [calls EXCEPT ![q] = c]
                                     /\ TransferRequest(q) \/ TransferStep(q)
<1>1. CASE ChainMoves
  BY <1>1 DEF ChainMoves, Transfer, Mine, FeeMoves, callVars
<1>2. ASSUME NEW q \in Proc, TransferRequest(q)
      PROVE  \E c : calls' = [calls EXCEPT ![q] = c]
  BY <1>2 DEF TransferRequest, CheckPayment, CheckConfirmations, ForwardPayment, BeginTransfer, Begin
<1>3. ASSUME NEW q \in Proc, TransferStep(q)
      PROVE  \E c : calls' = [calls EXCEPT ![q] = c]
  <2>1. CASE GetBalance(q) \/ GetTransactionByAddress(q) \/ Detect(q)
    BY <2>1 DEF GetBalance, GetTransactionByAddress, Detect, Continue, Return, Goto
  <2>2. CASE TransactionBlock(q) \/ CurrentHeight(q) \/ StoreCount(q) \/ Confirm(q)
    BY <2>2 DEF TransactionBlock, CurrentHeight, StoreCount, Confirm, ConfirmationsFail, Continue, Return, Goto
  <2>3. CASE CalcEthTopUp(q) \/ EnsureGasAvailable(q) \/ TopUpGas(q)
    BY <2>3 DEF CalcEthTopUp, EnsureGasAvailable, TopUpGas, Continue, Return, Goto
  <2>4. CASE CalculateAmountToForward(q)
    <3>1. coin \in {"UTXO", "ETH", "ERC20", "TRC20"}
      BY DEF TransferInv, ChainOK
    <3> QED BY <2>4, <3>1 DEF CalculateAmountToForward, ForwardFails, Continue, Return, Goto
  <2>5. CASE SendTransaction(q)
    BY <2>5 DEF SendTransaction, ForwardFails, Return, Goto
  <2> QED BY <1>3, <2>1, <2>2, <2>3, <2>4, <2>5 DEF TransferStep
<1> QED
  BY <1>1, <1>2, <1>3 DEF TransferNext

\* A call on its way to the chain ends by its own step.
LEMMA EndsByItself ==
    ASSUME TransferInv, TransferNext, NEW p \in Proc, At(p, "send") \/ At(p, "gas"), calls'[p] = Idle
    PROVE  SendTransaction(p) \/ EnsureGasAvailable(p)
<1>1. calls[p].at \in {"send", "gas"} /\ calls[p] # Idle /\ TransferCallsOK
  BY DEF At, Idle, TransferInv
<1>2. PICK q \in Proc : (\E c : calls' = [calls EXCEPT ![q] = c]) /\ (TransferRequest(q) \/ TransferStep(q))
  BY <1>1, OneTransferMoves
<1>3. q = p
  BY <1>1, <1>2 DEF TransferCallsOK
<1>4. ~TransferRequest(p)
  BY <1>1 DEF TransferRequest, CheckPayment, CheckConfirmations, ForwardPayment, BeginTransfer, Begin, At
<1>5. TransferStep(p)
  BY <1>2, <1>3, <1>4
<1> QED
  BY <1>1, <1>5 DEF TransferStep, GetBalance, GetTransactionByAddress, Detect, TransactionBlock,
                    CurrentHeight, StoreCount, Confirm, CalcEthTopUp, TopUpGas,
                    CalculateAmountToForward, At

\* What a step may not do, as the two action properties state it.
RefusalStep ==
    \A p \in Proc :
       (At(p, "send") /\ calls'[p] = Idle /\ pay'.status = "FORWARDING_FAILED") => Cause(calls[p])

\* And of a forward that waits.
WaitStep == \A p \in Proc : (At(p, "gas") /\ calls'[p] = Idle) => WaitCause(calls[p])

\* No step refuses a forward without a cause.
LEMMA RefusalKept ==
    ASSUME TransferInv, TransferNext
    PROVE  RefusalStep
<1> SUFFICES ASSUME NEW p \in Proc, At(p, "send"), calls'[p] = Idle, pay'.status = "FORWARDING_FAILED"
             PROVE  Cause(calls[p])
  BY DEF RefusalStep
<1>1. SendTransaction(p)
  BY EndsByItself DEF EnsureGasAvailable, At
<1>2. CASE Payable(calls[p])
  <2>1. pay' = [pay EXCEPT !.status = "FORWARDED"]
    BY <1>1, <1>2 DEF SendTransaction
  <2>2. pay'.status = "FORWARDED"
    BY <2>1 DEF TransferInv, PayOK
  <2> QED BY <2>2
<1>3. CASE ~Payable(calls[p])
  BY <1>1, <1>3, Refused
<1> QED
  BY <1>2, <1>3

\* No step makes a forward wait without a cause.
LEMMA WaitKept ==
    ASSUME TransferInv, TransferNext
    PROVE  WaitStep
<1> SUFFICES ASSUME NEW p \in Proc, At(p, "gas"), calls'[p] = Idle, coin # "TRC20"
             PROVE  WaitCause(calls[p])
  BY DEF WaitStep, WaitCause
<1>1. EnsureGasAvailable(p)
  BY EndsByItself DEF SendTransaction, At
<1>2. calls'[p].at = "idle"
  BY DEF Idle
<1>3. ASSUME NEW step \in {"topUp", "amount"}, NEW held PROVE ~Continue(p, step, held)
  BY <1>2 DEF Continue, Holding, Goto, TransferInv, TransferCallsOK
<1>4. GasShort(calls[p]) /\ calls[p].metadata # NoTopUp
  BY <1>1, <1>3 DEF EnsureGasAvailable
<1> QED
  BY <1>1, <1>4, Waits

\* Amounts, heights and the payment's row keep their types.
THEOREM TransfersTypeCorrect == TransferSpec => []TransfersTypeOK
<1>1. TransferInv => TransfersTypeOK
  <2> SUFFICES ASSUME TransferInv PROVE TransfersTypeOK
    OBVIOUS
  <2>1. ChainOK /\ PayOK /\ CountIsReached
    BY DEF TransferInv
  <2>2. Len(received) \in Nat /\ DOMAIN received = 1 .. Len(received) /\ MaxHeight \in Nat
    BY <2>1, Places, TransfersAssumption
  <2>3. height \in Nat /\ maxFee \in Nat /\ pay.tx \in 0 .. Len(received) /\ pay.depth \in Nat
    BY <2>1, <2>2, TransfersAssumption DEF ChainOK, PayOK
  <2>4. pay.depth \in 0 .. MaxHeight
    <3>1. CASE pay.depth > 0
      <4>1. PICK n \in 1 .. Len(received) : /\ received[n].block > 0
                                            /\ height - received[n].block + 1 >= pay.depth
        BY <2>1, <2>2, <3>1 DEF CountIsReached
      <4>2. PICK block \in 0 .. MaxHeight : block = received[n].block
        BY <2>1, Received
      <4>3. height \in 0 .. MaxHeight
        BY <2>1 DEF ChainOK
      <4> QED BY <2>2, <2>3, <4>1, <4>2, <4>3
    <3> QED BY <2>2, <2>3, <3>1
  <2>5. topUp \in [estimate : Nat, price : Nat]
    BY <2>1 DEF ChainOK, Metadata, NoTopUp
  <2> QED BY <2>1, <2>3, <2>4, <2>5 DEF ChainOK, TransfersTypeOK
<1> QED
  BY InitTransfer, TransferInvStep, <1>1, PTL DEF TransferSpec

\* The confirmations a payment is credited with are those of a transfer of an acceptable amount,
\* whatever was read apart and whichever check overwrote another (checkPayment, checkConfirmations).
THEOREM CountCorrect == TransferSpec => []CountIsReached
<1>1. TransferInv => CountIsReached
  BY DEF TransferInv
<1> QED
  BY InitTransfer, TransferInvStep, <1>1, PTL DEF TransferSpec

\* What stops a forward is a payment short of its amount, a fee nobody set aside, a price, or for a
\* token gas and price together, grown beyond the buffer since the fee was computed, an estimate or a
\* price higher than the top-up's, or coin that another forward spent (forwardPayment,
\* ensureGasAvailable, needsEthTopUp, sendTransaction).
THEOREM ForwardCorrect == TransferSpec => ForwardIsExcused
<1>1. TransferInv /\ [TransferNext]_<<callVars, transferVars>> => [RefusalStep]_<<calls, pay>>
  BY RefusalKept DEF callVars, transferVars
<1>2. TransferInv /\ [TransferNext]_<<callVars, transferVars>> => [WaitStep]_<<calls, pay>>
  BY WaitKept DEF callVars, transferVars
<1>3. TransferSpec => [][RefusalStep]_<<calls, pay>> /\ [][WaitStep]_<<calls, pay>>
  BY InitTransfer, TransferInvStep, <1>1, <1>2, PTL DEF TransferSpec
<1> QED
  BY <1>3
     DEF ForwardIsExcused, RefusalIsExcused, WaitIsExcused, RefusalStep, WaitStep, Cause, WaitCause

-------------------------------------------------------------------------------
(* The three side by side                                                      *)

\* Whatever part moves, its step is one of that part, and the others rest.
LEMMA OneTreasuryPartMoves ==
    ASSUME [Next]_treasuryVars
    PROVE  /\ focus' = focus
           /\ IF focus = "rates" THEN [RateNext]_<<callVars, rateVars>> ELSE UNCHANGED rateVars
           /\ IF focus = "addresses"
              THEN [AddressNext]_<<callVars, addressVars>> ELSE UNCHANGED addressVars
           /\ IF focus = "transfers"
              THEN [TransferNext]_<<callVars, transferVars>> ELSE UNCHANGED transferVars
<1>1. CASE UNCHANGED treasuryVars
  BY <1>1 DEF treasuryVars
<1>2. CASE Moves
  BY <1>2 DEF Moves, Only
<1> QED BY <1>1, <1>2 DEF Next

\* The part in focus is as its invariant says, the others as they began.
TreasuryInv ==
    /\ IF focus = "rates" THEN RateInv ELSE RatesInit
    /\ IF focus = "addresses" THEN AddressInv ELSE AddressesInit
    /\ IF focus = "transfers" THEN TransferInv ELSE TransfersInit

\* The invariant of the whole holds at the start.
LEMMA InitTreasury == Init => TreasuryInv
BY InitRate, InitAddress, InitTransfer DEF Init, TreasuryInv

\* Every step of any part keeps it.
LEMMA TreasuryInvStep == TreasuryInv /\ [Next]_treasuryVars => TreasuryInv'
<1> SUFFICES ASSUME TreasuryInv, [Next]_treasuryVars PROVE TreasuryInv'
  OBVIOUS
<1>1. /\ focus' = focus
      /\ IF focus = "rates" THEN [RateNext]_<<callVars, rateVars>> ELSE UNCHANGED rateVars
      /\ IF focus = "addresses"
         THEN [AddressNext]_<<callVars, addressVars>> ELSE UNCHANGED addressVars
      /\ IF focus = "transfers"
         THEN [TransferNext]_<<callVars, transferVars>> ELSE UNCHANGED transferVars
  BY OneTreasuryPartMoves
<1>2. IF focus = "rates" THEN RateInv' ELSE RatesInit'
  <2>1. RatesInit /\ UNCHANGED rateVars => RatesInit'
    BY DEF RatesInit, rateVars, NoRate
  <2> QED BY <1>1, <2>1, RateInvStep DEF TreasuryInv, rateState
<1>3. IF focus = "addresses" THEN AddressInv' ELSE AddressesInit'
  <2>1. AddressesInit /\ UNCHANGED addressVars => AddressesInit'
    BY DEF AddressesInit, addressVars
  <2> QED BY <1>1, <2>1, AddressInvStep DEF TreasuryInv, addressState
<1>4. IF focus = "transfers" THEN TransferInv' ELSE TransfersInit'
  <2>1. TransfersInit /\ UNCHANGED transferVars => TransfersInit'
    BY DEF TransfersInit, transferVars, chainVars
  <2>2. [TransferNext]_<<callVars, transferVars>> /\ TransferInv => TransferInv'
    BY TransferInvStep
  <2> QED BY <1>1, <2>1, <2>2 DEF TreasuryInv
<1> QED BY <1>1, <1>2, <1>3, <1>4 DEF TreasuryInv

\* While another part moves nothing is forwarded.
LEMMA NoForwardElsewhere ==
    ASSUME TreasuryInv, NEW p \in Proc, At(p, "send") \/ At(p, "gas"), focus \in {"rates", "addresses"}
    PROVE  FALSE
<1>1. CASE focus = "rates"
  <2>1. calls \in [Proc -> RateCalls]
    BY <1>1 DEF TreasuryInv, RateInv, RateCallsTyped
  <2> QED BY <2>1 DEF RateCalls, Idle, At
<1>2. CASE focus = "addresses"
  <2>1. calls \in [Proc -> AddressCalls]
    BY <1>2 DEF TreasuryInv, AddressInv, AddressCallsTyped
  <2> QED BY <2>1 DEF AddressCalls, Idle, At
<1> QED BY <1>1, <1>2

\* No rate is answered too late, no index given twice, no confirmation counted that is not there,
\* whichever part of the treasury moves.
THEOREM TreasuryCorrect == Spec => [](RateIsRecent /\ IndexNamesOnePayment /\ CountIsReached)
<1>1. TreasuryInv => RateIsRecent /\ IndexNamesOnePayment /\ CountIsReached
  <2> SUFFICES ASSUME TreasuryInv PROVE RateIsRecent /\ IndexNamesOnePayment /\ CountIsReached
    OBVIOUS
  <2>1. RateIsRecent
    <3>1. RatesInit => RateIsRecent
      BY RatesAssumption DEF RatesInit, RateIsRecent
    <3> QED BY <3>1 DEF TreasuryInv, RateInv
  <2>2. IndexNamesOnePayment
    BY DEF TreasuryInv, AddressInv, AddressesInit, IndexNamesOnePayment
  <2>3. CountIsReached
    BY DEF TreasuryInv, TransferInv, TransfersInit, CountIsReached
  <2> QED BY <2>1, <2>2, <2>3
<1> QED
  BY InitTreasury, TreasuryInvStep, <1>1, PTL DEF Spec

\* What stops a forward is one of its causes, whichever part of the treasury moves.
THEOREM TreasuryForwardCorrect == Spec => ForwardIsExcused
<1>1. ASSUME TreasuryInv, [Next]_treasuryVars
      PROVE  [RefusalStep]_<<calls, pay>> /\ [WaitStep]_<<calls, pay>>
  <2>1. CASE focus = "transfers"
    <3>1. TransferInv /\ [TransferNext]_<<callVars, transferVars>>
      BY <1>1, <2>1, OneTreasuryPartMoves DEF TreasuryInv
    <3> QED BY <3>1, RefusalKept, WaitKept DEF callVars, transferVars
  <2>2. CASE focus \in {"rates", "addresses"}
    BY <1>1, <2>2, NoForwardElsewhere DEF RefusalStep, WaitStep
  <2>3. CASE focus \notin {"rates", "addresses", "transfers"}
    BY <1>1, <2>3 DEF Next, Moves, Only, treasuryVars, callVars, transferVars
  <2> QED BY <2>1, <2>2, <2>3
<1>2. TreasuryInv /\ [Next]_treasuryVars => [RefusalStep]_<<calls, pay>> /\ [WaitStep]_<<calls, pay>>
  BY <1>1
<1>3. Spec => [][RefusalStep]_<<calls, pay>> /\ [][WaitStep]_<<calls, pay>>
  BY InitTreasury, TreasuryInvStep, <1>2, PTL DEF Spec
<1> QED
  BY <1>3
     DEF ForwardIsExcused, RefusalIsExcused, WaitIsExcused, RefusalStep, WaitStep, Cause, WaitCause

===============================================================================
