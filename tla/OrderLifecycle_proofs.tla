------------------------- MODULE OrderLifecycle_proofs -------------------------
(* Proofs about OrderLifecycle, for any number of overlapping calls, requests, *)
(* confirmations and faults, and any balance.                                  *)
EXTENDS OrderLifecycle, TLAPS

\* The order has been paid for.
Funded == charged > 0 \/ (funds = "enough" /\ depth = Required)

\* What the calls saw on the chain stays true.
ChainRecord ==
    /\ depth > 0 => funds = "enough"
    /\ \A p \in Proc : (proc[p].at = "count" /\ proc[p].n = Required) => depth = Required
    /\ \A p \in Proc : proc[p].at = "confirm" => depth = Required

\* The calls that will complete, sell or deliver without looking again found the order
\* paid for, and a charge is never taken back.
CallsAreFunded ==
    /\ \A p \in Proc : proc[p].at = "sell" => charged > 0
    /\ \A p \in Proc : proc[p].at \in {"soldLines", "hand", "typed"} => edited \/ Funded

\* Lines are RESERVED only before the order leaves PENDING, and nothing reserves them
\* again: a refund that has passed its first transaction leaves nothing to sell.
NothingToSell ==
    /\ ~edited /\ order # "PENDING" => hold # "RESERVED"
    /\ \A p \in Proc : proc[p].at = "retire" => edited \/ hold # "RESERVED"
    /\ \A p \in Proc : proc[p].at \in {"setRefunded", "refundBalance", "refundWrite", "refundRow"}
                            => edited \/ hold \in {"REFUNDED", "RELEASED"}

\* A call about to hand the lines over found them SOLD.
HandingIsSold ==
    \A p \in Proc : (proc[p].at = "hand" /\ proc[p].n = 1) => hold \in {"SOLD", "REFUNDED"}

IInv ==
    /\ OrderTypeOK
    /\ ChainRecord
    /\ CallsAreFunded
    /\ CompletedIsFunded
    /\ NothingToSell
    /\ RefundTakesGoodsBack
    /\ HandingIsSold
    /\ HandedIsKept

USE RequiredAssumption, FaultsAssumption, InitialBalanceAssumption, RequestsAssumption

LEMMA InitIInv == OrderInit => IInv
<1> SUFFICES ASSUME OrderInit PROVE IInv
  OBVIOUS
<1> USE DEF OrderInit, Init
<1>1. OrderTypeOK
  <2>1. order \in OrderStatus /\ payment \in PaymentStatus \cup {"NONE"}
    BY DEF OrderStatus, PaymentStatus
  <2>2. jobs \in [JobName -> Nat]
    OBVIOUS
  <2>3. proc \in [Proc -> [at : Steps \cup OrderSteps, job : JobName \cup {"none"}, n : 0..Required]]
    BY DEF Rest, Steps
  <2>4. depth \in 0..Required /\ faults \in 0..MaxFaults /\ requests \in 0..MaxRequests
    OBVIOUS
  <2>5. DataOK
    BY <2>1, <2>2, <2>4 DEF DataOK
  <2>6. charged \in Nat /\ refunded \in Nat /\ balance \in Nat /\ newBalance \in [Proc -> Nat]
    OBVIOUS
  <2>7. edited \in BOOLEAN
    OBVIOUS
  <2> QED BY <2>3, <2>4, <2>5, <2>6, <2>7 DEF OrderTypeOK
<1>2. ChainRecord /\ CallsAreFunded /\ NothingToSell /\ HandingIsSold
  BY DEF ChainRecord, CallsAreFunded, NothingToSell, HandingIsSold, Rest
<1>3. CompletedIsFunded /\ RefundTakesGoodsBack /\ HandedIsKept
  BY DEF CompletedIsFunded, RefundTakesGoodsBack, HandedIsKept
<1> QED
  BY <1>1, <1>2, <1>3 DEF IInv

-------------------------------------------------------------------------------
\* Every step keeps the variables in their types: a debit computed from whatever balance
\* passed its test is a natural number.
LEMMA TypeStep == IInv /\ [OrderNext]_orderVars => OrderTypeOK'
<1> SUFFICES ASSUME IInv, [OrderNext]_orderVars PROVE OrderTypeOK'
  OBVIOUS
<1> USE DEF IInv, OrderTypeOK, DataOK, Steps, OrderSteps, JobName, OrderStatus, PaymentStatus, goods, payVars, world, moneyVars, asked, Begin, Goto, Return, Enqueue, Dequeue, Rest, ReleasedHold, Ask, Request
<1>1. ASSUME NEW p \in Proc, CreateCheck(p), UNCHANGED <<moneyVars, asked>> PROVE OrderTypeOK'
  BY <1>1 DEF CreateCheck
<1>2. ASSUME NEW p \in Proc, CreateRow(p), UNCHANGED <<moneyVars, asked>> PROVE OrderTypeOK'
  BY <1>2 DEF CreateRow
<1>3. ASSUME NEW p \in Proc, CreateConflict(p), UNCHANGED <<moneyVars, asked>> PROVE OrderTypeOK'
  BY <1>3 DEF CreateConflict
<1>4. ASSUME NEW p \in Proc, SyncReservation(p), UNCHANGED <<moneyVars, asked>> PROVE OrderTypeOK'
  BY <1>4 DEF SyncReservation
<1>5. ASSUME NEW p \in Proc, QueueVerify(p), UNCHANGED <<moneyVars, asked>> PROVE OrderTypeOK'
  BY <1>5 DEF QueueVerify
<1>6. ASSUME NEW p \in Proc, StartVerify(p), UNCHANGED <<moneyVars, asked>> PROVE OrderTypeOK'
  BY <1>6 DEF StartVerify
<1>7. ASSUME NEW p \in Proc, StartPendingCron(p), UNCHANGED <<moneyVars, asked>> PROVE OrderTypeOK'
  BY <1>7 DEF StartPendingCron
<1>8. ASSUME NEW p \in Proc, ReadPayment(p), UNCHANGED <<moneyVars, asked>> PROVE OrderTypeOK'
  BY <1>8 DEF ReadPayment
<1>9. ASSUME NEW p \in Proc, Poll(p), UNCHANGED <<moneyVars, asked>> PROVE OrderTypeOK'
  BY <1>9 DEF Poll
<1>10. ASSUME NEW p \in Proc, WritePaid(p), UNCHANGED <<moneyVars, asked>> PROVE OrderTypeOK'
  BY <1>10 DEF WritePaid
<1>11. ASSUME NEW p \in Proc, QueueCheck(p), UNCHANGED <<moneyVars, asked>> PROVE OrderTypeOK'
  BY <1>11 DEF QueueCheck
<1>12. ASSUME NEW p \in Proc, StartExpiry(p), UNCHANGED <<moneyVars, asked>> PROVE OrderTypeOK'
  BY <1>12 DEF StartExpiry
<1>13. ASSUME NEW p \in Proc, ExpireRead(p), UNCHANGED <<moneyVars, asked>> PROVE OrderTypeOK'
  BY <1>13 DEF ExpireRead
<1>14. ASSUME NEW p \in Proc, ExpireCommit(p), UNCHANGED <<moneyVars, asked>> PROVE OrderTypeOK'
  BY <1>14 DEF ExpireCommit
<1>15. ASSUME NEW p \in Proc, StartCheck(p), UNCHANGED <<moneyVars, asked>> PROVE OrderTypeOK'
  BY <1>15 DEF StartCheck
<1>16. ASSUME NEW p \in Proc, ReadDepth(p), UNCHANGED <<moneyVars, asked>> PROVE OrderTypeOK'
  BY <1>16 DEF ReadDepth
<1>17. ASSUME NEW p \in Proc, WriteConfirmations(p), UNCHANGED <<moneyVars, asked>> PROVE OrderTypeOK'
  BY <1>17 DEF WriteConfirmations
<1>18. ASSUME NEW p \in Proc, Requeue(p), UNCHANGED <<moneyVars, asked>> PROVE OrderTypeOK'
  BY <1>18 DEF Requeue
<1>19. ASSUME NEW p \in Proc, ConfirmCommit(p), UNCHANGED <<moneyVars, asked>> PROVE OrderTypeOK'
  BY <1>19 DEF ConfirmCommit
<1>20. ASSUME NEW p \in Proc, DeliverCheck(p), UNCHANGED <<moneyVars, asked>> PROVE OrderTypeOK'
  BY <1>20 DEF DeliverCheck, AfterDelivery
<1>21. ASSUME NEW p \in Proc, ReadSoldLines(p), UNCHANGED <<moneyVars, asked>> PROVE OrderTypeOK'
  BY <1>21 DEF ReadSoldLines
<1>22. ASSUME NEW p \in Proc, HandOver(p), UNCHANGED <<moneyVars, asked>> PROVE OrderTypeOK'
  BY <1>22 DEF HandOver, AfterDelivery
<1>23. ASSUME NEW p \in Proc, QueueForward(p), UNCHANGED <<moneyVars, asked>> PROVE OrderTypeOK'
  BY <1>23 DEF QueueForward
<1>24. ASSUME NEW p \in Proc, Fail(p), UNCHANGED <<moneyVars, asked>> PROVE OrderTypeOK'
  BY <1>24 DEF Fail, AfterDelivery, DeliverySteps
<1>25. ASSUME NEW p \in Proc, Crash(p), UNCHANGED <<moneyVars, asked>> PROVE OrderTypeOK'
  BY <1>25 DEF Crash
<1>26. ASSUME SweepCount, UNCHANGED <<moneyVars, asked>> PROVE OrderTypeOK'
  BY <1>26 DEF SweepCount
<1>46. ASSUME SweepRelease, UNCHANGED <<moneyVars, asked>> PROVE OrderTypeOK'
  BY <1>46 DEF SweepRelease
<1>47. ASSUME SweepAbort, UNCHANGED <<moneyVars, asked>> PROVE OrderTypeOK'
  BY <1>47 DEF SweepAbort
<1>27. ASSUME NEW f \in {"short", "split", "enough"}, Transfer(f), UNCHANGED <<moneyVars, asked>> PROVE OrderTypeOK'
  BY <1>27 DEF Transfer
<1>28. ASSUME Mine, UNCHANGED <<moneyVars, asked>> PROVE OrderTypeOK'
  BY <1>28 DEF Mine
<1>29. ASSUME Reorganise, UNCHANGED <<moneyVars, asked>> PROVE OrderTypeOK'
  BY <1>29 DEF Reorganise
<1>30. ASSUME ClockTick, UNCHANGED <<moneyVars, asked>> PROVE OrderTypeOK'
  BY <1>30 DEF ClockTick
<1>31. ASSUME DefaultDeadlinePasses, UNCHANGED <<moneyVars, asked>> PROVE OrderTypeOK'
  BY <1>31 DEF DefaultDeadlinePasses
<1>32. ASSUME NEW p \in Proc, PayRead(p) PROVE OrderTypeOK'
  BY <1>32 DEF PayRead
<1>33. ASSUME NEW p \in Proc, DeductBalance(p) PROVE OrderTypeOK'
  BY <1>33 DEF DeductBalance
<1>48. ASSUME NEW p \in Proc, WriteBalance(p) PROVE OrderTypeOK'
  BY <1>48 DEF WriteBalance
<1>49. ASSUME NEW p \in Proc, PurchaseRow(p) PROVE OrderTypeOK'
  BY <1>49 DEF PurchaseRow
<1>34. ASSUME NEW p \in Proc, SellCommit(p) PROVE OrderTypeOK'
  BY <1>34 DEF SellCommit
<1>35. ASSUME NEW p \in Proc, CancelRead(p) PROVE OrderTypeOK'
  BY <1>35 DEF CancelRead
<1>36. ASSUME NEW p \in Proc, CancelCommit(p) PROVE OrderTypeOK'
  BY <1>36 DEF CancelCommit
<1>37. ASSUME NEW p \in Proc, RefundRead(p) PROVE OrderTypeOK'
  BY <1>37 DEF RefundRead
<1>38. ASSUME NEW p \in Proc, RetireLines(p) PROVE OrderTypeOK'
  BY <1>38 DEF RetireLines
<1>39. ASSUME NEW p \in Proc, SetRefunded(p) PROVE OrderTypeOK'
  BY <1>39 DEF SetRefunded
<1>40. ASSUME NEW p \in Proc, RefundBalance(p) PROVE OrderTypeOK'
  BY <1>40 DEF RefundBalance
<1>50. ASSUME NEW p \in Proc, RefundRow(p) PROVE OrderTypeOK'
  BY <1>50 DEF RefundRow
<1>41. ASSUME NEW p \in Proc, UpdateCompleted(p) PROVE OrderTypeOK'
  BY <1>41 DEF UpdateCompleted
<1>42. ASSUME NEW p \in Proc, DeliverOrder(p) PROVE OrderTypeOK'
  BY <1>42 DEF DeliverOrder
<1>43. ASSUME NEW p \in Proc, WriteTyped(p) PROVE OrderTypeOK'
  BY <1>43 DEF WriteTyped
<1>44. ASSUME NEW s \in OrderStatus \ {"COMPLETED"}, UpdateStatus(s) PROVE OrderTypeOK'
  BY <1>44 DEF UpdateStatus
<1>45. CASE UNCHANGED orderVars
  BY <1>45 DEF orderVars, vars
<1> QED
  BY <1>1, <1>2, <1>3, <1>4, <1>5, <1>6, <1>7, <1>8, <1>9, <1>10, <1>11, <1>12, <1>13, <1>14,
     <1>15, <1>16, <1>17, <1>18, <1>19, <1>20, <1>21, <1>22, <1>23, <1>24, <1>25, <1>26, <1>27, <1>28,
     <1>29, <1>30, <1>31, <1>32, <1>33, <1>34, <1>35, <1>36, <1>37, <1>38, <1>39, <1>40, <1>41, <1>42,
     <1>43, <1>44, <1>45, <1>46, <1>47, <1>48, <1>49, <1>50
  DEF OrderNext, PaymentSide, PayStep, UndoStep, AdminStep, Next, Start, Continue, CreateStep,
      VerifyStep, ConfirmStep, SweepStep, Environment

\* What completes, sells or delivers was paid for.
LEMMA FundedStep == IInv /\ [OrderNext]_orderVars => (ChainRecord /\ CallsAreFunded /\ CompletedIsFunded)'
<1> SUFFICES ASSUME IInv, [OrderNext]_orderVars PROVE (ChainRecord /\ CallsAreFunded /\ CompletedIsFunded)'
  OBVIOUS
<1> USE DEF IInv, OrderTypeOK, DataOK, ChainRecord, CallsAreFunded, CompletedIsFunded, Funded, goods, payVars, world, moneyVars, asked, Begin, Goto, Return, Enqueue, Dequeue, Rest, ReleasedHold, Ask, Request
<1>1. ASSUME NEW p \in Proc, CreateCheck(p), UNCHANGED <<moneyVars, asked>> PROVE (ChainRecord /\ CallsAreFunded /\ CompletedIsFunded)'
  BY <1>1 DEF CreateCheck
<1>2. ASSUME NEW p \in Proc, CreateRow(p), UNCHANGED <<moneyVars, asked>> PROVE (ChainRecord /\ CallsAreFunded /\ CompletedIsFunded)'
  BY <1>2 DEF CreateRow
<1>3. ASSUME NEW p \in Proc, CreateConflict(p), UNCHANGED <<moneyVars, asked>> PROVE (ChainRecord /\ CallsAreFunded /\ CompletedIsFunded)'
  BY <1>3 DEF CreateConflict
<1>4. ASSUME NEW p \in Proc, SyncReservation(p), UNCHANGED <<moneyVars, asked>> PROVE (ChainRecord /\ CallsAreFunded /\ CompletedIsFunded)'
  BY <1>4 DEF SyncReservation
<1>5. ASSUME NEW p \in Proc, QueueVerify(p), UNCHANGED <<moneyVars, asked>> PROVE (ChainRecord /\ CallsAreFunded /\ CompletedIsFunded)'
  BY <1>5 DEF QueueVerify
<1>6. ASSUME NEW p \in Proc, StartVerify(p), UNCHANGED <<moneyVars, asked>> PROVE (ChainRecord /\ CallsAreFunded /\ CompletedIsFunded)'
  BY <1>6 DEF StartVerify
<1>7. ASSUME NEW p \in Proc, StartPendingCron(p), UNCHANGED <<moneyVars, asked>> PROVE (ChainRecord /\ CallsAreFunded /\ CompletedIsFunded)'
  BY <1>7 DEF StartPendingCron
<1>8. ASSUME NEW p \in Proc, ReadPayment(p), UNCHANGED <<moneyVars, asked>> PROVE (ChainRecord /\ CallsAreFunded /\ CompletedIsFunded)'
  BY <1>8 DEF ReadPayment
<1>9. ASSUME NEW p \in Proc, Poll(p), UNCHANGED <<moneyVars, asked>> PROVE (ChainRecord /\ CallsAreFunded /\ CompletedIsFunded)'
  BY <1>9 DEF Poll
<1>10. ASSUME NEW p \in Proc, WritePaid(p), UNCHANGED <<moneyVars, asked>> PROVE (ChainRecord /\ CallsAreFunded /\ CompletedIsFunded)'
  BY <1>10 DEF WritePaid
<1>11. ASSUME NEW p \in Proc, QueueCheck(p), UNCHANGED <<moneyVars, asked>> PROVE (ChainRecord /\ CallsAreFunded /\ CompletedIsFunded)'
  BY <1>11 DEF QueueCheck
<1>12. ASSUME NEW p \in Proc, StartExpiry(p), UNCHANGED <<moneyVars, asked>> PROVE (ChainRecord /\ CallsAreFunded /\ CompletedIsFunded)'
  BY <1>12 DEF StartExpiry
<1>13. ASSUME NEW p \in Proc, ExpireRead(p), UNCHANGED <<moneyVars, asked>> PROVE (ChainRecord /\ CallsAreFunded /\ CompletedIsFunded)'
  BY <1>13 DEF ExpireRead
<1>14. ASSUME NEW p \in Proc, ExpireCommit(p), UNCHANGED <<moneyVars, asked>> PROVE (ChainRecord /\ CallsAreFunded /\ CompletedIsFunded)'
  BY <1>14 DEF ExpireCommit
<1>15. ASSUME NEW p \in Proc, StartCheck(p), UNCHANGED <<moneyVars, asked>> PROVE (ChainRecord /\ CallsAreFunded /\ CompletedIsFunded)'
  BY <1>15 DEF StartCheck
<1>16. ASSUME NEW p \in Proc, ReadDepth(p), UNCHANGED <<moneyVars, asked>> PROVE (ChainRecord /\ CallsAreFunded /\ CompletedIsFunded)'
  BY <1>16 DEF ReadDepth
<1>17. ASSUME NEW p \in Proc, WriteConfirmations(p), UNCHANGED <<moneyVars, asked>> PROVE (ChainRecord /\ CallsAreFunded /\ CompletedIsFunded)'
  <2>1. depth' = depth /\ funds' = funds
    BY <1>17 DEF WriteConfirmations
  <2>2. proc[p].at = "count" /\ proc[p].n \in 0..Required
    BY <1>17 DEF WriteConfirmations
  <2>3. proc[p].n >= Required => depth = Required
    BY <2>2
  <2>4. \A q \in Proc : proc'[q].at = "confirm" => depth' = Required
    BY <1>17, <2>1, <2>3 DEF WriteConfirmations
  <2> QED BY <1>17, <2>1, <2>4 DEF WriteConfirmations
<1>18. ASSUME NEW p \in Proc, Requeue(p), UNCHANGED <<moneyVars, asked>> PROVE (ChainRecord /\ CallsAreFunded /\ CompletedIsFunded)'
  BY <1>18 DEF Requeue
<1>19. ASSUME NEW p \in Proc, ConfirmCommit(p), UNCHANGED <<moneyVars, asked>> PROVE (ChainRecord /\ CallsAreFunded /\ CompletedIsFunded)'
  BY <1>19 DEF ConfirmCommit
<1>20. ASSUME NEW p \in Proc, DeliverCheck(p), UNCHANGED <<moneyVars, asked>> PROVE (ChainRecord /\ CallsAreFunded /\ CompletedIsFunded)'
  BY <1>20 DEF DeliverCheck, AfterDelivery
<1>21. ASSUME NEW p \in Proc, ReadSoldLines(p), UNCHANGED <<moneyVars, asked>> PROVE (ChainRecord /\ CallsAreFunded /\ CompletedIsFunded)'
  BY <1>21 DEF ReadSoldLines
<1>22. ASSUME NEW p \in Proc, HandOver(p), UNCHANGED <<moneyVars, asked>> PROVE (ChainRecord /\ CallsAreFunded /\ CompletedIsFunded)'
  BY <1>22 DEF HandOver, AfterDelivery
<1>23. ASSUME NEW p \in Proc, QueueForward(p), UNCHANGED <<moneyVars, asked>> PROVE (ChainRecord /\ CallsAreFunded /\ CompletedIsFunded)'
  BY <1>23 DEF QueueForward
<1>24. ASSUME NEW p \in Proc, Fail(p), UNCHANGED <<moneyVars, asked>> PROVE (ChainRecord /\ CallsAreFunded /\ CompletedIsFunded)'
  BY <1>24 DEF Fail, AfterDelivery, DeliverySteps
<1>25. ASSUME NEW p \in Proc, Crash(p), UNCHANGED <<moneyVars, asked>> PROVE (ChainRecord /\ CallsAreFunded /\ CompletedIsFunded)'
  BY <1>25 DEF Crash
<1>26. ASSUME SweepCount, UNCHANGED <<moneyVars, asked>> PROVE (ChainRecord /\ CallsAreFunded /\ CompletedIsFunded)'
  BY <1>26 DEF SweepCount
<1>46. ASSUME SweepRelease, UNCHANGED <<moneyVars, asked>> PROVE (ChainRecord /\ CallsAreFunded /\ CompletedIsFunded)'
  BY <1>46 DEF SweepRelease
<1>47. ASSUME SweepAbort, UNCHANGED <<moneyVars, asked>> PROVE (ChainRecord /\ CallsAreFunded /\ CompletedIsFunded)'
  BY <1>47 DEF SweepAbort
<1>27. ASSUME NEW f \in {"short", "split", "enough"}, Transfer(f), UNCHANGED <<moneyVars, asked>> PROVE (ChainRecord /\ CallsAreFunded /\ CompletedIsFunded)'
  BY <1>27 DEF Transfer
<1>28. ASSUME Mine, UNCHANGED <<moneyVars, asked>> PROVE (ChainRecord /\ CallsAreFunded /\ CompletedIsFunded)'
  BY <1>28 DEF Mine
<1>29. ASSUME Reorganise, UNCHANGED <<moneyVars, asked>> PROVE (ChainRecord /\ CallsAreFunded /\ CompletedIsFunded)'
  BY <1>29 DEF Reorganise
<1>30. ASSUME ClockTick, UNCHANGED <<moneyVars, asked>> PROVE (ChainRecord /\ CallsAreFunded /\ CompletedIsFunded)'
  BY <1>30 DEF ClockTick
<1>31. ASSUME DefaultDeadlinePasses, UNCHANGED <<moneyVars, asked>> PROVE (ChainRecord /\ CallsAreFunded /\ CompletedIsFunded)'
  BY <1>31 DEF DefaultDeadlinePasses
<1>32. ASSUME NEW p \in Proc, PayRead(p) PROVE (ChainRecord /\ CallsAreFunded /\ CompletedIsFunded)'
  BY <1>32 DEF PayRead
<1>33. ASSUME NEW p \in Proc, DeductBalance(p) PROVE (ChainRecord /\ CallsAreFunded /\ CompletedIsFunded)'
  BY <1>33 DEF DeductBalance
<1>48. ASSUME NEW p \in Proc, WriteBalance(p) PROVE (ChainRecord /\ CallsAreFunded /\ CompletedIsFunded)'
  BY <1>48 DEF WriteBalance
<1>49. ASSUME NEW p \in Proc, PurchaseRow(p) PROVE (ChainRecord /\ CallsAreFunded /\ CompletedIsFunded)'
  BY <1>49 DEF PurchaseRow
<1>34. ASSUME NEW p \in Proc, SellCommit(p) PROVE (ChainRecord /\ CallsAreFunded /\ CompletedIsFunded)'
  BY <1>34 DEF SellCommit
<1>35. ASSUME NEW p \in Proc, CancelRead(p) PROVE (ChainRecord /\ CallsAreFunded /\ CompletedIsFunded)'
  BY <1>35 DEF CancelRead
<1>36. ASSUME NEW p \in Proc, CancelCommit(p) PROVE (ChainRecord /\ CallsAreFunded /\ CompletedIsFunded)'
  BY <1>36 DEF CancelCommit
<1>37. ASSUME NEW p \in Proc, RefundRead(p) PROVE (ChainRecord /\ CallsAreFunded /\ CompletedIsFunded)'
  BY <1>37 DEF RefundRead
<1>38. ASSUME NEW p \in Proc, RetireLines(p) PROVE (ChainRecord /\ CallsAreFunded /\ CompletedIsFunded)'
  BY <1>38 DEF RetireLines
<1>39. ASSUME NEW p \in Proc, SetRefunded(p) PROVE (ChainRecord /\ CallsAreFunded /\ CompletedIsFunded)'
  BY <1>39 DEF SetRefunded
<1>40. ASSUME NEW p \in Proc, RefundBalance(p) PROVE (ChainRecord /\ CallsAreFunded /\ CompletedIsFunded)'
  BY <1>40 DEF RefundBalance
<1>50. ASSUME NEW p \in Proc, RefundRow(p) PROVE (ChainRecord /\ CallsAreFunded /\ CompletedIsFunded)'
  BY <1>50 DEF RefundRow
<1>41. ASSUME NEW p \in Proc, UpdateCompleted(p) PROVE (ChainRecord /\ CallsAreFunded /\ CompletedIsFunded)'
  BY <1>41 DEF UpdateCompleted
<1>42. ASSUME NEW p \in Proc, DeliverOrder(p) PROVE (ChainRecord /\ CallsAreFunded /\ CompletedIsFunded)'
  BY <1>42 DEF DeliverOrder
<1>43. ASSUME NEW p \in Proc, WriteTyped(p) PROVE (ChainRecord /\ CallsAreFunded /\ CompletedIsFunded)'
  BY <1>43 DEF WriteTyped
<1>44. ASSUME NEW s \in OrderStatus \ {"COMPLETED"}, UpdateStatus(s) PROVE (ChainRecord /\ CallsAreFunded /\ CompletedIsFunded)'
  BY <1>44 DEF UpdateStatus
<1>45. CASE UNCHANGED orderVars
  BY <1>45 DEF orderVars, vars
<1> QED
  BY <1>1, <1>2, <1>3, <1>4, <1>5, <1>6, <1>7, <1>8, <1>9, <1>10, <1>11, <1>12, <1>13, <1>14,
     <1>15, <1>16, <1>17, <1>18, <1>19, <1>20, <1>21, <1>22, <1>23, <1>24, <1>25, <1>26, <1>27, <1>28,
     <1>29, <1>30, <1>31, <1>32, <1>33, <1>34, <1>35, <1>36, <1>37, <1>38, <1>39, <1>40, <1>41, <1>42,
     <1>43, <1>44, <1>45, <1>46, <1>47, <1>48, <1>49, <1>50
  DEF OrderNext, PaymentSide, PayStep, UndoStep, AdminStep, Next, Start, Continue, CreateStep,
      VerifyStep, ConfirmStep, SweepStep, Environment

\* What was refunded is not sold again, and what was handed over is kept.
LEMMA GoodsStep == IInv /\ [OrderNext]_orderVars => (NothingToSell /\ RefundTakesGoodsBack /\ HandingIsSold /\ HandedIsKept)'
<1> SUFFICES ASSUME IInv, [OrderNext]_orderVars PROVE (NothingToSell /\ RefundTakesGoodsBack /\ HandingIsSold /\ HandedIsKept)'
  OBVIOUS
<1> USE DEF IInv, OrderTypeOK, DataOK, NothingToSell, RefundTakesGoodsBack, HandingIsSold, HandedIsKept, goods, payVars, world, moneyVars, asked, Begin, Goto, Return, Enqueue, Dequeue, Rest, ReleasedHold, Ask, Request
<1>1. ASSUME NEW p \in Proc, CreateCheck(p), UNCHANGED <<moneyVars, asked>> PROVE (NothingToSell /\ RefundTakesGoodsBack /\ HandingIsSold /\ HandedIsKept)'
  BY <1>1 DEF CreateCheck
<1>2. ASSUME NEW p \in Proc, CreateRow(p), UNCHANGED <<moneyVars, asked>> PROVE (NothingToSell /\ RefundTakesGoodsBack /\ HandingIsSold /\ HandedIsKept)'
  BY <1>2 DEF CreateRow
<1>3. ASSUME NEW p \in Proc, CreateConflict(p), UNCHANGED <<moneyVars, asked>> PROVE (NothingToSell /\ RefundTakesGoodsBack /\ HandingIsSold /\ HandedIsKept)'
  BY <1>3 DEF CreateConflict
<1>4. ASSUME NEW p \in Proc, SyncReservation(p), UNCHANGED <<moneyVars, asked>> PROVE (NothingToSell /\ RefundTakesGoodsBack /\ HandingIsSold /\ HandedIsKept)'
  BY <1>4 DEF SyncReservation
<1>5. ASSUME NEW p \in Proc, QueueVerify(p), UNCHANGED <<moneyVars, asked>> PROVE (NothingToSell /\ RefundTakesGoodsBack /\ HandingIsSold /\ HandedIsKept)'
  BY <1>5 DEF QueueVerify
<1>6. ASSUME NEW p \in Proc, StartVerify(p), UNCHANGED <<moneyVars, asked>> PROVE (NothingToSell /\ RefundTakesGoodsBack /\ HandingIsSold /\ HandedIsKept)'
  BY <1>6 DEF StartVerify
<1>7. ASSUME NEW p \in Proc, StartPendingCron(p), UNCHANGED <<moneyVars, asked>> PROVE (NothingToSell /\ RefundTakesGoodsBack /\ HandingIsSold /\ HandedIsKept)'
  BY <1>7 DEF StartPendingCron
<1>8. ASSUME NEW p \in Proc, ReadPayment(p), UNCHANGED <<moneyVars, asked>> PROVE (NothingToSell /\ RefundTakesGoodsBack /\ HandingIsSold /\ HandedIsKept)'
  BY <1>8 DEF ReadPayment
<1>9. ASSUME NEW p \in Proc, Poll(p), UNCHANGED <<moneyVars, asked>> PROVE (NothingToSell /\ RefundTakesGoodsBack /\ HandingIsSold /\ HandedIsKept)'
  BY <1>9 DEF Poll
<1>10. ASSUME NEW p \in Proc, WritePaid(p), UNCHANGED <<moneyVars, asked>> PROVE (NothingToSell /\ RefundTakesGoodsBack /\ HandingIsSold /\ HandedIsKept)'
  BY <1>10 DEF WritePaid
<1>11. ASSUME NEW p \in Proc, QueueCheck(p), UNCHANGED <<moneyVars, asked>> PROVE (NothingToSell /\ RefundTakesGoodsBack /\ HandingIsSold /\ HandedIsKept)'
  BY <1>11 DEF QueueCheck
<1>12. ASSUME NEW p \in Proc, StartExpiry(p), UNCHANGED <<moneyVars, asked>> PROVE (NothingToSell /\ RefundTakesGoodsBack /\ HandingIsSold /\ HandedIsKept)'
  BY <1>12 DEF StartExpiry
<1>13. ASSUME NEW p \in Proc, ExpireRead(p), UNCHANGED <<moneyVars, asked>> PROVE (NothingToSell /\ RefundTakesGoodsBack /\ HandingIsSold /\ HandedIsKept)'
  BY <1>13 DEF ExpireRead
<1>14. ASSUME NEW p \in Proc, ExpireCommit(p), UNCHANGED <<moneyVars, asked>> PROVE (NothingToSell /\ RefundTakesGoodsBack /\ HandingIsSold /\ HandedIsKept)'
  BY <1>14 DEF ExpireCommit
<1>15. ASSUME NEW p \in Proc, StartCheck(p), UNCHANGED <<moneyVars, asked>> PROVE (NothingToSell /\ RefundTakesGoodsBack /\ HandingIsSold /\ HandedIsKept)'
  BY <1>15 DEF StartCheck
<1>16. ASSUME NEW p \in Proc, ReadDepth(p), UNCHANGED <<moneyVars, asked>> PROVE (NothingToSell /\ RefundTakesGoodsBack /\ HandingIsSold /\ HandedIsKept)'
  BY <1>16 DEF ReadDepth
<1>17. ASSUME NEW p \in Proc, WriteConfirmations(p), UNCHANGED <<moneyVars, asked>> PROVE (NothingToSell /\ RefundTakesGoodsBack /\ HandingIsSold /\ HandedIsKept)'
  BY <1>17 DEF WriteConfirmations
<1>18. ASSUME NEW p \in Proc, Requeue(p), UNCHANGED <<moneyVars, asked>> PROVE (NothingToSell /\ RefundTakesGoodsBack /\ HandingIsSold /\ HandedIsKept)'
  BY <1>18 DEF Requeue
<1>19. ASSUME NEW p \in Proc, ConfirmCommit(p), UNCHANGED <<moneyVars, asked>> PROVE (NothingToSell /\ RefundTakesGoodsBack /\ HandingIsSold /\ HandedIsKept)'
  BY <1>19 DEF ConfirmCommit
<1>20. ASSUME NEW p \in Proc, DeliverCheck(p), UNCHANGED <<moneyVars, asked>> PROVE (NothingToSell /\ RefundTakesGoodsBack /\ HandingIsSold /\ HandedIsKept)'
  BY <1>20 DEF DeliverCheck, AfterDelivery
<1>21. ASSUME NEW p \in Proc, ReadSoldLines(p), UNCHANGED <<moneyVars, asked>> PROVE (NothingToSell /\ RefundTakesGoodsBack /\ HandingIsSold /\ HandedIsKept)'
  BY <1>21 DEF ReadSoldLines
<1>22. ASSUME NEW p \in Proc, HandOver(p), UNCHANGED <<moneyVars, asked>> PROVE (NothingToSell /\ RefundTakesGoodsBack /\ HandingIsSold /\ HandedIsKept)'
  BY <1>22 DEF HandOver, AfterDelivery
<1>23. ASSUME NEW p \in Proc, QueueForward(p), UNCHANGED <<moneyVars, asked>> PROVE (NothingToSell /\ RefundTakesGoodsBack /\ HandingIsSold /\ HandedIsKept)'
  BY <1>23 DEF QueueForward
<1>24. ASSUME NEW p \in Proc, Fail(p), UNCHANGED <<moneyVars, asked>> PROVE (NothingToSell /\ RefundTakesGoodsBack /\ HandingIsSold /\ HandedIsKept)'
  BY <1>24 DEF Fail, AfterDelivery, DeliverySteps
<1>25. ASSUME NEW p \in Proc, Crash(p), UNCHANGED <<moneyVars, asked>> PROVE (NothingToSell /\ RefundTakesGoodsBack /\ HandingIsSold /\ HandedIsKept)'
  BY <1>25 DEF Crash
<1>26. ASSUME SweepCount, UNCHANGED <<moneyVars, asked>> PROVE (NothingToSell /\ RefundTakesGoodsBack /\ HandingIsSold /\ HandedIsKept)'
  BY <1>26 DEF SweepCount
<1>46. ASSUME SweepRelease, UNCHANGED <<moneyVars, asked>> PROVE (NothingToSell /\ RefundTakesGoodsBack /\ HandingIsSold /\ HandedIsKept)'
  BY <1>46 DEF SweepRelease
<1>47. ASSUME SweepAbort, UNCHANGED <<moneyVars, asked>> PROVE (NothingToSell /\ RefundTakesGoodsBack /\ HandingIsSold /\ HandedIsKept)'
  BY <1>47 DEF SweepAbort
<1>27. ASSUME NEW f \in {"short", "split", "enough"}, Transfer(f), UNCHANGED <<moneyVars, asked>> PROVE (NothingToSell /\ RefundTakesGoodsBack /\ HandingIsSold /\ HandedIsKept)'
  BY <1>27 DEF Transfer
<1>28. ASSUME Mine, UNCHANGED <<moneyVars, asked>> PROVE (NothingToSell /\ RefundTakesGoodsBack /\ HandingIsSold /\ HandedIsKept)'
  BY <1>28 DEF Mine
<1>29. ASSUME Reorganise, UNCHANGED <<moneyVars, asked>> PROVE (NothingToSell /\ RefundTakesGoodsBack /\ HandingIsSold /\ HandedIsKept)'
  BY <1>29 DEF Reorganise
<1>30. ASSUME ClockTick, UNCHANGED <<moneyVars, asked>> PROVE (NothingToSell /\ RefundTakesGoodsBack /\ HandingIsSold /\ HandedIsKept)'
  BY <1>30 DEF ClockTick
<1>31. ASSUME DefaultDeadlinePasses, UNCHANGED <<moneyVars, asked>> PROVE (NothingToSell /\ RefundTakesGoodsBack /\ HandingIsSold /\ HandedIsKept)'
  BY <1>31 DEF DefaultDeadlinePasses
<1>32. ASSUME NEW p \in Proc, PayRead(p) PROVE (NothingToSell /\ RefundTakesGoodsBack /\ HandingIsSold /\ HandedIsKept)'
  BY <1>32 DEF PayRead
<1>33. ASSUME NEW p \in Proc, DeductBalance(p) PROVE (NothingToSell /\ RefundTakesGoodsBack /\ HandingIsSold /\ HandedIsKept)'
  BY <1>33 DEF DeductBalance
<1>48. ASSUME NEW p \in Proc, WriteBalance(p) PROVE (NothingToSell /\ RefundTakesGoodsBack /\ HandingIsSold /\ HandedIsKept)'
  BY <1>48 DEF WriteBalance
<1>49. ASSUME NEW p \in Proc, PurchaseRow(p) PROVE (NothingToSell /\ RefundTakesGoodsBack /\ HandingIsSold /\ HandedIsKept)'
  BY <1>49 DEF PurchaseRow
<1>34. ASSUME NEW p \in Proc, SellCommit(p) PROVE (NothingToSell /\ RefundTakesGoodsBack /\ HandingIsSold /\ HandedIsKept)'
  BY <1>34 DEF SellCommit
<1>35. ASSUME NEW p \in Proc, CancelRead(p) PROVE (NothingToSell /\ RefundTakesGoodsBack /\ HandingIsSold /\ HandedIsKept)'
  BY <1>35 DEF CancelRead
<1>36. ASSUME NEW p \in Proc, CancelCommit(p) PROVE (NothingToSell /\ RefundTakesGoodsBack /\ HandingIsSold /\ HandedIsKept)'
  BY <1>36 DEF CancelCommit
<1>37. ASSUME NEW p \in Proc, RefundRead(p) PROVE (NothingToSell /\ RefundTakesGoodsBack /\ HandingIsSold /\ HandedIsKept)'
  BY <1>37 DEF RefundRead
<1>38. ASSUME NEW p \in Proc, RetireLines(p) PROVE (NothingToSell /\ RefundTakesGoodsBack /\ HandingIsSold /\ HandedIsKept)'
  BY <1>38 DEF RetireLines
<1>39. ASSUME NEW p \in Proc, SetRefunded(p) PROVE (NothingToSell /\ RefundTakesGoodsBack /\ HandingIsSold /\ HandedIsKept)'
  BY <1>39 DEF SetRefunded
<1>40. ASSUME NEW p \in Proc, RefundBalance(p) PROVE (NothingToSell /\ RefundTakesGoodsBack /\ HandingIsSold /\ HandedIsKept)'
  BY <1>40 DEF RefundBalance
<1>50. ASSUME NEW p \in Proc, RefundRow(p) PROVE (NothingToSell /\ RefundTakesGoodsBack /\ HandingIsSold /\ HandedIsKept)'
  BY <1>50 DEF RefundRow
<1>41. ASSUME NEW p \in Proc, UpdateCompleted(p) PROVE (NothingToSell /\ RefundTakesGoodsBack /\ HandingIsSold /\ HandedIsKept)'
  BY <1>41 DEF UpdateCompleted
<1>42. ASSUME NEW p \in Proc, DeliverOrder(p) PROVE (NothingToSell /\ RefundTakesGoodsBack /\ HandingIsSold /\ HandedIsKept)'
  BY <1>42 DEF DeliverOrder
<1>43. ASSUME NEW p \in Proc, WriteTyped(p) PROVE (NothingToSell /\ RefundTakesGoodsBack /\ HandingIsSold /\ HandedIsKept)'
  BY <1>43 DEF WriteTyped
<1>44. ASSUME NEW s \in OrderStatus \ {"COMPLETED"}, UpdateStatus(s) PROVE (NothingToSell /\ RefundTakesGoodsBack /\ HandingIsSold /\ HandedIsKept)'
  BY <1>44 DEF UpdateStatus
<1>45. CASE UNCHANGED orderVars
  BY <1>45 DEF orderVars, vars
<1> QED
  BY <1>1, <1>2, <1>3, <1>4, <1>5, <1>6, <1>7, <1>8, <1>9, <1>10, <1>11, <1>12, <1>13, <1>14,
     <1>15, <1>16, <1>17, <1>18, <1>19, <1>20, <1>21, <1>22, <1>23, <1>24, <1>25, <1>26, <1>27, <1>28,
     <1>29, <1>30, <1>31, <1>32, <1>33, <1>34, <1>35, <1>36, <1>37, <1>38, <1>39, <1>40, <1>41, <1>42,
     <1>43, <1>44, <1>45, <1>46, <1>47, <1>48, <1>49, <1>50
  DEF OrderNext, PaymentSide, PayStep, UndoStep, AdminStep, Next, Start, Continue, CreateStep,
      VerifyStep, ConfirmStep, SweepStep, Environment

-------------------------------------------------------------------------------
\* The inductive invariant holds in every reachable state.
THEOREM Invariance == OrderSpec => []IInv
<1>1. IInv /\ [OrderNext]_orderVars => IInv'
  BY TypeStep, FundedStep, GoodsStep DEF IInv
<1> QED
  BY InitIInv, <1>1, PTL DEF OrderSpec

\* The variables keep their types: whatever a stale debit writes, it was computed from a
\* balance that passed the test, so no balance is negative.
THEOREM OrderTypeCorrect == OrderSpec => []OrderTypeOK
<1>1. IInv => OrderTypeOK
  BY DEF IInv
<1> QED
  BY Invariance, <1>1, PTL

\* Whatever calls overlap or fail, an order that no admin has edited is completed, sold
\* and delivered only when it was paid for.
THEOREM FundedCorrect == OrderSpec => []CompletedIsFunded
<1>1. IInv => CompletedIsFunded
  BY DEF IInv
<1> QED
  BY Invariance, <1>1, PTL

\* Whatever calls overlap or fail, a refunded order keeps no goods.
THEOREM RefundCorrect == OrderSpec => []RefundTakesGoodsBack
<1>1. IInv => RefundTakesGoodsBack
  BY DEF IInv
<1> QED
  BY Invariance, <1>1, PTL

\* Handed content is never sold again.
THEOREM HandedCorrect == OrderSpec => []HandedIsKept
<1>1. IInv => HandedIsKept
  BY DEF IInv
<1> QED
  BY Invariance, <1>1, PTL

===============================================================================
