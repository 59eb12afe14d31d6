-------------------------- MODULE CryptoPayment_proofs --------------------------
(* Proofs about CryptoPayment, for any number of overlapping calls, any number *)
(* of required confirmations and any number of faults.                         *)
EXTENDS CryptoPayment, TLAPS

\* A call that has decided to write PAID with a hash saw the whole amount in one
\* transfer, and one that counts or confirms saw every confirmation.  The chain never
\* takes those back, so what these calls write later is still true.
ChainRecord ==
    /\ depth > 0 => funds = "enough"
    /\ txHash => funds = "enough"
    /\ \A p \in Proc : (proc[p].at = "paid" /\ proc[p].n = 1) => funds = "enough"
    /\ \A p \in Proc : (proc[p].at = "count" /\ proc[p].n = Required) => depth = Required
    /\ \A p \in Proc : proc[p].at \in {"confirm", "soldLines", "hand"} => depth = Required

\* A sweep that counted the lines found their deadline passed, and only the deadline has
\* moved since.
CountedIsLapsed == sweep = "counted" => HoldLapsed

\* A call that is about to expire the payment found it overdue.
ExpiryDue == \A p \in Proc : proc[p].at \in {"expire", "expireCommit"} => Overdue

IInv ==
    /\ TypeOK
    /\ ChainRecord
    /\ CompletedIsPaid
    /\ ExpiryDue
    /\ CountedIsLapsed
    /\ ExpiredFreesStock
    /\ StockWaitsForPayer

USE RequiredAssumption, FaultsAssumption

LEMMA InitIInv == Init => IInv
<1> SUFFICES ASSUME Init PROVE IInv
  OBVIOUS
<1>1. TypeOK
  <2>1. Rest \in Calls
    BY DEF Rest, Calls, Steps
  <2>2. order \in OrderStatus /\ payment \in PaymentStatus \cup {"NONE"}
    BY DEF Init, OrderStatus, PaymentStatus
  <2>3. jobs \in [JobName -> Nat] /\ proc \in [Proc -> Calls]
    BY <2>1 DEF Init
  <2>4. depth \in 0..Required /\ faults \in 0..MaxFaults
    BY DEF Init
  <2> QED BY <2>2, <2>3, <2>4 DEF Init, TypeOK, DataOK
<1>2. ChainRecord /\ ExpiryDue /\ CountedIsLapsed
  BY DEF Init, ChainRecord, ExpiryDue, CountedIsLapsed, Rest
<1>3. CompletedIsPaid /\ ExpiredFreesStock /\ StockWaitsForPayer
  BY DEF Init, CompletedIsPaid, ExpiredFreesStock, StockWaitsForPayer
<1> QED
  BY <1>1, <1>2, <1>3 DEF IInv

-------------------------------------------------------------------------------
\* Every step keeps the variables in their types.
LEMMA TypeStep == TypeOK /\ [Next]_vars => TypeOK'
<1> SUFFICES ASSUME TypeOK, [Next]_vars PROVE TypeOK'
  OBVIOUS
<1> USE DEF TypeOK, DataOK, Calls, Steps, JobName, OrderStatus, PaymentStatus, ReleasedHold, goods, payVars, world, Begin, Goto, Return, Enqueue, Dequeue, Rest
<1>1. ASSUME NEW p \in Proc, CreateCheck(p) PROVE TypeOK'
  BY <1>1 DEF CreateCheck
<1>2. ASSUME NEW p \in Proc, CreateRow(p) PROVE TypeOK'
  BY <1>2 DEF CreateRow
<1>3. ASSUME NEW p \in Proc, CreateConflict(p) PROVE TypeOK'
  BY <1>3 DEF CreateConflict
<1>4. ASSUME NEW p \in Proc, SyncReservation(p) PROVE TypeOK'
  BY <1>4 DEF SyncReservation
<1>5. ASSUME NEW p \in Proc, QueueVerify(p) PROVE TypeOK'
  BY <1>5 DEF QueueVerify
<1>6. ASSUME NEW p \in Proc, StartVerify(p) PROVE TypeOK'
  BY <1>6 DEF StartVerify
<1>7. ASSUME NEW p \in Proc, StartPendingCron(p) PROVE TypeOK'
  BY <1>7 DEF StartPendingCron
<1>8. ASSUME NEW p \in Proc, ReadPayment(p) PROVE TypeOK'
  BY <1>8 DEF ReadPayment
<1>9. ASSUME NEW p \in Proc, Poll(p) PROVE TypeOK'
  BY <1>9 DEF Poll
<1>10. ASSUME NEW p \in Proc, WritePaid(p) PROVE TypeOK'
  BY <1>10 DEF WritePaid
<1>11. ASSUME NEW p \in Proc, QueueCheck(p) PROVE TypeOK'
  BY <1>11 DEF QueueCheck
<1>12. ASSUME NEW p \in Proc, StartExpiry(p) PROVE TypeOK'
  BY <1>12 DEF StartExpiry
<1>13. ASSUME NEW p \in Proc, ExpireRead(p) PROVE TypeOK'
  BY <1>13 DEF ExpireRead
<1>14. ASSUME NEW p \in Proc, ExpireCommit(p) PROVE TypeOK'
  BY <1>14 DEF ExpireCommit
<1>15. ASSUME NEW p \in Proc, StartCheck(p) PROVE TypeOK'
  BY <1>15 DEF StartCheck
<1>16. ASSUME NEW p \in Proc, ReadDepth(p) PROVE TypeOK'
  BY <1>16 DEF ReadDepth
<1>17. ASSUME NEW p \in Proc, WriteConfirmations(p) PROVE TypeOK'
  BY <1>17 DEF WriteConfirmations
<1>18. ASSUME NEW p \in Proc, Requeue(p) PROVE TypeOK'
  BY <1>18 DEF Requeue
<1>19. ASSUME NEW p \in Proc, ConfirmCommit(p) PROVE TypeOK'
  BY <1>19 DEF ConfirmCommit
<1>20. ASSUME NEW p \in Proc, DeliverCheck(p) PROVE TypeOK'
  BY <1>20 DEF DeliverCheck, AfterDelivery
<1>31. ASSUME NEW p \in Proc, ReadSoldLines(p) PROVE TypeOK'
  BY <1>31 DEF ReadSoldLines
<1>32. ASSUME NEW p \in Proc, HandOver(p) PROVE TypeOK'
  <2>1. proc' \in [Proc -> Calls]
    <3> DEFINE forward == [at |-> "queueForward", job |-> proc[p].job, n |-> 0]
    <3>1. forward \in Calls /\ Rest \in Calls
      OBVIOUS
    <3>2. \E c \in {forward, Rest} : proc' = [proc EXCEPT ![p] = c]
      BY <1>32 DEF HandOver, AfterDelivery
    <3> HIDE DEF forward
    <3> QED BY <3>1, <3>2
  <2>2. delivered' \in {"lines", "placeholder"}
       /\ UNCHANGED <<order, hold, reservedUntil, payVars, jobs, world, faults>>
    BY <1>32 DEF HandOver
  <2> QED BY <2>1, <2>2
<1>21. ASSUME NEW p \in Proc, QueueForward(p) PROVE TypeOK'
  BY <1>21 DEF QueueForward
<1>22. ASSUME NEW p \in Proc, Fail(p) PROVE TypeOK'
  BY <1>22 DEF Fail, AfterDelivery
<1>23. ASSUME NEW p \in Proc, Crash(p) PROVE TypeOK'
  BY <1>23 DEF Crash
<1>24. ASSUME SweepCount PROVE TypeOK'
  BY <1>24 DEF SweepCount
<1>33. ASSUME SweepRelease PROVE TypeOK'
  BY <1>33 DEF SweepRelease
<1>34. ASSUME SweepAbort PROVE TypeOK'
  BY <1>34 DEF SweepAbort
<1>25. ASSUME NEW f \in {"short", "split", "enough"}, Transfer(f) PROVE TypeOK'
  BY <1>25 DEF Transfer
<1>26. ASSUME Mine PROVE TypeOK'
  BY <1>26 DEF Mine
<1>27. ASSUME Reorganise PROVE TypeOK'
  BY <1>27 DEF Reorganise
<1>28. ASSUME ClockTick PROVE TypeOK'
  BY <1>28 DEF ClockTick
<1>29. ASSUME DefaultDeadlinePasses PROVE TypeOK'
  BY <1>29 DEF DefaultDeadlinePasses
<1>30. CASE UNCHANGED vars
  BY <1>30 DEF vars
<1> QED
  BY <1>1, <1>2, <1>3, <1>4, <1>5, <1>6, <1>7, <1>8, <1>9, <1>10, <1>11, <1>12, <1>13, <1>14, <1>15, <1>16, <1>17, <1>18, <1>19, <1>20, <1>21, <1>22, <1>23, <1>24, <1>25, <1>26, <1>27, <1>28, <1>29, <1>30, <1>31, <1>32, <1>33, <1>34
  DEF Next, Start, Continue, CreateStep, VerifyStep, ConfirmStep, SweepStep, Environment

\* What the calls in flight saw on the chain stays true, and nothing else completes an
\* order.
LEMMA ChainStep == IInv /\ [Next]_vars => (ChainRecord /\ CompletedIsPaid)'
<1> SUFFICES ASSUME IInv, [Next]_vars PROVE (ChainRecord /\ CompletedIsPaid)'
  OBVIOUS
<1> USE DEF IInv, TypeOK, DataOK, Calls, ChainRecord, CompletedIsPaid, ReleasedHold, goods, payVars, world, Begin, Goto, Return, Enqueue, Dequeue, Rest
<1>1. ASSUME NEW p \in Proc, CreateCheck(p) PROVE (ChainRecord /\ CompletedIsPaid)'
  BY <1>1 DEF CreateCheck
<1>2. ASSUME NEW p \in Proc, CreateRow(p) PROVE (ChainRecord /\ CompletedIsPaid)'
  BY <1>2 DEF CreateRow
<1>3. ASSUME NEW p \in Proc, CreateConflict(p) PROVE (ChainRecord /\ CompletedIsPaid)'
  BY <1>3 DEF CreateConflict
<1>4. ASSUME NEW p \in Proc, SyncReservation(p) PROVE (ChainRecord /\ CompletedIsPaid)'
  BY <1>4 DEF SyncReservation
<1>5. ASSUME NEW p \in Proc, QueueVerify(p) PROVE (ChainRecord /\ CompletedIsPaid)'
  BY <1>5 DEF QueueVerify
<1>6. ASSUME NEW p \in Proc, StartVerify(p) PROVE (ChainRecord /\ CompletedIsPaid)'
  BY <1>6 DEF StartVerify
<1>7. ASSUME NEW p \in Proc, StartPendingCron(p) PROVE (ChainRecord /\ CompletedIsPaid)'
  BY <1>7 DEF StartPendingCron
<1>8. ASSUME NEW p \in Proc, ReadPayment(p) PROVE (ChainRecord /\ CompletedIsPaid)'
  BY <1>8 DEF ReadPayment
<1>9. ASSUME NEW p \in Proc, Poll(p) PROVE (ChainRecord /\ CompletedIsPaid)'
  BY <1>9 DEF Poll
<1>10. ASSUME NEW p \in Proc, WritePaid(p) PROVE (ChainRecord /\ CompletedIsPaid)'
  BY <1>10 DEF WritePaid
<1>11. ASSUME NEW p \in Proc, QueueCheck(p) PROVE (ChainRecord /\ CompletedIsPaid)'
  BY <1>11 DEF QueueCheck
<1>12. ASSUME NEW p \in Proc, StartExpiry(p) PROVE (ChainRecord /\ CompletedIsPaid)'
  BY <1>12 DEF StartExpiry
<1>13. ASSUME NEW p \in Proc, ExpireRead(p) PROVE (ChainRecord /\ CompletedIsPaid)'
  BY <1>13 DEF ExpireRead
<1>14. ASSUME NEW p \in Proc, ExpireCommit(p) PROVE (ChainRecord /\ CompletedIsPaid)'
  BY <1>14 DEF ExpireCommit
<1>15. ASSUME NEW p \in Proc, StartCheck(p) PROVE (ChainRecord /\ CompletedIsPaid)'
  BY <1>15 DEF StartCheck
<1>16. ASSUME NEW p \in Proc, ReadDepth(p) PROVE (ChainRecord /\ CompletedIsPaid)'
  BY <1>16 DEF ReadDepth
<1>17. ASSUME NEW p \in Proc, WriteConfirmations(p) PROVE (ChainRecord /\ CompletedIsPaid)'
  <2> DEFINE at == IF proc[p].n >= Required THEN "confirm" ELSE "requeue"
  <2>1. /\ proc[p].at = "count" /\ proc[p].n \in 0 .. Required
        /\ UNCHANGED <<goods, txHash, world>>
    BY <1>17 DEF WriteConfirmations
  <2>2. at = "confirm" => depth = Required
    BY <2>1
  <2>3. at \in {"confirm", "requeue"}
    OBVIOUS
  <2>4. proc' = [proc EXCEPT ![p] = [at |-> at, job |-> proc[p].job, n |-> proc[p].n]]
    BY <1>17 DEF WriteConfirmations
  <2> HIDE DEF at
  <2>5. proc'[p].at = at /\ \A q \in Proc \ {p} : proc'[q] = proc[q]
    BY <2>4
  <2> QED BY <2>1, <2>2, <2>3, <2>5
<1>18. ASSUME NEW p \in Proc, Requeue(p) PROVE (ChainRecord /\ CompletedIsPaid)'
  BY <1>18 DEF Requeue
<1>19. ASSUME NEW p \in Proc, ConfirmCommit(p) PROVE (ChainRecord /\ CompletedIsPaid)'
  BY <1>19 DEF ConfirmCommit
<1>20. ASSUME NEW p \in Proc, DeliverCheck(p) PROVE (ChainRecord /\ CompletedIsPaid)'
  BY <1>20 DEF DeliverCheck, AfterDelivery
<1>31. ASSUME NEW p \in Proc, ReadSoldLines(p) PROVE (ChainRecord /\ CompletedIsPaid)'
  BY <1>31 DEF ReadSoldLines
<1>32. ASSUME NEW p \in Proc, HandOver(p) PROVE (ChainRecord /\ CompletedIsPaid)'
  BY <1>32 DEF HandOver, AfterDelivery
<1>21. ASSUME NEW p \in Proc, QueueForward(p) PROVE (ChainRecord /\ CompletedIsPaid)'
  BY <1>21 DEF QueueForward
<1>22. ASSUME NEW p \in Proc, Fail(p) PROVE (ChainRecord /\ CompletedIsPaid)'
  BY <1>22 DEF Fail, AfterDelivery
<1>23. ASSUME NEW p \in Proc, Crash(p) PROVE (ChainRecord /\ CompletedIsPaid)'
  BY <1>23 DEF Crash
<1>24. ASSUME SweepCount PROVE (ChainRecord /\ CompletedIsPaid)'
  BY <1>24 DEF SweepCount
<1>33. ASSUME SweepRelease PROVE (ChainRecord /\ CompletedIsPaid)'
  BY <1>33 DEF SweepRelease
<1>34. ASSUME SweepAbort PROVE (ChainRecord /\ CompletedIsPaid)'
  BY <1>34 DEF SweepAbort
<1>25. ASSUME NEW f \in {"short", "split", "enough"}, Transfer(f) PROVE (ChainRecord /\ CompletedIsPaid)'
  BY <1>25 DEF Transfer
<1>26. ASSUME Mine PROVE (ChainRecord /\ CompletedIsPaid)'
  BY <1>26 DEF Mine
<1>27. ASSUME Reorganise PROVE (ChainRecord /\ CompletedIsPaid)'
  BY <1>27 DEF Reorganise
<1>28. ASSUME ClockTick PROVE (ChainRecord /\ CompletedIsPaid)'
  BY <1>28 DEF ClockTick
<1>29. ASSUME DefaultDeadlinePasses PROVE (ChainRecord /\ CompletedIsPaid)'
  BY <1>29 DEF DefaultDeadlinePasses
<1>30. CASE UNCHANGED vars
  BY <1>30 DEF vars
<1> QED
  BY <1>1, <1>2, <1>3, <1>4, <1>5, <1>6, <1>7, <1>8, <1>9, <1>10, <1>11, <1>12, <1>13, <1>14, <1>15, <1>16, <1>17, <1>18, <1>19, <1>20, <1>21, <1>22, <1>23, <1>24, <1>25, <1>26, <1>27, <1>28, <1>29, <1>30, <1>31, <1>32, <1>33, <1>34
  DEF Next, Start, Continue, CreateStep, VerifyStep, ConfirmStep, SweepStep, Environment

\* Reserved lines leave with an overdue payment, and not before, unless a sweep was late.
LEMMA HoldStep == IInv /\ [Next]_vars => (ExpiryDue /\ CountedIsLapsed /\ ExpiredFreesStock /\ StockWaitsForPayer)'
<1> SUFFICES ASSUME IInv, [Next]_vars PROVE (ExpiryDue /\ CountedIsLapsed /\ ExpiredFreesStock /\ StockWaitsForPayer)'
  OBVIOUS
<1> USE DEF IInv, TypeOK, DataOK, Calls, ExpiryDue, CountedIsLapsed, ExpiredFreesStock, StockWaitsForPayer, Overdue, HoldLapsed, ReleasedHold, goods, payVars, world, Begin, Goto, Return, Enqueue, Dequeue, Rest
<1>1. ASSUME NEW p \in Proc, CreateCheck(p) PROVE (ExpiryDue /\ CountedIsLapsed /\ ExpiredFreesStock /\ StockWaitsForPayer)'
  BY <1>1 DEF CreateCheck
<1>2. ASSUME NEW p \in Proc, CreateRow(p) PROVE (ExpiryDue /\ CountedIsLapsed /\ ExpiredFreesStock /\ StockWaitsForPayer)'
  BY <1>2 DEF CreateRow
<1>3. ASSUME NEW p \in Proc, CreateConflict(p) PROVE (ExpiryDue /\ CountedIsLapsed /\ ExpiredFreesStock /\ StockWaitsForPayer)'
  BY <1>3 DEF CreateConflict
<1>4. ASSUME NEW p \in Proc, SyncReservation(p) PROVE (ExpiryDue /\ CountedIsLapsed /\ ExpiredFreesStock /\ StockWaitsForPayer)'
  BY <1>4 DEF SyncReservation
<1>5. ASSUME NEW p \in Proc, QueueVerify(p) PROVE (ExpiryDue /\ CountedIsLapsed /\ ExpiredFreesStock /\ StockWaitsForPayer)'
  BY <1>5 DEF QueueVerify
<1>6. ASSUME NEW p \in Proc, StartVerify(p) PROVE (ExpiryDue /\ CountedIsLapsed /\ ExpiredFreesStock /\ StockWaitsForPayer)'
  BY <1>6 DEF StartVerify
<1>7. ASSUME NEW p \in Proc, StartPendingCron(p) PROVE (ExpiryDue /\ CountedIsLapsed /\ ExpiredFreesStock /\ StockWaitsForPayer)'
  BY <1>7 DEF StartPendingCron
<1>8. ASSUME NEW p \in Proc, ReadPayment(p) PROVE (ExpiryDue /\ CountedIsLapsed /\ ExpiredFreesStock /\ StockWaitsForPayer)'
  BY <1>8 DEF ReadPayment
<1>9. ASSUME NEW p \in Proc, Poll(p) PROVE (ExpiryDue /\ CountedIsLapsed /\ ExpiredFreesStock /\ StockWaitsForPayer)'
  BY <1>9 DEF Poll
<1>10. ASSUME NEW p \in Proc, WritePaid(p) PROVE (ExpiryDue /\ CountedIsLapsed /\ ExpiredFreesStock /\ StockWaitsForPayer)'
  BY <1>10 DEF WritePaid
<1>11. ASSUME NEW p \in Proc, QueueCheck(p) PROVE (ExpiryDue /\ CountedIsLapsed /\ ExpiredFreesStock /\ StockWaitsForPayer)'
  BY <1>11 DEF QueueCheck
<1>12. ASSUME NEW p \in Proc, StartExpiry(p) PROVE (ExpiryDue /\ CountedIsLapsed /\ ExpiredFreesStock /\ StockWaitsForPayer)'
  BY <1>12 DEF StartExpiry
<1>13. ASSUME NEW p \in Proc, ExpireRead(p) PROVE (ExpiryDue /\ CountedIsLapsed /\ ExpiredFreesStock /\ StockWaitsForPayer)'
  BY <1>13 DEF ExpireRead
<1>14. ASSUME NEW p \in Proc, ExpireCommit(p) PROVE (ExpiryDue /\ CountedIsLapsed /\ ExpiredFreesStock /\ StockWaitsForPayer)'
  BY <1>14 DEF ExpireCommit
<1>15. ASSUME NEW p \in Proc, StartCheck(p) PROVE (ExpiryDue /\ CountedIsLapsed /\ ExpiredFreesStock /\ StockWaitsForPayer)'
  BY <1>15 DEF StartCheck
<1>16. ASSUME NEW p \in Proc, ReadDepth(p) PROVE (ExpiryDue /\ CountedIsLapsed /\ ExpiredFreesStock /\ StockWaitsForPayer)'
  BY <1>16 DEF ReadDepth
<1>17. ASSUME NEW p \in Proc, WriteConfirmations(p) PROVE (ExpiryDue /\ CountedIsLapsed /\ ExpiredFreesStock /\ StockWaitsForPayer)'
  BY <1>17 DEF WriteConfirmations
<1>18. ASSUME NEW p \in Proc, Requeue(p) PROVE (ExpiryDue /\ CountedIsLapsed /\ ExpiredFreesStock /\ StockWaitsForPayer)'
  BY <1>18 DEF Requeue
<1>19. ASSUME NEW p \in Proc, ConfirmCommit(p) PROVE (ExpiryDue /\ CountedIsLapsed /\ ExpiredFreesStock /\ StockWaitsForPayer)'
  BY <1>19 DEF ConfirmCommit
<1>20. ASSUME NEW p \in Proc, DeliverCheck(p) PROVE (ExpiryDue /\ CountedIsLapsed /\ ExpiredFreesStock /\ StockWaitsForPayer)'
  BY <1>20 DEF DeliverCheck, AfterDelivery
<1>31. ASSUME NEW p \in Proc, ReadSoldLines(p) PROVE (ExpiryDue /\ CountedIsLapsed /\ ExpiredFreesStock /\ StockWaitsForPayer)'
  BY <1>31 DEF ReadSoldLines
<1>32. ASSUME NEW p \in Proc, HandOver(p) PROVE (ExpiryDue /\ CountedIsLapsed /\ ExpiredFreesStock /\ StockWaitsForPayer)'
  BY <1>32 DEF HandOver, AfterDelivery
<1>21. ASSUME NEW p \in Proc, QueueForward(p) PROVE (ExpiryDue /\ CountedIsLapsed /\ ExpiredFreesStock /\ StockWaitsForPayer)'
  BY <1>21 DEF QueueForward
<1>22. ASSUME NEW p \in Proc, Fail(p) PROVE (ExpiryDue /\ CountedIsLapsed /\ ExpiredFreesStock /\ StockWaitsForPayer)'
  BY <1>22 DEF Fail, AfterDelivery
<1>23. ASSUME NEW p \in Proc, Crash(p) PROVE (ExpiryDue /\ CountedIsLapsed /\ ExpiredFreesStock /\ StockWaitsForPayer)'
  BY <1>23 DEF Crash
<1>24. ASSUME SweepCount PROVE (ExpiryDue /\ CountedIsLapsed /\ ExpiredFreesStock /\ StockWaitsForPayer)'
  BY <1>24 DEF SweepCount
<1>33. ASSUME SweepRelease PROVE (ExpiryDue /\ CountedIsLapsed /\ ExpiredFreesStock /\ StockWaitsForPayer)'
  BY <1>33 DEF SweepRelease
<1>34. ASSUME SweepAbort PROVE (ExpiryDue /\ CountedIsLapsed /\ ExpiredFreesStock /\ StockWaitsForPayer)'
  BY <1>34 DEF SweepAbort
<1>25. ASSUME NEW f \in {"short", "split", "enough"}, Transfer(f) PROVE (ExpiryDue /\ CountedIsLapsed /\ ExpiredFreesStock /\ StockWaitsForPayer)'
  BY <1>25 DEF Transfer
<1>26. ASSUME Mine PROVE (ExpiryDue /\ CountedIsLapsed /\ ExpiredFreesStock /\ StockWaitsForPayer)'
  BY <1>26 DEF Mine
<1>27. ASSUME Reorganise PROVE (ExpiryDue /\ CountedIsLapsed /\ ExpiredFreesStock /\ StockWaitsForPayer)'
  BY <1>27 DEF Reorganise
<1>28. ASSUME ClockTick PROVE (ExpiryDue /\ CountedIsLapsed /\ ExpiredFreesStock /\ StockWaitsForPayer)'
  BY <1>28 DEF ClockTick
<1>29. ASSUME DefaultDeadlinePasses PROVE (ExpiryDue /\ CountedIsLapsed /\ ExpiredFreesStock /\ StockWaitsForPayer)'
  BY <1>29 DEF DefaultDeadlinePasses
<1>30. CASE UNCHANGED vars
  BY <1>30 DEF vars
<1> QED
  BY <1>1, <1>2, <1>3, <1>4, <1>5, <1>6, <1>7, <1>8, <1>9, <1>10, <1>11, <1>12, <1>13, <1>14, <1>15, <1>16, <1>17, <1>18, <1>19, <1>20, <1>21, <1>22, <1>23, <1>24, <1>25, <1>26, <1>27, <1>28, <1>29, <1>30, <1>31, <1>32, <1>33, <1>34
  DEF Next, Start, Continue, CreateStep, VerifyStep, ConfirmStep, SweepStep, Environment

-------------------------------------------------------------------------------
\* The inductive invariant holds in every reachable state.
THEOREM Invariance == Spec => []IInv
<1>1. IInv /\ [Next]_vars => IInv'
  BY TypeStep, ChainStep, HoldStep DEF IInv
<1> QED
  BY InitIInv, <1>1, PTL DEF Spec

\* The variables keep their types.
THEOREM TypeCorrect == Spec => []TypeOK
<1>1. IInv => TypeOK
  BY DEF IInv
<1> QED
  BY Invariance, <1>1, PTL

\* Whatever calls overlap, goods leave the shop only for a whole and final transfer.
THEOREM PaidCorrect == Spec => []CompletedIsPaid
<1>1. IInv => CompletedIsPaid
  BY DEF IInv
<1> QED
  BY Invariance, <1>1, PTL

\* An expired payment never keeps its lines.
THEOREM ExpiryCorrect == Spec => []ExpiredFreesStock
<1>1. IInv => ExpiredFreesStock
  BY DEF IInv
<1> QED
  BY Invariance, <1>1, PTL

\* The buyer's lines are held until the payment's deadline, unless a sweep that had counted
\* them before the deadline moved takes them.
THEOREM HoldCorrect == Spec => []StockWaitsForPayer
<1>1. IInv => StockWaitsForPayer
  BY DEF IInv
<1> QED
  BY Invariance, <1>1, PTL

-------------------------------------------------------------------------------
(* Without failures, and with explorers that list what they count, nobody loses *)
(* sight of a detected payment.                                                 *)

\* The hash is stored with the detection and never lost, so that a queued check does
\* not drop the payment.
Watch ==
    /\ payment \in {"PAID", "CONFIRMING"} => txHash /\ Watched
    /\ \A p \in Proc : proc[p].at = "paid" => proc[p].n = 1
    /\ \A p \in Proc : proc[p].at \in {"depth", "count"} => txHash

\* Every step keeps a detected payment watched.
LEMMA WatchStep ==
    ASSUME MaxFaults = 0, TxUnlisted = FALSE, TypeOK, Watch, [Next]_vars
    PROVE  Watch'
<1> USE DEF Watch, Watched, TypeOK, DataOK, Calls, JobName, goods, payVars, world, Begin, Goto, Return, Enqueue, Dequeue, Rest
<1>1. ASSUME NEW p \in Proc, CreateCheck(p) PROVE Watch'
  BY <1>1 DEF CreateCheck
<1>2. ASSUME NEW p \in Proc, CreateRow(p) PROVE Watch'
  BY <1>2 DEF CreateRow
<1>3. ASSUME NEW p \in Proc, CreateConflict(p) PROVE Watch'
  BY <1>3 DEF CreateConflict
<1>4. ASSUME NEW p \in Proc, SyncReservation(p) PROVE Watch'
  BY <1>4 DEF SyncReservation
<1>5. ASSUME NEW p \in Proc, QueueVerify(p) PROVE Watch'
  BY <1>5 DEF QueueVerify
<1>6. ASSUME NEW p \in Proc, StartVerify(p) PROVE Watch'
  BY <1>6 DEF StartVerify
<1>7. ASSUME NEW p \in Proc, StartPendingCron(p) PROVE Watch'
  BY <1>7 DEF StartPendingCron
<1>8. ASSUME NEW p \in Proc, ReadPayment(p) PROVE Watch'
  BY <1>8 DEF ReadPayment
<1>9. ASSUME NEW p \in Proc, Poll(p) PROVE Watch'
  BY <1>9 DEF Poll
<1>10. ASSUME NEW p \in Proc, WritePaid(p) PROVE Watch'
  BY <1>10 DEF WritePaid
<1>11. ASSUME NEW p \in Proc, QueueCheck(p) PROVE Watch'
  BY <1>11 DEF QueueCheck
<1>12. ASSUME NEW p \in Proc, StartExpiry(p) PROVE Watch'
  BY <1>12 DEF StartExpiry
<1>13. ASSUME NEW p \in Proc, ExpireRead(p) PROVE Watch'
  BY <1>13 DEF ExpireRead
<1>14. ASSUME NEW p \in Proc, ExpireCommit(p) PROVE Watch'
  BY <1>14 DEF ExpireCommit
<1>15. ASSUME NEW p \in Proc, StartCheck(p) PROVE Watch'
  BY <1>15 DEF StartCheck
<1>16. ASSUME NEW p \in Proc, ReadDepth(p) PROVE Watch'
  BY <1>16 DEF ReadDepth
<1>17. ASSUME NEW p \in Proc, WriteConfirmations(p) PROVE Watch'
  BY <1>17 DEF WriteConfirmations
<1>18. ASSUME NEW p \in Proc, Requeue(p) PROVE Watch'
  BY <1>18 DEF Requeue
<1>19. ASSUME NEW p \in Proc, ConfirmCommit(p) PROVE Watch'
  BY <1>19 DEF ConfirmCommit
<1>20. ASSUME NEW p \in Proc, DeliverCheck(p) PROVE Watch'
  BY <1>20 DEF DeliverCheck, AfterDelivery
<1>31. ASSUME NEW p \in Proc, ReadSoldLines(p) PROVE Watch'
  BY <1>31 DEF ReadSoldLines
<1>32. ASSUME NEW p \in Proc, HandOver(p) PROVE Watch'
  BY <1>32 DEF HandOver, AfterDelivery
<1>21. ASSUME NEW p \in Proc, QueueForward(p) PROVE Watch'
  BY <1>21 DEF QueueForward
<1>22. ASSUME NEW p \in Proc, Fail(p) PROVE Watch'
  BY <1>22 DEF Fail, AfterDelivery
<1>23. ASSUME NEW p \in Proc, Crash(p) PROVE Watch'
  BY <1>23 DEF Crash
<1>24. ASSUME SweepCount PROVE Watch'
  BY <1>24 DEF SweepCount
<1>33. ASSUME SweepRelease PROVE Watch'
  BY <1>33 DEF SweepRelease
<1>34. ASSUME SweepAbort PROVE Watch'
  BY <1>34 DEF SweepAbort
<1>25. ASSUME NEW f \in {"short", "split", "enough"}, Transfer(f) PROVE Watch'
  BY <1>25 DEF Transfer
<1>26. ASSUME Mine PROVE Watch'
  BY <1>26 DEF Mine
<1>27. ASSUME Reorganise PROVE Watch'
  BY <1>27 DEF Reorganise
<1>28. ASSUME ClockTick PROVE Watch'
  BY <1>28 DEF ClockTick
<1>29. ASSUME DefaultDeadlinePasses PROVE Watch'
  BY <1>29 DEF DefaultDeadlinePasses
<1>30. CASE UNCHANGED vars
  BY <1>30 DEF vars
<1> QED
  BY <1>1, <1>2, <1>3, <1>4, <1>5, <1>6, <1>7, <1>8, <1>9, <1>10, <1>11, <1>12, <1>13, <1>14, <1>15, <1>16, <1>17, <1>18, <1>19, <1>20, <1>21, <1>22, <1>23, <1>24, <1>25, <1>26, <1>27, <1>28, <1>29, <1>30, <1>31, <1>32, <1>33, <1>34
  DEF Next, Start, Continue, CreateStep, VerifyStep, ConfirmStep, SweepStep, Environment

\* For any number of overlapping calls and of confirmations, a payment that was
\* detected is watched until it is confirmed.
THEOREM WatchCorrect ==
    ASSUME MaxFaults = 0, TxUnlisted = FALSE
    PROVE  Spec => []DetectedIsWatched
<1>1. Init => Watch
  BY DEF Init, Watch, Rest
<1>2. TypeOK /\ Watch /\ [Next]_vars => Watch'
  BY WatchStep
<1>3. Watch => DetectedIsWatched
  BY DEF Watch, DetectedIsWatched
<1> QED
  BY TypeCorrect, <1>1, <1>2, <1>3, PTL DEF Spec

===============================================================================
