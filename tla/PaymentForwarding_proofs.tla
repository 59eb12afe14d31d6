------------------------ MODULE PaymentForwarding_proofs ------------------------
(* Proofs about PaymentForwarding, for any number of overlapping calls, retries, *)
(* confirmations and faults, with or without gas and an admin.                   *)
EXTENDS PaymentForwarding, TLAPS

Paid == order = "COMPLETED" /\ funds = "enough" /\ depth = Required

\* What the calls saw on the chain stays true.
ChainRecord ==
    /\ depth > 0 => funds = "enough"
    /\ \A p \in Proc : (proc[p].at = "count" /\ proc[p].n = Required) => depth = Required
    /\ \A p \in Proc : proc[p].at = "confirm" => depth = Required

\* Only a confirmation writes CONFIRMED, and a forward goes on only from there: a call
\* that is past the first test may forward, whatever the status has become.
ForwardsArePaid ==
    /\ payment \in {"CONFIRMED", "FORWARDING", "FORWARDED"} => Paid
    /\ \A p \in Proc :
          proc[p].at \in {"fwdMark", "fwdGas", "recordTopUp", "send", "recordForward"} => Paid
    /\ \A p \in Proc : proc[p].at = "recordForward" => swept

IInv ==
    /\ FwdTypeOK
    /\ ChainRecord
    /\ ForwardsArePaid
    /\ ForwardedIsPaid
    /\ ForwardedIsSwept

USE RequiredAssumption, FaultsAssumption, AttemptsAssumption, NeedsGasAssumption

LEMMA InitIInv == FwdInit => IInv
<1> SUFFICES ASSUME FwdInit PROVE IInv
  OBVIOUS
<1> USE DEF FwdInit, Init
<1>1. FwdTypeOK
  <2>1. order \in OrderStatus /\ payment \in PaymentStatus \cup {"NONE"}
    BY DEF OrderStatus, PaymentStatus
  <2>2. jobs \in [JobName -> Nat]
    OBVIOUS
  <2>3. proc \in [Proc -> [at : Steps \cup ForwardSteps, job : JobName \cup {"none"}, n : 0..Required]]
    BY DEF Rest, Steps
  <2>4. depth \in 0..Required /\ faults \in 0..MaxFaults /\ attempts \in 0..MaxAttempts
    OBVIOUS
  <2>5. DataOK
    BY <2>1, <2>2, <2>4 DEF DataOK
  <2>6. swept \in BOOLEAN /\ gasTopUpTxHash \in BOOLEAN
    OBVIOUS
  <2>7. gas \in {"missing", "sent", "there"}
    OBVIOUS
  <2> QED BY <2>3, <2>4, <2>5, <2>6, <2>7 DEF FwdTypeOK
<1>2. ChainRecord /\ ForwardsArePaid
  BY DEF ChainRecord, ForwardsArePaid, Rest
<1>3. ForwardedIsPaid /\ ForwardedIsSwept
  BY DEF ForwardedIsPaid, ForwardedIsSwept
<1> QED
  BY <1>1, <1>2, <1>3 DEF IInv

-------------------------------------------------------------------------------
\* Every step keeps the variables in their types.
LEMMA TypeStep == IInv /\ [FwdNext]_allVars => FwdTypeOK'
<1> SUFFICES ASSUME IInv, [FwdNext]_allVars PROVE FwdTypeOK'
  OBVIOUS
<1> USE DEF IInv, FwdTypeOK, DataOK, Steps, ForwardSteps, JobName, OrderStatus, PaymentStatus, goods, payVars, world, fwdVars, Begin, Goto, Return, Enqueue, Dequeue, Rest, ReleasedHold
<1>1. ASSUME NEW p \in Proc, CreateCheck(p), UNCHANGED fwdVars PROVE FwdTypeOK'
  BY <1>1 DEF CreateCheck
<1>2. ASSUME NEW p \in Proc, CreateRow(p), UNCHANGED fwdVars PROVE FwdTypeOK'
  BY <1>2 DEF CreateRow
<1>3. ASSUME NEW p \in Proc, CreateConflict(p), UNCHANGED fwdVars PROVE FwdTypeOK'
  BY <1>3 DEF CreateConflict
<1>4. ASSUME NEW p \in Proc, SyncReservation(p), UNCHANGED fwdVars PROVE FwdTypeOK'
  BY <1>4 DEF SyncReservation
<1>5. ASSUME NEW p \in Proc, QueueVerify(p), UNCHANGED fwdVars PROVE FwdTypeOK'
  BY <1>5 DEF QueueVerify
<1>6. ASSUME NEW p \in Proc, StartVerify(p), UNCHANGED fwdVars PROVE FwdTypeOK'
  BY <1>6 DEF StartVerify
<1>7. ASSUME NEW p \in Proc, StartPendingCron(p), UNCHANGED fwdVars PROVE FwdTypeOK'
  BY <1>7 DEF StartPendingCron
<1>8. ASSUME NEW p \in Proc, ReadPayment(p), UNCHANGED fwdVars PROVE FwdTypeOK'
  BY <1>8 DEF ReadPayment
<1>9. ASSUME NEW p \in Proc, Poll(p), UNCHANGED fwdVars PROVE FwdTypeOK'
  BY <1>9 DEF Poll
<1>10. ASSUME NEW p \in Proc, WritePaid(p), UNCHANGED fwdVars PROVE FwdTypeOK'
  BY <1>10 DEF WritePaid
<1>11. ASSUME NEW p \in Proc, QueueCheck(p), UNCHANGED fwdVars PROVE FwdTypeOK'
  BY <1>11 DEF QueueCheck
<1>12. ASSUME NEW p \in Proc, StartExpiry(p), UNCHANGED fwdVars PROVE FwdTypeOK'
  BY <1>12 DEF StartExpiry
<1>13. ASSUME NEW p \in Proc, ExpireRead(p), UNCHANGED fwdVars PROVE FwdTypeOK'
  BY <1>13 DEF ExpireRead
<1>14. ASSUME NEW p \in Proc, ExpireCommit(p), UNCHANGED fwdVars PROVE FwdTypeOK'
  BY <1>14 DEF ExpireCommit
<1>15. ASSUME NEW p \in Proc, StartCheck(p), UNCHANGED fwdVars PROVE FwdTypeOK'
  BY <1>15 DEF StartCheck
<1>16. ASSUME NEW p \in Proc, ReadDepth(p), UNCHANGED fwdVars PROVE FwdTypeOK'
  BY <1>16 DEF ReadDepth
<1>17. ASSUME NEW p \in Proc, WriteConfirmations(p), UNCHANGED fwdVars PROVE FwdTypeOK'
  BY <1>17 DEF WriteConfirmations
<1>18. ASSUME NEW p \in Proc, Requeue(p), UNCHANGED fwdVars PROVE FwdTypeOK'
  BY <1>18 DEF Requeue
<1>19. ASSUME NEW p \in Proc, ConfirmCommit(p), UNCHANGED fwdVars PROVE FwdTypeOK'
  BY <1>19 DEF ConfirmCommit
<1>20. ASSUME NEW p \in Proc, DeliverCheck(p), UNCHANGED fwdVars PROVE FwdTypeOK'
  BY <1>20 DEF DeliverCheck, AfterDelivery
<1>21. ASSUME NEW p \in Proc, ReadSoldLines(p), UNCHANGED fwdVars PROVE FwdTypeOK'
  BY <1>21 DEF ReadSoldLines
<1>22. ASSUME NEW p \in Proc, HandOver(p), UNCHANGED fwdVars PROVE FwdTypeOK'
  BY <1>22 DEF HandOver, AfterDelivery
<1>23. ASSUME NEW p \in Proc, QueueForward(p), UNCHANGED fwdVars PROVE FwdTypeOK'
  BY <1>23 DEF QueueForward
<1>24. ASSUME NEW p \in Proc, Fail(p), UNCHANGED fwdVars PROVE FwdTypeOK'
  BY <1>24 DEF Fail, AfterDelivery, DeliverySteps
<1>25. ASSUME NEW p \in Proc, Crash(p), UNCHANGED fwdVars PROVE FwdTypeOK'
  BY <1>25 DEF Crash
<1>26. ASSUME SweepCount, UNCHANGED fwdVars PROVE FwdTypeOK'
  BY <1>26 DEF SweepCount
<1>45. ASSUME SweepRelease, UNCHANGED fwdVars PROVE FwdTypeOK'
  BY <1>45 DEF SweepRelease
<1>46. ASSUME SweepAbort, UNCHANGED fwdVars PROVE FwdTypeOK'
  BY <1>46 DEF SweepAbort
<1>27. ASSUME NEW f \in {"short", "split", "enough"}, Transfer(f), UNCHANGED fwdVars PROVE FwdTypeOK'
  BY <1>27 DEF Transfer
<1>28. ASSUME Mine, UNCHANGED fwdVars PROVE FwdTypeOK'
  BY <1>28 DEF Mine
<1>29. ASSUME Reorganise, UNCHANGED fwdVars PROVE FwdTypeOK'
  BY <1>29 DEF Reorganise
<1>30. ASSUME ClockTick, UNCHANGED fwdVars PROVE FwdTypeOK'
  BY <1>30 DEF ClockTick
<1>31. ASSUME DefaultDeadlinePasses, UNCHANGED fwdVars PROVE FwdTypeOK'
  BY <1>31 DEF DefaultDeadlinePasses
<1>32. ASSUME NEW p \in Proc, StartForward(p) PROVE FwdTypeOK'
  BY <1>32 DEF StartForward
<1>33. ASSUME NEW p \in Proc, StartAdminForward(p) PROVE FwdTypeOK'
  BY <1>33 DEF StartAdminForward
<1>34. ASSUME NEW p \in Proc, FwdRead(p) PROVE FwdTypeOK'
  BY <1>34 DEF FwdRead
<1>35. ASSUME NEW p \in Proc, FwdMark(p) PROVE FwdTypeOK'
  BY <1>35 DEF FwdMark
<1>36. ASSUME NEW p \in Proc, FwdGas(p) PROVE FwdTypeOK'
  BY <1>36 DEF FwdGas
<1>37. ASSUME NEW p \in Proc, RecordTopUp(p) PROVE FwdTypeOK'
  BY <1>37 DEF RecordTopUp
<1>38. ASSUME NEW p \in Proc, Send(p) PROVE FwdTypeOK'
  BY <1>38 DEF Send
<1>39. ASSUME NEW p \in Proc, RecordForward(p) PROVE FwdTypeOK'
  BY <1>39 DEF RecordForward
<1>40. ASSUME NEW p \in Proc, FwdFail(p) PROVE FwdTypeOK'
  BY <1>40 DEF FwdFail
<1>41. ASSUME NEW p \in Proc, FwdRetry(p) PROVE FwdTypeOK'
  BY <1>41 DEF FwdRetry
<1>42. ASSUME NEW p \in Proc, FwdFault(p) PROVE FwdTypeOK'
  BY <1>42 DEF FwdFault, ForwardSteps
<1>43. ASSUME GasArrives PROVE FwdTypeOK'
  BY <1>43 DEF GasArrives, vars
<1>44. CASE UNCHANGED allVars
  BY <1>44 DEF allVars, vars
<1> QED
  BY <1>1, <1>2, <1>3, <1>4, <1>5, <1>6, <1>7, <1>8, <1>9, <1>10, <1>11, <1>12, <1>13, <1>14,
     <1>15, <1>16, <1>17, <1>18, <1>19, <1>20, <1>21, <1>22, <1>23, <1>24, <1>25, <1>26, <1>27, <1>28,
     <1>29, <1>30, <1>31, <1>32, <1>33, <1>34, <1>35, <1>36, <1>37, <1>38, <1>39, <1>40, <1>41, <1>42,
     <1>43, <1>44, <1>45, <1>46
  DEF FwdNext, PaymentStep, ForwardStep, Start, Continue, CreateStep, VerifyStep, ConfirmStep,
      SweepStep, Environment

\* A call that counted every confirmation saw a transfer that is final.
LEMMA CountedAll ==
    ASSUME FwdTypeOK, ChainRecord, NEW p \in Proc, proc[p].at = "count", proc[p].n >= Required
    PROVE  depth = Required
<1>1. proc[p].n \in 0 .. Required
  BY DEF FwdTypeOK, Calls
<1>2. proc[p].n = Required
  BY <1>1
<1> QED
  BY <1>2 DEF ChainRecord

\* Only what is paid is forwarded, and only what left is called forwarded.
LEMMA ForwardStepInv == IInv /\ [FwdNext]_allVars => (ChainRecord /\ ForwardsArePaid /\ ForwardedIsPaid /\ ForwardedIsSwept)'
<1> SUFFICES ASSUME IInv, [FwdNext]_allVars PROVE (ChainRecord /\ ForwardsArePaid /\ ForwardedIsPaid /\ ForwardedIsSwept)'
  OBVIOUS
<1> USE DEF IInv, FwdTypeOK, DataOK, ChainRecord, ForwardsArePaid, ForwardedIsPaid, ForwardedIsSwept, Paid, goods, payVars, world, fwdVars, Begin, Goto, Return, Enqueue, Dequeue, Rest, ReleasedHold
<1>1. ASSUME NEW p \in Proc, CreateCheck(p), UNCHANGED fwdVars PROVE (ChainRecord /\ ForwardsArePaid /\ ForwardedIsPaid /\ ForwardedIsSwept)'
  BY <1>1 DEF CreateCheck
<1>2. ASSUME NEW p \in Proc, CreateRow(p), UNCHANGED fwdVars PROVE (ChainRecord /\ ForwardsArePaid /\ ForwardedIsPaid /\ ForwardedIsSwept)'
  BY <1>2 DEF CreateRow
<1>3. ASSUME NEW p \in Proc, CreateConflict(p), UNCHANGED fwdVars PROVE (ChainRecord /\ ForwardsArePaid /\ ForwardedIsPaid /\ ForwardedIsSwept)'
  BY <1>3 DEF CreateConflict
<1>4. ASSUME NEW p \in Proc, SyncReservation(p), UNCHANGED fwdVars PROVE (ChainRecord /\ ForwardsArePaid /\ ForwardedIsPaid /\ ForwardedIsSwept)'
  BY <1>4 DEF SyncReservation
<1>5. ASSUME NEW p \in Proc, QueueVerify(p), UNCHANGED fwdVars PROVE (ChainRecord /\ ForwardsArePaid /\ ForwardedIsPaid /\ ForwardedIsSwept)'
  BY <1>5 DEF QueueVerify
<1>6. ASSUME NEW p \in Proc, StartVerify(p), UNCHANGED fwdVars PROVE (ChainRecord /\ ForwardsArePaid /\ ForwardedIsPaid /\ ForwardedIsSwept)'
  BY <1>6 DEF StartVerify
<1>7. ASSUME NEW p \in Proc, StartPendingCron(p), UNCHANGED fwdVars PROVE (ChainRecord /\ ForwardsArePaid /\ ForwardedIsPaid /\ ForwardedIsSwept)'
  BY <1>7 DEF StartPendingCron
<1>8. ASSUME NEW p \in Proc, ReadPayment(p), UNCHANGED fwdVars PROVE (ChainRecord /\ ForwardsArePaid /\ ForwardedIsPaid /\ ForwardedIsSwept)'
  BY <1>8 DEF ReadPayment
<1>9. ASSUME NEW p \in Proc, Poll(p), UNCHANGED fwdVars PROVE (ChainRecord /\ ForwardsArePaid /\ ForwardedIsPaid /\ ForwardedIsSwept)'
  BY <1>9 DEF Poll
<1>10. ASSUME NEW p \in Proc, WritePaid(p), UNCHANGED fwdVars PROVE (ChainRecord /\ ForwardsArePaid /\ ForwardedIsPaid /\ ForwardedIsSwept)'
  BY <1>10 DEF WritePaid
<1>11. ASSUME NEW p \in Proc, QueueCheck(p), UNCHANGED fwdVars PROVE (ChainRecord /\ ForwardsArePaid /\ ForwardedIsPaid /\ ForwardedIsSwept)'
  BY <1>11 DEF QueueCheck
<1>12. ASSUME NEW p \in Proc, StartExpiry(p), UNCHANGED fwdVars PROVE (ChainRecord /\ ForwardsArePaid /\ ForwardedIsPaid /\ ForwardedIsSwept)'
  BY <1>12 DEF StartExpiry
<1>13. ASSUME NEW p \in Proc, ExpireRead(p), UNCHANGED fwdVars PROVE (ChainRecord /\ ForwardsArePaid /\ ForwardedIsPaid /\ ForwardedIsSwept)'
  BY <1>13 DEF ExpireRead
<1>14. ASSUME NEW p \in Proc, ExpireCommit(p), UNCHANGED fwdVars PROVE (ChainRecord /\ ForwardsArePaid /\ ForwardedIsPaid /\ ForwardedIsSwept)'
  BY <1>14 DEF ExpireCommit
<1>15. ASSUME NEW p \in Proc, StartCheck(p), UNCHANGED fwdVars PROVE (ChainRecord /\ ForwardsArePaid /\ ForwardedIsPaid /\ ForwardedIsSwept)'
  BY <1>15 DEF StartCheck
<1>16. ASSUME NEW p \in Proc, ReadDepth(p), UNCHANGED fwdVars PROVE (ChainRecord /\ ForwardsArePaid /\ ForwardedIsPaid /\ ForwardedIsSwept)'
  BY <1>16 DEF ReadDepth
<1>17. ASSUME NEW p \in Proc, WriteConfirmations(p), UNCHANGED fwdVars PROVE (ChainRecord /\ ForwardsArePaid /\ ForwardedIsPaid /\ ForwardedIsSwept)'
  <2>1. depth' = depth /\ funds' = funds
    BY <1>17 DEF WriteConfirmations
  <2>2. proc[p].at = "count" /\ proc[p].n \in 0..Required
    BY <1>17 DEF WriteConfirmations
  <2>3. proc[p].n >= Required => depth = Required
    BY <2>2, CountedAll
  <2>4. \A q \in Proc : proc'[q].at = "confirm" => depth' = Required
    <3> DEFINE at == IF proc[p].n >= Required THEN "confirm" ELSE "requeue"
    <3>1. proc'[p].at = at
      BY <1>17 DEF WriteConfirmations
    <3>2. proc'[p].at = "confirm" => depth' = Required
      BY <2>1, <2>3, <3>1
    <3>3. \A q \in Proc \ {p} : proc'[q] = proc[q]
      BY <1>17 DEF WriteConfirmations
    <3> QED BY <2>1, <3>2, <3>3
  <2> QED BY <1>17, <2>1, <2>4 DEF WriteConfirmations
<1>18. ASSUME NEW p \in Proc, Requeue(p), UNCHANGED fwdVars PROVE (ChainRecord /\ ForwardsArePaid /\ ForwardedIsPaid /\ ForwardedIsSwept)'
  BY <1>18 DEF Requeue
<1>19. ASSUME NEW p \in Proc, ConfirmCommit(p), UNCHANGED fwdVars PROVE (ChainRecord /\ ForwardsArePaid /\ ForwardedIsPaid /\ ForwardedIsSwept)'
  BY <1>19 DEF ConfirmCommit
<1>20. ASSUME NEW p \in Proc, DeliverCheck(p), UNCHANGED fwdVars PROVE (ChainRecord /\ ForwardsArePaid /\ ForwardedIsPaid /\ ForwardedIsSwept)'
  BY <1>20 DEF DeliverCheck, AfterDelivery
<1>21. ASSUME NEW p \in Proc, ReadSoldLines(p), UNCHANGED fwdVars PROVE (ChainRecord /\ ForwardsArePaid /\ ForwardedIsPaid /\ ForwardedIsSwept)'
  BY <1>21 DEF ReadSoldLines
<1>22. ASSUME NEW p \in Proc, HandOver(p), UNCHANGED fwdVars PROVE (ChainRecord /\ ForwardsArePaid /\ ForwardedIsPaid /\ ForwardedIsSwept)'
  BY <1>22 DEF HandOver, AfterDelivery
<1>23. ASSUME NEW p \in Proc, QueueForward(p), UNCHANGED fwdVars PROVE (ChainRecord /\ ForwardsArePaid /\ ForwardedIsPaid /\ ForwardedIsSwept)'
  BY <1>23 DEF QueueForward
<1>24. ASSUME NEW p \in Proc, Fail(p), UNCHANGED fwdVars PROVE (ChainRecord /\ ForwardsArePaid /\ ForwardedIsPaid /\ ForwardedIsSwept)'
  BY <1>24 DEF Fail, AfterDelivery, DeliverySteps
<1>25. ASSUME NEW p \in Proc, Crash(p), UNCHANGED fwdVars PROVE (ChainRecord /\ ForwardsArePaid /\ ForwardedIsPaid /\ ForwardedIsSwept)'
  BY <1>25 DEF Crash
<1>26. ASSUME SweepCount, UNCHANGED fwdVars PROVE (ChainRecord /\ ForwardsArePaid /\ ForwardedIsPaid /\ ForwardedIsSwept)'
  BY <1>26 DEF SweepCount
<1>45. ASSUME SweepRelease, UNCHANGED fwdVars PROVE (ChainRecord /\ ForwardsArePaid /\ ForwardedIsPaid /\ ForwardedIsSwept)'
  BY <1>45 DEF SweepRelease
<1>46. ASSUME SweepAbort, UNCHANGED fwdVars PROVE (ChainRecord /\ ForwardsArePaid /\ ForwardedIsPaid /\ ForwardedIsSwept)'
  BY <1>46 DEF SweepAbort
<1>27. ASSUME NEW f \in {"short", "split", "enough"}, Transfer(f), UNCHANGED fwdVars PROVE (ChainRecord /\ ForwardsArePaid /\ ForwardedIsPaid /\ ForwardedIsSwept)'
  BY <1>27 DEF Transfer
<1>28. ASSUME Mine, UNCHANGED fwdVars PROVE (ChainRecord /\ ForwardsArePaid /\ ForwardedIsPaid /\ ForwardedIsSwept)'
  BY <1>28 DEF Mine
<1>29. ASSUME Reorganise, UNCHANGED fwdVars PROVE (ChainRecord /\ ForwardsArePaid /\ ForwardedIsPaid /\ ForwardedIsSwept)'
  BY <1>29 DEF Reorganise
<1>30. ASSUME ClockTick, UNCHANGED fwdVars PROVE (ChainRecord /\ ForwardsArePaid /\ ForwardedIsPaid /\ ForwardedIsSwept)'
  BY <1>30 DEF ClockTick
<1>31. ASSUME DefaultDeadlinePasses, UNCHANGED fwdVars PROVE (ChainRecord /\ ForwardsArePaid /\ ForwardedIsPaid /\ ForwardedIsSwept)'
  BY <1>31 DEF DefaultDeadlinePasses
<1>32. ASSUME NEW p \in Proc, StartForward(p) PROVE (ChainRecord /\ ForwardsArePaid /\ ForwardedIsPaid /\ ForwardedIsSwept)'
  BY <1>32 DEF StartForward
<1>33. ASSUME NEW p \in Proc, StartAdminForward(p) PROVE (ChainRecord /\ ForwardsArePaid /\ ForwardedIsPaid /\ ForwardedIsSwept)'
  BY <1>33 DEF StartAdminForward
<1>34. ASSUME NEW p \in Proc, FwdRead(p) PROVE (ChainRecord /\ ForwardsArePaid /\ ForwardedIsPaid /\ ForwardedIsSwept)'
  BY <1>34 DEF FwdRead
<1>35. ASSUME NEW p \in Proc, FwdMark(p) PROVE (ChainRecord /\ ForwardsArePaid /\ ForwardedIsPaid /\ ForwardedIsSwept)'
  BY <1>35 DEF FwdMark
<1>36. ASSUME NEW p \in Proc, FwdGas(p) PROVE (ChainRecord /\ ForwardsArePaid /\ ForwardedIsPaid /\ ForwardedIsSwept)'
  BY <1>36 DEF FwdGas
<1>37. ASSUME NEW p \in Proc, RecordTopUp(p) PROVE (ChainRecord /\ ForwardsArePaid /\ ForwardedIsPaid /\ ForwardedIsSwept)'
  BY <1>37 DEF RecordTopUp
<1>38. ASSUME NEW p \in Proc, Send(p) PROVE (ChainRecord /\ ForwardsArePaid /\ ForwardedIsPaid /\ ForwardedIsSwept)'
  BY <1>38 DEF Send
<1>39. ASSUME NEW p \in Proc, RecordForward(p) PROVE (ChainRecord /\ ForwardsArePaid /\ ForwardedIsPaid /\ ForwardedIsSwept)'
  BY <1>39 DEF RecordForward
<1>40. ASSUME NEW p \in Proc, FwdFail(p) PROVE (ChainRecord /\ ForwardsArePaid /\ ForwardedIsPaid /\ ForwardedIsSwept)'
  BY <1>40 DEF FwdFail
<1>41. ASSUME NEW p \in Proc, FwdRetry(p) PROVE (ChainRecord /\ ForwardsArePaid /\ ForwardedIsPaid /\ ForwardedIsSwept)'
  BY <1>41 DEF FwdRetry
<1>42. ASSUME NEW p \in Proc, FwdFault(p) PROVE (ChainRecord /\ ForwardsArePaid /\ ForwardedIsPaid /\ ForwardedIsSwept)'
  BY <1>42 DEF FwdFault, ForwardSteps
<1>43. ASSUME GasArrives PROVE (ChainRecord /\ ForwardsArePaid /\ ForwardedIsPaid /\ ForwardedIsSwept)'
  BY <1>43 DEF GasArrives, vars
<1>44. CASE UNCHANGED allVars
  BY <1>44 DEF allVars, vars
<1> QED
  BY <1>1, <1>2, <1>3, <1>4, <1>5, <1>6, <1>7, <1>8, <1>9, <1>10, <1>11, <1>12, <1>13, <1>14,
     <1>15, <1>16, <1>17, <1>18, <1>19, <1>20, <1>21, <1>22, <1>23, <1>24, <1>25, <1>26, <1>27, <1>28,
     <1>29, <1>30, <1>31, <1>32, <1>33, <1>34, <1>35, <1>36, <1>37, <1>38, <1>39, <1>40, <1>41, <1>42,
     <1>43, <1>44, <1>45, <1>46
  DEF FwdNext, PaymentStep, ForwardStep, Start, Continue, CreateStep, VerifyStep, ConfirmStep,
      SweepStep, Environment

-------------------------------------------------------------------------------
\* The inductive invariant holds in every reachable state.
THEOREM Invariance == FwdSpec => []IInv
<1>1. IInv /\ [FwdNext]_allVars => IInv'
  BY TypeStep, ForwardStepInv DEF IInv
<1> QED
  BY InitIInv, <1>1, PTL DEF FwdSpec

\* The variables keep their types.
THEOREM FwdTypeCorrect == FwdSpec => []FwdTypeOK
<1>1. IInv => FwdTypeOK
  BY DEF IInv
<1> QED
  BY Invariance, <1>1, PTL

\* Whatever jobs, retries and admin requests overlap or fail, coins leave only for a
\* payment that is final, of an order that is completed.
THEOREM ForwardPaidCorrect == FwdSpec => []ForwardedIsPaid
<1>1. IInv => ForwardedIsPaid
  BY DEF IInv
<1> QED
  BY Invariance, <1>1, PTL

\* The payment never claims a forward that did not happen.
THEOREM ForwardSweptCorrect == FwdSpec => []ForwardedIsSwept
<1>1. IInv => ForwardedIsSwept
  BY DEF IInv
<1> QED
  BY Invariance, <1>1, PTL

===============================================================================
