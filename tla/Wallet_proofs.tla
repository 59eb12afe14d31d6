----------------------------- MODULE Wallet_proofs -----------------------------
(* Proofs about Wallet, for any sums of money, any number of overlapping calls *)
(* and balance changes, and any number of faults.                              *)
EXTENDS Wallet, TLAPS

\* A call about to write a balance computed it from one that was funded when it read
\* it, and credits never shrink; what it adds is counted with the write.
WritesAreFunded ==
    \A p \in Proc : proc[p].at = "write" =>
        proc[p].n <= credits + (IF proc[p].delta > 0 THEN proc[p].delta ELSE 0)

\* The calls that will credit the top-up, or mark it credited.
Crediting(p) ==
    \/ proc[p].at \in {"confirm", "credit", "wallet", "mark"}
    \/ proc[p].at \in {"write", "row"} /\ proc[p].job = "check"

\* They counted every confirmation, and a final transfer stays final.
CreditingSawFinal ==
    /\ depth > 0 => funds = "enough"
    /\ \A p \in Proc : (proc[p].at = "count" /\ proc[p].n >= Required) => depth = Required
    /\ \A p \in Proc : Crediting(p) => depth = Required

IInv ==
    /\ TypeOK
    /\ BalanceIsFunded
    /\ WritesAreFunded
    /\ CreditingSawFinal
    /\ CreditIsPaid

USE AmountsAssumption, TopUpAssumption, RequiredAssumption, BoundAssumption

LEMMA InitIInv == Init => IInv
<1> SUFFICES ASSUME Init PROVE IInv
  OBVIOUS
<1>1. TypeOK
  <2>1. Rest \in Calls
    BY DEF Rest, Calls, Steps
  <2>2. jobs \in [JobName -> Nat] /\ proc \in [Proc -> Calls]
    BY <2>1 DEF Init
  <2>3. depth \in 0..Required /\ faults \in 0..MaxFaults /\ changes \in 0..MaxChanges
    BY DEF Init
  <2>4. topUp \in TopUpStatus /\ txHash \in BOOLEAN /\ creditedAt \in BOOLEAN
    BY DEF Init, TopUpStatus
  <2>5. balance \in Nat /\ recorded \in Int /\ credits \in Nat /\ topUpCredits \in Nat
    BY DEF Init
  <2>6. clock \in {"active", "grace", "past"} /\ funds \in {"none", "short", "split", "enough"}
    BY DEF Init
  <2> QED BY <2>2, <2>3, <2>4, <2>5, <2>6 DEF TypeOK
<1>2. WritesAreFunded /\ CreditingSawFinal
  BY DEF Init, WritesAreFunded, CreditingSawFinal, Crediting, Rest
<1>3. BalanceIsFunded /\ CreditIsPaid
  BY DEF Init, BalanceIsFunded, CreditIsPaid
<1> QED
  BY <1>1, <1>2, <1>3 DEF IInv

-------------------------------------------------------------------------------
\* Every step keeps the variables in their types; a balance is natural because a call
\* tests what it is about to write.
LEMMA TypeStep == TypeOK /\ [Next]_vars => TypeOK'
<1> SUFFICES ASSUME TypeOK, [Next]_vars PROVE TypeOK'
  OBVIOUS
<1> USE DEF TypeOK, Calls, Steps, JobName, TopUpStatus, money, topUpVars, world, Begin, Call, Goto, Return, Enqueue, Dequeue, Rest
<1>1. ASSUME NEW p \in Proc, NEW a \in Amounts, AddBalance(p, a) PROVE TypeOK'
  BY <1>1 DEF AddBalance, ReadWallet
<1>2. ASSUME NEW p \in Proc, NEW a \in Amounts, RefundBalance(p, a) PROVE TypeOK'
  BY <1>2 DEF RefundBalance, ReadWallet
<1>3. ASSUME NEW p \in Proc, NEW a \in Amounts, DeductBalance(p, a) PROVE TypeOK'
  BY <1>3 DEF DeductBalance, ReadWallet
<1>4. ASSUME NEW p \in Proc, NEW d \in Int, AdjustBalance(p, d) PROVE TypeOK'
  BY <1>4 DEF AdjustBalance, ReadWallet
<1>5. ASSUME NEW p \in Proc, CreateTopUp(p) PROVE TypeOK'
  BY <1>5 DEF CreateTopUp
<1>6. ASSUME NEW p \in Proc, QueueVerify(p) PROVE TypeOK'
  BY <1>6 DEF QueueVerify
<1>7. ASSUME NEW p \in Proc, StartVerify(p) PROVE TypeOK'
  BY <1>7 DEF StartVerify
<1>8. ASSUME NEW p \in Proc, StartPendingCron(p) PROVE TypeOK'
  BY <1>8 DEF StartPendingCron
<1>9. ASSUME NEW p \in Proc, ReadTopUp(p) PROVE TypeOK'
  BY <1>9 DEF ReadTopUp
<1>10. ASSUME NEW p \in Proc, Poll(p) PROVE TypeOK'
  BY <1>10 DEF Poll
<1>11. ASSUME NEW p \in Proc, WritePaid(p) PROVE TypeOK'
  BY <1>11 DEF WritePaid
<1>12. ASSUME NEW p \in Proc, QueueCheck(p) PROVE TypeOK'
  BY <1>12 DEF QueueCheck
<1>13. ASSUME NEW p \in Proc, StartExpiry(p) PROVE TypeOK'
  BY <1>13 DEF StartExpiry
<1>14. ASSUME NEW p \in Proc, ExpireRead(p) PROVE TypeOK'
  BY <1>14 DEF ExpireRead
<1>15. ASSUME NEW p \in Proc, ExpireWrite(p) PROVE TypeOK'
  BY <1>15 DEF ExpireWrite
<1>16. ASSUME NEW p \in Proc, StartCheck(p) PROVE TypeOK'
  BY <1>16 DEF StartCheck
<1>17. ASSUME NEW p \in Proc, ReadDepth(p) PROVE TypeOK'
  BY <1>17 DEF ReadDepth
<1>18. ASSUME NEW p \in Proc, WriteConfirmations(p) PROVE TypeOK'
  BY <1>18 DEF WriteConfirmations
<1>19. ASSUME NEW p \in Proc, Requeue(p) PROVE TypeOK'
  BY <1>19 DEF Requeue
<1>20. ASSUME NEW p \in Proc, ConfirmWrite(p) PROVE TypeOK'
  BY <1>20 DEF ConfirmWrite
<1>21. ASSUME NEW p \in Proc, CreditRead(p) PROVE TypeOK'
  BY <1>21 DEF CreditRead
<1>22. ASSUME NEW p \in Proc, CreditBalance(p) PROVE TypeOK'
  BY <1>22 DEF CreditBalance
<1>23. ASSUME NEW p \in Proc, WriteBalance(p) PROVE TypeOK'
  BY <1>23 DEF WriteBalance
<1>24. ASSUME NEW p \in Proc, WriteRow(p) PROVE TypeOK'
  BY <1>24 DEF WriteRow
<1>25. ASSUME NEW p \in Proc, MarkCredited(p) PROVE TypeOK'
  BY <1>25 DEF MarkCredited
<1>26. ASSUME NEW p \in Proc, Fail(p) PROVE TypeOK'
  BY <1>26 DEF Fail
<1>27. ASSUME NEW p \in Proc, Crash(p) PROVE TypeOK'
  BY <1>27 DEF Crash
<1>28. ASSUME NEW f \in {"short", "split", "enough"}, Transfer(f) PROVE TypeOK'
  BY <1>28 DEF Transfer
<1>29. ASSUME Mine PROVE TypeOK'
  BY <1>29 DEF Mine
<1>30. ASSUME Reorganise PROVE TypeOK'
  BY <1>30 DEF Reorganise
<1>31. ASSUME ClockTick PROVE TypeOK'
  BY <1>31 DEF ClockTick
<1>32. CASE UNCHANGED vars
  BY <1>32 DEF vars
<1> QED
  <2>1. \A a \in Amounts : a \in Int /\ 0 - a \in Int
    OBVIOUS
  <2> QED
    BY <2>1, <1>1, <1>2, <1>3, <1>4, <1>5, <1>6, <1>7, <1>8, <1>9, <1>10, <1>11, <1>12, <1>13, <1>14, <1>15, <1>16, <1>17, <1>18, <1>19, <1>20, <1>21, <1>22, <1>23, <1>24, <1>25, <1>26, <1>27, <1>28, <1>29, <1>30, <1>31, <1>32
    DEF Next, ChangeStart, TopUpStart, Continue, CheckStep, CreditStep, Environment

\* A stale balance is still a funded one.
LEMMA FundedStep == IInv /\ [Next]_vars => (BalanceIsFunded /\ WritesAreFunded)'
<1> SUFFICES ASSUME IInv, [Next]_vars PROVE (BalanceIsFunded /\ WritesAreFunded)'
  OBVIOUS
<1> USE DEF IInv, TypeOK, Calls, BalanceIsFunded, WritesAreFunded, money, topUpVars, world, Begin, Call, Goto, Return, Enqueue, Dequeue, Rest
<1>1. ASSUME NEW p \in Proc, NEW a \in Amounts, AddBalance(p, a) PROVE (BalanceIsFunded /\ WritesAreFunded)'
  BY <1>1 DEF AddBalance, ReadWallet
<1>2. ASSUME NEW p \in Proc, NEW a \in Amounts, RefundBalance(p, a) PROVE (BalanceIsFunded /\ WritesAreFunded)'
  BY <1>2 DEF RefundBalance, ReadWallet
<1>3. ASSUME NEW p \in Proc, NEW a \in Amounts, DeductBalance(p, a) PROVE (BalanceIsFunded /\ WritesAreFunded)'
  BY <1>3 DEF DeductBalance, ReadWallet
<1>4. ASSUME NEW p \in Proc, NEW d \in Int, AdjustBalance(p, d) PROVE (BalanceIsFunded /\ WritesAreFunded)'
  BY <1>4 DEF AdjustBalance, ReadWallet
<1>5. ASSUME NEW p \in Proc, CreateTopUp(p) PROVE (BalanceIsFunded /\ WritesAreFunded)'
  BY <1>5 DEF CreateTopUp
<1>6. ASSUME NEW p \in Proc, QueueVerify(p) PROVE (BalanceIsFunded /\ WritesAreFunded)'
  BY <1>6 DEF QueueVerify
<1>7. ASSUME NEW p \in Proc, StartVerify(p) PROVE (BalanceIsFunded /\ WritesAreFunded)'
  BY <1>7 DEF StartVerify
<1>8. ASSUME NEW p \in Proc, StartPendingCron(p) PROVE (BalanceIsFunded /\ WritesAreFunded)'
  BY <1>8 DEF StartPendingCron
<1>9. ASSUME NEW p \in Proc, ReadTopUp(p) PROVE (BalanceIsFunded /\ WritesAreFunded)'
  BY <1>9 DEF ReadTopUp
<1>10. ASSUME NEW p \in Proc, Poll(p) PROVE (BalanceIsFunded /\ WritesAreFunded)'
  BY <1>10 DEF Poll
<1>11. ASSUME NEW p \in Proc, WritePaid(p) PROVE (BalanceIsFunded /\ WritesAreFunded)'
  BY <1>11 DEF WritePaid
<1>12. ASSUME NEW p \in Proc, QueueCheck(p) PROVE (BalanceIsFunded /\ WritesAreFunded)'
  BY <1>12 DEF QueueCheck
<1>13. ASSUME NEW p \in Proc, StartExpiry(p) PROVE (BalanceIsFunded /\ WritesAreFunded)'
  BY <1>13 DEF StartExpiry
<1>14. ASSUME NEW p \in Proc, ExpireRead(p) PROVE (BalanceIsFunded /\ WritesAreFunded)'
  BY <1>14 DEF ExpireRead
<1>15. ASSUME NEW p \in Proc, ExpireWrite(p) PROVE (BalanceIsFunded /\ WritesAreFunded)'
  BY <1>15 DEF ExpireWrite
<1>16. ASSUME NEW p \in Proc, StartCheck(p) PROVE (BalanceIsFunded /\ WritesAreFunded)'
  BY <1>16 DEF StartCheck
<1>17. ASSUME NEW p \in Proc, ReadDepth(p) PROVE (BalanceIsFunded /\ WritesAreFunded)'
  BY <1>17 DEF ReadDepth
<1>18. ASSUME NEW p \in Proc, WriteConfirmations(p) PROVE (BalanceIsFunded /\ WritesAreFunded)'
  BY <1>18 DEF WriteConfirmations
<1>19. ASSUME NEW p \in Proc, Requeue(p) PROVE (BalanceIsFunded /\ WritesAreFunded)'
  BY <1>19 DEF Requeue
<1>20. ASSUME NEW p \in Proc, ConfirmWrite(p) PROVE (BalanceIsFunded /\ WritesAreFunded)'
  BY <1>20 DEF ConfirmWrite
<1>21. ASSUME NEW p \in Proc, CreditRead(p) PROVE (BalanceIsFunded /\ WritesAreFunded)'
  BY <1>21 DEF CreditRead
<1>22. ASSUME NEW p \in Proc, CreditBalance(p) PROVE (BalanceIsFunded /\ WritesAreFunded)'
  BY <1>22 DEF CreditBalance
<1>23. ASSUME NEW p \in Proc, WriteBalance(p) PROVE (BalanceIsFunded /\ WritesAreFunded)'
  BY <1>23 DEF WriteBalance
<1>24. ASSUME NEW p \in Proc, WriteRow(p) PROVE (BalanceIsFunded /\ WritesAreFunded)'
  BY <1>24 DEF WriteRow
<1>25. ASSUME NEW p \in Proc, MarkCredited(p) PROVE (BalanceIsFunded /\ WritesAreFunded)'
  BY <1>25 DEF MarkCredited
<1>26. ASSUME NEW p \in Proc, Fail(p) PROVE (BalanceIsFunded /\ WritesAreFunded)'
  BY <1>26 DEF Fail
<1>27. ASSUME NEW p \in Proc, Crash(p) PROVE (BalanceIsFunded /\ WritesAreFunded)'
  BY <1>27 DEF Crash
<1>28. ASSUME NEW f \in {"short", "split", "enough"}, Transfer(f) PROVE (BalanceIsFunded /\ WritesAreFunded)'
  BY <1>28 DEF Transfer
<1>29. ASSUME Mine PROVE (BalanceIsFunded /\ WritesAreFunded)'
  BY <1>29 DEF Mine
<1>30. ASSUME Reorganise PROVE (BalanceIsFunded /\ WritesAreFunded)'
  BY <1>30 DEF Reorganise
<1>31. ASSUME ClockTick PROVE (BalanceIsFunded /\ WritesAreFunded)'
  BY <1>31 DEF ClockTick
<1>32. CASE UNCHANGED vars
  BY <1>32 DEF vars
<1> QED
  <2>1. \A a \in Amounts : a \in Int /\ 0 - a \in Int
    OBVIOUS
  <2> QED
    BY <2>1, <1>1, <1>2, <1>3, <1>4, <1>5, <1>6, <1>7, <1>8, <1>9, <1>10, <1>11, <1>12, <1>13, <1>14, <1>15, <1>16, <1>17, <1>18, <1>19, <1>20, <1>21, <1>22, <1>23, <1>24, <1>25, <1>26, <1>27, <1>28, <1>29, <1>30, <1>31, <1>32
    DEF Next, ChangeStart, TopUpStart, Continue, CheckStep, CreditStep, Environment

\* What a crediting call saw on the chain stays true.
LEMMA FinalStep == IInv /\ [Next]_vars => (CreditingSawFinal /\ CreditIsPaid)'
<1> SUFFICES ASSUME IInv, [Next]_vars PROVE (CreditingSawFinal /\ CreditIsPaid)'
  OBVIOUS
<1> USE DEF IInv, TypeOK, Calls, CreditingSawFinal, Crediting, CreditIsPaid, money, topUpVars, world, Begin, Call, Goto, Return, Enqueue, Dequeue, Rest
<1>1. ASSUME NEW p \in Proc, NEW a \in Amounts, AddBalance(p, a) PROVE (CreditingSawFinal /\ CreditIsPaid)'
  BY <1>1 DEF AddBalance, ReadWallet
<1>2. ASSUME NEW p \in Proc, NEW a \in Amounts, RefundBalance(p, a) PROVE (CreditingSawFinal /\ CreditIsPaid)'
  BY <1>2 DEF RefundBalance, ReadWallet
<1>3. ASSUME NEW p \in Proc, NEW a \in Amounts, DeductBalance(p, a) PROVE (CreditingSawFinal /\ CreditIsPaid)'
  BY <1>3 DEF DeductBalance, ReadWallet
<1>4. ASSUME NEW p \in Proc, NEW d \in Int, AdjustBalance(p, d) PROVE (CreditingSawFinal /\ CreditIsPaid)'
  BY <1>4 DEF AdjustBalance, ReadWallet
<1>5. ASSUME NEW p \in Proc, CreateTopUp(p) PROVE (CreditingSawFinal /\ CreditIsPaid)'
  BY <1>5 DEF CreateTopUp
<1>6. ASSUME NEW p \in Proc, QueueVerify(p) PROVE (CreditingSawFinal /\ CreditIsPaid)'
  BY <1>6 DEF QueueVerify
<1>7. ASSUME NEW p \in Proc, StartVerify(p) PROVE (CreditingSawFinal /\ CreditIsPaid)'
  BY <1>7 DEF StartVerify
<1>8. ASSUME NEW p \in Proc, StartPendingCron(p) PROVE (CreditingSawFinal /\ CreditIsPaid)'
  BY <1>8 DEF StartPendingCron
<1>9. ASSUME NEW p \in Proc, ReadTopUp(p) PROVE (CreditingSawFinal /\ CreditIsPaid)'
  BY <1>9 DEF ReadTopUp
<1>10. ASSUME NEW p \in Proc, Poll(p) PROVE (CreditingSawFinal /\ CreditIsPaid)'
  BY <1>10 DEF Poll
<1>11. ASSUME NEW p \in Proc, WritePaid(p) PROVE (CreditingSawFinal /\ CreditIsPaid)'
  BY <1>11 DEF WritePaid
<1>12. ASSUME NEW p \in Proc, QueueCheck(p) PROVE (CreditingSawFinal /\ CreditIsPaid)'
  BY <1>12 DEF QueueCheck
<1>13. ASSUME NEW p \in Proc, StartExpiry(p) PROVE (CreditingSawFinal /\ CreditIsPaid)'
  BY <1>13 DEF StartExpiry
<1>14. ASSUME NEW p \in Proc, ExpireRead(p) PROVE (CreditingSawFinal /\ CreditIsPaid)'
  BY <1>14 DEF ExpireRead
<1>15. ASSUME NEW p \in Proc, ExpireWrite(p) PROVE (CreditingSawFinal /\ CreditIsPaid)'
  BY <1>15 DEF ExpireWrite
<1>16. ASSUME NEW p \in Proc, StartCheck(p) PROVE (CreditingSawFinal /\ CreditIsPaid)'
  BY <1>16 DEF StartCheck
<1>17. ASSUME NEW p \in Proc, ReadDepth(p) PROVE (CreditingSawFinal /\ CreditIsPaid)'
  BY <1>17 DEF ReadDepth
<1>18. ASSUME NEW p \in Proc, WriteConfirmations(p) PROVE (CreditingSawFinal /\ CreditIsPaid)'
  BY <1>18 DEF WriteConfirmations
<1>19. ASSUME NEW p \in Proc, Requeue(p) PROVE (CreditingSawFinal /\ CreditIsPaid)'
  BY <1>19 DEF Requeue
<1>20. ASSUME NEW p \in Proc, ConfirmWrite(p) PROVE (CreditingSawFinal /\ CreditIsPaid)'
  BY <1>20 DEF ConfirmWrite
<1>21. ASSUME NEW p \in Proc, CreditRead(p) PROVE (CreditingSawFinal /\ CreditIsPaid)'
  BY <1>21 DEF CreditRead
<1>22. ASSUME NEW p \in Proc, CreditBalance(p) PROVE (CreditingSawFinal /\ CreditIsPaid)'
  BY <1>22 DEF CreditBalance
<1>23. ASSUME NEW p \in Proc, WriteBalance(p) PROVE (CreditingSawFinal /\ CreditIsPaid)'
  BY <1>23 DEF WriteBalance
<1>24. ASSUME NEW p \in Proc, WriteRow(p) PROVE (CreditingSawFinal /\ CreditIsPaid)'
  BY <1>24 DEF WriteRow
<1>25. ASSUME NEW p \in Proc, MarkCredited(p) PROVE (CreditingSawFinal /\ CreditIsPaid)'
  BY <1>25 DEF MarkCredited
<1>26. ASSUME NEW p \in Proc, Fail(p) PROVE (CreditingSawFinal /\ CreditIsPaid)'
  BY <1>26 DEF Fail
<1>27. ASSUME NEW p \in Proc, Crash(p) PROVE (CreditingSawFinal /\ CreditIsPaid)'
  BY <1>27 DEF Crash
<1>28. ASSUME NEW f \in {"short", "split", "enough"}, Transfer(f) PROVE (CreditingSawFinal /\ CreditIsPaid)'
  BY <1>28 DEF Transfer
<1>29. ASSUME Mine PROVE (CreditingSawFinal /\ CreditIsPaid)'
  BY <1>29 DEF Mine
<1>30. ASSUME Reorganise PROVE (CreditingSawFinal /\ CreditIsPaid)'
  BY <1>30 DEF Reorganise
<1>31. ASSUME ClockTick PROVE (CreditingSawFinal /\ CreditIsPaid)'
  BY <1>31 DEF ClockTick
<1>32. CASE UNCHANGED vars
  BY <1>32 DEF vars
<1> QED
  <2>1. \A a \in Amounts : a \in Int /\ 0 - a \in Int
    OBVIOUS
  <2> QED
    BY <2>1, <1>1, <1>2, <1>3, <1>4, <1>5, <1>6, <1>7, <1>8, <1>9, <1>10, <1>11, <1>12, <1>13, <1>14, <1>15, <1>16, <1>17, <1>18, <1>19, <1>20, <1>21, <1>22, <1>23, <1>24, <1>25, <1>26, <1>27, <1>28, <1>29, <1>30, <1>31, <1>32
    DEF Next, ChangeStart, TopUpStart, Continue, CheckStep, CreditStep, Environment

-------------------------------------------------------------------------------

\* The inductive invariant holds in every reachable state.
THEOREM Invariance == Spec => []IInv
<1>1. IInv /\ [Next]_vars => IInv'
  BY TypeStep, FundedStep, FinalStep DEF IInv
<1> QED
  BY InitIInv, <1>1, PTL DEF Spec

\* The variables keep their types; in particular no balance is ever negative.
THEOREM TypeCorrect == Spec => []TypeOK
<1>1. IInv => TypeOK
  BY DEF IInv
<1> QED
  BY Invariance, <1>1, PTL

\* Overlapping balance changes never make money.
THEOREM FundedCorrect == Spec => []BalanceIsFunded
<1>1. IInv => BalanceIsFunded
  BY DEF IInv
<1> QED
  BY Invariance, <1>1, PTL

\* A top-up is credited only for a whole and final transfer.
THEOREM CreditCorrect == Spec => []CreditIsPaid
<1>1. IInv => CreditIsPaid
  BY DEF IInv
<1> QED
  BY Invariance, <1>1, PTL

===============================================================================
