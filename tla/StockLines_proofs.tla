--------------------------- MODULE StockLines_proofs ---------------------------
(* Proofs about StockLines, for any lines, items, quantities and connections. *)
EXTENDS StockLines, FiniteSetTheorems, TLAPS

Placing(t) == tx[t].op \in {"itemCreated", "allocate", "legacy"}

\* What the transactions in flight may rely on when they commit: rows about to be
\* inserted are absent and no other insert has them; an item being placed is in one
\* transaction and not placed yet; the one transaction that holds the variant's lock
\* still finds its lines in the pool.
InFlight ==
    /\ \A t \in Tx : tx[t].op = "bulkAdd" => tx[t].rows \subseteq Absent
    /\ \A t, u \in Tx : (tx[t].op = "bulkAdd" /\ tx[u].op = "bulkAdd" /\ t # u)
                           => tx[t].rows \cap tx[u].rows = {}
    /\ \A t, u \in Tx : (/\ tx[t].op \in {"allocate", "legacy"}
                         /\ tx[u].op \in {"allocate", "legacy"}) => t = u
    /\ \A t, u \in Tx : (Placing(t) /\ Placing(u) /\ tx[t].item = tx[u].item) => t = u
    /\ \A t \in Tx : Placing(t) => tx[t].item \in Item \ placed
    /\ \A t \in Tx : tx[t].op \in {"allocate", "legacy"} =>
          /\ tx[t].rows \subseteq Available
          /\ Cardinality(tx[t].rows) <= Quantity[tx[t].item]
          /\ tx[t].rows # {} => Cardinality(tx[t].rows) = Quantity[tx[t].item]

IInv == TypeOK /\ LineOwnership /\ InFlight

USE QuantityAssumption, NoItemAssumption

\* A set of lines is finite and has a size.
LEMMA CardinalityNat ==
    ASSUME NEW S \in SUBSET Line
    PROVE  IsFiniteSet(S) /\ Cardinality(S) \in Nat
BY LineAssumption, FS_Subset, FS_CardinalityType

LEMMA PoolNat == Cardinality(Available) \in Nat
BY CardinalityNat DEF Available

LEMMA InitIInv == Init => IInv
BY StockAssumption DEF Init, IInv, TypeOK, LineOwnership, InFlight, Placing, Idle, Status, orders, TxRecord, Ops

-------------------------------------------------------------------------------
\* Every step keeps the variables in their types.
LEMMA TypeStep == IInv /\ [Next]_vars => TypeOK'
<1> SUFFICES ASSUME IInv, [Next]_vars PROVE TypeOK'
  OBVIOUS
<1> USE DEF IInv, TypeOK, lineVars, orders, Begin, Advance, End, Idle, Status, orders, TxRecord, Ops
<1>1. ASSUME NEW t \in Tx, NEW new \in SUBSET Line, BulkAddInsert(t, new) PROVE TypeOK'
  <2>1. Cardinality(Available) + Cardinality(new) \in Int
    BY PoolNat, CardinalityNat
  <2> QED BY <1>1, <2>1 DEF BulkAddInsert
<1>2. ASSUME NEW t \in Tx, BulkAddCommit(t) PROVE TypeOK'
  BY <1>2 DEF BulkAddCommit
<1>3. ASSUME NEW t \in Tx, NEW l \in Line, DeleteCheck(t, l) PROVE TypeOK'
  BY <1>3 DEF DeleteCheck
<1>4. ASSUME NEW t \in Tx, DeleteRow(t) PROVE TypeOK'
  BY <1>4 DEF DeleteRow
<1>5. ASSUME NEW t \in Tx, ClearAvailable(t) PROVE TypeOK'
  BY <1>5 DEF ClearAvailable, Available
<1>6. ASSUME NEW t \in Tx, CountAvailable(t) PROVE TypeOK'
  <2>1. Cardinality(Available \ tx[t].rows) \in Int
    BY CardinalityNat DEF Available
  <2> QED BY <1>6, <2>1 DEF CountAvailable
<1>7. ASSUME NEW t \in Tx, DeleteCommit(t) PROVE TypeOK'
  BY <1>7 DEF DeleteCommit
<1>8. ASSUME NEW t \in Tx, NEW picked \in SUBSET Line, AllocateLines(t, picked) PROVE TypeOK'
  BY <1>8 DEF AllocateLines, LockVariantRow
<1>9. ASSUME NEW t \in Tx, AllocateLegacy(t) PROVE TypeOK'
  BY <1>9 DEF AllocateLegacy, LockVariantRow
<1>10. ASSUME NEW t \in Tx, AllocateCommit(t) PROVE TypeOK'
  BY <1>10 DEF AllocateCommit, InFlight, Placing
<1>11. ASSUME NEW t \in Tx, NEW i \in Item, ReleaseReserved(t, i) PROVE TypeOK'
  BY <1>11 DEF ReleaseReserved
<1>12. ASSUME NEW t \in Tx, NEW i \in Item, SweepStale(t, i) PROVE TypeOK'
  BY <1>12 DEF SweepStale
<1>13. ASSUME NEW t \in Tx, NEW i \in Item, RestoreCancelled(t, i) PROVE TypeOK'
  BY <1>13 DEF RestoreCancelled
<1>14. ASSUME NEW t \in Tx, ReleaseRead(t) PROVE TypeOK'
  <2>1. Cardinality(LinesOf(tx[t].item, "RESERVED")) \in Int
    BY CardinalityNat DEF LinesOf, HeldBy
  <2> QED BY <1>14, <2>1 DEF ReleaseRead
<1>15. ASSUME NEW t \in Tx, ReleaseCommit(t) PROVE TypeOK'
  BY <1>15 DEF ReleaseCommit
<1>16. ASSUME NEW t \in Tx, RestoreCounterCommit(t) PROVE TypeOK'
  BY <1>16 DEF RestoreCounterCommit
<1>17. ASSUME NEW t \in Tx, Abort(t) PROVE TypeOK'
  BY <1>17 DEF Abort
<1>18. ASSUME NEW i \in Item, MarkSold(i) PROVE TypeOK'
  BY <1>18 DEF MarkSold
<1>19. ASSUME NEW i \in Item, RetireForOrderItem(i) PROVE TypeOK'
  BY <1>19 DEF RetireForOrderItem
<1>20. ASSUME NEW i \in Item, SyncReservationExpiry(i) PROVE TypeOK'
  BY <1>20 DEF SyncReservationExpiry, LinesOf, HeldBy
<1>21. ASSUME NEW i \in Item, DeadlinePasses(i) PROVE TypeOK'
  BY <1>21 DEF DeadlinePasses, LinesOf, HeldBy
<1>22. ASSUME NEW l \in Line, DropClaim(l) PROVE TypeOK'
  BY <1>22 DEF DropClaim, LinesOf, HeldBy
<1>23. ASSUME NEW q \in CounterEdits, SetStockQuantity(q) PROVE TypeOK'
  BY <1>23, StockAssumption DEF SetStockQuantity
<1>24. ASSUME NEW t \in Tx, NEW i \in Item, CreateOrderItem(t, i) PROVE TypeOK'
  BY <1>24 DEF CreateOrderItem
<1>25. CASE UNCHANGED vars
  BY <1>25 DEF vars, Available, Absent
<1> QED
  BY <1>1, <1>2, <1>3, <1>4, <1>5, <1>6, <1>7, <1>8, <1>9, <1>10, <1>11, <1>12, <1>13, <1>14, <1>15, <1>16, <1>17, <1>18, <1>19, <1>20, <1>21, <1>22, <1>23, <1>24, <1>25
  DEF Next, AdminStep, OrderStep, ItemStep

\* Every step keeps each row's status in agreement with who points to it.
LEMMA OwnershipStep == IInv /\ [Next]_vars => LineOwnership'
<1> SUFFICES ASSUME IInv, [Next]_vars PROVE LineOwnership'
  OBVIOUS
<1> USE DEF IInv, TypeOK, LineOwnership, lineVars, Status, orders
<1>1. ASSUME NEW t \in Tx, NEW new \in SUBSET Line, BulkAddInsert(t, new) PROVE LineOwnership'
  BY <1>1 DEF BulkAddInsert, LinesOf, HeldBy
<1>2. ASSUME NEW t \in Tx, BulkAddCommit(t) PROVE LineOwnership'
  BY <1>2 DEF BulkAddCommit, LinesOf, HeldBy, InFlight, Absent
<1>3. ASSUME NEW t \in Tx, NEW l \in Line, DeleteCheck(t, l) PROVE LineOwnership'
  BY <1>3 DEF DeleteCheck, LinesOf, HeldBy
<1>4. ASSUME NEW t \in Tx, DeleteRow(t) PROVE LineOwnership'
  BY <1>4 DEF DeleteRow, LinesOf, HeldBy
<1>5. ASSUME NEW t \in Tx, ClearAvailable(t) PROVE LineOwnership'
  BY <1>5 DEF ClearAvailable, LinesOf, HeldBy
<1>6. ASSUME NEW t \in Tx, CountAvailable(t) PROVE LineOwnership'
  BY <1>6 DEF CountAvailable, LinesOf, HeldBy
<1>7. ASSUME NEW t \in Tx, DeleteCommit(t) PROVE LineOwnership'
  BY <1>7 DEF DeleteCommit, LinesOf, HeldBy
<1>8. ASSUME NEW t \in Tx, NEW picked \in SUBSET Line, AllocateLines(t, picked) PROVE LineOwnership'
  BY <1>8 DEF AllocateLines, LockVariantRow, LinesOf, HeldBy
<1>9. ASSUME NEW t \in Tx, AllocateLegacy(t) PROVE LineOwnership'
  BY <1>9 DEF AllocateLegacy, LockVariantRow, LinesOf, HeldBy
<1>10. ASSUME NEW t \in Tx, AllocateCommit(t) PROVE LineOwnership'
  <2>1. tx[t].item \in Item /\ tx[t].item # NoItem /\ tx[t].rows \subseteq Available
    BY <1>10 DEF AllocateCommit, InFlight, Placing
  <2>2. SUFFICES ASSUME NEW l \in Line PROVE LineOwnership!(l)'
    BY DEF LineOwnership
  <2>3. CASE l \in tx[t].rows
    BY <1>10, <2>1, <2>3 DEF AllocateCommit, Available
  <2>4. CASE l \notin tx[t].rows
    BY <1>10, <2>1, <2>4 DEF AllocateCommit, Available
  <2> QED BY <2>3, <2>4
<1>11. ASSUME NEW t \in Tx, NEW i \in Item, ReleaseReserved(t, i) PROVE LineOwnership'
  BY <1>11 DEF ReleaseReserved, LinesOf, HeldBy
<1>12. ASSUME NEW t \in Tx, NEW i \in Item, SweepStale(t, i) PROVE LineOwnership'
  BY <1>12 DEF SweepStale, LinesOf, HeldBy
<1>13. ASSUME NEW t \in Tx, NEW i \in Item, RestoreCancelled(t, i) PROVE LineOwnership'
  BY <1>13 DEF RestoreCancelled, LinesOf, HeldBy
<1>14. ASSUME NEW t \in Tx, ReleaseRead(t) PROVE LineOwnership'
  BY <1>14 DEF ReleaseRead, LinesOf, HeldBy
<1>15. ASSUME NEW t \in Tx, ReleaseCommit(t) PROVE LineOwnership'
  BY <1>15 DEF ReleaseCommit, LinesOf, HeldBy
<1>16. ASSUME NEW t \in Tx, RestoreCounterCommit(t) PROVE LineOwnership'
  BY <1>16 DEF RestoreCounterCommit, LinesOf, HeldBy
<1>17. ASSUME NEW t \in Tx, Abort(t) PROVE LineOwnership'
  BY <1>17 DEF Abort, LinesOf, HeldBy
<1>18. ASSUME NEW i \in Item, MarkSold(i) PROVE LineOwnership'
  BY <1>18 DEF MarkSold, LinesOf, HeldBy
<1>19. ASSUME NEW i \in Item, RetireForOrderItem(i) PROVE LineOwnership'
  BY <1>19 DEF RetireForOrderItem, LinesOf, HeldBy
<1>20. ASSUME NEW i \in Item, SyncReservationExpiry(i) PROVE LineOwnership'
  BY <1>20 DEF SyncReservationExpiry, LinesOf, HeldBy
<1>21. ASSUME NEW i \in Item, DeadlinePasses(i) PROVE LineOwnership'
  BY <1>21 DEF DeadlinePasses, LinesOf, HeldBy
<1>22. ASSUME NEW l \in Line, DropClaim(l) PROVE LineOwnership'
  BY <1>22 DEF DropClaim, LinesOf, HeldBy, VariantLocked
<1>23. ASSUME NEW q \in CounterEdits, SetStockQuantity(q) PROVE LineOwnership'
  BY <1>23 DEF SetStockQuantity, LinesOf, HeldBy
<1>24. ASSUME NEW t \in Tx, NEW i \in Item, CreateOrderItem(t, i) PROVE LineOwnership'
  BY <1>24 DEF CreateOrderItem
<1>25. CASE UNCHANGED vars
  BY <1>25 DEF vars, Available, Absent
<1> QED
  BY <1>1, <1>2, <1>3, <1>4, <1>5, <1>6, <1>7, <1>8, <1>9, <1>10, <1>11, <1>12, <1>13, <1>14, <1>15, <1>16, <1>17, <1>18, <1>19, <1>20, <1>21, <1>22, <1>23, <1>24, <1>25
  DEF Next, AdminStep, OrderStep, ItemStep

\* A step that writes no row and leaves its transaction without inserted or locked rows.
LEMMA QuietStep ==
    ASSUME IInv, NEW t \in Tx,
           UNCHANGED <<status, placed>>,
           tx'[t].op \notin {"bulkAdd", "itemCreated", "allocate", "legacy"},
           \A u \in Tx \ {t} : tx'[u] = tx[u]
    PROVE  InFlight'
BY DEF IInv, InFlight, Placing, Available, Absent

\* Every step keeps what the transactions in flight rely on.
LEMMA InFlightStep == IInv /\ [Next]_vars => InFlight'
<1> SUFFICES ASSUME IInv, [Next]_vars PROVE InFlight'
  OBVIOUS
<1> USE DEF IInv, TypeOK, InFlight, LineOwnership, lineVars, Begin, Advance, End, Idle, TxRecord, Ops, Available, Absent, Status, orders,
        Placing
<1>1. ASSUME NEW t \in Tx, NEW new \in SUBSET Line, BulkAddInsert(t, new) PROVE InFlight'
  BY <1>1 DEF BulkAddInsert, LinesOf, HeldBy, VariantLocked, InsertedRows
<1>2. ASSUME NEW t \in Tx, BulkAddCommit(t) PROVE InFlight'
  BY <1>2 DEF BulkAddCommit, LinesOf, HeldBy, VariantLocked, InsertedRows
<1>3. ASSUME NEW t \in Tx, NEW l \in Line, DeleteCheck(t, l) PROVE InFlight'
  BY <1>3 DEF DeleteCheck, LinesOf, HeldBy, VariantLocked, InsertedRows
<1>4. ASSUME NEW t \in Tx, DeleteRow(t) PROVE InFlight'
  BY <1>4 DEF DeleteRow, LinesOf, HeldBy, VariantLocked, InsertedRows
<1>5. ASSUME NEW t \in Tx, ClearAvailable(t) PROVE InFlight'
  BY <1>5 DEF ClearAvailable, LinesOf, HeldBy, VariantLocked, InsertedRows
<1>6. ASSUME NEW t \in Tx, CountAvailable(t) PROVE InFlight'
  BY <1>6 DEF CountAvailable, LinesOf, HeldBy, VariantLocked, InsertedRows
<1>7. ASSUME NEW t \in Tx, DeleteCommit(t) PROVE InFlight'
  BY <1>7 DEF DeleteCommit, LinesOf, HeldBy, VariantLocked, InsertedRows
<1>8. ASSUME NEW t \in Tx, NEW picked \in SUBSET Line, AllocateLines(t, picked) PROVE InFlight'
  BY <1>8 DEF AllocateLines, LockVariantRow, LinesOf, HeldBy, VariantLocked, InsertedRows
<1>9. ASSUME NEW t \in Tx, AllocateLegacy(t) PROVE InFlight'
  <2>1. Cardinality({}) <= Quantity[tx[t].item]
    BY <1>9, FS_EmptySet DEF AllocateLegacy
  <2> QED BY <1>9, <2>1 DEF AllocateLegacy, LockVariantRow, VariantLocked
<1>10. ASSUME NEW t \in Tx, AllocateCommit(t) PROVE InFlight'
  BY <1>10 DEF AllocateCommit, Placing, LinesOf, HeldBy, VariantLocked, InsertedRows
<1>11. ASSUME NEW t \in Tx, NEW i \in Item, ReleaseReserved(t, i) PROVE InFlight'
  BY <1>11 DEF ReleaseReserved, LinesOf, HeldBy, VariantLocked, InsertedRows
<1>12. ASSUME NEW t \in Tx, NEW i \in Item, SweepStale(t, i) PROVE InFlight'
  BY <1>12 DEF SweepStale, LinesOf, HeldBy, VariantLocked, InsertedRows
<1>13. ASSUME NEW t \in Tx, NEW i \in Item, RestoreCancelled(t, i) PROVE InFlight'
  <2>1. /\ tx'[t].op \in {"releaseCalled", "restoreCounter"}
        /\ \A u \in Tx \ {t} : tx'[u] = tx[u]
    BY <1>13 DEF RestoreCancelled
  <2> QED BY <1>13, <2>1, QuietStep DEF RestoreCancelled
<1>14. ASSUME NEW t \in Tx, ReleaseRead(t) PROVE InFlight'
  <2>1. /\ tx'[t].op \in {"idle", "release"}
        /\ \A u \in Tx \ {t} : tx'[u] = tx[u]
    BY <1>14 DEF ReleaseRead
  <2> QED BY <1>14, <2>1, QuietStep DEF ReleaseRead
<1>15. ASSUME NEW t \in Tx, ReleaseCommit(t) PROVE InFlight'
  BY <1>15 DEF ReleaseCommit, LinesOf, HeldBy, VariantLocked, InsertedRows
<1>16. ASSUME NEW t \in Tx, RestoreCounterCommit(t) PROVE InFlight'
  BY <1>16 DEF RestoreCounterCommit, LinesOf, HeldBy, VariantLocked, InsertedRows
<1>17. ASSUME NEW t \in Tx, Abort(t) PROVE InFlight'
  BY <1>17 DEF Abort, LinesOf, HeldBy, VariantLocked, InsertedRows
<1>18. ASSUME NEW i \in Item, MarkSold(i) PROVE InFlight'
  BY <1>18 DEF MarkSold, LinesOf, HeldBy, VariantLocked, InsertedRows
<1>19. ASSUME NEW i \in Item, RetireForOrderItem(i) PROVE InFlight'
  BY <1>19 DEF RetireForOrderItem, LinesOf, HeldBy, VariantLocked, InsertedRows
<1>20. ASSUME NEW i \in Item, SyncReservationExpiry(i) PROVE InFlight'
  BY <1>20 DEF SyncReservationExpiry, LinesOf, HeldBy, VariantLocked, InsertedRows
<1>21. ASSUME NEW i \in Item, DeadlinePasses(i) PROVE InFlight'
  BY <1>21 DEF DeadlinePasses, LinesOf, HeldBy, VariantLocked, InsertedRows
<1>22. ASSUME NEW l \in Line, DropClaim(l) PROVE InFlight'
  BY <1>22 DEF DropClaim, LinesOf, HeldBy, VariantLocked, InsertedRows
<1>23. ASSUME NEW q \in CounterEdits, SetStockQuantity(q) PROVE InFlight'
  BY <1>23 DEF SetStockQuantity, LinesOf, HeldBy, VariantLocked, InsertedRows
<1>24. ASSUME NEW t \in Tx, NEW i \in Item, CreateOrderItem(t, i) PROVE InFlight'
  BY <1>24 DEF CreateOrderItem, VariantLocked
<1>25. CASE UNCHANGED vars
  BY <1>25 DEF vars, Available, Absent
<1> QED
  BY <1>1, <1>2, <1>3, <1>4, <1>5, <1>6, <1>7, <1>8, <1>9, <1>10, <1>11, <1>12, <1>13, <1>14, <1>15, <1>16, <1>17, <1>18, <1>19, <1>20, <1>21, <1>22, <1>23, <1>24, <1>25
  DEF Next, AdminStep, OrderStep, ItemStep

-------------------------------------------------------------------------------
\* The invariant holds in every reachable state.
THEOREM Invariance == Spec => []IInv
<1>1. IInv /\ [Next]_vars => IInv'
  BY TypeStep, OwnershipStep, InFlightStep DEF IInv
<1> QED BY InitIInv, <1>1, PTL DEF Spec

\* Every variable keeps its type, for any number of lines, items and connections.
THEOREM TypeCorrect == Spec => []TypeOK
<1>1. IInv => TypeOK
  BY DEF IInv
<1> QED BY Invariance, <1>1, PTL

\* A row's status and its taker agree: no line is sold twice, and none in the pool
\* is anyone's.
THEOREM OwnershipCorrect == Spec => []LineOwnership
<1>1. IInv => LineOwnership
  BY DEF IInv
<1> QED BY Invariance, <1>1, PTL

\* The steps that write a stock line.
LEMMA LineWriters ==
    ASSUME [Next]_vars
    PROVE  \/ UNCHANGED lineVars
           \/ \E t \in Tx : \/ BulkAddCommit(t)
                            \/ DeleteCommit(t)
                            \/ AllocateCommit(t)
                            \/ ReleaseCommit(t)
           \/ \E i \in Item : \/ MarkSold(i)
                              \/ RetireForOrderItem(i)
                              \/ SyncReservationExpiry(i)
                              \/ DeadlinePasses(i)
           \/ \E l \in Line : DropClaim(l)
<1>1. ASSUME NEW t \in Tx, AdminStep(t)
      PROVE  UNCHANGED lineVars \/ BulkAddCommit(t) \/ DeleteCommit(t)
  BY <1>1 DEF AdminStep, lineVars, BulkAddInsert, DeleteCheck, DeleteRow, ClearAvailable, CountAvailable
<1>2. ASSUME NEW t \in Tx, OrderStep(t)
      PROVE  UNCHANGED lineVars \/ AllocateCommit(t) \/ ReleaseCommit(t)
  BY <1>2 DEF OrderStep, lineVars, CreateOrderItem, LockVariantRow, AllocateLines, AllocateLegacy,
              ReleaseReserved, SweepStale, RestoreCancelled, ReleaseRead, RestoreCounterCommit, Abort
<1>3. ASSUME NEW q \in CounterEdits, SetStockQuantity(q) PROVE UNCHANGED lineVars
  BY <1>3 DEF SetStockQuantity, lineVars
<1>4. CASE UNCHANGED vars
  BY <1>4 DEF vars, lineVars
<1> QED
  BY <1>1, <1>2, <1>3, <1>4 DEF Next, ItemStep

\* How the owner of a line can change: it is dropped as the line returns to the pool
\* or is deleted, or an allocation that found the line in the pool takes it.
OwnerChange(l) ==
    \/ orderItemId'[l] = orderItemId[l]
    \/ orderItemId'[l] = NoItem /\ status'[l] \in {"AVAILABLE", "ABSENT"}
    \/ \E t \in Tx : /\ AllocateCommit(t)
                     /\ l \in tx[t].rows
                     /\ orderItemId[l] = NoItem
                     /\ orderItemId'[l] = tx[t].item

LEMMA OwnerStep == IInv /\ [Next]_vars => \A l \in Line : OwnerChange(l)
<1> SUFFICES ASSUME IInv, [Next]_vars, NEW l \in Line PROVE OwnerChange(l)
  OBVIOUS
<1> USE DEF IInv, TypeOK, OwnerChange
<1>1. CASE UNCHANGED lineVars
  BY <1>1 DEF lineVars
<1>2. ASSUME NEW t \in Tx, BulkAddCommit(t) PROVE OwnerChange(l)
  BY <1>2 DEF BulkAddCommit
<1>3. ASSUME NEW t \in Tx, DeleteCommit(t) PROVE OwnerChange(l)
  BY <1>3 DEF DeleteCommit
<1>4. ASSUME NEW t \in Tx, AllocateCommit(t) PROVE OwnerChange(l)
  <2>1. CASE l \in tx[t].rows
    <3>1. l \in Available /\ orderItemId[l] = NoItem
      BY <1>4, <2>1 DEF AllocateCommit, InFlight, Placing, LineOwnership, Available
    <3>2. orderItemId'[l] = tx[t].item
      BY <1>4, <2>1 DEF AllocateCommit
    <3> QED BY <1>4, <2>1, <3>1, <3>2
  <2>2. CASE l \notin tx[t].rows
    BY <1>4, <2>2 DEF AllocateCommit
  <2> QED BY <2>1, <2>2
<1>5. ASSUME NEW t \in Tx, ReleaseCommit(t) PROVE OwnerChange(l)
  BY <1>5 DEF ReleaseCommit
<1>6. ASSUME NEW i \in Item, \/ MarkSold(i)
                             \/ RetireForOrderItem(i)
                             \/ SyncReservationExpiry(i)
                             \/ DeadlinePasses(i)
      PROVE OwnerChange(l)
  BY <1>6 DEF MarkSold, RetireForOrderItem, SyncReservationExpiry, DeadlinePasses
<1>7. ASSUME NEW k \in Line, DropClaim(k) PROVE OwnerChange(l)
  BY <1>7 DEF DropClaim
<1> QED BY LineWriters, <1>1, <1>2, <1>3, <1>4, <1>5, <1>6, <1>7

\* An item that is not placed holds no line, so an allocation gives it exactly the
\* rows it picked; any other step leaves an item with fewer lines or the same.
LEMMA QuotaStep == IInv /\ ItemQuota /\ [Next]_vars => ItemQuota'
<1> SUFFICES ASSUME IInv, ItemQuota, [Next]_vars, NEW i \in Item
             PROVE  Cardinality(HeldBy(i)') <= Quantity[i]
  BY DEF ItemQuota, HeldBy
<1>1. CASE HeldBy(i)' \subseteq HeldBy(i)
  <2>1. IsFiniteSet(HeldBy(i)) /\ HeldBy(i)' \in SUBSET Line
    BY CardinalityNat DEF HeldBy
  <2>2. Cardinality(HeldBy(i)') <= Cardinality(HeldBy(i))
    BY <1>1, <2>1, FS_Subset
  <2>3. Cardinality(HeldBy(i)') \in Nat /\ Cardinality(HeldBy(i)) \in Nat
    BY <2>1, CardinalityNat DEF HeldBy
  <2> QED BY <2>2, <2>3, QuantityAssumption DEF ItemQuota
<1>2. CASE \E l \in HeldBy(i)' : l \notin HeldBy(i)
  <2>1. PICK l \in HeldBy(i)' : l \notin HeldBy(i)
    BY <1>2
  <2>2. PICK t \in Tx : AllocateCommit(t) /\ tx[t].item = i
    BY <2>1, OwnerStep, NoItemAssumption DEF OwnerChange, HeldBy
  <2>3. i \notin placed /\ tx[t].rows \subseteq Available
    BY <2>2 DEF IInv, InFlight, AllocateCommit, Placing
  <2>4. \A k \in Line : orderItemId[k] # i
    BY <2>3, NoItemAssumption DEF IInv, LineOwnership
  <2>5. HeldBy(i)' = tx[t].rows
    BY <2>2, <2>3, <2>4 DEF HeldBy, AllocateCommit, Available
  <2>6. Cardinality(tx[t].rows) <= Quantity[i]
    BY <2>2 DEF IInv, InFlight, AllocateCommit, Placing
  <2> QED BY <2>5, <2>6
<1> QED BY <1>1, <1>2

\* No order item ever holds more lines than it bought.
THEOREM QuotaCorrect == Spec => []ItemQuota
<1>1. Init => ItemQuota
  <2> SUFFICES ASSUME Init, NEW i \in Item PROVE Cardinality(HeldBy(i)) <= Quantity[i]
    BY DEF ItemQuota
  <2>1. HeldBy(i) = {}
    BY NoItemAssumption DEF Init, HeldBy
  <2> QED BY <2>1, FS_EmptySet, QuantityAssumption
<1> QED BY <1>1, Invariance, QuotaStep, PTL DEF Spec

\* A line goes from one buyer to another only through the pool.
THEOREM ReassignmentCorrect == Spec => NeverReassigned
<1>1. IInv /\ [Next]_vars =>
        [\A l \in Line :
           (orderItemId[l] # NoItem /\ orderItemId'[l] # orderItemId[l])
              => (orderItemId'[l] = NoItem /\ status'[l] \in {"AVAILABLE", "ABSENT"})]_vars
  BY OwnerStep DEF OwnerChange
<1> QED BY Invariance, <1>1, PTL DEF Spec, NeverReassigned

\* What a buyer was given is never taken back into the pool or given to another.
THEOREM SaleCorrect == Spec => SoldIsFinal
<1> DEFINE Final(l) ==
             (status[l] \in {"SOLD", "REFUNDED"} /\ status'[l] # "ABSENT")
                => /\ status'[l] \in {status[l], "REFUNDED"}
                   /\ orderItemId'[l] = orderItemId[l]
                   /\ (l \in claimed' <=> l \in claimed)
<1>1. ASSUME IInv, [Next]_vars, NEW l \in Line PROVE Final(l)
  <2> USE <1>1 DEF IInv, TypeOK
  <2>1. CASE UNCHANGED lineVars
    BY <2>1 DEF lineVars
  <2>2. ASSUME NEW t \in Tx, BulkAddCommit(t) PROVE Final(l)
    BY <2>2 DEF BulkAddCommit, InFlight, Absent
  <2>3. ASSUME NEW t \in Tx, DeleteCommit(t) PROVE Final(l)
    BY <2>3 DEF DeleteCommit
  <2>4. ASSUME NEW t \in Tx, AllocateCommit(t) PROVE Final(l)
    <3>1. tx[t].rows \subseteq Available
      BY <2>4 DEF AllocateCommit, InFlight, Placing
    <3> QED BY <2>4, <3>1 DEF AllocateCommit, Available
  <2>5. ASSUME NEW t \in Tx, ReleaseCommit(t) PROVE Final(l)
    BY <2>5 DEF ReleaseCommit, LinesOf, HeldBy
  <2>6. ASSUME NEW i \in Item, MarkSold(i) \/ RetireForOrderItem(i) PROVE Final(l)
    BY <2>6 DEF MarkSold, RetireForOrderItem, LinesOf, HeldBy
  <2>7. ASSUME NEW i \in Item, SyncReservationExpiry(i) \/ DeadlinePasses(i) PROVE Final(l)
    BY <2>7 DEF SyncReservationExpiry, DeadlinePasses
  <2>8. ASSUME NEW k \in Line, DropClaim(k) PROVE Final(l)
    BY <2>8 DEF DropClaim
  <2> QED BY LineWriters, <2>1, <2>2, <2>3, <2>4, <2>5, <2>6, <2>7, <2>8
<1>2. IInv /\ [Next]_vars => [\A l \in Line : Final(l)]_vars
  BY <1>1
<1> QED BY Invariance, <1>2, PTL DEF Spec, SoldIsFinal

-------------------------------------------------------------------------------
\* The state of the abstract line, for one line.
LEMMA PhaseValue ==
    ASSUME NEW l \in Line
    PROVE  /\ Phase[l] = CASE status[l] = "ABSENT" -> "absent"
                           [] status[l] = "AVAILABLE" -> "free"
                           [] status[l] = "RESERVED" -> "held"
                           [] OTHER -> IF l \in claimed THEN "claimed" ELSE "sold"
           /\ Phase'[l] = CASE status'[l] = "ABSENT" -> "absent"
                            [] status'[l] = "AVAILABLE" -> "free"
                            [] status'[l] = "RESERVED" -> "held"
                            [] OTHER -> IF l \in claimed' THEN "claimed" ELSE "sold"
BY DEF Phase

\* Two abstract states agree when they agree on every line.
LEMMA MoveByLine ==
    ASSUME IInv, TypeOK', NEW S, NEW p, NEW h,
           \A l \in Line : /\ Phase'[l] = IF l \in S THEN p ELSE Phase[l]
                           /\ orderItemId'[l] = IF l \in S THEN h ELSE orderItemId[l]
    PROVE  Life!Move(S, p, h)
<1>1. Phase' = [l \in Line |-> IF l \in S THEN p ELSE Phase[l]]
  BY DEF Phase
<1>2. orderItemId' = [l \in Line |-> IF l \in S THEN h ELSE orderItemId[l]]
  BY DEF TypeOK
<1> QED BY <1>1, <1>2 DEF Life!Move

\* Every step of the code is a step in the life of the lines, or none.
LEMMA LifeStep == IInv /\ [Next]_vars => [Life!Next]_(Life!lifeVars)
<1> SUFFICES ASSUME IInv, [Next]_vars PROVE Life!Next \/ UNCHANGED Life!lifeVars
  OBVIOUS
<1>0. TypeOK' /\ LineOwnership'
  BY TypeStep, OwnershipStep
<1> USE DEF IInv, TypeOK, LineOwnership
<1>1. CASE UNCHANGED <<status, orderItemId, claimed>>
  BY <1>1 DEF Life!lifeVars, Phase
<1>2. ASSUME NEW t \in Tx, BulkAddCommit(t) PROVE Life!Next
  <2> DEFINE S == tx[t].rows
  <2>1. S \in SUBSET Line /\ S \subseteq Absent
    BY <1>2 DEF BulkAddCommit, InFlight, TxRecord
  <2>2. S \subseteq Life!In("absent")
    BY <2>1, PhaseValue DEF Life!In, Absent
  <2>3. Life!Move(S, "free", NoItem)
    <3> SUFFICES ASSUME NEW l \in Line
                 PROVE  /\ Phase'[l] = IF l \in S THEN "free" ELSE Phase[l]
                        /\ orderItemId'[l] = IF l \in S THEN NoItem ELSE orderItemId[l]
      BY <1>0, MoveByLine
    <3>1. /\ status'[l] = IF l \in S THEN "AVAILABLE" ELSE status[l]
          /\ orderItemId' = orderItemId /\ claimed' = claimed
      BY <1>2 DEF BulkAddCommit
    <3> QED BY <2>1, <3>1, PhaseValue DEF Absent
  <2> QED BY <2>1, <2>2, <2>3 DEF Life!Next, Life!Upload
<1>3. ASSUME NEW t \in Tx, DeleteCommit(t) PROVE Life!Next
  <2> DEFINE S == tx[t].rows
  <2>1. S \in SUBSET Line
    BY DEF TxRecord
  <2>2. Life!Move(S, "absent", NoItem)
    <3> SUFFICES ASSUME NEW l \in Line
                 PROVE  /\ Phase'[l] = IF l \in S THEN "absent" ELSE Phase[l]
                        /\ orderItemId'[l] = IF l \in S THEN NoItem ELSE orderItemId[l]
      BY <1>0, MoveByLine
    <3>1. /\ status'[l] = IF l \in S THEN "ABSENT" ELSE status[l]
          /\ orderItemId'[l] = IF l \in S THEN NoItem ELSE orderItemId[l]
          /\ claimed' = claimed \ S
      BY <1>3 DEF DeleteCommit
    <3> QED BY <3>1, PhaseValue
  <2> QED BY <2>1, <2>2 DEF Life!Next, Life!Delete
<1>4. ASSUME NEW t \in Tx, AllocateCommit(t) PROVE Life!Next \/ UNCHANGED Life!lifeVars
  <2> DEFINE S == tx[t].rows
             i == tx[t].item
  <2>1. S \in SUBSET Line /\ S \subseteq Available /\ i \in Item \ placed
    BY <1>4 DEF AllocateCommit, InFlight, Placing, TxRecord
  <2>2. /\ status' = [l \in Line |-> IF l \in S THEN "RESERVED" ELSE status[l]]
        /\ orderItemId' = [l \in Line |-> IF l \in S THEN i ELSE orderItemId[l]]
        /\ claimed' = claimed
    BY <1>4 DEF AllocateCommit
  <2>3. CASE S = {}
    BY <2>2, <2>3 DEF Life!lifeVars, Phase
  <2>4. CASE S # {}
    <3>1. Cardinality(S) = Quantity[i]
      BY <1>4, <2>4 DEF AllocateCommit, InFlight, Placing
    <3>2. \A l \in Line : orderItemId[l] # i
      BY <2>1, NoItemAssumption
    <3>3. S \subseteq Life!In("free")
      BY <2>1, PhaseValue DEF Life!In, Available
    <3>4. Life!Move(S, "held", i)
      <4> SUFFICES ASSUME NEW l \in Line
                   PROVE  /\ Phase'[l] = IF l \in S THEN "held" ELSE Phase[l]
                          /\ orderItemId'[l] = IF l \in S THEN i ELSE orderItemId[l]
        BY <1>0, MoveByLine
      <4> QED BY <2>1, <2>2, PhaseValue
    <3>5. Life!Cardinality(S) = Quantity[i]
      BY <3>1 DEF Life!Cardinality, Cardinality, Life!IsFiniteSet, IsFiniteSet
    <3> QED BY <2>1, <3>2, <3>3, <3>4, <3>5 DEF Life!Next, Life!Hold
  <2> QED BY <2>3, <2>4
<1>5. \A i \in Item : Life!HeldFor(i) = LinesOf(i, "RESERVED")
  <2> SUFFICES ASSUME NEW i \in Item, NEW l \in Line
               PROVE  Phase[l] = "held" <=> status[l] = "RESERVED"
    BY DEF Life!HeldFor, Life!In, LinesOf, HeldBy
  <2> QED BY PhaseValue DEF Status
<1>6. ASSUME NEW t \in Tx, ReleaseCommit(t) PROVE Life!Next \/ UNCHANGED Life!lifeVars
  <2> DEFINE i == tx[t].item
             S == LinesOf(i, "RESERVED")
  <2>2. /\ status' = [l \in Line |-> IF l \in S THEN "AVAILABLE" ELSE status[l]]
        /\ orderItemId' = [l \in Line |-> IF l \in S THEN NoItem ELSE orderItemId[l]]
        /\ claimed' = claimed
    BY <1>6 DEF ReleaseCommit
  <2>3. CASE i \in Item
    <3>1. Life!Move(S, "free", NoItem)
      <4> SUFFICES ASSUME NEW l \in Line
                   PROVE  /\ Phase'[l] = IF l \in S THEN "free" ELSE Phase[l]
                          /\ orderItemId'[l] = IF l \in S THEN NoItem ELSE orderItemId[l]
        BY <1>0, MoveByLine
      <4> QED BY <2>2, PhaseValue
    <3> QED BY <1>5, <2>3, <3>1 DEF Life!Next, Life!GiveBack
  <2>4. CASE i \notin Item
    <3>1. i = NoItem
      BY <2>4 DEF TxRecord
    <3>2. S = {}
      BY <3>1, NoItemAssumption DEF LinesOf, HeldBy
    <3> QED BY <2>2, <3>2 DEF Life!lifeVars, Phase
  <2> QED BY <2>3, <2>4
<1>7. ASSUME NEW i \in Item, MarkSold(i) PROVE Life!Next
  <2> DEFINE S == LinesOf(i, "RESERVED")
  <2>2. /\ status' = [l \in Line |-> IF l \in S THEN "SOLD" ELSE status[l]]
        /\ orderItemId' = orderItemId /\ claimed' = claimed
    BY <1>7 DEF MarkSold
  <2>3. \A l \in S : orderItemId[l] = i /\ l \notin claimed
    BY DEF LinesOf, HeldBy
  <2>4. Life!Move(S, "sold", i)
    <3> SUFFICES ASSUME NEW l \in Line
                 PROVE  /\ Phase'[l] = IF l \in S THEN "sold" ELSE Phase[l]
                        /\ orderItemId'[l] = IF l \in S THEN i ELSE orderItemId[l]
      BY <1>0, MoveByLine
    <3> QED BY <2>2, <2>3, PhaseValue
  <2> QED BY <1>5, <2>4 DEF Life!Next, Life!Sell
<1>8. ASSUME NEW i \in Item, RetireForOrderItem(i) PROVE UNCHANGED Life!lifeVars
  <2> DEFINE S == LinesOf(i, "SOLD")
  <2>1. /\ status' = [l \in Line |-> IF l \in S THEN "REFUNDED" ELSE status[l]]
        /\ orderItemId' = orderItemId /\ claimed' = claimed
    BY <1>8 DEF RetireForOrderItem
  <2>2. \A l \in Line : Phase'[l] = Phase[l]
    BY <2>1, PhaseValue DEF LinesOf, HeldBy
  <2>3. Phase' = Phase
    BY <2>2 DEF Phase
  <2> QED BY <2>1, <2>3 DEF Life!lifeVars
<1>9. ASSUME NEW i \in Item, SyncReservationExpiry(i) \/ DeadlinePasses(i)
      PROVE  UNCHANGED <<status, orderItemId, claimed>>
  BY <1>9 DEF SyncReservationExpiry, DeadlinePasses
<1>10. ASSUME NEW k \in Line, DropClaim(k) PROVE Life!Next
  <2>1. status[k] = "AVAILABLE" /\ orderItemId[k] = NoItem
    BY <1>10 DEF DropClaim
  <2>2. /\ status' = [status EXCEPT ![k] = "SOLD"]
        /\ orderItemId' = orderItemId /\ claimed' = claimed \cup {k}
    BY <1>10 DEF DropClaim
  <2>3. k \in Life!In("free")
    BY <2>1, PhaseValue DEF Life!In
  <2>4. Life!Move({k}, "claimed", NoItem)
    <3> SUFFICES ASSUME NEW l \in Line
                 PROVE  /\ Phase'[l] = IF l \in {k} THEN "claimed" ELSE Phase[l]
                        /\ orderItemId'[l] = IF l \in {k} THEN NoItem ELSE orderItemId[l]
      BY <1>0, MoveByLine
    <3> QED BY <2>1, <2>2, PhaseValue
  <2> QED BY <2>3, <2>4 DEF Life!Next, Life!Claim
<1>11. UNCHANGED lineVars => UNCHANGED <<status, orderItemId, claimed>>
  BY DEF lineVars
<1> QED BY LineWriters, <1>1, <1>2, <1>3, <1>4, <1>6, <1>7, <1>8, <1>9, <1>10, <1>11

\* The transactions on stock lines implement the life the shop promises of a line.
THEOREM LifeRefinement == Spec => ImplementsLife
<1>1. Init => Life!Init
  <2> SUFFICES ASSUME Init PROVE Life!Init
    OBVIOUS
  <2>1. Phase = [l \in Line |-> "absent"]
    BY DEF Phase, Init
  <2> QED BY <2>1 DEF Init, Life!Init
<1>2. IInv /\ [Next]_vars => [Life!Next]_(Life!lifeVars)
  BY LifeStep
<1> QED BY <1>1, Invariance, <1>2, PTL DEF Spec, ImplementsLife, Life!Spec

===============================================================================
