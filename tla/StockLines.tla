------------------------------ MODULE StockLines ------------------------------
(***************************************************************************)
(* The stock lines of one product variant (stock-line.service.ts) and the  *)
(* counter product_variants.stockQuantity kept beside them.                *)
(*                                                                         *)
(* PostgreSQL runs these transactions at READ COMMITTED.  A transaction is *)
(* a record in tx: the step that reads the rows fills it in, the step that *)
(* commits applies its writes, and every other connection may commit in    *)
(* between.  Writes join the commit because the row locks they take keep   *)
(* the written rows as they are until then.  Every statement is confined   *)
(* to one variantId, so one variant is modelled.                           *)
(***************************************************************************)
EXTENDS Integers, FiniteSets

CONSTANTS
    Line,          \* contents an admin may upload: unique by (variantId, contentHash)
    Item,          \* order items of this variant
    Tx,            \* database connections
    Quantity,      \* Quantity[i]: units bought by order item i
    NoItem,        \* a null orderItemId
    InitialStock,  \* values the counter may be created with, without any line
    CounterEdits,  \* values an admin may write straight into the counter
    MaxStock       \* bound: a counter-only restore stays at or below it

ASSUME QuantityAssumption == Quantity \in [Item -> Nat \ {0}]
ASSUME NoItemAssumption == NoItem \notin Item
ASSUME LineAssumption == IsFiniteSet(Line)
ASSUME StockAssumption ==
    /\ InitialStock \subseteq Int
    /\ CounterEdits \subseteq Int
    /\ MaxStock \in Int

VARIABLES
    status,         \* line -> ProductStockLine.status, "ABSENT" when there is no row
    orderItemId,    \* line -> the order item it is reserved for or sold to
    claimed,        \* lines a DropClaim row points to
    stale,          \* RESERVED lines whose reservedUntil has passed
    placed,         \* order items whose createOrder transaction committed
    counterOnly,    \* of these, the ones that only decremented the counter (history)
    stockQuantity,  \* the variant's counter
    tx              \* connection -> the transaction open on it

lineVars == <<status, orderItemId, claimed, stale>>
orders == <<placed, counterOnly>>
vars == <<status, orderItemId, claimed, stale, placed, counterOnly, stockQuantity, tx>>

Status == {"ABSENT", "AVAILABLE", "RESERVED", "SOLD", "REFUNDED"}

Ops == {"idle", "bulkAdd", "deleteChecked", "deleted", "counted", "itemCreated",
        "allocate", "legacy", "releaseCalled", "release", "restoreCounter"}

Idle == [op |-> "idle", item |-> NoItem, rows |-> {}, n |-> 0]

-------------------------------------------------------------------------------

Available == {l \in Line : status[l] = "AVAILABLE"}
Absent == {l \in Line : status[l] = "ABSENT"}
HeldBy(i) == {l \in Line : orderItemId[l] = i}

LinesOf(i, s) == {l \in HeldBy(i) : status[l] = s}

\* Faulty variant: nobody takes the row lock.
NoVariantLock == FALSE

\* SELECT ... FOR UPDATE on the variant row: whoever updates the row waits for it.
VariantLocked == \E t \in Tx : tx[t].op \in {"allocate", "legacy"}

\* Inserting a row that references the variant takes FOR KEY SHARE on it, which a
\* plain update of the counter does not wait for but SELECT ... FOR UPDATE does.
KeyHolders == {t \in Tx : \/ tx[t].op = "itemCreated"
                          \/ tx[t].op = "bulkAdd" /\ tx[t].rows # {}}

\* Rows deleted by a transaction that has not committed: a writer waits for them.
DeletedRows == UNION {tx[t].rows : t \in {u \in Tx : tx[u].op \in {"deleted", "counted"}}}

\* Contents inserted by a transaction that has not committed.
InsertedRows == UNION {tx[t].rows : t \in {u \in Tx : tx[u].op = "bulkAdd"}}

Begin(t, op, i, rows, n) ==
    /\ tx[t].op = "idle"
    /\ tx' = [tx EXCEPT ![t] = [op |-> op, item |-> i, rows |-> rows, n |-> n]]

Advance(t, op, n) ==
    tx' = [tx EXCEPT ![t] = [op |-> op, item |-> tx[t].item, rows |-> tx[t].rows, n |-> n]]

End(t) == tx' = [tx EXCEPT ![t] = Idle]

Init ==
    /\ status = [l \in Line |-> "ABSENT"]
    /\ orderItemId = [l \in Line |-> NoItem]
    /\ claimed = {}
    /\ stale = {}
    /\ placed = {}
    /\ counterOnly = {}
    /\ stockQuantity \in InitialStock
    /\ tx = [t \in Tx |-> Idle]

-------------------------------------------------------------------------------
(* Admin uploads and deletions.                                            *)

\* createMany with skipDuplicates, then the count of AVAILABLE lines.
BulkAddInsert(t, new) ==
    /\ new # {} => ~VariantLocked
    /\ new \subseteq Absent \ InsertedRows
    /\ Begin(t, "bulkAdd", NoItem, new, Cardinality(Available) + Cardinality(new))
    /\ UNCHANGED <<lineVars, orders, stockQuantity>>

BulkAddCommit(t) ==
    /\ tx[t].op = "bulkAdd"
    /\ ~VariantLocked
    /\ status' = [l \in Line |-> IF l \in tx[t].rows THEN "AVAILABLE" ELSE status[l]]
    /\ stockQuantity' = tx[t].n
    /\ End(t)
    /\ UNCHANGED <<orderItemId, claimed, stale, orders>>

\* deleteAvailableLine tests the status on the row it read, without a lock...
DeleteCheck(t, l) ==
    /\ status[l] = "AVAILABLE"
    /\ Begin(t, "deleteChecked", NoItem, {l}, 0)
    /\ UNCHANGED <<lineVars, orders, stockQuantity>>

\* ...and deletes by id alone; a row that is gone makes the delete throw (Abort).
DeleteRow(t) ==
    /\ tx[t].op = "deleteChecked"
    /\ tx[t].rows # {}
    /\ tx[t].rows \cap DeletedRows = {}
    /\ Advance(t, "deleted", 0)
    /\ UNCHANGED <<lineVars, orders, stockQuantity>>

\* clearAvailable: deleteMany on status AVAILABLE.
ClearAvailable(t) ==
    /\ Available \cap DeletedRows = {}
    /\ Begin(t, "deleted", NoItem, Available, 0)
    /\ UNCHANGED <<lineVars, orders, stockQuantity>>

\* syncVariantAvailableCount: the count, which sees the transaction's own deletes...
CountAvailable(t) ==
    /\ tx[t].op = "deleted"
    /\ Advance(t, "counted", Cardinality(Available \ tx[t].rows))
    /\ UNCHANGED <<lineVars, orders, stockQuantity>>

\* ...and the absolute write of the counter, with the commit of the deletion.
DeleteCommit(t) ==
    /\ tx[t].op = "counted"
    /\ ~VariantLocked
    /\ LET gone == tx[t].rows IN
        /\ status' = [l \in Line |-> IF l \in gone THEN "ABSENT" ELSE status[l]]
        /\ orderItemId' = [l \in Line |-> IF l \in gone THEN NoItem ELSE orderItemId[l]]
        /\ claimed' = claimed \ gone
        /\ stale' = stale \ gone
        /\ tx' = [u \in Tx |-> IF u = t THEN Idle
                               ELSE [tx[u] EXCEPT !.rows = IF tx[u].op = "deleteChecked"
                                                           THEN @ \ gone ELSE @]]
    /\ stockQuantity' = tx[t].n
    /\ UNCHANGED orders

\* product.service updateVariant writes the counter an admin typed.
SetStockQuantity(q) ==
    /\ q \in CounterEdits
    /\ ~VariantLocked
    /\ stockQuantity' = q
    /\ UNCHANGED <<lineVars, orders, tx>>

-------------------------------------------------------------------------------
(* createOrder: allocateForOrderItem under the variant's row lock.         *)

\* orderItem.create; an item belongs to the transaction that inserts it.
CreateOrderItem(t, i) ==
    /\ i \notin placed
    /\ \A u \in Tx : tx[u].item = i => tx[u].op \notin {"itemCreated", "allocate", "legacy"}
    /\ ~VariantLocked
    /\ Begin(t, "itemCreated", i, {}, 0)
    /\ UNCHANGED <<lineVars, orders, stockQuantity>>

\* FOR UPDATE is granted.  Two checkouts that both inserted an item of the variant
\* wait here for each other, and one of them is aborted.
LockVariantRow(t, op, rows) ==
    /\ ~VariantLocked /\ KeyHolders \subseteq {t}
    /\ tx' = [tx EXCEPT ![t] = [op |-> op, item |-> tx[t].item, rows |-> rows, n |-> 0]]
    /\ UNCHANGED <<lineVars, orders, stockQuantity>>

\* Faulty variant: LIMIT one more than the quantity.
AllocateOneMore(t, picked) ==
    /\ tx[t].op = "itemCreated"
    /\ picked \subseteq Available
    /\ Cardinality(picked) \in {Quantity[tx[t].item], Quantity[tx[t].item] + 1}
    /\ LockVariantRow(t, "allocate", picked)

\* The oldest lines are taken; which those are is left open, as lines of one
\* upload share their createdAt.
AllocateLines(t, picked) ==
    /\ tx[t].op = "itemCreated"
    /\ picked \subseteq Available
    /\ Cardinality(picked) = Quantity[tx[t].item]
    /\ LockVariantRow(t, "allocate", picked)

\* No line at all, but the counter covers the item: counter-only decrement.
AllocateLegacy(t) ==
    /\ tx[t].op = "itemCreated"
    /\ Available = {}
    /\ stockQuantity >= Quantity[tx[t].item]
    /\ LockVariantRow(t, "legacy", {})

\* updateMany by id: it does not test the status again.
AllocateCommit(t) ==
    /\ tx[t].op \in {"allocate", "legacy"}
    /\ LET i == tx[t].item
           rows == tx[t].rows
       IN  /\ rows \cap DeletedRows = {}
           /\ status' = [l \in Line |-> IF l \in rows THEN "RESERVED" ELSE status[l]]
           /\ orderItemId' = [l \in Line |-> IF l \in rows THEN i ELSE orderItemId[l]]
           /\ stale' = stale \ rows
           /\ placed' = placed \cup {i}
           /\ counterOnly' = IF rows = {} THEN counterOnly \cup {i} ELSE counterOnly
           /\ stockQuantity' = stockQuantity - Quantity[i]
    /\ End(t)
    /\ UNCHANGED claimed

-------------------------------------------------------------------------------
(* What the order, payment and sweeper code does to a placed item.         *)

MarkSold(i) ==
    LET rows == LinesOf(i, "RESERVED") IN
    /\ i \in placed
    /\ rows \cap DeletedRows = {}
    /\ status' = [l \in Line |-> IF l \in rows THEN "SOLD" ELSE status[l]]
    /\ stale' = stale \ rows
    /\ UNCHANGED <<orderItemId, claimed, orders, stockQuantity, tx>>

RetireForOrderItem(i) ==
    LET rows == LinesOf(i, "SOLD") IN
    /\ i \in placed
    /\ rows \cap DeletedRows = {}
    /\ status' = [l \in Line |-> IF l \in rows THEN "REFUNDED" ELSE status[l]]
    /\ UNCHANGED <<orderItemId, claimed, stale, orders, stockQuantity, tx>>

\* createPayment moves reservedUntil to the payment's expiry.
SyncReservationExpiry(i) ==
    /\ i \in placed
    /\ stale' = stale \ LinesOf(i, "RESERVED")
    /\ UNCHANGED <<status, orderItemId, claimed, orders, stockQuantity, tx>>

\* reservedUntil < now, for the lines of one item: they share the deadline.
DeadlinePasses(i) ==
    /\ stale' = stale \cup LinesOf(i, "RESERVED")
    /\ UNCHANGED <<status, orderItemId, claimed, orders, stockQuantity, tx>>

\* expirePayment calls releaseReservedForOrder for every item of the order.
ReleaseReserved(t, i) ==
    /\ i \in placed
    /\ Begin(t, "releaseCalled", i, {}, 0)
    /\ UNCHANGED <<lineVars, orders, stockQuantity>>

\* Faulty variant: reservedUntil is compared the wrong way round.
SweepFresh(t, i) ==
    /\ LinesOf(i, "RESERVED") \ stale # {}
    /\ Begin(t, "releaseCalled", i, {}, 0)
    /\ UNCHANGED <<lineVars, orders, stockQuantity>>

\* One item of the sweeper: its own transaction counts the stale lines again.
SweepStale(t, i) ==
    /\ LinesOf(i, "RESERVED") \cap stale # {}
    /\ Begin(t, "releaseCalled", i, {}, 0)
    /\ UNCHANGED <<lineVars, orders, stockQuantity>>

\* cancelOrder: no RESERVED line left means a counter-only reservation.
RestoreCancelled(t, i) ==
    /\ i \in placed
    /\ IF LinesOf(i, "RESERVED") # {}
       THEN Begin(t, "releaseCalled", i, {}, 0)
       ELSE Begin(t, "restoreCounter", i, {}, Quantity[i])
    /\ UNCHANGED <<lineVars, orders, stockQuantity>>

\* releaseForOrderItem: the read that fixes the increment...
ReleaseRead(t) ==
    /\ tx[t].op = "releaseCalled"
    /\ LET n == Cardinality(LinesOf(tx[t].item, "RESERVED")) IN
        IF n = 0 THEN End(t)
        ELSE Advance(t, "release", n)
    /\ UNCHANGED <<lineVars, orders, stockQuantity>>

\* ...the conditional updateMany and the increment by what was read.
ReleaseCommit(t) ==
    /\ tx[t].op = "release"
    /\ ~VariantLocked
    /\ LET rows == LinesOf(tx[t].item, "RESERVED") IN
        /\ rows \cap DeletedRows = {}
        /\ status' = [l \in Line |-> IF l \in rows THEN "AVAILABLE" ELSE status[l]]
        /\ orderItemId' = [l \in Line |-> IF l \in rows THEN NoItem ELSE orderItemId[l]]
        /\ stale' = stale \ rows
    /\ stockQuantity' = stockQuantity + tx[t].n
    /\ End(t)
    /\ UNCHANGED <<claimed, orders>>

RestoreCounterCommit(t) ==
    /\ tx[t].op = "restoreCounter"
    /\ ~VariantLocked
    /\ stockQuantity + tx[t].n <= MaxStock
    /\ stockQuantity' = stockQuantity + tx[t].n
    /\ End(t)
    /\ UNCHANGED <<lineVars, orders>>

\* drop.service claim: Serializable, and any concurrent change of the variant or
\* of the line makes it fail, so what commits happened in one step.
DropClaim(l) ==
    /\ ~VariantLocked
    /\ KeyHolders = {}
    /\ status[l] = "AVAILABLE"
    /\ l \notin DeletedRows
    /\ status' = [status EXCEPT ![l] = "SOLD"]
    /\ claimed' = claimed \cup {l}
    /\ stockQuantity' = stockQuantity - 1
    /\ UNCHANGED <<orderItemId, stale, orders, tx>>

\* A deadlock victim, a failed statement, a lost connection: all is rolled back.
Abort(t) ==
    /\ tx[t].op # "idle"
    /\ End(t)
    /\ UNCHANGED <<lineVars, orders, stockQuantity>>

-------------------------------------------------------------------------------

AdminStep(t) ==
    \/ \E new \in SUBSET Line : BulkAddInsert(t, new)
    \/ BulkAddCommit(t)
    \/ \E l \in Line : DeleteCheck(t, l)
    \/ DeleteRow(t)
    \/ ClearAvailable(t)
    \/ CountAvailable(t)
    \/ DeleteCommit(t)

OrderStep(t) ==
    \/ \E i \in Item : CreateOrderItem(t, i)
    \/ \E picked \in SUBSET Line : AllocateLines(t, picked)
    \/ AllocateLegacy(t)
    \/ AllocateCommit(t)
    \/ \E i \in Item : ReleaseReserved(t, i)
    \/ \E i \in Item : SweepStale(t, i)
    \/ \E i \in Item : RestoreCancelled(t, i)
    \/ ReleaseRead(t)
    \/ ReleaseCommit(t)
    \/ RestoreCounterCommit(t)
    \/ Abort(t)

ItemStep(i) ==
    \/ MarkSold(i)
    \/ RetireForOrderItem(i)
    \/ SyncReservationExpiry(i)
    \/ DeadlinePasses(i)

Next ==
    \/ \E t \in Tx : AdminStep(t) \/ OrderStep(t)
    \/ \E i \in Item : ItemStep(i)
    \/ \E l \in Line : DropClaim(l)
    \/ \E q \in CounterEdits : SetStockQuantity(q)

Spec == Init /\ [][Next]_vars

\* The sweeper comes back every three minutes, so a release that failed is tried
\* again: once the failures are over, only other transactions abort.  Prisma times an
\* open transaction out, and PostgreSQL queues whoever waits for a row lock.
SteadyStep == Next /\ ~\E t \in Tx : tx[t].op \in {"releaseCalled", "release"} /\ Abort(t)

FairSpec ==
    /\ Init /\ [][SteadyStep]_vars
    /\ \A t \in Tx : /\ WF_vars(tx[t].op \notin {"releaseCalled", "release"} /\ Abort(t))
                    /\ WF_vars(ReleaseRead(t))
                    /\ SF_vars(ReleaseCommit(t))
    /\ \A i \in Item : SF_vars(\E t \in Tx : SweepStale(t, i))

-------------------------------------------------------------------------------

TxRecord == [op : Ops, item : Item \cup {NoItem}, rows : SUBSET Line, n : Int]

TypeOK ==
    /\ status \in [Line -> Status]
    /\ orderItemId \in [Line -> Item \cup {NoItem}]
    /\ claimed \in SUBSET Line
    /\ stale \in SUBSET Line
    /\ placed \in SUBSET Item
    /\ counterOnly \in SUBSET placed
    /\ stockQuantity \in Int
    /\ tx \in [Tx -> TxRecord]

\* Every row's status agrees with who points to it: a line in the pool has no taker,
\* a reserved or refunded one belongs to a placed item, and a sold one to an order
\* item or to a drop claim but never to both.  Reservations pick rows and write them
\* by id later, so this rests on the row lock allocateForOrderItem and claim take.
LineOwnership ==
    \A l \in Line :
        /\ status[l] \in {"ABSENT", "AVAILABLE"} => orderItemId[l] = NoItem /\ l \notin claimed
        /\ status[l] \in {"RESERVED", "REFUNDED"} => orderItemId[l] \in placed /\ l \notin claimed
        /\ status[l] = "SOLD" => (orderItemId[l] = NoItem <=> l \in claimed)
        /\ orderItemId[l] \in placed \cup {NoItem}
        /\ l \in stale => status[l] = "RESERVED"

\* An order item never holds more lines than the units it bought, whatever
\* allocations, expiries, sweeps and cancellations overlap.
ItemQuota == \A i \in Item : Cardinality(HeldBy(i)) <= Quantity[i]

\* A line reaches another buyer only through the pool: its order item changes
\* only when the row goes back to AVAILABLE or is deleted.
NeverReassigned ==
    [][\A l \in Line :
         (orderItemId[l] # NoItem /\ orderItemId'[l] # orderItemId[l])
            => (orderItemId'[l] = NoItem /\ status'[l] \in {"AVAILABLE", "ABSENT"})]_vars

\* What a buyer was given is never put back on sale: a SOLD or REFUNDED row keeps
\* its owner and never becomes AVAILABLE or RESERVED again, even if a late release,
\* a sweep or a second cancel runs after the sale.
SoldIsFinal ==
    [][\A l \in Line :
         (status[l] \in {"SOLD", "REFUNDED"} /\ status'[l] # "ABSENT")
            => /\ status'[l] \in {status[l], "REFUNDED"}
               /\ orderItemId'[l] = orderItemId[l]
               /\ (l \in claimed' <=> l \in claimed)]_vars

\* Every reservation past its deadline ends: the sweeper gives the lines back, or
\* they are paid for, or a new payment moves the deadline.
StaleReservationEnds ==
    \A i \in Item : (LinesOf(i, "RESERVED") \cap stale # {})
                    ~> (LinesOf(i, "RESERVED") \cap stale = {})

-------------------------------------------------------------------------------
(* The abstract life of a line and the mapping that implements it.         *)

Phase == [l \in Line |->
            CASE status[l] = "ABSENT" -> "absent"
              [] status[l] = "AVAILABLE" -> "free"
              [] status[l] = "RESERVED" -> "held"
              [] OTHER -> IF l \in claimed THEN "claimed" ELSE "sold"]

Life == INSTANCE LineLife WITH phase <- Phase, holder <- orderItemId

\* Behind the transactions, their locks and their unlocked reads, every step is one
\* of the life of a line or changes nothing there: an item is given all of its units
\* at once and only from the pool, gives back or buys all that it holds, and what was
\* sold or claimed leaves only by deletion.
ImplementsLife == Life!Spec

-------------------------------------------------------------------------------
(* Three statements of the code that TLC refutes; README.md tells how.     *)

\* "increments variant stock by released RESERVED count": a step that ends a
\* release moves the counter by the lines it put back.
ReleaseCountsLines ==
    [][\A t \in Tx : ReleaseCommit(t) =>
         stockQuantity' - stockQuantity =
            Cardinality({l \in Line : status[l] = "RESERVED" /\ status'[l] = "AVAILABLE"})]_vars

\* "onlyAvailableDeletable": only an AVAILABLE line is ever deleted.
OnlyAvailableDeleted ==
    [][\A l \in Line : (status[l] # "ABSENT" /\ status'[l] = "ABSENT")
                        => status[l] = "AVAILABLE"]_vars

\* "Undo checkout reservation for a cancelled PENDING order line": a cancel that adds
\* the whole quantity back to the counter does so for a counter-only reservation, not
\* for one whose lines the sweeper or an expired payment has already given back.
RestoreUndoesReservation ==
    [][\A t \in Tx : RestoreCounterCommit(t) =>
         \/ tx[t].item \in counterOnly
         \/ HeldBy(tx[t].item) # {}]_vars

===============================================================================
