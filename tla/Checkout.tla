--------------------------------- MODULE Checkout ------------------------------
(***************************************************************************)
(* From a cart to an order (order.service.ts, createOrder), with the       *)
(* coupon the buyer names, while buyers change their carts and the staff   *)
(* change coupons and products.                                            *)
(*                                                                         *)
(* createOrder reads the cart twice and the coupon once outside of its     *)
(* transaction.  The transaction's own statements (the conditional         *)
(* increment of the coupon's usage, the locked allocation of variants, the *)
(* decrement of counters) hold their row locks until it commits, so that   *)
(* the transaction is one step.                                            *)
(***************************************************************************)
EXTENDS Coupons, Carts, FiniteSetsExt

CONSTANT Fee   \* BUYER_PROTECTION_FEE_USD

ASSUME CheckoutAssumption == Fee \in Nat \ {0} /\ Good \subseteq Category /\ "none" \notin CouponId

VARIABLE orders   \* set of orders placed

checkoutVars == <<couponVars, cartVars, callVars, orders>>

\* Products of different categories, so that a good stands for its category.
CategoriesOf(lines) == {l.good : l \in lines}

Subtotal(lines) == MapThenSumSet(LAMBDA l : l.unitPrice * l.quantity, lines)

QuantityOf(g, lines) ==
    MapThenSumSet(LAMBDA l : l.quantity, {l \in lines : l.good = g})

Applicable(row, lines) == Subtotal({l \in lines : InScope(row, l.good)})

\* validateCartForOrder on one line: a deleted product that is still active passes.
Orderable(l) ==
    /\ goods[l.good].isActive
    /\ l.good \in Lined => ~goods[l.good].deleted
    /\ goods[l.good].stock >= l.quantity

CheckoutInit ==
    /\ CouponInit
    /\ CartInit
    /\ CallsInit
    /\ orders = {}

\* createOrder: the cart and its goods are validated.
OrderBegin(p, u, code, protection) ==
    /\ carts[u] # {}
    /\ \A l \in carts[u] : Orderable(l)
    /\ Begin(p, [at |-> "order.read", user |-> u, code |-> code, protection |-> protection])
    /\ UNCHANGED <<couponVars, cartVars, orders>>

\* createOrder: the cart is read again, for good.
OrderRead(p) ==
    /\ At(p, "order.read")
    /\ LET c == calls[p]
       IN  \/ carts[c.user] = {} /\ Return(p)
           \/ /\ carts[c.user] # {}
              /\ Goto(p, [at |-> "order.price", user |-> c.user, code |-> c.code,
                          protection |-> c.protection, lines |-> carts[c.user]])
    /\ UNCHANGED <<couponVars, cartVars, orders>>

FeeOf(protection) == IF protection THEN Fee ELSE 0

\* The order createOrder is about to write.
Priced(c, couponUsed, discount) ==
    [user |-> c.user, lines |-> c.lines, coupon |-> couponUsed, discount |-> discount,
     total |-> Subtotal(c.lines) - discount + FeeOf(c.protection), protection |-> c.protection]

\* createOrder: findActiveByCode, the discount, the total, which must be above zero.  The
\* limit of the coupon that the transaction will test is the one read here.
OrderPrice(p) ==
    /\ At(p, "order.price")
    /\ LET c == calls[p]
           Commits(order, limit) ==
               IF order.total > 0
               THEN Goto(p, [at |-> "order.commit", order |-> order, limit |-> limit])
               ELSE Return(p)
       IN  \/ c.code = "none" /\ Commits(Priced(c, "none", 0), 0)
           \/ /\ c.code # "none"
              /\ VerdictOf(c.code, CategoriesOf(c.lines)) # "VALID"
              /\ Return(p)
           \/ /\ c.code # "none"
              /\ VerdictOf(c.code, CategoriesOf(c.lines)) = "VALID"
              /\ \E k \in RowsOf(c.code) :
                    Commits(Priced(c, k, Discount(coupons[k], Applicable(coupons[k], c.lines))),
                            coupons[k].maxUses)
    /\ UNCHANGED <<couponVars, cartVars, orders>>

\* Faulty variant: the transaction counts the use and tests nothing.
UseUntested(k, limit) == TRUE

\* The condition of the transaction's update of the coupon.
UseAllowed(k, limit) ==
    /\ coupons[k].isActive
    /\ ~coupons[k].deleted
    /\ limit # 0 => coupons[k].used < limit
    /\ coupons[k].expiry # "past"

\* Faulty variant: the use is written from the row that was read when the order was priced.
UseOnce(k) == [coupons[k] EXCEPT !.used = 1]

UseCounted(k) == [coupons[k] EXCEPT !.used = @ + 1]

\* Faulty variant: what the cart's validation found is relied on.
AllocatableSeen(lines) == TRUE

\* allocateForOrderItem takes all it needs of a variant or throws.
Allocatable(lines) == \A g \in Lined : goods[g].stock >= QuantityOf(g, lines)

\* Faulty variant: the allocation of variants alone takes from the stock.
StockKept(lines) ==
    [g \in Good |-> [goods[g] EXCEPT !.stock = IF g \in Lined THEN @ - QuantityOf(g, lines) ELSE @]]

StockTaken(lines) ==
    [g \in Good |-> [goods[g] EXCEPT !.stock = @ - QuantityOf(g, lines)]]

\* createOrder: the transaction.  Counters of products without variants go down unconditionally;
\* the cart is emptied of whatever it holds by now.
OrderCommit(p) ==
    /\ At(p, "order.commit")
    /\ LET o == calls[p].order
           used == o.coupon # "none"
           done == Allocatable(o.lines) /\ (used => UseAllowed(o.coupon, calls[p].limit))
       IN  \/ ~done /\ UNCHANGED <<coupons, goods, carts, orders>>
           \/ /\ done
              /\ orders' = orders \cup {[number |-> Cardinality(orders) + 1, order |-> o]}
              /\ coupons' = IF used THEN [coupons EXCEPT ![o.coupon] = UseCounted(o.coupon)]
                            ELSE coupons
              /\ goods' = StockTaken(o.lines)
              /\ carts' = [carts EXCEPT ![o.user] = {}]
    /\ Return(p)
    /\ UNCHANGED <<verdicts, limits, lastLine>>

\* previewForUser: the cart's categories go through validate, and so to its cache.
CouponPreview(p, u, code) ==
    /\ carts[u] # {}
    /\ CouponValidate(p, code, CategoriesOf(carts[u]))
    /\ UNCHANGED <<cartVars, orders>>

-------------------------------------------------------------------------------

OrderRequest(p) ==
    \E u \in User, code \in Code \cup {"none"}, protection \in BOOLEAN :
        OrderBegin(p, u, code, protection)

PreviewRequest(p) == \E u \in User, code \in Code : CouponPreview(p, u, code)

OrderStep(p) == OrderRead(p) \/ OrderPrice(p) \/ OrderCommit(p)

CheckoutAbort(p) == Interrupt(p) /\ UNCHANGED <<couponVars, cartVars, orders>>

\* Orders do not read the cache of validate: a preview does.
CheckoutNext ==
    \/ CouponNext /\ UNCHANGED <<cartVars, orders>>
    \/ \E p \in Proc :
          \/ (CartRequest(p) \/ CartStep(p) \/ GoodRequest(p)) /\ UNCHANGED <<couponVars, orders>>
          \/ PreviewRequest(p) \/ OrderRequest(p) \/ OrderStep(p)
          \/ CheckoutAbort(p)

CheckoutSpec == CheckoutInit /\ [][CheckoutNext]_checkoutVars

-------------------------------------------------------------------------------

OrdersWith(k) == {o \in orders : o.order.coupon = k}

CheckoutTypeOK ==
    /\ CouponTypeOK
    /\ CartTypeOK
    /\ \A g \in Lined : goods[g].stock \in Nat
    /\ \A o \in orders :
          /\ o.order.user \in User
          /\ o.order.coupon \in CouponId \cup {"none"}
          /\ o.order.total \in Nat \ {0}
          /\ \A l \in o.order.lines : l \in CartLine

\* A discount never exceeds what the order's own lines cost, and the fee of buyer protection is
\* always paid on top, even when two updates of a coupon have made it a percentage above 100
\* between them, or the coupon changed while the order was priced.
DiscountIsCapped ==
    \A o \in orders :
        /\ o.order.discount \in 0 .. Subtotal(o.order.lines)
        /\ o.order.total >= FeeOf(o.order.protection)

\* No unit leaves a counter without an order line, and none is ordered without leaving it,
\* whichever checkouts run at the same time.
StockIsAccounted ==
    \A g \in Good :
        goods[g].stock + MapThenSumSet(LAMBDA o : QuantityOf(g, o.order.lines), orders)
            = InitialStock

\* A coupon's counter is the number of orders that carry it, and it never passes the largest
\* limit the coupon has had, however many checkouts found it valid at the same time.
CouponUseIsBounded ==
    \A k \in CouponId :
        Stored(k) =>
            /\ coupons[k].used = Cardinality(OrdersWith(k))
            /\ 0 \in limits[k] \/ \E n \in limits[k] : coupons[k].used <= n

\* An order is never placed on a coupon that has been withdrawn or has expired by then.
WithdrawnIsNotUsed ==
    [][\A k \in CouponId :
          (\E o \in orders' \ orders : o.order.coupon = k) =>
              coupons[k].isActive /\ ~coupons[k].deleted /\ coupons[k].expiry # "past"]_orders

===============================================================================
