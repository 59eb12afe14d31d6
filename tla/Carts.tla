----------------------------------- MODULE Carts -------------------------------
(***************************************************************************)
(* Buyers' carts (cart.service.ts) and what they read of the catalogue:    *)
(* price, stock and visibility of each good.  A good is a product bought   *)
(* without a variant, whose stock is a counter of the product, or one      *)
(* variant of a product, whose counter stands for stock lines              *)
(* (StockLines.tla models those).                                          *)
(*                                                                         *)
(* getOrCreateCart is not a state of its own: every reader takes an absent *)
(* cart for an empty one, and two first uses at a time make one of the     *)
(* calls fail on the unique userId, as Interrupt does.                     *)
(***************************************************************************)
EXTENDS Calls, FiniteSets

CONSTANTS
    User,
    Good,
    Lined,          \* the goods that are variants
    Price,          \* prices, in units of 1e-8 USD
    Quantity,       \* quantities a request may name
    InitialStock,
    MaxLines        \* bound: cart lines ever created

ASSUME CartAssumption ==
    /\ IsFiniteSet(User)
    /\ Lined \subseteq Good
    /\ Price \subseteq Nat \ {0}
    /\ Quantity \subseteq Nat \ {0}
    /\ InitialStock \in Nat
    /\ MaxLines \in Nat

VARIABLES
    goods,     \* good -> [price, stock, isActive, deleted]
    carts,     \* user -> set of cart lines
    lastLine   \* ids of cart lines given out

cartVars == <<goods, carts, lastLine>>

LineId == 1 .. MaxLines

\* CartItem: the unit price is the one read when the good was added.
CartLine == [id : LineId, good : Good, quantity : Nat \ {0}, unitPrice : Price]

GoodRow == [price : Price, stock : Int, isActive : BOOLEAN, deleted : BOOLEAN]

ItemDto == [good : Good, quantity : Quantity]

-------------------------------------------------------------------------------

\* validateProductLine; a variant that is deleted or inactive is not found, like a product.
LineValid(g, quantity) ==
    /\ ~goods[g].deleted
    /\ goods[g].isActive
    /\ goods[g].stock >= quantity

LineOf(u, id) == {l \in carts[u] : l.id = id}

\* New lines: one per item, with fresh ids.
NewLines(items) ==
    LET number == CHOOSE n \in [items -> 1 .. Cardinality(items)] :
                      \A i, j \in items : i # j => n[i] # n[j]
    IN  {[id |-> lastLine + number[i], good |-> i.good, quantity |-> i.quantity,
          unitPrice |-> i.unitPrice] : i \in items}

\* Every good on sale; each buyer has one line in the cart or none.
CartInit ==
    /\ \E price \in Price :
          goods = [g \in Good |-> [price |-> price, stock |-> InitialStock, isActive |-> TRUE,
                                   deleted |-> FALSE]]
    /\ \E buyers \in SUBSET User : \E number \in [buyers -> 1 .. Cardinality(buyers)] :
          /\ \A u, w \in buyers : u # w => number[u] # number[w]
          /\ Cardinality(buyers) <= MaxLines
          /\ lastLine = Cardinality(buyers)
          /\ \E first \in [buyers -> Good] :
                carts = [u \in User |->
                    IF u \in buyers
                    THEN {[id |-> number[u], good |-> first[u], quantity |-> 1,
                           unitPrice |-> goods[first[u]].price]}
                    ELSE {}]

\* addItem: the product is validated and its price taken.
CartAdd(p, u, g, quantity) ==
    /\ LineValid(g, quantity)
    /\ Begin(p, [at |-> "cart.find", user |-> u, good |-> g, quantity |-> quantity,
                 unitPrice |-> goods[g].price])
    /\ UNCHANGED cartVars

\* addItem: a line of that good is looked for, and the product validated for the sum of both;
\* the quantity to be written is computed here.
CartFind(p) ==
    /\ At(p, "cart.find")
    /\ LET c == calls[p]
           same == {l \in carts[c.user] : l.good = c.good}
       IN  \/ /\ same = {}
              /\ Goto(p, [c EXCEPT !.at = "cart.create"])
           \/ \E l \in same :
                 /\ LineValid(c.good, l.quantity + c.quantity)
                 /\ Goto(p, [at |-> "cart.write", user |-> c.user, id |-> l.id,
                             quantity |-> l.quantity + c.quantity, unitPrice |-> c.unitPrice])
           \/ /\ \E l \in same : ~LineValid(c.good, l.quantity + c.quantity)
              /\ Return(p)
    /\ UNCHANGED cartVars

\* addItem: no constraint keeps a second line of the good out.
CartCreate(p) ==
    /\ At(p, "cart.create")
    /\ lastLine < MaxLines
    /\ lastLine' = lastLine + 1
    /\ LET c == calls[p]
       IN  carts' = [carts EXCEPT ![c.user] = @ \cup
               {[id |-> lastLine + 1, good |-> c.good, quantity |-> c.quantity,
                 unitPrice |-> c.unitPrice]}]
    /\ Return(p)
    /\ UNCHANGED goods

\* addItem: quantity and price of the line found; a line gone by now fails the call.
CartWrite(p) ==
    /\ At(p, "cart.write")
    /\ LET c == calls[p]
       IN  carts' = [carts EXCEPT ![c.user] = {
               IF l.id = c.id THEN [l EXCEPT !.quantity = c.quantity, !.unitPrice = c.unitPrice] ELSE l
               : l \in @}]
    /\ Return(p)
    /\ UNCHANGED <<goods, lastLine>>

\* updateItem: the line is read and the new quantity validated.
CartUpdate(p, u, id, quantity) ==
    /\ \E l \in LineOf(u, id) : LineValid(l.good, quantity)
    /\ Begin(p, [at |-> "cart.quantity", user |-> u, id |-> id, quantity |-> quantity])
    /\ UNCHANGED cartVars

\* updateItem: the quantity alone, the price stays.
CartQuantity(p) ==
    /\ At(p, "cart.quantity")
    /\ LET c == calls[p]
       IN  carts' = [carts EXCEPT ![c.user] = {
               IF l.id = c.id THEN [l EXCEPT !.quantity = c.quantity] ELSE l : l \in @}]
    /\ Return(p)
    /\ UNCHANGED <<goods, lastLine>>

\* removeItem: the line is found, then deleted; deleting one that is gone fails the call.
CartRemove(p, u, id) ==
    /\ LineOf(u, id) # {}
    /\ Begin(p, [at |-> "cart.delete", user |-> u, id |-> id])
    /\ UNCHANGED cartVars

CartDelete(p) ==
    /\ At(p, "cart.delete")
    /\ carts' = [carts EXCEPT ![calls[p].user] = @ \ LineOf(calls[p].user, calls[p].id)]
    /\ Return(p)
    /\ UNCHANGED <<goods, lastLine>>

\* clearCart: one statement.
CartClear(p, u) ==
    /\ Serve(p)
    /\ carts' = [carts EXCEPT ![u] = {}]
    /\ UNCHANGED <<goods, lastLine>>

\* syncCart: every item of a request, which lists finitely many, is validated and priced.
CartSync(p, u, items) ==
    /\ IsFiniteSet(items)
    /\ \A i \in items : LineValid(i.good, i.quantity)
    /\ Begin(p, [at |-> "cart.replace", user |-> u,
                 items |-> {[good |-> i.good, quantity |-> i.quantity,
                             unitPrice |-> goods[i.good].price] : i \in items}])
    /\ UNCHANGED cartVars

\* syncCart: the transaction's delete sees the lines committed when it starts.
CartReplace(p) ==
    /\ At(p, "cart.replace")
    /\ LET c == calls[p]
       IN  Goto(p, [at |-> "cart.commit", user |-> c.user, items |-> c.items,
                    old |-> {l.id : l \in carts[c.user]}])
    /\ UNCHANGED cartVars

\* syncCart: those lines go and the new ones come in one commit.
CartCommit(p) ==
    /\ At(p, "cart.commit")
    /\ LET c == calls[p]
       IN  /\ lastLine + Cardinality(c.items) <= MaxLines
           /\ lastLine' = lastLine + Cardinality(c.items)
           /\ carts' = [carts EXCEPT ![c.user] =
                  {l \in @ : l.id \notin c.old} \cup NewLines(c.items)]
    /\ Return(p)
    /\ UNCHANGED goods

-------------------------------------------------------------------------------
(* The catalogue, as far as carts and orders read it (Catalogue.tla models  *)
(* the handlers).                                                          *)

GoodChanges(p, g, row) ==
    /\ Serve(p)
    /\ goods' = [goods EXCEPT ![g] = row]
    /\ UNCHANGED <<carts, lastLine>>

GoodRepriced(p, g, price) == GoodChanges(p, g, [goods[g] EXCEPT !.price = price])

GoodToggled(p, g) == ~goods[g].deleted /\ GoodChanges(p, g, [goods[g] EXCEPT !.isActive = ~@])

\* A soft delete leaves isActive as it is.
GoodDeleted(p, g) == ~goods[g].deleted /\ GoodChanges(p, g, [goods[g] EXCEPT !.deleted = TRUE])

-------------------------------------------------------------------------------

CartRequest(p) ==
    \E u \in User :
        \/ CartClear(p, u)
        \/ \E g \in Good, n \in Quantity : CartAdd(p, u, g, n)
        \/ \E id \in LineId, n \in Quantity : CartUpdate(p, u, id, n)
        \/ \E id \in LineId : CartRemove(p, u, id)
        \/ \E items \in SUBSET ItemDto : CartSync(p, u, items)

CartStep(p) ==
    \/ CartFind(p) \/ CartCreate(p) \/ CartWrite(p) \/ CartQuantity(p) \/ CartDelete(p)
    \/ CartReplace(p) \/ CartCommit(p)

GoodRequest(p) ==
    \E g \in Good :
        \/ GoodToggled(p, g) \/ GoodDeleted(p, g)
        \/ \E price \in Price \ {goods[g].price} : GoodRepriced(p, g, price)

CartTypeOK ==
    /\ goods \in [Good -> GoodRow]
    /\ \A u \in User : \A l \in carts[u] : l \in CartLine
    /\ lastLine \in 0 .. MaxLines

===============================================================================
