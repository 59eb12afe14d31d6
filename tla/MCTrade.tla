--------------------------------- MODULE MCTrade -------------------------------
(***************************************************************************)
(* The shop side of the store for TLC: coupons, carts and orders, drops,   *)
(* vouches and reviews, the catalogue.  Their modules share no row, so     *)
(* that instead of interleaving them the instance explores one at a time:  *)
(* focus, chosen in the initial state, names the part that moves, and the  *)
(* others rest in one of their initial states.                             *)
(***************************************************************************)
EXTENDS Checkout, Drops, Vouches, Catalogue, TLC

CONSTANTS Focus, g1, g2

VARIABLE focus

tradeVars == <<checkoutVars, dropVars, vouchVars, catalogueVars, focus>>

First(S) == CHOOSE x \in S : TRUE

\* Fixed amounts: one above the price of a good with one use, one below it without a limit.
MCNewCoupons ==
    {[code |-> c, discountType |-> "FIXED", value |-> k.value, expiry |-> "later",
      maxUses |-> k.maxUses, scope |-> "ALL", categories |-> {}, isActive |-> TRUE] :
        c \in Code, k \in {[value |-> 104, maxUses |-> 1], [value |-> 50, maxUses |-> 0]}}

MCPatches ==
    [discountType : {"PERCENT"}] \cup [value : {104}] \cup [code : Code] \cup [maxUses : {0}]
        \cup [scope : {"SPECIFIC"}, categories : {{g1}}]

MCAsked == {{g1}}

MCProductDtos ==
    {[name |-> n, variants |-> VariantId, pictures |-> {}, related |-> Product] : n \in Name}
        \cup {[name |-> First(Name), variants |-> {}, pictures |-> Picture, related |-> {}]}

MCDropPatches ==
    [quantity : Quantities] \cup [allowed : SUBSET Claimant] \cup [variant : Variant]

MCSymmetry == Permutations(Proc)

\* Where the parts out of focus rest.
Rest ==
    /\ coupons[First(CouponId)].code = First(Code)
    /\ focus \notin {"coupons", "checkout"} => coupons[First(CouponId)].maxUses = 0
    /\ focus = "coupons" => \A u \in User : carts[u] # {}
    /\ focus # "checkout" => \A u \in User : \A l \in carts[u] : l.good = g1
    /\ focus \notin {"coupons", "checkout"} => lastLine = 0
    /\ focus # "drops" => available[First(Variant)] = Line
    /\ focus # "vouches" =>
          /\ \A i \in Item : ordered[i] = [status |-> "PENDING", user |-> First(Author)]
          /\ \A c \in Claimed : claimedBy[c] = First(Author)
    /\ products[First(Product)].slug = <<First(Name), 0>>
    /\ focus # "images" => \A i \in Picture : images[i] = NoImage

Init ==
    /\ focus \in Focus
    /\ CheckoutInit
    /\ DropInit
    /\ VouchInit
    /\ CatalogueInit
    /\ Rest

Only(name) ==
    /\ focus = name
    /\ UNCHANGED focus
    /\ name \notin {"coupons", "checkout"} => UNCHANGED <<couponVars, cartVars, orders>>
    /\ name # "drops" => UNCHANGED dropVars
    /\ name # "vouches" => UNCHANGED vouchVars
    /\ name \notin {"products", "images", "categories"} => UNCHANGED catalogueVars

\* Coupons change while a fixed cart is ordered; carts and goods while the coupons rest.
Moves ==
    \/ Only("coupons") /\ CouponNext /\ UNCHANGED <<cartVars, orders>>
    \/ /\ Only("coupons")
       /\ \E p \in Proc : PreviewRequest(p) \/ OrderRequest(p) \/ OrderStep(p) \/ CheckoutAbort(p)
    \/ /\ Only("checkout")
       /\ \E p \in Proc :
             \/ (CartRequest(p) \/ CartStep(p) \/ GoodRequest(p)) /\ UNCHANGED <<couponVars, orders>>
             \/ OrderRequest(p) \/ OrderStep(p) \/ CheckoutAbort(p)
    \/ Only("drops") /\ DropNext
    \/ Only("vouches") /\ VouchNext
    \/ /\ Only("products")
       /\ \E p \in Proc :
             \/ ProductRequest(p) \/ VariantRequest(p) \/ ProductStep(p) \/ CatalogueAbort(p)
             \/ \E x \in Product : ProductOrdered(p, x)
    \/ /\ Only("images")
       /\ \E p \in Proc :
             \/ ImageRequest(p) \/ ImageStep(p) \/ CatalogueAbort(p)
             \/ \E x \in Product : ProductDelete(p, x) \/ ProductDeleteWrite(p)
    \/ /\ Only("categories")
       /\ \E p \in Proc : CategoryRequest(p) \/ CategoryStep(p) \/ CatalogueAbort(p)

\* One request fewer where the requests are most varied.
Next == Moves /\ (focus \in {"coupons", "products"} => requests' < MaxRequests)

\* The parts' states are of their types, the stock of a variant never goes below zero, and codes
\* and slugs lead to one row each, although every call looks for a free one well before it writes.
TradeTypeOK == CheckoutTypeOK /\ DropTypeOK /\ VouchTypeOK /\ CatalogueTypeOK

\* What was withdrawn is not used, claimed or shown again: a coupon by an order that was priced
\* before, a drop by a claim that had read it, a vouch by an approval that was under way.
WithdrawnStaysWithdrawn == WithdrawnIsNotUsed /\ WithdrawnIsNotClaimed /\ DeletedStaysDeleted

Spec == Init /\ [][Next]_tradeVars

===============================================================================
