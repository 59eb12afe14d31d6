---------------------------------- MODULE Coupons ------------------------------
(***************************************************************************)
(* Discount coupons (coupon.service.ts): the rows the shop's staff keep,   *)
(* the cached answers of the public validate endpoint, and the rules that  *)
(* decide whether a coupon applies and what it takes off a cart.           *)
(* Checkout.tla uses them.                                                 *)
(***************************************************************************)
EXTENDS Calls, FiniteSets

CONSTANTS
    CouponId,   \* rows there may be
    Code,       \* codes, normalised (trimmed, upper case)
    Values,     \* discountValue: a percentage, or an amount in units of 1e-8 USD
    Limits,     \* maxUses, 0 for null (unlimited)
    Category,   \* product categories
    Asked,      \* category lists a validate request may carry
    NewCoupons, \* create requests enumerated, out of CouponDto
    Patches     \* update requests enumerated, out of CouponPatch

ASSUME CouponAssumption == Values \subseteq Nat \ {0} /\ Limits \subseteq Nat
                           /\ Asked \subseteq SUBSET Category

VARIABLES
    coupons,    \* id -> row
    verdicts,   \* cache: <<code, categories>> -> the answer kept, "NONE" for a miss
    limits      \* id -> every maxUses the row has had (history)

couponVars == <<coupons, verdicts, limits>>

DiscountType == {"PERCENT", "FIXED"}

\* expiresAt against the clock: null, in the future, passed.
Expiry == {"never", "later", "past"}

\* getCouponInvalidateReason, with NOT_FOUND for no row.
Verdict == {"NONE", "VALID", "NOT_FOUND", "INACTIVE", "EXPIRED", "EXHAUSTED", "CATEGORY_MISMATCH"}

CacheKey == Code \X SUBSET Category

NoCoupon == [code |-> "none"]

CouponRow ==
    [code : Code, discountType : DiscountType, value : Values, expiry : Expiry, maxUses : Limits,
     used : Nat, scope : {"ALL", "SPECIFIC"}, categories : SUBSET Category, isActive : BOOLEAN,
     deleted : BOOLEAN]

\* What the insert adds to the request: no use yet, not deleted.
NewRow(dto) ==
    [f \in DOMAIN dto \cup {"used", "deleted"} |->
        IF f = "used" THEN 0 ELSE IF f = "deleted" THEN FALSE ELSE dto[f]]

Stored(c) == coupons[c] # NoCoupon

Live(c) == Stored(c) /\ ~coupons[c].deleted

\* CouponCreateDto: what a new row is given; a SPECIFIC scope names at least one category.
CouponDto ==
    {d \in [code : Code, discountType : DiscountType, value : Values, expiry : Expiry,
            maxUses : Limits, scope : {"ALL", "SPECIFIC"}, categories : SUBSET Category,
            isActive : BOOLEAN] : (d.scope = "SPECIFIC") <=> (d.categories # {})}

\* CouponUpdateDto (PartialType): the fields the request carries, here one at a time.
CouponPatch ==
    [code : Code] \cup [discountType : DiscountType] \cup [value : Values] \cup [maxUses : Limits]
        \cup [expiry : Expiry] \cup [isActive : BOOLEAN] \cup [scope : {"ALL"}, categories : {{}}]
        \cup [scope : {"SPECIFIC"}, categories : SUBSET Category \ {{}}]

ASSUME RequestAssumption == NewCoupons \subseteq CouponDto /\ Patches \subseteq CouponPatch

Patched(row, patch) == [f \in DOMAIN row |-> IF f \in DOMAIN patch THEN patch[f] ELSE row[f]]

-------------------------------------------------------------------------------
(* The rules                                                               *)

\* assertDiscount
DiscountAllowed(type, value) == IF type = "PERCENT" THEN value \in 1 .. 100 ELSE value > 0

\* assertCodeUnique: among the rows that are not deleted.
CodeTaken(code, except) == \E c \in CouponId \ except : Live(c) /\ coupons[c].code = code

\* The unique index on the column, which deleted rows are under as well.
CodeIndexed(code, except) == \E c \in CouponId \ except : Stored(c) /\ coupons[c].code = code

InvalidReason(row, categories) ==
    CASE ~row.isActive -> "INACTIVE"
      [] row.isActive /\ row.expiry = "past" -> "EXPIRED"
      [] row.isActive /\ row.expiry # "past" /\ row.maxUses # 0 /\ row.used >= row.maxUses ->
            "EXHAUSTED"
      [] OTHER ->
            IF row.scope = "SPECIFIC" /\ row.categories \cap categories = {}
            THEN "CATEGORY_MISMATCH" ELSE "VALID"

\* The row a code names: what findFirst returns (the index leaves no choice).
RowsOf(code) == {c \in CouponId : Live(c) /\ coupons[c].code = code}

VerdictOf(code, categories) ==
    IF RowsOf(code) = {} THEN "NOT_FOUND"
    ELSE InvalidReason(coupons[CHOOSE c \in RowsOf(code) : TRUE], categories)

\* Faulty variant: a percentage is applied as it stands.
DiscountUncapped(row, applicable) ==
    IF row.discountType = "PERCENT" THEN (applicable * row.value + 50) \div 100
    ELSE IF row.value < applicable THEN row.value ELSE applicable

\* calculateCouponDiscount on the subtotal in scope: rounded to 8 decimals, never above it.
Discount(row, applicable) ==
    LET raw == IF row.discountType = "PERCENT" THEN (applicable * row.value + 50) \div 100
               ELSE row.value
    IN  IF raw < applicable THEN raw ELSE applicable

InScope(row, category) == row.scope = "ALL" \/ category \in row.categories

-------------------------------------------------------------------------------

\* One row on offer, the others not created yet; nothing cached.
CouponInit ==
    /\ \E first \in CouponId, d \in NewCoupons :
          /\ DiscountAllowed(d.discountType, d.value)
          /\ d.isActive /\ d.expiry = "later"
          /\ coupons = [c \in CouponId |->
                 IF c = first THEN NewRow(d) ELSE NoCoupon]
          /\ limits = [c \in CouponId |-> IF c = first THEN {d.maxUses} ELSE {}]
    /\ verdicts = [k \in CacheKey |-> "NONE"]

\* create: the code is looked up, the rest of the request checked.
CouponCreate(p, dto) ==
    /\ ~CodeTaken(dto.code, {})
    /\ DiscountAllowed(dto.discountType, dto.value)
    /\ Begin(p, [at |-> "coupon.insert", dto |-> dto])
    /\ UNCHANGED couponVars

\* create: the insert, which the index on the code may refuse.
CouponInsert(p) ==
    /\ At(p, "coupon.insert")
    /\ LET d == calls[p].dto
       IN  \/ CodeIndexed(d.code, {}) /\ UNCHANGED couponVars
           \/ /\ ~CodeIndexed(d.code, {})
              /\ \E c \in CouponId :
                    /\ ~Stored(c)
                    /\ coupons' = [coupons EXCEPT ![c] = NewRow(d)]
                    /\ limits' = [limits EXCEPT ![c] = {d.maxUses}]
              /\ UNCHANGED verdicts
    /\ Return(p)

\* update: the row is read, and the discount checked with the fields the request leaves alone.
CouponUpdate(p, c, patch) ==
    /\ Live(c)
    /\ "code" \in DOMAIN patch => ~CodeTaken(patch.code, {c})
    /\ LET next == Patched(coupons[c], patch)
       IN  DiscountAllowed(next.discountType, next.value)
    /\ Begin(p, [at |-> "coupon.write", id |-> c, dto |-> patch])
    /\ UNCHANGED couponVars

\* update: the write, by id; fields not in the request keep what the row holds by now.
CouponWrite(p) ==
    /\ At(p, "coupon.write")
    /\ LET c == calls[p].id
           d == calls[p].dto
           clash == "code" \in DOMAIN d /\ CodeIndexed(d.code, {c})
       IN  \/ clash /\ UNCHANGED couponVars
           \/ /\ ~clash
              /\ coupons' = [coupons EXCEPT ![c] = Patched(@, d)]
              /\ limits' = [limits EXCEPT ![c] =
                     IF "maxUses" \in DOMAIN d THEN @ \cup {d.maxUses} ELSE @]
              /\ UNCHANGED verdicts
    /\ Return(p)

\* delete: findOne, then the soft delete by id.
CouponDelete(p, c) ==
    /\ Live(c)
    /\ Begin(p, [at |-> "coupon.delete", id |-> c])
    /\ UNCHANGED couponVars

CouponDeleteWrite(p) ==
    /\ At(p, "coupon.delete")
    /\ coupons' = [coupons EXCEPT ![calls[p].id].deleted = TRUE]
    /\ Return(p)
    /\ UNCHANGED <<verdicts, limits>>

\* toggleActive: isActive is read, its negation is written later.
CouponToggle(p, c) ==
    /\ Live(c)
    /\ Begin(p, [at |-> "coupon.toggle", id |-> c, isActive |-> ~coupons[c].isActive])
    /\ UNCHANGED couponVars

CouponToggleWrite(p) ==
    /\ At(p, "coupon.toggle")
    /\ coupons' = [coupons EXCEPT ![calls[p].id].isActive = calls[p].isActive]
    /\ Return(p)
    /\ UNCHANGED <<verdicts, limits>>

\* validate: a cached answer is returned; else the row is read and its verdict goes to the cache.
CouponValidate(p, code, categories) ==
    LET key == <<code, categories>>
    IN  /\ \/ verdicts[key] # "NONE" /\ Serve(p)
           \/ /\ verdicts[key] = "NONE"
              /\ Begin(p, [at |-> "coupon.cache", key |-> key,
                           verdict |-> VerdictOf(code, categories)])
        /\ UNCHANGED couponVars

CouponCache(p) ==
    /\ At(p, "coupon.cache")
    /\ verdicts' = [verdicts EXCEPT ![calls[p].key] = calls[p].verdict]
    /\ Return(p)
    /\ UNCHANGED <<coupons, limits>>

\* VALIDATE_CACHE_MS passes.
VerdictLapses(key) ==
    /\ verdicts[key] # "NONE"
    /\ verdicts' = [verdicts EXCEPT ![key] = "NONE"]
    /\ UNCHANGED <<coupons, limits, callVars>>

\* The clock reaches expiresAt.
CouponExpires(c) ==
    /\ Stored(c)
    /\ coupons[c].expiry = "later"
    /\ coupons' = [coupons EXCEPT ![c].expiry = "past"]
    /\ UNCHANGED <<verdicts, limits, callVars>>

-------------------------------------------------------------------------------

\* What the staff may ask for.
CouponAdminRequest(p) ==
    \/ \E d \in NewCoupons : CouponCreate(p, d)
    \/ \E c \in CouponId : CouponDelete(p, c) \/ CouponToggle(p, c)
    \/ \E c \in CouponId, d \in Patches : CouponUpdate(p, c, d)

\* What a buyer may ask for.
CouponPublicRequest(p) ==
    \E code \in Code, categories \in Asked : CouponValidate(p, code, categories)

CouponStep(p) ==
    \/ CouponInsert(p) \/ CouponWrite(p) \/ CouponDeleteWrite(p) \/ CouponToggleWrite(p)
    \/ CouponCache(p)

CouponTime ==
    \/ \E k \in CacheKey : VerdictLapses(k)
    \/ \E c \in CouponId : CouponExpires(c)

CouponNext ==
    \/ \E p \in Proc : CouponAdminRequest(p) \/ CouponPublicRequest(p) \/ CouponStep(p)
    \/ CouponTime

-------------------------------------------------------------------------------

CouponTypeOK ==
    /\ coupons \in [CouponId -> CouponRow \cup {NoCoupon}]
    /\ verdicts \in [CacheKey -> Verdict]
    /\ limits \in [CouponId -> SUBSET Limits]
    /\ \A c, d \in CouponId : (c # d /\ Live(c) /\ Live(d)) => coupons[c].code # coupons[d].code

===============================================================================
