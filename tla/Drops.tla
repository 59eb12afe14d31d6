----------------------------------- MODULE Drops -------------------------------
(***************************************************************************)
(* Free drops (drop.service.ts): the staff put up a quantity of a          *)
(* variant's stock lines for users, all of them or an allow list, to claim *)
(* one each.                                                               *)
(*                                                                         *)
(* claim runs in a SERIALIZABLE transaction: every read is of the snapshot *)
(* of its first statement, and PostgreSQL makes it fail when a row that it *)
(* locks or writes was written since.  It is a step that takes the         *)
(* snapshot and a step that commits.  The staff's updates run outside of   *)
(* transactions: a read, then a write by id.                               *)
(***************************************************************************)
EXTENDS Calls, FiniteSets

CONSTANTS
    DropId,
    Claimant,     \* users
    Variant,
    Line,         \* stock lines
    Quantities,   \* quantities a drop may be given
    DropPatches   \* update requests enumerated, out of DropPatch

ASSUME DropAssumption == Quantities \subseteq Nat \ {0}

VARIABLES
    drops,        \* id -> row
    claims,       \* set of DropClaim rows
    available,    \* variant -> its AVAILABLE stock lines
    quantities    \* id -> every quantity the drop has had (history)

dropVars == <<drops, claims, available, quantities>>

NoDrop == [quantity |-> 0]

\* allowedEmails: the empty list admits everybody.
DropRow ==
    [variant : Variant, quantity : Quantities, claimed : Nat, allowed : SUBSET Claimant,
     expiry : {"never", "later", "past"}, isActive : BOOLEAN, deleted : BOOLEAN]

ClaimRow == [drop : DropId, user : Claimant, line : Line]

\* DropUpdateDto, a field at a time; an expiresAt that is past is refused.
DropPatch ==
    [variant : Variant] \cup [quantity : Quantities] \cup [allowed : SUBSET Claimant]
        \cup [expiry : {"never", "later"}] \cup [isActive : BOOLEAN]

ASSUME DropRequestAssumption == DropPatches \subseteq DropPatch

Existing(d) == drops[d] # NoDrop /\ ~drops[d].deleted

\* deriveDropStatus, of the admin list and of listPublicLiveDrops.
DropStatus(row) ==
    IF ~row.isActive THEN "inactive"
    ELSE IF row.claimed >= row.quantity THEN "exhausted"
    ELSE IF row.expiry = "past" THEN "expired" ELSE "live"

\* isUserAllowed
UserAllowed(row, u) == row.allowed = {} \/ u \in row.allowed

\* What listPublicLiveDrops shows.
ListedDrops == {d \in DropId : Existing(d) /\ DropStatus(drops[d]) = "live"}

DropInit ==
    /\ drops = [d \in DropId |-> NoDrop]
    /\ claims = {}
    /\ \E home \in [Line -> Variant] :
          available = [v \in Variant |-> {l \in Line : home[l] = v}]
    /\ quantities = [d \in DropId |-> {}]

\* create: the variant is looked up and the row inserted.
DropCreate(p, d, v, n, allowed, expiry) ==
    /\ drops[d] = NoDrop
    /\ drops' = [drops EXCEPT ![d] =
           [variant |-> v, quantity |-> n, claimed |-> 0, allowed |-> allowed, expiry |-> expiry,
            isActive |-> TRUE, deleted |-> FALSE]]
    /\ quantities' = [quantities EXCEPT ![d] = {n}]
    /\ Serve(p)
    /\ UNCHANGED <<claims, available>>

\* update: the row is read; the new quantity must cover the claims it counts.
DropUpdate(p, d, patch) ==
    /\ Existing(d)
    /\ "quantity" \in DOMAIN patch => patch.quantity >= drops[d].claimed
    /\ Begin(p, [at |-> "drop.write", id |-> d, dto |-> patch])
    /\ UNCHANGED dropVars

\* update: the write, by id.
DropWrite(p) ==
    /\ At(p, "drop.write")
    /\ LET d == calls[p].id
           dto == calls[p].dto
       IN  /\ drops' = [drops EXCEPT ![d] =
                  [f \in DOMAIN @ |-> IF f \in DOMAIN dto THEN dto[f] ELSE @[f]]]
           /\ quantities' = [quantities EXCEPT ![d] =
                  IF "quantity" \in DOMAIN dto THEN @ \cup {dto.quantity} ELSE @]
    /\ Return(p)
    /\ UNCHANGED <<claims, available>>

\* toggleActive: a read, then the write of the negation.
DropToggle(p, d) ==
    /\ Existing(d)
    /\ Begin(p, [at |-> "drop.write", id |-> d, dto |-> [isActive |-> ~drops[d].isActive]])
    /\ UNCHANGED dropVars

\* delete: findOne, then the soft delete by id.
DropDelete(p, d) ==
    /\ Existing(d)
    /\ Begin(p, [at |-> "drop.write", id |-> d, dto |-> [deleted |-> TRUE]])
    /\ UNCHANGED dropVars

\* claim: the snapshot, and every test made on it; the oldest AVAILABLE line is one of them.
ClaimRead(p, u, d) ==
    /\ d \in ListedDrops
    /\ UserAllowed(drops[d], u)
    /\ ~ \E c \in claims : c.drop = d /\ c.user = u
    /\ \E l \in available[drops[d].variant] :
          Begin(p, [at |-> "drop.claim", user |-> u, id |-> d, line |-> l, row |-> drops[d]])
    /\ UNCHANGED dropVars

\* Faulty variant: READ COMMITTED without the two row locks.
SnapshotIgnored(c) == TRUE

\* The drop, its variant's lines and the user's claim are as the snapshot had them; expiresAt
\* is tested again, and a drop that has expired is no longer the row that was read.
SnapshotHolds(c) ==
    /\ drops[c.id] = c.row
    /\ c.line \in available[c.row.variant]
    /\ ~ \E x \in claims : x.drop = c.id /\ x.user = c.user

ClaimWrites(c) ==
    /\ drops' = [drops EXCEPT ![c.id].claimed = @ + 1]
    /\ available' = [available EXCEPT ![c.row.variant] = @ \ {c.line}]
    /\ claims' = claims \cup {[drop |-> c.id, user |-> c.user, line |-> c.line]}

\* claim: the counter, the line and the claim in one commit, or a serialization failure.
ClaimCommit(p) ==
    /\ At(p, "drop.claim")
    /\ \/ SnapshotHolds(calls[p]) /\ ClaimWrites(calls[p])
       \/ ~SnapshotHolds(calls[p]) /\ UNCHANGED <<drops, claims, available>>
    /\ Return(p)
    /\ UNCHANGED quantities

\* An order takes a line of the variant (StockLines.tla).
LineSold(p, v, l) ==
    /\ l \in available[v]
    /\ Serve(p)
    /\ available' = [available EXCEPT ![v] = @ \ {l}]
    /\ UNCHANGED <<drops, claims, quantities>>

\* The clock reaches expiresAt.
DropExpires(d) ==
    /\ drops[d] # NoDrop
    /\ drops[d].expiry = "later"
    /\ drops' = [drops EXCEPT ![d].expiry = "past"]
    /\ UNCHANGED <<claims, available, quantities, callVars>>

DropAbort(p) == Interrupt(p) /\ UNCHANGED dropVars

-------------------------------------------------------------------------------

\* drop.admin.controller.ts
DropAdminRequest(p) ==
    \E d \in DropId :
        \/ \E v \in Variant, n \in Quantities, allowed \in SUBSET Claimant, e \in {"never", "later"} :
              DropCreate(p, d, v, n, allowed, e)
        \/ \E patch \in DropPatches : DropUpdate(p, d, patch)
        \/ DropToggle(p, d) \/ DropDelete(p, d)

\* drop.public.controller.ts
DropPublicRequest(p) == \E u \in Claimant, d \in DropId : ClaimRead(p, u, d)

DropStep(p) == DropWrite(p) \/ ClaimCommit(p)

DropNext ==
    \/ \E p \in Proc :
          \/ DropAdminRequest(p) \/ DropPublicRequest(p) \/ DropStep(p) \/ DropAbort(p)
          \/ \E v \in Variant, l \in Line : LineSold(p, v, l)
    \/ \E d \in DropId : DropExpires(d)

DropSpec == CallsInit /\ DropInit /\ [][DropNext]_<<callVars, dropVars>>

DropTypeOK ==
    /\ drops \in [DropId -> DropRow \cup {NoDrop}]
    /\ claims \subseteq ClaimRow
    /\ available \in [Variant -> SUBSET Line]
    /\ quantities \in [DropId -> SUBSET Quantities]

\* Each user gets at most one line of a drop, each line goes to one user and is not on sale, and
\* the counter is the number of claims, within the largest quantity the drop has had, although
\* the tests of a claim are made on a snapshot that other claims, orders and updates overtake.
\* (The counter need not be within the quantity of the row: update compares with a count that
\* claims may have passed when it writes.)
ClaimsAreSound ==
    /\ \A c, x \in claims : (c.drop = x.drop /\ c.user = x.user) => c = x
    /\ \A c, x \in claims : c.line = x.line => c = x
    /\ \A c \in claims : \A v \in Variant : c.line \notin available[v]
    /\ \A d \in DropId :
          drops[d] # NoDrop =>
              /\ drops[d].claimed = Cardinality({c \in claims : c.drop = d})
              /\ \E n \in quantities[d] : drops[d].claimed <= n

\* A line is given away only while the public list shows the drop, and to a user whom the list
\* of that moment admits.
WithdrawnIsNotClaimed ==
    [][\A c \in claims' \ claims : c.drop \in ListedDrops /\ UserAllowed(drops[c.drop], c.user)]_claims

===============================================================================
