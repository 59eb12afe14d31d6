---------------------------------- MODULE Vouches ------------------------------
(***************************************************************************)
(* What buyers say afterwards: vouches for delivered order items and for   *)
(* drop claims (vouch.service.ts), which show an uploaded picture and, for *)
(* order items, wait for a moderator, and one review per order             *)
(* (review.service.ts).  No call opens a transaction.                      *)
(***************************************************************************)
EXTENDS Calls, FiniteSets

CONSTANTS
    Author,      \* users
    Item,        \* order items, each the only one of its order
    Claimed,     \* drop claims
    Vouch,       \* vouch rows there may be
    MaxPerItem   \* MAX_VOUCHES_PER_ITEM

ASSUME VouchAssumption == MaxPerItem \in Nat \ {0} /\ IsFiniteSet(Proc) /\ "none" \notin Author

VARIABLES
    ordered,     \* order item -> status of its order and its owner
    claimedBy,   \* drop claim -> its user
    vouches,     \* row -> what it says
    pictures,    \* uploaded objects, one key per upload
    reviews      \* order item -> its order's review, deletedAt included

vouchVars == <<ordered, claimedBy, vouches, pictures, reviews>>

OrderStatus == {"PENDING", "COMPLETED", "REFUNDED"}

NoVouch == [about |-> "none"]

VouchRow ==
    [about : Item \cup Claimed, user : Author, status : {"PENDING", "APPROVED"},
     approvedBy : Author \cup {"none"}, delivered : BOOLEAN, deleted : BOOLEAN]

Review == {"none", "live", "deleted"}

LiveVouches(x) == {v \in Vouch : vouches[v] # NoVouch /\ vouches[v].about = x /\ ~vouches[v].deleted}

Shown(v) == vouches[v] # NoVouch /\ ~vouches[v].deleted

\* list and listByProduct: approved ones that are not deleted; vouches for claims have no status
\* and are all shown.
PublicVouches == {v \in Vouch : Shown(v) /\ vouches[v].status = "APPROVED"}

VouchInit ==
    /\ ordered \in [Item -> [status : {"PENDING", "COMPLETED"}, user : Author]]
    /\ claimedBy \in [Claimed -> Author]
    /\ vouches = [v \in Vouch |-> NoVouch]
    /\ pictures = {}
    /\ reviews = [i \in Item |-> "none"]

\* The order is delivered, or refunded later (OrderLifecycle.tla).
OrderMoves(p, i) ==
    /\ ordered[i].status # "REFUNDED"
    /\ ordered' = [ordered EXCEPT ![i].status =
           IF @ = "PENDING" THEN "COMPLETED" ELSE "REFUNDED"]
    /\ Serve(p)
    /\ UNCHANGED <<claimedBy, vouches, pictures, reviews>>

\* The item is the user's and delivered, or the claim is the user's.
MayVouch(u, x) ==
    IF x \in Item THEN ordered[x].user = u /\ ordered[x].status = "COMPLETED" ELSE claimedBy[x] = u

\* Faulty variant: only vouches that wait for a moderator are counted.
RoomUnmoderated(x) ==
    Cardinality({v \in LiveVouches(x) : vouches[v].status = "PENDING"}) < MaxPerItem

RoomFor(x) == Cardinality(LiveVouches(x)) < MaxPerItem

\* create and createForDropClaim: owner, delivery and the number of vouches are read.
VouchCreate(p, u, x) ==
    /\ MayVouch(u, x)
    /\ RoomFor(x)
    /\ Begin(p, [at |-> "vouch.upload", user |-> u, about |-> x])
    /\ UNCHANGED vouchVars

\* uploadVouchImage: the picture is watermarked and stored under a key of its own.
VouchUpload(p) ==
    /\ At(p, "vouch.upload")
    /\ \E v \in Vouch :
          /\ vouches[v] = NoVouch
          /\ v \notin pictures
          /\ pictures' = pictures \cup {v}
          /\ Goto(p, [at |-> "vouch.insert", user |-> calls[p].user, about |-> calls[p].about,
                      id |-> v])
    /\ UNCHANGED <<ordered, claimedBy, vouches, reviews>>

\* The row; a vouch for a drop claim has no moderation.
VouchInsert(p) ==
    /\ At(p, "vouch.insert")
    /\ LET c == calls[p]
       IN  vouches' = [vouches EXCEPT ![c.id] =
               [about |-> c.about, user |-> c.user,
                status |-> IF c.about \in Item THEN "PENDING" ELSE "APPROVED",
                approvedBy |-> "none",
                delivered |-> c.about \in Item => ordered[c.about].status # "PENDING",
                deleted |-> FALSE]]
    /\ Return(p)
    /\ UNCHANGED <<ordered, claimedBy, pictures, reviews>>

\* deleteMine, deleteMineDropClaim and deleteAdmin: the row is found (the first two for its own
\* user alone), then marked by id.  The picture stays.
VouchDelete(p, v) ==
    /\ Shown(v)
    /\ Begin(p, [at |-> "vouch.delete", id |-> v])
    /\ UNCHANGED vouchVars

VouchDeleteWrite(p) ==
    /\ At(p, "vouch.delete")
    /\ vouches' = [vouches EXCEPT ![calls[p].id].deleted = TRUE]
    /\ Return(p)
    /\ UNCHANGED <<ordered, claimedBy, pictures, reviews>>

\* approveAdmin: an approved vouch is returned as it is.
VouchApprove(p, v, admin) ==
    /\ Shown(v)
    /\ vouches[v].about \in Item
    /\ vouches[v].status = "PENDING"
    /\ Begin(p, [at |-> "vouch.approve", id |-> v, user |-> admin])
    /\ UNCHANGED vouchVars

VouchApproveWrite(p) ==
    /\ At(p, "vouch.approve")
    /\ vouches' = [vouches EXCEPT ![calls[p].id].status = "APPROVED",
                                  ![calls[p].id].approvedBy = calls[p].user]
    /\ Return(p)
    /\ UNCHANGED <<ordered, claimedBy, pictures, reviews>>

-------------------------------------------------------------------------------
(* Reviews                                                                 *)

\* createReview: the order must be the user's and completed; whether a review exists decides
\* between the insert and the revival of a deleted one.
ReviewCreate(p, u, i) ==
    /\ ordered[i].user = u
    /\ ordered[i].status = "COMPLETED"
    /\ reviews[i] # "live"
    /\ Begin(p, [at |-> IF reviews[i] = "none" THEN "review.insert" ELSE "review.restore",
                 about |-> i])
    /\ UNCHANGED vouchVars

\* The unique orderId refuses a second insert.
ReviewInsert(p) ==
    /\ At(p, "review.insert")
    /\ reviews' = [reviews EXCEPT ![calls[p].about] = IF @ = "none" THEN "live" ELSE @]
    /\ Return(p)
    /\ UNCHANGED <<ordered, claimedBy, vouches, pictures>>

ReviewRestore(p) ==
    /\ At(p, "review.restore")
    /\ reviews' = [reviews EXCEPT ![calls[p].about] = "live"]
    /\ Return(p)
    /\ UNCHANGED <<ordered, claimedBy, vouches, pictures>>

\* updateOwnReview: the review is found, then rating and comment are written by id, to a review
\* that may have been deleted by then; which words it holds is not modelled.
ReviewUpdate(p, i) ==
    /\ reviews[i] = "live"
    /\ Begin(p, [at |-> "review.write", about |-> i])
    /\ UNCHANGED vouchVars

ReviewWrite(p) ==
    /\ At(p, "review.write")
    /\ Return(p)
    /\ UNCHANGED vouchVars

\* deleteOwnReview and deleteAdminReview.
ReviewDelete(p, i) ==
    /\ reviews[i] = "live"
    /\ Begin(p, [at |-> "review.delete", about |-> i])
    /\ UNCHANGED vouchVars

ReviewDeleteWrite(p) ==
    /\ At(p, "review.delete")
    /\ reviews' = [reviews EXCEPT ![calls[p].about] = "deleted"]
    /\ Return(p)
    /\ UNCHANGED <<ordered, claimedBy, vouches, pictures>>

VouchAbort(p) == Interrupt(p) /\ UNCHANGED vouchVars

-------------------------------------------------------------------------------

\* vouch.user.controller.ts
VouchUserRequest(p) ==
    \/ \E u \in Author, x \in Item \cup Claimed : VouchCreate(p, u, x)
    \/ \E v \in Vouch : VouchDelete(p, v)

\* vouch.admin.controller.ts
VouchAdminRequest(p) ==
    \E v \in Vouch : VouchDelete(p, v) \/ \E admin \in Author : VouchApprove(p, v, admin)

\* review.user.controller.ts
ReviewUserRequest(p) ==
    \E i \in Item :
        \/ \E u \in Author : ReviewCreate(p, u, i)
        \/ ReviewUpdate(p, i) \/ ReviewDelete(p, i)

VouchStep(p) ==
    \/ VouchUpload(p) \/ VouchInsert(p) \/ VouchDeleteWrite(p) \/ VouchApproveWrite(p)
    \/ ReviewInsert(p) \/ ReviewRestore(p) \/ ReviewWrite(p) \/ ReviewDeleteWrite(p)

VouchNext ==
    \E p \in Proc :
        \/ VouchUserRequest(p) \/ VouchAdminRequest(p) \/ ReviewUserRequest(p)
        \/ VouchStep(p) \/ VouchAbort(p)
        \/ \E i \in Item : OrderMoves(p, i)

VouchSpec == CallsInit /\ VouchInit /\ [][VouchNext]_<<callVars, vouchVars>>

VouchTypeOK ==
    /\ ordered \in [Item -> [status : OrderStatus, user : Author]]
    /\ claimedBy \in [Claimed -> Author]
    /\ vouches \in [Vouch -> VouchRow \cup {NoVouch}]
    /\ pictures \subseteq Vouch
    /\ reviews \in [Item -> Review]

\* Every row has its picture and speaks of an item that had been delivered to its user, or of
\* the user's own claim, whatever happened while the picture was uploaded; one for an item is
\* public only under a moderator's name.  The limit per item is tested before the upload and not
\* again: calls that pass the test together overshoot it, by less than the number of calls in
\* service.
VouchesAreSound ==
    /\ \A v \in Vouch : vouches[v] # NoVouch =>
          /\ v \in pictures
          /\ vouches[v].delivered
          /\ vouches[v].user =
                 IF vouches[v].about \in Item THEN ordered[vouches[v].about].user
                 ELSE claimedBy[vouches[v].about]
    /\ \A v \in PublicVouches : vouches[v].about \in Item => vouches[v].approvedBy # "none"
    /\ \A x \in Item \cup Claimed :
          Cardinality(LiveVouches(x)) <= MaxPerItem + Cardinality(Proc) - 1

\* A vouch that was taken down is never shown again, not even by an approval that was under way.
DeletedStaysDeleted ==
    [][\A v \in Vouch : (vouches[v] # NoVouch /\ vouches[v].deleted) => vouches'[v].deleted]_vouches

===============================================================================
