---------------------------------- MODULE Content ------------------------------
(***************************************************************************)
(* What administrators publish: the FAQ's categories and items             *)
(* (faq.service.ts), the links among the settings and the maintenance      *)
(* notice mailed to everybody (settings.service.ts), and the copies of FAQ *)
(* and settings the public side caches.                                    *)
(*                                                                         *)
(* A category is a row below Root, an item a row below its category.       *)
(* Texts, slugs and links are left out: a write of one makes a new version *)
(* of what is published.  Rows a transaction has updated are locked by it  *)
(* and read by others as they were.                                        *)
(***************************************************************************)
EXTENDS Calls, Sequences, FiniteSets, FiniteSetsExt, SequencesExt

CONSTANTS
    Category,
    Item,
    Orders,      \* lists of rows enumerated for reordering
    MaxPosition, \* bound: positions
    Customers,   \* ids of customers, in their order
    NoticeBatch  \* batchSize of broadcastMaintenanceNotice

Root == "root"

Row == Category \cup Item

ASSUME ContentAssumption ==
    /\ Category \cap Item = {}
    /\ Root \notin Row
    /\ Orders \subseteq Seq(Row) /\ \A o \in Orders : Len(o) <= MaxPosition + 1
    /\ MaxPosition \in Nat
    /\ Customers \subseteq Nat \ {0} /\ IsFiniteSet(Customers)
    /\ NoticeBatch \in Nat \ {0}

VARIABLES
    faq,         \* id -> row, as last updated
    locks,       \* id -> the transaction that has updated it and the row before that
    arranged,    \* parent -> list of the last reordering that stands (history)
    version,     \* cache key -> writes of what is published under it
    cache,       \* cache key -> copy
    reachable,   \* customers who are neither deleted nor banned
    notices      \* broadcasts that have ended (history)

contentVars == <<faq, locks, arranged, version, cache, reachable, notices>>

faqVars == <<faq, locks, arranged>>

noticeVars == <<reachable, notices>>

Key == {"faq", "settings"}

NoRow == [parent |-> "none"]

\* FaqCategory, FaqItem
FaqRow == [parent : Category \cup {Root}, position : 0 .. MaxPosition, deleted : BOOLEAN]

NoLock == [by |-> "nobody"]

\* A copy: late when what it copies had been written again before it was put there, or when the
\* call that was to delete it has ended without.
NoCopy == [version |-> 0, late |-> TRUE]

\* A row as a call other than its lock's holder reads it.
Seen(i) == IF locks[i] = NoLock THEN faq[i] ELSE locks[i].was

Listed(parent) == {i \in Row : Seen(i) # NoRow /\ Seen(i).parent = parent /\ ~Seen(i).deleted}

LiveRow(i) == Seen(i) # NoRow /\ ~Seen(i).deleted

Parent(i) == IF i \in Category THEN Root ELSE Seen(i).parent

\* Nobody else's transaction has updated the row.
Unlocked(p, i) == locks[i] = NoLock \/ locks[i].by = p

ContentInit ==
    /\ faq \in [Row -> {NoRow} \cup [parent : Category \cup {Root}, position : {0}, deleted : {FALSE}]]
    /\ \A i \in Row : faq[i] # NoRow =>
          IF i \in Category THEN faq[i].parent = Root
          ELSE faq[i].parent # Root /\ faq[faq[i].parent] # NoRow
    /\ locks = [i \in Row |-> NoLock]
    /\ arranged = [r \in Category \cup {Root} |-> <<>>]
    /\ version = [k \in Key |-> 1]
    /\ cache = [k \in Key |-> NoCopy]
    /\ reachable \in SUBSET Customers
    /\ notices = {}

Written(k) == version' = [version EXCEPT ![k] = @ + 1]

-------------------------------------------------------------------------------
(* The FAQ                                                                 *)

\* One after the last position.
NextPosition(parent) ==
    IF Listed(parent) = {} THEN 0
    ELSE LET last == Max({Seen(i).position : i \in Listed(parent)})
         IN  IF last < MaxPosition THEN last + 1 ELSE MaxPosition

\* createCategory: the slug is free, the last position read.
CreateCategory(p) ==
    /\ Begin(p, [at |-> "faq.insert", kind |-> Category, parent |-> Root,
                 position |-> NextPosition(Root)])
    /\ UNCHANGED contentVars

\* createItem: the category exists, the last position is read.
CreateItem(p, c) ==
    /\ LiveRow(c)
    /\ Begin(p, [at |-> "faq.insert", kind |-> Item, parent |-> c, position |-> NextPosition(c)])
    /\ UNCHANGED contentVars

\* The cache is told after every write.
ToldOf(p, k) == Goto(p, [at |-> "cache.del", key |-> k])

FaqInsert(p) ==
    /\ At(p, "faq.insert")
    /\ \E i \in calls[p].kind :
          /\ faq[i] = NoRow
          /\ faq' = [faq EXCEPT ![i] =
                 [parent |-> calls[p].parent, position |-> calls[p].position, deleted |-> FALSE]]
    /\ Written("faq")
    /\ ToldOf(p, "faq")
    /\ UNCHANGED <<locks, arranged, cache, noticeVars>>

\* updateCategory: a new name, or a position.
UpdateCategory(p, c, data) ==
    /\ LiveRow(c)
    /\ Begin(p, [at |-> "faq.write", ids |-> {c}, data |-> data])
    /\ UNCHANGED contentVars

\* updateItem: a new text.
UpdateItem(p, i) ==
    /\ LiveRow(i)
    /\ Begin(p, [at |-> "faq.write", ids |-> {i}, data |-> [text |-> "new"]])
    /\ UNCHANGED contentVars

\* deleteCategory: its items go with it, those there are when the transaction runs.
DeleteCategory(p, c) ==
    /\ LiveRow(c)
    /\ Begin(p, [at |-> "faq.write", ids |-> {c} \cup Item, data |-> [deleted |-> TRUE]])
    /\ UNCHANGED contentVars

\* deleteItem
DeleteItem(p, i) ==
    /\ LiveRow(i)
    /\ Begin(p, [at |-> "faq.write", ids |-> {i}, data |-> [deleted |-> TRUE]])
    /\ UNCHANGED contentVars

\* The update by id, or deleteCategory's transaction; both wait for the rows' locks.
FaqWrite(p) ==
    /\ At(p, "faq.write")
    /\ LET c == calls[p]
           ids == {i \in c.ids : i \in Item /\ c.ids \cap Category # {} =>
                                    faq[i] # NoRow /\ faq[i].parent \in c.ids /\ ~faq[i].deleted}
       IN  /\ \A i \in ids : Unlocked(p, i)
           /\ faq' = [i \in Row |->
                  IF i \in ids
                  THEN [f \in DOMAIN faq[i] |-> IF f \in DOMAIN c.data THEN c.data[f] ELSE faq[i][f]]
                  ELSE faq[i]]
           /\ arranged' = IF "position" \in DOMAIN c.data
                          THEN [arranged EXCEPT ![Root] = <<>>] ELSE arranged
    /\ Written("faq")
    /\ ToldOf(p, "faq")
    /\ UNCHANGED <<locks, cache, noticeVars>>

\* reorderCategories, reorderItems: the rows named are of one parent, not deleted, and as many as
\* the list has entries.
Reorder(p, parent, ordered) ==
    /\ IsInjective(ordered)
    /\ \A n \in DOMAIN ordered : LiveRow(ordered[n]) /\ Parent(ordered[n]) = parent
    /\ Begin(p, [at |-> "faq.reorder", parent |-> parent, ordered |-> ordered, next |-> 1])
    /\ UNCHANGED contentVars

\* Faulty variant: no transaction, every update commits by itself.
LockLetGo(p, i) == locks

\* The updates are of one transaction, which keeps its locks.
LockKept(p, i) ==
    [locks EXCEPT ![i] = IF @ = NoLock THEN [by |-> p, was |-> faq[i]] ELSE @]

\* One update of the list.
ReorderUpdate(p) ==
    /\ At(p, "faq.reorder")
    /\ calls[p].next <= Len(calls[p].ordered)
    /\ LET c == calls[p]
           i == c.ordered[c.next]
       IN  /\ Unlocked(p, i)
           /\ faq' = [faq EXCEPT ![i].position = c.next - 1]
           /\ locks' = LockKept(p, i)
           /\ Goto(p, [c EXCEPT !.next = @ + 1])
    /\ UNCHANGED <<arranged, version, cache, noticeVars>>

Released(p) == [i \in Row |-> IF locks[i] # NoLock /\ locks[i].by = p THEN NoLock ELSE locks[i]]

ReorderCommit(p) ==
    /\ At(p, "faq.reorder")
    /\ calls[p].next > Len(calls[p].ordered)
    /\ locks' = Released(p)
    /\ arranged' = [arranged EXCEPT ![calls[p].parent] = calls[p].ordered]
    /\ Written("faq")
    /\ ToldOf(p, "faq")
    /\ UNCHANGED <<faq, cache, noticeVars>>

WaitsFor(p, q) ==
    /\ At(p, "faq.reorder")
    /\ calls[p].next <= Len(calls[p].ordered)
    /\ LET l == locks[calls[p].ordered[calls[p].next]] IN l # NoLock /\ l.by = q

RolledBack(p) ==
    [i \in Row |-> IF locks[i] # NoLock /\ locks[i].by = p THEN locks[i].was ELSE faq[i]]

\* Two reorderings wait for each other: the database aborts one, whose rows are as they were.
ReorderDeadlock(p) ==
    /\ \E q \in Proc \ {p} : WaitsFor(p, q) /\ WaitsFor(q, p)
    /\ faq' = RolledBack(p)
    /\ locks' = Released(p)
    /\ Return(p)
    /\ UNCHANGED <<arranged, version, cache, noticeVars>>

-------------------------------------------------------------------------------
(* Settings and the caches                                                 *)

\* updateGeneral and updateSocial: the keys the request has are upserted one after the other.
UpdateSettings(p, keys) ==
    /\ Begin(p, [at |-> "settings.upsert", left |-> keys])
    /\ UNCHANGED contentVars

SettingsUpsert(p) ==
    /\ At(p, "settings.upsert")
    /\ Written("settings")
    /\ IF calls[p].left > 1
       THEN Goto(p, [at |-> "settings.upsert", left |-> calls[p].left - 1])
       ELSE ToldOf(p, "settings")
    /\ UNCHANGED <<faqVars, cache, noticeVars>>

\* Faulty variant: the copy stays until its time is up.
Uncached(k) == cache

\* invalidatePublicCache, and del of the settings' key.
Invalidated(k) == [cache EXCEPT ![k] = NoCopy]

CacheDel(p) ==
    /\ At(p, "cache.del")
    /\ cache' = Invalidated(calls[p].key)
    /\ Return(p)
    /\ UNCHANGED <<faqVars, version, noticeVars>>

\* listPublic, getPublic: nothing is cached, so the rows are read.
PublicRead(p, k) ==
    /\ cache[k] = NoCopy
    /\ Begin(p, [at |-> "cache.set", key |-> k, version |-> version[k]])
    /\ UNCHANGED contentVars

CacheSet(p) ==
    /\ At(p, "cache.set")
    /\ LET c == calls[p]
       IN  cache' = [cache EXCEPT ![c.key] =
                        [version |-> c.version, late |-> c.version < version[c.key]]]
    /\ Return(p)
    /\ UNCHANGED <<faqVars, version, noticeVars>>

\* PUBLIC_CACHE_TTL_MS, CACHE_TTL_MS
CacheExpires(k) ==
    /\ cache[k] # NoCopy
    /\ cache' = [cache EXCEPT ![k] = NoCopy]
    /\ UNCHANGED <<faqVars, version, noticeVars, callVars>>

\* The call has written what k publishes and is to delete its copy.
Owes(p, k) ==
    \/ At(p, "cache.del") /\ calls[p].key = k
    \/ At(p, "settings.upsert") /\ k = "settings"

\* An await throws or the process dies: a transaction is rolled back, and what was to be deleted
\* from the cache, or mailed, is not.
ContentAbort(p) ==
    /\ Interrupt(p)
    /\ faq' = RolledBack(p)
    /\ locks' = Released(p)
    /\ cache' = [k \in Key |-> IF Owes(p, k) THEN [cache[k] EXCEPT !.late = TRUE] ELSE cache[k]]
    /\ UNCHANGED <<arranged, version, noticeVars>>

-------------------------------------------------------------------------------
(* The maintenance notice                                                  *)

\* Faulty variant: the row of the cursor is not skipped.
RecipientsFromCursor(cursor) == {u \in reachable : u >= cursor}

\* findMany with the last recipient as the cursor and skip 1: of the rows from the cursor on
\* that match, the first is skipped, be it the cursor's or not.
RecipientsAfter(cursor) ==
    LET onward == {u \in reachable : u >= cursor}
    IN  IF cursor = 0 \/ onward = {} THEN onward ELSE onward \ {Min(onward)}

NoticeBegin(p) ==
    /\ Begin(p, [at |-> "notice.batch", cursor |-> 0, sent |-> <<>>, start |-> reachable,
                 fell |-> FALSE])
    /\ UNCHANGED contentVars

\* orderBy id, take
NoticeTo(cursor) ==
    LET after == RecipientsAfter(cursor)
        places == 1 .. IF Cardinality(after) < NoticeBatch THEN Cardinality(after) ELSE NoticeBatch
    IN  CHOOSE b \in [places -> after] :
           /\ \A m, n \in places : m < n => b[m] < b[n]
           /\ \A u \in after \ {b[n] : n \in places} : \A n \in places : b[n] < u

\* broadcastMaintenanceNotice: a batch is read and mailed; a short one is the last.
NoticeNext(p) ==
    /\ At(p, "notice.batch")
    /\ LET c == calls[p]
           batch == NoticeTo(c.cursor)
           sent == c.sent \o batch
       IN  IF Len(batch) = NoticeBatch
           THEN /\ Goto(p, [c EXCEPT !.cursor = Last(batch), !.sent = sent])
                /\ UNCHANGED notices
           ELSE /\ Return(p)
                /\ notices' = notices \cup {[sent |-> sent, start |-> c.start, fell |-> c.fell]}
    /\ UNCHANGED <<faqVars, version, cache, reachable>>

\* A customer is banned, unbanned, deleted or new meanwhile.
ReachChanges(u) ==
    /\ requests < MaxRequests
    /\ requests' = requests + 1
    /\ reachable' = IF u \in reachable THEN reachable \ {u} ELSE reachable \cup {u}
    /\ calls' = [p \in Proc |->
           IF At(p, "notice.batch") /\ u \in reachable THEN [calls[p] EXCEPT !.fell = TRUE]
           ELSE calls[p]]
    /\ UNCHANGED <<faqVars, version, cache, notices>>

-------------------------------------------------------------------------------

\* faq.admin.controller.ts
FaqAdminRequest(p) ==
    \/ CreateCategory(p)
    \/ \E c \in Category :
          \/ CreateItem(p, c) \/ DeleteCategory(p, c)
          \/ \E data \in [text : {"new"}] \cup [position : 0 .. MaxPosition] :
                UpdateCategory(p, c, data)
    \/ \E i \in Item : UpdateItem(p, i) \/ DeleteItem(p, i)
    \/ \E parent \in Category \cup {Root}, ordered \in Orders : Reorder(p, parent, ordered)

FaqStep(p) ==
    FaqInsert(p) \/ FaqWrite(p) \/ ReorderUpdate(p) \/ ReorderCommit(p) \/ ReorderDeadlock(p)

\* settings.admin.controller.ts, settings.public.controller.ts, faq.public.controller.ts
SettingsRequest(p) ==
    \/ \E keys \in {1, 2} : UpdateSettings(p, keys)
    \/ \E k \in Key : PublicRead(p, k)

SettingsStep(p) == SettingsUpsert(p) \/ CacheDel(p) \/ CacheSet(p)

ContentNext ==
    \/ \E p \in Proc :
          \/ FaqAdminRequest(p) \/ FaqStep(p) \/ SettingsRequest(p) \/ SettingsStep(p)
          \/ NoticeBegin(p) \/ NoticeNext(p) \/ ContentAbort(p)
    \/ \E k \in Key : CacheExpires(k)
    \/ \E u \in Customers : ReachChanges(u)

ContentSpec == CallsInit /\ ContentInit /\ [][ContentNext]_<<callVars, contentVars>>

ContentTypeOK ==
    /\ faq \in [Row -> FaqRow \cup {NoRow}]
    /\ \A i \in Row : locks[i] = NoLock \/ (locks[i].by \in Proc /\ locks[i].was \in FaqRow)
    /\ \A r \in Category \cup {Root} : arranged[r] \in Orders \cup {<<>>}
    /\ \A k \in Key : version[k] \in Nat /\ cache[k].version \in Nat /\ cache[k].late \in BOOLEAN
    /\ reachable \subseteq Customers
    /\ \A n \in notices : n.sent \in Seq(Customers) /\ n.start \subseteq Customers

\* Reorderings take effect as a whole: the rows of the last one have the positions it asked for,
\* although another may update the same rows in another order at the same time.
ReorderIsWhole ==
    \A r \in Category \cup {Root} :
        \A n \in DOMAIN arranged[r] : Seen(arranged[r][n]).position = n - 1

\* A cached copy that is not what is published is excused: the call that wrote has yet to delete
\* it or failed before it did, or it was put there late, by a reader the write overtook.  Every
\* operation that writes deletes the copy, so that none goes on being served once it has.
StaleIsExcused ==
    \A k \in Key :
        (cache[k] # NoCopy /\ cache[k].version < version[k]) =>
            cache[k].late \/ \E p \in Proc : Owes(p, k)

\* A maintenance notice is mailed to nobody twice and, unless somebody was banned or deleted
\* while it was sent, to everybody who could be reached when it began, although customers come
\* and return between two batches.
NoticeReachesAll ==
    \A n \in notices :
        /\ \A i, j \in DOMAIN n.sent : i # j => n.sent[i] # n.sent[j]
        /\ n.fell \/ n.start \subseteq {n.sent[i] : i \in DOMAIN n.sent}

===============================================================================
