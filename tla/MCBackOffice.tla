------------------------------ MODULE MCBackOffice -----------------------------
(***************************************************************************)
(* The store's back office for TLC: tickets, accounts, published contents  *)
(* and the activity log.  Their modules share no row, so that instead of   *)
(* interleaving them the instance explores one at a time: focus, chosen in *)
(* the initial state, names the part that moves, and the others rest in    *)
(* one of their initial states.                                            *)
(***************************************************************************)
EXTENDS Tickets, Accounts, Content, ActivityLog, TLC

CONSTANTS Focus, s1, i1, e1, n1, c1, c2, q1, q2

VARIABLE focus

backOfficeVars == <<callVars, ticketVars, accountVars, contentVars, logVars, focus>>

MCTicketPatches == [status : {"WAITING_USER", "CLOSED", "CANCELLED"}] \cup [assignee : {s1, "none"}]

MCOrders == {<<c1, c2>>, <<c2, c1>>, <<q1, q2>>, <<q2, q1>>}

\* Rows that share a createdAt, so that batches end between two of them.
MCInitialRows ==
    {{[id |-> i, createdAt |-> 0, request |-> 1] : i \in ids} : ids \in {{}, {1, 3}, {1, 2, 3}}}

MCSymmetry == Permutations(Proc)

AccountFoci == {"secrets", "addresses", "users", "team"}

\* Where the parts out of focus rest.
Rest ==
    /\ accounts[i1] = NewAccount(e1, n1, "USER", 0)
    /\ focus \notin AccountFoci => \A i \in Account \ {i1} : accounts[i] = NoAccount
    /\ focus # "notices" => reachable = {}
    /\ focus = "faq" => \A c \in Category : faq[c] # NoRow
    /\ focus # "faq" => \A r \in Row : faq[r] = NoRow
    /\ focus # "reads" => rows = {}

Init ==
    /\ focus \in Focus
    /\ CallsInit
    /\ TicketInit
    /\ AccountInit
    /\ ContentInit
    /\ LogInit
    /\ Rest

Only(name) ==
    /\ focus = name
    /\ UNCHANGED focus
    /\ name # "tickets" => UNCHANGED ticketVars
    /\ name \notin AccountFoci => UNCHANGED accountVars
    /\ name \notin {"faq", "caches", "notices"} => UNCHANGED contentVars
    /\ name \notin {"audit", "reads"} => UNCHANGED logVars

AccountMoves(p) == AccountStep(p) \/ AccountAbort(p)

\* One reading of the log, while rows are written with at most one other createdAt.
OneReading ==
    /\ clock' <= 1
    /\ dropped' = dropped /\ failures' = failures
    /\ Cardinality(reads') + Cardinality({p \in Proc : calls'[p].at \in {"log.page", "log.export"}}) <= 1

\* Where nothing is read, rows are written in the order of their ids at one time.
WrittenInOrder ==
    /\ clock' = clock
    /\ \A r \in rows' : \A i \in RowId : i < r.id => \E s \in rows' : s.id = i

Moves ==
    \/ Only("tickets") /\ TicketNext
    \/ /\ Only("secrets")
       /\ \E p \in Proc :
             SecretRequest(p) \/ BanUser(p, i1) \/ UnbanUser(p, i1) \/ AccountMoves(p)
    \/ Only("addresses") /\ \E p \in Proc : AddressRequest(p) \/ AccountMoves(p)
    \/ Only("users") /\ \E p \in Proc : UserAdminRequest(p) \/ AccountMoves(p)
    \/ Only("team") /\ \E p \in Proc : TeamRequest(p) \/ AccountMoves(p)
    \/ Only("faq") /\ \E p \in Proc : FaqAdminRequest(p) \/ FaqStep(p) \/ CacheDel(p) \/ ContentAbort(p)
    \/ /\ Only("caches")
       /\ \/ \E p \in Proc :
                \/ CreateCategory(p) \/ \E c \in Category : DeleteCategory(p, c)
                \/ FaqStep(p) \/ SettingsRequest(p) \/ SettingsStep(p) \/ ContentAbort(p)
          \/ \E k \in Key : CacheExpires(k)
    \/ /\ Only("notices")
       /\ \/ \E p \in Proc : NoticeBegin(p) \/ NoticeNext(p)
          \/ \E u \in Customers : ReachChanges(u)
    \/ /\ Only("audit")
       /\ \/ \E p \in Proc : AuditedRequest(p) \/ LogStep(p)
          \/ \E j \in jobs : JobPersists(j) \/ JobFails(j)
       /\ WrittenInOrder
    \/ /\ Only("reads")
       /\ \/ \E p \in Proc : LogRequest(p) \/ LogStep(p)
          \/ \E j \in jobs : JobPersists(j)
       /\ OneReading

\* Bounds on the requests, fewer where they are most varied.
Bound ==
    CASE focus = "tickets" -> MaxRequests
      [] focus \in {"faq", "audit", "reads"} -> MaxRequests - 2
      [] OTHER -> MaxRequests - 1

Next == Moves /\ requests' <= Bound

\* The parts' states are of their types, an ended ticket is dated, and addresses and user names are
\* of one account each, deleted ones included, although every call tests for a free one well
\* before it writes, createByAdmin does not test the deleted ones and updateUser tests nothing.
BackOfficeTypeOK == TicketTypeOK /\ AccountTypeOK /\ ContentTypeOK /\ LogTypeOK

Spec == Init /\ [][Next]_backOfficeVars

===============================================================================
