--------------------------------- MODULE ActivityLog ---------------------------
(***************************************************************************)
(* The activity log: a row for each audited request of the administrators, *)
(* which AuditLogInterceptor hands to a queue when the handler has         *)
(* answered or thrown (audit-log.interceptor.ts, activity-log.processor.ts)*)
(* and the two ways of reading the log in batches, by pages and as one CSV *)
(* export (activity-log.service.ts), while rows go on being written.       *)
(*                                                                         *)
(* What a row says is left out: who acted, the fields before and after.    *)
(***************************************************************************)
EXTENDS Calls, Sequences, FiniteSets, SequencesExt

CONSTANTS
    Attempts,    \* attempts of the job options
    BatchSize,   \* rows of a batch of the export, of a page
    RowCap,      \* EXPORT_ROW_CAP
    InitialRows, \* what the log may hold at first
    RowId        \* ids of rows: random, compared by size when createdAt is equal

ASSUME LogAssumption ==
    /\ Attempts \in Nat \ {0}
    /\ BatchSize \in Nat \ {0}
    /\ RowCap \in Nat \ {0}
    /\ RowId \subseteq Nat

VARIABLES
    rows,        \* activity_logs
    jobs,        \* jobs of the queue
    clock,       \* createdAt of the last row
    audited,     \* requests whose handler has ended (history)
    failures,    \* request -> failed attempts to store it (history)
    dropped,     \* requests lost with their process or by a failed direct write (history)
    reads        \* readings of the log that have ended (history)

logVars == <<rows, jobs, clock, audited, failures, dropped, reads>>

Times == 0 .. MaxRequests

\* ActivityLog
LogRow == [id : RowId, createdAt : Times, request : 1 .. MaxRequests]

\* The table's key.
IdsDiffer(table) == \A r, s \in table : r.id = s.id => r = s

ASSUME InitialRowsAssumption ==
    \A table \in InitialRows : table \subseteq LogRow /\ IsFiniteSet(table) /\ IdsDiffer(table)

Job == [request : 1 .. MaxRequests, attemptsMade : 0 .. Attempts - 1]

NoCursor == [createdAt |-> MaxRequests + 1, id |-> 0]

LogInit ==
    /\ rows \in InitialRows
    /\ jobs = {}
    /\ clock = 0
    /\ audited = {}
    /\ failures = [r \in 1 .. MaxRequests |-> 0]
    /\ dropped = {}
    /\ reads = {}

\* insertRow: the id is random, createdAt the same as the last row's or later.
Inserted(request) ==
    \E i \in RowId \ {r.id : r \in rows}, t \in clock .. clock + 1 :
        /\ t \in Times
        /\ rows' = rows \cup {[id |-> i, createdAt |-> t, request |-> request]}
        /\ clock' = t

-------------------------------------------------------------------------------
(* Writing                                                                 *)

\* intercept: the handler of an audited request has answered or thrown.
AuditedRequest(p) ==
    /\ Begin(p, [at |-> "log.enqueue", request |-> requests + 1])
    /\ audited' = audited \cup {requests + 1}
    /\ UNCHANGED <<rows, jobs, clock, failures, dropped, reads>>

\* enqueue: the job is added, or the queue is not available.
LogEnqueue(p) ==
    /\ At(p, "log.enqueue")
    /\ \/ /\ jobs' = jobs \cup {[request |-> calls[p].request, attemptsMade |-> 0]}
          /\ Return(p)
       \/ /\ Goto(p, [at |-> "log.direct", request |-> calls[p].request])
          /\ UNCHANGED jobs
    /\ UNCHANGED <<rows, clock, audited, failures, dropped, reads>>

\* persistDirect, which nobody retries.
LogDirect(p) ==
    /\ At(p, "log.direct")
    /\ \/ Inserted(calls[p].request) /\ UNCHANGED dropped
       \/ /\ dropped' = dropped \cup {calls[p].request}
          /\ UNCHANGED <<rows, clock>>
    /\ Return(p)
    /\ UNCHANGED <<jobs, audited, failures, reads>>

\* The process dies while the row is handed on: the answer has gone out already.
LogAbort(p) ==
    /\ calls[p].at \in {"log.enqueue", "log.direct"}
    /\ dropped' = dropped \cup {calls[p].request}
    /\ Return(p)
    /\ UNCHANGED <<rows, jobs, clock, audited, failures, reads>>

\* handlePersist succeeds: Bull removes the job; or, when the worker stalls before it has said
\* so, Bull gives the job to another worker.
JobPersists(j) ==
    /\ j \in jobs
    /\ Inserted(j.request)
    /\ jobs' \in {jobs \ {j}, jobs}
    /\ UNCHANGED <<audited, failures, dropped, reads, callVars>>

\* Faulty variant: the error is logged and not thrown again, which completes the job.
AfterErrorCaught(j) == jobs \ {j}

\* handlePersist throws: Bull counts the attempt and keeps the job while some are left.
AfterError(j) ==
    IF j.attemptsMade + 1 < Attempts
    THEN (jobs \ {j}) \cup {[j EXCEPT !.attemptsMade = @ + 1]}
    ELSE jobs \ {j}

JobFails(j) ==
    /\ j \in jobs
    /\ jobs' = AfterError(j)
    /\ failures' = [failures EXCEPT ![j.request] = @ + 1]
    /\ UNCHANGED <<rows, clock, audited, dropped, reads, callVars>>

-------------------------------------------------------------------------------
(* Reading                                                                 *)

\* orderBy createdAt desc, id desc
Precedes(r, s) ==
    \/ r.createdAt > s.createdAt
    \/ r.createdAt = s.createdAt /\ r.id > s.id

\* Faulty variant: only the date is compared with the cursor's.
AfterCursorDate(cursor) == {r \in rows : r.createdAt < cursor.createdAt}

\* cursorWhere, cursorFilter
AfterCursor(cursor) == {r \in rows : Precedes(cursor, r)}

\* take: the first of them in the order above.
Batch(cursor, size) ==
    LET after == AfterCursor(cursor)
        places == 1 .. IF Cardinality(after) < size THEN Cardinality(after) ELSE size
    IN  CHOOSE b \in [places -> after] :
           /\ \A m, n \in places : m < n => Precedes(b[m], b[n])
           /\ \A r \in after \ {b[n] : n \in places} : \A n \in places : Precedes(b[n], r)

\* Somebody begins to page through the log, or exports it.
ReadBegin(p, mode) ==
    /\ Begin(p, [at |-> mode, cursor |-> NoCursor, written |-> <<>>, start |-> rows])
    /\ UNCHANGED logVars

\* The batch is written out; the next one starts after its last row.
ReadOn(p, batch, more) ==
    LET c == calls[p]
        written == c.written \o batch
    IN  IF more
        THEN /\ Goto(p, [at |-> c.at, written |-> written, start |-> c.start,
                         cursor |-> [createdAt |-> Last(batch).createdAt, id |-> Last(batch).id]])
             /\ UNCHANGED reads
        ELSE /\ Return(p)
             /\ reads' = reads \cup {[start |-> c.start, written |-> written,
                                      capped |-> c.at = "log.export" /\ Len(written) = RowCap]}

\* streamExportCsv: a full batch is followed by another, until the cap.
LogExport(p) ==
    /\ At(p, "log.export")
    /\ LET left == RowCap - Len(calls[p].written)
           size == IF BatchSize < left THEN BatchSize ELSE left
           batch == Batch(calls[p].cursor, size)
       IN  ReadOn(p, batch, Len(batch) = size /\ size < left)
    /\ UNCHANGED <<rows, jobs, clock, audited, failures, dropped>>

\* findMany: one row more than the page is read; a page that has one more has a nextCursor.
LogPage(p) ==
    /\ At(p, "log.page")
    /\ LET found == Batch(calls[p].cursor, BatchSize + 1)
           more == Len(found) > BatchSize
       IN  ReadOn(p, IF more THEN Front(found) ELSE found, more)
    /\ UNCHANGED <<rows, jobs, clock, audited, failures, dropped>>

\* activity-log.admin.controller.ts, and the audited handlers of the others.
LogRequest(p) ==
    \/ AuditedRequest(p)
    \/ \E mode \in {"log.export", "log.page"} : ReadBegin(p, mode)

LogStep(p) == LogEnqueue(p) \/ LogDirect(p) \/ LogAbort(p) \/ LogExport(p) \/ LogPage(p)

LogNext ==
    \/ \E p \in Proc : LogRequest(p) \/ LogStep(p)
    \/ \E j \in jobs : JobPersists(j) \/ JobFails(j)

LogSpec == CallsInit /\ LogInit /\ [][LogNext]_<<callVars, logVars>>

LogTypeOK ==
    /\ rows \subseteq LogRow /\ IdsDiffer(rows)
    /\ jobs \subseteq Job
    /\ clock \in Times
    /\ audited \subseteq 1 .. MaxRequests
    /\ failures \in [1 .. MaxRequests -> Nat]
    /\ dropped \subseteq audited
    /\ \A r \in reads : r.start \subseteq LogRow /\ r.written \in Seq(LogRow) /\ r.capped \in BOOLEAN

\* An audited request is on its way to the log or in it, unless every attempt its job has has
\* failed or it was dropped before there was a job: neither a failed attempt, nor a queue that is
\* down, nor a worker that stalls loses it.
AuditIsKept ==
    \A r \in audited :
        \/ r \in dropped
        \/ failures[r] >= Attempts
        \/ \E row \in rows : row.request = r
        \/ \E j \in jobs : j.request = r
        \/ \E p \in Proc : calls[p].at \in {"log.enqueue", "log.direct"} /\ calls[p].request = r

\* A reading of the log in batches has no row twice and none out of order, and, unless the cap
\* cut it short, every row that was there when it began, whatever was written meanwhile and
\* although rows may share a createdAt.
ReadingIsExact ==
    \A r \in reads :
        /\ \A m, n \in DOMAIN r.written : m < n => Precedes(r.written[m], r.written[n])
        /\ r.capped \/ r.start \subseteq {r.written[n] : n \in DOMAIN r.written}

===============================================================================
