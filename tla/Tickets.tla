---------------------------------- MODULE Tickets ------------------------------
(***************************************************************************)
(* Support tickets: the tickets themselves (ticket.service.ts), their      *)
(* messages (ticket-message.service.ts) and the news the staff's dashboard *)
(* gets over the socket (ticket.gateway.ts), which a message sends at once *)
(* or, when it leaves the status alone, through a debounced timer.         *)
(*                                                                         *)
(* The texts, the order a ticket is about and the attachments, which are   *)
(* uploaded to presigned addresses beforehand, are left out.               *)
(***************************************************************************)
EXTENDS Calls, Sequences, FiniteSets

CONSTANTS
    Ticket,
    Customer,
    Staff,        \* SUPPORT_HANDLING_ROLES and the super administrators
    SuperAdmin,
    TicketPatches, \* update requests enumerated
    MaxMessages   \* bound: messages ever sent

ASSUME TicketAssumption ==
    /\ SuperAdmin \subseteq Staff
    /\ Customer \cap Staff = {}
    /\ MaxMessages \in Nat

VARIABLES
    tickets,      \* id -> row
    messages,     \* messages of all tickets, in the order of createdAt
    timers,       \* tickets with a timer in staffListUpsertTimers
    news,         \* id -> how many messages there were when its row was last counted for the dashboard
    missed        \* id -> how many there were when such a count last failed (history)

ticketVars == <<tickets, messages, timers, news, missed>>

TicketStatus == {"OPEN", "IN_PROGRESS", "WAITING_USER", "RESOLVED", "CLOSED", "CANCELLED"}

Ended == {"RESOLVED", "CLOSED", "CANCELLED"}

NoTicket == [status |-> "none"]

\* SupportTicket: closed stands for a closedAt, readUpTo for lastStaffReadAt.
TicketRow ==
    [user : Customer, status : TicketStatus, closed : BOOLEAN, assignee : Staff \cup {"none"},
     readUpTo : 0 .. MaxMessages]

TicketMessage == [ticket : Ticket, author : Customer \cup Staff, isStaff : BOOLEAN]

\* TicketUpdateDto: the fields a request carries; a priority changes nothing modelled here.
TicketPatch ==
    [status : TicketStatus] \cup [assignee : Staff \cup {"none"}]
        \cup [status : TicketStatus, assignee : Staff]

ASSUME TicketPatchAssumption == TicketPatches \subseteq TicketPatch

Opened(t) == tickets[t] # NoTicket

MessagesOf(t) == {n \in DOMAIN messages : messages[n].ticket = t}

\* sendCustomerMessage
AfterCustomer(status) ==
    IF status = "IN_PROGRESS" THEN "WAITING_USER"
    ELSE IF status = "WAITING_USER" THEN "IN_PROGRESS" ELSE status

\* sendStaffMessage
AfterStaff(status) == IF status \in {"OPEN", "WAITING_USER"} THEN "IN_PROGRESS" ELSE status

\* assertTicketAccess and canJoinTicket: all of the staff, its own customer.
MayRead(u, t) == Opened(t) /\ (u \in Staff \/ tickets[t].user = u)

TicketInit ==
    /\ tickets = [t \in Ticket |-> NoTicket]
    /\ messages = <<>>
    /\ timers = {}
    /\ news = [t \in Ticket |-> 0]
    /\ missed = [t \in Ticket |-> 0]

-------------------------------------------------------------------------------
(* Tickets                                                                 *)

\* createTicket: the order is the customer's, the number is free.
TicketCreate(p, u) ==
    /\ Begin(p, [at |-> "ticket.insert", user |-> u])
    /\ UNCHANGED ticketVars

\* createTicket: the row and its first message.
TicketInsert(p) ==
    /\ At(p, "ticket.insert")
    /\ Len(messages) < MaxMessages
    /\ \E t \in Ticket :
          /\ ~Opened(t)
          /\ tickets' = [tickets EXCEPT ![t] =
                 [user |-> calls[p].user, status |-> "OPEN", closed |-> FALSE, assignee |-> "none",
                  readUpTo |-> 0]]
          /\ messages' = Append(messages,
                 [ticket |-> t, author |-> calls[p].user, isStaff |-> FALSE])
          /\ Goto(p, [at |-> "ticket.emit", id |-> t])
    /\ UNCHANGED <<timers, news, missed>>

\* countStaffUnread: the unread messages are counted and the dashboard told; after all but a
\* message's commit the row is read again first.
TicketEmit(p) ==
    /\ At(p, "ticket.emit")
    /\ news' = [news EXCEPT ![calls[p].id] = Len(messages)]
    /\ Return(p)
    /\ UNCHANGED <<tickets, messages, timers, missed>>

\* updateTicket and closeTicket: access, and the role of the person it is assigned to.
TicketUpdate(p, t, patch) ==
    /\ Opened(t)
    /\ Begin(p, [at |-> "ticket.write", id |-> t, dto |-> patch])
    /\ UNCHANGED ticketVars

\* resolveTicketByOwner
TicketResolve(p, t) ==
    /\ Opened(t)
    /\ tickets[t].status \notin Ended
    /\ Begin(p, [at |-> "ticket.write", id |-> t, dto |-> [status |-> "RESOLVED"]])
    /\ UNCHANGED ticketVars

\* closedAt goes with the status.
Redated(row, dto) ==
    [f \in DOMAIN row |->
        IF f = "closed" /\ "status" \in DOMAIN dto THEN dto.status \in Ended
        ELSE IF f \in DOMAIN dto THEN dto[f] ELSE row[f]]

\* updateTicket, resolveTicketByOwner: the write, by id.
TicketWrite(p) ==
    /\ At(p, "ticket.write")
    /\ LET t == calls[p].id
           dto == calls[p].dto
       IN  /\ tickets' = [tickets EXCEPT ![t] = Redated(@, dto)]
           /\ Goto(p, [at |-> "ticket.emit", id |-> t])
    /\ UNCHANGED <<messages, timers, news, missed>>

\* markRead, also on ticket:join by somebody of the staff: the ticket exists.
TicketRead(p, t) ==
    /\ Opened(t)
    /\ Begin(p, [at |-> "ticket.read", id |-> t])
    /\ UNCHANGED ticketVars

\* markRead: lastStaffReadAt is now.
TicketReadWrite(p) ==
    /\ At(p, "ticket.read")
    /\ tickets' = [tickets EXCEPT ![calls[p].id].readUpTo = Len(messages)]
    /\ Goto(p, [at |-> "ticket.emit", id |-> calls[p].id])
    /\ UNCHANGED <<messages, timers, news, missed>>

-------------------------------------------------------------------------------
(* Messages                                                                *)

\* sendStaffMessage: the ticket is assigned to the author, super administrators apart.
MayAnswer(u, t) == u \in SuperAdmin \/ tickets[t].assignee = u

\* sendCustomerMessage, sendStaffMessage: the ticket is read, the next status computed.
MessageSend(p, t, u) ==
    /\ MayRead(u, t)
    /\ u \in Staff => MayAnswer(u, t)
    /\ Begin(p, [at |-> "message.commit", id |-> t, author |-> u, status |-> tickets[t].status,
                 next |-> IF u \in Staff THEN AfterStaff(tickets[t].status)
                          ELSE AfterCustomer(tickets[t].status)])
    /\ UNCHANGED ticketVars

\* The transaction: the message, and the status when it differs from the one that was read.
MessageCommit(p) ==
    /\ At(p, "message.commit")
    /\ Len(messages) < MaxMessages
    /\ LET c == calls[p]
           changes == c.next # c.status
       IN  /\ messages' = Append(messages,
                  [ticket |-> c.id, author |-> c.author, isStaff |-> c.author \in Staff])
           /\ tickets' = IF changes THEN [tickets EXCEPT ![c.id].status = c.next] ELSE tickets
           /\ Goto(p, [at |-> IF changes THEN "ticket.emit" ELSE "message.debounce", id |-> c.id])
    /\ UNCHANGED <<timers, news, missed>>

\* Faulty variant: a timer that is running is cleared, and none is set in its place.
TimerCleared(t) == IF t \in timers THEN timers \ {t} ELSE timers \cup {t}

\* scheduleDebouncedStaffListUpsert: a timer that is running is replaced.
TimerSet(t) == timers \cup {t}

MessageDebounce(p) ==
    /\ At(p, "message.debounce")
    /\ timers' = TimerSet(calls[p].id)
    /\ Return(p)
    /\ UNCHANGED <<tickets, messages, news, missed>>

\* 500 ms after the last of the messages: the dashboard gets the row as one of them read it,
\* with the unread messages counted now.
TimerFires(t) ==
    /\ t \in timers
    /\ timers' = timers \ {t}
    /\ news' = [news EXCEPT ![t] = Len(messages)]
    /\ UNCHANGED <<tickets, messages, missed, callVars>>

-------------------------------------------------------------------------------
(* Failures.  A process that stops is all of its calls and timers failing. *)

\* What a call at one of these has left to do is to count, or to set the timer.
CountSteps == {"ticket.emit", "message.debounce"}

Missed(t) == missed' = [missed EXCEPT ![t] = Len(messages)]

\* An await throws; countStaffUnread and the row's rereading do so after the commit.
TicketAbort(p) ==
    /\ Interrupt(p)
    /\ IF calls[p].at \in CountSteps THEN Missed(calls[p].id) ELSE UNCHANGED missed
    /\ UNCHANGED <<tickets, messages, timers, news>>

\* The timer is deleted first; when its factory then rejects, nobody catches that.
TimerFails(t) ==
    /\ t \in timers
    /\ timers' = timers \ {t}
    /\ Missed(t)
    /\ UNCHANGED <<tickets, messages, news, callVars>>

-------------------------------------------------------------------------------

\* ticket.public.controller.ts
TicketPublicRequest(p) ==
    \E u \in Customer :
        \/ TicketCreate(p, u)
        \/ \E t \in Ticket :
              MayRead(u, t) /\ (TicketResolve(p, t) \/ MessageSend(p, t, u))

\* ticket.admin.controller.ts, and the staff's ticket:join on the socket.
TicketAdminRequest(p) ==
    \E t \in Ticket :
        \/ TicketRead(p, t)
        \/ \E patch \in TicketPatches : TicketUpdate(p, t, patch)
        \/ \E u \in Staff : MessageSend(p, t, u)

TicketStep(p) ==
    \/ TicketInsert(p) \/ TicketWrite(p) \/ TicketReadWrite(p) \/ TicketEmit(p)
    \/ MessageCommit(p) \/ MessageDebounce(p)

TicketNext ==
    \/ \E p \in Proc :
          TicketPublicRequest(p) \/ TicketAdminRequest(p) \/ TicketStep(p) \/ TicketAbort(p)
    \/ \E t \in Ticket : TimerFires(t) \/ TimerFails(t)

TicketSpec == CallsInit /\ TicketInit /\ [][TicketNext]_<<callVars, ticketVars>>

TicketTypeOK ==
    /\ tickets \in [Ticket -> TicketRow \cup {NoTicket}]
    /\ messages \in Seq(TicketMessage) /\ Len(messages) <= MaxMessages
    /\ timers \subseteq Ticket
    /\ news \in [Ticket -> 0 .. MaxMessages]
    /\ missed \in [Ticket -> 0 .. MaxMessages]
    /\ \A t \in Ticket : (Opened(t) /\ tickets[t].status \in Ended) => tickets[t].closed

\* Only a count that fails leaves a message out of the dashboard: whenever the row it shows of
\* a ticket was counted before the ticket's last message, another count is still to come, by a
\* call in service or by a timer, although every message replaces the timer of the one before;
\* or a count that came after that message failed, and nobody tries it again.  (Two counts may
\* reach the dashboard in the wrong order.)
NewsIsOnItsWay ==
    \A t \in Ticket :
        (\E n \in MessagesOf(t) : n > news[t] /\ n > missed[t]) =>
            \/ t \in timers
            \/ \E p \in Proc : calls[p].at \in CountSteps /\ calls[p].id = t

===============================================================================
