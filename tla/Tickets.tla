------------------------------ MODULE Tickets ------------------------------
(***************************************************************************)
(* One support ticket between its user and an administrator: the chat      *)
(* panes of TicketsPage.tsx and AdminTicketsPage.tsx, the query and the    *)
(* mutations behind them (features/tickets), and the handlers that answer  *)
(* (handler_tickets.go), which read the row in one statement and write it  *)
(* in another.  One of the two panes is watched; the other side is known   *)
(* by its requests.  A pane is given its ticket by the address; App.tsx    *)
(* has no route that carries one, so the panes are specified by themselves.*)
(***************************************************************************)
EXTENDS Integers, FiniteSets

CONSTANTS
    StatusOptions,   \* the statuses the page offers, answered not among them
    MaxRequests      \* bound on the requests in flight

ASSUME TicketsAssumption ==
    MaxRequests \in Nat /\ StatusOptions \subseteq {"open", "pending", "resolved", "closed"}

VARIABLES
    me,            \* the side whose pane is watched
    ticket,        \* the row: its status, and whom it is assigned to
    jobs,          \* per kind of request, where its handler is
    pane,          \* the status its detail query holds
    query,         \* the state of that query
    lacks,         \* its accepted requests are not all in the pane, and not
                   \* all in the answer under way
    draft          \* the reply box has text

ticketVars == <<me, ticket, jobs, pane, query, lacks, draft>>

Sides == {"user", "admin"}
\* Ctrl+Enter sends again while a reply is in flight; the buttons do not.  (The
\* administrator's box does so too: the second reply is the user's here.)
JobIds == {"userReply", "userAgain", "adminReply", "status", "assign"}
SideOf(j) == IF j \in {"userReply", "userAgain"} THEN "user" ELSE "admin"
IsReply(j) == j \in {"userReply", "userAgain", "adminReply"}

Unassigned == "0"
Unopened == "unopened"
NoRow == [status |-> Unopened, assignee |-> Unassigned]
NoTicketJob == [phase |-> "idle", row |-> NoRow, value |-> Unassigned]
NoGap == [pane |-> FALSE, answer |-> FALSE]

TicketsInit ==
    /\ ticket = [status |-> "open", assignee |-> Unassigned]
    /\ jobs = [j \in JobIds |-> NoTicketJob]
    /\ me \in Sides
    /\ pane = Unopened /\ query = "idle" /\ lacks = NoGap /\ draft = FALSE

(***************************************************************************)
(* The detail query                                                        *)
(***************************************************************************)

\* The address names the ticket, or the refresh button is clicked.
OpenTicket ==
    /\ query' = "asked"
    /\ UNCHANGED <<me, ticket, jobs, pane, lacks, draft>>

DetailRead ==
    /\ query = "asked"
    /\ query' = ticket.status
    /\ lacks' = [lacks EXCEPT !.answer = FALSE]
    /\ UNCHANGED <<me, ticket, jobs, pane, draft>>

DetailArrives ==
    /\ query \notin {"idle", "asked", "failed"}
    /\ query' = "idle"
    /\ pane' = query
    /\ lacks' = [lacks EXCEPT !.pane = lacks.answer]
    /\ UNCHANGED <<me, ticket, jobs, draft>>

DetailFails ==
    /\ query = "asked"
    /\ query' = "failed"
    /\ UNCHANGED <<me, ticket, jobs, pane, lacks, draft>>

\* Mutant: the request under way is awaited instead.
RefetchedUnlessAsked(j) == IF SideOf(j) = me /\ query = "idle" THEN "asked" ELSE query

\* A mutation that succeeded invalidates every ticket query, and the pane
\* refetches: a request under way is dropped for one sent now.
Refetched(j) == IF SideOf(j) = me THEN "asked" ELSE query

\* The reply box is there when the ticket is known and not closed.
CanReply(s) == s # me \/ pane \notin {Unopened, "closed"}

(***************************************************************************)
(* What the two sides do                                                   *)
(***************************************************************************)

Type ==
    /\ CanReply(me) /\ draft' = TRUE
    /\ UNCHANGED <<me, ticket, jobs, pane, query, lacks>>

Submit(j, value) ==
    /\ jobs[j].phase = "idle"
    /\ Cardinality({k \in JobIds : jobs[k].phase # "idle"}) < MaxRequests
    /\ jobs' = [jobs EXCEPT ![j] = [NoTicketJob EXCEPT !.phase = "sent", !.value = value]]
    /\ UNCHANGED <<me, ticket, pane, query, lacks, draft>>

SubmitReply(j) ==
    /\ IsReply(j) /\ CanReply(SideOf(j)) /\ (SideOf(j) = me => draft)
    /\ j = "userAgain" => jobs["userReply"].phase # "idle"
    /\ Submit(j, "box")

\* One of the quick replies; the user's close button is a reply as well.
SubmitQuickReply == CanReply("admin") /\ Submit("adminReply", "box")
HandleClose == CanReply("user") /\ Submit("userReply", "close")

\* The selector offers the statuses that the pane does not show.
StatusOffered(status) == me = "admin" => pane \notin {Unopened, status}

HandleStatusChange(status) ==
    /\ StatusOffered(status)
    /\ Submit("status", status)

AssignTicket == (me = "admin" => pane # Unopened) /\ Submit("assign", Unassigned)

(***************************************************************************)
(* The handlers                                                            *)
(***************************************************************************)

LoadTicket(j) ==
    /\ jobs[j].phase = "sent"
    /\ jobs' = [jobs EXCEPT ![j] = [@ EXCEPT !.phase = "loaded", !.row = ticket]]
    /\ UNCHANGED <<me, ticket, pane, query, lacks, draft>>

\* The status a reply writes is computed from the row read before.
StatusAfterReply(j) ==
    LET status == jobs[j].row.status IN
    IF SideOf(j) = "admin" /\ status = "open" THEN "answered"
    ELSE IF SideOf(j) = "user" /\ status = "answered" THEN "open"
    ELSE status

\* A reply updates one column; a status and an assignment save the whole row
\* that was read.  The assignment's body names staff_id, which the handler
\* does not read: it assigns the administrator who asked.
Written(j) ==
    CASE IsReply(j) -> [ticket EXCEPT !.status = StatusAfterReply(j)]
      [] j = "status" -> [jobs[j].row EXCEPT !.status = jobs[j].value]
      [] j = "assign" -> [jobs[j].row EXCEPT !.assignee = "self"]

SaveTicket(j) ==
    /\ jobs[j].phase = "loaded"
    /\ ticket' = Written(j)
    /\ jobs' = [jobs EXCEPT ![j] = [@ EXCEPT !.phase = "saved", !.row = NoRow]]
    /\ UNCHANGED <<me, pane, query, lacks, draft>>

\* The box is emptied when the answer comes, whatever was typed meanwhile.
Clears(j) == SideOf(j) = me /\ jobs[j].value = "box"

JobAccepted(j) ==
    /\ jobs[j].phase = "saved"
    /\ jobs' = [jobs EXCEPT ![j] = NoTicketJob]
    /\ draft' = (draft /\ ~Clears(j))
    /\ query' = Refetched(j)
    /\ lacks' = IF SideOf(j) = me THEN [pane |-> TRUE, answer |-> TRUE] ELSE lacks
    /\ UNCHANGED <<me, ticket, pane>>

\* Mutant: the box is emptied before it is known how the request went.
JobRefusedAndEmptied(j) ==
    /\ jobs[j].phase # "idle"
    /\ jobs' = [jobs EXCEPT ![j] = NoTicketJob]
    /\ draft' = (draft /\ ~Clears(j))
    /\ UNCHANGED <<me, ticket, pane, query, lacks>>

\* The request or its answer is lost: the hook reports it and no more.
JobRefused(j) ==
    /\ jobs[j].phase # "idle"
    /\ jobs' = [jobs EXCEPT ![j] = NoTicketJob]
    /\ UNCHANGED <<me, ticket, pane, query, lacks, draft>>

TicketsNext ==
    \/ OpenTicket \/ DetailRead \/ DetailArrives \/ DetailFails \/ Type
    \/ \E j \in JobIds : \/ SubmitReply(j) \/ LoadTicket(j) \/ SaveTicket(j)
                         \/ JobAccepted(j) \/ JobRefused(j)
    \/ SubmitQuickReply \/ HandleClose \/ AssignTicket
    \/ \E status \in StatusOptions : HandleStatusChange(status)

TicketsSpec == TicketsInit /\ [][TicketsNext]_ticketVars

(***************************************************************************)
(* Properties                                                              *)
(***************************************************************************)

\* A pane at rest shows whatever its side was told is done: the answer of an
\* older request does not cover it.
OwnChangeShown ==
    query = "idle" => ~lacks.pane

\* A request that fails leaves the text in the box: a box is emptied only
\* when a reply of its side has been accepted.
DraftKept ==
    [][ draft /\ ~draft' =>
            \E j \in JobIds : SideOf(j) = me /\ jobs[j].phase = "saved" /\ jobs'[j] = NoTicketJob
      ]_ticketVars

=============================================================================
