----------------------------- MODULE ListPages ------------------------------
(***************************************************************************)
(* The lists of the console: a page number and filters on top, and rows    *)
(* that should be those of the controls.  Some pages ask react-query,      *)
(* whose cache outlives a page and is shared by all queries with the same  *)
(* key (query-keys.ts); the others fetch by hand, and show whichever       *)
(* answer comes last.  One page of a console is open at a time.            *)
(* react-query is external: one request per key, no fetch while an entry   *)
(* is fresh.                                                               *)
(***************************************************************************)
EXTENDS Integers, FiniteSets

CONSTANT
    Consoles     \* sets of pages that one person goes to and fro between

VARIABLES
    listPages,   \* the pages of this console
    open,        \* the page that is open
    controls,    \* its page number and its filter
    cache,       \* the entries of the query cache, by key
    fetching,    \* the keys with a request under way, and what it asks
    requests,    \* the requests of a page that fetches by hand
    rows,        \* what its last answer was
    failed       \* its last request failed, which a toast told

listVars == <<listPages, open, controls, cache, fetching, requests, rows, failed>>

(***************************************************************************)
(* The pages                                                               *)
(***************************************************************************)

\* How a page loads (a query, an effect on its controls, or its handlers),
\* which of its filters put it back on page 1 (mixed: the selectors do, the
\* fields do not), and what it takes away while it is loading.
List(loads, filter, busy) == [loads |-> loads, filter |-> filter, busy |-> busy]

TicketsList       == List("query", "resets", "locks pager")
AdminTicketsList  == List("query", "resets", "locks pager")
OrdersList        == List("query", "resets", "nothing")
SubscriptionsList == List("query", "none", "nothing")
UsageList         == List("query", "mixed", "nothing")
UsageLogsList     == List("query", "mixed", "nothing")
UsersList         == List("query", "resets", "nothing")
RefundsList       == List("effect", "none", "hides controls")
AdminRefundsList  == List("effect", "keeps", "nothing")
AdminOrdersList   == List("effect", "resets", "nothing")
AuditLogsList     == List("effect", "mixed", "locks pager")
BalanceHistoryList == List("handler", "resets", "nothing")

ListOf(p) ==
    CASE p = "tickets" -> TicketsList
      [] p = "adminTickets" -> AdminTicketsList
      [] p = "orders" -> OrdersList
      [] p = "subscriptions" -> SubscriptionsList
      [] p = "usage" -> UsageList
      [] p = "usageLogs" -> UsageLogsList
      [] p = "users" -> UsersList
      [] p = "refunds" -> RefundsList
      [] p = "adminRefunds" -> AdminRefundsList
      [] p = "adminOrders" -> AdminOrdersList
      [] p = "auditLogs" -> AuditLogsList
      [] p = "balanceHistory" -> BalanceHistoryList

Cached(p) == p # "none" /\ ListOf(p).loads = "query"
Filters(p) == IF ListOf(p).filter = "none" THEN {"all"} ELSE {"all", "some"}

\* How far the rows of a filter go: "some" fits on one page.
LastPage(filter) == IF filter = "all" THEN 2 ELSE 1
Numbers == 1..2

At(number, filter) == [number |-> number, filter |-> filter]
NoRows == [page |-> "none", at |-> At(0, "all")]
Answer(p, at) == [page |-> p, at |-> at]

\* Mutant: the tickets are keyed without their filter, as the users are.
KeyOfTicketPage(p, at) ==
    CASE p \in {"users", "tickets"} -> <<p, at.number>>
      [] p \in {"usage", "usageLogs"} -> <<"usage", at.number, at.filter>>
      [] OTHER -> <<p, at.number, at.filter>>

\* The key of a query.  The list of users is keyed without its filters; the
\* usage of a user and that of everyone, which name their parameters alike,
\* share a key when both show as many rows.
KeyOf(p, at) ==
    CASE p = "users" -> <<"users", at.number>>
      [] p \in {"usage", "usageLogs"} -> <<"usage", at.number, at.filter>>
      [] OTHER -> <<p, at.number, at.filter>>

\* The page a filter leads to.
NumbersAfter(p, number) ==
    CASE ListOf(p).filter = "keeps" -> {number}
      [] ListOf(p).filter = "mixed" -> {1, number}
      [] OTHER -> {1}

Keys == {KeyOf(p, At(n, f)) : p \in {q \in listPages : Cached(q)}, n \in Numbers, f \in {"all", "some"}}
NoEntry == [of |-> NoRows, fresh |-> FALSE]

ListInit ==
    /\ listPages \in Consoles
    /\ open = "none" /\ controls = At(1, "all")
    /\ cache = [k \in Keys |-> NoEntry]
    /\ fetching = [k \in Keys |-> NoRows]
    /\ requests = {} /\ rows = NoRows /\ failed = FALSE

(***************************************************************************)
(* The two ways to load                                                    *)
(***************************************************************************)

\* An observer comes to a key: what is not fresh is fetched.
Observe(p, at) ==
    LET k == KeyOf(p, at) IN
    /\ fetching' = IF cache[k].fresh \/ fetching[k] # NoRows THEN fetching
                   ELSE [fetching EXCEPT ![k] = Answer(p, at)]
    /\ UNCHANGED cache

Ask(p, at) ==
    /\ requests' = requests \cup {Answer(p, at)}
    /\ UNCHANGED <<cache, fetching>>

Load(p, at) ==
    /\ IF Cached(p) THEN Observe(p, at) /\ UNCHANGED requests ELSE Ask(p, at)
    /\ UNCHANGED <<rows, failed>>

Loading ==
    IF Cached(open) THEN fetching[KeyOf(open, controls)] # NoRows ELSE requests # {}

Shown == IF Cached(open) THEN cache[KeyOf(open, controls)].of ELSE rows

\* isLoading of a query is over with the first answer.
Busy == Loading /\ (Cached(open) => Shown = NoRows)

OpenList(p) ==
    /\ open' = p /\ controls' = At(1, "all")
    /\ failed' = FALSE /\ rows' = NoRows
    /\ IF Cached(p)
       THEN Observe(p, At(1, "all")) /\ requests' = {}
       ELSE requests' = {Answer(p, At(1, "all"))} /\ UNCHANGED <<cache, fetching>>
    /\ UNCHANGED listPages

\* An answer, or a failure, of a query.
QueryAnswered(k) ==
    /\ fetching[k] # NoRows
    /\ fetching' = [fetching EXCEPT ![k] = NoRows]
    /\ \/ cache' = [cache EXCEPT ![k] = [of |-> fetching[k], fresh |-> TRUE]]
       \/ UNCHANGED cache
    /\ UNCHANGED <<listPages, open, controls, requests, rows, failed>>

EntryStale(k) ==
    /\ cache[k].fresh
    /\ cache' = [cache EXCEPT ![k].fresh = FALSE]
    /\ UNCHANGED <<listPages, open, controls, fetching, requests, rows, failed>>

\* Each answer is shown when it comes.  The balance history takes its number
\* from the answer.
FetchAnswered(r) ==
    /\ ~Cached(open)
    /\ requests' = requests \ {r}
    /\ \/ /\ rows' = r /\ failed' = FALSE
          /\ controls' = IF ListOf(open).loads = "handler"
                         THEN At(r.at.number, controls.filter) ELSE controls
       \/ failed' = TRUE /\ UNCHANGED <<rows, controls>>
    /\ UNCHANGED <<listPages, open, cache, fetching>>

(***************************************************************************)
(* The controls                                                            *)
(***************************************************************************)

PagesShown == IF Shown = NoRows THEN 1 ELSE LastPage(Shown.at.filter)

SetNumber(n) ==
    /\ open # "none" /\ n # controls.number
    /\ n <= PagesShown
    /\ Busy => ListOf(open).busy = "nothing"
    /\ controls' = At(n, controls.filter)
    /\ Load(open, controls')
    /\ UNCHANGED <<listPages, open>>

\* Mutant: a filter leaves the number of the page alone.
SetFilterOnly(filter) ==
    /\ open # "none" /\ filter \in Filters(open) /\ filter # controls.filter
    /\ Busy => ListOf(open).busy # "hides controls"
    /\ controls' = At(controls.number, filter)
    /\ Load(open, controls')
    /\ UNCHANGED <<listPages, open>>

\* The balance history asks before it has taken over the new filter: its
\* handler is the one of the render before.
SetFilter(filter) ==
    /\ open # "none" /\ filter \in Filters(open) /\ filter # controls.filter
    /\ Busy => ListOf(open).busy # "hides controls"
    /\ \E n \in NumbersAfter(open, controls.number) : controls' = At(n, filter)
    /\ Load(open, IF ListOf(open).loads = "handler" THEN At(1, controls.filter) ELSE controls')
    /\ UNCHANGED <<listPages, open>>

\* The refresh button, the search button, and mutations that invalidate: the
\* search of the audit log loads the page it leaves as well.
RefreshList ==
    /\ open # "none" /\ ~Loading
    /\ IF Cached(open)
       THEN /\ fetching' = [fetching EXCEPT ![KeyOf(open, controls)] = Answer(open, controls)]
            /\ cache' = [k \in Keys |-> [cache[k] EXCEPT !.fresh = FALSE]]
            /\ UNCHANGED <<controls, requests>>
       ELSE /\ \E n \in IF open = "auditLogs" THEN {1, controls.number} ELSE {controls.number} :
                /\ controls' = At(n, controls.filter)
                /\ requests' = {Answer(open, controls), Answer(open, controls')}
            /\ UNCHANGED <<cache, fetching>>
    /\ UNCHANGED <<listPages, open, rows, failed>>

ListNext ==
    \/ \E p \in listPages : OpenList(p)
    \/ \E k \in Keys : QueryAnswered(k) \/ EntryStale(k)
    \/ \E r \in requests : FetchAnswered(r)
    \/ \E n \in Numbers : SetNumber(n)
    \/ \E filter \in {"all", "some"} : SetFilter(filter)
    \/ RefreshList

ListSpec == ListInit /\ [][ListNext]_listVars

(***************************************************************************)
(* Properties                                                              *)
(***************************************************************************)

Careful == {"tickets", "adminTickets", "orders", "subscriptions", "refunds"}

RowsMatch(p) ==
    open = p /\ ~Loading /\ ~failed /\ Shown # NoRows => Shown = Answer(p, controls)

NeverStranded ==
    open \in Careful /\ ~Loading /\ ~failed /\ Shown # NoRows
        => controls.number <= LastPage(controls.filter)

\* When nothing is under way, the rows on the screen are those of this page
\* for its controls: however answers are reordered, and whatever other pages
\* have left in the cache.  A filter that shortens the list does not leave its
\* page on a number beyond the last one, where there are no rows, and no pager
\* to go back.
RowsMatchControls == (\A p \in Careful : RowsMatch(p)) /\ NeverStranded
=============================================================================
