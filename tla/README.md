# cpa-gateway: specifications, model checking and proofs

cpa-gateway is a paid gateway to several AI providers, with a web console. A
request of a user is authenticated, passes gates (rate limit, circuit breaker,
debt, quota, balance), reserves money under a trace id, is sent to an upstream
by one of the executors, and is settled when the upstream's usage record comes
back. Money, users, keys and subscriptions are in PostgreSQL; reservations,
counters and the cached balance are in Redis; keys, statuses and prices are
cached in memory; redeem codes, announcements and refunds are only in memory.
The console is a single-page application (react-query, hand-written fetches)
for users and administrators. This directory holds TLA+ modules of the gateway
and of the console with the handlers behind it, the TLC configurations that
check them, and TLAPS proofs about them.

## Inventory

### The gateway

| Component (source) | State | Operations | Hard behaviour | What makes it correct |
|---|---|---|---|---|
| Ledger (`src/ledger`) | `users.balance`, `balance_logs`; in Redis the cached balance, the sorted set of holds, the hash of their times, the expiry of both | Credit, Debit, Hold, Settle, Release, GetBalance | a transaction followed by several Redis commands; a cache filled by read-then-write; ignored errors; key expiry | the balance is what the rows say; no money is reserved that never came in; a hold outlives a failed settlement |
| Circuit breaker (`src/infra/circuit_breaker.go`) | one Redis hash per provider | Allow, RecordSuccess, RecordFailure | each reads and writes in separate commands | counters that agree; an open circuit recovers |
| Rate limiter (`src/infra/rate_limiter.go`) | sorted sets per user and for the gateway | Allow (one Lua script); ReleaseConc (nobody calls it) | clocks are read before the script runs | limits hold in every span of time; denials end |
| Hold middleware (`src/sdk/holdmw.go`, `settlectx.go`) | the SettleCtx of a request | the gates, the hold, the deferred release | state checked at a gate and used later; panics; equal trace ids | debtors wait; holds have owners; refusals are justified |
| Usage plugin (`src/sdk/usage.go`) | none; one goroutine takes the records | HandleUsage: release, look up, settle, log, count | two transactions that do not commit together | charged once, logged only if charged, output paid |
| Subscription counters (`holdmw.go`, `src/model/subscription.go`) | usage and reset time per period | check and lazy reset, accumulate | the reset happens at the next check | nobody refused for an earlier period |
| Access provider and caches (`src/sdk/access.go`, `src/infra/cache.go`) | cached keys and statuses (5 min) | Authenticate; the invalidations of the panel | a row read before a change is cached after its invalidation | caches only age |
| Executors, idempotency cache (`src/executor`, `src/sdk/idempotency.go`) | a goroutine per stream; responses by key | Execute, ExecuteStream, CountTokens; Check (nobody stores) | one record, several, or none; retries | each success has its record |
| Purchases (`src/api/handler_subscription.go`) | subscriptions, balance | debit, create, compensate | failure and hang-up between the steps | money accounted for |
| Operations store (`src/api/handler_ops.go`) | codes, announcements, refunds, in memory | create, redeem, roll back, delete | a roll-back by position; restarts | one code, one credit |
| Administration (`src/api/handler_admin*.go`) | users, subscriptions, packages, groups | whole-row loads and saves | overwrites of concurrent settlements | only chosen things change |
| Tickets (`src/api/handler_tickets.go`) | tickets and messages | reply, close, reopen, assign | row read in one statement, written in another | both sides see what they did |
| SDK management (`src/api/handler_sdk_mgmt.go`) | credentials, OAuth sessions, settings blobs | list, replace, import, update, delete | whole lists and blobs are replaced | keys stay real; settings are kept |
| Pricing (`src/pricing`) | the price table in memory | Upsert, Reload, Estimate, Compute | concurrent reloads | the last price wins (it may not, see below) |
| Budget tokens, operation log, plumbing, start-up | none that matters | - | no caller, or sequential | - |

### The console (`src/frontend/src`)

| Component | State | Operations | Hard behaviour | What makes it correct |
|---|---|---|---|---|
| Session and routes | token, user, profile query, route | login, logout, 401, reload | answers of an earlier account | token and user together; the profile settles |
| Lists | controls, cache entries, requests | page, filter, tab, answer | answers out of order; shared cache keys | rows match the controls |
| API keys | dialog, table, requests | create, delete, rebind | overlapping loads and changes | the table is the stored one |
| Tickets, purchases | panes, tabs | reply, buy | lost answers; two tabs | own changes shown; drafts kept |
| Payments | order, timers, balance | create, poll, card, redeem | late polls after a reset | a payment is told once and noticed |
| OAuth logins | loops, timers, session | start, cancel, paste | loops of cancelled logins | a success is a success; polling ends |
| Provider credentials, auth files, import | tables, drafts, ticks | edit, replace, batch, import | whole-list replacement, hidden ticks, late file reads | keys real, deletions chosen |
| Users, subscriptions, announcements, codes, groups | tables, dialogs, confirmations | create, edit, delete, batch | pages reload under open dialogs | what is deleted was confirmed |
| Ampcode settings | form with timers, drafts | save by itself, pairs, mappings, probe | effects that fire after loads; failed saves | what was shown is kept |

How they interact: on `/v1` the access provider and then the middleware run in
the request's goroutine; the middleware calls limiter, breaker, counters and
ledger in that order; the executors publish usage records to a queue of the
SDK; one dispatcher goroutine calls the plugin, which calls the ledger and
writes log and counters. The panel's handlers share the database, the two
caches and the operations store with them. The console talks to the panel by
HTTP only: what couples the two are requests, answers that are late or lost,
and what the browser remembers. `PROJECT.json` lists every component with its
status and, under `hazards`, what can go wrong at which line.

## Modules

| Module | What it is |
|---|---|
| `Ledger`, `LedgerProps`, `Account`, `LedgerProofs` | the ledger of one user command by command; its properties; the abstract account it implements; theorems |
| `CircuitBreaker`, `BreakerProofs` | the breaker of one provider |
| `RateLimiter`, `LimiterProofs` | the limiter |
| `Billing`, `BillingProofs` | one user's requests through middleware, executors and plugin |
| `Access`, `AccessProofs` | authentication through the cached keys and statuses, beside the handlers that change the rows |
| `Purchases` | buying a package in several tabs, and its handler |
| `Redemption` | redeem codes on the server |
| `Tickets`, `ListPages`, `ApiKeys` | pages of a user |
| `UserPagesProofs` | theorems about these five |
| `Session` | login, token, profile, routes |
| `Payments` | recharge: an order, its polling, the balance |
| `OAuthFlow`, `OAuthCallback` | logins at providers; how a pasted callback is read |
| `WaitingProofs` | theorems about `Session`, `Payments` and `OAuthFlow` |
| `ProviderConfig`, `AuthFiles`, `AuthFileImport`, `Ampcode` | pages of an administrator about the SDK |
| `AdminUsers`, `AdminSubscriptions`, `CrudPages` | pages of an administrator about users and offers |
| `AdminPagesProofs` | theorems about these seven |
| `MCLedger`, `MCBreaker`, `MCLimiter`, `MCBilling`, `MCUserPages`, `MCAdminPages`, `MCWaiting` | instances for TLC, and claims that the code does not keep |

### Ledger

Every key and row belongs to one user, so one user is the whole state. An API
call is a process `c` with a program counter; `Request(c)` starts one,
`LockRow` is `SELECT ... FOR UPDATE`, the `Commit*`/`Reject*` actions are the
rest of the transaction with its commit, and each remaining action is one Redis
or database command. `holds[r]` is the score of member `r` of the sorted set,
`holdsTS[r]` its field in the hash, `deadline` the expiry of the two keys.
`Abandon` is a crash, a timeout or a returned error anywhere in a call; errors
that the code ignores are lost commands. Amounts are whole units.
`AccountKept` says that the ledger, seen through `balance`, `log` and `billed`,
implements `Account`.

### CircuitBreaker, RateLimiter

The hash of one provider; `Admit`/`Reject` are the read in Allow, `HalfOpen`
and `Reset` what is written after a read, `CountFailure` and `CountSuccess` one
pipeline each, `Trip` the HSET that follows; `flaky` says that commands may
still fail. In the limiter `Allow` reads the clock, `Script` runs with that
reading up to `Lag` later, `FailOpen` is a Redis error; `log` keeps every
record with its true time, and the properties compare the limits with it.

### Billing

`at[r]` is where the handler of request `r` is, one action per gate of
`HoldMiddleware.Handle`. The ledger's calls are atomic here. `AttemptFails`,
`GiveUp`, `Serve`, `Break`, `ServeSilently`, `Panic` are the ways an execution
goes; `DeferredRelease` is the deferred function. `plugin` is the record in
hand and the next call of `HandleUsage`. `Crash` loses the queue, the record in
hand and the handlers. `bill`, `owing`, `spent`, `excused`, `deposited` are
history.

### Access

A goroutine that authenticates looks up the cached key, or reads the row, then
its group, and stores the entry; then the same for the user's status; then it
asks for the entitlement, which is never cached. Handlers of the panel commit
and drop entries afterwards (`FlushStatus`, `FlushKey`), or drop none
(`RevokeKey`, `SetRate`). `held` is history: when each fact was last true.
`CachesAgeOnly` compares each decision with it: what a cache said is no older
than its life and the time of two requests, and the entitlement is that of the
request itself.

### Purchases and Redemption

`Purchases` has one handler per tab: checks, debit, create, compensate, with the
request's context that ends when the tab goes away; `lost` counts what a failed
compensation loses. `Redemption` marks a code under the mutex, credits outside
it, and takes a mark back at the remembered position; `displaced` says that a
deletion moved codes under a redemption.

### The pages

A page module has the state of the component (`useState`, timers, requests
under way), the query cache as far as the page depends on it, and the handlers
of the server with the rows they change. One action is one event: a click, a
timer, a statement on the server, an answer that arrives, fails or is lost.
react-query is external: a query has one request at a time, an invalidation
drops it for a new one, an entry outlives its page. Payment providers, the
SDK's manager and its OAuth server are external. Texts and layout are left out;
an item is known by an id or a short name. In `ProviderConfig`, `PutRows` is the
loop of a PUT over the rows the browser sends, row by row as the handler does it;
`PutStops` is a PUT whose update of one row fails, with the rows before it stored.

`MCUserPages`, `MCAdminPages` and `MCWaiting` join the pages: `scene` chooses
one, the others stand still. Pages do not share state in the browser but the
query cache, which `ListPages` and `Session` have with the sharing that
matters, so the sum of the scenes is explored and not their product.

## Runs

| Run | Instance | What it shows |
|---|---|---|
| `ledger_accounts` | 2 calls, 2 request ids, amount 1, faults, no clock | accounting, exposure, and the refinement of `Account` |
| `ledger_live` | 2 calls, 1 request id, faults, clock | holds kept while time passes, every call returns |
| `ledger_stale_cache` (violated) | 2 calls, no faults | the cache can disagree with the database when all is quiet |
| `breaker` | 2 requests, trip at 2 records half of them failed, cooldown 2, window 2 | counters agree, an open circuit has its time, and recovers |
| `limiter` | 2 calls of two users, two groups of limits, window 3, lag 1 | requests and tokens of users and of all, denials end |
| `billing` | 2 requests, 2 trace ids, faults, panics, crashes, both modes, expiry, a day that ends | charged once, logged if charged, output paid, holds owned and ended, debtors wait, refusals justified |
| `billing_atomic` (violated) | one fault is enough | a charge without its log row |
| `billing_panic` (violated) | 1 panic | the hold is not freed |
| `user_pages` | scenes: tickets, purchases, lists, keys, redeem, access | `OwnChangeShown`, `DraftKept`, `MoneyAccounted`, `RowsMatchControls`, `KeysShownAreStored`, `UndisturbedUse`, `CachesAgeOnly` |
| `redeem_rollback` (violated) | the scene redeem | a code is credited twice after a deletion |
| `admin_pages` | scenes: providers, crud, users, subs, files, import, oauth, ampcode | `KeysAreReal`, `FreshSaveIsLocal`, `RowsNameTheirItem`, `DeletedWereConfirmed`, `UsageNeverInvented`, `SubsShownAreStored`, `DeletedWereChosen`, `UploadSendsWhatIsShown`, `SuccessHonest`, `PollingServed`, `KeptAsShown` |
| `waiting` | scenes: oauth, session, payments, with fairness | `TokenAndUserTogether`, `PaidToldOnce`, `PollingEnds`, `ProfileSettles`, `PaidIsNoticed` |

Why the bounds suffice.

* Two concurrent calls are what every race in the ledger needs: each is between
  a read and a write of one call and one command of another. Two request ids
  let one hold stand while another is compared with it; two trace ids let
  requests share one or not. Costs are chosen so that a charge is covered,
  partly covered or not covered. In `ledger_live` one tick makes a hold expire
  and its key vanish; the theorem `HoldsKept` is for all lifetimes. The
  limiter's clock goes one window far, so records leave it while scripts with
  older clocks are under way, and the tokens of both users reach the global limit. `MaxCredit`, `MaxBilled`, `MaxDeposit`,
  `MaxTries`, `MaxTotal` and `MaxTime` cap counters; a transaction at its cap
  fails (`AtBound`), a record at its cap is dropped (`Drop`).
* `Access`: two goroutines that authenticate (interchangeable: symmetry), one
  handler of the panel, a life of an entry of one tick, two ticks, and one write
  to the rows after any initial status and binding. That is enough for an entry
  to be stored after its invalidation, to be used at the end of its life, and to
  be replaced after it. `AuthLag = 0`: a request ends in the tick it began in;
  its steps interleave with the write and the flush in that tick.
* `Redemption`: three attempts of two users at two codes, and one restart: the
  smallest in which a deletion moves a code under a roll-back and the code is
  redeemed again. `Purchases`: two tabs, money for two packages.
* Pages: two requests under way are what an answer out of order needs; two items
  let an index or a confirmation point at the wrong one; `MaxLives = 2` is one
  restart. `AuthFiles` has a third id for a file that is imported.
* `Ampcode`: two edits, two changes under way, three sent and two loads
  (`MaxAmpEdits`, `MaxAmpCalls`, `MaxAmpSent`, `MaxAmpLoads`): a failed save, the
  load it causes and the save that this load causes. `MCJudged` cuts off what
  follows a failed first read, which the property excludes.
* `CHECK_DEADLOCK FALSE` stands where an instance comes to an end: all requests
  done, all edits used up, or a page that waits for its user.

### Fairness

* `Ledger!FairSpec`: goroutines run and the stores answer (weak fairness).
  PostgreSQL queues lock requests: strong fairness of `LockRow`. Nothing makes
  calls start or clocks move.
* `CircuitBreaker!FairSpec`: requests keep coming and do their commands, time
  passes, Redis does not fail for ever (`Mend`).
* `MCBilling!ScenesSpec`: handlers and the dispatcher run. The expiry of holds
  is not fair, so `HoldsEnd` does not rest on it.
* `OAuthFairness`: timers fire, requests are answered or fail in the end, and a
  loop that is past its deadline sees it when its timer fires again and again.
* `SessionFairness`: an entry goes stale, the window is focused again and again,
  and a request that is asked again and again is answered.
* `PaymentsFairness`: the interval fires, and the status of an order that is
  asked again and again is read and arrives, although single polls are lost.

### Where the code and its documentation part

The four violated runs are quoted under `findings` in `PROJECT.json`: the cached
balance that a refill stores after an invalidation (`ledger_stale_cache`), the
charge that commits without its log (`billing_atomic`), the hold that a panic
keeps (`billing_panic`), and the roll-back that frees another redeem code, which
is then credited a second time (`redeem_rollback`).

Behaviour of the code that the models have and no property excludes, for whoever
changes it:

* **Breaker.** Half-open admits every request until one is recorded; a late
  success closes a circuit that tripped again (`circuit_breaker.go:122,151`);
  the counters never forget while records come (184).
* **Billing.** The quota check reserves nothing, so two requests pass where one
  fits (`holdmw.go:431`). A retry with the same idempotency key is billed again,
  since nothing fills the cache. In the ledger, ZREM and HDEL are two commands
  (`ledger.go:474`), and Settle drops the hold before the cached balance (342).
* **Access.** Deleting a key drops no cached entry, nor does a change of a
  group's rate: both are honoured for up to five minutes. So is what a fill
  stores after a flush. A user who is reactivated stays refused until the cached
  status ends. A failed read of the group is cached as the baseline rate. An
  update of a user flushes by the status it loaded earlier.
* **Pricing.** Two racing upserts can leave the older table in memory
  (`pricing/cache.go:76`).
* **Purchases.** The compensation uses the context of the request
  (`handler_subscription.go:251`): the hang-up that fails the creation fails it
  too, and the money is in neither place (`lost`).
* **Orders and refunds.** No handler marks an order as paid. A refund is stored
  with amount 0 and stays pending, duplicates are accepted, and a decision
  changes neither balance nor subscription.
* **Ampcode.** After a failed first read the form is empty and counts as loaded,
  so 600 ms later the stored address and key are deleted. Handlers load and save
  one blob: of two changes at once, one may be lost. The switch for forced
  mappings has no route. A roll-back overwrites what is typed meanwhile.
* **Provider credentials.** A change replaces the whole list: concurrent changes
  are lost, and the edit of a row that was deleted lands on the one in its place.
* **Auth files.** Labels need not be unique, a batch contains ticked rows that
  filters hide, deleting a missing file succeeds, a partial import is shown as
  failed without a reload; `PATCH /auth-files/status`, downloads and exports have
  no route.
* **Users and subscriptions.** An edit of a user writes the loaded balance back
  without a row in the log, and can revive a deleted user. A change of a
  subscription saves the whole row it loaded: usage added meanwhile is lost
  (never invented). Numbers of codes and announcements start again after a
  restart.
* **Console.** The query cache survives a logout; several lists share cache keys;
  lists that fetch by hand (`adminOrders`, `adminRefunds`, `auditLogs`) show
  whichever answer comes last, and `adminRefunds` and `balanceHistory` can show
  rows of another filter (`Careful` names the lists that match). An API key
  created with a custom term and no days is permanent, and the server ignores
  the term. A late answer of a creation resets the dialog that is open then.

## Proofs

Every safety property that a passing run checks on its instance is a theorem for
all values of the constants that satisfy the `...Assumption` of the module:
types, positivity, finitely many request ids, tabs, items or processes, a lag
below the window, no account or redeemer called `Nobody`, first credentials with
ids of their own and real keys (`FirstAuthsAssumption`), statuses and pages that
the code has (`TicketsAssumption`, `CrudPagesAssumption`). Each theorem follows
from an inductive invariant: the initial states have it, each action keeps it,
and it implies the property.

* **Ledger** (`LedgerProofs`). `BalanceAccounted` and `ExposureBounded` are not
  inductive: a commit writes a balance it read earlier, and a hold is compared
  with a cached value. `LedgerInv` adds `LockedRead` (whoever is about to write
  has the lock and read the current balance), `CallsWellFormed` and
  `SeenCredited` (neither the cache nor a refill in flight exceeds the credits,
  which only grow). The sum of the holds is the cardinality of a set of units.
  `LedgerImplementsAccount` maps each step to a step of `Account` or a stutter.
  `HoldsKept` adds `ClearingSettled`: who is about to remove a hold has
  committed, or is a release or a free settlement.
* **Breaker** (`BreakerProofs`). The counters move together in each pipeline,
  and every write of `open` comes with its time. The types are part of the
  invariant and need it.
* **Limiter** (`LimiterProofs`). The limits compare what a script counts, with
  an old clock, with what really passed. `YoungKept` says that a record whose
  score is above `now - Window` is in both windows; a score is at most `Lag`
  behind its true time, so the admitting script sees every record of the last
  `Window - Lag`. `TokensBounded` rests on the same invariant. Tokens are told
  apart by their record and number, so that what was spent in a span is the
  cardinality of a set and its bounds are facts about finite sets
  (`TokensFinite`, `NoMoreTokens`, `OneMoreRecord`, `SpanSpends`).
  `DenialsAlwaysEnd` adds that the expiry of a set is the time of some record
  plus `ConcTTL`.
* **Billing** (`BillingProofs`). `ChargedOnce` needs `ChargeInv`: a request has
  one record of success at most, and while it is there nothing was charged.
  `OutputPaid` follows what is owed through `OwedInv`: it is in the record, then
  in what the plugin is about to settle, then charged. `HoldsHaveOwner` needs
  `HoldsKept`, whose `Keeps` names who will still end a hold. `DebtorsWait`,
  `RefusedForThisPeriod` and `LogsBacked` have an invariant each.
* **Access** (`AccessProofs`). `CachesAgeOnly` looks at one decision; the
  invariant says what everything that leads to one knows, and since when.
  `MemoryKept`: what is true now was last true now. `CachesKnow`: an entry knows
  of no time more than `KeyTTL + AuthLag` before its end, since it was stored
  within `AuthLag` of the read. `RequestKnows`: a request knows from a row since
  it came, and from an entry what that knew when it was hit. Writes and the
  clock only add to what was once true (`MemoryGrows`), so no write or flush of
  the panel, in whatever order, makes an entry wrong about its own age
  (`OthersKeep`); each step of a request has its lemma.
* **Purchases** (`UserPagesProofs`). `MoneyAccounted` is nearly inductive; what
  it needs are the phases of the handlers and that a step opens or closes at
  most one purchase (`OneJob`), which moves the cardinality of the open ones by
  one.
* **Redemption** (`UserPagesProofs`). The invariant says that codes are created
  once, that a request under way finds its own code where it remembers it,
  marked by its user and not credited (`Remembers`), that no two requests
  remember the same place, and that what is marked was credited or belongs to a
  request (`Settled`); all of it until a deletion moves a code under a
  redemption. Lemmas on sequences say what a mark (`Remarked`), a deletion
  (`TakenOut`) and an insertion do to the list.
* **Tickets** (`UserPagesProofs`). `OwnChangeShown` speaks of a pane at rest.
  `TicketsInv` says in addition that an answer on its way does not lack what its
  side was told is done, since each success drops the request asked before it.
  `DraftKept` is an action property: only an accepted reply of its side empties
  the box.
* **API keys** (`UserPagesProofs`). `KeysInv`: the table, and a list on its way
  to it, are the stored keys unless a change is not yet heard of, an answer was
  lost, or the list is being asked for.
* **Lists** (`UserPagesProofs`). A careful list has each cache entry under a key
  of its own controls (`CacheRight`), its controls leave it no page that its
  filter does not have (`ControlsRight`), and the refunds, which are loaded by
  hand, hide their controls while they load (`RefundsRight`).
* **Session** (`WaitingProofs`). The store names a user exactly when it has a
  token. The invariant adds that the token of the store and that of the profile
  request under way belong to a login that was answered (`Given`), and that
  logins are dealt in order, so that an answer always names somebody.
* **Payments** (`WaitingProofs`). `PaymentsInv`: a status is asked for only
  while the section waits for its order, nothing of which was told by then, and
  an answer that says paid is about an order that is.
* **OAuth logins** (`WaitingProofs`). `LoopInv` follows a loop: it began with an
  issued state and the files there are, and once it saw a wait or counted to
  four, its login is no longer merely issued. `SuccessHonest` and
  `PollingServed` follow, whatever other loops of cancelled logins do.
* **Provider credentials** (`AdminPagesProofs`). `KeysStayReal` and
  `FreshSavesAreLocal`. `ProvidersInv` has the shapes of the rows, with real
  keys in what is stored; distinct ids in the store and in every list that was
  read; and freshness by version: rows read at the current version show the
  stored credentials with their keys masked, and a change built from them fits
  the list. `PutRowsLocal` says that a PUT of such a list changes one row only,
  also when its loop stops half way. It is a statement about a loop, and the
  library's induction theorems take an operator that no installed prover can
  instantiate: `LeastOfNat` proves instead that a set of naturals that is not
  empty has a least element, from the well-foundedness of strict inclusion among
  finite sets, and `LoopRuns` and `LoopKeeps` apply it to the first row at which
  the loop would fail.
* **Users** (`AdminPagesProofs`). `UsersInv`: whatever says that a user is
  deleted (the table, rows read or shown, an open form, a save under way) and
  whatever will delete one is about a user whose deletion was agreed to.
* **Subscriptions** (`AdminPagesProofs`). A row that a handler holds has no more
  usage than was consumed (`HandlerInv`), so that saving it invents none; and
  the screen is the table unless a load, a lost answer or an unheard change says
  so.
* **Auth files, import** (`AdminPagesProofs`). What is ticked and what a
  deletion has left to do was chosen (`FilesInv`). The dialog never has files
  and pasted text at once (`OneSource`).
* **Announcements, codes, groups** (`AdminPagesProofs`). `NumberedInv`: all that
  is seen in this life of the process under one number, in the store, in a list
  on its way, on the screen, in the editor or in a call, is one item.
* **Ampcode** (`AdminPagesProofs`). `KeptAsShown` compares a change with what
  was shown. `AmpInv` adds the shapes of the state, that nothing is erased
  unless the first read failed (`NothingErased`), and, while nothing has failed,
  that each field and the list of pairs are in step with the store: in the form,
  in the cached settings, or in a call under way (`FieldInStep`, `PairsInStep`).
  TLC checked it on the instance of `admin_pages` before it was proved.

Only model-checked: the six liveness properties (`CallsReturn`, `Recovers`,
`HoldsEnd`, `PollingEnds`, `ProfileSettles`, `PaidIsNoticed`), since liveness
under fairness and ENABLED are out of the prover's reach. The proofs are about
each component's own specification (`PurchasesSpec`, `AmpSpec`, ...), which a
scene of `MCUserPages`, `MCAdminPages` or `MCWaiting` runs. No module that is
proved about reaches a RECURSIVE operator.

## Not modelled, and why

* Ledger: the audit rows written with best effort, and the queries
  `HasUnresolvedShortfall` and `ActiveHoldAmount`, which are atomic reads in
  `Billing`; rounding of floats.
* Limiter: the expiry of the window keys; a reply lost after the script ran (as
  `FailOpen`, and its record only makes the limiter stricter).
* Billing: the branch for budget tokens, since nothing acquires one; extraction
  of model and metadata; prices that change between estimate and settlement; the
  stale cached balance, which `Ledger` has; the goroutine of a stream and its
  channel, of which `Billing` has the outcomes.
* Access: the panel's middleware, which fills the status cache in the same way;
  parsing of tokens; the metadata of subscriptions; `last_used_at`.
* Pricing: reload of a map and float formulas.
* Subscription counters: the calendar arithmetic of the reset times.
* Operations store: decisions on refunds, which set a field whatever it was.
* SDK management: the quota, model and log endpoints, which only read; the
  `sdk_config` blob, saved like that of `Ampcode`.
* Console: charts, icons, translations, the header's notifications, the catalogue
  of models, CSV exports, the draft inside `ProviderModelsDialog`, and settings
  forms that write once.
* Operation log, panel plumbing, start-up: no state, or sequential.

## Plan

1. `Stream`: the executor's goroutine, its channel and the reader that goes away,
   composed with the queue of `Billing`.
2. An abstract payment (reserved, then charged or freed) that `Billing`
   implements.
3. The calendar arithmetic of the reset times against a reference definition.
4. The draft of `ProviderModelsDialog` inside `ProviderConfig`, and the quick
   replies of `Tickets`.
5. That the callback parser of `OAuthCallback` reads what the forms of a callback
   say, against a reference definition.
