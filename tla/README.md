# Sub2API: specifications, model checking and proofs

Sub2API is a gateway in front of AI providers. A client calls it with an API key;
the gateway checks the key, the balance or the subscription of its owner, takes a
concurrency slot, selects an upstream account, forwards the call, and afterwards
records the usage and charges for it. This directory holds TLA+ models of the parts
of `backend/` in which concurrency, failure and ordering decide whether money,
quotas and slots stay right. Paths below are relative to `src/backend/internal/`
unless they start with another directory.

## 1. Inventory

| component | state | operations | what makes it correct | modelled by |
|---|---|---|---|---|
| Billing ledger (`service/gateway_service.go` RecordUsage, `openai_gateway_service.go`, `billing_spool_service.go`, `billing_reconcile_service.go`, `repository/billing_usage_entry_repo.go`) | `usage_logs`, `billing_usage_entries.applied`, balance / subscription usage / key quota, spool directory | record a call, spool, replay, recover, reconcile, commission | a request is charged once, by its cost; nothing is charged unrecorded; the key's quota counts no request twice; a spooled charge is not lost | `BillingLedger`, `OnceOnlyBilling` |
| Subscription reservations and billing caches (`service/billing_cache_service.go`, `repository/billing_cache.go`) | Redis usage hashes, reservation keys with TTL, write queue | reserve, finalize, cache fill, debit, invalidate, circuit breaker | concurrent requests do not spend the same headroom; a reservation is released once; a copy of a balance is wrong only where reads and news overlap; the breaker closes again | `SubscriptionReservation`, `QuotaGuard`, `BalanceCache`, `BillingBreaker` |
| Concurrency slots (`service/concurrency_service.go`, `repository/concurrency_cache.go`, `handler/gateway_helper.go`) | Redis sorted sets of slots, wait counters | acquire, release, wait, TTL expiry, crash | no more than the limit run at once; a released slot is reusable; nobody waits for ever | `ConcurrencySlots`, `BoundedHolders` |
| Scheduler snapshot and outbox (`service/scheduler_snapshot_service.go`, `repository/scheduler_cache.go`, `scheduler_outbox_repo.go`) | outbox rows, watermark, bucket snapshots, locks | publish, poll, rebuild, full rebuild | a change of an account reaches the snapshot the gateway selects from | `SchedulerSnapshot` |
| Payments (`service/payment_service.go`, `repository/payment_order_repo.go`) | payment orders, balance | create, webhook or notification, fail | an order is credited at most once and only when paid; a captured payment is credited | `PaymentOrders`, `Wallets`, `OnceOnlyCredits` |
| Redeem and promo codes (`service/redeem_service.go`, `promo_service.go`) | code status, Redis lock, error counter, used_count | redeem, use, edit, delete | a code is redeemed once and gives what it is worth; a promo code keeps its limit | `RedeemCodes`, `PromoCodes`, `OnceOnlyCredits` |
| Subscriptions (`service/subscription_service.go`) | windows, usage, expiry | assign, extend, revoke, reset windows, expire | a paid term is found; a window reset loses no usage | `SubscriptionTerms`, `UsageWindows` |
| Usage cleanup (`service/usage_cleanup_service.go`, `repository/usage_cleanup_repo.go`) | tasks, deleted rows | create, claim, delete batch, cancel, reclaim | a cancelled task stops; no task is forgotten; what was charged is not charged again | `UsageCleanup`, `ErasedUsage` |
| Token refresh and token caches (`service/token_refresh_service.go`, `*_token_provider.go`, `repository/gemini_token_cache.go`) | refresh tokens in account credentials, cached access tokens, lock | periodic refresh, on-demand refresh, invalidate | a rotated refresh token is not overwritten by an older one; a replaced token does not return to the cache | `TokenRefresh` |
| API-key auth cache (`service/api_key_auth_cache_impl.go`) | L1 (process) and L2 (Redis) snapshots, singleflight | load, invalidate, negative entries | a disabled key stops working within the TTL | `AuthCache` |
| Sticky sessions, session limits, account selection, failover (`service/gateway_service.go`, `repository/session_limit_cache.go`, `gateway_cache.go`, `handler/failover_loop.go`) | session bindings, excluded accounts | select, bind, fail over | a session keeps an account that can serve it | later |
| Rate limiting and temporary unscheduling (`service/ratelimit_service.go`, `repository/temp_unsched_cache.go`, `timeout_counter_cache.go`) | per-account timers | mark, clear | an account is back after its timer | later |
| Login, refresh tokens, TOTP (`service/auth_service.go`, `totp_service.go`, `repository/refresh_token_cache.go`) | refresh token families, codes | login, rotate, revoke | a rotated token family has one valid token | later |
| Dashboard and ops aggregation, alerts, cleanup (`service/dashboard_aggregation_service.go`, `ops_*`) | watermarks, advisory locks, metric tables | aggregate, backfill, evaluate, retain | statistics only | not modelled |
| Deferred updates, timing wheel, e-mail queue (`service/deferred_service.go`, `timing_wheel_service.go`, `email_queue_service.go`) | in-memory queues | schedule, flush, send | best effort | not modelled |
| Protocol conversion and upstream clients (`service/*_gateway_service.go`, `gemini_*`, `antigravity_*`, `pkg/`) | none that outlives a request | translate, stream | functional, covered by unit tests | not modelled |
| Pricing, settings, announcements, admin CRUD, setup, update (`service/pricing_service.go`, `setting_service.go`, `admin_service.go`, `setup/`, `update_service.go`) | tables, files | CRUD | pure data | not modelled |
| HTTP server, middleware, front ends, SDK, deployment (`server/`, `middleware/`, `frontend/`, `web-app*/`, `sdk/`, `deploy/`) | none | routing, rendering | no state of their own | not modelled |
| `backend/ent` | generated ORM code | | | used as the semantics of the repositories |

How they interact. A handler (`handler/gateway_handler.go`) calls the auth cache, the
billing cache (eligibility and reservation), the concurrency service and the account
selection, which reads the scheduler snapshot. After the response it starts a
goroutine that calls RecordUsage. RecordUsage writes PostgreSQL in two steps (usage
log; then ledger entry, charge and quota in one transaction), pushes increments to the
cache worker pool, and falls back to the spool when the first write fails. The spool
loop and the reconciler finish, in other goroutines and other processes, what
RecordUsage did not. Redis and PostgreSQL are shared by all instances; queues, spool
and first-level caches belong to one.

What is hard: several workers on the same ledger row; commits whose outcome is
unknown; crashes between the two writes; files moved under a worker by another
instance's recovery; Redis keys that expire while their owner still runs; check-then-act
across the database and a cache; late events applied out of order; a retry of what was
already done. PROJECT.json lists each hazard at its line with the property that
watches it.

## 2. Plan

Done: the ledger, reservations and slots with their abstract specifications; what
brings users money and terms (`PaymentOrders`, `PromoCodes`, `RedeemCodes`,
`SubscriptionTerms`, refining `OnceOnlyCredits` where they credit); what deleting usage
logs does to the ledger (`ErasedUsage`, composed with `BillingLedger`); the copies and
background work (`SchedulerSnapshot`, `TokenRefresh`, `AuthCache`, `UsageCleanup`); the
windows of a subscription, the copy of the balance and the circuit breaker. Every safety
and action property that a passing run checks is also proved, and so is each of the four
refinements (section 5). Of the liveness properties the safety they rest on is proved, as far
as it is not one of the checked properties anyway.

Left, in this order:

1. Proofs: theorems that say more than the properties of the runs do. A charge of
   `BillingLedger` and a settlement of `SubscriptionReservation` are the same event of
   RecordUsage; the two could be composed and the limit stated of the ledger.
2. Models: login and the families of refresh tokens; sticky sessions and session limits;
   temporary unscheduling; and in `TokenRefresh` what a stale refresher does to the status
   of an account.

The checks of the later modules share two runs. The modules of one run have no variable
in common (those of "entitlements" share only the balance), so a behaviour chooses at its
start which of them it is about, by the variable `part` of the MC module, and the others
stay as they began: the states add up and do not multiply.

## 3. The models

| module | role |
|---|---|
| `BillingLedger` | RecordUsage calls, spool drainers and reconcilers on the ledger rows |
| `OnceOnlyBilling` | what that ledger promises; refined by `BillingLedger` |
| `SubscriptionReservation` | the usage hash of one subscription and everything that writes it |
| `QuotaGuard` | what a reservation promises; refined by `SubscriptionReservation` |
| `Totals` | sums, as the sizes of sets, for the two above |
| `ConcurrencySlots` | slots and waiting counters of user and account pools |
| `BoundedHolders` | what a concurrency limit promises; refined by `ConcurrencySlots` |
| `Wallets`, `OnceOnlyCredits` | balances, and what everything that adds to them promises |
| `PaymentOrders`, `PromoCodes`, `RedeemCodes` | three ways to a credit |
| `Credits` | the three side by side; refines `OnceOnlyCredits` |
| `SubscriptionTerms` | when a subscription ends and how it is marked; `RedeemCodes` extends it |
| `UsageWindows` | when the windows of a subscription begin and what they sum |
| `ErasedUsage` | `BillingLedger` beside deletions of usage logs |
| `BalanceCache` | the copy of a balance in Redis |
| `SchedulerSnapshot` | snapshot and payloads of the accounts of one bucket, outbox and writers |
| `TokenRefresh` | the OAuth tokens of one account |
| `AuthCache` | one API key in the memories of instances and in Redis |
| `UsageCleanup` | cleanup tasks and their runners |
| `BillingBreaker` | the circuit breaker of the billing checks |
| `MC*` | values of the constants for TLC |
| `*_proofs` | theorems and their proofs |

### BillingLedger

A step is what one transaction, one file operation or one call does; everything
between two of them may interleave. `usageLog`, `entry`, `charged`, `quotaUsed`,
`commission` and `credited` are committed PostgreSQL state, kept per request because
all statements that move money are commutative increments. `rowLock` is the row lock
taken by `SELECT applied ... FOR UPDATE` (or by the unique index), `job` and
`sawApplied` are what a transaction keeps in memory, `spool` is the directory a file is
in, `stamp` the time in its name.

- `Call*`: RecordUsage (`gateway_service.go`): usage log, spool on failure, ledger
  transaction, cache, commission.
- `Drain*`: `BillingSpoolService.DrainOnce` and `applyEventWithDB`.
- `Recon*`: `BillingReconcileService.ReconcileOnce`.
- `Crash`, `Restart`: a process dies with its goroutines and open transactions; a
  restart moves every file of `processing/` back, also that of another instance.
- `DeleteSubscription`: IncrementUsage then finds no row.

Every commit has two outcomes: reported, or taken effect and reported as failed. The
statement that adds a charge to the key's quota may fail alone: its error is only logged and
the charge commits (`gateway_service.go`:4337, 4349; `billing_spool_service.go`:573;
`billing_reconcile_service.go`:254, 297). `Charge` therefore chooses whose quota stays
behind, of at most `MaxDrift` requests in a behaviour.
`Legacy` are entries left unapplied by a release in which they existed before they
were charged; the reconciler is written for them. billing.reconcile.enabled is FALSE
by default (`config/config.go`:1080); the model has reconcilers, and the safety
properties hold without them a fortiori. The cost of a request is a constant: the same
request computes the same cost.

### SubscriptionReservation

The Lua scripts of `billing_cache.go` are operators from a Redis state to a Redis
state; one call is one step, or two executions in one step when the client library
repeats a script whose reply it lost (`Runs`, fault "again"). `redis.hash` is the usage
hash, `redis.rkey` the reservation keys, and `share`, `taken` and `freed` are histories
for the properties: what of the hash belongs to a request, and how often it took and
gave back. `hpc` is the handler (`CheckBillingEligibilityAndReserve`, the forward, the
deferred release), `rpc` RecordUsage, `adds` and `fills` the write queue, which ten
workers empty in any order. One usage window stands for the three, which are
incremented together; the tightest limit decides.

`GetSubscriptionStatus` takes any error of a read for a miss, and the fill that follows
writes PostgreSQL's usage over a hash that is alive, leaving its reservations alone
(`billing_cache_service.go`:334, 403; fault "read"). What the hash had counted ahead of
that reading is forgotten, and what the reading has and the write queue has not yet
delivered will be counted twice. The history `skew` sums up how far such fills lowered and
raised the usage of a live hash; a fill after the hash had been lost is none of its
business. A finalisation or release that fails is swallowed and leaves everything as it is
(fault "lost").

`Passed` are requests whose handler hands the reservation to RecordUsage (the OpenAI
and Gemini handlers); the Claude branch of `GatewayHandler.Messages` does not. `Keyed`
are requests with a generated ClientRequestID. A keyed reservation that is handed to
RecordUsage is finalised by the plain script, which leaves its key behind until it
expires; that too is in the model.

### ConcurrencySlots

A pool is a Redis sorted set of slots with a waiting counter. Members have an age
instead of a time stamp, `Tick` makes everything older and forgets a counter whose TTL
is over; `Fresh` are the members a script does not remove. Each script is one step.

- `Count`, `Acquire`, `Uncount`: the handler counts itself as waiting, acquires a slot
  of its user's pool, and takes the count back; the same three again for an account
  after a wait plan.
- `Select`, `WaitPlan`, `NoAccount`: account selection. Which account, and in which
  order, is left open: any account may be tried, refused or planned.
- `ForwardEnds`: the account slot is given back, and the handler ends or returns to
  the selection (failover, retry).
- `ReturnCount`, `ReturnSlot`, `Return`: the deferred calls, in their order.
- `ReleaseOnDone`: the goroutine of `wrapReleaseOnDone`, racing with all of these
  once the client has left.

A call fails in two ways. When the context is done, the client library answers an error
without sending the command: no fault of anybody (`Failed` with n = 0). When Redis or
the network fails, the script was executed or not (fault "redis"). A call that answers
may have been executed twice (option "again", which is not counted as a fault). "crash"
ends one request of a dying process; a process with several requests dies in several
such steps.

### PaymentOrders, PromoCodes, RedeemCodes

`balance` is shared, and `Credit` is the one UPDATE that adds to it. What has been
credited is read off the states of orders, uses and codes; `Credits`, which interleaves
the three, maps it to `OnceOnlyCredits`.

- Orders: `creating` follows CreateTopUp through its two writes (the second one writes
  the whole row, status included) and `failOrder`; `report` is a handler between finding
  an order and `markOrderPaid`, whose transaction locks the row, looks at the status,
  marks and credits, and whose commit may take effect and answer an error. A provider
  captures what it was asked for or another amount, and repeats a report until one is
  acknowledged. The right order of events is an assumption about the user: he pays at the
  URL that CreateTopUp returns (`CanPay`).
- Promo codes: `Check` to `Apply` or `Rollback` is one transaction, `locked` its lock on
  the row. An administrator reads a row without a lock and writes all of it back later;
  `overwrote` remembers when that set a count back.
- Redeem codes: `AcquireLock`, `ReadCode`, `MarkUsed`, then the commit of a balance or of
  a term, each with its failure. `LockBusy` turns a duplicate away;
  the lock does not keep all of them away, since `AcquireLock` may go on without it (Redis is
  down) and `LockExpires` takes it from its owner. The commit
  of a term code writes the row it has read (`Grants`).

### SubscriptionTerms, UsageWindows

The term is one row per user with a day on which it ends. Everybody who writes it reads
it first and locks nothing: `extending` and `checking` hold what was read. The day moves
between any two steps.

`UsageWindows` follows the requests (`visit`) from the middleware's read of the row
through `CheckAndActivateWindow` and `CheckAndResetWindows`, which takes the time of the
new start once (`now`) and compares with the time of each comparison (`clock`). Usage is
the set of charges in it. The weekly and the monthly window differ by a constant:
`rolling` is either. `opened` is a history: when the window that runs was begun.

### ErasedUsage

Deleting a usage log cascades to its ledger entry and to the commission row. `early` are
requests deleted while a call, a spooled event or a drainer still had to do with them:
those may be charged once more for every deletion, since nothing is left that remembers.

### BalanceCache

The database's balance is the set of movements in it, the copy counts how often each is
in it. A movement is made, and told to Redis later (`news`): a charge deducts from the
copy, whatever else invalidates it. `fill` is a reader between its miss, its reading and
the write queue. userRepo.Update writes every field of the user, the balance included, as
it was read: `Edits` are an administrator's edits of the balance, which delete the copy
later, `Savers` everybody else who saves the row (profile, password and status in
`user_service.go`:129, 160, 225, UpdateUser in `admin_service.go`:419, sign-in and
password reset in `auth_service.go`:604, 1056), who tell Redis nothing. Either undoes the
movements between its reading and its writing. `blurred` is the history that makes the property
precise: the movements a copy may be wrong about, because it was read before they were made
or told, or because a row was saved over them.

### SchedulerSnapshot

A writer (`writer`) is a poll of the outbox, a full rebuild, or a request that falls back
to the database because it found no snapshot, or because Redis failed when it looked
(`scheduler_snapshot_service.go`:98-133). It refreshes payloads, takes the bucket lock if it must, loads, draws a
version, publishes and deletes the version it saw before. `reading` is what the writer of
the active version has loaded. GET and INCR of SetSnapshot are one step, since a version
is only compared for equality.

### TokenRefresh

A refresh spends the refresh token, so tokens are numbered, and `upstream` is the one the
provider accepts. `worker` is the background refresh, `provider` each request in
`ClaudeTokenProvider.GetAccessToken` with its lock, its second look at the cache, its
waiting and its check of the version before the cache is written. Beside the account it
works on, a request has the one its handler got from the selection (`own`): the provider may have read
the row again, and what it has read and refreshed is not the handler's. If the read fails
they are the same object.

Two write the whole row, credentials and version with it, without a lock and without a look
at what is there. `editor` is an administrator, and whoever else reads an account, changes a
field and saves it. The other is a request whose token the provider answers with a 401
(`HandleUpstreamError`): it drops the cached token, writes its handler's account back with an
expiry of now (`ratelimit_service.go`:99-118), and puts the account in error. In both cases `lost` says
that the row had another token. Tokens of the last generation in the model do not come near their
end (`TimePasses`), since nothing could replace them.

### AuthCache

A change of the key runs through `changer`: the own memory, Redis, the message, and for a
deletion the row at the very end. A request (`request`) that misses reads Redis or the
database and writes both later. `early` marks an entry that was read before a change had
been invalidated and written afterwards.

### UsageCleanup

`runner` is what an instance does with the task it has claimed; a running task may be
claimed again once it has been running longer than a task may take, which in the model is
any time at which its runner is out of time or dead. `late` and `shared` are histories.

### BillingBreaker

`breaker` has the fields of `billingCircuitBreaker` but the time: `due` says that
resetTimeout has passed. A check asks (`Allow`) and reports later; one that reserves
reports its first call, and its second only when it fails. `silent` remembers that a check
ended without a report while the breaker was half-open.

## 4. What is model-checked

| run | instance | what it shows |
|---|---|---|
| ledger_workers | 2 requests; 2 calls of one request on 2 instances; 2 drainers, 2 reconcilers, a legacy entry, 1 crash, 1 failing quota update (1.70M states) | each request is charged its cost once; the quota of the key counts a request at most once and only with its charge; caches are debited and the inviter credited at most once and only for a committed charge; a finished file was applied; money moves only when an entry is applied; the workers refine `OnceOnlyBilling` |
| ledger_liveness | 2 calls, a drainer, a reconciler, 1 crash (16k states) | a spooled charge is applied in the end, while its subscription exists; an unapplied entry is closed in the end |
| ledger_nil_without_entry | as before | finding 1 |
| reservation_limit | 3 requests, an eligibility check, limit 4, faults: key expiry, lost reply, missed deadline, crash, failed read of a live hash, lost finalisation, two in all (571k states) | the limit holds, up to the usage that fills after failed reads took away; what is reserved belongs to requests; the cached usage is ahead by no more than such fills added; every grant had room (`QuotaGuard`) |
| reservation_keyed | 2 keyed requests, all faults except key expiry, three in all (318k states) | a key makes reserving and releasing idempotent, whatever is repeated, lost or refilled |
| reservation_settles | 3 requests, failed charges (211k states) | every reservation is given back; hash and ledger agree in the end |
| reservation_claude_branch | 2 requests, no fault | finding 2 |
| entitlements | orders: 2 (PayPal, EPay), 2 reports each at once, 2 faults; promo: 1 code, 3 applicants (2 for one user), limits 0, 1, 2, 2 edits; codes: 1 balance code and 2 term codes in 4 redemptions, days 0 to 2, ends up to 3, 2 rows, 1 administrator (-1 or +2 days); usage: 1 request, 1 call, 2 drainers, 1 reconciler, 1 crash, 2 deletions; copy: a charge, a credit, an edit, 2 readers, 1 fault; saved copy: a charge, an edit, 2 readers, 1 fault and somebody who saves the row of the user; windows: 2 requests, 1 charge, days of 2 ticks, rolling windows of 3, 5 instants (599k states) | every source credits once, and a captured payment in the end; a promo code keeps the limit in force; a used code has given its days; a paid term, a window's usage and a balance's copy go wrong only in the overlaps that the properties name; deleting the log of a settled request does not charge it again |
| services | snapshot: 2 accounts, one of which changes, 5 versions, a poller and another writer, 2 disturbances; tokens: 2 requests, the worker, an administrator, 1 refresh, 1 fault, which may be a 401; auth: 2 instances, 2 requests, 2 changes, 1 fault; cleanup: 2 tasks, 2 runners, 2 rows, 1 fault; breaker: 3 checks, threshold 2, 2 probes, 4 faults (742k states) | a published snapshot is one reading; a refresh token is lost, and a replaced access token cached again, only through the events the properties name; a stale key is served only from entries read too early; a cancelled task stops, and none says more than it deleted; and all but the tokens come right in the end |
| slots_limits | 2 requests, limits of one, 1 return to the selection, cancellation, "redis", "again", "crash", two faults in all (522k states) | no pool has more holders than its limit; a slot is left behind only by a fault; every grant found room (`BoundedHolders`) |
| slots_recovery | 2 requests, limits of one, a fault (41k states) | the waiting counter is exact up to the first fault; every request ends; pools and counters are empty in the end |
| slots_cancelled_count | 2 requests that may leave, no fault | finding 3 |

Why these bounds are enough to be interesting. Two workers of each kind are the least
that race; a third call would race with the same rows. Two executions of one request
are what the unique index and the row lock are for. Limit 4 with reservations of 2
admits two requests and refuses the third until one of them has settled or released,
and the costs 2, 2 and 1 exceed it together; the request that costs 1 makes settling
less than was reserved different from settling it all. Slot limits of one with two requests make every second
acquisition a refusal; three members are needed for one stale slot beside one slot per
request. The TTLs of two and three ticks are the smallest for which a slot can be
renewed, grow old and expire. Faults are bounded by MaxFaults in total, so every pair
(reservations: every triple) of them occurs in every order. MaxSwitches bounds the
returns to the selection, which configuration bounds in the code. Symmetry is used for
slot members and requests in the safety runs of `ConcurrencySlots`, where no action
tells two of them apart, and never with a liveness property.

In "entitlements" and "services" every part has two of whoever races (reports, applicants,
redemptions, readers, requests, runners, writers) and one more where a third can do what
the second could not: the promo code's third applicant, the third check that finds the
breaker half-open while two others are still on their way from before it opened. Four
failures are two openings, one of them from half-open. Five instants with days of two ticks
have two midnights, and a rolling window that ends in the second day. Each exception that a
property makes was taken out once and TLC then found the overlap that needs it.

One drifting quota is enough to tell "at most once" from "with the charge"; the mutant that counts an
entry again that had been applied breaks the former. Two of the faults of reservation_limit are
two failed reads, or one beside the loss of a finalisation, a process or a reply. A 401 is
the only fault of its behaviour, so what it does to the row is not excused by anything else
having gone wrong.

The type invariant is checked for reservations (TypeOK), entitlements (EntitlementsTypeOK)
and services (TypeOK), where a mutant of the code breaks it; it is proved for every component
and for the two shared runs.

CHECK_DEADLOCK is off everywhere: the requests of an instance are finite and end.

Fairness.

- `BillingLedger`: a drainer and a reconciler run on tickers (weak fairness of the
  loops); a crashed process is restarted by its supervisor; the transaction of an event
  that is retried for ever on a database that recovers succeeds in the end, and a row
  lock that is freed again and again is obtained, because PostgreSQL queues its waiters
  (strong fairness of claim, lock and commit). Calls are not fair: a goroutine that
  never runs, or dies, is covered by the spool.
- `SubscriptionReservation`: goroutines run to their end, the write workers empty
  their channel, the background loops come back to a failed charge; all weak. No
  fairness says that a call succeeds: "database" faults are bounded.
- `ConcurrencySlots`: a handler takes its next step *or* fails at it, and time passes;
  both weak. That a waiting handler may give up at any time stands for its time limit.
  EveryRequestEnds therefore does not assume that anybody gives a slot back.
- Orders: a provider repeats its report until one is acknowledged, and a handler that has
  matched an order ends, well or badly; faults are bounded, as outages end.
- Snapshot: a writer that has begun goes on or fails, the poller and the full rebuild have
  tickers, and Redis drops a lock at the end of its TTL. Auth cache: changes and requests
  that have begun go on, messages arrive or are lost (a fault), TTLs end. Cleanup: the
  timing wheel calls runOnce again and again, and its context ends every call. All weak.
- Breaker: *some* check that was let through ends, others come, and resetTimeout passes;
  all weak. A single check may hang for ever.

Two guards of `Tick` are assumptions that the code does not enforce: a request ends before its slot
expires (`config/config.go` asks for a slot TTL longer than the longest request;
30 minutes by default), and a wait is at most WaitTimeout. A request that outlives its
slot TTL would run beside a new holder of its place.

## 5. What is proved

Every safety and action property that a passing run checks, and every refinement, is a
theorem: it holds for any requests, accounts, codes, costs, limits, TTLs and fault bounds
that satisfy the named assumption of the module (`LedgerAssumption`, `SlotsAssumption`,
`ReservationAssumption`, `TokenAssumption`, ...), and TLC evaluates these in each run. Most of
an assumption says of what type a constant is, or that two kinds of things are different
values. Those that say more, and why they are true of the code:

- `ReservationAssumption`: a request costs at least 1 and at most what it has reserved.
  The estimate is meant to be an upper bound; a request that costs more exceeds the limit
  by the difference, whatever the protocol does.
- `LedgerAssumption`: an entry left from an earlier release has a cost; the calls are finitely many.
- `SnapshotAssumption`: version numbers do not run out. With finitely many versions, reused
  as in the runs, there are at least two for each writer at work; the code counts up for ever.
- `CleanupAssumption`: a task has at least one row in its range; with none there is nothing to
  delete.

None of the properties is inductive. What follows names, for each component, what has to be
added to it and why.

`BillingLedger_proofs`:

- *TypeCorrect*, *ChargeCorrect*, *QuotaCorrect*, *CacheCorrect*, *CommissionCorrect*,
  *DoneCorrect*: the invariants of `ledger_workers`. Whether a transaction may charge depends
  on what it read under its lock, so `LockInv` says that a worker at "locked" holds the lock
  of each request of its job and that what it saw is still what the table says; `CallInv`,
  `DrainInv` and `ReconInv` say what the program counter tells about the request; together
  they are `TxInv`. `EntryInv` ties the state of an entry to the money moved. `DoneInv`
  follows a replayed file, `FollowInv` says that at most one worker owes the caches, and at
  most one the inviter, news of a charge. The proof has one step per action for each part.
- *ChargeOnApply*: the action property, from the same invariant.
  *QuotaCorrect* says that the quota of a key has all or nothing of a charge: that it has all of
  it does not hold of the code, for any bound of failures but zero.
- *Refinement*: every step settles open requests once, ends the subscription or stutters.

`ErasedUsage_proofs` (*ErasedInvariant*, *EraseTypeCorrect*, *ErasedStaysCharged*): the
locking part of the ledger's invariant (`LockedInv`) survives deletions, since a deletion
waits for the row lock; `EntryInv` does not, since an entry that was applied may be gone.
Instead `ChargeBound` counts charges by deletions, and a request that was settled when it
was deleted is `OutOfReach`: no call, file or drainer that could write its entry again is
left, and none of them comes back.

`SubscriptionReservation_proofs`. Which faults a theorem allows is its hypothesis, because
the properties are false without it:

| theorem | hypothesis | what happens without it |
|---|---|---|
| *TypeCorrect*, *KeyCorrect* | none: every fault, in any number | |
| *SharesCorrect* | `NoneDoubled`: the hash is not lost; scripts run once, or every request has a key and none hands its reservation on | a finalisation takes what others have reserved since, from the hash that was filled again (section 6); a reservation without a key is made twice |
| *AheadCorrect* (up to `skew.up`) | `Reliable`: the hash is there from the start, is not lost, and scripts run once | a hash filled between commit and finalisation has the charge twice (section 6); so has one whose queued increment is repeated |
| *LimitCorrect* (up to `skew.down`), *Refinement* | `Direct`: `Reliable`, every handler hands its reservation on, charges do not fail | finding 2; a failed charge is made later by the background loops, when nothing is reserved for it |

Failed reads, with the fills over a live hash that follow, and lost finalisations are allowed in all of
them. The two properties say by how much such fills can make them fail, and `QuotaGuard` has a
`slack` that a step of its own raises (`Slip`). Without failed reads `skew` stays zero and the
bounds are exact.

- `KeyInv`: while a reservation key is there, one reservation was taken and none given back.
- `KeyedTwice`: a script that reserves or releases by key changes nothing when it is run again, so
  a repetition by the Redis client cannot be seen (`AsIfOnce`).
- `ShareParts`: a request that has reserved has all or nothing of it in the hash
  (`HeldInFull`), handler and RecordUsage do not both own it (`OneOwner`), and no copy of the
  hash that is on its way to be written speaks of reservations (`NeverStale`).
- `AheadInv`: the hash, with what is committed and still on its way to it, is at most what
  the ledger has and `skew.up`.
- `LimitInv`: the ledger is ahead of the hash by no more than `skew.down` and what ended
  requests have left reserved (`Owed`), so what the script admits fits into the limit: a
  reservation that is lost with its process protects the quota its charge has used.
- *Refinement*: from `LimitInv` there is room for whoever is let through (`RoomIsLeft`),
  and every step is a grant, a settlement, an abandonment or a stutter (`PromiseStep`).

The hash is compared with sums over requests. Sums by induction are out of the prover's
reach; `Totals` defines a sum as the number of its units, the pairs of a request and a number
up to its value, so that the lemmas about sums (`TotalIsMonotone`, `TotalOfBoth`,
`TotalDiffers`, ...) follow from FiniteSetTheorems.

`ConcurrencySlots_proofs`:

- *TypeCorrect*, *LimitCorrect*. AtMostLimit speaks of requests that will release a
  slot, Redis counts members. `SlotInv` adds to the types that a pool has at most as
  many fresh members as its limit (`Capacity`), that the slot of a request is fresh
  (`Backed`) and that no two requests share one (`Distinct`). The key fact about the
  script is `AttemptFresh`: granted to a new member, even on its second execution, it
  had room. Holders then map one to one into fresh members (`HoldersFit`). `Backed`
  needs the guard of `Tick` named in section 4.
- *Refinement*: a grant is `Enter` and found room among the holders, anything else
  lets holders leave.
- *LeaksCorrect*: for any faults. `InHand` says that a request has at most two slots, that of
  its user and that of the account it is on, and never asks for a slot of a pool in which it
  has one; each step then loses nothing, or is a fault and loses one slot, or two in a crash.
- *WaitCountCorrect*: the counter is exact under two hypotheses. `CallsOnce`: no client
  leaves (finding 3 shows what happens otherwise) and no answered call was repeated (a
  repeated INCR counts twice, and is not visible as a fault). `OutlivesWaits`: a counter's TTL
  is longer than a wait. The code sets the TTL to the longer of the two account timeouts
  (`repository/wire.go`:18), 120 s by default, while a request waits 30 s for its user's slot
  (`handler/gateway_helper.go`:50); with timeouts configured below that, a counter can expire
  under those who wait. `QueueInv` says who is counted, and that a counter is no older than
  the wait of anybody in it.

`Credits_proofs`, about `CreditsSpec`, in which orders, promo codes, redemptions and terms
interleave (in a run, a behaviour has one of them):

- *CreditsInvariant*, *CreditsTypeCorrect*: an order is paid for only after CreateTopUp has
  answered, so none of its writes comes later (`PaidAfterAnswer`); who has checked a promo code
  holds its row (`Holds`), and a code is counted for every use (`UsesCounted`); the transaction
  that has marked a redeem code is the only one (`MarkedAlone`), and one with a term code has read
  the row it will write (`ReadsBefore`).
- *LimitIsKept*, *TermCodeGrants*, *LostByReading*: the action properties.
- *CreditsRefine*: every step credits one source that was not credited before, by what it
  is worth, or stutters (`OnceOnlyCredits`).

`Entitlements_proofs` (balance copy, windows, and the shared run as a whole, see below):
*WrongByOverlap* holds with any number of savers beside the edits, and adds to the property what
every fill has in its hands and is not marked with (`FillsMarked`) and that what Redis has yet to be
told is not in the copy (`PendingUncounted`). *UsageLostByOverlap* rests on `ReadStill`: a
visit that nobody has overtaken has read the start that the window still has.

`TokenRefresh_proofs`: *RefreshTokenIsKept* and *ReplacedTokenStaysOut*. As long as nothing was
lost, who has refreshed and not saved has the only copy of the newest token (`OnlyCopy`), so
no save puts back an older one. Versions grow with tokens (`Monotone`) and the row has at least
the version announced last (`Announced`), so a request that passes the check of the version
has no older token than the worker. A 401 keeps that only by setting `lost` where it has to
(`RowWrittenBack`). The accounts that handlers keep are among those the invariant speaks of
(`Knows`), so that while somebody has the only copy of the newest token they are all older
(`RowsOlder`), and writing one of them back can lose nothing unnoticed.
What the theorems say is that nothing else loses a token: neither the worker, nor a
request with the lock, without it or after its end, in any number and any order.

`Services_proofs`:

- *OneReading*: the version a writer has drawn is nobody else's and has no snapshot (`Drawn`),
  the one it will delete is not active (`Replaced`), and a version nobody names has none
  (`NamedOnly`), which is why drawing it again is safe.
- *StaleByOverlap*: what a request has read and not written is wrong only until Redis was
  emptied (`RequestsWarned`).
- *CancelStops*, *ColumnIsNoMore*: a task that was not claimed twice has one runner
  (`OneHolder`), a cancelled one that is no longer marked so has none (`CanceledEnds`), and a
  runner has counted no more than its task has deleted (`CountsDeleted`).
- *BreakerInvariant*: whatever late reports find, the fields of the breaker fit its state
  (`BreakerFields`): closed it is one failure or more from opening, open it has no probes, and
  half-open it has let one through.

The shared runs. In "entitlements" and "services" a behaviour is about one part, and the others
stay as they began. *EntitlementsParts* and *ServicesParts* say that such a behaviour is one of
each component's own specification (a step of a part is a step of its component, or touches
nothing of it), so every theorem above is a theorem about what TLC explores there;
*EntitlementsTypeCorrect* and *ServicesTypeCorrect* draw the first conclusion from it.

What liveness rests on. Liveness itself, under fairness, is out of the prover's reach. Most of
these properties have a safety core: what would defeat them is a state that nobody can leave, or
a final state that is wrong, and that there is none can be proved for every value of the
constants. What is left to TLC is that fair steps do get there.

| liveness property | theorem | says | hypothesis |
|---|---|---|---|
| SpooledIsEventuallyCharged, UnappliedIsEventuallyApplied | *NotStranded* | a locked entry has a transaction at work that will end, and a file in processing/ a drainer at work on it, or an instance is down, whose restart recovers it | none |
| ReservationIsReleased | *NothingStaysReserved* | the hash has reserved exactly what handlers and RecordUsage will still give back | only the database fails, and scripts run once or by key |
| CacheConverges | *CacheExact* | the hash and what is on its way to it are what the ledger says, and the hash alone is when all is over | the hash is there from the start, only charges fail |
| EveryRequestEnds | *NoCircularWait* | who waits for a user's slot holds none, who waits for an account's holds that of his user at most | none |
| PoolsRecover | *SlotsGivenBack*, *CountsGivenBack* | when the requests are over and nothing has failed, no pool has a fresh slot and no queue a count | none; those of *WaitCountCorrect* |
| CapturedIsCredited | *PaymentNotLost* | an order whose payment was captured is credited, or is stored and may be paid, and the provider has still to report it | none |
| MadeGood (breaker) | *BreakerNotStuck* | a half-open breaker has a check on its way that will report, unless one ended without a report | none |

PoolsRecover says more than its theorems where something did fail: the TTLs then do the work,
and that is only model-checked. What the proofs had to add:

- *NotStranded*: whoever is in the middle of something is on an instance that is up (`UpInv`), a
  row lock belongs to a transaction at "locked" (`HolderInv`), and while all instances are up
  each claimed file has its drainer (`ClaimInv`); on top of the ledger's `IInv`.
- *NothingStaysReserved*: who holds nothing has no share in the hash, and who will give back by key
  finds the key (`GivenBackInv`); with `ShareParts`.
- *CacheExact*: `ExactInv` is `AheadInv` with equality. A missed deadline, a misreported commit or
  a crash makes the ledger the larger one, which is what is left of it in *AheadCorrect*.
- *SlotsGivenBack*: from the invariant of *LeaksCorrect*; a request ends only without a slot and
  is counted only on its way (`EndInv`), so a slot that was left would be a lost one.
- *PaymentNotLost*: once the user knows where to pay, the order is stored and pending or paid, and a
  report is acknowledged only in or after the step that pays (`CapturedInv`).

Only model-checked: the liveness properties SpooledIsEventuallyCharged,
UnappliedIsEventuallyApplied, ReservationIsReleased, CacheConverges, EveryRequestEnds,
PoolsRecover, CapturedIsCredited and MadeGood, because fairness and ENABLED are out of the
prover's reach. The other parts of MadeGood rest on the safety properties above: an entry, a
snapshot or a task is wrong until a TTL, a rebuild or a claim, which nothing can disable for good.

For `ErasedUsage` the foreign keys of the ledger entry and the commission are part of
`BillingLedger`: both are inserted only beside their usage log (`CallLock`, `PayCommission`), and
the proofs hold with that guard.

## 6. Findings

Checked by a run that must fail:

1. `ledger_nil_without_entry`. RecordUsage inserts the usage log outside the billing
   transaction; when that transaction fails it logs the error and returns nil. The
   request then has a usage log and neither a ledger entry nor a spool event.
   docs/project/tasks/BILL-014.md:33 asks for the billing record of every forward.
2. `reservation_claude_branch`. The Claude branch of Messages
   (`handler/gateway_handler.go`:620) does not hand its reservation to RecordUsage, so
   it is released before the charge is committed and the next request spends the same
   quota, against `billing_cache_service.go`:501.
3. `slots_cancelled_count`. On an error IncrementWaitCount answers (true, nil), and the
   handler later takes back a count it never added. A client that leaves before the call
   is enough. `concurrency_cache.go`:96 promises an accurate queue depth.

Seen while modelling, part of the models, not listed as findings:

- A spooled event whose subscription was deleted fails for ever (`DrainFails`), while
  docs/project/tasks/BILL-016.md:46 says that events can be replayed in the background
  and completed; SpooledIsEventuallyCharged excludes it. SpoolBatch such files block all others, since
  a requeued file keeps its name and with it its rank.
- A transient read error sets a spool file aside as `*.bad`, and nothing reads it again.
- A keyed reservation that is finalised after its hash was invalidated and refilled
  takes its amount from what others have reserved since, the "late finalize releases
  the wrong reservation" that `billing_cache_service.go`:691 says keys avoid; reservation_keyed includes the sequence,
  reservation_limit does not (no "hash" fault).
- A hash filled between the commit of a charge and the finalisation of its reservation
  counts that usage twice until it expires (compare docs/project/tasks/BILL-017.md:26).
- The quota of an API key can stay behind what was charged: a failing AddQuotaUsedUsd is logged and
  the charge commits. `billing_spool_service.go`:573 says that it can be reconciled later;
  nothing does, since the reconciler looks at unapplied entries only. That the two agree is
  therefore no property of this development, and QuotaCountedAtMostOnce is what is left of it.
- A read of the usage hash that fails is taken for a miss, and PostgreSQL's usage is written over a
  live hash (`billing_cache_service.go`:334, 403). Charges that are committed but not finalised
  are in that reading, and are added once more; charges the reading is too old for are
  forgotten until the hash expires, and the limit can be passed by them.
- The error of a finalisation is dropped, and nothing repeats the call (`handler/gateway_handler.go`:268):
  the reservation stays until the hash expires.
- A request answered with a 401 writes back the account its handler has had since the
  selection (`ratelimit_service.go`:99-118). When the worker or another request has refreshed
  meanwhile, the row has the spent refresh token and the older version again, and a request with the
  old account passes the check of the version.
- The finalisation in RecordUsage derives its context from the one whose 10 s may be
  over (`gateway_service.go`:4069): fault "deadline".
- The TTL of a waiting counter is renewed by every increment, so counts leaked by a
  crash stay as long as there is traffic; PoolsRecover holds because it pauses.
- Deletion of usage logs erases what a replay relies on: a request that was not settled is
  charged again, once per deletion (`ErasedUsage`, `early`).
- Two requests that read a window which has ended both empty it; what was charged between
  the two is lost (`service/subscription_service.go`:497). A request that crosses midnight
  between the two clocks writes the start of the day before, and the next one resets again.
- A sweep, or a request, can leave a renewed subscription marked expired until it is renewed
  again (`service/subscription_service.go`:154, 694).
- An administrator's edit of a promo code undoes the counts of the uses it overlapped with
  (`service/promo_service.go`:221); an edit of a user writes the whole row, and undoes
  charges and credits made since it was read (`service/admin_service.go`:472-488 with
  `repository/user_repo.go`:135). So does everybody who changes a name, a password or a
  status (`service/user_service.go`:129, 160, 225, `admin_service.go`:419,
  `auth_service.go`:604, 1056), and they do not delete the copy in Redis either, which goes on as
  if nothing had happened (`BalanceCache`, `Savers`). ImplementsOnceOnlyCredits and CapturedIsCredited are
  about the credits alone: that a credit is made once does not say that no such row is
  written over it later.
- A wrong copy of a balance does not end after its TTL: every deduction renews it
  (`repository/billing_cache.go`:50).
- A check that reserves nothing, because the estimate is zero, takes one of the half-open
  probes of the breaker and reports nothing (`service/billing_cache_service.go`:517). When
  all probes go that way the breaker stays half-open and refuses every request until the
  process restarts; without the exception `silent`, MadeGood fails. Clients that cancel
  count as failures, and the success of the first call resets the failures that the second
  call of earlier reservations has counted, so sequential failures of the reservation script
  never open it.
- The audit row of a payment is created on the plain client and not in the transaction
  (`service/payment_service.go`:576): it stays when the commit fails, and every retry adds
  one.
- After a stale reclaim, the first runner of a cleanup task can mark a cancelled task
  succeeded, and the second one goes on deleting (`repository/usage_cleanup_repo.go`:252).
- A crash between the commit of a charge and the follow-up loses the cache debit and
  the commission; nothing in the code retries them.

## 7. What is not modelled, and why

- Of RecordUsage: simple mode and the non-transactional fallback without a database
  client (`gateway_service.go` 4364-4389), the computation of the cost, and the OpenAI
  twin, which follows the same protocol.
- Of the payments: the invalidation of caches after a credit, the audit row, and the
  verification of signatures, which is taken to be right.
- Of the codes: the limit on failing attempts, deletion of many codes at once, codes for
  concurrency (which are like those for the balance) and administrators' adjustments.
- Of the subscriptions: the status "suspended", which no code sets, notes, bulk assignment,
  deletion by group, and the invalidation of the cached usage after a reset, which
  `SubscriptionReservation` has as an event that may happen at any time. Weekly and monthly
  windows are one.
- Of the snapshot: more than one bucket, group and bulk events and those for last_used_at,
  the payloads the account repository writes directly, the limit on fallbacks, keys that
  a crashed writer leaves behind under versions nobody names, and a pipeline that the Redis client
  sends again after a lost reply: the second execution adds the same members and names the same
  version, so it changes nothing unless another writer has published in between, and then puts
  the older reading back in force.
- Of the tokens: providers other than the Anthropic one (they repeat its steps), lengths of
  TTLs, what the status of an account after a refused refresh is good for (plan 2), a second
  refresher without a lock (the worker of another instance, RefreshAccountCredentials), tokens
  that come from elsewhere (typed in by an administrator, or taken over from CRS), and the return
  of a request whose context has ended.
- Of the auth cache: more than one key, overlapping changes of one key, the asynchronous
  writes of the in-memory cache, and singleflight, which only merges equal requests.
- Of the cleanup: filters, and the recomputation of the dashboard.
- Of the breaker: what a check asks of the caches; `SubscriptionReservation` and
  `BalanceCache` have that.
- Of the slots: limits of zero (unlimited), the load figures, and how an account is
  chosen.
- Components marked not_modelled in PROJECT.json: those of the plan, and the ones
  that are translation, statistics, CRUD, routing, packaging or generated code, for the
  reason given there.
