# A TLA+ model of the financial platform

This directory models the parts of the platform that decide whether money-affecting data is
right (ingestion, the leased enrichment jobs, the transactional outbox and the notifications
consumer), what users are shown of it (reports, pages, budget alerts, the assistant, the
browser's dashboard), the gateway in front, and the places where all of this depends on
Redis or on a provider that may be slow, absent or wrong: the classifier with its cache and
circuit breaker, the rate limiter, the conversations. The modules are translated from the
code; `PROJECT.json` names the lines behind every definition, the runs, the mutants, the
hazards and the theorems.

## 1. The system

| Component | State | Operations | Talks to |
|---|---|---|---|
| Gateway (`services/gateway`) | users, rate-limit buckets (Redis, or per replica), status cache | register, login, refresh, proxy, status | every service over HTTP |
| Ingestion (`services/transactions`, `libs/db`) | `transactions`, `accounts.balance`, `categorization_jobs`, `audit_log` | create, import, correct, list | PostgreSQL, classification cache |
| Enrichment workers (`workers.py`) | leases in `categorization_jobs`, one loop per replica | claim, classify, apply, retry | LLM client, PostgreSQL |
| Outbox publisher (`workers.py`, `libs/events/publisher.py`) | leases in `outbox_events`, producer per replica | claim, publish, complete, retry | Kafka |
| Consumer and notifications (`libs/events/consumer.py`, `services/notifications`) | group offset, assignment epoch, `notifications` | fetch, handle, deliver, commit offset, rebalance | Kafka, PostgreSQL, channel |
| LLM client (`libs/llm_client`) | circuit breaker, token bucket, response cache | classify, summarize, answer, invalidate | provider, Redis |
| Assistant (`services/assistant`) | conversations (Redis, or per process) | chat, history | PostgreSQL, LLM client, Redis |
| Insights (`services/insights`) | none (aggregates on read) | summary, trends | PostgreSQL, LLM client |
| Web (`web/src`) | session, page, entry form with its key | log in, load, refresh, enter, import, correct, ask | Gateway |

What is hard here is rarely one function: it is replicas that share tables and only have
leases and row locks between them; a provider call with no lock held; commits and
acknowledgements that may be lost; clocks that disagree; an ORM identity map between the
code and the database; a consumer group that moves a partition while its handler runs;
reports made of several statements over a ledger that changes; windows whose ends meet; a
browser whose requests overlap, fail and outlive the page that sent them.

What makes each part correct:

* ingestion: the balance is the sum of the rows; an answered row is durable and final; a
  repeated request never adds a second row;
* enrichment: a row is enriched once, together with its events; corrections win; nothing
  is stranded by a dead worker;
* outbox: no event is marked published that is not; order per account, as far as it is
  kept; no event is stranded;
* classifier: a call always ends, with a canonical category; an open breaker keeps calls
  away for its reset timeout;
* rate limiter: no window of time admits more than the bucket allows, whatever the clocks;
* assistant: the history is whole and in order; no reply has older figures than its question;
* notifications: no alert is lost, none is sent that is not stored, the offset only grows;
  spending that reaches the budget raises its alert in whatever order events are handled;
* reports: pages miss and repeat nothing; what a total contains is in the list below it; no
  spending is left out without its currency being named; consecutive periods leave no gap
  and count nothing twice;
* gateway: one user per address, each with an account to start with; a disabled user is out
  when the access token ends; the status shown is recent;
* web: an entry is saved once however often it is tried; the page never shows older data
  after newer, settles after every write, and an old session's loads leave a new one alone.

## 2. Modules

| Module | Models | EXTENDS / instantiates |
|---|---|---|
| `WorkQueue` | the row of `DurableWorkMixin` and the four statements of `WorkRepository` | |
| `TransactionLifecycle` | abstract: what is promised of one ledger row | |
| `Enrichment` | `categorize_once` on every replica, PATCH sessions, time | `WorkQueue`, `TransactionLifecycle` |
| `EnrichmentProofs` | theorems about `Enrichment` | `Enrichment`, `TLAPS` |
| `Outbox` | event insertion, `publish_once`, producer and broker, time | `WorkQueue` |
| `OutboxProofs` | theorems about `Outbox` | `Outbox`, `TLAPS` |
| `Ledger` | `POST /transactions`, `POST /transactions/import` | |
| `LedgerProofs` | theorems about `Ledger`, lemmas about sums | `Ledger`, `TLAPS` |
| `Notifications` | consumer group, hold-and-retry loop, handler, alerts | |
| `NotificationsProofs` | theorems about `Notifications` | `Notifications`, `TLAPS` |
| `Classifier` | `LLMCategorizer`, `LLMClient`, `CircuitBreaker`, the cache, the rules engine behind them, the worker's deadline, invalidation by PATCH | |
| `ClassifierProofs` | theorems about `Classifier` | `Classifier`, `TLAPS` |
| `TokenBucket` | the Lua script, the in-process bucket, the gateway's degradation | |
| `Conversations` | `chat()`: guardrail, history in `RedisConversationStore` and its fallback, retrieval, rewrite | |
| `ConversationsProofs` | theorems about `Conversations` | `Conversations`, `TLAPS` |
| `Reports` | insights, retrieval and the answer made of it, transaction pages and the budget rule, statement by statement | |
| `Workspace` | the web client in one tab: session, loads, entry form, other writes | |
| `Gateway` | registration, tokens, admission, forwarding, platform status | |
| `GatewayProofs` | theorems about `Gateway` and, in its second part, `TokenBucket` | `Gateway`, `TokenBucket`, `TLAPS` |
| `DashboardProofs` | theorems about `Reports` and, in its second part, `Workspace`; lemmas about sums, sorted rows and the calendar | `Reports`, `Workspace`, `TLAPS`, library theorems |
| `MC…` | constants for TLC | the module they are named after |

Two proof modules extend two specifications each, which therefore must not share names: the
specification of `TokenBucket` is `BucketSpec`, with `BucketInit` and `BucketNext`, that of
`Workspace` is `TabSpec`.

### WorkQueue

A work row is a record (`completed`, `attempts`, `wait`, `lease`, `token`). `Eligible`,
`Claimed`, `Owns`, `Completed` and `Retried` are `claim`, `owns`, `complete` and `retry`.
Absolute times become the seconds left until them, and `Elapse` counts them down, so the
state space is finite without a bound on time. The code compares with the clock of the
process, not of the database; every operator therefore takes the number of seconds its
caller's clock is ahead of the slowest one. A `lock_token` is a fresh random id; as every
claim also increments `attempts`, the claim's number is used for it.

### Enrichment

`worker[w]` is the loop of replica `w`: `idle`, `calling` (claim committed, no lock held),
`ready` (result known), `applying` (passed `owns`, holds the job row's lock), `failed` (in
the exception handler). `session[s]` is the ledger row a PATCH has locked. Row locks are
not variables: `JobLocked` and `TxLocked` are derived from who is in the middle of a
transaction, and `SKIP LOCKED` and waiting are the two ways in which they are used. The
second transaction is one step from its last lock to its commit, because nobody sees
anything of it before; `Apply(…, FALSE)` is the commit whose acknowledgement is lost.
`Abandon` covers a crash, a cancelled loop and a `_retry` that raises. The score is
abstracted to below or at the alert threshold, the category to its source.

`TransactionLifecycle` has one action per promise (`Ingest`, `Correct`, `Enrich`) and
knows nothing of workers; `done` is mapped to `job[t].completed`.

### Outbox

Events are numbered by `(created_at, id)`. An enrichment transaction inserts the events of
one ledger row (`BeginBatch`, `Insert`, `CommitBatch` or `RollbackBatch`) and several may be
open at once, so numbers, inserts and commits can be in different orders. `loop[p]` is the
publish loop: `sending`, `acked`, `failed`. `SendUnacknowledged` leaves a record in flight
that the broker may store at any later time (`StoreLate`), also while or after another
replica publishes the same event; the producer is idempotent per send, not per event.
`late` is a history variable: the pairs in which the earlier event was committed only
after the later one had been claimed.

### Ledger

A session has the ORM's view (`held`, `dirty`, `loaded`), its transaction's own writes
(`written`, `fresh`) and the lines still to do. `LockAccount` is
`AccountRepository.get(for_update=True)`: flush, wait, reload over the identity map.
`IngestLine` is the rest of `ingest_transaction` for one line. `Commit` writes back,
publishes the rows and answers. Requests that are refused before they touch anything
(another user's account in an import, an invalid file) change nothing and are no steps;
`POST` for another user's account fails after the lock, in `LockAccount`. The job and the
audit entry are inserted and committed with the row and are not kept apart from it.
A row is its amount: the currency of a request is stored with it and plays no part in the
balance. `created` and `told` record what clients were told. `Sum` is a fold over the rows.

### Notifications

`committed`, `generation`, `memberOf`, `joining` and `assigned` are the consumer group as
aiokafka shows it to the code. The epoch counter is only ever compared with the value read
when the held record was fetched, so one boolean per replica, `current`, stands for it. A
replica that misses a rebalance stays in its old generation and keeps working: the broker
refuses its commits, but nothing stops its handler. Dedupe keys are pairs; the budget rule
depends on the ledger at the time and is a choice (`over`). The handler's first transaction
is split between the lookups and the inserts, its deliveries into send and mark.

### Classifier

A process of the transactions service runs one enrichment loop, so it has one call at a
time and its breaker one caller; `pc[r]` is the await at which that call is suspended
(`reading` the cache, `limiting`, `calling` the provider, `storing`). The code asks the
cache, then the breaker, then the limiter; `Admit` is the breaker's check, together with
the step from open to half-open that reading `state` takes. Redis answers or fails without
delay, and a failure has no step of its own where the code goes on as after a miss: a
failed read is `Admit` or `Refuse`, a limiter that fails open is `Granted`. Time passes
while the provider is waited for. `failures` and `since` are counted up to the values they
are compared with. `AttemptTime` is how long one attempt of `complete_json` waits for a
provider that sends nothing: the client's timeout times the tries of the SDK, which retries
twice unless told otherwise (external). It does not bound the attempt: the timeout is that
of every single wait, so each piece of a reply that comes in time starts it again
(`Trickles`), and what ends such a call is the worker's deadline. `Invalidate` is the DELETE
a correction sends to Redis; it is not ordered with calls in flight. `unanswered` is a history variable. Where the code falls back, the answer is
that of the rules engine: `classify` takes a description as the set of keywords found in it,
gives a credit that matches an income keyword to income, and else the first category of the
table that matches, or other.

### TokenBucket

One user's buckets. Tokens are counted in fractions, so that the refill of a second and
the `Cost` of a request are whole numbers. The script runs atomically in Redis, but with a
time its caller read from its own clock before the request travelled: `Check(now)` is a
run with any time from the slowest clock up to `MaxSkew` ahead, so successive runs may
carry times in any order, and a run with an older time takes tokens away.
`CheckAnswerLost` is the script that ran without an answer: the user pays in both buckets.
`OpenWindow` starts the time looked at at any moment, so a bound on what was taken since
is a bound on every window. Redis losing its data is not modelled; it would hand out one
capacity more.

### Conversations

A chat that is not refused makes three Redis calls with work between them: `Ask` reads the
history, `Merge` reads it again to append, `Write` or `WriteFails` puts the list back. Every
read may return the list in Redis or, if it fails, the one of the process; a write that
raises may have been carried out. Chats of a conversation may overlap: nothing makes a
client wait for its reply. Between the reads, `Retrieve` takes the figures from the ledger
and drafts the answer, and `Respond` lets a model reword it. Figures are represented by the
version of the ledger they are from; the model has the draft's and those of the last
`HistoryTurns` turns before it, and a reply whose figures are not the draft's is replaced by
the draft (`valid_rewrite`). The other ways to the draft (no model, rate limit, provider
error, deadline) have the same outcome. `prior` and `begun` are history variables.

### Reports

Every request is a list of statements that run one at a time (`Query`, `Page`) while rows
are committed, enriched and corrected. An aggregate is the set of rows it adds up, so that
"the same spending" can be compared between statements. Times are numbers; a millisecond, a
day and a week have lengths of their own and months any starts on days, so that bounds,
truncation and boundaries keep their meaning. `period_bounds`, `previous_bounds`,
`parse_period`, `primary_currency`, `spend_by_category`, `spend_currencies`,
`largest_outflows` and `list_page` are the functions of these names; `Sorted` is their ORDER BY. A question is what its
regular expressions recognize: a mention of a period, whether it is a follow-up, a category,
a wish for the largest rows. `build_answer` says which of its branches is taken and which
rows its amounts come from; a greeting is answered without figures. The properties speak of
rows that were there all along (`Steady`, `Reached`): a row committed between two statements
may be in one of them and not in the other, as READ COMMITTED has it. `Handle` is the budget
rule with its dedupe key. `now` stands still during an exploration (every value is an
initial one), because a request reads the clock once. Requests and the handling of events
read the same rows and nothing of each other's; `reader` being away keeps the two
explorations apart.

### Workspace

`page` and `entry` are the state of `Dashboard` and `TransactionEntry`; `loads` are the
requests of the two effects, `writes` those of button handlers. The cleanup of an effect
sets `cancelled`, after which nothing comes of its load: `Cancelled` removes it. Handlers
have no such flag; `Settle` of a handler whose component is gone changes nothing, except
that a 401 calls `onLogout` of the `App`, which is still there. Data are represented by
their version on the server, a load by the versions it was answered with. A wish
(history) is one entry the user wants to be saved: pressing Save again after a failure is
the same wish, any other form, or the same one after a success, is a new one.

### Gateway

`req[r]` is one request: its place, the row it has loaded or inserted and not committed,
when it began, what its probes have found. The unique index makes an insert wait for the
transaction that holds the address. With the framework version that `uv.lock` pins,
`get_session` is left after the answer was sent, so `Registered` and `Commit` are two steps
and the commit may fail in between. Of a user's tokens the latest to expire stand for all.
The probes of a round are separate steps, so that rounds can overlap in every way. A probe
is a number of waits: `client.get(url, timeout=2.0)` gives httpx that time for a connection
of the pool, again to connect, again to write, and again for every piece of the answer, and
no timeout surrounds the call or the `gather`. `Wait` is the end of one wait and the begin
of the next; `Overdue` lets time pass only while the wait of each probe is in time.

Two constants are assumptions and not in the code. `HandlerSeconds` is how long the
database, bcrypt and the queue may hold a handler, the gateway's own `SELECT 1` of a round
included. `ProbeWaits` is the number of waits a probe may consist of: the code bounds
neither it nor their sum, and a service that sends its answer in many slow pieces is waited
for as long as it does. `AccessEnds` and `StatusFresh` are relative to these assumptions; the
second says that a status shown is younger than `CACHE_SECONDS` and a round, where a round may
be as long as all waits of a probe (2 s each) or `HandlerSeconds`, whichever is more. A pool
wait, a connect, a write and an answer in one piece are four waits: 13 s in all, not 7. What a
handler does between two awaits takes no time.

## 3. Runs

| Run | Instance | Shows |
|---|---|---|
| `enrichment` | 1 row, 3 workers (clocks +0, +3, +12 s), 2 PATCH sessions, lease 10 s, 3 attempts, 2 corrections | fence, atomicity, corrections, live claims, refinement, and every row settles |
| `outbox` | 2 events of 1 account from 2 transactions, 2 replicas (clocks +0, +1 s), lease 3 s, 2 attempts | published before completed, order, bounded deliveries, every event settles |
| `ledger` | 1 account, 2 users, 2 sessions, 2 ids, amounts -1 and 2, imports of up to 2 lines, balance limit 3 | balance, answers, final rows, every request ends |
| `notifications` | 2 replicas, 2 records (one unusable), 2 generations | no lost alert, nothing unstored sent, offset grows, the log is consumed |
| `classifier` | 2 processes, 1 merchant, threshold 2, reset 2, 2 attempts of 2, deadline 3 | quiet while open, canonical answers and cache; every call ends, though the provider may never reply |
| `classifier_hang` | 1 process, 3 attempts of 3, deadline 4 | finding: a provider that hangs does not open the breaker |
| `token_bucket` | 1 replica, capacity 6, refill 2, cost 3, skew 2, expiry 7, time 10 | limits in every window, cost of skew, retry hints |
| `conversations` | 2 replicas, 3 chats at once, 4 turns, 2 of them for the model, 1 change of the ledger | lists are whole and in order, replies are grounded |
| `reports` | 3 rows (two at one time, one at the start of a month), 3 accounts of 2 users in 2 currencies, pages of 1, 2 pages, trends of up to 2 points, limit 3 | pages, totals, currencies, trends and the budget alert miss nothing |
| `reports_boundary` | the same, in the accounts' own currency | finding: a row at a boundary is counted twice |
| `workspace` | 2 sessions, 2 forms, 2 things the user does beside logging in, 2 versions, 1 refresh in the minute after a write | saved once, view never goes back, old loads end no session, the page settles |
| `gateway` | 2 requests at once, 1 address in 2 spellings, 2 ids, 1 service, access 2 s, refresh 5 s, cache 2 s, 2 waits of 1 s per probe, 5 s of time | one user with an account, disabled users are out, status is fresh |

Why the bounds are enough. Rows of the job table do not interact except through "oldest
claimable first", so one row shows every race of workers. Three workers are needed for a
claim to be lost, taken over and lost again while the first is still at work; one clock is
ahead by more than a lease, so leases expire early. Three attempts give a first claim, a
takeover and a last one (the code has 10); the lease of 10 s is the smallest the
configuration allows. In `outbox` the lease is 3 s, which only shortens the countdown: all
orders of expiry, backoff (2 and 4 s) and steps still happen, since time never forces a
step. Its two events are stamped and committed in either order. The ledger's amounts are
chosen so that a lost, doubled or half-applied increment changes the sum, and the limit so
that one import overflows at its second line. Two lines per import reach the reload over an
unflushed increment. Two generations, with restarts, let a partition go away under a
handler; a commit of the old generation is what `CommitAnyEpoch` breaks.

The classifier's unit of time is the 20 s of a provider timeout: `classifier_hang` has the
configured deadline of 90 s (4 units, rounded down) and attempts of 3 tries; without the
SDK's retries (`AttemptTime` 1) the property it refutes holds. In `classifier` the deadline
falls within an attempt. A threshold of 2 (5 in the code) has a failure that
is counted and one that opens. Capacity, refill and cost have no common divisor that would
hide rounding; local buckets do not interact, so one replica is enough, and the proofs are
for any number. Time 10 is beyond an expiry after a skewed call. Four turns are full after
two of the three chats, so trimming happens; two turns for the model are one earlier answer.
The rows of `reports` share a time, lie on a page's and a month's boundary and differ in
currency; a page holds one row, so that every cursor is used, and the page cap is reached.
Two clicks in `workspace` are enough for a failed save and its repetition, or a save and a
change of the period, around logins, reloads and expiry that are not counted; the minute
after a write is one refresh, visible or not. In `gateway` a refresh token outlives two
access tokens, a round of two full waits is as long as a cache entry is used, so that an entry
begins, ages and is overwritten while a round goes on, and five seconds leave room for a token
issued at the last moment to end; requests are interchangeable (symmetry).

`CHECK_DEADLOCK FALSE` is set where the model may stop: all rows settled, all events
published, the log consumed, the user at rest, the time at its bound.

Fairness. Loops poll for ever and their calls are bounded by `asyncio.timeout`, requests
end and time passes (weak fairness). A transaction that waits for a row lock is served by
PostgreSQL's lock queue (strong fairness on the waiting step). The consumer retries a
record for ever, so database, channel and coordinator are assumed not to fail for ever
(strong fairness), and the number of rebalances is bounded. In `Classifier` the event loop
runs what can run (weak fairness of `Proceed`) and time passes (strong fairness of `Tick`,
which other processes' due timers may hold up only briefly); nothing is assumed of the
provider. In `Workspace` the browser goes on (weak fairness of `Progress`): requests are
answered or fail, what they wake up runs, effects run, the timer ticks; the user need not do
anything, and nothing need succeed. No failure, request, crash or
correction is assumed to happen. Workers are not assumed to survive: a job or event that
fails at every attempt is parked, and the liveness properties say so.

## 4. Proofs

`EnrichmentProofs` proves, for every number of rows, workers and sessions, every clock
skew, lease and attempt limit (assumptions: the named `ASSUME`s of `WorkQueue` and
`Enrichment`):

* `Invariant`: `Spec => []IInv`;
* `TypeCorrect`, `Fence`, `AtomicEnrichment`: the parts of `IInv` that matter;
* `CorrectionsWin`, `ClaimsAreExclusive`: action properties, from `IInv`;
* `Refinement`: `Spec => Lifecycle!Spec`.

None of the safety properties is inductive alone. The fence (`ApplierOwnsJob`) needs that no
two claims in flight on one job have the same token (`TokensUnique`), which needs that a
token is never larger than the row's attempts (`ClaimsNameRows`). Atomic enrichment needs
the fence, because `complete` only matches the row if the token is still its own. At most
one enrichment needs `RowShape`: a row that is not categorized has no score. `IInv` is the
conjunction, checked by TLC on the instance of `enrichment` before it was proved. The proof
has a lemma per action; the two that carry the argument are `ApplyStep` and `ClaimStep`.

`ClassifierProofs` proves, for any number of processes and merchants, any taxonomy,
threshold and times, `Invariant` (`Spec => []IInv`) and from it that the breaker is closed
exactly below its threshold, that no call is at the limiter or the provider while it is
open, that only canonical categories are answered or cached, and that an open breaker
admits nothing before its reset timeout. `QuietWhileOpen` and `ClosedBelowThreshold` need
each other: a failure counted by a call that was admitted must find the breaker closed or
half-open. `ServedIsCanonical` needs `HeldIsCanonical`, the same of a call between
validating and storing.

The second part of `GatewayProofs` proves `SharedRate`, `LocalRate` and `SkewCost` for every number of
replicas, capacity, refill, cost and skew, and every bound on time. That the tokens taken
plus those in the bucket are within the limit now is not inductive: a run with an older
time would break it. `Funded` says it of every time a call may still carry; as the content
of a bucket at a later time is what it would have been plus or minus the same refill, a
run at any of them keeps all of them. Expiry replaces a bucket by a full one, which is
sound only if the old one was full: `UpdatedRecently` and `DebtBounded` say how late it was
written and how empty it can be, and `ExpiryAssumption` (the code expires a bucket after an
hour without requests and fills it in a minute) that it has filled since.

`RetryAfterIsRight` is arithmetic on a type-correct state: `RetryAfter` is the rounded-up
quotient of the missing tokens by the refill, also of a bucket in debt; `LocalRetryAfter`
adds the second that `int(...) + 1` adds.

`OutboxProofs` proves `CompletedWasPublished`, `AccountOrder` and `DeliveriesBounded` for
any set of events, accounts, transactions and replicas, any clocks, lease and attempt limit.
The completion is honest because a loop gets that far only once the broker has stored its
record (`AckedIsDelivered`), and the log never loses one. `AccountOrder` follows from
`ClaimedHasNoOpenEarlier`: when a row is claimed every earlier row of its account is
completed, hence delivered, or not yet committed, hence a late pair from then on; an event
that becomes visible later adds to `late` and not to the log. `DeliveriesBounded` needs
`ClaimsPay`: deliveries and the claims that may still lead to one (`Outstanding`: records in
flight, loops about to send) add up to at most the row's attempts, where `ClaimsUnique`
keeps two of them from being one claim. The lemmas on cardinalities say what one more or one
fewer of each does to the sum.

`LedgerProofs` proves, for any accounts, amounts, users and sessions and any finite set of
ids, `BalanceIsLedgerSum`, `AnswersAreDurable`, `OneWriter` and the action property
`RowsAreFinal`. The balance proof follows a session from its lock to its commit:
`BalanceInHand` says that the balance the session would write (`Current`: its
unflushed increment, else its own write, else the committed balance) is the sum of
the rows it sees (`Seen`, the committed ones and its own). Between the lock and the commit
nobody else changes the account (`OneWriter`), and an inserted id is new to the account
(`FreshIsNew`), so that a line adds its amount to both sides, and a commit makes the one the
balance and the other the ledger. That needs two facts about `Sum`: it is 0 of an empty
ledger, and changing one row from nothing adds the amount. As `Sum` is a fold in the order of
a `CHOOSE`, they are proved by minimal counterexample on the number of rows, which the
prover can do without an induction schema: a non-empty set of numbers has a least element.

`NotificationsProofs` proves `NoAlertLost`, `SentWasStored`, `OffsetNeverRewinds` and
`OneOwner` with `OwnerReadsOn`, for any number of replicas, any log and any number of
generations. Replicas of old generations go on handling records, so nothing can be said of
handlers in general; what counts is who may commit. `OneOwner` and `RequestsAreOwners` say
that a commit the coordinator accepts comes from the member of the current generation,
`OwnerReadsOn` that its record is at the committed offset or the next one, `HandlerKeepsAll`
that when its handler has ended, every alert of the record is stored and delivered. Alerts
are never deleted, so work of a replaced replica cannot undo it.

`GatewayProofs` proves `UsersCanIngest`, `AccessEnds` and `StatusFresh` for any addresses and
spellings, requests, users, services and times (`LowerOf` idempotent, as lower-casing is).
`UsersCanIngest` needs the unique index over open transactions (`HeldIsNew`): an inserted,
uncommitted address is in no committed row and in no other open one. `AccessEnds` needs that
a request which has seen a user enabled began before or at the time the user was disabled
(`ReadBefore`) and is not older than `HandlerSeconds` (`InTime`), so that the tokens it issues
end in time (`TokensEnd`). `StatusFresh` needs the same of rounds (`RoundsInTime`) and of what
they leave in the cache (`CacheFresh`), as a slow round may overwrite a newer one's result.
That a round ends in time is not assumed of it but follows from its waits: the k-th wait of a
probe begins at most k - 1 timeouts after the round (`WaitsInTime`), and there are at most
`ProbeWaits` of them. The theorem holds for every value of `ProbeWaits` and
`HandlerSeconds`, and for no probe that needs more waits.

`ConversationsProofs` proves `WholeChats`, `InOrder` and `ReplyIsGrounded` for any number of
replicas and chats and any even limit of turns (20 in the code; with an odd one trimming
would cut a chat in two, and `EvenAssumption` says so). Lists are pieced together from two
stores, and the invariant says what each list may contain: the stores hold only turns of
chats that are done (`StoresAreDone`), a list about to be written such turns and those of
its own chat (`MergedIsOwn`), and only chats that are over precede another (`PriorIsOver`).
So an appended chat is in no list it is appended to and precedes nothing there. Trimming
takes the last `MaxTurns` of a list of even length, which drops an even number of turns.
`ReplyIsGrounded` needs that the draft's figures are from after the question
(`DraftIsGrounded`).

The first part of `DashboardProofs` proves `PagesComplete`, `TotalsAreListed`,
`SpendingAccountedFor`, `TrendsHaveNoGap` and `BudgetRaised` for any rows, accounts,
currencies and limits, any page size and number of pages, any lengths of a day and a week
and any calendar of month starts. It assumes what the database and the configuration
guarantee: the amounts and times of a row are numbers and its account exists
(`RowAssumption`), months begin on days, and there are more of them before any request than
a trend has points (`MonthAssumption`), a missing value is none of the values
(`NoneAssumption`). Three kinds of facts come first, none of which the library has:

* sums: `Spend` is a fold in the order of a `CHOOSE`; that it does not depend on this order
  and grows with the set is proved by minimal counterexample over finite sets;
* order: `Sorted` exists for every finite set of rows, lists each once, and is cut at a
  prefix; `NewestFirst` and `LargestFirst` order all rows, because ids break ties;
* calendar: every month of a trend begins at a month start. The months before a window's
  start and the points so far add up to at least those before the request, so that the
  month before always exists; two month starts are at least a day apart, so that a day
  before the first of a month is in the month before.

The budget needs an invariant stronger than the property, which speaks of a month when all
of its rows are handled: `BudgetsWatched` says that without an alert the budget is kept up
to the time of every handled row, counting earlier rows as soon as they are categorized.
A row categorized later would break it; that is what `late` records.

The request being answered has an invariant of what it has done and what it will do.
`PagesSoFar`: the pages are in order, end at the cursor, and nothing owed above it is
missing, where a dashboard owes the rows of its total as well. `Script` says which
statements are still to run, `TotalRead`, `CurrenciesRead` and `LargestRead` what those that
ran have found, `SaysAll` what the answer has made of it, and `TrendsCovered` that an outflow
is in a point already or in the window of a statement to come; when no statement is left
this is the property, and when none has run it is `NoGap`, which is about the calendar
alone. Rows that are committed or recategorized meanwhile only leave the set the properties
speak of (`LedgerStep`), so they disturb no part.

Its second part proves `EntryExactlyOnce` and the action properties `OldLoadsEndNoSession`
and `ViewNeverGoesBack` for any forms, versions, sessions and length of the minute after a
write. `LoadsAreCurrent` says that an effect has at most one load and that it belongs to the
session of the tab, `ViewInOrder` that what a load has been answered is no older than what
is shown and no newer than the data. `EntryExactlyOnce` needs that ids and wishes go
together: the key in the form is that of the wish under way (`KeyIsWish`), a wish has one
form and one id in every request and row (`WishesAreApart`), and what a handler was told is
stored (`AnsweredIsStored`). `FormAssumption` tells a form from none.

Proved and in no run, because they are steps on the way to one that is: the inductive
invariants of all modules (each was checked by TLC on its run's instance before it was
proved), `EnrichedAtMostOnce`, `ClosedBelowThreshold`, `OpenForResetTimeout`, `OneOwner`,
`OwnerReadsOn`, `OneWriter` and the type invariants.

Only model-checked: all liveness (`ENABLED` and fairness are out of the prover's reach) and
the two findings. Every safety property of a passing run is proved.

## 5. Findings

Two runs show where a document or comment says something else than the code does: a hanging
provider that never opens the breaker (`classifier_hang`), and a row at midnight of the
first day of a period, which is in that period and in the one before (`reports_boundary`).
`PROJECT.json` quotes the lines.

Other differences from what documents and comments say, met while modelling:

* `work.py:41`, "Keep an account's events in order", and `ARCHITECTURE.md:159`: the check
  sees committed rows, while `created_at` is stamped at the flush; of two enrichments of one
  account that commit in the other order than they were stamped, the later event is
  published first. `AccountOrder` is what does hold;
* `transactions/routes.py:150`, "drop it rather than serving the same wrong answer": a
  classification of the merchant in flight stores its answer after the drop;
* `API_DESIGN.md:43`, 409 for an address that exists: of two registrations at the same time
  the loser is stopped by the unique index and answers 500 (`CreateUser`);
* `status.py:32`, "one round per window per Gateway replica": requests that miss the cache
  at the same time each start a round; `StatusFresh` bounds what comes of it;
* `ARCHITECTURE.md:117`, "Amounts in different currencies are never added together":
  `ingest_transaction` adds a row of any currency to the balance of its account;
* `ARCHITECTURE.md:133` lists the anomaly score as a step of every transaction: a row that
  the user corrects before its job runs is never scored;
* `docs/OPERATIONS.md:132`, "that event is lost": the outbox row is retried and published;
* `conversations.py:50`, "history is kept in this process instead of disappearing": only
  the turns of chats whose own write failed are, and a failed read followed by a successful
  write replaces the stored history by them;
* `README.md:214` puts the rate limiter before the breaker; the code asks the breaker first.

Observations that contradict no document:

* `PROBE_TIMEOUT_SECONDS` (`status.py:35`) limits every wait of a probe and not the probe, and
  the gateway's own check has no timeout at all: a round has no bound in the code, see
  section 2. The provider's `timeout_seconds` is of the same kind, but there the worker's
  deadline surrounds the call;
* only the two ingesting endpoints commit before they answer; registration, corrections and
  alert updates rely on `get_session`, which the pinned framework leaves after the answer:
  a commit that fails then goes unnoticed;
* the handlers of the entry form, the category editor, the alerts and the assistant have no
  `cancelled` flag: a 401 that arrives after a new login ends the new session;
* the key of an entry is kept for the last form only: a save of A without an answer, then a
  save of B, then A again stores A twice if the first one had succeeded;
* a load that takes longer than three seconds is cancelled by the next refresh throughout
  the minute after a write; the page settles afterwards;
* "last year" and "previous week" count as a period of their own in a follow-up, but are
  read as the current month;
* a row enriched after a later one of its month was handled, or moved into a category by
  hand, may bring the month over its limit without an alert (`BudgetRaised` names both);
* a period with deposits only is answered with "I don't see any transactions": `has_data`
  looks at spending (`answers.py:93`);
* the summary's provider call has no deadline, so that the gateway answers 502 after 15 s
  where the assistant would fall back to its draft.

## 6. Plan

All components with state of their own are modelled, apart from what section 7 names, and
every safety property that a passing run checks is proved. What could be added:

1. Action properties of rows: attempts of outbox rows only grow, a stored alert stays stored.
2. The summarizer with its missing deadline, as a second caller of `Classifier`'s breaker.
3. Liveness proofs, with a prover that handles `ENABLED`.

## 7. Not modelled

* The anomaly score, a sum of fixed weights without state, and the keyword tables of the
  rules engine: the score is a choice in `Enrichment`, the table a parameter of `Classifier`.
* The summarizer: one provider call with the same fallback and check as the responder's;
  what its missing deadline means is said in section 5.
* In the browser: the status card's polling, the lists loaded once per mount, rendering.
* Regular expressions and wording, password hashing and signatures, headers and bodies.
* The lists of accounts, categories and alerts and the audit log: single statements.
* Migrations, infrastructure descriptions, seeding and verification scripts.
