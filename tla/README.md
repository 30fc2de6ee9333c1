# UniLLM in TLA+

UniLLM is a multi-tenant gateway for language models: a Go server (`src/unillm`) that takes
OpenAI-compatible requests, authenticates and limits them, sends each to an upstream provider with
one of the operator's keys, streams the answer back and charges the user. This directory holds TLA+
modules of its stateful parts, the TLC runs that check them and the proofs that TLAPS checks.

Paths below are relative to `src/unillm`. To check a run: `tlc -config MCBalance.cfg MCBalance`; to check
a proof module: `tlapm BalanceProofs.tla`.

## 1. The system

### How a request travels

    client -> RequestID -> ProxyAuth -> RateLimit -> BalanceCheck -> handler (api/v1)
           -> inference.Service -> catalog (route, key) -> provider chain
                                   (fallback -> circuit breaker and retries -> HTTP client -> adapter)
           <- answer or stream
           .. goroutine: RecordUsage -> Redis counters + queue .. FlushWorker -> PostgreSQL usage_logs

Beside it run: the flush worker (5 s ticker), the health checker (1 min ticker), administrators who
edit the tables, and `main`, which on SIGTERM drains the HTTP server, cancels the worker and flushes
what is left. Several server processes may share one Redis and one PostgreSQL. The only rate limiter
that `main` builds is the Redis one (`cmd/server/main.go:105`); the in-memory limiter and its cleanup
goroutine are in the repository but nothing constructs them.

The web front end (`web/`) is a Next.js application that talks to the server over HTTP. Its middleware passes
`/api`, `/v1` and `/backend` on to the server. Login, dashboard and admin page work with a token kept in local
storage, which all tabs of a browser share; the playground works with an API key of the user, kept there too; the
other pages are public. Links are full page loads, which drop the calls a page waits for; `router.push` is not.

### Components

| Component | State | Operations | Talks to | What is hard | What makes it correct |
|---|---|---|---|---|---|
| Prepaid balance (`core/billing/service.go`, `infra/billing/store.go`, `api/middleware/balance.go`) | `users.balance` (PostgreSQL), `balance_used:<user>` (Redis, evictable) | CheckBalance, RecordUsage, top-up, debit | inference service, admin | two stores read in two round trips, charge after the answer, resent pipelines, eviction | bounded overdraft; nobody without money is served |
| Usage log pipeline (`infra/billing/store.go`, `cmd/server/main.go`) | Redis list, entries in the hand of the worker and of FlushAll, `usage_logs` | RecordUsage, FlushWorker, FlushAll, shutdown | Redis, PostgreSQL | crash between pop and insert, unknown outcomes, resends, shutdown racing the worker, poisonous rows | every entry in one place, a second row only from an ambiguous INSERT or a resend, eventually written |
| Resilience wrapper (`infra/provider/resilience.go`) | breaker state, failure count, time of last failure | Allow, RecordSuccess, RecordFailure, retries | provider clients, status page | late reports, cancelled calls and backoffs, rejected requests | state agrees with count; heals once nothing fails any more |
| Rate limiting (`api/middleware/ratelimit.go`, `redis_ratelimit.go`) | list per user (not constructed) / sorted set per user | Allow, cleanup | Redis | window edges, interleaved pipelines, failing and resent commands | any window within the limit; nobody refused without cause |
| Catalog and key pool (`core/catalog/service.go`, `infra/persistence/provider.go`, `api/admin/handler.go`) | tables, pool, round-robin index, client registry | Reload, NextKey, ResolveModel, ResolveProvider, admin handlers | PostgreSQL, inference service | unlocked reads before a locked swap, partial failures, stale pool | pool is a snapshot of the tables; rotation is even |
| Health checks and status page (`api/v1/status.go`) | cache, ring buffer, index | checkAll, Status, StatusHistory | breakers, upstreams, tables | ring wraps, stale cache, toggles during a round | buffer = tail of the log; verdict agrees with it |
| Inference service (`core/inference/service.go`, `api/v1/proxy.go`, `embedding.go`) | one request: usage and characters metered | chat, stream, embedding | catalog, providers, billing | client leaves, upstream stalls or breaks off, long lines | one record per answer; billed for what was shown |
| Provider clients and adapters (`infra/provider/*_provider.go`, `transport.go`) | adapter buffer, connections | calls, conversions, stream adapters | upstreams | line-to-Read translation, three formats | same stream as the upstream's |
| Fallback chains, registration (`fallback.go`, `register.go`) | registry of clients, filled at start | parse `FALLBACK_CHAIN`, try in order | catalog | a group replaces a provider of its name | first success answers |
| Concurrency limiter (`concurrency.go`) | semaphore | acquire, release at stream close | – | constructed by nothing | – |
| Accounts, API keys, sessions (`internal/service/auth.go`, `infra/jwt`, `api/middleware/auth.go`, `api/dashboard/auth.go`) | users, api_keys, tokens until they expire | register, login, change password, create/list/delete key, admin check | front end | uniqueness and password races, expiry between two calls | own keys only; a password the user was told is the one stored |
| Encryption at rest (`infra/crypto`) | none | Encrypt, Decrypt | catalog | – | Decrypt inverts Encrypt |
| Usage statistics, model listing, metrics, request ids, logging | none / counters | read only | – | – | – |
| Configuration, schema, deployment | read at start | – | – | restart policy, Redis eviction | – |
| Web front end: session pages (`web/src/lib/api.ts`, `admin-api.ts`, `app/login`, `app/dashboard`, `app/admin`) | token in local storage, page state, calls in flight | sign in and out, load, create/delete key, change password, switches and forms | HTTP API, other tabs | answers out of order or lost, a token that changes under a page, double clicks | one user's data, fresh when quiet, nothing repeated unasked, never stuck |
| Web front end: playground (`app/playground`) | key, list of models, conversation, stream reader | type key, choose model, send, clear | gateway | chunk boundaries, clearing and failing while streaming, stale closures | shows every whole line once, in order; alternates; input comes back |
| Web front end: public pages (`app/page.tsx`, `models`, `calculator`, `status`, `docs`) | list, selection, last status | load, calculate, poll, show a section | HTTP API | overtaking polls, prices computed twice, block parser | quote = bill; current verdict; complete documentation |
| Web front end: language (`lib/i18n`) | provider state, local storage | mount effects, switcher | other tabs | effects of the first rendering | the choice survives |

The hazards of this code, each at its line and with the properties that would catch it going wrong,
are listed in `PROJECT.json`.

## 2. The modules

| Module | Models | State and actions in terms of the code |
|---|---|---|
| `Balance` | prepaid balance | A *slot* is one request from its balance check to the end of its recording goroutine. `balance` is `users.balance`, `used` the Redis counter; the two reads of `CheckBalance`, the serving, and the charge are separate steps. A pipeline that was executed may be sent again (`RecordUsageAgain`, at most `Sends` executions). Top-ups, debits, read errors and eviction are actions. History: `spent`, `forgiven` (by evictions), `peak`, `broke`. |
| `UsageLog` | usage log pipeline | `rec` is where each request's recording goroutine is, `queue` the Redis list of entries (a record and the number of its RPUSH), `fpc/fitem/fcount` the worker inside `flushBatch`, `mpc/mitem` FlushAll, `rows` the table, `phase` the process. `Faults` selects which failures can occur: failing LPOP, lost replies, failing or ambiguous INSERTs, failing and resent RPUSHes and pipelines, crashes, shutdown timeouts, evictions. |
| `Resilience` | circuit breaker with retries | `state`, `failures`, `since` (time since the last failure) are the breaker; each call is a goroutine with its attempt count. `up` says whether the upstream answers good requests, `faulty` whether some callers send requests it rejects or leave during the call: both end a call with an error that counts. The mutex-protected methods are atomic, the upstream call and the backoff are not. |
| `SlidingWindow` | the promise of a rate limiter | Only the history of decisions: admit exactly when fewer than `Limit` were admitted in the window ending now. |
| `MemoryRateLimit` | `SimpleRateLimiter` | `requests` is the map; `Allow` prunes, decides and appends, `Cleanup` prunes all and deletes empty lists. Refines `SlidingWindow` with the identity mapping. |
| `RedisRateLimit` | `RedisRateLimiter` | One step per Redis command (ZREMRANGEBYSCORE, ZCARD, ZADD, reply, ZREMRANGEBYRANK); members are arrival times, so equal times collapse. The pipeline and the ZREMRANGEBYRANK may be sent again, any number of times. |
| `Catalog` | tables, pool, requests | Reload is one step per query and a last step for the swap; a request is ResolveModel, ResolveProvider, NextKey. |
| `StatusHistory` | `checkAll`, the ring, the verdict | One step to list the providers, one to read a breaker, one to probe and store. `log` is the history of everything ever stored. |
| `Inference` | one request of each endpoint | Routing errors, the provider chain, the scan loop with the Anthropic adapter, metering, estimates, the record. A line is absent of usage, names it without a report, or carries a report. Upstream and client act on their own. History: `shown`, `received`, `ending`. |
| `UsageLedger` | the promise of the usage log | The fate of each record: charged once, then logged or lost once and for good, or dropped for free. `UsageLog` implements it by `Fate`, which reads a record's fate from its goroutine, the queue, the two flushers' hands and the rows. |
| `Accounts` | the server as the session pages use it | Tables of users and keys, rows and forms of the admin page; tokens with their day of expiry; `Status` and `Body` of each call, `Apply` its effect. A password change is a check (`Serve`) and a later UPDATE, which is carried out and answered, carried out with the answer lost, or fails (`WritePassword`, `WriteAndLose`, `WriteFails`). |
| `Session` | `fetchAPI` and `adminFetch` | `storage` is the token in local storage, `view` the page, `calls` one slot per call with the token it carries; sent, served, answered, failed, lost. A database failure is answered as each handler answers it (`Failure`): 401 at login, 409 at registration, 400 by the password form, an error that the page only shows elsewhere. Other tabs, other clients and time are actions. History: `excused`, `told`, `disturbances`. |
| `WebConsole` | login, dashboard, admin page | An action is a click or the continuation of a call after its `await`; `Promise.all` is one call with parts. History: `owed`. |
| `Tab` | a tab on a public page | `calls` in flight, oldest first; serving fixes the answer, arrival is later and in any order. |
| `Preferences` | `I18nProvider`, `LocaleSwitcher` | `stored`, `locale`, `mounted`, and `due`: the second effect has to run. History: `wish`. |
| `Playground` | the playground | A streamed line is two halves, a chunk ends after any half; `full` is the closure's `fullText`, `text` the state. An upstream may leave its stream open. History: `cuts`. |
| `StatusPage`, `CatalogPages`, `DocsPage` | status, home, models, calculator, documentation | Poll and answer; load, select, compute; one operator per branch of `MarkdownContent`'s loop over classes of lines. |
| `WebPages` | these pages together | Opening a page renders it anew and drops its calls; what is in local storage stays. |
| `*Proofs` | – | theorems of the module named, see section 5 |
| `MC*` | – | symmetry and constants that a `.cfg` cannot write |

Definitions in a module that are introduced as a *mutant* belong to no specification. Each is a
plausible bug in one definition (a dropped guard, an off-by-one, a missing reset) and is paired in
`PROJECT.json` with the property that must notice it.

How the modules meet: each component sees its neighbours as actions it does not control. `Balance`
and `UsageLog` both contain RecordUsage: `Balance` its effect on the counter, `UsageLog` its effect on
the queue, including the pipeline that executes only in part. `Inference` ends where the record is handed
to the goroutine that `UsageLog` begins with. `StatusHistory` sees the breaker of `Resilience` as
a value that changes at any time. `Inference` sees a provider as a call that succeeds or fails,
which is what `Resilience` promises. `WebConsole` runs its pages against `Accounts`, whose `Apply` is the same
AddProviderKey, ToggleProvider and UpdateModel that `Catalog` takes apart; `Playground` sees the gateway of
`Inference` as a stream that ends, breaks or is refused; `CatalogPages` quotes what `Inference` bills; and
`StatusPage` shows the verdict of `StatusHistory` as a value that changes at any time.

In `WebConsole` and `WebPages` a behaviour has a `theme`, chosen at the start: what the user does with the page in
it. It keeps unrelated features from multiplying each other's states. The session, all faults of the network and
the other tabs are there under every theme of `WebConsole`.

## 3. The runs

| Run | Question | Instance and why it is enough |
|---|---|---|
| `balance` | Is the overdraft bounded and is an exhausted user refused? | 2 users, 2 slots: two requests of one user can pass on the same balance while the other user is independent. Each pipeline is executed up to twice (`Sends`). Deltas of ±1, a balance bound of 2 and cost ≤ 1 let the balance be zero, positive and negative; one eviction is forgiven. 1.5 million states. |
| `usage_log` | Is every entry in exactly one place, written twice only for a known reason, and eventually written, and does the pipeline implement `UsageLedger`? | 2 records, one always rejected by PostgreSQL, with up to 2 entries each (`MaxCopies`: one resend): a batch of 2 is shorter than the queue, so a tick ends with entries left. All ten faults on; two stops allow crash, restart, shutdown; `MaxRows` 1 lets an entry be committed by one INSERT reported as failed and by a second one reported as successful. 118,544 states. |
| `usage_log_drain` (violation) | Does FlushAll drain everything at shutdown, as its comment says? | No faults, one shutdown, 2 records without copies. |
| `resilience` | Do state and count agree, and does the circuit close when the upstream is back and no caller makes calls fail? | 3 calls against a threshold of 2: a late call can report after the circuit opened and again after it closed. One retry, a reset time of 2 ticks, counts cut at 3, above the threshold. Upstream and callers turn bad and good at any time. |
| `memory_rate_limit` | Does the limiter implement the sliding window? | 4 requests, 2 keys, limit 2, window 2, time to 4: lists fill, empty and refill, entries exactly one window old occur. |
| `redis_rate_limit` | What is left of the promise under interleaving, failures and resends? | 3 requests, 2 keys, limit 1, 2 at a time, window 3, time to 4; any Redis command may fail or be executed again. A limit of 1 is reached by one rival, or by a request's own resent member; the third request meets what the first two left. 3.2 million states. |
| `catalog` | Is the pool a snapshot of the tables and used evenly? | 2 administrators whose Reloads overlap, 2 providers, 2 keys, failing queries; each key taken at most twice between Reloads (`MaxIssued`), which is a full turn and a new one. |
| `status_history` | Is the ring the tail of the log, the verdict right and each round complete? | 3 rounds with up to 2 records each in a ring of 3: it fills within a round, wraps and wraps again. One provider has no client, one is a member of a chain (no breaker to read). |
| `inference` | Is an answer recorded once and a stream billed for what was shown? | Chains of one OpenAI-like, one Anthropic, and both; up to 3 lines per stream, each naming usage or not, so that a report can be erased and come again; sizes 0, 3 and 6 around the estimate's division by 4 and 9 beyond the scanner's limit of 8; reports of 0 and 5 tokens. |
| `inference_events` (violation) | Are the events the Anthropic adapter has no chunk for skipped, as its comment says? | Two content sizes, one report. |
| `web_console` | Can a page of the session mix users, show stale data, repeat a credit, end a session wrongly or hang? | 2 users, one of them an administrator and one yet to register, 2 passwords, a key, a row and a form, 2 calls in flight (a load and a change, or two loads that overtake each other), one disturbance (another tab, another client, a failing handler or UPDATE, an answer lost before or after it), tokens that expire after one step of the clock. |
| `web_pages` | Do the public pages keep what they promise, whatever order answers come in? | Catalogues that are empty, of one row, and of two rows with the dearer first; an accepted and a refused key; answers of 2 lines in up to 4 chunks, so a line is cut, whole, or shares its chunk with another; 3 acts of the user, 2 calls in flight, 1 failing request or change; all 2801 sections of up to 4 lines of 7 classes; 3 verdicts; 2 languages picked, 2 page loads. |

Every bound is a constant of the module. `MaxTime`, `MaxRounds`, `MaxLines`, `MaxStops`,
`MaxRows`, `MaxCopies`, `Sends`, `MaxIssued`, `BalanceBound`, `ForgivenBound`, `FailureBound`, `Themes`, `MaxKeys`, `MaxOwed`, `MaxClock`,
`MaxDisturbances`, `MaxCalls`, `MaxMishaps`, `MaxActs`, `MaxDocs`, `MaxPicks`, `MaxVisits` and `Pages` bound the model
only (of `Sends`, go-redis sets the value: one try and three retries); the others are parameters of the program made small. The runs of the rate limiters and of the status history say
`CHECK_DEADLOCK FALSE` because requests, time and rounds are finite there, and `web_pages` because a page with nothing
in flight waits for a user who has done all the bounds let him do; all other runs check for deadlock
(`Inference` says explicitly that a finished request may stop). Symmetry is used only in
runs that check safety properties.

### Fairness

Liveness properties are checked under fairness that the code's environment gives:

* `UsageLog`: goroutines run and the ticker fires (weak fairness); `docker-compose.yml` restarts the
  process; an LPOP, or an INSERT of a given acceptable record, that is attempted again and again succeeds once
  (strong fairness): Redis and PostgreSQL do not fail for ever.
* `Resilience`: time passes, calls and backoffs end because the HTTP client has a timeout, and
  chat requests keep arriving, since the status page itself probes each active provider every minute
  through the breaker. Nothing is assumed about streams or about which calls succeed; the hypothesis of `HealsWhenUp` is
  that the upstream stays up and that callers no longer leave during a call or send requests it rejects, since either
  counts as a failure.
* `Inference`: a call ends (client or header timeout) and the loop takes the steps it can. Of an open stream's
  upstream nothing is assumed, as the stream client has no timeout; it may stay silent for ever.
* `WebConsole`: of each call in flight the network and the page's continuation take their steps (a browser's request
  ends with an answer or an error, and promises are continued). Nothing is assumed of users or other tabs.
* `WebPages`: effects run after a rendering, the interval of the status page fires, and the oldest request is
  answered and its answer handled; younger ones may overtake. Of a chat's stream nothing is assumed beyond that what
  has arrived is handled: neither the playground's `fetch` nor the server's stream client has a limit, so the upstream
  may stay silent for ever. `NothingWaitsForever` therefore promises that the input comes back once the stream has ended,
  was refused or broke, and not that it ends. Nothing is assumed of users.

### Assumptions about the environment

The Redis client is built with its default options (`cmd/server/main.go:52-56`), so go-redis sends a pipeline or command
whose answer did not come again, up to three times, and reports the error then. The models let it: a pipeline of
RecordUsage is executed up to `Sends` times, an RPUSH adds up to `MaxCopies` entries of a record, the limiter's commands
are resent any number of times. A resend of LPOP pops the next entry and the one whose reply was lost is gone
(`FlushPopReplyLost`). A command the client has given up is not executed later.

All servers that share a Redis have one clock: the limiter's members are the servers' times. A request to Redis takes at
least a microsecond, so a pipeline's reply is never processed in the microsecond the request arrived in. Prices are
positive. Any data line of an upstream may name `usage`, with or without a report, in any order; Anthropic's events may come
in any order. A usage log entry parses back as it was marshalled.

## 4. Where the code differs from what it says

The two violation runs:

* `usage_log_drain`: main cancels the worker's context without waiting for the worker; an entry it holds
  fails its INSERT and its RPUSH on the cancelled context and is lost, though the comment at
  `core/billing/service.go:56` says "FlushAll drains all remaining usage logs (e.g. on shutdown)."
* `inference_events`: the Anthropic adapter answers a line it has nothing to say about with an empty
  buffer's EOF, and the service takes the stream for ended.

Other remarks a reader of the models will meet; each is modelled as the code has it:

* A half-open circuit admits every request, while the comment at `infra/provider/resilience.go:20` says
  "testing with a single request"; and a late success closes an open circuit before the reset time is over.
* Anthropic streams report completion tokens only, so their prompts are billed 0; a chat answer without a usage
  object is billed 0 where a stream would be estimated; a failed embedding is not recorded at all.
* A stream line beyond 64 KiB ends the stream without an error and is recorded as `ok`.
* A resent pipeline charges a request twice, and a resent RPUSH queues it twice, so that two rows are written
  (`BoundedOverdraft` and `LoggedAtMostOnce` count them). A rate-limited request whose pipeline is resent counts
  its own member and can be refused for it (`RefusedOnlyUnderLoad`, `Load`).
* The breaker counts every error of a call, also the caller's own cancel and a request the upstream rejects
  (`infra/provider/resilience.go:125-160`): a few callers can keep the circuit of a healthy provider open for everybody.
* A line of a stream that contains the text `"usage"` without a report, a null field or a piece of content, sets the counts to
  zero (`core/inference/service.go:116`): behind the report it erases it and the estimate is billed. `BilledAsShown`
  states it so.
* An evicted balance counter (`docker-compose.yml` sets `allkeys-lru`) gives spent money back: the
  properties of `Balance` account for it as `forgiven`.
* The "7 days" of history are 7/n days with n providers, and the health cache is never pruned of providers that are
  no longer checked; the verdict still counts them.
* ToggleProvider updates the row only: the pool keeps a deactivated provider's keys until the next Reload, and a
  chat still resolves its models.
* Of two overlapping Reloads the one that read first may swap last; a key just added is then missing from the pool
  until the next Reload. `PoolUpToDate` says how old the pool can be: as old as the beginning of the Reload that
  filled it.
* In the Redis limiter, requests of one microsecond are one member of the set, and a refused request removes the newest
  member, not the one "we just added" (`api/middleware/redis_ratelimit.go:63`). `ExactWhenUndisturbed` is what
  holds without overlap.
* `fetchAPI` removes the stored token on any 401: also for a wrong password typed at login or a login that fails in the
  database, which is answered 401 too, and for a late answer to a call that carried an older token. `SessionEndsForAReason` lists exactly these cases.
* A password change whose answer is lost has been carried out or not, and the page cannot tell; of two that overlap
  both are confirmed and one is in the table. `ToldPasswordWorks` promises nothing of these.
* An admin page whose reload fails keeps its old data, with the error set but not shown beside them; a double click
  on a form submits it twice; the key list shows deactivated keys like active ones, and of two overlapping
  creations only the later key is displayed.
* The playground looks for lines within one chunk, so a line that a chunk boundary cuts is lost (`LinesShown`
  says that nothing else is). Clearing while an answer is streamed empties the list, and the next line brings the
  whole answer back. `loadModels` compares its answer with the model of the rendering that started it (`app/playground/page.tsx:47`):
  a list that is loaded late can replace a model chosen meanwhile, or leave one chosen that is not on it, and that model
  is then asked. A key without the prefix `sk-` leaves the former list in place. The page can be cleared any number of
  times while an answer is streamed.
* The status page calls every status but "operational" degraded, also the "unknown" of a server that has not
  checked yet, and shows the last data below the error of a failed poll.
* A page that is opened writes the language it read back to local storage; to pick the language already shown writes
  nothing, so another tab's later choice wins after a reload.
* The home page's price table says that it is loading when the catalogue is empty or failed to load
  (`web/src/app/page.tsx:372`). The documentation's tables drop empty cells.

## 5. What is proved

All theorems hold for every value of the constants that satisfies the named assumptions of the
module (finite sets of slots, keys, requests and providers, natural bounds, positive thresholds, positive prices, no token that
is also the absence of one, catalogues that are sequences of rows with integer prices and distinct ids). Each
follows the same pattern: an inductive invariant, one step per action of Next, and a last
step that joins them by temporal logic.

| Module | Proved | Inductive invariant and why it is needed |
|---|---|---|
| `BalanceProofs` | `TypeOK`, `BoundedOverdraft`, `ExhaustedNotServed` | `Reserved`: what requests in progress may still charge, by every execution of their pipelines that may still come (`Unsettled`), is inside the bound already, since a request that passed the check saw a balance above the counter. `TriesWhileRecording`: no execution is used up before the recording goroutine starts. `SeenAtMostPeak`, `BalanceAtMostPeak` tie what the check saw to the peak, `CounterExact` (used + forgiven = spent) ties the counter to the history, `BrokeCheck` carries a hopeless check between its two reads. |
| `UsageLogProofs` | `TypeOK`, `Conservation`, `LoggedAtMostOnce`, `NothingLostWhileUp`, `LoggedIsFinal`, and the refinement `Spec => ImplementsLedger` | `RowsFromLogged`: a row comes from a reported INSERT unless an answer was ambiguous; `CopiesFromResends`: a record has a second entry only if its RPUSH was sent again; `StopsCounted`: no shutdown step without a counted stop. For the refinement each action is a lemma: it changes the fate of one record by `Charge` or `Log`, of a set of records by `Lose` (a crash, an eviction, an exit), or of none. That a record is in one place (`Conservation`) is what makes its fate a function of the state. |
| `RateLimitProofs` | `AnyWindowWithinLimit` of the sliding window and of the in-memory limiter, `ListExact`, the refinement `MemSpec => Promise`, `RefusedOnlyUnderLoad`, `ExactWhenUndisturbed` of the Redis limiter, and its refinement for each undisturbed key, `RedisSpec /\ [](k \notin disturbed) => OfKey(k)!Spec` | A window that ends between two decisions is contained in the window of the last decision before its end; the list of a key holds every admitted request that still counts, so every step of the limiter is a step of `SlidingWindow` or leaves its variables alone. For Redis, `LoadInv`: every member of a sorted set is the arrival time of a request that wrote it (`MembersTraced`), between trim and ZCARD that of a rival (`MembersCompete`), so what was counted there is load (`CountHasLoad`: rivals, which never stop being rivals, and the request itself once it was resent, which `ResentArrived` ties to its arrival). `CalmInv`, per undisturbed key: requests came one after the other (`OneByOne`), the set holds the admitted requests and the one in progress but for those that fell out of a window (`SetExact`), so ZCARD is the size of the window (`CountExact`) and the highest member is the request's own. For the refinement the decision of an undisturbed key falls at the arrival, before Redis is asked: `Foreseen` gives a request in Allow the outcome its window settles, `CountExact` shows that this is the outcome it returns with, and all steps but the arrival leave the mapped state alone. Other keys' requests stay undecided in `OfKey(k)`, so their overlaps and failures are allowed. TLC checked that refinement with three requests of two keys, a limit of 1 and two requests at a time. |
| `CatalogProofs` | `TypeOK`, `PoolFromTable`, `EvenRotation`, `PoolUpToDate` | The lists a Reload has built are stored keys, each once, also for Reloads in progress (`ListsFromTable`), and miss only what came after their start (`ReloadsUpToDate`); the uses of a list are those of an index that runs round it (`Rotating`); lemmas on remainders carry the arithmetic. |
| `StatusHistoryProofs` | `TypeOK`, `RingExact`, `OverallAgrees`, `RoundComplete`, `HistoryCovers` | `RingExact` is inductive together with the types; lemmas on remainders carry the index. `CacheIsLast`: the cache holds the status of each provider's last record. `RoundSoFar`: the round in progress has one record for each provider it has checked and none for the others. `Dense`: the records from any one on, and the checks the round still owes, are at most the rounds since then times the providers with a client; with `RingExact` that keeps them in the buffer. |
| `InferenceProofs` | `TypeOK`, `RecordedOnce`, `BilledAsShown`, `StreamNeverFree` of `Inference`; `BreakerTypeOK`, `ClosedIffBelowThreshold` of `Resilience` | `Unanswered`: no record before the answer; `MeterExact`: what was metered is what the client was shown while it is there, the last line that named usage included. `ClosedIffBelowThreshold` is inductive together with the types of the breaker. |
| `WebConsoleProofs` | `ConsoleInv`, `OneUsersData`, `ToldPasswordWorks`, `FreshWhenQuiet`, `CreditsAccounted`, and the action properties `OwnKeysOnly`, `SessionEndsForAReason` | What a page shows next is what the calls in flight were answered, so `ConsoleInv` (`TablesOK`, `ViewOK`, `CallsSound`) is about them: each is a call of the open page or of one that was left, carries no token or one that was issued, and its answer is `Sound`: a 401 goes to a login, to no token or to one that is over for good (`RefusalOK`), a success speaks of the token's own user (`PasswordOK`, `DataOK`) and, unless a write since has tainted it, of the tables as they are. Each property then has one strengthening of its own: `TableOwned` (keys beside the totals of their owner), `ToldOK`, `FreshOrRefreshing` (a page that is behind has a load, or a change that a load will follow, on its way), `CreditsReserved` (what took effect, the submissions that may still take effect and a form waiting to be submitted are owed together, so the last of them cannot exceed the bound). |
| `WebPagesProofs` | `PagesInv`, `ChosenLocaleKept`, `ConversationAlternates`, `LinesShown`, `QuotedAsBilled`, `DocsComplete`, and `BlocksRender` | `LanguageInv`: while the second effect is due, what it will write is the wish already, so no reload in between can lose it. `PagesInv`: only the playground has chats and lists of models in flight, none before a page is mounted; the list a call brings has a first element or is empty; a chat has `Gathered` the lines up to the half it has read, each once and in order without those cut (a chunk adds the lines behind, by lemmas on halves and on joined sequences); messages alternate and end with the question that is being answered, or an answer (`MessagesOK`); one chat is in flight exactly while the page is streaming (`ChatsOK`). `QuoteInv`: the selected model is in the list shown and the catalogue the page got is one the gateway serves. That the calculator's table lists every model once, cheapest first, is `SortSorts`: the rank of a row is the number of rows above it in a strict total order, ranks of different rows differ, and n different numbers in 1 .. n are all of them (`Ranks`). `BlocksRender`, for any text of the documentation: each line is shown by one block, as code exactly inside a fence, and only fences, blank lines and the line under a table's header are left out. Its loop is stated as an equation between what it renders at a line and at a later one; `LoopDefined` and `LoopRenders` take the last line at which it would fail and find that it does not (`Least`), `BlockShows` says what one block renders, and `FenceCount` says when a line is inside code, by the parity of the fences before it. |

The type invariants are proved and no run repeats them; all other theorems about a run's properties are marked in
`PROJECT.json`. The invariants were run through TLC first, on the instances of section 3: `Inv` of `Balance`, `UsageLog`
and `Inference`, `BreakerInv` of `Resilience`, `IInv`, `CacheIsLast`, `RoundSoFar` and `Dense` of `StatusHistoryProofs`, `LoadInv` and
`CalmInv` of `RateLimitProofs` (its windows taken from -3 .. 9), `IInv` of `CatalogProofs` (the number of turns in
`Rotating` taken from 0 .. 5), `ConsoleInv`, `TableOwned`, `ToldOK`, `FreshOrRefreshing` and `CreditsReserved` of
`WebConsoleProofs`, and `LanguageInv`, `PagesInv` and `QuoteInv` of `WebPagesProofs`.

The proof of `ToldOK` corrected the model: the history variable `tainted` of a registration's answer was not set by a
password written before the answer arrived, which no instance showed since under the theme that changes passwords no
page registers at that moment. `WritePassword` now taints registrations as it taints logins.

The proofs about the calculator also changed a definition: the table was sorted by a library operator that chooses some
sorted sequence, and is now the stable sort the page's `sort` performs, so that models of equal cost are in a known order.

Only model-checked: liveness (`EventuallySettled`, `HealsWhenUp`, `GoneClientReleases`, `NeverStuck`,
`NothingWaitsForever`, `StatusCatchesUp`), which the prover's backends do not reach. Every safety property of a passing
run is a theorem. Where a proof needs an induction over data (the lines of a text) it argues by a least counterexample,
since the induction theorems of the library, which take an operator, are out of reach.

## 6. What is not modelled

Request and response conversions, the concurrency limiter (which nothing constructs), key selection at start and the
parsing of `FALLBACK_CHAIN`. Authentication of gateway requests by an API key is a set of valid keys in
`Playground`; the last-used time of a key is a statistic. Encryption is a pure function that the catalog treats as
what Decrypt returns. Statistics, metrics, logging and configuration keep no state the program acts on. The
daily usage counter is a statistic. The Gemini native mode is never switched on. Texts and names are data that no
property distinguishes; costs in `Inference` and `CatalogPages` are integers of a smallest unit, so the rounding of
floating-point sums is outside the models.

Of the front end: layout, colours, charts and tables of figures, the two tables of texts (whose agreement the
TypeScript compiler checks), the content of the documentation (every content is checked up to a length, and proved for any), inline
Markdown, the filters of the models page (a pure function of one list), and the theme, which a library keeps.

## 7. Plan

Done, in this order, because the first parts move money or decide whether requests are served: `Balance`, `UsageLog`,
`Resilience`, the rate limiters against `SlidingWindow`, `Catalog`, `StatusHistory`, `Inference`; then
`UsageLedger` and its refinement, the session pages against `Accounts`, and the public pages.

What remains, in the order of its worth:

1. **`RequestPath`**: the composition of key authentication, limiter, balance, catalog and inference for several
   concurrent requests of one user, with instances of the modules above; that a refused request is
   never charged and a served one is charged once.
2. **`Streams`**: the OpenAI and Gemini adapters line by line beside the Anthropic one, joined to the playground's
   reader, against one abstract stream; the concurrency limiter's release at Close belongs here.
3. **`Fallback`**: registration, groups that share a provider's name, and the key each member of a
   chain is called with.
4. **Proofs**: that `Balance` implements an abstract account with bounded credit.
