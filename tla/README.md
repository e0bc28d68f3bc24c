# Verification of octupus-crawler

TLA+ models of the crawler in `src/`, the TLC configurations that check them on
small instances, and theorems about them that the TLA+ proof system checks for
every value of their constants. Requirement numbers (REQ-...) are those of
`src/docs/specs/<component>/requirements.md`.

    tlc -workers 2 -config CrawlSystem.cfg MCCrawlSystem.tla
    tlapm CrawlProofs.tla

`PROJECT.json` lists the components, the runs, a mutant of the code for every
property, the source lines behind every definition (`map`), the disagreements
between code and documents (`findings`), the places that are hard to test
(`hazards`) and the theorems.

## 1. The system

A crawl is carried out by worker processes that share one job queue (BullMQ on
Redis), watched by a coordinator that polls the queue until the crawl is complete.
All processes are Node processes with one event loop: code between two awaits is
atomic, and everything that happens across an await, a timer or the network may
interleave.

| Component (package) | State | Operations | Interacts with |
|---|---|---|---|
| leader election, failover (`completion-detection`) | leader flag, renewal interval, the lease in the store, poll interval | tryAcquire, renew, release, start, stop | lease store (SET NX, SET XX, GET, DEL) |
| completion detector, backoff (`completion-detection`) | consecutive failures, ticks to skip, empty polls, the promise | waitForCompletion, tick, onStoreError, onStoreSuccess | counts of the queue |
| control plane (`completion-detection`) | cancelled flag, promise of the first cancel | pause, resume, cancel, getProgress | queue counts, pause, resume, obliterate |
| job queue adapters (`job-queue`) | the worker object; everything else is in BullMQ | addBulk, getJobCounts, pause, resume, obliterate, start, close, dead-lettering | BullMQ |
| URL frontier (`url-frontier`) | none: job ids are hashes of URLs | enqueue, size, close | job queue |
| crawl pipeline (`crawl-pipeline`) | none between jobs | validate, fetch, discover, enqueue, the events of discover | fetcher, link extractor, frontier, event publisher |
| worker processor, seeding (`application-lifecycle`) | none between jobs | processJob, seedFrontier | pipeline, frontier |
| startup, shutdown (`application-lifecycle`) | shutting-down flag, readiness flag, timers, abort counter | executeStartupSequence, execute, process handlers, recordFailure | every resource's close, process.exit |
| worker utilization (`worker-management`) | active-job counter, totals, adapter state | start, close, job events, reset, tick | queue events, metrics, the reply of getActiveCount |
| composition root (`core`) | singleton flag, the entries made so far | createCompositionRoot, shutdown, cleanupReverse | the close of every entry |
| streams (`redis`) | consumer group in Redis | publish, publishBatch, createGroup, consume, ack, claimStale | Redis streams |
| pub/sub, idempotency store, circuit breaker (`redis`) | handlers, cached responses with a TTL, breaker state | publish, subscribe; get, set, delete of a cached response | Redis |
| resilience policies (`resilience`) | tokens, window of calls, breakers (an LRU table) and bulkheads per domain, cached answers | acquire, execute, get, executeWithFallback | timers, the calls they wrap |
| http fetching, politeness (`http-fetching`) | next slot per domain in an LRU table; one fetch: hop, redirects, body | fetch, acquire, release, pruneStale, dispose | ssrf guard, resilience policies, sockets, servers |
| ssrf guard (`ssrf-guard`) | none between calls; one fetch of its own | validateUrl, hardenedFetch | resolver, servers |
| repositories (`database`) | pending status context, rows, objects, one circuit breaker | save, saveBatch, findByHash, updateStatus, store, delete | Postgres, S3, event publisher |
| config, observability, api router | none that outlives a call | validation, wiring, output | — |

What is hard here: a lease that expires while its owner is stalled or its call is
on the way; counts that are read before an await and used after it; a worker that
dies, is drained, or loses the lock of its job between two steps of the pipeline; a
queue error between finding links and storing them; a shutdown that races jobs,
timers, closes that hang, and other shutdowns; stream entries that are delivered
twice or never acknowledged; retries of what was already done; a fetch with a dozen
ways out, each of which must settle its body; a circuit that opens, is probed or is
evicted while calls that it let in still wait for a bulkhead; a job whose lock is lost
while its processor runs on, which every counter of jobs then sees twice or not at all;
a correction of such a counter that was true when it was asked for.

## 2. The modules

| Module | Models | Kind |
|---|---|---|
| `LeaderElection` | leader-election.ts, failover-controller.ts, the lease store | component |
| `LeaderElectionProofs` | theorems about it | proofs |
| `JobQueue` | the queue as job-queue and url-frontier use BullMQ | component without steps of its own |
| `CompletionDetector` | completion-detector.ts, backoff-controller.ts | component |
| `CrawlSystem` | workers, pipeline, seeding, control plane; composes the two above | composition |
| `Crawl` | what a crawl promises | abstract specification |
| `MCCrawlSystem` | a site of three pages | instance for TLC |
| `CrawlProofs` | theorems about `CrawlSystem`, its refinement of `Crawl` among them | proofs |
| `Lifecycle` | startup, shutdown, process handlers, abort handler, main.ts | component |
| `MCLifecycle` | a process with three resources | instance for TLC |
| `LifecycleProofs` | theorems about it | proofs |
| `EventStream` | stream-publisher.ts, stream-consumer.ts on one Redis stream and group | component |
| `StatusEvents` | event-publishing-crawl-url-repository.ts, over the write of the drizzle repository, and discover-stage-events.ts; extends `EventStream` | composition |
| `StatusEventsProofs` | theorems about both | proofs |
| `SsrfGuard` | ip-range-checker.ts, ssrf-validator.ts | pure algorithms |
| `HttpFetch` | http-fetcher.ts, error-classifier.ts, stream-processor.ts, hardened-fetch.ts, fetch-hardening.ts; extends `SsrfGuard` | component |
| `Politeness` | politeness-controller.ts, lru-map.ts | component |
| `PageFetch` | acquire, fetch, release: the two above together | composition |
| `MCPageFetch` | three calls, two hosts, the borders of the address blocks | instance for TLC |
| `PageFetchProofs` | theorems about the fetches of `PageFetch` and the guard behind them | proofs |
| `PolitenessProofs` | theorems about the politeness controller in `PageFetch`; extends `PageFetchProofs` | proofs |
| `TokenBucket` | token-bucket.ts | component |
| `Resilience` | fetch-policy-stack.ts and its policies, resilient-fetcher.ts, fallback-handler.ts, the database's circuit breaker and repository; extends `TokenBucket` | composition |
| `MCResilience` | five plans of three calls | instance for TLC |
| `ResilienceProofs` | theorems about it | proofs |
| `CompositionRoot` | composition-root.ts, signal-handlers.ts of core | component |
| `WorkerProcess` | job-consumer-adapter.ts, utilization-tracker.ts, worker-metrics.ts, dlq-handler.ts under a root; extends `CompositionRoot` | composition |
| `MCWorkerProcess` | one worker with two slots | instance for TLC |
| `WorkerProcessProofs` | theorems about it | proofs |

### LeaderElection

Every coordinator runs a `FailoverController` around a `LeaderElection` on one
lease in the store. State: the lease (owner and time left), and for each
coordinator whether it is up, leads, polls or renews, the time left on each
interval, and the store call it has in flight with its age. Each store call is
three steps: the process sends it, the store executes it, the answer arrives; the
process may stop, crash or be restarted between any two. `Start`, `Poll`,
`Acquired`, `Renew`, `Renewed`, `ReleaseRead`, `Released` and the `...Throws`
actions are the handlers of start, attemptAcquire, tryAcquire, renew and release;
`Shutdown` is `stop`. `Tick` lets time pass: MaxDelay bounds how late a timer or a
call may be, in ticks in which the lease lives TTL and is renewed every RenewEvery.

* `AtMostOneLeader` and `LeaderHasLease` (REQ-DIST-023, 026) hold while the
  deployment is orderly (`Orderly`): timers and calls are prompt compared with the
  lease, and no graceful shutdown is combined with failing calls or crashes. The
  condition is not decoration: outside it both fail, because release reads the
  lease and deletes it in two calls.
* `TakeOverUndisturbed` (REQ-DIST-024): when no call fails, a standby takes over
  from a leader that crashed. Runs with a graceful shutdown are excluded, too
  (`Undisturbed`).
* `leader_zombie` and `leader_split_brain` show two disagreements with
  REQ-DIST-023, 024 and 027 (see section 5).

### JobQueue, CompletionDetector, CrawlSystem

`JobQueue` holds one function per attribute of a job, indexed by URL, because the
frontier makes the job id a hash of the normalized URL. `place` says in which list,
set or state of BullMQ a job is; depth 0 goes to the wait list and any other depth
to the prioritized set, as BullMQ does with a priority. Each operator is one atomic
script of BullMQ. `lock` names the worker that holds a job's lock.

`CompletionDetector` is the poll loop. A tick is two steps: `TickAsks` reads the
counts, and `TickSucceeds` or `TickFails` handles them after the await, when the
queue may have moved on. How the counts are computed is injected
(`QueueCountsFn`), and no production implementation is in the repository: `Pending`
follows the contract of REQ-DIST-012.

The site that is crawled is a set of constants: `Hrefs` is what the extractor finds in a
page, `FinalUrl` where its redirects end, `Absolute` what normalization makes of a
reference and its base. `Links` of a page is what the discover stage hands on: the
distinct URLs, none for a page that is not HTML. `Valid` is the validation of an entry
(depth, allowed domains) and `Enqueue` the batch of the enqueue stage with its
deduplication.

`CrawlSystem` composes both with `Workers`, each with one job at a time, running
crawl-pipeline's `executePipeline` inside `processJob` (main.ts still has a stub in
its place, main.ts:86-90): `Take` (with `validateEntry`, which runs before any
await), `FetchFails`, `Fetched`, `Enqueued`, `EnqueueFails`, `Complete` (which pops
the next job in the same script), `Fail`. `Crash` kills a worker at any await, with
its batch of links delivered or not; `Close` drains it; `StallAbandoned` is BullMQ's
stalled-job check and `LoseLock` the same for a worker that is alive and works on
without its lock. `SeedFrontier` may run any number of times. The control plane
pauses, resumes, and cancels in two steps, because `obliterate` pauses the queue
before it removes jobs.

* `NoLinkLost` (REQ-CRAWL-005, 015): once a page counts as crawled, its links are
  jobs of the queue, whatever fails.
* `KeepsPromise` (REQ-DIST-012): the system refines `Crawl`: URLs become known only
  from seeds and links of pages in progress, each is done once, and the verdict
  `completed` is given only when everything known is done, after which nothing
  becomes known, although the counts are stale by then. The promise is void once
  the crawl has been paused, cancelled, or a live worker has lost its lock (`calm`):
  in each of these cases TLC finds it broken, e.g. by a worker that lost its lock
  and enqueues links after another one finished the page.
* `VerdictReached` (REQ-DIST-013, 015): the coordinator's wait ends unless the queue
  stays paused.
* `control_plane_completed`: a disagreement with REQ-DIST-012 (section 5).

### Lifecycle

One process: the startup phases in order with their reverse cleanup, the shutdown
orchestrator, and the handlers of main.ts. `Execute` is the handler's call of
`execute` together with what the handler does when it returns at once because a
shutdown is in progress; `CloseSettles` of the last resource includes the
continuation of the handler that waits. Two timers are never cleared by the code and
so keep the event loop alive after a shutdown; `LoopEnds` is the exit of Node when no
handle and no timer is left, which is how a process ends after a signal. A close may
hang, succeed, or fail and leave its handle open.

* `ShutdownInTime` (REQ-LIFE-018, 019), `SuccessIsClean` (REQ-LIFE-017, 019) and
  `ShutdownEnds` (REQ-LIFE-031), see the module.
* `lifecycle_exit_code`: a disagreement with REQ-LIFE-012 and 031 (section 5).

### EventStream, StatusEvents

The stream is a log in which an entry is named by its position; `first` is the oldest
entry MAXLEN has left, `cursor` the last one the group was given as new, and `owner`
is the pending entries list. `Append1` is XADD with its trimming (with `~` the server
may keep more), `Consume` XREADGROUP, `ClaimStale` XAUTOCLAIM from 0-0, `GrowStale`
the passing of minIdleMs, `Ack` XACK. The reply of a call may be lost after the server
has executed it, a consumer may die between any two steps, and one entry may come from
another producer without a data field, which the consumer skips without an
acknowledgement. What a consumer does between its calls (parse each entry, acknowledge
all) is not in `src/` but in its integration tests, and is marked external or mapped to
`parseEvent`.

`StatusEvents` has several `updateStatus` calls in flight in one process. A call is
three steps, because the write and the publication are awaits: `UpdateStatus` takes
the context out of the map, `Write` or `WriteFails` settles the write, `Publish` or
`PublishFails` adds the event. A failed call may have taken effect or not. A row is
modelled by `due`, the sequence of events its status changes call for. The discover
stage adds events to the same stream: `Discover` cuts the events of a page's links at
the batch limit and hands them to `publishBatch` without waiting for it, `PublishBatch`
is the server executing one command of that pipeline, with commands of others in
between, and `PublishBatchFails` any failure, after which some were added and some not.

* `NoEventSkipped` and `Delivered`: at-least-once delivery to the group, as a safety
  property (an entry that is not unread, pending or trimmed was handled) and as
  liveness.
* `EventsAreTrue`: every status event names a committed change of its URL (the events
  of links name no change). There is a row for every URL, and none is ever deleted: an
  UPDATE that matches no row would return ok (drizzle-crawl-url-repository.ts:149) and
  its event be published.
* `AnnouncedInOrder`: without faults and overlapping calls on a URL, its n-th event in
  the stream is for its n-th change, and only the one in flight may be missing. Both
  conditions are needed: publishing is fire-and-forget, and overlapping calls publish in
  either order.

### SsrfGuard, HttpFetch, Politeness, PageFetch

`SsrfGuard` has no variables. `Octets` gives each named address its 4 or 16 octets;
`CheckIp` is the range check, with the code's own comparison of octets under a prefix,
and `ValidateUrl` the set of verdicts a URL's host can get, over every answer of both
lookups, their failure, their timeout and the policy for failures. The text of an
address is abstracted to its octets in all but one respect, which the code can tell: an
IPv4-mapped address may be written with dots (`Dotted`), as a resolver writes it, or in
hexadecimal, as the URL parser does, and `NormalizeIpv4Mapped` knows the first form only.

`HttpFetch` holds a record for each fetch: what it awaits (`step`), the host of its
current hop, the address it has pinned and for which host, the state of the last body.
`HttpValidate`, `HttpReject`, `HttpRedirect`, `HttpRespond`, `Drained`, `ReadChunk`,
`ReadEnd` and `ReadFail`, and the `Hardened...` actions, are the stretches between the
awaits of `httpFetch` and `executeHardenedFetch`; a server answers anything, any time or
never, and `Deadline` is the one timer over a whole fetch. `Politeness` has the LRU
table of domains, the chain of promises behind each entry, and the timers: `Acquire`,
`Grant`, `Release`, `PruneStale`, `Dispose`, `Tick`. `PageFetch` puts both together in
the order http-fetcher.ts asks of its callers; the fetches outside `Fetches` are taken
as a whole, since fetches share nothing but the politeness controller.

* `HopPinned`: a request connects to an address that was checked for the URL of its own
  hop. `RangesExact` says exactly which addresses are refused: those in the blocks that
  design.md of the guard names (RFC 6890, which it refers to, has more), given by first and
  last address (`ReservedBlocks`), IPv4-mapped ones included if they are written with dots;
  the others (`Hexadecimal`) pass, which is a finding (section 5). The instance has every
  border of every block, and an address of either form.
* `TimeoutIsDeadline`, `BodiesSettled`, `WithinLimits`: how a fetch may end and what it
  leaves behind. `BodiesSettled` names the three ways out that leave a body open in the
  code: a malformed Location in http-fetcher.ts, which REQ-FETCH-017 forbids
  (`page_fetch_redirect_body`, section 5), and two in hardened-fetch.ts.
* `GrantsSpaced`: calls of a domain are let through a delay apart, from grant to grant (the
  code does not wait for a request to end, see section 5), as long as its entry
  was not evicted and no queue takes longer than the staleness threshold: in the code
  some 300 calls queued for one domain outlast it (600 s, a call every 2 s), and pruning
  may then drop the entry while they wait.
* `WaitersServed`, `ConnectionsFreed`, `FetchEnds`: who waits is served, connections
  come back, and a fetch ends whatever its servers do.

### TokenBucket, Resilience

`TokenBucket` counts in ticks and keeps beside the lazily refilled bucket one that is
refilled at every tick (`steady`). In `Resilience` a call is either a fetch through the
policy stack (`resilientFetch`, whose inner `httpFetch` returns failures as values), one
through the fallback, or a query of the repository behind the database's breaker. Its
steps: `Start` (rate limiter, then `GetPolicy` of its domain, which may evict another
domain's breaker and makes the bulkhead that stays), `Enter` (the breaker lets it in, turns
it away, or makes it wait for the probe), `Occupy` (the bulkhead counts it, or queues it),
`Fetched` or `Queried` (what the service answers, with the retry it may cause, the slot
that is free again, `Vacate`, and the next of the queue that is called, `Dequeued`),
`Timeout`, and `Cancelled`: the bulkhead throws at a call whose timeout has fired before it
counts it, so that its end calls nobody. The policies themselves are cockatiel's, which is
not in the repository, and marked external; which are combined, in which order and with
which limits is the code's.

* `BulkheadBound`: the count of a bulkhead is the number of calls that run, and no more do
  than its limit, also when the breaker of the domain is evicted meanwhile.
* `OpenedByOwnFailures`, `ClosedByProbe`, `LazyRefillExact`: limits and circuits are per
  domain, also across eviction, late answers and queued calls.
* `CallsEnd`: every call ends, with an exception that the code has: when a call was timed
  out in the queue of its bulkhead (`LostTurn`), its turn is lost and calls behind it may
  stay until another call of the domain ends. Without the exception TLC finds the property
  violated. A retry of the aborted call does not help, since an abort ends the retries.
* `FallbackServes`, `SavesAgree`: what the callers get. A duplicate key and a query error
  count against the circuit alike, as in the code.

### CompositionRoot, WorkerProcess

`CompositionRoot` is the singleton that makes its entries in order (a factory that fails
has what was made closed in reverse), and closes them one after the other. A worker
process has three entries, in the order of their dependencies: the dead-letter queue, the
job consumer adapter with its utilization tracker, and the metrics reporter. main.ts does
not wire these parts yet; the packages' own factories and contracts are what is modelled.
`Take`, `JobEnds`, `OthersWork`, `Stall` and `GhostEnds` are BullMQ's side: the lock of a
job may run out while its processor goes on. `MoveToDeadLetter` and `DeadLetter` are the
two halves of `moveToDeadLetter` (the reply may be lost, the alert's handler may throw),
`Tick`, `GetActiveCount` and `Reset` the reporter's tick around its await. BullMQ's own
closes in the adapter, of the worker and of the event source, are taken not to reject: a
rejection of the first would skip the second (job-consumer-adapter.ts:85), and the root
would go on to the next entry.

* `CounterExact`: the counter is the number of jobs running here until a lock is lost or
  it is reset (`disturbed`); after that it may stay wrong, and only a count above the
  concurrency is ever corrected.
* `ServedToTheEnd`, `AlertMeansKept`, `ShutdownEnds`: the order of closing, dead letters
  and the end of a shutdown.

## 3. Runs, bounds, fairness

| Run | Instance and bounds | Distinct states | Shows |
|---|---|---|---|
| `leader` | 2 coordinators, two failing calls, one crash, one graceful shutdown | 513 844 | the three properties above |
| `leader_zombie`, `leader_split_brain` | as above, smaller | — | findings |
| `crawl` | 3 pages (home links to news and about, news back to home), 2 workers, depth 1, 2 attempts, 1 stall, abort after 2 failures, Budget 2 | 870 142 | the four properties above |
| `control_plane_completed` | 1 worker, 2 seeds, depth 0, Budget 1 | — | finding |
| `lifecycle` | 3 resources, drain 3, teardown 2, grace 6, buffer 1 ticks, abort after 2 failures | 21 787 | the three properties above |
| `lifecycle_exit_code` | as above | — | finding |
| `status_events` | 2 consumers, 1 URL, 2 calls in flight, 2 updates, contexts or pages with links, 2 entries, link batches of 2, a stream of length 1 or (approximate) more, batches of 2, 1 fault | 274 918 | the four properties above |
| `page_fetch` | 3 calls, one of them fetching in either loop, 2 hosts and two literal addresses, MaxRedirects 1, bodies of 2 chunks, delay 1, staleness after 2 ticks, a table of one domain | 401 954 | the nine properties above |
| `page_fetch_redirect_body` | as above | — | finding |
| `resilience` | 3 calls in 5 plans, 2 domains or the database, threshold 2, half-open after 1 tick, 1 retry, bulkhead 1, a registry of one breaker, a bucket of one token in 2 ticks | 496 611 | the seven properties above |
| `jobs` | 2 jobs, 2 slots, 2 attempts, 1 stall, one tick of the reporter at a time | 523 216 | the four properties above |

Why the bounds are enough. The election has no behaviour that needs a third coordinator:
a lease is between its owner and one challenger (three coordinators with one failing
call were checked once, too). The site has a page with two links (so that two workers
compete), a page found by the crawl that links back (deduplication), and one without
links. All its pages pass the validation. Pages that the validation rejects are in
`control_plane_completed` and in the theorems; with a fourth page, beyond the depth
limit, the safety properties were checked once (1 612 618 states; its liveness check
takes longer than five minutes). `Budget` bounds what the environment does to a crawl:
two faults (a crash, a drain, a queue error) or one intervention (a pause, a cancel, a
lost lock), so a page can fail, stall and be done by its second attempt in one
behaviour. The lifecycle's ticks keep the proportions of 15 s, 8 s, 30 s and 5 s. The
limit of the stream is less than what is published, and the server may keep to it or not
(`Approximate`), so that entries are trimmed while they are unread or pending, and that two
entries are live, one of them malformed or both of a batch; a consumer's batch holds both,
so the one malformed entry never fills it (see section 6); one fault is enough for an
entry to be lost in any one place and found again. The theorems cover exact trimming, too.
In `page_fetch` the table of one domain and the two domains of the
calls make every eviction happen, and two or three calls of a domain wait behind each
other; one redirect is a first hop, a hop with its own address, and one too many; every
border of every reserved block is an address of the instance. The plans of `resilience`
are those in which calls meet: two of one domain before the third of the same or of
another one, two queries that race on one row, a batch beside a save; a threshold of two
lets one failure be forgotten, and the registry of one makes each new domain an
eviction. In `jobs` one tick at a time is enough for a stale answer; overlapping ticks
are covered by the theorems only, which hold for any number of them.

Fairness. The event loop runs what is ready, timers fire, and the store answers
(`LeaderElection`, `Lifecycle`). Workers go on with their jobs and are restarted by
their deployment, BullMQ's stalled check runs, a call of the control plane ends and the
poll loop polls (`CrawlSystem`). Nothing makes anybody seed, pause, resume, cancel, shut
down or start a coordinator, and in `Lifecycle` neither jobs nor closes are fair: they
may hang. A consumer that is up keeps asking for new and for stale entries, again and
again although it may be busy in between (hence strong fairness), handles what it was
given, and time passes (`StatusEvents`); nobody has to restart a consumer, update a
status or set a context. In `PageFetch` the timers (the delays, the deadline, the
resolver's) and the rejections they cause are fair; the servers and their bodies are
not, and nobody has to acquire or release a domain. In `Resilience` the callbacks of the
policies are, and what a policy calls ends: a fetch by its own deadline, a query by the
pool's. In `WorkerProcess` processors and the closes of entries end; that a job is
taken, stalls or is moved to the dead letters is up to the queue.

## 4. Proofs

All theorems are for every value of the constants that satisfies the named
assumptions of the modules.

* `LeaderElectionProofs`: `TypeCorrect`, `OneLeader`, `LeaseOutlivesLeader`, from
  `InductiveInvariant`. Neither safety property is inductive, and the two ways to be
  `Orderly` need an invariant each. `Safe`, for failing calls and crashes without a
  shutdown: who claims to lead, or will when the answer in flight arrives, owns a lease
  that outlasts its next renewal, the call included. `SafeToStop`, for shutdowns without
  a fault: at most one coordinator holds the lease, be it that it leads, has won, or has
  read the lease to be its own and is about to delete it, and what is left of the lease
  outlasts whatever that one still has to do. For a release that is a get and a del,
  which is where 2 * MaxDelay < RenewEvery is needed.
* `CrawlProofs`: `TypeCorrect`, `NoLinkIsLost`, `PromiseKept`, from
  `InductiveInvariant`: a pending job has attempts and stalls left; a poll loop that is
  not settled has no verdict; a busy worker has a job; and, until the crawl is
  disturbed, a busy worker holds the lock of its job, the seeds are known as soon as
  anything is, and counts that say complete (read, or turned into a verdict) are still
  true. That last part is what makes stale counts harmless: new jobs come only from a
  worker whose own job is still outstanding. `PromiseKept` maps every step to a step of
  `Crawl` or to none.
* `LifecycleProofs`: `TypeCorrect`, `InTime` and `SuccessLeavesNothing`, from
  `InductiveInvariant`: the timer of a phase runs while the phase does, and tells how
  long the shutdown can still take. `SuccessLeavesNothing` adds `Clean`: what is kept
  once the shutdown is complete and the exit code is one of success.

* `StatusEventsProofs`: `TypeCorrect`, `NothingSkipped`, `OnlyTrueEvents`, from
  `InductiveInvariant`: a consumer has handled what it is about to acknowledge, and a
  call that is about to publish has an event and has committed its change. Both
  properties are inductive only with these. `EventsInOrder` needs in addition that calls
  in flight are for different URLs (`Apart`) and that the event about to be published is
  for the last change of its URL (`LastIsDue`), both until calls overlap or fail.

* `PageFetchProofs`: `PinIsOfItsHop`, `TimeoutMeansDeadline`, `BodiesAreSettled`,
  `LimitsHold` and `GuardIsExact`, from `InductiveInvariant`: every fetch is `Good`, which is its type and
  what each step of it may rely on, such as that a request under way has the pin of its
  own host and that a fetch before its response has no open body. The properties speak
  of the last step only and are not inductive without the steps before. `ValidateFacts`
  is the lemma about the guard: what it lets pass is an address it does not refuse.
  `GuardIsExact` is for any addresses of 4 or 16 octets and either text of the IPv4-mapped
  ones (`AddressConfig`); `MappedPasses` is about those in hexadecimal. A prefix match
  is the same as lying between the first and the last address of a block, octet by octet
  (`OctetByOctet`; the mask cuts through one octet at most), and the code's ranges
  (`RangesOfFour`, `RangesOfSixteen`) together hold what the reserved blocks hold.
* `PolitenessProofs`: `TypeCorrect`, the types of all of `PageFetch`, of which the table
  of domains within its size is the part that could fail; `Polite`, that calls of a
  domain are let through a delay apart; `PoliteToFew`, its corollary for few calls.
  The invariant of `Polite` says that the calls waiting for a domain form one chain, each
  behind another and one of them delaying, and how long ago the entry was last touched
  compared with the calls that have gone since: an entry with calls behind it is thus
  never stale. `Polite` has one hypothesis, `QueuesShort`: no queue takes longer than
  `StaleThreshold` less a delay. The hypothesis is the code's own limit (299 calls at the
  defaults; nothing bounds the queue), and the instance TLC checks reaches it exactly.
  `PoliteToFew` has none but on the constants.
* `ResilienceProofs`: `OpensByOwnFailures`, `ProbesClose`, `FallbackAnswers`,
  `RefillExact`, `BulkheadHolds`, `TypeCorrect`, `SavesAgreed`. The circuits rest on
  `Owned` (a call holds a breaker of its own target, and the registry has for a domain
  one of its own) and `Counted` (what a breaker has counted has happened at its target,
  and a probe is let through only where the circuit has opened). The bucket rests on `Buckets`, that none holds
  more than it can. The bulkhead rests on `Occupied` (its count is that of the calls that
  run, and a domain with calls on the way has a bulkhead, so that none is made anew under
  them), which is inductive only with `Queued` (a queue has each of its calls once, and
  they are of its domain). The types rest on `Listed` (the order of the registry has every
  domain with a breaker, so that an eviction frees one) and `Waits` (a queued call is in
  the queue of its own domain); `SavesAgreed` on `Inserted` (who was told of the row
  finds it there, and one call at most inserted it).
* `WorkerProcessProofs`: `TypeCorrect`, `CounterIsExact`, `Served`, `AlertsAreKept`,
  from `InductiveInvariant`: how far the root is tells which entries there are;
  processors run only in a worker that runs or drains; a letter under way is of a job
  that failed for good; attempts and stalls are within their limits; and the counter
  equals the jobs here while nothing disturbed it.

Every safety and action property of the runs is stated by a theorem. Model-checked only
is liveness, which is out of the prover's reach: `TakeOverUndisturbed`, `VerdictReached`,
`Delivered`, both `ShutdownEnds`, `WaitersServed`, `ConnectionsFreed`, `FetchEnds` and
`CallsEnd`.

## 5. Where code and documents disagree

* A renewal that throws once leaves a coordinator that no longer leads and goes on
  renewing its lease: nobody leads again (leader-election.ts:74, `leader_zombie`).
* A renewal does not compare the owner, so a leader that was stalled takes the lease
  of its successor and both lead (leader-election.ts:67, `leader_split_brain`).
* The control plane says completed while discovered pages wait in the prioritized set
  (control-plane-adapter.ts:31, `control_plane_completed`).
* A teardown that exceeds its timeout rejects, and a shutdown on SIGTERM then exits
  with 1; a stuck job is enough (graceful-shutdown.ts:108, `lifecycle_exit_code`).
* A redirect whose Location is malformed ends httpFetch before the body is drained, against
  REQ-FETCH-017 (http-fetcher.ts:128, `page_fetch_redirect_body`); the deadline's timer
  destroys the body later (`ConnectionsFreed`).
* An IPv4-mapped address in hexadecimal is held against the ranges of IPv6 only, where
  ssrf-guard/design.md:55 has it normalized first (ip-range-checker.ts:105). `RangesExact`
  in `page_fetch` states the exception.

Three more were met in the code and are shown by no run:

* The event of an update without a context, which is what the second of two updates and
  the retry of a failed one are, has the URL '' that the schema forbids
  (service-communication/requirements.md:93), and every consumer skips it
  (event-publishing-crawl-url-repository.ts:111). `StatusEvents` has the behaviour.
* The delay between requests to a domain counts from grant to grant
  (politeness-controller.ts:60), where the acceptance criterion in
  http-fetching/requirements.md:89 has the second request wait for a delay after the first
  one completes.
* Of five requests that arrive together, "3 queue until slots become available"
  (resilience-patterns/requirements.md:120): after a timeout in the queue they may stay
  there although slots are free (`LostTurn`). This rests on the library, whose code is not
  in the repository.

## 6. Not modelled

* The sliding-window limiter and the idempotency guard of `resilience`: nothing calls
  them. (The limiter's comment calls its Redis pipeline atomic, sliding-window-rate-
  limiter.ts:65, and a pipeline is not a transaction; two checks may interleave.) Nor are
  the composer without a bulkhead, and `clear` and `dispose` of the policies, which only
  tests use.
* The idempotency store and pub/sub of `redis`: single commands, which nothing puts
  together to a protocol.
* Page content in S3: uploads in parallel that may leave one object behind without the
  other, as the repository's own comment says.
* The closing of database and Redis connections; nothing creates the shutdown handle of
  `database` yet.
* Retention: done jobs and dead letters stay in the model, as if no crawl outlived its
  retention. What eviction does to deduplication is a hazard without a property.
* Breadth-first order (REQ-DIST-002), which the queue's priorities promise only for one
  worker; the coordinator as a resource of its own in `Lifecycle`.
* The collision detector of `url-frontier`: the backend reports every entry of a batch as
  added, so its metric cannot fire.
* Options that have no effect: the stalled-job settings of `worker-management` are
  validated and handed to nobody. The restart warning of the first poll only logs and
  counts, and so do the totals of the tracker.
* A clock that is set back under the token bucket or the politeness table: time is counted
  in ticks that only go forward.
* Configuration, observability, and the API router and gateway: schema validation, output,
  and a thin server over stubs. They keep no state that outlives a call.

A limit of the stream model: `claimStale` always starts at 0-0, and a malformed entry is
never acknowledged, so COUNT malformed entries at the head of the pending list would
starve what is behind them. The model has one malformed entry, fewer than a batch, since
the publisher of this repository writes none.

What a further extension would add first: retention with deduplication (a done job that
leaves the queue while the crawl runs), then the coordinator inside `Lifecycle`, then the
sliding window once something calls it.
