# Verification of the LLM Inference Platform

TLA+ modules, TLC configurations and TLAPS proofs for the platform in this
repository: an API Gateway, an Inference Gateway, workers and a Control Plane,
around Redis streams (the queue) and Redis pub/sub (the answers).

    tlc -workers 2 -config MCJobQueue.cfg MCJobQueue.tla      # one run
    tlapm JobQueueProofs.tla                                  # the proofs of a module

`PROJECT.json` lists the components, the runs, the source lines each definition
models, the hazards, the findings and the theorems.

## 1. The system

    client -> API Gateway -> Inference Gateway -> queue:premium / queue:standard -> worker
                  |                 |                                                 |
                  v                 v            response:{request_id} (pub/sub)      |
             Control Plane      SSE stream  <------------------------------------------

A request is authenticated and rate-limited by the API Gateway, proxied to the
Inference Gateway, given its tenant's system prompt, and appended with XADD to
the stream of its tier. A worker takes it with XREADGROUP, publishes one event
per token on the channel of the request and acknowledges the entry. The
generator that answers the HTTP call is subscribed to the channel and turns
events into SSE chunks.

### Inventory

| component | state | operations | talks to |
|---|---|---|---|
| `inference_gateway/router.py` | none of its own; the two streams | `enqueue_request` (XLEN, 503, XADD MAXLEN ~), `get_queue_depths` | Redis |
| `worker/queue_consumer.py` | consumer groups, pending entries list | `ensure_consumer_groups`, `reclaim_stale_messages`, `poll_next_job`, `ack_job` | Redis |
| `worker/main.py` | the inference task of the process | `inference_loop`, `lifespan`, `/health` | consumer, publisher, engine |
| `worker/publisher.py` | none | `publish_token`, `publish_error` | Redis pub/sub |
| `worker/engine.py` | response index (mock), previous text (vLLM) | `generate` | - |
| `inference_gateway/sse_manager.py` | pub/sub connection, deadline, `active_sse_streams` | `stream_response`, `_listen_with_timeout` | Redis pub/sub |
| `inference_gateway/main.py` | started or not | `lifespan` (groups), `infer` | all of the gateway |
| `shared/redis_client.py` | connection pool (50) | `get_redis`, `close_redis` | Redis |
| `inference_gateway/tenant_context.py` | prompt cache, 60 s TTL | `inject_tenant_context`, `_get_system_prompt`, `invalidate_tenant_cache` | Control Plane |
| `api_gateway/auth.py` | tenant cache without expiry | `validate_api_key`, `invalidate_cache` | Control Plane |
| `api_gateway/rate_limiter.py` | two counters per tenant in Redis | `check_rate_limit` | Redis |
| `api_gateway/main.py` | none | `chat`, `_proxy_sse_stream` | Inference Gateway |
| `control_plane/tenant_store.py` | SQLite table of tenants | `init_db`, seed, get, upsert, delete, list | SQLite |
| `control_plane/health_monitor.py` | endpoints, registry | register, deregister, `_check_worker`, loop | workers over HTTP |

What is hard, and what makes each part correct:

* **Queue and worker loop.** Gateways and workers start in any order; a group
  created with id `$` skips what came before; an XADD may trim unread entries;
  any Redis call may fail with or without having been applied; a worker may
  crash, be cancelled, or lose its loop while its `/health` stays green;
  XAUTOCLAIM moves entries between owners. Correct means: a job is never shared
  and never run twice, nothing disappears without a fault, whatever is let go of
  is acknowledged, and premium requests do not wait behind standard ones beyond
  a bound.
* **Token stream.** Events are fire-and-forget and the subscription starts after
  the job was queued; the engine, PUBLISH, the subscription's connection and the
  clean-up may fail; the client may leave at any await; the deadline races the
  last token; each stream holds a connection of a bounded pool. Correct means:
  no hole and no second ending, `[DONE]` only after the whole answer, an end to
  every response, an exact gauge and an accounted pool.
* **Tenants and caches.** Two caches with different lifetimes, neither
  invalidated, over a store whose rows change and are re-seeded at every start.
  Correct means: a revoked key eventually stops working, a served prompt is
  no older than the TTL while the Control Plane answers, and the Control Plane
  starts with its default tenants.
* **Rate limiter.** A weighted count of two windows, read and incremented in a
  transaction that is awaited after the clock was read; rejected calls count; keys
  expire. Correct means: a bound on what a window and two windows admit, refusals
  only of busy tenants, and no starvation of clients that wait for `Retry-After`.
* **Health monitor.** Checks in flight race `deregister_worker`, and one slow
  worker holds up the round for all. Correct means: a worker reported healthy was
  recently so, a worker that is gone is reported, and the registry describes
  registered workers except for a race the code leaves open.
* **Proxy.** Only `ConnectError` is handled, on a response that has begun, in
  front of a stream that may be refused, cut off or cancelled. Correct means: no
  response is taken for over before the stream's ending has been forwarded, a client
  that is told to come back has nothing running, and no response hangs, which without a
  timeout rests on the deadline of the stream behind and on failures being noticed.
* **Prompt injection.** Clients may send system messages of their own. Correct
  means: the system messages of what is queued say the tenant's prompt, the others are
  as they were, and the text made of them reads as they do. `build_prompt` puts
  contents in as they are, so this last part is not true of a content with a line
  that begins like a turn, and nothing below says it is.
* **Engines.** Deltas are cut from a growing text. Correct means: no character is
  lost or repeated.

`/v1/infer` of a single Inference Gateway process is considered; the compose
file runs one. Workers are many, each with its own `WORKER_ID`.

## 2. Modules

| module | models |
|---|---|
| `RequestLifecycle` | abstract: what a queue promises about one request (refused, queued, running, settled, dropped) |
| `JobQueue` | `router.py`, `queue_consumer.py`, the loop and lifespan of `worker/main.py`, lifespan of the gateway |
| `TokenStream` | `publisher.py`, the try block of `worker/main.py`, `infer`, `sse_manager.py`, the pool of `redis_client.py` |
| `TenantStore` | `tenant_store.py`, the tenant endpoints and lifespan of `control_plane/main.py` |
| `TenantAuth` | `auth.py`, over `TenantStore` |
| `PromptCache` | `tenant_context.py`, over `TenantStore`, and `build_prompt` of `schemas.py` |
| `ChatResponse` | abstract: what the client of a chat request is promised (tokens written, lost and heard, how the response ended) |
| `ChatProxy` | `_proxy_sse_stream` of `api_gateway/main.py`, over `TokenStream` |
| `RateLimiter` | `rate_limiter.py` |
| `HealthMonitor` | `health_monitor.py`, `/workers/health` and the workers' `/health` |
| `Engine` | what `engine.py` yields, as functions |
| `ChatAnswer` | an engine's tokens through `ChatProxy` |
| `MCJobQueue`, `MCTokenStream`, `MCTenantAuth`, `MCPromptCache`, `MCChatProxy`, `MCRateLimiter`, `MCHealthMonitor` | instances for TLC |
| `JobQueueProofs`, `TokenStreamProofs`, `TenantStoreProofs`, `TenantAuthProofs`, `PromptCacheProofs`, `ChatProxyProofs`, `RateLimiterProofs`, `HealthMonitorProofs` | theorems |

### JobQueue

`entries`, `entryId`, `lastId` are the Redis streams, `groups`,
`lastDelivered`, `pel` their consumer groups (an entry's id is its position in
the order of XADDs, all the code relies on). `gateway` and `phase` are the
gateway process and where `enqueue_request` is with each request; `wpc`,
`wqueue`, `wjob`, `after` are the program counter and locals of each worker's
loop. `expired` is what `is_expired()` would answer. `starts` and `passed` are
history variables that nothing reads.

One action is one Redis command taking effect with the code up to the next
await: `CheckLength` then `Enqueue` are separate, so gateway coroutines
interleave; `Poll`, `Accept` or `Discard`, `Finish`, `Ack` are the steps of a
worker. The failures are actions of their own (`EnqueueFails`, `PollFails`,
`DiscardFails`, `Abort`, `AckFails`, `Crash`, `GatewayCrash`), each with its
command applied or not where the code cannot tell, and cost one of `MaxFaults`.
`Abort` covers an exception of `publish_error` (the loop ends after the finally
clause: `dead`) and a cancellation at shutdown (`down`). `XGroupCreate` may fail
silently, as the `except Exception` of both callers has it. MAXLEN `~` is a
choice: the oldest entries down to the limit may go, or any fewer of them.

### TokenStream

`job` and `produced` are the worker's side of a request; `conn` and `inbox` the
subscription and what it carries; `sse`, `sent`, `late`, `cancelled` the
generator in the gateway; `gauge`, `inUse`, `commands` what streams share.
`missed` counts the tokens published before the subscription took effect, and
is history.

`Subscribe` takes a connection and sends the command, `SubscribeTakesEffect` is
Redis acting on it; `Receive`, `TimeOut`, `ReadFails` are the ways out of the
loop of `_listen_with_timeout`; `BeginCleanup` is the synchronous part of the
finally clause and `EndCleanup` or `CleanupFails` its two awaits.
`Disconnect` may come at every await; in `subscribe`, outside the try block, it
may leak the connection just taken, and during clean-up it makes the pending
awaits raise. An error event with an empty message is the event kind `blank`: the
gateway tests the message for truth, so `ChunkOf` turns it into `[DONE]`, and a
failed answer may look complete. No property says otherwise.
How a job reaches a worker is JobQueue's matter: here `TakeJob` happens at most
once, or never.

### TenantStore, TenantAuth, PromptCache

`table` is the SQLite table, on a volume and so untouched by the process' end;
`plane` and `seeding` are the process and the loop of `_seed_default_tenants`.
`SeedTenant` is one round of that loop: the tenant is there, is inserted, or its
key is taken and the exception ends the process. An upsert of a taken key
changes nothing. A configuration stands for tier, rate limit and prompt.
Both caches EXTEND the store and wrap its steps in `StoreStep`, which only adds
history (`held`, `gone`).

`TenantAuth`: `CacheHit`, `CacheMiss`, `Lookup` (the read in the Control Plane),
`Reply` and `LookupFails` are the code of `_fetch_tenant_by_key` between its
awaits. `GatewayRestart` empties the cache. `PromptCache` has the same shape, with
`Fresh` the TTL test and `Tick` the clock: entries and fetches have ages, which
stop at the bounds past which the code and the properties do not tell them
apart. `captured` is the local variable `cached` that the fallback uses.
`invalidate_cache` and `invalidate_tenant_cache` have no callers, so no actions.
What becomes of the messages is a function of them and of the prompt: `Inject` in
the gateway, `BuildPrompt` in the worker. A content, like the text `BuildPrompt` makes, is a
list of lines; a line is what it says after the tags (`[SYSTEM]:` and so on) it begins with, if
any. `Turn` puts the tag of the role before the first line of a content and leaves the
others alone, and `BuildPrompt` strings the turns together: nothing but a tag tells
where a turn begins, and a client's line may have one. `Plain` are the contents in which no line
but the first has a tag; `ReadsAs` says that a text, read by its tags, is
certain messages.

### ChatProxy

`ChatProxy` EXTENDS `TokenStream` and puts the API Gateway where the stream's client
was. `relay` is where the generator of a request is or how its response ended,
`forwarded` how many of the stream's chunks the client has, `raised` which streams
of the Inference Gateway end with an exception, so that their HTTP body stops
short; `stalled` are the connections lost without a sign. `Post` is TokenStream's `Enqueue`, `HangUp` its `Disconnect`: that is
possible only when the proxy is gone, which is where a cut or a leaving client is
passed on; all other steps of the stream are taken over unchanged.
`Respond` is the status (`upstreamError` stands for any but 200), `Forward`,
`EndOfBody`, `CutOff` the loop over the body, `ConnectFails` the one handled
exception, `Break` the others. `Stall` is a connection that is lost without either end being
told: no timeout is set on it, so the generator waits until its client leaves (or
something breaks after all). A stream whose clean-up fails ends its body short
although its ending was sent: that client is cut off after a whole answer.

`RefinesResponse` maps this to `ChatResponse`: what is heard is `Given(r)`, the chunks
the proxy has forwarded of those the stream has sent; what is written and lost is what the
worker has published and what it published before the subscription took effect; the state is
`relay`, with everything before its end seen as open.
Channel, inbox, clean-up, pool and both HTTP connections are not seen.

### RateLimiter

One tenant: tenants share no key. Time is a count of ticks and the test
`prev * (1 - elapsed) + curr > limit` is multiplied out by the window, so nothing is
rounded. `count` and `expires` are the keys of the windows; `Call` reads the clock,
`Admit` or `Refuse` is the transaction with the decision on what it returned, any
time later; `Fail` is a transaction that raised, applied or not. `retryAt` is what
`Retry-After` promised. `calls`, `grants`, `refusals` and `lag` (how many windows late
an INCR came) are history.

### HealthMonitor

`endpoints` and `registry` are the two dictionaries; `phase` and `timer` are the
loop; `check` is each `_check_worker` between sending its request, the worker's
answer and the write to the registry. `Answer` happens at the worker, `Record` and
`CheckFails` in the Control Plane. Today the loop alone calls
`register_worker` (for `worker-1`), and nobody `deregister_worker`: both are the
module's interface, modelled as calls any coroutine may make at any time. `silent` and `raced` are history.

### Engine, ChatAnswer

A text is a sequence of characters. `VLLMYields` folds `ReceiveOutput` over vLLM's
outputs, `MockYields` splits a response; `Answers` is what either may yield with the
text that is meant. `ChatAnswer` joins them to `ChatProxy`: the tokens of an answer
are an engine's, and what the client reads is compared with the text.

## 3. Runs

| run | instance | checks | outcome |
|---|---|---|---|
| `queue` | 2 workers, 3 requests (1 premium), limit 1, 1 fault; 550 thousand states | `TypeOK`, `OneHolder`, `AtMostOnce`, `HeldIsPending`, `NoOrphanWithoutFault`, `NoLossWithoutFault`, `RefinesLifecycle` | holds |
| `queue_order` | 1 worker, 3 requests (1 premium), limit 2, 1 fault, fair; 52 thousand states | `BoundedOvertaking`, `QueuedIsDelivered` | holds |
| `queue_reject` | 1 worker, 2 requests, limit 1, no fault | `RejectsOnlyWhenBusy` | violated |
| `queue_reclaim` | 1 worker, 1 request, 1 fault, fair | `RestartRecovers` | violated |
| `stream` | 2 streams, answers of 2 and 0 tokens, pool of 2, 1 fault; 1.1 million states | `TypeOK`, `StreamWellFormed`, `DoneMeansSuffix`, `ClosedMeansAnswered`, `GaugeExact`, `PoolAccounted` | holds |
| `stream_prefix` | 1 stream, no fault | `DoneMeansAll` | violated |
| `auth` | 2 tenants (both seeded), 2 keys, 2 configurations, 2 requests, 1 fault; 880 thousand states | `TypeOK`, `NothingFromBefore`, `StuckForGood`, `StartsSeeded` | holds |
| `auth_revoked` | 1 tenant, 1 key, 1 request, no fault, fair | `RevokedKeyLeavesCache` | violated |
| `prompts` | 1 tenant, 2 prompts and none, 3 requests, TTL 2, fetches of up to 1, 1 fault; all conversations of up to 2 messages of three contents, one of them not plain; 230 thousand states | `TypeOK`, `FreshWhenServed`, `TenantInstructs` | holds |
| `chat` | 1 request, an answer of 2 tokens, pool of 1 and another command, 2 faults and 1 connection broken or lost, fair; texts of up to 3 characters for the engines; 74 thousand states | `ProxyTypeOK`, `EndIsMarked`, `UnavailableMeansUnsent`, `TextArrives`, `RefinesResponse`, `ResponseEnds`, `StreamEnds` | holds |
| `rate` | 3 clients, limit 2, windows of 3 ticks, 9 ticks, 2 extra (failed calls, early retries, new calls); 1.3 million states | `TypeOK`, `WindowBound`, `SlidingBound`, `RetriesSuffice`, `RefusedOnlyBusy` | holds |
| `health` | 2 workers, a sleep of 2 ticks, checks of 1, 1 fault, fair; 136 thousand states | `TypeOK`, `HealthyIsRecent`, `GhostsAreRaced`, `DownIsReported` | holds |

What the passing runs say of the code:

* A job is in the hands of one worker at most and started at most once: the
  price is that a crashed job is never retried. A job in hand is in the pending
  list unless an XADD trimmed its entry.
* Without a fault nothing stays pending behind the workers' backs, and an entry
  still in its stream was not skipped. Both fail as soon as one call does, which
  is why they say "without a fault".
* A waiting premium request is overtaken by one standard job per worker (the
  blocking poll of the standard stream) and one per failed call.
* A waiting entry is delivered as long as some worker's loop lives. It is not
  enough that the process answers `/health`.
* The chunks of a stream are consecutive tokens and at most one ending; `[DONE]`
  comes after every token published since the subscription took effect; the
  response ends whatever the worker does; the gauge is exact even when the
  clean-up fails; connections are lost one per fault or disconnect.
* No two tenants share a key. What a gateway lets in was in the table at some time
  since that gateway's start, so a restart is what revokes a key. A Control Plane
  that serves has every default tenant, deleted ones included; one that finds a
  default tenant missing and its key taken never serves again.
* A prompt that is not a fallback was current less than the TTL plus one fetch
  ago, although a slow reply may overwrite a newer entry. The bound is exact: with
  one tick less the run has a counterexample. A fallback may be of any age.
* Once a tenant has had a prompt for that long, a request that is not a fallback is
  queued with a recent prompt of the tenant as what every system message says, and
  with the rest of the conversation as it was, although clients may send system
  messages of their own. Where no content has a line that begins with a tag, the
  text the engine gets reads as these messages and no others; where one has, `build_prompt`
  does not tell that line from the first of a turn, and nothing is claimed.
* A response that is not cut off has all of its stream and, last, a `[DONE]`, an error or the timeout, however
  proxy, stream and worker failed. It does not say what the ending is worth: `[DONE]`
  also ends an answer whose first tokens were lost (`stream_prefix`), and one whose engine failed
  without a message. A client told "Inference service unavailable"
  has nothing queued, so repeating the request runs nothing twice. That is said of
  `ConnectError` only: a cut response says nothing about what was queued.
* To its client a response is one of `ChatResponse`: worker, channel and gateways together lose a first
  part of the answer at most; in no step is a token repeated, out of order or heard after an end,
  and no answer goes on after `[DONE]`.
* Once the Inference Gateway has answered, a response ends, however worker, stream and
  connections fail, unless the connection between the gateways is lost without a sign: the proxy sets no
  timeout, the deadline of the stream behind it is what ends a response, and it
  cannot reach a client through a connection that is dead. A stream that cannot start is cut off at
  once. Before `infer` has answered nothing is claimed: it awaits Redis, and neither
  it nor the proxy sets a timeout.
* A window admits at most the limit of the calls that read the clock in it, unless an
  INCR comes two windows late; two windows in a row, and so any stretch as long as a
  window, less than twice the limit, unless an INCR comes after its window. A
  call is refused only if the tenant made more calls than the limit in two windows.
* Clients that wait as long as they are told, with fewer than `2 * Limit` of them and
  nobody else calling, are refused at most one time more than there are clients
  beyond the limit. The proviso is needed: refused calls are counted, and `Limit`
  clients left over from a rush of `2 * Limit` can keep each other out for ever by
  retrying in step (without the proviso, four clients with a limit of 2 and two with a
  limit of 1 give counterexamples).
* A registered worker reported healthy answered, or was registered, at most a sleep and
  two checks ago, exactly (a tick less has a counterexample). A worker that is not
  registered is listed only if it was deregistered with a check in flight; that ghost
  stays, healthy if its last answer was good. A worker that stays down is
  reported for good.
* A client that reads `[DONE]` has what the engine yielded (all of it, if it did not fail), but for the
  tokens lost before the subscription: channel and gateways neither lose, repeat nor reorder a
  part of it. The deltas of `VLLMEngine` join to the text because each output is
  assumed to extend the one before, as vLLM's do; what the code would do
  otherwise is not asked.

The violated ones are statements of the repository's comments and tests that the
code does not keep:

* `queue_reject`: `router.py` compares XLEN, which counts acknowledged entries,
  with the limit. After about a thousand requests of a tier have been admitted,
  the tier is refused with 503 for good, with nothing waiting or running.
* `queue_reclaim`: entries claimed with XAUTOCLAIM are counted in a log line and
  never processed or acknowledged.
* `stream_prefix`: tokens published before the subscription are lost and the
  client still reads `[DONE]`.
* `auth_revoked`: a deleted tenant's key is let in for the life of the gateway;
  the periodic refresh `auth.py` mentions does not exist.

**Bounds.** Three requests with a limit of 1 make admission race admission
(two pass XLEN together), trimming and rejection happen, and let a request wait
behind two others; two workers make sharing and reclaiming from each other
possible, and one fault reaches every failure action with every interleaving
after it. The order run needs one worker only: what it counts is per worker, and
the theorem `PremiumFirst` covers any number. Two tokens are the shortest answer
with a hole in it; two streams and a pool of two (or one) let the pool run out
before, between and after the subscriptions, with a third user of the pool
(`MaxCommands`). `MaxFaults` counts crashes, shutdowns and failed calls. Two
keys and two tenants are what a key can be taken from, and one fault is the
restart that makes a blocked start-up or an emptied cache; three requests let two
fetches overlap and a third read what the slower one left behind. A TTL of 2 has
an age that is neither new nor expired; two messages are the fewest that a system
message can be before, after or both of; a content is one line, two, or two of which
the second has a tag, and a prompt is one line or two, which is what tells the first
line of a turn from the others. In `chat` two faults are a failing engine and
a failing publish, or a broken subscription and a failing clean-up, and `MaxBreaks`
adds a break between the gateways, or a connection lost without a sign; the only connection is taken by the stream or by
the other command. In `rate` three clients are one more than the limit; a window of
three ticks has a call before, in and after the middle, nine ticks reach the fourth
window (so an INCR can be two windows late and a client be refused three times) and
two extras let a client come back. `RetriesSuffice` was besides explored
with five clients and limits of 3 and 4. In `health` one worker is the loop's own and the other
comes and goes; the round that waits for one checks the other. The workers and the two standard requests
are symmetric in `queue`, the requests in `auth` and `prompts`, the clients in `rate`; the liveness runs
use no symmetry. Deadlock
is not checked: with finitely many requests and faults, a system whose streams
are over and whose loops have ended has nothing left to do.

**Fairness.** `JobQueue!FairSpec` is weak fairness of the steps a running
worker's loop takes by itself (`WorkerStep`): asyncio schedules the task, a
Redis call answers or raises (a raise is a fault, and the loop goes on or is
`dead`), `block` is one second, and `engine.generate` is bounded by
`max_tokens`. `Boot` is not fair (the compose file restarts nothing), nor is
anything of the gateway or of the clients. `TokenStream!FairSpec` is weak
fairness of a stream's own steps: the event loop runs the generator and its
clock advances; worker, Redis' delivery and client promise nothing.
`ChatProxy!FairProxySpec` adds the proxy's own steps, which stop where its
connection is lost without a sign (`ProxyStep`); that Redis answers a stream's commands or
raises is assumed as before. Of `infer` nothing is assumed: that a posted request
arrives and is answered (`Post`) is not fair, because neither the proxy (`timeout=None`)
nor the Redis client of `infer` has a timeout. Worker, faults and client promise nothing.
`HealthMonitor!FairSpec` is weak fairness of what the loop does by itself and of the
clock: httpx raises after its timeouts, so a worker that says nothing is a check that
fails; workers promise nothing. `TenantAuth!FairSpec` is weak fairness of a request's lookup and reply: httpx
raises after its timeout. That is all that runs by itself in `auth.py`. Delivery of
a standard request rests on the finite set of requests too: a lasting flow of
premium requests starves the standard queue, by design ("Always drain
queue:premium before queue:standard").

Every property of a passing run has a mutant: a plausible bug (`Mut...` beside the
action it changes) under which TLC finds the property violated.

## 4. Proofs

For every set of requests and finite set of workers, every limit and any number
of faults (`JobQueueProofs`):

* `TypeCorrect`, `Invariance`, and from them `NeverShared` (`OneHolder`),
  `NeverTwice` (`AtMostOnce`), `HeldStaysPending` (`HeldIsPending`). `OneHolder`
  is not inductive: that a delivery cannot hand out a job somebody holds needs
  `IdsInOrder` (ids are unique and grow) and `BehindCursor` (everything held or
  started is at or before the group's cursor, which only moves forward).
  `AtMostOnce` needs `InspectedIsFresh` besides.
* `PremiumFirst` (`BoundedOvertaking`). The invariant `WaitingIsPassedLess`
  charges each overtaking to a worker at the standard queue: a delivery takes
  one of these workers away and adds one to the count; a worker gets there only
  by finding the premium queue empty or by a fault. `LoopStartsOver` says that
  every other way out of a job leads back to the premium queue.
* `NothingOrphaned`, `NothingLost`: from `ServesWithGroups` (no request is served
  before both groups exist) and `RunningIsStarted`.
* `Refinement` (`RefinesLifecycle`): each action maps to a step of
  `RequestLifecycle` or to a stutter, using `IInv`.

For every finite set of requests, answer lengths, pool size and number of faults
(`TokenStreamProofs`):

* `TypeCorrect`, `GaugeCounts`, `PoolCounts`: gauge and pool as cardinalities of the
  sets of streams that hold them; one lemma per set says how it changes when a
  stream changes state.
* `Invariance`, and from it `NoHoles` (`StreamWellFormed`) and `DoneIsComplete`
  (`DoneMeansSuffix`): the chunks sent and the events not yet read form one
  sequence `missed + 1, missed + 2, ...` that ends at `produced` while the
  subscription lives (`SentInOrder`, `InboxInOrder`), and a completion among them
  has all the tokens before it (`CompletionIsLast`).
* `AlwaysAnswered` (`ClosedMeansAnswered`), from `NoFaultAnswer`.

For any tenants, keys, configurations, default tenants, requests and faults
(`TenantStoreProofs`, `TenantAuthProofs`, `PromptCacheProofs`):

* The store's invariant `StoreInv` is proved once and kept by whoever extends it:
  `SeededSoFar` (the defaults start-up has passed are there) gives
  `DefaultsPresent` (`StartsSeeded`); `Blocked` (after a failed start some default
  tenant is missing, its key is taken, and start-up has not passed it) gives
  `NeverUpAgain` (`StuckForGood`), because only a serving Control Plane removes a
  row. It needs the defaults to be different tenants, as they are.
* `RestartForgets` (`NothingFromBefore`), from `AnswersHeld`: a reply on its way
  says what the table had since the gateway's start.
* `BoundedStaleness` (`FreshWhenServed`), for every TTL and fetch time: a prompt
  cannot be gone for longer than the entry that holds it has aged plus one fetch
  (`EntriesAge`), nor longer than the fetch that read it has lasted (`AnswersAge`).

* `TenantOnly` (`TenantInstructs`), for all conversations: an empty prompt cannot be
  served as fresh, because it is gone for the horizon; `InjectReplaces` and
  `InjectionInstructs` say what injection does with any list of messages. `PromptReads` is about
  the text of any plain messages: `JoinPlaces` finds every turn whole in the text, after those
  before it and with nothing between them, and `TurnLines` says that the first
  line of a turn has a tag and the others have none, so the tags are where the turns
  begin. The text is a fold over the messages, unfolded as described for `TextIsDelivered` below.

For any requests, tokens, pool and faults (`ChatProxyProofs`):

* `Implementation`: every step of the composition is a step of `TokenStream` or leaves
  it alone, so what `TokenStreamProofs` proves holds behind the proxy.
* `ProxyInvariance`, and from it `CompleteIsMarked` (`EndIsMarked`) and
  `UnavailableIsUnsent` (`UnavailableMeansUnsent`). The strengthening `MarkedAt` says
  that a stream on its way out that was not cut short has its terminal chunk
  already, whatever `sse` state it is in, and `UnsentAt` that nothing can post for a
  relay that gave up before posting. `DoneIsForwarded` joins both gateways: a
  complete response that ends in `[DONE]` has every token since the subscription.
* `ResponseRefinement` (`RefinesResponse`): the variables that are seen change in four ways
  (`WriteStep` for a publication, `ForwardMaps` for a chunk, `MoveMaps` and `RelayMaps` for
  where the response is), and every step of the composition is one of these or is not seen.
  `WrittenInv` is the strengthening: nothing is published after a `[DONE]` the client
  has. `NextChunk` says that a chunk about to be forwarded is the next token, a `[DONE]`
  at the end of the answer, or a failure; a client that is told "unavailable" will have nothing
  published for it because of `UnsentAt`.
* `TextIsDelivered` (`TextArrives`), for all alphabets, texts and outputs: `AllTokensReceived` says
  that with nothing lost the tokens heard are those published, in order; `DeltasJoin` that the
  deltas of outputs which extend each other join to the last of them, `MockJoins` the same
  of a response cut at its spaces. Both are inductions over data. They do without an induction
  rule that takes a predicate: the least counterexample exists because `<` is well founded on
  the naturals (`LeastNumber`), and the folds are unfolded to the functions they choose
  (`FoldExists`, `ChainExists`).

For any clients, limit, window and bounds (`RateLimiterProofs`):

* `WindowLimited`, `SlidingLimited`, `RefusalsJustified`. The limiter's bounds are not
  inductive: `Counted` ties a counter and the calls still in flight to the calls
  made, `KeysLive` says a counted window's key outlives the window after it, and
  `GrantsCounted` that an admitted call is in its counter as long as no INCR came two
  windows late. Division appears only in `WindowFacts` and `Ordered`, products only in
  `Unweighted` and `Crowded`.
* `WaitersServed` (`RetriesSuffice`). Every refusal of a client is paid for by a call that was
  served: whoever is refused finds `Limit` calls served already (`CallsServed`), and
  from then on each window serves somebody before the next refusal, with
  one exception, the window after a first rush (`RushOver`: a second rush would take
  more clients than are left). `Credit` counts the served calls beyond the
  limit, and one for that window; `Paid` says no client was refused more often than
  `Credit + 1`, and `PaidAhead` that those whose turn is still to come have one to spare. All
  of it holds while nothing fails or is late (`Calm`), which is when the property says anything.

For any workers, interval and check time (`HealthMonitorProofs`):

* `ReportsAreRecent` (`HealthyIsRecent`): `Allowance` says, for each phase of the loop,
  how long a worker reported healthy may have been silent; it grows with the timer
  and is never more than the bound. `OnlyRacesLeaveGhosts` (`GhostsAreRaced`), from
  `ChecksRaced`.

Assumptions: `Premium` is a subset of `Requests`, `None` is neither a request nor
a worker, `Workers` (in `TokenStream`: `Requests`) is finite, the bounds are
natural numbers and the queue limit and the pool are not empty; in the store,
`None` is none of the values it is compared with and there is a default tenant; the
limit, the window, the interval and the check time are positive; a space is a character and the
length of a text is a natural number.

The bounds `FetchTime` on a fetch and `CheckTime` on a health check are assumptions:
httpx limits each phase of a call (connect, write, read) to two or three seconds,
not their sum.

Only model-checked: `QueuedIsDelivered`, `StreamEnds`, `ResponseEnds` and
`DownIsReported` (liveness under fairness is outside the prover's reach), and of course
the violations. Every other property of a passing run has a theorem.

## 5. Not modelled

* Redis losing its data (the compose file gives it no volume) or restarting.
* The empty-payload branch of `poll_next_job`, and a payload that fails
  validation: `enqueue_request` writes a serialised model only.
* Heartbeat comments, chunk formatting, logging, counters other than
  `active_sse_streams`.
* More than 100 entries in one XAUTOCLAIM: the code makes one call, and the model
  lets it claim any subset.
* A 500 of `infer` after its XADD was applied: it is in `JobQueue` (`EnqueueFails`), and
  not in `TokenStream`, where a request is either refused, for whatever reason (a full
  queue, a failed command, no free connection), or queued.
* Several API Gateway processes share the limiter's keys: clients stand for their
  coroutines. Clocks that differ between them are not modelled.
* A change of `rate_limit_rps` while calls are counted.
* An exception of a health check that is no `RequestError`, which `gather` swallows.
* Which canned response `MockEngine` picks, and its pauses.
* `shared/metrics.py` declares counters; `api_gateway/models.py` and
  `inference_gateway/models.py` declare data; `tests/` and the deployment files were
  read for what they promise and fix.
* `Fastino/` is a checked-in virtual environment.

## 6. Order of the development

The queue with its abstract life cycle came first, then the token stream, the
tenant store and its two caches, the proxy that composes both gateways, the rate
limiter, the health monitor and the engines: in the order of how much of a request
depends on them. Each has one passing run that checks its safety, and its liveness
where the code promises any, and a violation where a comment or a test says what the
code does not do. What is left is small:

1. Runs that state what `blank` errors and the API Gateway's failed lookups do
   against the comments beside them (both are modelled).
2. One composition of `JobQueue` and `TokenStream`, so that expiry and reclaiming
   decide whether a stream ever gets an event. Here a job "may never be taken".
