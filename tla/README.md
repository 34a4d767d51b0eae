# TLA+ models of the knoway gateway

These modules model the concurrent and stateful parts of the knoway LLM
gateway (`src/`). A request travels this path:

1. A listener (`pkg/listener`) accepts the request and runs its request
   filters.
2. The route manager (`pkg/route/manager`) matches a route.
3. The route's fallback loop (`routeDefault.HandleRequest`,
   `unnamed/part_004`) asks a load balancer for a cluster, calls it through
   the cluster manager (`pkg/clusters/manager`), and retries on error.
4. For a stream, the listener pumps the chunks of the upstream response
   (`pkg/types/openai/chat_completions_stream.go`) to the client. A
   goroutine started by the cluster (`pkg/clusters/cluster`) waits for the
   end of the stream and then runs the response-complete filters.
5. Request filters include the usage reporter (`unnamed/part_006`) and the
   local token-bucket rate limiter (`pkg/filters/ratelimit/local.go`, with
   the filter itself in `pkg/bootkit/bootkit_test.go`).

The lifecycle kit (`unnamed/part_005`) starts and stops everything. On a
stop it runs the listener's `Drain` and the gateway's `server.Shutdown`
concurrently (`unnamed/part_009`, `unnamed/part_012`). The
Kubernetes controller (`internal/controller`) adds and removes clusters and
routes at run time.

Each model keeps the control of its code: every state change, guard, early
return and error path, in the code's order. Data is abstracted to what the
properties tell apart: an upstream line becomes its kind, a cluster becomes
a model value, and time becomes ticks.

## Modules

| Module | Code | State | Actions |
|---|---|---|---|
| `RouteFallback` | `part_004` 94-197, `clusters/manager/cluster.go`, `route/manager/manager.go` 112-151 | cluster registry, per request `pc`, `retried` (retriedCount), `attempts`, `history` of outcomes | `HandleRequest` (MatchRoute and route request filters), `Attempt` (one loop iteration), `UpsertAndRegisterCluster`, `DeleteCluster` |
| `FallbackPolicy` | spec 4.2 (the route's promise; no code) | per request `status` (waiting, calling, answered) and `calls`, each a success or a failure | `Admit`, `Refuse`, `Call` (a call, answered on success or when the budget of max_retries+1 calls is used up) |
| `StreamPipe` | `chat_completions_stream.go` 265-364, `listener/common.go` 96-172, `cluster.go` 150-196, `middlewares.go` 102-129, `part_006` 79-187 | upstream body and read position, `hasErrorPrefix`, `r.Usage`, the EOF signal, listener pc, client connection and received events, usage reports, `rMeta` usage, completer pc | `Pump` (NextChunk with its deferred OnChunk callbacks, then the listener's handling), `Complete` (the goroutine waiting on WaitUntilEOF), `Disconnect` (the client) |
| `LoadBalancer` | `route/manager/manager.go` 195-356 | policy, weights, `current`, request counters, per caller pc and found index | `WRRDraw`/`WRRStore` (round-robin Next split at the atomic store), `LRRead`/`LRInc` (least-request Next split between the counter reads and the Inc), `Finish` |
| `BootKit` | `part_005` 188-387, `main` (`part_011` 58-134), the gateway hook (`part_012` 24-88) | each runnable's behaviour, the mutex owner, selfCtx cancelled, Start's pc, runnable goroutines, appended hooks, OnStart goroutines, per round (Start's mayStop, Stop) the OnStop goroutines and whether the caller still waits, OnStop counts, signals, os.Exit | `StartBegin`, `RunnableReturn` (with lifeCycle.Append and the unbuffered error send), `RunTimeout`, `RunDone` (callStartHook and the signal goroutine), `HookStartReturn`, `ServeReturn` (Start's select and deferred mayStop), `StopHookReturn`, `RoundDone`, `RoundTimeout`, `Signal`, `StopCall` |
| `GatewayShutdown` | `middlewares.go` 131-223, `part_009` 35-97, `part_012` 53-88, `part_005` 170-173, 220-236, 362-378, `listener/common.go` 22-95, `part_006` 477-481 | per request its place in the middleware chain and its answer, the cancellable map, the cancelled contexts, `drained`, the listening socket, the auth filter's gRPC connection, the OnStop goroutines of Drain, of the auth filter and of Shutdown, the drain timer, whether the stop round is over, a clock in 15 s ticks from the signal | `Arrive` (WithCancellable and Add, or a refused connection), `Check` (WithRejectAfterDrainedWithError), `Authenticate` (the OnRequestPre filters), `Finish` (the handler returns, a Hung one only once cancelled), `Return` (Remove), `BeginStop`, `DrainSet`, `CancelAll` (the AfterFunc), `DrainReturn`, `ShutdownBegin`, `ShutdownReturn`, `ConnClose` (the auth filter's OnStop), `RoundEnd` (waitDoneOrContextDone), `Tick` |
| `AuthFilter` | `part_006` 505-705 | none: operators used by `GatewayShutdown` | `OnRequestPre` (BearerMarshal, APIKeyAuth's reply and the status-code switch) as the verdict a request is answered with; `OnCompletionRequest`/`OnImageGenerationsRequest` (IsDenied, IsGranted, CanAccessModel over a segment-wise `GlobMatch` standing for doublestar.Match, a malformed glob counting as no match) as the verdict of the per-type model-access check |
| `ClusterCall` | `clusters/cluster/cluster.go` 98-187, `clusters/filters/config.go` 242-316, `types/openai/image_generations_response.go` 142-314, `types/openai/chat_completions_response.go` 29-117, `types/openai/common.go` 66-143 | none: operators used by `RouteFallback` | `ClusterCall` (DoUpstreamRequest: content-type switch, body parsing, error detection, SetModel) for a chat completion or an image generation (with the metering policy's image fetch) as the outcome one upstream call gives the fallback loop |
| `Controller` | `part_010` 56-323, 429-468, 517-587, 623-659, `controller/modelroute_controller.go` 70-565, 568-573, 639-875, 991-996, `controller/backends.go` 117-141, `route/manager/manager.go` 50-110 | per backend (LLMBackend or ImageGenerationBackend) and ModelRoute the API object (exists, model name, valid spec, deletionTimestamp, finalizer, phase and conditions, for routes the targets and their statuses), the cluster registry, base routes, match routes, the three work queues, each worker's pending status write, a bound on user operations | `CreateBackend`, `EditBackend`, `DeleteBackend`, `CreateRoute`, `DeleteRoute` (the API server and the watch that enqueues), `ReconcileBackend`, `ReconcileImageBackend` (both through `HandleBackend`, each with its kind's queue, worker and validator) and `ReconcileRoute` (first Get, then the handler chain of `getReconciles` or `getDeleteReconciles` run by `RunHandlers`, which records a condition per handler through `SetStatusCondition` and stops at the first failure: finalizer, validator with the uniqueness loop, upstream or destination health, register or deleteRegister, finalDelete; then the phase). A route registers the clusters of its found targets (`ToRegisterRouteConfig`); the route manager's registries change through `RegisterBaseRoute`, `RemoveBaseRoute`, `RegisterMatchRoute` and `RemoveMatchRoute`, `WriteBackendStatus`, `WriteImageBackendStatus` (through `WriteStatus`) and `WriteRouteStatus` (second Get, status update, requeue) |
| `RateLimitFilter` | `bootkit_test.go` 1083-1318, `modelroute_controller.go` 164-197, 466-497 | the limiter of `RateLimiter` for the live route, the spec's limiter beside it (`specShard`, one bucket per key for the route's life), both answers to the last request, registrations | `OnRequest` (onRequest, findMatchingPolicy, allowRequest, buildKey, checkBucket into checkBucketLocal, and the spec's answer), `RouteReconcile` (the 30 s requeue of a Failed route, reconcileRegister, and a new filter with empty shards), `Cleanup` |
| `RateLimiter` | `ratelimit/local.go` 27-184, constants in `bootkit_test.go` 1043-1054 | clock, a shard's buckets and lastAccessTime, history variables (`allowedN`, `createdAt`) | `CheckBucketLocal` (with initBucket, updateBucket, evictOldestBucket and tryConsume), `Cleanup` |

Every action models a whole handler. `Pump` covers one iteration of the
`pipeCompletionsStream` loop. That includes NextChunk's read, its
classification, the EOF signal, the usage filter in its defer, a panic and
its recovery, and the write. `CheckBucketLocal` covers the whole locked
section of `checkBucketLocal`. The operators each action uses are named
after the code (`InitBucket`, `UpdateBucket`, `EvictOldestBucket`,
`TryConsume`, `ScanFrom`, `LRScan`, `NextChunkResult`, `NewChatCompletionStreamChunk`, `CoalesceMaxRetries`).
`PROJECT.json` maps every definition to the lines it translates.

The two loops of the load balancers are RECURSIVE operators: `ScanFrom`
and `LRScan`. `Ratio` models `float64(count)/float64(weight)` with IEEE
semantics: x/0 is +Inf, 0/0 is NaN, and NaN compares false. Token
arithmetic keeps the code's fixed point (precision 1000). Whole seconds
are computed with integer division of ticks.

## Runs

Each `MC*.tla` module gives the constants model values and small sets. Each
`.cfg` file selects one question. All runs finish in seconds.

| Run | cfg | Expect | What it shows |
|---|---|---|---|
| route_fallback | `MCRouteFallback.cfg` | pass | Two concurrent requests on a two-target route with `max_retries: 2`, while the controller upserts and deletes clusters. The loop implements `FallbackPolicy`, the route's promise, under the refinement mapping in `RouteFallback` (`FallbackPolicySpec`): each call after the first follows a failure, a success is the answer at once, a failure (a cluster removed between attempts included) is retried until max_retries+1 calls are used up, and every request is answered. The bound of at most max_retries+1 calls follows from the refinement, so `RetriesBounded` is checked only where no max_retries is set. |
| route_fallback_no_max | `MCRouteFallbackNoMax.cfg` | violation | A fallback block without max_retries: the loop never bounds its retries. |
| stream_pipe | `MCStreamPipe.cfg` | pass | Every protocol-conformant upstream of up to 3 lines, with and without the usage filter, and a client that may leave at any point. The client receives exactly the upstream's non-empty events and [DONE], in order, or a prefix of them if it left (`ClientStreamFaithful`). The access log sees the final usage (`AccessLogSeesUsage`). The usage filter reports the final usage (`UsageReported`). The completer runs when the client stays (`CompletedWhileClientStays`). |
| stream_leak | `MCStreamPipeLeak.cfg` | violation | After a disconnect, a failed write leaves the EOF signal unfired, so the completer never runs (`EventuallyCompleted`). |
| load_balancer | `MCLoadBalancer.cfg` | pass | Both policies, two concurrent callers, and every weight vector of 2-3 targets with weights 0..2. A round-robin draw from any start index picks server i for exactly W(i) of the draws (`DrawDistribution`). Least-request counts stay within one pick per caller of the weighted share (`WeightedShare`). |
| rate_limit_filter | `MCRateLimitFilter.cfg` | pass | A route's filter with an exact rule, a prefix rule and a catch-all rule on the user id. Four API keys and two user ids charge a shard of two buckets, and the Failed route is re-registered every 30 s. Across eviction, expiry, re-creation, cleanup and re-registration, no bucket admits more than its capacity plus its refill since creation (`NoMoreThanEarned`). No bucket holds more tokens than its capacity (`TokensWithinCapacity`, the spec's bucket invariant). updateBucket would break it under a changed limit, because it keeps the tokens. The filter never changes a key's limit, though: the first matching policy is the same on every request, and new rules come with a new limiter. |
| rate_limit_reset | `MCRateLimitFilterReset.cfg` | violation | One client under one request per minute. The 30 s requeue of a Failed ModelRoute registers a new route with an empty limiter, so the client's next request is admitted 30 s after the last. The spec's bucket, which lives until it expires, denies it (`DecidesAsSpec`). |
| bootkit | `MCBootKit.cfg` | pass | Two runnables with every combination of behaviours (fail or succeed, append a hook or not, OnStart returns, fails or serves until OnStop, OnStop succeeds or fails), a Stop caller and two signals. No OnStart runs unless every runnable succeeded (`HooksStartOnlyAfterRunnables`). When Start returns, OnStop has been called on every hook whose OnStart ran (`StartedHooksStopped`). A signal always ends the process (`ShutdownOnSignal`). |
| gateway_shutdown | `MCGatewayShutdown.cfg` | pass | Three requests, one a stream whose upstream never answers, arrive before and during a stop, each authenticated by the auth service, which may be unavailable. When the drain timer fires no request is authenticated or served with a live context (`CancelReachesAll`). The stop round ends with Shutdown returned nil and every accepted request answered, well inside the stop timeout (`StopGraceful`). |
| controller | `MCController.cfg` | pass | An LLMBackend, an ImageGenerationBackend and a ModelRoute over two model names, with up to three creates, edits and deletes interleaved with both workers. Every deleted object is eventually gone (`DeletionCompletes`). A backend whose spec is invalid is eventually reported Failed, although the status is written onto an object the user may have changed since it was read (`InvalidReportedFailed`). |
| controller_served | `MCControllerServed.cfg` | violation | Once users stop, the registries should settle on what the objects declare: every valid, unique backend a registered cluster, every cluster and every match-route target the model name of an existing backend (`RegistryFollowsObjects`). TLC's shortest counterexample is a rename: the old name's cluster stays registered for good. Two more ways to break it, each confirmed by TLC with renames excluded: deleting a duplicate that validation rejected removes the cluster the first backend owns, and that backend is never requeued; deleting a route's target backend leaves the Healthy route's match route pointing at it, because nothing watches backends for the route. |
| rate_limiter_expiry | `MCRateLimiterExpiry.cfg` | violation | A re-created bucket has no last-access time. Eviction then deletes `""`, and the shard holds more than maxBucketsPerShard buckets (`BucketsBounded`). |

Each finding behind a violation run is described in `PROJECT.json`
("findings"). Each property of a passing run has a mutant: a plausible bug
in the code's translation that makes TLC report the property violated.

### Bounds

- **RouteFallback.** Two requests and two clusters are enough for one
  request to see a cluster removed while the other retries. A max_retries
  of 2 gives three calls, so both the last retry and one past it happen.
  `MaxAttempts` (6) is never reached when retries are bounded. It only cuts
  the unbounded run.
- **StreamPipe.** Three lines are enough for a data line, a usage line and
  the line that ends the stream, or for two usage lines, in every order.
- **LoadBalancer.** Five picks by two callers are enough for both callers
  to read the counters before either increments, and more than once.
- **BootKit.** Two runnables are enough for one to fail or time out while
  the other has already appended its hook, and for one OnStop to fail
  while the other runs. Two signals reach the forced exit. Start returning
  ends the process, so the runs allow final states.
- **Controller.** Two backends over two model names are enough for a
  duplicate name, a rename and a conflict that resolves. The pass run
  makes one of them an ImageGenerationBackend, so both backend
  reconcilers run; the served run makes both LLMBackends, so the
  uniqueness check has something to reject. One route gives
  the route reconciler targets that appear and vanish. Three user
  operations (`MaxOps`) cover create, create-duplicate and delete, or
  create, rename and delete; four operations take several minutes.
- **RateLimitFilter.** One-second ticks and the default one-minute window
  make the 30 s requeue fall inside a window. Four calls are enough to
  drain a bucket, re-register and call again, or to fill the two-bucket
  shard and evict. Keys `a`, `ab`, `b` and none separate the exact rule,
  the prefix rule and the fall-through to the user id.
- **GatewayShutdown.** Three requests give one served before the stop,
  one accepted while Drain and Shutdown race, and one refused; the Hung
  one needs the drain's cancel. 15 s ticks are the drain wait; the stop
  timeout is four of them. Every client sends a well-formed bearer token;
  the auth service answers OK or Unavailable, which separates a request
  the filter lets through from one it answers with an error.
  A missing header or other status codes only pick another error name.
- **RateLimiter.** Three keys against a two-bucket shard force eviction.
  Two TTL pauses in six calls give expiry, re-creation and cleanup.

### Refinement

`FallbackPolicy` states what a route promises a client, with nothing of
the registry, the load balancer or the retry counter. `RouteFallback`
instantiates it (`Promise == INSTANCE FallbackPolicy WITH ...`) and maps
its state onto it: `pc` becomes the request's status, and the first
`attempts` outcomes of `history` become its calls, each "ok" or "error".
The abstract budget is `PromisedRetries + 1`. The `route_fallback` run
checks `Promise!Spec`, fairness included, as the property
`FallbackPolicySpec`. Without a max_retries the code has no budget, so the
`route_fallback_no_max` configuration would violate it; that run checks
`RetriesBounded` only.

### Fairness

- **RouteFallback.** Each request runs in its own goroutine, so both request
  actions are weakly fair per request. The controller gets no fairness: it
  may do nothing.
- **StreamPipe.** The listener's pump and the completer goroutine are
  weakly fair. The client is not obliged to disconnect.
- **BootKit.** Every goroutine (runnables, OnStart and OnStop hooks, Start
  itself) is weakly fair. So are the start and stop timeouts: the timer
  fires once its time is up. Signals and the Stop caller come from outside
  and get no fairness.
- **Controller.** Each of the three reconcilers has one worker. Its workqueue is FIFO and
  a Failed object is requeued after 30 s, so an object that stays queued
  is reconciled eventually even while another object is requeued again and
  again: strong fairness per object for the reconcile actions, weak
  fairness for the status write that follows. Users get none.
- **RateLimitFilter.** Requests and reconciles come from outside. Only
  safety is checked.
- **GatewayShutdown.** Every goroutine (request handlers, Drain, the
  timer, the auth filter's conn.Close, Shutdown, the stop round) is weakly fair and time passes. Steps
  that take microseconds are urgent: no 15 s tick passes while one is
  enabled. A handler that is not Hung may take any number of ticks.
  Clients and the signal get no fairness.
- **LoadBalancer and RateLimiter.** Only safety is checked, so no fairness
  is assumed.

## Disagreements not run separately

- The auth filter's OnStop hook closes its gRPC connection at once,
  concurrently with Drain. A request accepted before the drain whose
  APIKeyAuth call comes after that is answered with an internal error,
  not given the drain's 15 s. `GatewayShutdown` reaches this state:
  BeginStop, ConnClose, then Authenticate gives outcome `rpc_error`.

The model also shows the following divergences from the spec. Each one is
listed as a hazard in `PROJECT.json`.

- A failing OnStop makes waitDoneOrContextDone return at once, so Start
  returns and the process ends while other OnStop hooks still run. The
  spec says stop errors do not short-circuit other hooks. `BootKit`'s
  `GracefulStop` states the promise, and TLC finds it violated with two
  serving hooks, one of which fails to stop. In production only the
  gateway's Shutdown fails, and only at the stop deadline.
- Drain and Shutdown run concurrently, so Shutdown closes the listening
  socket at once. New clients get a refused connection during the drain,
  not the 503 the spec's drain contract promises.
- A stream that ends with EOF without [DONE], or after an error event,
  sends `data: null` to the client.
- A limit decrease leaves tokens above capacity.
- Refill drops the fractional second, so a drained key can be denied for
  longer than one window.
- A response carrying an error body is turned into an error by the
  cluster manager and retried, while the spec retries only failed calls.
  `RouteFallback` retries it, as the code does.
  The outcomes `RouteFallback` draws from are those `ClusterCall` gives
  for every abstract answer, so the loop sees exactly the code's
  classification, including three surprises in it: a failed answer
  `{"object":"error","message":""}` with a `model` key is a success; a
  successful JSON answer without a `model` key fails `SetModel` and is
  retried after the upstream finished the generation; an event-stream
  answer is a success whatever its status.
  For an image generation with a metering policy that sizes from the
  output, a failed fetch of a generated image makes the whole response an
  internal error, which the loop retries after the images were generated.
- `resolveUsage` with `size_from: Greatest` compares the request's
  resolution with the usage image's own size, which it has just set from
  the request, so the output size is never used; without a size in the
  request the usage is 0×0. The spec says Greatest takes the greater of
  the two. No module models the metered sizes; `ClusterCall` keeps only
  whether resolving them fails.
- `resolveHeaderFrom` takes a Secret's headers from `StringData`, a
  write-only field the API server never returns, so headers from a Secret
  are never sent. Header values are data and are not modelled.
- All-zero weights, which the ModelRoute validator accepts, make
  `rand.Int` panic. `LoadBalancer` models the panic; its run uses
  positive weights.
- An LLMBackend and an ImageGenerationBackend may share a model name:
  each reconciler checks uniqueness only within its kind, and both
  register the cluster and base route under the bare model name. Deleting
  either removes the cluster the other still serves. With
  `ImageBackends = {b2}` in `MCControllerServed.cfg`, no route and
  renames excluded, TLC finds `RegistryFollowsObjects` violated by
  exactly this trace.
- After a rename, the cluster and base route of the old model name stay
  registered; this is the `controller_served` trace. A ModelRoute is not
  reconciled when its target backends change, so its match route and its
  targets' statuses go stale.
- `buildRateLimitPolicies` fills the Prefix match from `Match.Exact`, which
  is empty on that branch. The resulting policy never matches by prefix.
  Its empty `GetExact()` matches requests that lack the identity, which
  then share one bucket. `RateLimitFilter` models this, and `DecidesAsSpec`
  fails on it with the mixed rules. The `rate_limit_reset` run uses a
  catch-all rule so that its trace shows the reset.
- A usage line that does not parse makes the usage filter panic inside
  NextChunk, and a JSON error body lands in the SSE stream. `StreamPipe`
  models it. The `stream_pipe` run leaves such lines out when the usage
  filter is on.
- `memoryRequestCounter.Desc` is a no-op (`And(-1)`), and `Done` targets
  `w.current`. Nothing in the route calls `Done`, so the model leaves it
  out.

## Not modelled yet

- **Other middlewares.** Access log, init metadata, options, request
  timer and response handler touch only the request's own metadata and
  response. The chat and image listeners are not under `src/`; the TTS
  listener stands for them.
- **Auth filter model matching, as a check.** OnCompletionRequest and
  OnImageGenerationsRequest are operators of `AuthFilter`: a segment-wise
  `GlobMatch` for doublestar.Match, IsDenied, IsGranted and the verdict.
  No run checks them. They hold no state, and no modelled request reaches
  them: the TTS listener, the only listener under `src/`, runs no
  type-specific filter. Checking them over every input would take a
  model of its own, with each input as an initial state. Globs inside a
  segment, such as `gpt-*`, are left out. The code skips a glob that
  doublestar rejects, in both lists: a mistyped deny rule denies
  nothing, and a mistyped allow rule grants nothing.
- **TTS provider adapters** (`cosyvoice/speech.go`,
  `speechservicev1/speech.go` and the other speech builders). They build
  and parse provider requests and hold no shared state. CosyVoice's
  DoSpeech is the one with concurrency: a reader goroutine on a
  websocket, two buffered channels and a select. It has no caller under
  `src/`: the HTTP path rejects the provider with
  ErrWebSocketOnlyProvider (`openai/request.go` 123). Its select does not
  watch the request context, which is used only to dial. A caller that
  gave it the listener's request would find that Drain's cancel does not
  end a request whose upstream stays silent. `GatewayShutdown`'s Hung
  request, in contrast, returns once cancelled.
- **Error statuses.** The error constructors (`object/errors.go`) are
  data. NewErrorMissingModel answers 404, where the spec's HTTP surface
  says 400 for missing_model. No modelled path produces missing_model,
  so no run shows this.
- **Out of reach.** Request building, the image and TTS response
  adapters, the JSON utilities and the error constructors are data
  transformations without concurrency. The chat-completion response path
  is modelled by `ClusterCall`, at the level of what decides the outcome.
- **BootKit details.** Stop hooks start concurrently, in no order,
  although the spec promises reverse registration order. Nothing in
  production calls Stop. Stop needs the mutex that Start holds, so in the
  model it runs only before Start or after it returns.
- **Controller details.** Header and
  parameter conversion is reduced to a `valid` flag. A condition keeps its
  type and status; its message (the error text) is not modelled, so two
  failures of the validator for different reasons count as one status.
  Updates to the API server do not fail, and a reconcile's handlers run
  in one step on the object read by the first Get, so the force-delete
  branch after `graceDeletePeriod` is never needed. `reconcileFinalDelete`
  looks for a False condition whose type contains `delete-`, but the one
  delete condition is named `deleteRegister` and the conditions were reset
  at the start of the reconcile, so that check never fires; the model
  leaves it out. There is no route
  edit. `RouteFallback` still sees the controller only as upserts and
  deletes of its registry.
- **Out of scope.** The entry point and configuration loading are pure
  wiring.
