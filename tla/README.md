# A TLA+ verification of vpc-proof-agent

vpc-proof-agent is a Go binary that runs nine diagnostic probes on an EC2
instance and publishes what they found: as CLI commands with exit codes, and as
a REST API with a cached report, a run history and metrics. This directory
models the parts of it whose correctness depends on order, failure or time,
checks the models with TLC and proves the most important results with TLAPS.
Paths below are relative to the repository.

## 1. Inventory

| Component | State | Operations | Hard because |
|---|---|---|---|
| Report refresh service (`internal/api/handlers.go`, `internal/api/cache`) | cache item and expiry, `refreshMu`, gauges, history | `cachedData`, `resolvedData`, `refresh`, `Cache.Get/Put` | concurrent requests, forced and not; expiry between two looks; panics and lost clients inside the lock; three records per run |
| Probe runner (`internal/probe/runner.go`, `result.go`) | the report being built | `Run`, `runOne`, `OverallStatus` | per-probe, global and client deadlines share one error |
| History store (`internal/history`) | capped list, temporary file, file | `Append`, `List`, `Start`, `Flush`, `Load` | appends during a flush, failed writes, crashes, restarts |
| Serve lifecycle (`internal/cli/serve.go`, `internal/api/server.go`) | main goroutine, listener goroutine, error channel, signal, connections | `RunE`, `runServer`, `ListenAndServe`, `Shutdown` | two events in one select, bounded shutdown with requests in flight |
| Metadata client (`pkg/metadata`) | token, its expiry, mutex | `get`, `sessionToken`, `fetchTokenLocked`, `invalidateToken` | HTTP under a mutex, two views of one expiry, a retry that races with other callers |
| Probes (`internal/probe/*_probe.go`, `pkg/cidr`, `pkg/netutil`) | none | nine `Execute` methods | early returns, boundaries, retries |
| Clock skew probe (`internal/probe/clock_probe.go`) | none | `Execute`, `fetchServerTime` | truncation, latency, sign, thresholds |
| Diagnostics engine (`internal/diagnostic`) | the rule matrix | `Analyze` | gaps between the rules |
| check, diagnose (`internal/cli/diagnostics.go`, `app.go`) | one run, the process's history | `RunProbes`, `Diagnose`, exit code | two summaries of the same results |
| Rate limiter (`internal/api/ratelimit.go`) | token buckets by client, their last use | `Allow`, `limiterFor`, `pruneIdle` | a bucket is looked up and used in two steps while a cleanup goroutine drops idle ones; rounding |
| Middleware (`internal/api/middleware.go`, `server.go`) | the response's status | recovery, logging, limits, auth | the order of the layers; panics and cut connections pass some of them by |
| Metrics (`internal/observability/metrics.go`) | counters, histogram, gauges | `IncRequest`, `ObserveRequestDuration`, `SetProbeStatus`, `WritePrometheus` | two acquisitions of the lock per request; number formats |
| Configuration (`internal/config`, `internal/cli/root.go`) | one struct | `Load` (defaults, file, environment, flags), `Validate` | precedence, fields that are valid only together, overrides after validation |
| watch (`internal/cli/watch.go`) | a ticker | the loop | a select between the tick and the signal |
| Report (`internal/report`) | the output file | build, hash, render, write | a file that is truncated first; one more summary of the same results |
| status, echo, version, completions, validate-config (`internal/cli`) | none | printing | |

How they interact: every command builds one `App` (`buildApp`): the probes in a
fixed order, a runner, the rule engine and a history store. `check`,
`diagnose`, `status` and `watch` call the runner directly. `serve` adds the
cache, the metrics registry and the HTTP server; its request goroutines call
`refresh`, which runs the suite, analyzes it, sets the gauges, appends to the
history and fills the cache. The metadata client is shared by the probes of a
refresh and by `/info` requests. Every request passes request id, recovery,
headers, logging (which feeds the registry), limiter and authentication, in
that order, before it reaches a handler; the limiter's cleanup goroutine and the
history's loop run beside all of this.

What makes each part correct: the *refresh service* never runs the suite when
it need not, never answers with something older than what was there, answers
everybody, and leaves one story in cache, history and gauges; the *history
file* is never torn, never out of order, and loses entries only to newer ones;
*serve* serves, ends when told to, and calls an exit graceful only if it was;
the *metadata client* negotiates one token at a time and shows a caller a 401
only when there is no way round it; the *clock probe* does not mistake
truncation for skew, nor skew for truncation; the *limiter* decides as if every
client had one bucket for ever, and forgets clients in time; the *registry*
counts what clients saw; the *configuration* is the last word of each source and
valid when it is used; the *commands* agree with themselves about the same run,
and tell of evidence that was not written. The full list of what can go wrong, each at its
line, is `hazards` in `PROJECT.json`.

## 2. Modules

| Module | Models | State and actions |
|---|---|---|
| `ProbeResults` | statuses, results, summaries (`internal/probe/result.go`) | pure |
| `HistoryEntries` | `FromReport`, the capped append | pure |
| `ReportService` | the refresh service | `pc` per request: each action is a statement of `cachedData`, `refresh` or `Runner.Run` between two points where another goroutine can be seen; `holder` is `refreshMu` |
| `AtomicReport` | what callers are promised | a request is answered in one step, from a valid report or with a newer one |
| `HistoryStore` | the store, its flush loop and its two files | `Flush` is three actions (open and truncate, write, rename), each of which may fail; `Crash` may come between any two; `loads` says whether the program calls `Load` when it starts, `owns` is a history variable: the process has loaded or written the file |
| `DurableHistory` | what a history with a file is for | a list, a saved list that is replaced in one step, a crash that goes back to it, or to nothing in a program that does not recover |
| `TokenBucket` | what a client of the limiter is promised | one bucket per client that is never dropped; a request is granted when it holds a token |
| `RateLimiter` | the limiter and its cleanup goroutine | `limiters` is the map, `held` the bucket a request has looked up and not used yet; `LimiterFor`, `Allow`, `PruneIdle`, `Tick` |
| `Metrics` | the latency histogram and how its bounds are rendered | pure |
| `RequestPipeline` | the middleware chain, composed of `RateLimiter` and `Metrics` | `pc` is the layer a request is in; an action is what a layer does before or after the next one; `answer` is what is on the wire, `status` what the logging layer saw |
| `Configuration` | sources, `Load`, `Validate` | pure; a value is the class its parser or `Validate` puts it in |
| `ServeLifecycle` | `bootstrap`, `serve`'s `RunE`, `runServer` and the listener goroutine, `runWatch` | `main` and `listener` are the two goroutines' positions, `sources` what the file, the environment and the flags set |
| `ProbeSuite` | the grading of the nine probes | pure; `OwnStatus[p]` is the set of statuses `p` may return, computed from its grading over small inputs |
| `Diagnostics` | rule matrix and `Analyze` | pure |
| `CheckCommand` | `check`, `diagnose` and `report --output` | runs the suite probe by probe, records, reports; the output file is opened, written, and may be left torn |
| `ClockProbe` | one execution of the clock probe | true time, local offset, the Date header on its way |
| `MetadataClient` | concurrent `get` calls and the service as the client sees it | `pc` per caller, `tokenMu` the mutex, `deadline` the service's view of the tokens |

`MC*` modules instantiate them for TLC; `*Proofs` modules hold the proofs.
`ReportService` and `CheckCommand` compose the runner, the history list and
(`CheckCommand`) the probes, the rules and the report; `RequestPipeline`
extends the limiter and the histogram, `ServeLifecycle` the configuration. Operators whose names end in a
suffix such as `_Forced` and whose comment begins "Mutant:" are wrong versions
of the definition after them; the specifications do not use them, they are
there to show that a property notices the mistake.

Abstractions common to all: a run is named by its ordinal, which stands for its
time stamp; names, messages, hints and durations are left out except for which
of two messages a result carries; time is a counter of ticks. Operations that
hold a mutex for their whole body (`Cache.Get`, `Cache.Put`, `Store.Append`,
one `SetProbeStatus`) are single steps. `Analyze` and `report.Build` inside
`refresh` are pure and leave no step.

In the limiter a token is `Cost` units and a tick adds `Refill` of them, so that
a bucket may hold a fraction of a token as in `golang.org/x/time/rate`. Ages
stand for time stamps. The pipeline's handlers are one action that returns or
panics, with any status the properties tell apart; what the report handlers do
inside is `ReportService`. A histogram's bounds are in milliseconds.

A probe that panics is the only panic modelled in `ReportService`: the runner
has no recovery of its own, the deferred unlock runs and the middleware answers
500. A crash in `HistoryStore` is the death of the process, not of the machine:
written data is not lost afterwards, so the absence of an fsync is not
modelled.

## 3. Runs

| Run | Question | Bounds | Expected |
|---|---|---|---|
| `ReportService_records` | stampede, staleness, order of the history; do cache, history and gauges agree? | 3 requests up to symmetry, 2 probes that pass or time out, TTL 1, clock to 2, history of 2, one context ends | pass |
| `ReportService_answers` | is every behaviour one of `AtomicReport`, and everybody answered? | 3 requests, any may panic, TTL 2, clock to 2 | pass |
| `ReportService_timeout_text` | does "timed out" mean a deadline passed? | 2 requests, one client leaves | violation |
| `HistoryStore_disk` | the file of a program that calls `Load` and of one that does not: is it whole, in order, kept by the process that owns it, and the store a `DurableHistory`? | history of 2, 5 runs, 3 faults | pass |
| `HistoryStore_unloaded` | is the file kept across a restart without `Load`, which no command calls? (finding 1 masks this in `serve`) | 3 runs, 1 crash | violation |
| `ServeLifecycle_all` | sources, validation, start, listener failure, signal, graceful exit, watch | 2 clients; the file sets any field to any class, environment and flags one of a few fields, or nothing | pass |
| `ServeLifecycle_blocked` | does it serve, whatever the configuration? | 1 client, a disk path | violation |
| `CheckCommand_all` | exit code, history, evidence and hints | all outcomes and timeouts of nine probes | pass |
| `ClockProbe_grades` | false alarms and missed drift | 3 ticks a second, offsets to 13 s | pass |
| `MetadataClient_calls` | 401 only after a revocation; one PUT at a time; does every call return? | 2 callers, token lives 3 ticks, calls 2, clock to 7, two revocations, two failures | pass |
| `RequestPipeline_all` | does the limiter keep its promise, its memory and its advice; does the registry tell what clients saw? | 3 requests of 2 clients up to symmetry, a public infrastructure path and one of the API, a burst of 2, two thirds of a token a tick, idle timeout 4, cleanup every 2, a request or the cleanup delayed by 1 at most | pass |
| `RequestPipeline_labels` | has each bound its own series? | 1 request | violation |

Why the bounds are enough. Three requests are one that holds the lock, one that
waits with an outdated look at the cache and one that arrives meanwhile or is
forced; the clock reaches or passes the TTL in each of these runs, so items
are fresh, expired and exactly at their limit. Two probes let a scrape, a panic
or a lost context fall between two results and between two gauges. A history of
two entries evicts on the third run, and five runs replace the whole list twice
over. Three faults allow a failed write, a crash in the next flush and a failure
after the restart. A token of 3 ticks and calls of up to 2 let a token be
accepted by the client and refused by the service, be replaced by one caller
while the other is about to drop it, and be refused again after a revocation;
the proofs about the mutex hold for any number of callers. The lifetimes
satisfy the same assumption as the real ones: a token (six hours by default)
outlives the PUT that fetches it and the GET that uses it (two seconds each);
without it a caller can be refused twice by expiry alone. `CheckCommand` has no
bound: what the probes may return is the image of their grading. Three requests
empty a bucket of two; two thirds of a token make a refused client wait between
ticks; the idle timeout is over while a request of the same client may be
between look-up and decision, and buckets are dropped and made anew. No counter
is cut off: requests are single-shot, and ages end with the timeout, because the
cleanup runs at most `MaxStall` late. `MaxStall`, how long a goroutine may be
delayed between two statements (a request with the bucket it looked up, the
cleanup with its ticker fired), is a bound of the environment rather than of the check: the
promise does not hold of a request delayed for ten minutes. The action
constraint of this run lets time pass only while no request is inside another
layer than the limiter: those layers neither read nor write what a tick changes,
so the order of such a step and a tick makes no difference. Permuting clients,
requests and buckets is sound there: the run has no liveness property.
`ServeLifecycle`'s sources overlap in the fields that differ in how they are
parsed, checked or used; a field that is set by the file alone goes through
every class of its values, so each check of `Validate` is reached. The clock's
offsets lie on both sides of every threshold, in steps of a third of a second.

### Fairness

* `ReportService`: a request that has arrived goes on (`WF` of its statements).
  Go schedules runnable goroutines, every probe is bounded by its timeout, and
  a request takes `refreshMu` once, so finitely many others come before it
  (`sync.Mutex` hands over to a starved waiter). Nothing makes requests arrive,
  clients leave, probes panic or time pass.
* `HistoryStore`: the ticker fires, a flush in progress goes on, and a dead
  process is started again (systemd or an orchestrator). No fairness of
  appends, and failures are bounded.
* `ServeLifecycle`: the main goroutine and the bind go on, the shutdown
  deadline passes and `watch`'s ticker fires (`WF`). Handlers get none: one may
  hang. A select with several channels ready chooses at random, so one that is
  ready again and again is taken some time: `WatchStops` has strong fairness,
  without which a `watch` whose suite takes longer than its interval might never
  look at the signal.
* `RequestPipeline`, `CheckCommand`, `ClockProbe`: none; their properties are
  safety properties.
* `MetadataClient`: a call goes on; an HTTP call ends at the client's timeout
  at the latest, which is a guard of the clock.

Deadlock is not checked where the system may stop: requests, commands and
probes are single-shot, and a served process that returned is done.

### What the violations show

1. **`serve` with a disk path never serves** (`ServeLifecycle_blocked`).
   `history.Start` blocks until the context is done and `internal/cli/serve.go:80`
   calls it synchronously. The listener starts only after SIGINT or SIGTERM,
   and is shut down at once.
2. **The persisted history is not read back** (`HistoryStore_unloaded`).
   `Store.Load` is called by tests only, so the first flush after a restart
   overwrites the file. Finding 1 masks this one: as long as `Start` blocks
   `serve`, no process of the binary both appends and flushes, and what a flush
   writes over an existing file is the empty list. What the store keeps with and
   without `Load` is `OwnedFileKept` (`HistoryStore_disk`): nothing but that
   first flush loses entries, and with `Load` there is no such flush.
3. **A lost client becomes a cached timeout** (`ReportService_timeout_text`).
   `runOne` (`internal/probe/runner.go:83-86`) reads every context error as a
   timeout. The report of a run whose client left is cached and served to
   clients that stayed.
4. **Ten seconds are labelled as one** (`RequestPipeline_labels`). `formatLe`
   (`internal/observability/metrics.go:170`) trims the zero of `10` as it trims
   those of fractions, so the bucket of ten seconds is printed as `le="1"`. A
   scrape has two series with the same labels and different values, and none for
   ten seconds.

Divergences without a run of their own:

* `diagnose` is to "translate any failure into actionable AWS troubleshooting
  hints" (`internal/cli/diagnostics.go:105-106`), but `system_resources` fail
  matches no rule, and `internet_https` fail needs `dns` pass. `OnlyKnownGaps`
  shows that these two are the only gaps.
* A clock probe that timed out has the status of a small skew, and `diagnose`
  says "Clock skew detected." of a clock that was never compared.
* `invalidateToken` clears whatever is cached, so of two callers refused with
  one old token the slower one drops the token the faster one has negotiated
  meanwhile, although "the token is cached until expiry"
  (`pkg/metadata/client.go:44-45`). The cost is a further negotiation;
  `RefusedOnlyIfRevoked` shows that no caller is refused because of it.
* A request whose handler panics is missing from the registry, although
  `requestLogging` "records every request" (`internal/api/middleware.go:103`);
  `CountedAsAnswered` states the exception.
* `extractInstance` reads a detail `mac_address` (`internal/report/data.go:169`)
  that no probe sets, and `Overrides.ServerAddr` and `ServerPort`
  (`internal/config/load.go:140-145`) are set by no flag: `serve` overrides the
  configuration itself, after it was validated, so `--port 0` and `--addr ""`
  pass, while a port of 0 in the file is refused even if `--port` overrides it.

## 4. Proofs

But for `AnalyzeFinds` the theorems listed in `PROJECT.json` are of the form
`Spec => []P` or `Spec => Abstract!Spec`, for every
value of the constants that satisfies the assumptions named in the modules (a
capacity and a TTL of at least one, an owner value outside the set of
goroutines, at least one probe, a rate and a burst of at least one, sources that
set known fields to classes of their values). The bounds of the clock and of the faults are
constants too, so they hold for every bound.

* `ReportServiceProofs`: type correctness, `NoStampede`, `AnswersAreFresh`,
  `HistoryIsOrdered`, `EvidenceIsConsistent` and `Refinement`. The invariant
  `IInv` is needed because none of the properties is inductive: `LockInv` says
  who may be in the critical section, `ResultsInv` that a run has all its
  results when it is recorded, `FreshnessInv` that the running request's report
  is newer than all that is published, `HistoryInv` that no entry is newer than
  the newest run, and `EvidenceInv` how far the refresh in progress has got and
  what the last one left behind. The refinement maps `asked` and `answer` to the
  request's position; a request is answered in the abstract where it reads the
  cache (`CachedData`, `RecheckHit`) or fills it (`PutCache`), and every other
  statement stutters. `HistoryEntriesProofs` has the lemmas about the capped
  append.
* `HistoryStoreProofs`: type correctness, `DiskIsWhole`, `DiskIsOrdered`,
  `NothingIsForgotten` and `Refinement`. The strengthening is that a temporary
  file about to be renamed was written whole (`RenameInv`), and that every list
  on its way to the file is ordered (`OrderInv`). Both of the last two hold whether or not the
  program calls `Load`: the binary's commands do not. `NothingIsForgotten` says
  of any process that a file it has loaded or written loses entries only to
  newer ones; `KeepInv` is needed for it: such a file is behind the process's
  list by evictions only, with the snapshot of a flush in progress between the
  two. What a process has not loaded its first flush may erase, as
  `HistoryStore_unloaded` shows; a program that calls `Load` always owns its file
  (the first part of `KeepInv`). `Refinement` says that the store implements
  `DurableHistory`. The list of a process that is down is mapped to the one the
  next will start from, what its file holds or nothing, so what a crash costs is
  lost there and `Restart` stutters: that rests on a whole file and one within
  the capacity. A flush in progress is mapped to the list it copied, so opening
  and writing the temporary file stutter and the rename is the save; `RenameInv`
  says that the file that is renamed then holds that copy.
* `ClockProbeProofs`: type correctness, `NoFalseAlarm`, `NoMissedDrift`, for
  every resolution of time and every offset. The strengthening ties the status
  to what was measured.
* `MetadataClientProofs`: type correctness, `SingleFetch` and
  `RefusalMeansRevocation`, for any number of callers. The strengthening says
  that the owner of the mutex is the caller with a PUT under way and that no
  token is cached meanwhile. For `RefusalMeansRevocation`, `FreshInv` follows a
  token issued during a call from the reply (`ReplyInv`) through the cache
  (`CachedInv`) to the second GET (`SentInv`): unless the service revoked it, it
  outlives each. That rests on `LifetimeAssumption`, a token outliving the PUT
  that fetches it and the GET that uses it.
* `RequestPipelineProofs`, the limiter: type correctness, `MapStaysBounded`,
  `WaitSuffices` and `Refinement`. `LimiterInv` is needed because a decision is taken with a bucket
  that was looked up earlier: `HeldInv` says that this is still the one in the
  map, for its client was seen no longer ago than the request has been delayed,
  which is less than the idle timeout; `DistinctInv` that no two clients share a
  bucket; `IdleInv` how long a client in the map can have been idle; `LevelInv`
  how much an idle client's bucket has been refilled. The refinement maps a
  client that is not in the map to a full bucket: making a bucket and dropping
  one stutter. Dropping one that is not full would not, so the theorem has the
  assumption `BucketFits`: a bucket fills up within the idle timeout. The
  defaults satisfy it (20 tokens at 100 a minute, ten minutes), `Validate` does
  not ask for it: with `ratelimit.burst` above ten minutes' worth of tokens a
  client gains by pausing.
* `RequestPipelineProofs`, the pipeline: `PipelineRunsLimiter` (every step of the
  pipeline is one of the limiter or leaves it alone, so the limiter's theorems
  hold in it: `LimiterInPipeline`, `PipelineImplementsTokenBucket`), type
  correctness, `CountersCorrect`, `ThrottlingCorrect`, `HistogramExact` and
  `HistogramCorrect`, for any number of requests, clients and paths. `LayerInv`
  says what a request has been through by the time it is in a layer; the
  counters are then compared with the set of requests counted so far, one
  request at a time. `HistogramInv` says what the histogram is made of, at any
  write timeout: a bucket holds exactly the recorded requests that took no
  longer than its bound, and a response is cut off exactly when its handler
  took longer than the write timeout. `HistogramAgrees` follows: the requests
  behind the counters of a path fall into five disjoint sets, one for each
  status, which add up to those in the histogram and those on their way to it;
  a bucket's requests are among those of the next. Its last part, that what is
  above the last bucket was cut off, is about the write timeout being that
  bucket's bound, and the theorem assumes this as `DefaultWriteTimeout`: both are
  ten seconds by default (`internal/config/config.go:180`,
  `internal/observability/metrics.go:14`); with another write timeout it does
  not hold.
* `CheckCommandProofs`: type correctness, `ExitCodeAgrees`, `FileWrittenOrTold`,
  `EvidenceTellsTheRun`, `SilentOnlyAboutKnownGaps` and, about the rule engine by
  itself, `AnalyzeFinds`. None of the properties is inductive, because each
  compares things that were left behind in different phases; the invariant says
  that what a phase left behind is still what it makes of the results: the
  history is the one entry of this run (`HistoryInv`), hints and report data are
  `Analyze` and `Build` of the results (`ReportInv`), the exit code that of their
  worst status (`ExitInv`), and every result is one its probe may return, or a
  warning (`ResultsInv`). The properties are then facts about the operators. The
  loop for the worst status and the one that counts agree because a status is
  found exactly if its count is positive (`HasCounted`), and the four counts add
  up because the places of the statuses are disjoint (`CountsAddUp`; both in
  `HistoryEntriesProofs`). `AnalyzeFinds` says of all results that the loop
  returns the rules that match, no other, each once and in the rules' order; it
  is proved by the least turn after which this would be wrong, which needs only
  that the naturals are well-founded. So a hint means that some probe failed or
  warned (`HintsBlame`), and silence that no rule matched (`Silent`).
* `ServeLifecycleProofs`: type correctness, `PrecedenceIsKept`,
  `OnlyAddressEscapes`, `GracefulIsHonest`, for any sources and clients.
  `ConfigInv` says that until `serve` or `watch` runs the sources are at hand and
  the configuration is whole, valid once it was validated, and what the sources
  make of it; its core is a lemma that overlaying sources one by one gives each
  field the value of the last that sets it. `ProcessInv` says that only a server
  that listened has requests and that none is cut while the process runs.

The library's induction theorems take an operator as a parameter, which the
provers cannot instantiate. The one proof here that needs induction over data,
`AnalyzeFinds`, argues by a least counterexample instead: the set of turns after
which the claim fails is a set of naturals, and one that is not empty has a least
member (`LeastElement`).

Only model-checked: the liveness properties (`AllAnswered`, `EventuallyOnDisk`,
`SignalEndsProcess`, `FailureEndsProcess`, `StartsServingInMemory`,
`WatchRefreshes`, `CallReturns`): fairness and `ENABLED` are outside the prover.
Every other property of a passing run is a theorem.

## 5. Not modelled

Templates and the hash's value, the text format of the metrics but for the
histogram's bounds, the parsers' treatment of malformed lines, flag definitions,
logging, interface discovery and the OpenAPI document are pure functions or
output, with no property here that tells them apart. Within the modelled parts:
durations other than the limiter's and the clock's, messages and hints;
`auth.public_paths` as a configured value; request identifiers, security headers
and forwarded addresses; `/info`, `/history` and the other read-only endpoints;
the `status`, `echo`, `version` and `completions` commands. How many retries of
`HTTPGet` fit into a probe's deadline and how long a slow scraper holds the
registry's mutex are hazards that would need durations of their own; what a
history flush loses on an orderly shutdown is promised nowhere.

## 6. Plan

Done, in this order: `ProbeResults`, `HistoryEntries`, `ReportService` and its
proofs, `AtomicReport` and the refinement, `HistoryStore`, `ServeLifecycle`,
`ProbeSuite`, `Diagnostics`, `CheckCommand`, `ClockProbe`, `MetadataClient`;
then `RateLimiter` with `TokenBucket` and the refinement, `Metrics`,
`RequestPipeline`, `Configuration`, the loading of the configuration and `watch`
in `ServeLifecycle`, `report --output` in `CheckCommand`, the proofs about the
limiter, the pipeline and the lifecycle, those of `NothingIsForgotten` and
`RefusalMeansRevocation`, those about `CheckCommand`, `Analyze` and the
histogram, and `DurableHistory` with the refinement.

Next, proofs: an abstract specification of the metadata client, in which a call
takes a token and uses it in one step, as far as the second look after a 401
lets it have one; and that `FormatLe` keeps apart any bounds below ten seconds.

Next, modelling: `HTTPGet` with durations.
