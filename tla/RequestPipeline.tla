-------------------------- MODULE RequestPipeline --------------------------
(***************************************************************************)
(* Requests on their way through the middleware chain of internal/api:     *)
(* recovery, the logging layer that feeds the metrics registry, the rate   *)
(* limiter and the authentication around a handler, in the order api.New   *)
(* chains them.  Request identifiers, security headers, bodies and the log *)
(* are left out.                                                           *)
(***************************************************************************)
EXTENDS RateLimiter, Metrics

CONSTANTS
    Path,           \* the paths that are asked for
    AuthEnabled,    \* auth.enabled
    PublicPath,     \* auth.public_paths
    Duration,       \* how long a handler may take, in milliseconds
    WriteTimeout    \* server.write_timeout, in milliseconds

ASSUME PipelineAssumption ==
    IsFiniteSet(Request) /\ "none" \notin Path /\ Duration \subseteq Nat /\ WriteTimeout \in Nat

VARIABLES
    pc,             \* per request: the layer it is in
    path,           \* per request: its path
    took,           \* per request: its duration
    status,         \* per request: statusWriter.status, NoStatus before WriteHeader
    answer,         \* per request: the status on the wire, NoStatus before it, or Cut
    requestsTotal,  \* the registry: requests by path and status
    durations       \* the registry: the latency histogram by path

requestVars == <<pc, path, took, status, answer>>
registryVars == <<requestsTotal, durations>>
vars == <<limiterVars, requestVars, registryVars>>

NoPath == "none"
NoStatus == 0
Cut == 1
Status == {200, 401, 404, 429, 500}

Init ==
    /\ LimiterInit
    /\ pc = [r \in Request |-> "away"]
    /\ path = [r \in Request |-> NoPath]
    /\ took = [r \in Request |-> 0]
    /\ status = [r \in Request |-> NoStatus]
    /\ answer = [r \in Request |-> NoStatus]
    /\ requestsTotal = [p \in Path |-> [s \in Status |-> 0]]
    /\ durations = [p \in Path |-> EmptyHistogram]

Goto(r, layer) == pc' = [pc EXCEPT ![r] = layer]

\* writeError: a layer inside the logging answers instead of the handler.
Reject(r, s) ==
    /\ status' = [status EXCEPT ![r] = s]
    /\ answer' = [answer EXCEPT ![r] = s]
    /\ Goto(r, "count")

----------------------------------------------------------------------------
IsInfraPath(p) == p \in {"/healthz", "/readyz", "/metrics"}

\* Mutant: nothing is exempt from the limiter.
LayerAfterLogging_All(p) == IF p \in Path THEN "limit" ELSE "auth"

\* The first layer inside the logging: the limiter, except for infrastructure.
LayerAfterLogging(p) == IF IsInfraPath(p) THEN "auth" ELSE "limit"

Arrive(r) ==
    /\ pc[r] = "away"
    /\ \E p \in Path :
         /\ path' = [path EXCEPT ![r] = p]
         /\ Goto(r, LayerAfterLogging(p))
    /\ UNCHANGED <<limiterVars, took, status, answer, registryVars>>

\* rateLimitMiddleware, up to the bucket.
LookUp(r) ==
    /\ pc[r] = "limit"
    /\ \E c \in Client : LimiterFor(r, c)
    /\ Goto(r, "allow")
    /\ UNCHANGED <<path, took, status, answer, registryVars>>

\* rateLimitMiddleware, the decision.
Limit(r) ==
    /\ pc[r] = "allow"
    /\ Allow(r)
    /\ IF verdict'[r] = "granted"
       THEN Goto(r, "auth") /\ UNCHANGED <<status, answer>>
       ELSE Reject(r, 429)
    /\ UNCHANGED <<path, took, registryVars>>

\* bearerOK: the request came with the configured token.
MayPass(p, bearerOK) == ~ AuthEnabled \/ p \in PublicPath \/ bearerOK

Authenticate(r) ==
    /\ pc[r] = "auth"
    /\ \E bearerOK \in BOOLEAN :
         IF MayPass(path[r], bearerOK)
         THEN Goto(r, "handler") /\ UNCHANGED <<status, answer>>
         ELSE Reject(r, 401)
    /\ UNCHANGED <<limiterVars, path, took, registryVars>>

\* The handler returns; one that wrote nothing is answered 200.  After the
\* write timeout the connection is cut, which the statusWriter does not see.
Handle(r) ==
    /\ pc[r] = "handler"
    /\ \E s \in {NoStatus, 404}, d \in Duration :
         /\ status' = [status EXCEPT ![r] = s]
         /\ took' = [took EXCEPT ![r] = d]
         /\ answer' = [answer EXCEPT ![r] =
                         IF d > WriteTimeout THEN Cut ELSE IF s = NoStatus THEN 200 ELSE s]
    /\ Goto(r, "count")
    /\ UNCHANGED <<limiterVars, path, registryVars>>

\* Mutant: the logging layer records in a deferred call, before the recovery
\* has chosen the status.
LayerAfterPanic_Deferred == "count"

\* The panic unwinds through the logging layer, which records after
\* next.ServeHTTP and not deferred, to the recovery outside it.
LayerAfterPanic == "panicked"

\* The handler panics before or after WriteHeader; the recovery answers 500
\* unless a status is on the wire.
HandlerPanics(r) ==
    /\ pc[r] = "handler"
    /\ \E s \in {NoStatus, 200} :
         /\ status' = [status EXCEPT ![r] = s]
         /\ answer' = [answer EXCEPT ![r] = IF s = NoStatus THEN 500 ELSE s]
    /\ Goto(r, LayerAfterPanic)
    /\ UNCHANGED <<limiterVars, path, took, registryVars>>

\* The status requestLogging records.
Recorded(r) == IF status[r] = NoStatus THEN 200 ELSE status[r]

\* IncRequest
Count(r) ==
    /\ pc[r] = "count"
    /\ requestsTotal' = [requestsTotal EXCEPT ![path[r]][Recorded(r)] = @ + 1]
    /\ Goto(r, "observe")
    /\ UNCHANGED <<limiterVars, path, took, status, answer, durations>>

\* ObserveRequestDuration
Observe(r) ==
    /\ pc[r] = "observe"
    /\ durations' = [durations EXCEPT ![path[r]] = Observed(@, took[r])]
    /\ Goto(r, "done")
    /\ UNCHANGED <<limiterVars, path, took, status, answer, requestsTotal>>

\* Time passes, and the cleanup goroutine runs.
Background ==
    /\ Tick \/ PruneIdle
    /\ UNCHANGED <<requestVars, registryVars>>

Step(r) ==
    \/ Arrive(r) \/ LookUp(r) \/ Limit(r) \/ Authenticate(r)
    \/ Handle(r) \/ HandlerPanics(r) \/ Count(r) \/ Observe(r)

Next == Background \/ \E r \in Request : Step(r)

Spec == Init /\ [][Next]_vars

----------------------------------------------------------------------------
Layer == {"away", "limit", "allow", "auth", "handler", "count", "observe", "done", "panicked"}

Counted == {r \in Request : pc[r] \in {"observe", "done"}}

At(p) == {r \in Request : path[r] = p}

\* Everything has its type.
TypeOK ==
    /\ LimiterTypeOK
    /\ pc \in [Request -> Layer]
    /\ path \in [Request -> Path \cup {NoPath}]
    /\ took \in [Request -> Duration \cup {0}]
    /\ status \in [Request -> Status \cup {NoStatus}]
    /\ answer \in [Request -> Status \cup {NoStatus, Cut}]
    /\ requestsTotal \in [Path -> [Status -> Nat]]
    /\ DOMAIN durations = Path

\* "records every request in the metrics registry" (middleware.go:103-104):
\* each one exactly once, under the status its client saw, except that a
\* handler that panics leaves no record, and that a response cut off by the
\* write timeout is counted as if it had been delivered.
CountedAsAnswered ==
    \A p \in Path, s \in Status :
        requestsTotal[p][s] =
            Cardinality({r \in Counted \cap At(p) :
                            answer[r] = s \/ (answer[r] = Cut /\ Recorded(r) = s)})

\* What a scrape adds up over the statuses.
Total(p) ==
    LET counter == requestsTotal[p]
    IN  counter[200] + counter[401] + counter[404] + counter[429] + counter[500]

\* Counters and histogram are updated under two acquisitions of the lock, so
\* a scrape may fall between them: it is off by those requests and no more.
\* The buckets are cumulative, and what is above the last of them are the
\* responses that were cut off.
HistogramAgrees ==
    \A p \in Path :
        LET histogram == durations[p]
            last == Len(DurationBuckets)
        IN  /\ Total(p) - histogram.count
                 = Cardinality({r \in At(p) : pc[r] = "observe"})
            /\ \A i \in 1..(last - 1) : histogram.buckets[i] <= histogram.buckets[i + 1]
            /\ histogram.count - histogram.buckets[last]
                 = Cardinality({r \in At(p) : pc[r] = "done" /\ answer[r] = Cut})

\* The limiter is outside the authentication: an attempt with a wrong token
\* costs its client as much as any other request, and only "Infrastructure
\* endpoints are never throttled" (README.md:340).
ThrottledUnlessInfra ==
    \A r \in Request :
        IF IsInfraPath(path[r])
        THEN answer[r] # 429
        ELSE answer[r] # NoStatus => verdict[r] = IF answer[r] = 429 THEN "refused" ELSE "granted"

\* "matching the standard Prometheus HTTP request duration buckets"
\* (metrics.go:12-13): a scrape that has a histogram gives each of its bounds
\* a series of its own.
EachBoundItsOwnSeries ==
    (\E p \in Path : durations[p].count > 0) =>
        Cardinality(RenderedBounds) = Len(DurationBuckets)

----------------------------------------------------------------------------
\* The inductive invariant: what a request has been through by the time it is
\* in a layer.
LayerOK(r) ==
    /\ pc[r] \in {"away", "limit", "allow", "auth", "handler"} => answer[r] = NoStatus
    /\ pc[r] = "away" <=> path[r] = NoPath
    /\ IsInfraPath(path[r]) => pc[r] \notin {"limit", "allow"} /\ answer[r] # 429
    /\ ~ IsInfraPath(path[r]) =>
         /\ pc[r] \in {"auth", "handler"} => verdict[r] = "granted"
         /\ answer[r] # NoStatus =>
              verdict[r] = IF answer[r] = 429 THEN "refused" ELSE "granted"

\* The logging layer saw what went out, unless it was cut off.
RecordOK(r) ==
    pc[r] \in {"count", "observe", "done"} => answer[r] \in {Recorded(r), Cut}

LayerInv == \A r \in Request : LayerOK(r) /\ RecordOK(r)

IInv == TypeOK /\ LayerInv /\ CountedAsAnswered

\* What the histogram is made of: a bucket holds the requests that were
\* recorded at its path and took no longer than its bound.
DoneAt(p) == {r \in At(p) : pc[r] = "done"}

Within(p, bound) == {r \in DoneAt(p) : took[r] <= bound}

HistogramInv ==
    /\ \A r \in Request : answer[r] = Cut <=> took[r] > WriteTimeout
    /\ \A p \in Path :
         /\ durations[p].count = Cardinality(DoneAt(p))
         /\ \A i \in DOMAIN DurationBuckets :
                durations[p].buckets[i] = Cardinality(Within(p, DurationBuckets[i]))
=============================================================================
