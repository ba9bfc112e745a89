--------------------------- MODULE ReportService ----------------------------
(***************************************************************************)
(* The cached report behind GET /api/v1/{status,network,probe,report}:     *)
(* Handlers.cachedData, resolvedData and refresh (internal/api/handlers.go)*)
(* run by concurrent request goroutines, with the TTL cache                *)
(* (internal/api/cache), the probe runner (internal/probe/runner.go), the  *)
(* history list and the probe gauges they write.                           *)
(*                                                                         *)
(* A request goroutine is single-shot: pc says which statement it is about *)
(* to execute.  cache.Get, cache.Put, history.Append and one               *)
(* SetProbeStatus are atomic because each holds its own mutex; everything  *)
(* between them interleaves.                                               *)
(***************************************************************************)
EXTENDS HistoryEntries

CONSTANTS
    Request,      \* the request goroutines
    Nobody,       \* refreshMu is free
    NumProbes,    \* how many probes the runner was built with
    Outcome,      \* the statuses a probe's Execute may return
    TTL,          \* cache.probe_ttl, in ticks
    MaxEntries,   \* history.max_entries
    GlobalTimeout,\* the runner has a global timeout
    MaxClock,     \* bound: the clock stops there
    MaxDisturbed  \* bound: how many requests lose their context

ASSUME NobodyAssumption == Nobody \notin Request
ASSUME ProbesAssumption == NumProbes \in Nat \ {0}
ASSUME OutcomeAssumption == Outcome \subseteq Status
ASSUME TTLAssumption == TTL \in Nat \ {0}
ASSUME MaxEntriesAssumption == MaxEntries \in Nat \ {0}
ASSUME GlobalTimeoutAssumption == GlobalTimeout \in BOOLEAN
ASSUME MaxClockAssumption == MaxClock \in Nat
ASSUME MaxDisturbedAssumption == MaxDisturbed \in Nat

VARIABLES
    now,        \* the clock cache.Get and cache.Put read
    pc,         \* per request: the statement it is about to execute
    force,      \* per request: it goes to refresh(ctx, true)
    ctx,        \* per request: the error of the context its run uses
    data,       \* per request: the report it is building, then its answer
    step,       \* per request: the index of the gauge loop
    holder,     \* owner of refreshMu, or Nobody
    runs,       \* how many runs have started
    item,       \* the cache's item; expiresAt = 0 stands for nil
    history,    \* Store.entries
    gauges,     \* Metrics.probeStatus, by probe; "unset" before the first
    arrival     \* history variable: what was published and started when the
                \* request arrived

vars == <<now, pc, force, ctx, data, step, holder, runs, item, history, gauges, arrival>>

Control == {"idle", "cached", "lock", "recheck", "run", "gauges", "history",
            "put", "unlock", "done", "failed"}

NoItem == [data |-> NoReport, expiresAt |-> 0]

\* Mutant: an item is still served at the very tick it expires.
CacheValid_Late == now <= item.expiresAt

\* Cache.Get finds an item and it has not expired.
CacheValid == now < item.expiresAt

\* Mutants: the cache is not looked at again under the lock; a forced
\* refresh is satisfied with what the cache holds.
CacheSuffices_Never(r) == FALSE
CacheSuffices_Forced(r) == CacheValid

\* refresh, holding the lock: the cached report will do for this request.
CacheSuffices(r) == ~ force[r] /\ CacheValid

\* Mutant: refreshMu does not exclude.
LockFree_Ignored == TRUE

LockFree == holder = Nobody

\* Mutant: Unlock is the last statement of refresh and not deferred.
OwnerAfterPanic_NotDeferred == holder

OwnerAfterPanic == Nobody

\* The statements executed with refreshMu held.
Critical == {"recheck", "run", "gauges", "history", "put", "unlock"}

Init ==
    /\ now = 0
    /\ pc = [r \in Request |-> "idle"]
    /\ force = [r \in Request |-> FALSE]
    /\ ctx = [r \in Request |-> "none"]
    /\ data = [r \in Request |-> NoReport]
    /\ step = [r \in Request |-> 1]
    /\ holder = Nobody
    /\ runs = 0
    /\ item = NoItem
    /\ history = << >>
    /\ gauges = [p \in 1..NumProbes |-> "unset"]
    /\ arrival = [r \in Request |-> [published |-> 0, started |-> 0]]

----------------------------------------------------------------------------
\* A request reaches its handler: X-Force-Refresh on /probe and /report goes
\* to refresh at once, anything else looks at the cache first.
ResolveData(r) ==
    /\ pc[r] = "idle"
    /\ \E f \in BOOLEAN :
         /\ force' = [force EXCEPT ![r] = f]
         /\ pc' = [pc EXCEPT ![r] = IF f THEN "lock" ELSE "cached"]
    /\ arrival' = [arrival EXCEPT ![r] = [published |-> item.data.startedAt, started |-> runs]]
    /\ UNCHANGED <<now, ctx, data, step, holder, runs, item, history, gauges>>

\* cachedData: answer from a valid cache, otherwise refresh(ctx, false).
CachedData(r) ==
    /\ pc[r] = "cached"
    /\ \/ /\ CacheValid
          /\ data' = [data EXCEPT ![r] = item.data]
          /\ pc' = [pc EXCEPT ![r] = "done"]
       \/ /\ ~ CacheValid
          /\ pc' = [pc EXCEPT ![r] = "lock"]
          /\ UNCHANGED data
    /\ UNCHANGED <<now, force, ctx, step, holder, runs, item, history, gauges, arrival>>

\* refreshMu.Lock: it does not look at the context, so a request whose
\* client has left still waits for its turn.
LockRefresh(r) ==
    /\ pc[r] = "lock"
    /\ LockFree
    /\ holder' = r
    /\ pc' = [pc EXCEPT ![r] = "recheck"]
    /\ UNCHANGED <<now, force, ctx, data, step, runs, item, history, gauges, arrival>>

\* Another request refreshed the cache while this one waited for the lock.
RecheckHit(r) ==
    /\ pc[r] = "recheck"
    /\ CacheSuffices(r)
    /\ data' = [data EXCEPT ![r] = item.data]
    /\ pc' = [pc EXCEPT ![r] = "unlock"]
    /\ UNCHANGED <<now, force, ctx, step, holder, runs, item, history, gauges, arrival>>

\* Runner.Run starts: the report is stamped, no result is in yet.
StartRun(r) ==
    /\ pc[r] = "recheck"
    /\ ~ CacheSuffices(r)
    /\ runs' = runs + 1
    /\ data' = [data EXCEPT ![r] = [startedAt |-> runs + 1, results |-> << >>]]
    /\ pc' = [pc EXCEPT ![r] = "run"]
    /\ UNCHANGED <<now, force, ctx, step, holder, item, history, gauges, arrival>>

\* runOne: the probe returns some outcome; its own deadline may have passed
\* meanwhile, or the context of the whole run is already over.
RunOne(r) ==
    /\ pc[r] = "run"
    /\ \E outcome \in Outcome, overdue \in BOOLEAN :
         LET err == IF ctx[r] = "none" /\ overdue THEN "deadline" ELSE ctx[r]
         IN  data' = [data EXCEPT ![r].results = Append(@, RunnerResult(outcome, err))]
    /\ pc' = [pc EXCEPT ![r] =
                IF Len(data[r].results) + 1 = NumProbes THEN "gauges" ELSE "run"]
    /\ UNCHANGED <<now, force, ctx, step, holder, runs, item, history, gauges, arrival>>

\* A probe panics: the deferred Unlock runs, withRecover answers 500.
RunPanics(r) ==
    /\ pc[r] = "run"
    /\ holder' = OwnerAfterPanic
    /\ data' = [data EXCEPT ![r] = NoReport]
    /\ pc' = [pc EXCEPT ![r] = "failed"]
    /\ UNCHANGED <<now, force, ctx, step, runs, item, history, gauges, arrival>>

\* One iteration of the SetProbeStatus loop; a scrape may fall between two.
SetProbeStatus(r) ==
    /\ pc[r] = "gauges"
    /\ gauges' = [gauges EXCEPT ![step[r]] = data[r].results[step[r]].status]
    /\ IF step[r] < NumProbes
       THEN /\ step' = [step EXCEPT ![r] = @ + 1]
            /\ UNCHANGED pc
       ELSE /\ pc' = [pc EXCEPT ![r] = "history"]
            /\ UNCHANGED step
    /\ UNCHANGED <<now, force, ctx, data, holder, runs, item, history, arrival>>

AppendHistory(r) ==
    /\ pc[r] = "history"
    /\ history' = Appended(history, FromReport(data[r]), MaxEntries)
    /\ pc' = [pc EXCEPT ![r] = "put"]
    /\ UNCHANGED <<now, force, ctx, data, step, holder, runs, item, gauges, arrival>>

PutCache(r) ==
    /\ pc[r] = "put"
    /\ item' = [data |-> data[r], expiresAt |-> now + TTL]
    /\ pc' = [pc EXCEPT ![r] = "unlock"]
    /\ UNCHANGED <<now, force, ctx, data, step, holder, runs, history, gauges, arrival>>

\* The deferred Unlock; the handler then writes its answer.
UnlockRefresh(r) ==
    /\ pc[r] = "unlock"
    /\ holder' = Nobody
    /\ pc' = [pc EXCEPT ![r] = "done"]
    /\ UNCHANGED <<now, force, ctx, data, step, runs, item, history, gauges, arrival>>

----------------------------------------------------------------------------
\* Bound: only so many requests have their context ended early.
MayDisturb == Cardinality({q \in Request : ctx[q] # "none"}) < MaxDisturbed

\* The client closes its connection: net/http cancels the request's context.
ClientGone(r) ==
    /\ pc[r] \in {"lock", "recheck", "run"}
    /\ ctx[r] = "none"
    /\ MayDisturb
    /\ ctx' = [ctx EXCEPT ![r] = "canceled"]
    /\ UNCHANGED <<now, pc, force, data, step, holder, runs, item, history, gauges, arrival>>

\* The global timeout passes during the run, when the runner has one
\* (WithGlobalTimeout; buildApp leaves it out).
GlobalDeadline(r) ==
    /\ GlobalTimeout
    /\ pc[r] = "run"
    /\ ctx[r] = "none"
    /\ MayDisturb
    /\ ctx' = [ctx EXCEPT ![r] = "deadline"]
    /\ UNCHANGED <<now, pc, force, data, step, holder, runs, item, history, gauges, arrival>>

Tick ==
    /\ now < MaxClock
    /\ now' = now + 1
    /\ UNCHANGED <<pc, force, ctx, data, step, holder, runs, item, history, gauges, arrival>>

\* The statements a request goroutine executes once it has arrived.
Proceed(r) ==
    \/ CachedData(r) \/ LockRefresh(r) \/ RecheckHit(r) \/ StartRun(r) \/ RunOne(r)
    \/ SetProbeStatus(r) \/ AppendHistory(r) \/ PutCache(r) \/ UnlockRefresh(r)

Next ==
    \/ \E r \in Request :
         \/ ResolveData(r) \/ Proceed(r)
         \/ RunPanics(r) \/ ClientGone(r) \/ GlobalDeadline(r)
    \/ Tick

\* A started goroutine keeps running: Go schedules it, the probes are bounded
\* by their timeouts, and each request locks refreshMu once.  Nothing makes a
\* request arrive, a client leave, a probe panic or the clock advance.
Fairness == \A r \in Request : WF_vars(Proceed(r))

Spec == Init /\ [][Next]_vars /\ Fairness

----------------------------------------------------------------------------
\* Everything has its type, and the history stays within its capacity.
TypeOK ==
    /\ now \in Nat
    /\ pc \in [Request -> Control]
    /\ force \in [Request -> BOOLEAN]
    /\ ctx \in [Request -> ContextErr]
    /\ data \in [Request -> Report]
    /\ step \in [Request -> 1..NumProbes]
    /\ holder \in Request \cup {Nobody}
    /\ runs \in Nat
    /\ item \in [data : Report, expiresAt : Nat]
    /\ history \in Seq(Entry)
    /\ Len(history) <= MaxEntries
    /\ gauges \in [1..NumProbes -> Status \cup {"unset"}]
    /\ arrival \in [Request -> [published : Nat, started : Nat]]

Running(r) == pc[r] \in {"run", "gauges", "history", "put"}
Recording(r) == pc[r] \in {"gauges", "history", "put"}
Answered(r) == pc[r] \in {"unlock", "done"}

\* No stampede (handlers.go:253-255): while an unforced refresh runs the
\* probes and publishes, there is never a valid report it could have served.
NoWastedRun == \A r \in Request : Running(r) /\ ~ force[r] => ~ CacheValid

\* An answer is never older than what was published when its request
\* arrived, and a forced refresh (X-Force-Refresh) is answered with a run
\* that started after the request did.
AnswerNotStale ==
    \A r \in Request : Answered(r) =>
        /\ data[r].startedAt >= arrival[r].published
        /\ force[r] => data[r].startedAt > arrival[r].started

LastEntryIs(report) ==
    history # << >> /\ history[Len(history)] = FromReport(report)

GaugesShow(report) ==
    \A p \in 1..NumProbes : gauges[p] = report.results[p].status

\* Between refreshes the three records of the latest run tell one story: the
\* cached report, the newest history entry and the probe gauges.
EvidenceAgrees ==
    holder = Nobody /\ item # NoItem => LastEntryIs(item.data) /\ GaugesShow(item.data)

\* The history lists distinct runs, oldest first, whatever the order in
\* which requests arrived, waited and failed.
HistoryOrdered ==
    \A i, j \in 1..Len(history) : i < j => history[i].timestamp < history[j].timestamp

\* Every request is answered, although others panic or force runs
\* while it waits for the lock.
AllAnswered ==
    \A r \in Request : pc[r] # "idle" ~> pc[r] \in {"done", "failed"}

\* What the runner's text says (runner.go:85, "probe timed out (context
\* deadline exceeded)"): an answer to a client that stayed blames a deadline
\* only where one passed.
TimedOutMeansDeadline ==
    \A r \in Request : pc[r] = "done" /\ ctx[r] # "canceled" =>
        \A i \in DOMAIN data[r].results :
            data[r].results[i].message = "timed out" => data[r].results[i].ctxErr = "deadline"

----------------------------------------------------------------------------
(* The inductive invariant behind the safety properties, in named parts.   *)

\* The request in the critical section is the owner of refreshMu.
LockInv == \A r \in Request : pc[r] \in Critical <=> holder = r

\* A run has a result for every probe once it is recorded.
ResultsInv ==
    \A r \in Request :
        /\ pc[r] = "run" => Len(data[r].results) < NumProbes
        /\ Recording(r) => Len(data[r].results) = NumProbes

\* The running request's report is the newest started and not yet published.
FreshnessInv ==
    /\ item.data.startedAt <= runs
    /\ \A r \in Request :
         /\ arrival[r].published <= item.data.startedAt
         /\ arrival[r].started <= runs
         /\ pc[r] = "cached" => ~ force[r]
         /\ Running(r) => /\ data[r].startedAt = runs
                          /\ item.data.startedAt < runs
                          /\ arrival[r].started < runs

\* No entry is newer than the newest run, nor as new until it is appended.
HistoryInv ==
    /\ \A i \in 1..Len(history) : history[i].timestamp <= runs
    /\ \A r \in Request : pc[r] \in {"run", "gauges", "history"} =>
          \A i \in 1..Len(history) : history[i].timestamp < runs

\* What a refresh has recorded so far, and what the last one left behind.
EvidenceInv ==
    /\ \A r \in Request :
         /\ ~ (Recording(r) \/ Answered(r)) => step[r] = 1
         /\ pc[r] = "gauges" =>
               \A p \in 1..(step[r] - 1) : gauges[p] = data[r].results[p].status
         /\ pc[r] \in {"history", "put"} => GaugesShow(data[r])
         /\ pc[r] = "put" => LastEntryIs(data[r])
    /\ item # NoItem =>
         /\ (\A r \in Request : ~ Recording(r)) => GaugesShow(item.data)
         /\ (\A r \in Request : pc[r] # "put") => LastEntryIs(item.data)

IInv ==
    /\ TypeOK /\ LockInv /\ ResultsInv /\ FreshnessInv
    /\ NoWastedRun /\ AnswerNotStale
    /\ HistoryOrdered /\ HistoryInv /\ EvidenceInv

----------------------------------------------------------------------------
\* The concurrent handlers implement the one-step answers of AtomicReport: a
\* request is answered where it reads the cache or puts its own report there.
asked == [r \in Request |-> IF pc[r] = "idle" THEN "no"
                            ELSE IF force[r] THEN "forced" ELSE "cached"]
answer == [r \in Request |-> IF Answered(r) THEN data[r] ELSE NoReport]

Atomic == INSTANCE AtomicReport

ImplementsAtomicReport == Atomic!Spec
=============================================================================
