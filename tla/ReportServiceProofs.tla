------------------------ MODULE ReportServiceProofs -------------------------
(***************************************************************************)
(* Proofs about ReportService for any number of requests and probes.       *)
(***************************************************************************)
EXTENDS ReportService, HistoryEntriesProofs, TLAPS

----------------------------------------------------------------------------
(* Type correctness.                                                       *)

\* The type invariant holds initially.
LEMMA InitTypeOK == Init => TypeOK
<1> SUFFICES ASSUME Init PROVE TypeOK
  OBVIOUS
<1>1. NoReport \in Report
  BY DEF NoReport, Report
<1>2. /\ now \in Nat /\ runs \in Nat
      /\ pc \in [Request -> Control]
      /\ force \in [Request -> BOOLEAN]
      /\ ctx \in [Request -> ContextErr]
      /\ holder \in Request \cup {Nobody}
      /\ arrival \in [Request -> [published : Nat, started : Nat]]
  BY DEF Init, Control, ContextErr
<1>3. /\ data \in [Request -> Report]
      /\ item \in [data : Report, expiresAt : Nat]
  BY <1>1 DEF Init, NoItem
<1>4. /\ step \in [Request -> 1..NumProbes]
      /\ gauges \in [1..NumProbes -> Status \cup {"unset"}]
  BY ProbesAssumption DEF Init
<1>5. history \in Seq(Entry) /\ Len(history) <= MaxEntries
  BY MaxEntriesAssumption, EmptySeq DEF Init
<1> QED
  BY <1>2, <1>3, <1>4, <1>5 DEF TypeOK

\* Every step preserves it, given that a run in progress lacks a result.
LEMMA NextTypeOK == TypeOK /\ ResultsInv /\ [Next]_vars => TypeOK'
<1> SUFFICES ASSUME TypeOK, ResultsInv, [Next]_vars PROVE TypeOK'
  OBVIOUS
<1> USE DEF TypeOK
<1>1. ASSUME NEW r \in Request, ResolveData(r) PROVE TypeOK'
  <2>1. item.data.startedAt \in Nat
    BY DEF Report
  <2> QED
    BY <1>1, <2>1 DEF ResolveData, Control
<1>2. ASSUME NEW r \in Request, CachedData(r) PROVE TypeOK'
  BY <1>2 DEF CachedData, Control
<1>3. ASSUME NEW r \in Request, LockRefresh(r) PROVE TypeOK'
  BY <1>3 DEF LockRefresh, Control
<1>4. ASSUME NEW r \in Request, RecheckHit(r) PROVE TypeOK'
  BY <1>4 DEF RecheckHit, Control
<1>5. ASSUME NEW r \in Request, StartRun(r) PROVE TypeOK'
  <2>1. [startedAt |-> runs + 1, results |-> << >>] \in Report
    BY EmptySeq DEF Report
  <2> QED
    BY <1>5, <2>1 DEF StartRun, Control
<1>6. ASSUME NEW r \in Request, RunOne(r) PROVE TypeOK'
  <2>1. PICK outcome \in Outcome, err \in ContextErr :
          data' = [data EXCEPT ![r].results = Append(@, RunnerResult(outcome, err))]
    BY <1>6 DEF RunOne, ContextErr
  <2>2. data[r].startedAt \in Nat /\ data[r].results \in Seq(Result)
    BY DEF Report
  <2>3. Append(data[r].results, RunnerResult(outcome, err)) \in Seq(Result)
    BY <2>2, OutcomeAssumption, RunnerResultType, AppendProperties
  <2>4. [data[r] EXCEPT !.results = Append(@, RunnerResult(outcome, err))] \in Report
    BY <2>3 DEF Report
  <2>5. data' \in [Request -> Report]
    BY <2>1, <2>4
  <2>6. pc' \in [Request -> Control]
    BY <1>6 DEF RunOne, Control
  <2> QED
    BY <1>6, <2>5, <2>6 DEF RunOne
<1>7. ASSUME NEW r \in Request, RunPanics(r) PROVE TypeOK'
  <2>1. NoReport \in Report
    BY EmptySeq DEF NoReport, Report
  <2> QED
    BY <1>7, <2>1 DEF RunPanics, OwnerAfterPanic, Control
<1>8. ASSUME NEW r \in Request, SetProbeStatus(r) PROVE TypeOK'
  <2>1. data[r].results \in Seq(Result) /\ Len(data[r].results) = NumProbes
    BY <1>8 DEF SetProbeStatus, ResultsInv, Recording, Report
  <2>2. data[r].results[step[r]] \in Result
    BY <2>1, ElementOfSeq
  <2>3. gauges' \in [1..NumProbes -> Status \cup {"unset"}]
    BY <1>8, <2>2 DEF SetProbeStatus, Result
  <2>4. step' \in [Request -> 1..NumProbes]
    <3>1. CASE step[r] < NumProbes
      <4>1. step[r] + 1 \in 1..NumProbes
        BY <3>1, ProbesAssumption
      <4> QED
        BY <1>8, <3>1, <4>1 DEF SetProbeStatus
    <3>2. CASE ~ (step[r] < NumProbes)
      BY <1>8, <3>2 DEF SetProbeStatus
    <3> QED
      BY <3>1, <3>2
  <2>5. pc' \in [Request -> Control]
    BY <1>8 DEF SetProbeStatus, Control
  <2> QED
    BY <1>8, <2>3, <2>4, <2>5 DEF SetProbeStatus
<1>9. ASSUME NEW r \in Request, AppendHistory(r) PROVE TypeOK'
  <2>1. history' \in Seq(Entry) /\ Len(history') \in 1..MaxEntries
    BY <1>9, FromReportType, AppendedKeeps, MaxEntriesAssumption DEF AppendHistory, KeepsNewest
  <2>2. pc' \in [Request -> Control]
    BY <1>9 DEF AppendHistory, Control
  <2> QED
    BY <1>9, <2>1, <2>2, MaxEntriesAssumption DEF AppendHistory
<1>10. ASSUME NEW r \in Request, PutCache(r) PROVE TypeOK'
  BY <1>10, TTLAssumption DEF PutCache, Control
<1>11. ASSUME NEW r \in Request, UnlockRefresh(r) PROVE TypeOK'
  BY <1>11 DEF UnlockRefresh, Control
<1>12. ASSUME NEW r \in Request, ClientGone(r) PROVE TypeOK'
  BY <1>12 DEF ClientGone, ContextErr
<1>13. ASSUME NEW r \in Request, GlobalDeadline(r) PROVE TypeOK'
  BY <1>13 DEF GlobalDeadline, ContextErr
<1>14. CASE Tick
  BY <1>14 DEF Tick
<1>15. CASE UNCHANGED vars
  BY <1>15 DEF vars
<1> QED
  BY <1>1, <1>2, <1>3, <1>4, <1>5, <1>6, <1>7, <1>8, <1>9, <1>10, <1>11,
     <1>12, <1>13, <1>14, <1>15 DEF Next, Proceed

----------------------------------------------------------------------------
(* The owner of refreshMu, and how far its run is.                         *)

\* Every step preserves that exactly the owner of refreshMu is in the
\* critical section; a panicking probe leaves both.
LEMMA NextLockInv == TypeOK /\ LockInv /\ [Next]_vars => LockInv'
<1> SUFFICES ASSUME TypeOK, LockInv, [Next]_vars PROVE LockInv'
  OBVIOUS
<1> USE NobodyAssumption DEF TypeOK, LockInv, Critical
<1>1. ASSUME NEW r \in Request, ResolveData(r) PROVE LockInv'
  BY <1>1 DEF ResolveData
<1>2. ASSUME NEW r \in Request, CachedData(r) PROVE LockInv'
  BY <1>2 DEF CachedData
<1>3. ASSUME NEW r \in Request, LockRefresh(r) PROVE LockInv'
  BY <1>3 DEF LockRefresh, LockFree
<1>4. ASSUME NEW r \in Request, RecheckHit(r) PROVE LockInv'
  BY <1>4 DEF RecheckHit
<1>5. ASSUME NEW r \in Request, StartRun(r) PROVE LockInv'
  BY <1>5 DEF StartRun
<1>6. ASSUME NEW r \in Request, RunOne(r) PROVE LockInv'
  BY <1>6 DEF RunOne
<1>7. ASSUME NEW r \in Request, RunPanics(r) PROVE LockInv'
  BY <1>7 DEF RunPanics, OwnerAfterPanic
<1>8. ASSUME NEW r \in Request, SetProbeStatus(r) PROVE LockInv'
  BY <1>8 DEF SetProbeStatus
<1>9. ASSUME NEW r \in Request, AppendHistory(r) PROVE LockInv'
  BY <1>9 DEF AppendHistory
<1>10. ASSUME NEW r \in Request, PutCache(r) PROVE LockInv'
  BY <1>10 DEF PutCache
<1>11. ASSUME NEW r \in Request, UnlockRefresh(r) PROVE LockInv'
  BY <1>11 DEF UnlockRefresh
<1>12. ASSUME NEW r \in Request, ClientGone(r) PROVE LockInv'
  BY <1>12 DEF ClientGone
<1>13. ASSUME NEW r \in Request, GlobalDeadline(r) PROVE LockInv'
  BY <1>13 DEF GlobalDeadline
<1>14. CASE Tick
  BY <1>14 DEF Tick
<1>15. CASE UNCHANGED vars
  BY <1>15 DEF vars
<1> QED
  BY <1>1, <1>2, <1>3, <1>4, <1>5, <1>6, <1>7, <1>8, <1>9, <1>10, <1>11,
     <1>12, <1>13, <1>14, <1>15 DEF Next, Proceed

\* A run goes on to its recording exactly when every probe has a result.
LEMMA NextResultsInv == TypeOK /\ ResultsInv /\ [Next]_vars => ResultsInv'
<1> SUFFICES ASSUME TypeOK, ResultsInv, [Next]_vars PROVE ResultsInv'
  OBVIOUS
<1> USE ProbesAssumption DEF TypeOK, ResultsInv, Recording, Report
<1>1. ASSUME NEW r \in Request, ResolveData(r) PROVE ResultsInv'
  BY <1>1 DEF ResolveData
<1>2. ASSUME NEW r \in Request, CachedData(r) PROVE ResultsInv'
  BY <1>2 DEF CachedData
<1>3. ASSUME NEW r \in Request, LockRefresh(r) PROVE ResultsInv'
  BY <1>3 DEF LockRefresh
<1>4. ASSUME NEW r \in Request, RecheckHit(r) PROVE ResultsInv'
  BY <1>4 DEF RecheckHit
<1>5. ASSUME NEW r \in Request, StartRun(r) PROVE ResultsInv'
  BY <1>5 DEF StartRun
<1>6. ASSUME NEW r \in Request, RunOne(r) PROVE ResultsInv'
  BY <1>6 DEF RunOne
<1>7. ASSUME NEW r \in Request, RunPanics(r) PROVE ResultsInv'
  BY <1>7 DEF RunPanics
<1>8. ASSUME NEW r \in Request, SetProbeStatus(r) PROVE ResultsInv'
  BY <1>8 DEF SetProbeStatus
<1>9. ASSUME NEW r \in Request, AppendHistory(r) PROVE ResultsInv'
  BY <1>9 DEF AppendHistory
<1>10. ASSUME NEW r \in Request, PutCache(r) PROVE ResultsInv'
  BY <1>10 DEF PutCache
<1>11. ASSUME NEW r \in Request, UnlockRefresh(r) PROVE ResultsInv'
  BY <1>11 DEF UnlockRefresh
<1>12. ASSUME NEW r \in Request, ClientGone(r) PROVE ResultsInv'
  BY <1>12 DEF ClientGone
<1>13. ASSUME NEW r \in Request, GlobalDeadline(r) PROVE ResultsInv'
  BY <1>13 DEF GlobalDeadline
<1>14. CASE Tick
  BY <1>14 DEF Tick
<1>15. CASE UNCHANGED vars
  BY <1>15 DEF vars
<1> QED
  BY <1>1, <1>2, <1>3, <1>4, <1>5, <1>6, <1>7, <1>8, <1>9, <1>10, <1>11,
     <1>12, <1>13, <1>14, <1>15 DEF Next, Proceed

----------------------------------------------------------------------------
(* Freshness: what the lock and the second look at the cache are for.      *)

\* The run in progress stays the newest started, and unpublished.
LEMMA NextFreshnessInv == TypeOK /\ LockInv /\ FreshnessInv /\ [Next]_vars => FreshnessInv'
<1> SUFFICES ASSUME TypeOK, LockInv, FreshnessInv, [Next]_vars PROVE FreshnessInv'
  OBVIOUS
<1> USE DEF TypeOK, LockInv, Critical, FreshnessInv, Running, Report
<1>1. ASSUME NEW r \in Request, ResolveData(r) PROVE FreshnessInv'
  <2>1. PICK f \in BOOLEAN :
          /\ force' = [force EXCEPT ![r] = f]
          /\ pc' = [pc EXCEPT ![r] = IF f THEN "lock" ELSE "cached"]
    BY <1>1 DEF ResolveData
  <2>2. /\ item' = item /\ runs' = runs /\ data' = data
        /\ item.data.startedAt \in Nat
        /\ arrival' = [arrival EXCEPT ![r] = [published |-> item.data.startedAt, started |-> runs]]
    BY <1>1 DEF ResolveData
  <2>3. \A q \in Request :
          /\ arrival'[q].published <= item.data.startedAt
          /\ arrival'[q].started <= runs
    <3> TAKE q \in Request
    <3>1. CASE q = r
      <4>1. arrival'[q] = [published |-> item.data.startedAt, started |-> runs]
        BY <2>2, <3>1
      <4> QED
        BY <4>1, <2>2
    <3>2. CASE q # r
      BY <2>2, <3>2
    <3> QED
      BY <3>1, <3>2
  <2>4. \A q \in Request : pc'[q] = "cached" => ~ force'[q]
    BY <2>1
  <2>5. \A q \in Request : Running(q)' => Running(q) /\ q # r
    BY <1>1, <2>1 DEF ResolveData
  <2>6. \A q \in Request : Running(q)' =>
          /\ data'[q].startedAt = runs
          /\ item.data.startedAt < runs
          /\ arrival'[q].started < runs
    BY <2>2, <2>5
  <2> QED
    BY <2>2, <2>3, <2>4, <2>6
<1>2. ASSUME NEW r \in Request, CachedData(r) PROVE FreshnessInv'
  <2>1. /\ UNCHANGED <<item, runs, arrival, force>>
        /\ pc'[r] \in {"done", "lock"}
        /\ \A q \in Request : q # r => pc'[q] = pc[q] /\ data'[q] = data[q]
    BY <1>2 DEF CachedData
  <2>2. \A q \in Request : Running(q)' => Running(q) /\ q # r
    BY <2>1
  <2>3. \A q \in Request : pc'[q] = "cached" => pc[q] = "cached"
    BY <2>1
  <2> QED
    BY <2>1, <2>2, <2>3
<1>3. ASSUME NEW r \in Request, LockRefresh(r) PROVE FreshnessInv'
  BY <1>3 DEF LockRefresh
<1>4. ASSUME NEW r \in Request, RecheckHit(r) PROVE FreshnessInv'
  BY <1>4 DEF RecheckHit
<1>5. ASSUME NEW r \in Request, StartRun(r) PROVE FreshnessInv'
  <2>1. /\ holder = r /\ runs' = runs + 1
        /\ UNCHANGED <<item, arrival, force>>
        /\ pc' = [pc EXCEPT ![r] = "run"]
        /\ data'[r].startedAt = runs + 1
    BY <1>5 DEF StartRun
  <2>2. \A q \in Request : Running(q)' => q = r
    BY <2>1, NobodyAssumption
  <2>3. runs \in Nat /\ item.data.startedAt \in Nat /\ item.data.startedAt <= runs
    OBVIOUS
  <2>4. \A q \in Request : arrival[q].started \in Nat /\ arrival[q].started <= runs
    OBVIOUS
  <2>A. \A q \in Request : /\ arrival[q].published <= item.data.startedAt
                           /\ pc[q] = "cached" => ~ force[q]
    OBVIOUS
  <2>B. pc \in [Request -> Control]
    OBVIOUS
  <2> HIDE DEF TypeOK, LockInv, Critical, FreshnessInv, Report
  <2>5. item'.data.startedAt < runs' /\ \A q \in Request : arrival'[q].started < runs'
    BY <2>1, <2>3, <2>4
  <2>6. \A q \in Request : pc'[q] = "cached" => pc[q] = "cached"
    BY <2>1, <2>B
  <2>7. \A q \in Request :
          /\ arrival'[q].published <= item'.data.startedAt
          /\ pc'[q] = "cached" => ~ force'[q]
    BY <2>1, <2>6, <2>A
  <2>8. item'.data.startedAt <= runs' /\ \A q \in Request : arrival'[q].started <= runs'
    BY <2>1, <2>3, <2>4
  <2> QED
    BY <2>1, <2>2, <2>5, <2>7, <2>8 DEF FreshnessInv
<1>6. ASSUME NEW r \in Request, RunOne(r) PROVE FreshnessInv'
  <2>1. /\ pc[r] = "run" /\ item' = item /\ runs' = runs
        /\ arrival' = arrival /\ force' = force
        /\ \A q \in Request : q # r => pc'[q] = pc[q] /\ data'[q] = data[q]
        /\ pc'[r] \in {"run", "gauges"}
    BY <1>6 DEF RunOne
  <2>2. data'[r].startedAt = data[r].startedAt
    BY <1>6 DEF RunOne
  <2>3. \A q \in Request :
          /\ data'[q].startedAt = data[q].startedAt
          /\ Running(q)' => Running(q)
          /\ pc'[q] = "cached" => pc[q] = "cached"
    BY <2>1, <2>2
  <2> QED
    BY <2>1, <2>3
<1>7. ASSUME NEW r \in Request, RunPanics(r) PROVE FreshnessInv'
  BY <1>7 DEF RunPanics
<1>8. ASSUME NEW r \in Request, SetProbeStatus(r) PROVE FreshnessInv'
  BY <1>8 DEF SetProbeStatus
<1>9. ASSUME NEW r \in Request, AppendHistory(r) PROVE FreshnessInv'
  BY <1>9 DEF AppendHistory
<1>10. ASSUME NEW r \in Request, PutCache(r) PROVE FreshnessInv'
  <2>1. /\ pc[r] = "put" /\ pc' = [pc EXCEPT ![r] = "unlock"]
        /\ item'.data = data[r]
        /\ UNCHANGED <<runs, arrival, force, data>>
    BY <1>10 DEF PutCache
  <2>2. data[r].startedAt = runs /\ item.data.startedAt < runs
    BY <2>1
  <2>3. \A q \in Request : /\ ~ Running(q)'
                           /\ pc'[q] = "cached" => pc[q] = "cached"
    BY <2>1, NobodyAssumption
  <2>4. \A q \in Request : arrival'[q].published <= item'.data.startedAt
    BY <2>1, <2>2
  <2> QED
    BY <2>1, <2>2, <2>3, <2>4
<1>11. ASSUME NEW r \in Request, UnlockRefresh(r) PROVE FreshnessInv'
  BY <1>11 DEF UnlockRefresh
<1>12. ASSUME NEW r \in Request, ClientGone(r) PROVE FreshnessInv'
  BY <1>12 DEF ClientGone
<1>13. ASSUME NEW r \in Request, GlobalDeadline(r) PROVE FreshnessInv'
  BY <1>13 DEF GlobalDeadline
<1>14. CASE Tick
  BY <1>14 DEF Tick
<1>15. CASE UNCHANGED vars
  BY <1>15 DEF vars
<1> QED
  BY <1>1, <1>2, <1>3, <1>4, <1>5, <1>6, <1>7, <1>8, <1>9, <1>10, <1>11,
     <1>12, <1>13, <1>14, <1>15 DEF Next, Proceed

\* While the lock is held nobody else can make the cache valid.
LEMMA NextNoWastedRun == TypeOK /\ LockInv /\ NoWastedRun /\ [Next]_vars => NoWastedRun'
<1> SUFFICES ASSUME TypeOK, LockInv, NoWastedRun, [Next]_vars PROVE NoWastedRun'
  OBVIOUS
<1> USE DEF TypeOK, LockInv, Critical, NoWastedRun, Running, CacheValid
<1>1. ASSUME NEW r \in Request, ResolveData(r) PROVE NoWastedRun'
  BY <1>1 DEF ResolveData
<1>2. ASSUME NEW r \in Request, CachedData(r) PROVE NoWastedRun'
  BY <1>2 DEF CachedData
<1>3. ASSUME NEW r \in Request, LockRefresh(r) PROVE NoWastedRun'
  BY <1>3 DEF LockRefresh
<1>4. ASSUME NEW r \in Request, RecheckHit(r) PROVE NoWastedRun'
  BY <1>4 DEF RecheckHit
<1>5. ASSUME NEW r \in Request, StartRun(r) PROVE NoWastedRun'
  BY <1>5 DEF StartRun, CacheSuffices
<1>6. ASSUME NEW r \in Request, RunOne(r) PROVE NoWastedRun'
  BY <1>6 DEF RunOne
<1>7. ASSUME NEW r \in Request, RunPanics(r) PROVE NoWastedRun'
  BY <1>7 DEF RunPanics
<1>8. ASSUME NEW r \in Request, SetProbeStatus(r) PROVE NoWastedRun'
  BY <1>8 DEF SetProbeStatus
<1>9. ASSUME NEW r \in Request, AppendHistory(r) PROVE NoWastedRun'
  BY <1>9 DEF AppendHistory
<1>10. ASSUME NEW r \in Request, PutCache(r) PROVE NoWastedRun'
  BY <1>10 DEF PutCache
<1>11. ASSUME NEW r \in Request, UnlockRefresh(r) PROVE NoWastedRun'
  BY <1>11 DEF UnlockRefresh
<1>12. ASSUME NEW r \in Request, ClientGone(r) PROVE NoWastedRun'
  BY <1>12 DEF ClientGone
<1>13. ASSUME NEW r \in Request, GlobalDeadline(r) PROVE NoWastedRun'
  BY <1>13 DEF GlobalDeadline
<1>14. CASE Tick
  BY <1>14 DEF Tick
<1>15. CASE UNCHANGED vars
  BY <1>15 DEF vars
<1> QED
  BY <1>1, <1>2, <1>3, <1>4, <1>5, <1>6, <1>7, <1>8, <1>9, <1>10, <1>11,
     <1>12, <1>13, <1>14, <1>15 DEF Next, Proceed

\* An answer is read off the cache or off the requester's own run.
LEMMA NextAnswerNotStale == TypeOK /\ LockInv /\ FreshnessInv /\ AnswerNotStale /\ [Next]_vars => AnswerNotStale'
<1> SUFFICES ASSUME TypeOK, LockInv, FreshnessInv, AnswerNotStale, [Next]_vars PROVE AnswerNotStale'
  OBVIOUS
<1> USE DEF TypeOK, LockInv, Critical, FreshnessInv, AnswerNotStale, Running, Answered, Report
<1>1. ASSUME NEW r \in Request, ResolveData(r) PROVE AnswerNotStale'
  BY <1>1 DEF ResolveData
<1>2. ASSUME NEW r \in Request, CachedData(r) PROVE AnswerNotStale'
  <2>1. /\ UNCHANGED <<item, arrival, force>> /\ ~ force[r]
        /\ \A q \in Request : q # r => pc'[q] = pc[q] /\ data'[q] = data[q]
        /\ pc'[r] = "lock" \/ (pc'[r] = "done" /\ data'[r] = item.data)
    BY <1>2 DEF CachedData
  <2>2. arrival[r].published <= item.data.startedAt
    OBVIOUS
  <2>3. item.data.startedAt \in Nat /\ arrival[r].published \in Nat
    OBVIOUS
  <2> QED
    BY <2>1, <2>2, <2>3
<1>3. ASSUME NEW r \in Request, LockRefresh(r) PROVE AnswerNotStale'
  BY <1>3 DEF LockRefresh
<1>4. ASSUME NEW r \in Request, RecheckHit(r) PROVE AnswerNotStale'
  BY <1>4 DEF RecheckHit, CacheSuffices
<1>5. ASSUME NEW r \in Request, StartRun(r) PROVE AnswerNotStale'
  BY <1>5 DEF StartRun
<1>6. ASSUME NEW r \in Request, RunOne(r) PROVE AnswerNotStale'
  BY <1>6 DEF RunOne
<1>7. ASSUME NEW r \in Request, RunPanics(r) PROVE AnswerNotStale'
  BY <1>7 DEF RunPanics
<1>8. ASSUME NEW r \in Request, SetProbeStatus(r) PROVE AnswerNotStale'
  <2>1. UNCHANGED <<data, arrival, force>>
    BY <1>8 DEF SetProbeStatus
  <2>2. \A q \in Request : Answered(q)' => Answered(q)
    BY <1>8 DEF SetProbeStatus
  <2> QED
    BY <2>1, <2>2
<1>9. ASSUME NEW r \in Request, AppendHistory(r) PROVE AnswerNotStale'
  BY <1>9 DEF AppendHistory
<1>10. ASSUME NEW r \in Request, PutCache(r) PROVE AnswerNotStale'
  <2>1. /\ pc[r] = "put" /\ UNCHANGED <<data, arrival, force>>
        /\ \A q \in Request : q # r => pc'[q] = pc[q]
    BY <1>10 DEF PutCache
  <2>2. data[r].startedAt = runs /\ arrival[r].started < runs
    BY <2>1
  <2>3. data[r].startedAt >= arrival[r].published
    BY <2>1
  <2> QED
    BY <2>1, <2>2, <2>3
<1>11. ASSUME NEW r \in Request, UnlockRefresh(r) PROVE AnswerNotStale'
  <2>1. UNCHANGED <<data, arrival, force>>
    BY <1>11 DEF UnlockRefresh
  <2>2. \A q \in Request : Answered(q)' => Answered(q)
    BY <1>11 DEF UnlockRefresh
  <2> QED
    BY <2>1, <2>2
<1>12. ASSUME NEW r \in Request, ClientGone(r) PROVE AnswerNotStale'
  BY <1>12 DEF ClientGone
<1>13. ASSUME NEW r \in Request, GlobalDeadline(r) PROVE AnswerNotStale'
  BY <1>13 DEF GlobalDeadline
<1>14. CASE Tick
  BY <1>14 DEF Tick
<1>15. CASE UNCHANGED vars
  BY <1>15 DEF vars
<1> QED
  BY <1>1, <1>2, <1>3, <1>4, <1>5, <1>6, <1>7, <1>8, <1>9, <1>10, <1>11,
     <1>12, <1>13, <1>14, <1>15 DEF Next, Proceed

----------------------------------------------------------------------------
(* The history: run ordinals only grow and are appended under the lock.    *)

\* Appending under the lock adds the newest run after older ones.
LEMMA HistoryAppended ==
    ASSUME TypeOK, FreshnessInv, HistoryInv, NEW r \in Request, AppendHistory(r)
    PROVE  /\ Len(history') \in 1..MaxEntries
           /\ history' # << >>
           /\ history'[Len(history')] = FromReport(data[r])
           /\ history'[Len(history')].timestamp = runs
           /\ \A i \in 1..Len(history') - 1 : history'[i].timestamp < runs
           /\ runs' = runs
           /\ \E gone \in 0..1 : \A i \in 1..Len(history') - 1 :
                 i + gone \in 1..Len(history) /\ history'[i] = history[i + gone]
<1>1. /\ FromReport(data[r]) \in Entry
      /\ FromReport(data[r]).timestamp = data[r].startedAt
  BY FromReportType DEF TypeOK
<1>2. history' = Appended(history, FromReport(data[r]), MaxEntries)
  BY DEF AppendHistory
<1>3. history \in Seq(Entry) /\ Len(history) <= MaxEntries
  BY DEF TypeOK
<1>4. /\ Len(history') \in 1..MaxEntries
      /\ history' # << >>
      /\ history'[Len(history')] = FromReport(data[r])
      /\ \E gone \in 0..1 : \A i \in 1..Len(history') - 1 :
            i + gone \in 1..Len(history) /\ history'[i] = history[i + gone]
  <2>1. KeepsNewest(history, FromReport(data[r]), history', MaxEntries)
    BY <1>1, <1>2, <1>3, AppendedKeeps, MaxEntriesAssumption, Zenon
  <2> QED
    BY <2>1 DEF KeepsNewest
<1>5. data[r].startedAt = runs /\ runs' = runs
  BY DEF AppendHistory, FreshnessInv, Running
<1>6. \A i \in 1..Len(history) : history[i].timestamp < runs
  BY DEF AppendHistory, HistoryInv
<1>7. \A i \in 1..Len(history') - 1 : history'[i].timestamp < runs
  <2>1. PICK gone \in 0..1 : \A i \in 1..Len(history') - 1 :
            i + gone \in 1..Len(history) /\ history'[i] = history[i + gone]
    BY <1>4
  <2> QED
    BY <2>1, <1>6
<1> QED
  BY <1>1, <1>4, <1>5, <1>7

\* No entry gets ahead of the runs that were started.
LEMMA NextHistoryInv == TypeOK /\ LockInv /\ FreshnessInv /\ HistoryInv /\ [Next]_vars => HistoryInv'
<1> SUFFICES ASSUME TypeOK, LockInv, FreshnessInv, HistoryInv, [Next]_vars PROVE HistoryInv'
  OBVIOUS
<1> USE DEF TypeOK, LockInv, Critical, HistoryInv
<1>1. ASSUME NEW r \in Request, ResolveData(r) PROVE HistoryInv'
  BY <1>1 DEF ResolveData
<1>2. ASSUME NEW r \in Request, CachedData(r) PROVE HistoryInv'
  BY <1>2 DEF CachedData
<1>3. ASSUME NEW r \in Request, LockRefresh(r) PROVE HistoryInv'
  BY <1>3 DEF LockRefresh
<1>4. ASSUME NEW r \in Request, RecheckHit(r) PROVE HistoryInv'
  BY <1>4 DEF RecheckHit
<1>5. ASSUME NEW r \in Request, StartRun(r) PROVE HistoryInv'
  <2>1. runs' = runs + 1 /\ history' = history
    BY <1>5 DEF StartRun
  <2>2. \A i \in 1..Len(history) : history[i].timestamp \in Nat
    <3>1. \A i \in 1..Len(history) : history[i] \in Entry
      BY ElementOfSeq
    <3> QED
      BY <3>1 DEF Entry
  <2>3. \A i \in 1..Len(history) : history[i].timestamp < runs + 1
    BY <2>2
  <2> QED
    BY <2>1, <2>2, <2>3
<1>6. ASSUME NEW r \in Request, RunOne(r) PROVE HistoryInv'
  BY <1>6 DEF RunOne
<1>7. ASSUME NEW r \in Request, RunPanics(r) PROVE HistoryInv'
  BY <1>7 DEF RunPanics
<1>8. ASSUME NEW r \in Request, SetProbeStatus(r) PROVE HistoryInv'
  BY <1>8 DEF SetProbeStatus
<1>9. ASSUME NEW r \in Request, AppendHistory(r) PROVE HistoryInv'
  <2>1. PICK gone \in 0..1 : \A i \in 1..Len(history') - 1 :
          i + gone \in 1..Len(history) /\ history'[i] = history[i + gone]
    BY <1>9, HistoryAppended
  <2>2. /\ Len(history') \in 1..MaxEntries
        /\ history'[Len(history')].timestamp = runs
        /\ \A i \in 1..Len(history') - 1 : history'[i].timestamp < runs
        /\ runs' = runs
    BY <1>9, HistoryAppended
  <2>3. \A i \in 1..Len(history') : history'[i].timestamp <= runs
    <3>1. ASSUME NEW i \in 1..Len(history') PROVE history'[i].timestamp <= runs
      <4>1. CASE i = Len(history')
        BY <4>1, <2>2
      <4>2. CASE i # Len(history')
        <5>1. i \in 1..Len(history') - 1
          BY <4>2, <2>2, MaxEntriesAssumption
        <5>2. i + gone \in 1..Len(history) /\ history'[i] = history[i + gone]
          BY <5>1, <2>1
        <5> QED
          BY <5>2
      <4> QED
        BY <4>1, <4>2
    <3> QED
      BY <3>1
  <2>4. \A q \in Request : pc'[q] \notin {"run", "gauges", "history"}
    BY <1>9, NobodyAssumption DEF AppendHistory, LockInv, Critical
  <2> QED
    BY <2>2, <2>3, <2>4
<1>10. ASSUME NEW r \in Request, PutCache(r) PROVE HistoryInv'
  BY <1>10 DEF PutCache
<1>11. ASSUME NEW r \in Request, UnlockRefresh(r) PROVE HistoryInv'
  BY <1>11 DEF UnlockRefresh
<1>12. ASSUME NEW r \in Request, ClientGone(r) PROVE HistoryInv'
  BY <1>12 DEF ClientGone
<1>13. ASSUME NEW r \in Request, GlobalDeadline(r) PROVE HistoryInv'
  BY <1>13 DEF GlobalDeadline
<1>14. CASE Tick
  BY <1>14 DEF Tick
<1>15. CASE UNCHANGED vars
  BY <1>15 DEF vars
<1> QED
  BY <1>1, <1>2, <1>3, <1>4, <1>5, <1>6, <1>7, <1>8, <1>9, <1>10, <1>11,
     <1>12, <1>13, <1>14, <1>15 DEF Next, Proceed

\* Appending the newest run keeps the history in order.
LEMMA NextHistoryOrdered == TypeOK /\ FreshnessInv /\ HistoryInv /\ HistoryOrdered /\ [Next]_vars => HistoryOrdered'
<1> SUFFICES ASSUME TypeOK, FreshnessInv, HistoryInv, HistoryOrdered, [Next]_vars PROVE HistoryOrdered'
  OBVIOUS
<1> USE DEF TypeOK, HistoryInv, HistoryOrdered
<1>1. ASSUME NEW r \in Request, ResolveData(r) PROVE HistoryOrdered'
  BY <1>1 DEF ResolveData
<1>2. ASSUME NEW r \in Request, CachedData(r) PROVE HistoryOrdered'
  BY <1>2 DEF CachedData
<1>3. ASSUME NEW r \in Request, LockRefresh(r) PROVE HistoryOrdered'
  BY <1>3 DEF LockRefresh
<1>4. ASSUME NEW r \in Request, RecheckHit(r) PROVE HistoryOrdered'
  BY <1>4 DEF RecheckHit
<1>5. ASSUME NEW r \in Request, StartRun(r) PROVE HistoryOrdered'
  BY <1>5 DEF StartRun
<1>6. ASSUME NEW r \in Request, RunOne(r) PROVE HistoryOrdered'
  BY <1>6 DEF RunOne
<1>7. ASSUME NEW r \in Request, RunPanics(r) PROVE HistoryOrdered'
  BY <1>7 DEF RunPanics
<1>8. ASSUME NEW r \in Request, SetProbeStatus(r) PROVE HistoryOrdered'
  BY <1>8 DEF SetProbeStatus
<1>9. ASSUME NEW r \in Request, AppendHistory(r) PROVE HistoryOrdered'
  <2>1. PICK gone \in 0..1 : \A i \in 1..Len(history') - 1 :
          i + gone \in 1..Len(history) /\ history'[i] = history[i + gone]
    BY <1>9, HistoryAppended
  <2>2. /\ Len(history') \in 1..MaxEntries
        /\ history'[Len(history')].timestamp = runs
        /\ \A i \in 1..Len(history') - 1 : history'[i].timestamp < runs
        /\ runs' = runs
    BY <1>9, HistoryAppended
  <2>3. ASSUME NEW i \in 1..Len(history'), NEW j \in 1..Len(history'), i < j
        PROVE  history'[i].timestamp < history'[j].timestamp
    <3>1. i \in 1..Len(history') - 1
      BY <2>2, <2>3, MaxEntriesAssumption
    <3>2. CASE j = Len(history')
      BY <2>2, <3>1, <3>2
    <3>3. CASE j # Len(history')
      <4>1. j \in 1..Len(history') - 1
        BY <2>2, <2>3, <3>3, MaxEntriesAssumption
      <4>2. i + gone < j + gone
        BY <2>3
      <4>3. /\ i + gone \in 1..Len(history) /\ history'[i] = history[i + gone]
            /\ j + gone \in 1..Len(history) /\ history'[j] = history[j + gone]
        BY <2>1, <3>1, <4>1
      <4> QED
        BY <4>2, <4>3
    <3> QED
      BY <3>2, <3>3
  <2> QED
    BY <2>3
<1>10. ASSUME NEW r \in Request, PutCache(r) PROVE HistoryOrdered'
  BY <1>10 DEF PutCache
<1>11. ASSUME NEW r \in Request, UnlockRefresh(r) PROVE HistoryOrdered'
  BY <1>11 DEF UnlockRefresh
<1>12. ASSUME NEW r \in Request, ClientGone(r) PROVE HistoryOrdered'
  BY <1>12 DEF ClientGone
<1>13. ASSUME NEW r \in Request, GlobalDeadline(r) PROVE HistoryOrdered'
  BY <1>13 DEF GlobalDeadline
<1>14. CASE Tick
  BY <1>14 DEF Tick
<1>15. CASE UNCHANGED vars
  BY <1>15 DEF vars
<1> QED
  BY <1>1, <1>2, <1>3, <1>4, <1>5, <1>6, <1>7, <1>8, <1>9, <1>10, <1>11,
     <1>12, <1>13, <1>14, <1>15 DEF Next, Proceed

----------------------------------------------------------------------------
(* The evidence: cache, history and gauges describe the same run.          *)

\* A step that records nothing keeps what the records say.
LEMMA EvidenceUndisturbed ==
    ASSUME EvidenceInv,
           UNCHANGED <<step, gauges, history, item>>,
           \A q \in Request :
              /\ Recording(q)' <=> Recording(q)
              /\ Recording(q) => data'[q] = data[q] /\ pc'[q] = pc[q]
              /\ Answered(q) => Answered(q)'
    PROVE  EvidenceInv'
<1>1. ASSUME NEW q \in Request
      PROVE  /\ ~ (Recording(q) \/ Answered(q))' => step'[q] = 1
             /\ pc'[q] = "gauges" =>
                   \A p \in 1..(step'[q] - 1) : gauges'[p] = data'[q].results[p].status
             /\ pc'[q] \in {"history", "put"} => GaugesShow(data[q])'
             /\ pc'[q] = "put" => LastEntryIs(data[q])'
  <2>1. CASE Recording(q)
    BY <2>1 DEF EvidenceInv, Recording, GaugesShow, LastEntryIs
  <2>2. CASE ~ Recording(q)
    BY <2>2 DEF EvidenceInv, Recording
  <2> QED
    BY <2>1, <2>2
<1>2. ASSUME item # NoItem, \A q \in Request : ~ Recording(q)'
      PROVE  GaugesShow(item.data)'
  BY <1>2 DEF EvidenceInv, GaugesShow
<1>3. ASSUME item # NoItem, \A q \in Request : pc'[q] # "put"
      PROVE  LastEntryIs(item.data)'
  <2>1. \A q \in Request : pc[q] # "put"
    BY <1>3 DEF Recording
  <2> QED
    BY <1>3, <2>1 DEF EvidenceInv, LastEntryIs
<1>4. item' = item
  OBVIOUS
<1> QED
  BY <1>1, <1>2, <1>3, <1>4 DEF EvidenceInv

\* Every step preserves what the records say of the run being recorded and
\* of the one published last.
LEMMA NextEvidenceInv == TypeOK /\ LockInv /\ FreshnessInv /\ HistoryInv /\ EvidenceInv /\ [Next]_vars => EvidenceInv'
<1> SUFFICES ASSUME TypeOK, LockInv, FreshnessInv, HistoryInv, EvidenceInv, [Next]_vars PROVE EvidenceInv'
  OBVIOUS
<1>1. ASSUME NEW r \in Request, ResolveData(r) PROVE EvidenceInv'
  <2>1. UNCHANGED <<step, gauges, history, item>>
    BY <1>1 DEF ResolveData
  <2>2. \A q \in Request :
          /\ Recording(q)' <=> Recording(q)
          /\ Recording(q) => data'[q] = data[q] /\ pc'[q] = pc[q]
          /\ Answered(q) => Answered(q)'
    BY <1>1 DEF ResolveData, TypeOK, Recording, Answered
  <2> QED
    BY <2>1, <2>2, EvidenceUndisturbed
<1>2. ASSUME NEW r \in Request, CachedData(r) PROVE EvidenceInv'
  <2>1. UNCHANGED <<step, gauges, history, item>>
    BY <1>2 DEF CachedData
  <2>2. \A q \in Request :
          /\ Recording(q)' <=> Recording(q)
          /\ Recording(q) => data'[q] = data[q] /\ pc'[q] = pc[q]
          /\ Answered(q) => Answered(q)'
    BY <1>2 DEF CachedData, TypeOK, Recording, Answered
  <2> QED
    BY <2>1, <2>2, EvidenceUndisturbed
<1>3. ASSUME NEW r \in Request, LockRefresh(r) PROVE EvidenceInv'
  <2>1. UNCHANGED <<step, gauges, history, item>>
    BY <1>3 DEF LockRefresh
  <2>2. \A q \in Request :
          /\ Recording(q)' <=> Recording(q)
          /\ Recording(q) => data'[q] = data[q] /\ pc'[q] = pc[q]
          /\ Answered(q) => Answered(q)'
    BY <1>3 DEF LockRefresh, TypeOK, Recording, Answered
  <2> QED
    BY <2>1, <2>2, EvidenceUndisturbed
<1>4. ASSUME NEW r \in Request, RecheckHit(r) PROVE EvidenceInv'
  BY <1>4 DEF RecheckHit, TypeOK, LockInv, Critical, EvidenceInv, Recording, Answered, GaugesShow, LastEntryIs
<1>5. ASSUME NEW r \in Request, StartRun(r) PROVE EvidenceInv'
  BY <1>5 DEF StartRun, TypeOK, LockInv, Critical, EvidenceInv, Recording, Answered, GaugesShow, LastEntryIs
<1>6. ASSUME NEW r \in Request, RunOne(r) PROVE EvidenceInv'
  <2>1. /\ UNCHANGED <<step, gauges, history, item>>
        /\ pc[r] = "run" /\ pc'[r] \in {"run", "gauges"}
        /\ \A q \in Request : q # r => pc'[q] = pc[q] /\ data'[q] = data[q]
    BY <1>6 DEF RunOne, TypeOK
  <2>2. step[r] = 1
    BY <2>1 DEF EvidenceInv, Recording, Answered
  <2>3. \A q \in Request : q # r => ~ Recording(q)
    BY <2>1, NobodyAssumption DEF LockInv, Critical, Recording
  <2>4. \A q \in Request :
          /\ ~ (Recording(q) \/ Answered(q))' => step'[q] = 1
          /\ pc'[q] \notin {"history", "put"}
          /\ pc'[q] = "gauges" => q = r
    BY <2>1, <2>2, <2>3 DEF EvidenceInv, Recording, Answered
  <2>5. \A q \in Request : pc'[q] = "gauges" =>
          \A p \in 1..(step'[q] - 1) : gauges'[p] = data'[q].results[p].status
    BY <2>1, <2>2, <2>4
  <2>6. item' # NoItem => GaugesShow(item.data)' /\ LastEntryIs(item.data)'
    <3>1. \A q \in Request : ~ Recording(q) /\ pc[q] # "put"
      BY <2>1, <2>3 DEF Recording
    <3> QED
      BY <2>1, <3>1 DEF EvidenceInv, GaugesShow, LastEntryIs
  <2> QED
    BY <2>4, <2>5, <2>6 DEF EvidenceInv
<1>7. ASSUME NEW r \in Request, RunPanics(r) PROVE EvidenceInv'
  BY <1>7 DEF RunPanics, TypeOK, LockInv, Critical, EvidenceInv, Recording, Answered, GaugesShow, LastEntryIs
<1>8. ASSUME NEW r \in Request, SetProbeStatus(r) PROVE EvidenceInv'
  <2>1. /\ pc[r] = "gauges" /\ step[r] \in 1..NumProbes
        /\ UNCHANGED <<data, history, item>>
        /\ gauges' = [gauges EXCEPT ![step[r]] = data[r].results[step[r]].status]
        /\ \A p \in 1..(step[r] - 1) : gauges[p] = data[r].results[p].status
    BY <1>8 DEF SetProbeStatus, TypeOK, EvidenceInv
  <2>2. \A p \in 1..step[r] : gauges'[p] = data[r].results[p].status
    <3> TAKE p \in 1..step[r]
    <3>1. p \in 1..NumProbes /\ gauges \in [1..NumProbes -> Status \cup {"unset"}]
      BY <2>1, ProbesAssumption DEF TypeOK
    <3>2. CASE p = step[r]
      BY <2>1, <3>1, <3>2
    <3>3. CASE p # step[r]
      <4>1. p \in 1..(step[r] - 1)
        BY <2>1, <3>3, ProbesAssumption
      <4> QED
        BY <2>1, <3>1, <3>3, <4>1
    <3> QED
      BY <3>2, <3>3
  <2>3. \A q \in Request : q # r => ~ Recording(q) /\ pc'[q] = pc[q] /\ step'[q] = step[q]
    BY <1>8, <2>1, NobodyAssumption DEF SetProbeStatus, TypeOK, LockInv, Critical, Recording
  <2>4. \/ /\ pc'[r] = "gauges" /\ step'[r] = step[r] + 1
        \/ /\ pc'[r] = "history" /\ step[r] = NumProbes
    BY <1>8, <2>1, ProbesAssumption DEF SetProbeStatus, TypeOK
  <2>5. pc'[r] = "gauges" => \A p \in 1..(step'[r] - 1) : gauges'[p] = data'[r].results[p].status
    BY <2>1, <2>2, <2>4
  <2>6. pc'[r] = "history" => GaugesShow(data[r])'
    BY <2>1, <2>2, <2>4 DEF GaugesShow
  <2>7. Recording(r)' /\ pc'[r] # "put"
    BY <2>4 DEF Recording
  <2>8. item # NoItem => LastEntryIs(item.data)
    <3>1. \A q \in Request : pc[q] # "put"
      BY <2>1, <2>3 DEF Recording
    <3> QED
      BY <3>1 DEF EvidenceInv
  <2>9. \A q \in Request : q # r =>
          /\ ~ (Recording(q) \/ Answered(q))' => step'[q] = 1
          /\ pc'[q] \notin {"gauges", "history", "put"}
    BY <2>3 DEF EvidenceInv, Recording, Answered
  <2>10. item' # NoItem => LastEntryIs(item.data)'
    BY <2>1, <2>8 DEF LastEntryIs
  <2> QED
    BY <2>4, <2>5, <2>6, <2>7, <2>9, <2>10 DEF EvidenceInv
<1>9. ASSUME NEW r \in Request, AppendHistory(r) PROVE EvidenceInv'
  <2>1. /\ pc[r] = "history" /\ pc'[r] = "put"
        /\ UNCHANGED <<data, step, gauges, item>>
        /\ GaugesShow(data[r])
    BY <1>9 DEF AppendHistory, TypeOK, EvidenceInv
  <2>2. LastEntryIs(data[r])'
    BY <1>9, <2>1, HistoryAppended DEF LastEntryIs
  <2>3. \A q \in Request : q # r => ~ Recording(q) /\ pc'[q] = pc[q]
    BY <1>9, NobodyAssumption DEF AppendHistory, TypeOK, LockInv, Critical, Recording
  <2>4. \A q \in Request : q # r =>
          /\ ~ (Recording(q) \/ Answered(q))' => step'[q] = 1
          /\ pc'[q] \notin {"gauges", "history", "put"}
    BY <2>1, <2>3 DEF EvidenceInv, Recording, Answered
  <2>5. GaugesShow(data[r])' /\ Recording(r)'
    BY <2>1 DEF GaugesShow, Recording
  <2> QED
    BY <2>1, <2>2, <2>4, <2>5 DEF EvidenceInv
<1>10. ASSUME NEW r \in Request, PutCache(r) PROVE EvidenceInv'
  BY <1>10 DEF PutCache, TypeOK, LockInv, Critical, EvidenceInv, Recording, Answered, GaugesShow, LastEntryIs
<1>11. ASSUME NEW r \in Request, UnlockRefresh(r) PROVE EvidenceInv'
  BY <1>11 DEF UnlockRefresh, TypeOK, LockInv, Critical, EvidenceInv, Recording, Answered, GaugesShow, LastEntryIs
<1>12. ASSUME NEW r \in Request, ClientGone(r) PROVE EvidenceInv'
  BY <1>12 DEF ClientGone, TypeOK, LockInv, Critical, EvidenceInv, Recording, Answered, GaugesShow, LastEntryIs
<1>13. ASSUME NEW r \in Request, GlobalDeadline(r) PROVE EvidenceInv'
  BY <1>13 DEF GlobalDeadline, TypeOK, LockInv, Critical, EvidenceInv, Recording, Answered, GaugesShow, LastEntryIs
<1>14. CASE Tick
  BY <1>14 DEF Tick, TypeOK, LockInv, Critical, EvidenceInv, Recording, Answered, GaugesShow, LastEntryIs
<1>15. CASE UNCHANGED vars
  BY <1>15 DEF vars, TypeOK, LockInv, Critical, EvidenceInv, Recording, Answered, GaugesShow, LastEntryIs
<1> QED
  BY <1>1, <1>2, <1>3, <1>4, <1>5, <1>6, <1>7, <1>8, <1>9, <1>10, <1>11,
     <1>12, <1>13, <1>14, <1>15 DEF Next, Proceed

----------------------------------------------------------------------------
(* The theorems.                                                           *)

\* The inductive invariant holds initially.
LEMMA InitIInv == Init => IInv
<1> SUFFICES ASSUME Init PROVE IInv
  OBVIOUS
<1>1. TypeOK
  BY InitTypeOK
<1>2. LockInv
  BY NobodyAssumption DEF Init, LockInv, Critical
<1>3. ResultsInv
  BY DEF Init, ResultsInv, Recording
<1>4. FreshnessInv
  BY DEF Init, FreshnessInv, Running, NoItem, NoReport
<1>5. NoWastedRun /\ AnswerNotStale
  BY DEF Init, NoWastedRun, AnswerNotStale, Running, Answered
<1>6. HistoryOrdered /\ HistoryInv
  <2>1. Len(history) = 0
    BY DEF Init
  <2> QED
    BY <2>1 DEF HistoryOrdered, HistoryInv
<1>7. EvidenceInv
  BY DEF Init, EvidenceInv, Recording, Answered, NoItem
<1> QED
  BY <1>1, <1>2, <1>3, <1>4, <1>5, <1>6, <1>7 DEF IInv

\* Every step preserves the inductive invariant.
LEMMA NextIInv == IInv /\ [Next]_vars => IInv'
BY NextTypeOK, NextLockInv, NextResultsInv, NextFreshnessInv, NextNoWastedRun,
   NextAnswerNotStale, NextHistoryInv, NextHistoryOrdered, NextEvidenceInv DEF IInv

\* The inductive invariant holds of every behaviour.
THEOREM Invariance == Spec => []IInv
<1>1. Init => IInv
  BY InitIInv
<1>2. IInv /\ [Next]_vars => IInv'
  BY NextIInv
<1> QED
  BY <1>1, <1>2, PTL DEF Spec

\* Every variable keeps its type and the history its capacity.
THEOREM TypeCorrect == Spec => []TypeOK
<1>1. IInv => TypeOK
  BY DEF IInv
<1> QED
  BY <1>1, Invariance, PTL

\* No stampede: an unforced refresh only ever runs the probes while there is
\* no valid report (Handlers.refresh, handlers.go:256-283).
THEOREM NoStampede == Spec => []NoWastedRun
<1>1. IInv => NoWastedRun
  BY DEF IInv
<1> QED
  BY <1>1, Invariance, PTL

\* No request is answered with a report older than the one published when it
\* arrived, nor a forced one with a run that started before it.
THEOREM AnswersAreFresh == Spec => []AnswerNotStale
<1>1. IInv => AnswerNotStale
  BY DEF IInv
<1> QED
  BY <1>1, Invariance, PTL

\* The history lists distinct runs, oldest first.
THEOREM HistoryIsOrdered == Spec => []HistoryOrdered
<1>1. IInv => HistoryOrdered
  BY DEF IInv
<1> QED
  BY <1>1, Invariance, PTL

\* Between refreshes cache, history and gauges describe the same run.
THEOREM EvidenceIsConsistent == Spec => []EvidenceAgrees
<1>1. IInv => EvidenceAgrees
  <2> SUFFICES ASSUME IInv, holder = Nobody, item # NoItem
               PROVE  LastEntryIs(item.data) /\ GaugesShow(item.data)
    BY DEF EvidenceAgrees
  <2>1. \A r \in Request : pc[r] \notin Critical
    BY NobodyAssumption DEF IInv, LockInv
  <2>2. \A r \in Request : ~ Recording(r) /\ pc[r] # "put"
    BY <2>1 DEF Recording, Critical
  <2> QED
    BY <2>2 DEF IInv, EvidenceInv
<1> QED
  BY <1>1, Invariance, PTL

----------------------------------------------------------------------------
(* The refinement of AtomicReport.                                         *)

\* Initial states map to initial states.
LEMMA InitRefines == Init => Atomic!Init
<1> SUFFICES ASSUME Init PROVE Atomic!Init
  OBVIOUS
<1>1. now = 0 /\ item = [data |-> NoReport, expiresAt |-> 0]
  BY DEF Init, NoItem
<1>2. asked = [r \in Request |-> "no"]
  BY DEF Init, asked
<1>3. answer = [r \in Request |-> NoReport]
  BY DEF Init, answer, Answered
<1> QED
  BY <1>1, <1>2, <1>3 DEF Atomic!Init, NoReport, Atomic!NoReport

\* A step that neither asks nor answers is invisible.
LEMMA Invisible ==
    ASSUME UNCHANGED <<now, item, force>>,
           \A q \in Request :
              /\ pc'[q] = "idle" <=> pc[q] = "idle"
              /\ Answered(q)' <=> Answered(q)
              /\ Answered(q) => data'[q] = data[q]
    PROVE  UNCHANGED Atomic!vars
<1>1. asked' = asked
  <2>1. \A q \in Request : pc'[q] = "idle" <=> pc[q] = "idle"
    OBVIOUS
  <2>2. force' = force
    OBVIOUS
  <2> QED
    BY <2>1, <2>2 DEF asked
<1>2. answer' = answer
  <2>1. \A q \in Request : (IF Answered(q)' THEN data'[q] ELSE NoReport)
                           = (IF Answered(q) THEN data[q] ELSE NoReport)
    OBVIOUS
  <2> QED
    BY <2>1 DEF answer
<1> QED
  BY <1>1, <1>2 DEF Atomic!vars

\* Reading a valid cache on behalf of r is Atomic's Serve.
LEMMA ServeStep ==
    ASSUME TypeOK, NEW r \in Request,
           pc[r] # "idle", ~ Answered(r), ~ force[r], CacheValid,
           UNCHANGED <<now, item, force>>,
           data' = [data EXCEPT ![r] = item.data],
           \E after \in {"unlock", "done"} : pc' = [pc EXCEPT ![r] = after]
    PROVE  Atomic!Serve(r)
<1>1. asked' = asked /\ asked[r] = "cached"
  BY DEF asked, TypeOK
<1>2. answer[r] = NoReport
  BY DEF answer
<1>3. answer' = [answer EXCEPT ![r] = item.data]
  BY DEF answer, Answered, TypeOK
<1>4. Atomic!Valid
  BY DEF Atomic!Valid, CacheValid
<1> QED
  BY <1>1, <1>2, <1>3, <1>4 DEF Atomic!Serve, Atomic!Waiting, NoReport, Atomic!NoReport

\* Every step maps to a step of AtomicReport or to a stutter.
LEMMA NextRefines == IInv /\ [Next]_vars => [Atomic!Next]_(Atomic!vars)
<1> SUFFICES ASSUME IInv, [Next]_vars PROVE [Atomic!Next]_(Atomic!vars)
  OBVIOUS
<1> USE DEF IInv
<1>1. ASSUME NEW r \in Request, ResolveData(r) PROVE [Atomic!Next]_(Atomic!vars)
  <2>1. PICK f \in BOOLEAN :
          /\ force' = [force EXCEPT ![r] = f]
          /\ pc' = [pc EXCEPT ![r] = IF f THEN "lock" ELSE "cached"]
    BY <1>1 DEF ResolveData
  <2>2. asked[r] = "no"
    BY <1>1 DEF ResolveData, asked
  <2>3. asked' = [asked EXCEPT ![r] = IF f THEN "forced" ELSE "cached"]
    BY <2>1 DEF asked, TypeOK
  <2>4. answer' = answer
    BY <1>1, <2>1 DEF ResolveData, answer, Answered, TypeOK
  <2>5. Atomic!Ask(r)
    BY <1>1, <2>2, <2>3, <2>4 DEF ResolveData, Atomic!Ask
  <2> QED
    BY <2>5 DEF Atomic!Next
<1>2. ASSUME NEW r \in Request, CachedData(r) PROVE [Atomic!Next]_(Atomic!vars)
  <2>1. CASE CacheValid
    <3>1. ~ force[r] /\ pc[r] = "cached"
      BY <1>2 DEF CachedData, FreshnessInv
    <3>2. Atomic!Serve(r)
      BY <1>2, <2>1, <3>1, ServeStep DEF CachedData, Answered
    <3> QED
      BY <3>2 DEF Atomic!Next
  <2>2. CASE ~ CacheValid
    <3>1. UNCHANGED <<now, item, force, data>> /\ pc[r] = "cached"
          /\ pc' = [pc EXCEPT ![r] = "lock"]
      BY <1>2, <2>2 DEF CachedData
    <3>2. \A q \in Request :
            /\ pc'[q] = "idle" <=> pc[q] = "idle"
            /\ Answered(q)' <=> Answered(q)
            /\ Answered(q) => data'[q] = data[q]
      BY <3>1 DEF Answered, TypeOK
    <3> QED
      BY <3>1, <3>2, Invisible
  <2> QED
    BY <2>1, <2>2
<1>3. ASSUME NEW r \in Request, LockRefresh(r) PROVE [Atomic!Next]_(Atomic!vars)
  <2>1. UNCHANGED <<now, item, force>>
    BY <1>3 DEF LockRefresh
  <2>2. \A q \in Request :
          /\ pc'[q] = "idle" <=> pc[q] = "idle"
          /\ Answered(q)' <=> Answered(q)
          /\ Answered(q) => data'[q] = data[q]
    BY <1>3 DEF LockRefresh, Answered, TypeOK
  <2> QED
    BY <2>1, <2>2, Invisible
<1>4. ASSUME NEW r \in Request, RecheckHit(r) PROVE [Atomic!Next]_(Atomic!vars)
  <2>1. Atomic!Serve(r)
    BY <1>4, ServeStep DEF RecheckHit, CacheSuffices, Answered
  <2> QED
    BY <2>1 DEF Atomic!Next
<1>5. ASSUME NEW r \in Request, StartRun(r) PROVE [Atomic!Next]_(Atomic!vars)
  <2>1. UNCHANGED <<now, item, force>>
    BY <1>5 DEF StartRun
  <2>2. \A q \in Request :
          /\ pc'[q] = "idle" <=> pc[q] = "idle"
          /\ Answered(q)' <=> Answered(q)
          /\ Answered(q) => data'[q] = data[q]
    BY <1>5 DEF StartRun, Answered, TypeOK
  <2> QED
    BY <2>1, <2>2, Invisible
<1>6. ASSUME NEW r \in Request, RunOne(r) PROVE [Atomic!Next]_(Atomic!vars)
  <2>1. UNCHANGED <<now, item, force>>
    BY <1>6 DEF RunOne
  <2>2. \A q \in Request :
          /\ pc'[q] = "idle" <=> pc[q] = "idle"
          /\ Answered(q)' <=> Answered(q)
          /\ Answered(q) => data'[q] = data[q]
    BY <1>6 DEF RunOne, Answered, TypeOK
  <2> QED
    BY <2>1, <2>2, Invisible
<1>7. ASSUME NEW r \in Request, RunPanics(r) PROVE [Atomic!Next]_(Atomic!vars)
  <2>1. UNCHANGED <<now, item, force>>
    BY <1>7 DEF RunPanics
  <2>2. \A q \in Request :
          /\ pc'[q] = "idle" <=> pc[q] = "idle"
          /\ Answered(q)' <=> Answered(q)
          /\ Answered(q) => data'[q] = data[q]
    BY <1>7 DEF RunPanics, Answered, TypeOK
  <2> QED
    BY <2>1, <2>2, Invisible
<1>8. ASSUME NEW r \in Request, SetProbeStatus(r) PROVE [Atomic!Next]_(Atomic!vars)
  <2>1. UNCHANGED <<now, item, force>>
    BY <1>8 DEF SetProbeStatus
  <2>2. \A q \in Request :
          /\ pc'[q] = "idle" <=> pc[q] = "idle"
          /\ Answered(q)' <=> Answered(q)
          /\ Answered(q) => data'[q] = data[q]
    BY <1>8 DEF SetProbeStatus, Answered, TypeOK
  <2> QED
    BY <2>1, <2>2, Invisible
<1>9. ASSUME NEW r \in Request, AppendHistory(r) PROVE [Atomic!Next]_(Atomic!vars)
  <2>1. UNCHANGED <<now, item, force>>
    BY <1>9 DEF AppendHistory
  <2>2. \A q \in Request :
          /\ pc'[q] = "idle" <=> pc[q] = "idle"
          /\ Answered(q)' <=> Answered(q)
          /\ Answered(q) => data'[q] = data[q]
    BY <1>9 DEF AppendHistory, Answered, TypeOK
  <2> QED
    BY <2>1, <2>2, Invisible
<1>10. ASSUME NEW r \in Request, PutCache(r) PROVE [Atomic!Next]_(Atomic!vars)
  <2>1. /\ pc[r] = "put" /\ pc' = [pc EXCEPT ![r] = "unlock"]
        /\ UNCHANGED <<now, force, data>>
        /\ item' = [data |-> data[r], expiresAt |-> now + TTL]
    BY <1>10 DEF PutCache
  <2>2. asked' = asked /\ asked[r] # "no"
    BY <2>1 DEF asked, TypeOK
  <2>3. answer[r] = NoReport
    BY <2>1 DEF answer, Answered
  <2>4. answer' = [answer EXCEPT ![r] = item'.data]
    BY <2>1 DEF answer, Answered, TypeOK
  <2>5. asked[r] = "forced" \/ ~ Atomic!Valid
    <3>1. CASE force[r]
      BY <2>1, <3>1 DEF asked
    <3>2. CASE ~ force[r]
      BY <2>1, <3>2 DEF NoWastedRun, Running, CacheValid, Atomic!Valid
    <3> QED
      BY <3>1, <3>2
  <2>6. item'.data.startedAt > item.data.startedAt
    BY <2>1 DEF FreshnessInv, Running, TypeOK, Report
  <2>7. Atomic!Refresh(r)
    BY <2>1, <2>2, <2>3, <2>4, <2>5, <2>6
    DEF Atomic!Refresh, Atomic!Waiting, NoReport, Atomic!NoReport
  <2> QED
    BY <2>7 DEF Atomic!Next
<1>11. ASSUME NEW r \in Request, UnlockRefresh(r) PROVE [Atomic!Next]_(Atomic!vars)
  <2>1. UNCHANGED <<now, item, force>>
    BY <1>11 DEF UnlockRefresh
  <2>2. \A q \in Request :
          /\ pc'[q] = "idle" <=> pc[q] = "idle"
          /\ Answered(q)' <=> Answered(q)
          /\ Answered(q) => data'[q] = data[q]
    BY <1>11 DEF UnlockRefresh, Answered, TypeOK
  <2> QED
    BY <2>1, <2>2, Invisible
<1>12. ASSUME NEW r \in Request, ClientGone(r) PROVE [Atomic!Next]_(Atomic!vars)
  <2>1. UNCHANGED <<now, item, force>>
    BY <1>12 DEF ClientGone
  <2>2. \A q \in Request :
          /\ pc'[q] = "idle" <=> pc[q] = "idle"
          /\ Answered(q)' <=> Answered(q)
          /\ Answered(q) => data'[q] = data[q]
    BY <1>12 DEF ClientGone, Answered, TypeOK
  <2> QED
    BY <2>1, <2>2, Invisible
<1>13. ASSUME NEW r \in Request, GlobalDeadline(r) PROVE [Atomic!Next]_(Atomic!vars)
  <2>1. UNCHANGED <<now, item, force>>
    BY <1>13 DEF GlobalDeadline
  <2>2. \A q \in Request :
          /\ pc'[q] = "idle" <=> pc[q] = "idle"
          /\ Answered(q)' <=> Answered(q)
          /\ Answered(q) => data'[q] = data[q]
    BY <1>13 DEF GlobalDeadline, Answered, TypeOK
  <2> QED
    BY <2>1, <2>2, Invisible
<1>14. CASE Tick
  <2>1. now' > now
    BY <1>14 DEF Tick, TypeOK
  <2>2. UNCHANGED <<item, asked, answer>>
    BY <1>14 DEF Tick, asked, answer, Answered
  <2> QED
    BY <2>1, <2>2 DEF Atomic!Next, Atomic!Advance
<1>15. CASE UNCHANGED vars
  BY <1>15, Invisible DEF vars, Answered
<1> QED
  BY <1>1, <1>2, <1>3, <1>4, <1>5, <1>6, <1>7, <1>8, <1>9, <1>10, <1>11,
     <1>12, <1>13, <1>14, <1>15 DEF Next, Proceed

\* The concurrent handlers answer as the one-step specification does: every
\* behaviour of ReportService is one of AtomicReport.
THEOREM Refinement == Spec => ImplementsAtomicReport
<1>1. Init => Atomic!Init
  BY InitRefines
<1>2. IInv /\ [Next]_vars => [Atomic!Next]_(Atomic!vars)
  BY NextRefines
<1> QED
  BY <1>1, <1>2, Invariance, PTL DEF Spec, ImplementsAtomicReport, Atomic!Spec
=============================================================================
