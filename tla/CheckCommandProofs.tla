------------------------- MODULE CheckCommandProofs -------------------------
(***************************************************************************)
(* Proofs about CheckCommand and the rule engine it uses: what the exit    *)
(* code, the history, the hints and the evidence file say of a run.        *)
(***************************************************************************)
EXTENDS CheckCommand, HistoryEntriesProofs, WellFoundedInduction, TLAPS

----------------------------------------------------------------------------
(* The loop of Analyze.                                                    *)

\* A set of naturals that is not empty has a least element.
LEMMA LeastElement ==
    ASSUME NEW T \in SUBSET Nat, T # {}
    PROVE  \E m \in T : \A k \in T : m <= k
<1> DEFINE R == OpToRel(<, Nat)
<1>1. PICK m \in T : \A k \in T : ~ (<<k, m>> \in R)
  <2>1. IsWellFoundedOn(R, Nat)
    BY NatLessThanWellFounded, Zenon
  <2> HIDE DEF R
  <2> QED
    BY <2>1, WFMin, Zenon
<1>2. \A k \in T : k < m => <<k, m>> \in R
  BY Zenon DEF OpToRel
<1>3. \A k \in T : ~ (k < m)
  BY <1>1, <1>2
<1> QED
  BY <1>3

\* One turn of the loop: the hints after n rules, from those after n - 1.
Turn(found, n, res) ==
    IF n = 0 THEN << >>
    ELSE IF Matches(Rules[n], res) THEN Append(found[n - 1], Rules[n])
    ELSE found[n - 1]

\* found holds the hints after each of the first n rules.
IsLoop(found, n, res) == found = [k \in 0..n |-> Turn(found, k, res)]

\* The loop runs, for however many rules.
LEMMA LoopExists == ASSUME NEW res PROVE \A n \in Nat : \E found : IsLoop(found, n, res)
<1> DEFINE Stuck == {n \in Nat : ~ \E found : IsLoop(found, n, res)}
<1> SUFFICES ASSUME Stuck # {} PROVE FALSE
  OBVIOUS
<1>1. PICK m \in Stuck : \A k \in Stuck : m <= k
  BY LeastElement
<1>2. CASE m = 0
  <2> DEFINE start == [k \in 0..0 |-> << >>]
  <2>1. start = [k \in 0..0 |-> Turn(start, k, res)]
    BY DEF Turn
  <2> QED
    BY <1>2, <2>1 DEF IsLoop
<1>3. CASE m # 0
  <2>1. m - 1 \in Nat /\ m - 1 \notin Stuck
    BY <1>1, <1>3
  <2>2. PICK found : IsLoop(found, m - 1, res)
    BY <2>1
  <2> DEFINE longer == [k \in 0..m |-> IF k = m THEN Turn(found, m, res) ELSE found[k]]
  <2>3. ASSUME NEW k \in 0..m PROVE longer[k] = Turn(longer, k, res)
    <3>1. CASE k = 0
      BY <3>1, <2>1, <2>2, <1>3 DEF IsLoop, Turn
    <3>2. CASE k # 0
      <4>1. k - 1 \in 0..m /\ k - 1 # m
        BY <3>2
      <4>2. longer[k - 1] = found[k - 1]
        BY <4>1, SMTT(30)
      <4>3. Turn(longer, k, res) = Turn(found, k, res)
        BY <4>2, <3>2 DEF Turn
      <4>4. k # m => found[k] = Turn(found, k, res)
        BY <2>1, <2>2 DEF IsLoop
      <4> QED
        BY <4>3, <4>4
    <3> QED
      BY <3>1, <3>2
  <2>4. longer = [k \in 0..m |-> Turn(longer, k, res)]
    BY <2>3
  <2> QED
    BY <2>4 DEF IsLoop
<1> QED
  BY <1>2, <1>3

\* There are finitely many rules.
LEMMA RulesLength == Len(Rules) \in Nat /\ DOMAIN Rules = 1..Len(Rules)
BY DEF Rules

RuleSet == {Rules[r] : r \in DOMAIN Rules}

\* No rule is there twice.
LEMMA RulesDistinct == \A a, b \in DOMAIN Rules : Rules[a] = Rules[b] => a = b
<1>1. \A a \in 1..10 : Rules[a].id =
        <<"igw-route-table", "subnet-placement", "public-ip-assignment", "default-route",
          "vpc-mismatch", "dns-configuration", "imds-configuration", "clock-skew-critical",
          "clock-skew-warning", "system-resources">>[a]
  BY DEF Rules, Rule
<1>2. DOMAIN Rules = 1..10
  BY DEF Rules
<1> QED
  BY <1>1, <1>2

\* The hints come in the order of the rules, and so each of them once.
InOrder(hit) ==
    \A i, j \in DOMAIN hit : i < j =>
        \A a, b \in DOMAIN Rules : hit[i] = Rules[a] /\ hit[j] = Rules[b] => a < b

\* What the loop has found after n rules: the rules among them that match, and
\* nothing else.
FoundRight(hit, n, res) ==
    /\ hit \in Seq(RuleSet)
    /\ InOrder(hit)
    /\ \A i \in DOMAIN hit : \E r \in 1..n :
            Matches(Rules[r], res) /\ hit[i] = Rules[r]
    /\ \A r \in 1..n : Matches(Rules[r], res) =>
            \E i \in DOMAIN hit : hit[i] = Rules[r]

\* For any results Analyze returns the rules that match, all of them and no
\* other, each once and in the rules' order.
THEOREM AnalyzeFinds ==
    ASSUME NEW res
    PROVE  FoundRight(Analyze(res), Len(Rules), res)
<1> DEFINE found == CHOOSE f : IsLoop(f, Len(Rules), res)
           Wrong == {n \in 0..Len(Rules) : ~ FoundRight(found[n], n, res)}
<1>1. IsLoop(found, Len(Rules), res)
  BY LoopExists, RulesLength
<1>2. Analyze(res) = found[Len(Rules)]
  BY DEF Analyze, IsLoop, Turn
<1> HIDE DEF found
<1>3. \A n \in 0..Len(Rules) : found[n] = Turn(found, n, res)
  BY <1>1 DEF IsLoop
<1> SUFFICES ASSUME Wrong # {} PROVE FALSE
  BY <1>2, RulesLength
<1>4. PICK n \in Wrong : \A k \in Wrong : n <= k
  <2>1. Wrong \in SUBSET Nat
    BY RulesLength
  <2> HIDE DEF Wrong
  <2> QED
    BY <2>1, LeastElement
<1>5. CASE n = 0
  <2>1. found[0] = << >>
    BY <1>3, RulesLength DEF Turn
  <2>2. FoundRight(<< >>, 0, res)
    BY DEF FoundRight, InOrder
  <2> QED
    BY <1>4, <1>5, <2>1, <2>2
<1>6. CASE n # 0
  <2>1. n \in 1..Len(Rules) /\ n - 1 \in 0..Len(Rules) /\ n - 1 \notin Wrong
    BY <1>4, <1>6, RulesLength
  <2> DEFINE before == found[n - 1]
  <2>2. FoundRight(before, n - 1, res)
    BY <2>1
  <2>3. before \in Seq(RuleSet) /\ Rules[n] \in RuleSet
    BY <2>1, <2>2, RulesLength DEF FoundRight, RuleSet
  <2>4. 1..n = (1..(n - 1)) \cup {n}
    BY <2>1, RulesLength
  <2> HIDE DEF before
  <2>5. CASE ~ Matches(Rules[n], res)
    <3>1. found[n] = before
      BY <1>3, <1>6, <2>1, <2>5 DEF Turn, before
    <3>2. FoundRight(before, n, res)
      BY <2>2, <2>4, <2>5 DEF FoundRight
    <3> QED
      BY <1>4, <3>1, <3>2
  <2>6. CASE Matches(Rules[n], res)
    <3>1. found[n] = Append(before, Rules[n])
      BY <1>3, <1>6, <2>1, <2>6 DEF Turn, before
    <3> DEFINE after == Append(before, Rules[n])
    <3>2. /\ after \in Seq(RuleSet)
          /\ Len(after) = Len(before) + 1
          /\ after[Len(before) + 1] = Rules[n]
          /\ \A i \in 1..Len(before) : after[i] = before[i]
      BY <2>3, AppendProperties
    <3>3. DOMAIN before = 1..Len(before) /\ Len(before) \in Nat
      BY <2>3, LenProperties
    <3>4. DOMAIN after = (1..Len(before)) \cup {Len(before) + 1}
      BY <3>2, <3>3, LenProperties
    <3> HIDE DEF after
    <3>5. ASSUME NEW i \in DOMAIN after
          PROVE  \E r \in 1..n : Matches(Rules[r], res) /\ after[i] = Rules[r]
      <4>1. CASE i = Len(before) + 1
        BY <2>1, <2>6, <3>2, <4>1
      <4>2. CASE i \in 1..Len(before)
        <5>1. PICK r \in 1..(n - 1) : Matches(Rules[r], res) /\ before[i] = Rules[r]
          BY <2>2, <3>3, <4>2 DEF FoundRight
        <5> QED
          BY <2>4, <3>2, <4>2, <5>1
      <4> QED
        BY <3>4, <3>5, <4>1, <4>2
    <3>6. ASSUME NEW r \in 1..n, Matches(Rules[r], res)
          PROVE  \E i \in DOMAIN after : after[i] = Rules[r]
      <4>1. CASE r = n
        BY <3>2, <3>4, <4>1
      <4>2. CASE r \in 1..(n - 1)
        <5>1. PICK i \in DOMAIN before : before[i] = Rules[r]
          BY <2>2, <3>6, <4>2 DEF FoundRight
        <5> QED
          BY <3>2, <3>3, <3>4, <5>1
      <4> QED
        BY <2>4, <4>1, <4>2
    <3>7. ASSUME NEW i \in DOMAIN after, NEW j \in DOMAIN after, i < j,
                 NEW a \in DOMAIN Rules, NEW b \in DOMAIN Rules,
                 after[i] = Rules[a], after[j] = Rules[b]
          PROVE  a < b
      <4>1. i \in 1..Len(before)
        BY <3>3, <3>4, <3>7
      <4>2. CASE j \in 1..Len(before)
        <5>1. before[i] = Rules[a] /\ before[j] = Rules[b]
          BY <3>2, <3>7, <4>1, <4>2
        <5>2. InOrder(before)
          BY <2>2 DEF FoundRight
        <5> QED
          BY <3>3, <3>7, <4>1, <4>2, <5>1, <5>2 DEF InOrder
      <4>3. CASE j = Len(before) + 1
        <5>1. PICK r \in 1..(n - 1) : before[i] = Rules[r]
          BY <2>2, <3>3, <4>1 DEF FoundRight
        <5>2. r \in DOMAIN Rules /\ n \in DOMAIN Rules
          BY <2>1, RulesLength
        <5>3. a = r /\ b = n
          BY <3>2, <3>7, <4>1, <4>3, <5>1, <5>2, RulesDistinct
        <5> QED
          BY <2>1, <5>3, RulesLength
      <4> QED
        BY <3>4, <4>2, <4>3
    <3>8. FoundRight(after, n, res)
      BY <3>2, <3>5, <3>6, <3>7 DEF FoundRight, InOrder
    <3> QED
      BY <1>4, <3>1, <3>8 DEF after
  <2> QED
    BY <2>5, <2>6
<1> QED
  BY <1>5, <1>6

----------------------------------------------------------------------------
(* The suite of probes.                                                    *)

\* The suite lists each probe once ...
LEMMA SuiteLength == Len(Suite) = 9 /\ DOMAIN Suite = 1..9
BY DEF Suite

LEMMA SuiteDistinct == \A i, j \in 1..9 : Suite[i] = Suite[j] => i = j
BY DEF Suite

\* ... so that the result with a probe's name is the one at its place.
LEMMA StatusAt ==
    ASSUME NEW res, NEW i \in 1..9
    PROVE  StatusOf(res, Suite[i]) = res[i].status
<1>1. (CHOOSE j \in DOMAIN Suite : Suite[j] = Suite[i]) = i
  BY SuiteLength, SuiteDistinct
<1> QED
  BY <1>1 DEF StatusOf

\* A probe grades what it observes by one of the statuses.
LEMMA OwnStatusTyped == \A p \in Probe : OwnStatus[p] \subseteq Status
<1>1. \A good : Verdict(good) \in Status
  BY DEF Verdict, Status
<1>2. \A meta, external : PublicIPStatus(meta, external) \in Status
  BY <1>1 DEF PublicIPStatus, Status
<1>3. \A files, mem, load : SystemStatus(files, mem, load) \in Status
  BY DEF SystemStatus, Status
<1>4. \A measured : ClockStatus(measured, 1) \in Status
  BY DEF ClockStatus, Status
<1>5. OwnStatus["metadata"] \subseteq Status
  BY DEF OwnStatus, MetadataStatus, Verdict, Status
<1>6. OwnStatus["vpc_ownership"] \subseteq Status
  BY DEF OwnStatus, OwnershipStatus, Verdict, Status
<1>7. OwnStatus["subnet_ownership"] \subseteq Status
  BY DEF OwnStatus, OwnershipStatus, Verdict, Status
<1>8. OwnStatus["default_route"] \subseteq Status
  BY DEF OwnStatus, RouteStatus, Verdict, Status
<1>9. OwnStatus["dns"] \subseteq Status
  BY DEF OwnStatus, DNSStatus, Verdict, Status
<1>10. OwnStatus["internet_https"] \subseteq Status
  BY DEF OwnStatus, InternetHTTPSStatus, Verdict, Status
<1>11. OwnStatus["public_ip_consistency"] \subseteq Status
  BY <1>2 DEF OwnStatus
<1>12. OwnStatus["system_resources"] \subseteq Status
  BY <1>3 DEF OwnStatus
<1>13. OwnStatus["clock_skew"] \subseteq Status
  BY <1>4 DEF OwnStatus, Status
<1> QED
  BY <1>5, <1>6, <1>7, <1>8, <1>9, <1>10, <1>11, <1>12, <1>13 DEF Probe, Suite

\* Names are resolved or they are not.
LEMMA OwnStatusOfDNS == OwnStatus["dns"] \subseteq {"pass", "fail"}
BY DEF OwnStatus, DNSStatus, Verdict

\* The runner keeps a probe's status, or warns that it was late.
LEMMA RunnerStatus ==
    ASSUME NEW outcome, NEW err
    PROVE  RunnerResult(outcome, err).status \in {outcome, "warn"}
BY Zenon DEF RunnerResult

----------------------------------------------------------------------------
(* The inductive invariant.                                                *)

\* What the runner reports of a probe.
LEMMA ReportedResult ==
    ASSUME NEW p \in Probe, NEW outcome \in OwnStatus[p], NEW err \in {"none", "deadline"}
    PROVE  /\ RunnerResult(outcome, err) \in Result
           /\ RunnerResult(outcome, err).status \in OwnStatus[p] \cup {"warn"}
<1>1. outcome \in Status /\ err \in ContextErr
  BY OwnStatusTyped DEF ContextErr
<1> QED
  BY <1>1, RunnerResultType, RunnerStatus

\* The history of a process starts with its first run: nothing is evicted.
LEMMA FirstEntry ==
    ASSUME NEW entry
    PROVE  Appended(<< >>, entry, HistoryCapacity) = <<entry>>
BY DEF Appended, Capped, HistoryCapacity

\* Analyze gives no hint but those of the rules.
LEMMA HintsKnown == ASSUME NEW res PROVE HintIds(Analyze(res)) \subseteq HintIds(Rules)
<1>1. \A i \in DOMAIN Analyze(res) : \E r \in DOMAIN Rules : Analyze(res)[i] = Rules[r]
  BY AnalyzeFinds, RulesLength DEF FoundRight
<1> QED
  BY <1>1 DEF HintIds

\* The exit code is one of the three `check` has.
LEMMA ExitCodeType == ASSUME NEW status PROVE ExitCode(status) \in {0, 1, 2}
BY DEF ExitCode

LEMMA InitInv == Init => IInv
<1> SUFFICES ASSUME Init PROVE IInv
  OBVIOUS
<1> USE DEF Init
<1>1. TypeOK
  <2>1. results \in Seq(Result) /\ Len(results) = 0 /\ history \in Seq(Entry) /\ Len(history) = 0
    OBVIOUS
  <2>2. HintIds(hints) \subseteq HintIds(Rules)
    BY DEF HintIds
  <2> QED
    BY <2>1, <2>2, SuiteLength DEF TypeOK
<1>2. ResultsInv
  BY SuiteLength DEF ResultsInv
<1>3. HistoryInv /\ ReportInv /\ ExitInv /\ WrittenOrTold
  BY DEF HistoryInv, ReportInv, ExitInv, WrittenOrTold
<1> QED
  BY <1>1, <1>2, <1>3 DEF IInv

LEMMA RunOneKeeps == ASSUME IInv, RunOne PROVE IInv'
<1>1. PICK outcome \in OwnStatus[Suite[Len(results) + 1]], err \in {"none", "deadline"} :
          results' = Append(results, RunnerResult(outcome, err))
  BY DEF RunOne
<1> DEFINE new == RunnerResult(outcome, err)
<1>2. results \in Seq(Result) /\ pc = "run"
  BY DEF IInv, TypeOK, RunOne
<1>n. PICK n \in 0..8 : n = Len(results)
  <2>1. Len(results) \in Nat /\ Len(results) < 9
    BY <1>2, SuiteLength, LenProperties DEF IInv, ResultsInv
  <2>2. \A k \in Nat : k < 9 => k \in 0..8
    OBVIOUS
  <2> QED
    BY <2>1, <2>2, Zenon
<1>3. Suite[n + 1] \in Probe
  <2>1. n + 1 \in DOMAIN Suite
    BY SuiteLength
  <2> QED
    BY <2>1, Zenon DEF Probe
<1>4. new \in Result /\ new.status \in OwnStatus[Suite[n + 1]] \cup {"warn"}
  BY <1>3, <1>n, ReportedResult
<1> HIDE DEF new
<1>5. results' \in Seq(Result) /\ Len(results') = n + 1
  BY <1>1, <1>2, <1>n, <1>4 DEF new
<1>6. pc' = IF n + 1 = 9 THEN "record" ELSE "run"
  BY <1>n, SuiteLength DEF RunOne
<1>7. UNCHANGED <<command, history, hints, data, file, exit>>
  BY DEF RunOne
<1>8. ResultsInv'
  <2>1. ASSUME NEW i \in DOMAIN results'
        PROVE  results'[i].status \in OwnStatus[Suite[i]] \cup {"warn"}
    <3>1. CASE i = n + 1
      BY <1>1, <1>2, <1>n, <1>4, <3>1 DEF new
    <3>2. CASE i # n + 1
      <4>1. i \in DOMAIN results /\ results'[i] = results[i]
        BY <1>1, <1>2, <1>n, <1>5, <3>2, LenProperties
      <4> QED
        BY <4>1 DEF IInv, ResultsInv
    <3> QED
      BY <3>1, <3>2
  <2>2. pc' = "run" <=> n + 1 < 9
    BY <1>6
  <2> QED
    BY <2>1, <2>2, <1>5, SuiteLength DEF ResultsInv
<1>9. TypeOK'
  <2>1. Len(results') <= Len(Suite) /\ pc' \in {"run", "record"}
    BY <1>5, <1>6, SuiteLength
  <2>2. HintIds(hints)' \subseteq HintIds(Rules)
    BY <1>7 DEF IInv, TypeOK, HintIds
  <2> QED
    BY <2>1, <2>2, <1>2, <1>5, <1>7 DEF IInv, TypeOK
<1>10. HistoryInv' /\ ReportInv'
  BY <1>2, <1>6, <1>7 DEF IInv, HistoryInv, ReportInv
<1>11. ExitInv' /\ WrittenOrTold'
  BY <1>2, <1>6, <1>7 DEF IInv, ExitInv, WrittenOrTold
<1> QED
  BY <1>8, <1>9, <1>10, <1>11 DEF IInv

LEMMA RecordKeeps == ASSUME IInv, Record PROVE IInv'
<1> DEFINE report == [startedAt |-> 1, results |-> results]
<1>1. /\ pc = "record" /\ pc' = "report"
      /\ UNCHANGED <<command, results, hints, data, file, exit>>
  BY DEF Record
<1>2. history' = <<FromReport(report)>>
  BY <1>1, FirstEntry DEF Record, IInv, HistoryInv
<1>3. FromReport(report) \in Entry
  <2>1. report \in Report
    BY DEF Report, IInv, TypeOK
  <2> QED
    BY <2>1, FromReportType
<1> HIDE DEF report
<1>4. TypeOK'
  <2>1. history' \in Seq(Entry) /\ Len(history') = 1
    BY <1>2, <1>3
  <2> QED
    BY <1>1, <2>1 DEF IInv, TypeOK, HintIds
<1>5. ResultsInv'
  BY <1>1 DEF IInv, ResultsInv
<1>6. HistoryInv'
  BY <1>1, <1>2 DEF HistoryInv, report
<1>7. ReportInv'
  BY <1>1 DEF IInv, ReportInv
<1>8. ExitInv' /\ WrittenOrTold'
  BY <1>1 DEF IInv, ExitInv, WrittenOrTold
<1> QED
  BY <1>4, <1>5, <1>6, <1>7, <1>8 DEF IInv

\* check, diagnose and report read the finished run and leave it alone.
LEMMA CheckReportsKeeps == ASSUME IInv, CheckReports PROVE IInv'
<1>1. /\ pc = "report" /\ pc' = "exited" /\ command = "check"
      /\ exit' = ExitCode(OverallStatus(results))
      /\ UNCHANGED <<command, results, history, hints, data, file>>
  BY DEF CheckReports
<1>2. TypeOK'
  <2>1. exit' \in {0, 1, 2}
    BY <1>1, ExitCodeType
  <2> QED
    BY <1>1, <2>1 DEF IInv, TypeOK, HintIds
<1>3. ResultsInv' /\ HistoryInv'
  BY <1>1 DEF IInv, ResultsInv, HistoryInv
<1>4. ReportInv'
  BY <1>1 DEF IInv, ReportInv
<1>5. ExitInv' /\ WrittenOrTold'
  BY <1>1 DEF IInv, ExitInv, WrittenOrTold
<1> QED
  BY <1>2, <1>3, <1>4, <1>5 DEF IInv

LEMMA DiagnoseReportsKeeps == ASSUME IInv, DiagnoseReports PROVE IInv'
<1>1. /\ pc = "report" /\ pc' = "exited" /\ command = "diagnose"
      /\ hints' = Analyze(results) /\ exit' = 0
      /\ UNCHANGED <<command, results, history, data, file>>
  BY DEF DiagnoseReports
<1>2. TypeOK'
  <2>1. HintIds(hints)' \subseteq HintIds(Rules)
    BY <1>1, HintsKnown DEF HintIds
  <2> QED
    BY <1>1, <2>1 DEF IInv, TypeOK
<1>3. ResultsInv' /\ HistoryInv'
  BY <1>1 DEF IInv, ResultsInv, HistoryInv
<1>4. ReportInv'
  BY <1>1 DEF IInv, ReportInv
<1>5. ExitInv' /\ WrittenOrTold'
  BY <1>1 DEF IInv, ExitInv, WrittenOrTold
<1> QED
  BY <1>2, <1>3, <1>4, <1>5 DEF IInv

LEMMA ReportOpensKeeps == ASSUME IInv, ReportOpens PROVE IInv'
<1>1. /\ pc = "report" /\ command = "report"
      /\ hints' = Analyze(results)
      /\ data' = Build(results, Analyze(results))
      /\ UNCHANGED <<command, results, history>>
  BY DEF ReportOpens
<1>2. \/ file' = "empty" /\ pc' = "write" /\ exit' = exit
      \/ exit' = 1 /\ pc' = "exited" /\ file' = file
  BY DEF ReportOpens
<1>3. exit = NoExit /\ file # "written"
  BY <1>1 DEF IInv, ExitInv
<1>4. TypeOK'
  <2>1. HintIds(hints)' \subseteq HintIds(Rules)
    BY <1>1, HintsKnown DEF HintIds
  <2> QED
    BY <1>1, <1>2, <2>1 DEF IInv, TypeOK
<1>5. ResultsInv' /\ HistoryInv'
  BY <1>1, <1>2 DEF IInv, ResultsInv, HistoryInv
<1>6. ReportInv'
  BY <1>1, <1>2 DEF ReportInv
<1>7. ExitInv' /\ WrittenOrTold'
  BY <1>1, <1>2, <1>3 DEF ExitInv, WrittenOrTold
<1> QED
  BY <1>4, <1>5, <1>6, <1>7 DEF IInv

\* The write ends, or the process is killed during it.
LEMMA WriteEndsKeeps == ASSUME IInv, ReportWrites \/ ReportKilled PROVE IInv'
<1>1. /\ pc = "write" /\ pc' = "exited"
      /\ UNCHANGED <<command, results, history, hints, data>>
  BY DEF ReportWrites, ReportKilled
<1>2. \/ file' = "written" /\ exit' = 0
      \/ file' \in {"empty", "torn"} /\ exit' \in {1, Killed}
  BY DEF ReportWrites, ReportKilled, ExitAfterFailedWrite
<1>3. command = "report"
  BY <1>1 DEF IInv, ReportInv
<1>4. TypeOK'
  BY <1>1, <1>2, <1>3 DEF IInv, TypeOK, HintIds
<1>5. ResultsInv' /\ HistoryInv'
  BY <1>1 DEF IInv, ResultsInv, HistoryInv
<1>6. ReportInv'
  BY <1>1 DEF IInv, ReportInv
<1>7. ExitInv' /\ WrittenOrTold'
  BY <1>1, <1>2, <1>3 DEF ExitInv, WrittenOrTold, Killed
<1> QED
  BY <1>4, <1>5, <1>6, <1>7 DEF IInv

\* Every step keeps the invariant.
LEMMA StepInv == IInv /\ [Next]_vars => IInv'
<1> SUFFICES ASSUME IInv, [Next]_vars PROVE IInv'
  OBVIOUS
<1>1. CASE UNCHANGED vars
  BY <1>1 DEF vars, IInv, TypeOK, HintIds, ResultsInv, HistoryInv, ReportInv, ExitInv,
              WrittenOrTold
<1> QED
  BY <1>1, RunOneKeeps, RecordKeeps, CheckReportsKeeps, DiagnoseReportsKeeps,
     ReportOpensKeeps, WriteEndsKeeps DEF Next

\* The commands keep the invariant.
THEOREM Invariance == Spec => []IInv
BY InitInv, StepInv, PTL DEF Spec

\* Everything has its type in every state: nothing is evicted from the history
\* of a process that runs the suite once, whatever is observed.
THEOREM TypeCorrect == Spec => []TypeOK
<1>1. IInv => TypeOK
  BY DEF IInv
<1> QED
  BY <1>1, Invariance, PTL

\* `report` exits 0 exactly when its file was written.
THEOREM FileWrittenOrTold == Spec => []WrittenOrTold
<1>1. IInv => WrittenOrTold
  BY DEF IInv
<1> QED
  BY <1>1, Invariance, PTL

----------------------------------------------------------------------------
(* The exit code and the history.                                          *)

\* A run that was reported has all its results and is the history's only entry.
LEMMA FinishedRun ==
    ASSUME IInv, pc \in {"write", "exited"}
    PROVE  /\ results \in Seq(Result) /\ Len(results) = 9
           /\ history[Len(history)] = FromReport([startedAt |-> 1, results |-> results])
<1>1. results \in Seq(Result) /\ Len(results) <= 9 /\ ~ (Len(results) < 9)
  BY SuiteLength DEF IInv, TypeOK, ResultsInv
<1>2. Len(results) \in Nat
  BY <1>1, LenProperties
<1>3. Len(results) = 9
  <2>1. \A k \in Nat : k <= 9 /\ ~ (k < 9) => k = 9
    OBVIOUS
  <2> QED
    BY <1>1, <1>2, <2>1, Zenon
<1>4. history[Len(history)] = FromReport([startedAt |-> 1, results |-> results])
  BY DEF IInv, HistoryInv
<1> QED
  BY <1>1, <1>3, <1>4

\* The worst status, from what the results have.
LEMMA WorstStatus ==
    ASSUME NEW res \in Seq(Result)
    PROVE  /\ OverallStatus(res) = "fail" <=> CountStatus(res, "fail") > 0
           /\ OverallStatus(res) = "warn" <=>
                  ~ (CountStatus(res, "fail") > 0) /\ CountStatus(res, "warn") > 0
<1>1. /\ OverallStatus(res) = "fail" <=> Has(res, "fail")
      /\ OverallStatus(res) = "warn" <=> ~ Has(res, "fail") /\ Has(res, "warn")
  BY DEF OverallStatus
<1> QED
  BY <1>1, HasCounted

LEMMA ExitAgrees == IInv => ExitAgreesWithHistory
<1> SUFFICES ASSUME IInv, command = "check", pc = "exited"
             PROVE  LET entry == history[Len(history)]
                    IN  /\ exit = 1 <=> entry.failed > 0
                        /\ exit = 2 <=> entry.failed = 0 /\ entry.warned > 0
                        /\ entry.passed + entry.failed + entry.warned + entry.skipped
                             = Len(Suite)
  BY DEF ExitAgreesWithHistory
<1> DEFINE entry == history[Len(history)]
           P == CountStatus(results, "pass")
           F == CountStatus(results, "fail")
           W == CountStatus(results, "warn")
           K == CountStatus(results, "skip")
<1>1. results \in Seq(Result) /\ Len(results) = 9
  BY FinishedRun
<1>2. entry.passed = P /\ entry.failed = F /\ entry.warned = W /\ entry.skipped = K
  BY FinishedRun DEF FromReport
<1>3. exit = ExitCode(OverallStatus(results))
  BY DEF IInv, ExitInv
<1>4. exit = 1 <=> F > 0
  BY <1>1, <1>3, WorstStatus DEF ExitCode
<1>5. exit = 2 <=> ~ (F > 0) /\ W > 0
  BY <1>1, <1>3, WorstStatus DEF ExitCode
<1>6. F \in Nat
  BY <1>1, CountStatusType
<1>7. ~ (F > 0) <=> F = 0
  <2> HIDE DEF F
  <2> QED
    BY <1>6
<1>8. P + F + W + K = Len(Suite)
  BY <1>1, CountsAddUp, SuiteLength
<1> HIDE DEF entry, P, F, W, K
<1> QED
  BY <1>2, <1>4, <1>5, <1>7, <1>8, Zenon DEF entry

\* The exit code a CI job sees and the counts the history keeps agree.
THEOREM ExitCodeAgrees == Spec => []ExitAgreesWithHistory
BY ExitAgrees, Invariance, PTL

----------------------------------------------------------------------------
(* The rules.                                                              *)

\* Every rule asks for a probe that failed or warned.
LEMMA EveryRuleBlames ==
    \A r \in DOMAIN Rules : \E p \in Probe, s \in {"fail", "warn"} : <<p, s>> \in Rules[r].requires
<1>1. DOMAIN Rules = 1..10
  BY DEF Rules
<1>2. Probe = {"metadata", "vpc_ownership", "subnet_ownership", "default_route", "dns",
             "internet_https", "public_ip_consistency", "system_resources", "clock_skew"}
  BY DEF Probe, Suite
<1>3. /\ <<"internet_https", "fail">> \in Rules[1].requires
      /\ <<"subnet_ownership", "fail">> \in Rules[2].requires
      /\ <<"public_ip_consistency", "fail">> \in Rules[3].requires
      /\ <<"default_route", "fail">> \in Rules[4].requires
      /\ <<"vpc_ownership", "fail">> \in Rules[5].requires
      /\ <<"dns", "fail">> \in Rules[6].requires
      /\ <<"metadata", "fail">> \in Rules[7].requires
      /\ <<"clock_skew", "fail">> \in Rules[8].requires
      /\ <<"clock_skew", "warn">> \in Rules[9].requires
      /\ <<"system_resources", "warn">> \in Rules[10].requires
  BY DEF Rules, Rule
<1> HIDE DEF Rules
<1>4. \A r \in 1..10 : r = 1 \/ r = 2 \/ r = 3 \/ r = 4 \/ r = 5 \/ r = 6 \/ r = 7 \/ r = 8 \/ r = 9 \/ r = 10
  OBVIOUS
<1> QED
  BY <1>1, <1>2, <1>3, <1>4, Zenon

\* No hint without a probe that failed or warned.
LEMMA HintsBlame ==
    ASSUME NEW res \in Seq(Result), Len(res) = 9, Analyze(res) # << >>
    PROVE  Has(res, "fail") \/ Has(res, "warn")
<1>1. PICK i \in DOMAIN Analyze(res), r \in DOMAIN Rules : Matches(Rules[r], res)
  <2>1. Analyze(res) \in Seq(RuleSet)
    BY AnalyzeFinds DEF FoundRight
  <2>2. 1 \in DOMAIN Analyze(res)
    BY <2>1, EmptySeq, LenProperties
  <2> QED
    BY <2>2, AnalyzeFinds, RulesLength DEF FoundRight
<1>2. PICK p \in Probe, s \in {"fail", "warn"} : <<p, s>> \in Rules[r].requires
  BY EveryRuleBlames
<1>3. StatusOf(res, p) = s
  BY <1>1, <1>2 DEF Matches
<1>4. PICK n \in 1..9 : p = Suite[n]
  BY SuiteLength, Zenon DEF Probe
<1>5. res[n].status = s
  BY <1>3, <1>4, StatusAt
<1>6. n \in DOMAIN res
  BY LenProperties
<1> QED
  BY <1>2, <1>5, <1>6, Zenon DEF Has

LEMMA EvidenceRight == IInv => EvidenceAgrees
<1> SUFFICES ASSUME IInv, file = "written" PROVE EvidenceAgrees
  BY DEF EvidenceAgrees
<1> DEFINE entry == history[Len(history)]
           summary == data.summary
<1>1. pc = "exited" /\ command = "report"
  BY DEF IInv, ExitInv
<1>2. data = Build(results, Analyze(results))
  BY <1>1 DEF IInv, ReportInv
<1>3. results \in Seq(Result) /\ Len(results) = 9
  BY <1>1, FinishedRun
<1>4. entry = FromReport([startedAt |-> 1, results |-> results])
  BY <1>1, FinishedRun
<1>5. summary = Summary(results) /\ data.diagnostics = HintIds(Analyze(results))
  BY <1>2 DEF Build
<1>6. summary.total = entry.passed + entry.failed + entry.warned + entry.skipped
  <2>1. /\ entry.passed = CountStatus(results, "pass")
        /\ entry.failed = CountStatus(results, "fail")
        /\ entry.warned = CountStatus(results, "warn")
        /\ entry.skipped = CountStatus(results, "skip")
    BY <1>4 DEF FromReport
  <2>2. summary.total = Len(results)
    BY <1>5 DEF Summary
  <2> HIDE DEF entry, summary
  <2>3. entry.passed + entry.failed + entry.warned + entry.skipped = Len(results)
    BY <1>3, <2>1, CountsAddUp
  <2> QED
    BY <2>2, <2>3
<1>7. /\ summary.status = entry.status /\ summary.passed = entry.passed
      /\ summary.failed = entry.failed /\ summary.warned = entry.warned
      /\ summary.skipped = entry.skipped
  BY <1>4, <1>5 DEF Summary, FromReport
<1>8. ASSUME summary.status = "pass" PROVE data.diagnostics = {}
  <2>1. OverallStatus(results) = "pass"
    BY <1>5, <1>8 DEF Summary
  <2>2. ~ Has(results, "fail") /\ ~ Has(results, "warn")
    BY <2>1 DEF OverallStatus
  <2>3. Analyze(results) = << >>
    BY <1>3, <2>2, HintsBlame
  <2> QED
    BY <1>5, <2>3 DEF HintIds
<1> HIDE DEF entry, summary
<1> QED
  BY <1>6, <1>7, <1>8, Zenon DEF EvidenceAgrees, entry, summary

\* The evidence on disk, the history and the hints tell of the same run.
THEOREM EvidenceTellsTheRun == Spec => []EvidenceAgrees
BY EvidenceRight, Invariance, PTL

----------------------------------------------------------------------------
(* What diagnose is silent about.                                          *)

\* A run without a hint: the failures some rule has a hint for did not occur.
LEMMA Silent ==
    ASSUME NEW res, Analyze(res) = << >>
    PROVE  /\ StatusOf(res, "subnet_ownership") # "fail"
           /\ StatusOf(res, "public_ip_consistency") # "fail"
           /\ StatusOf(res, "default_route") # "fail"
           /\ StatusOf(res, "vpc_ownership") # "fail"
           /\ StatusOf(res, "dns") # "fail"
           /\ StatusOf(res, "metadata") # "fail"
           /\ StatusOf(res, "clock_skew") # "fail"
           /\ StatusOf(res, "internet_https") = "fail" => StatusOf(res, "dns") # "pass"
<1>1. \A r \in 1..10 : ~ Matches(Rules[r], res)
  <2>1. Len(Rules) = 10
    BY DEF Rules
  <2>2. ASSUME NEW r \in 1..10, Matches(Rules[r], res) PROVE FALSE
    <3>1. PICK i \in DOMAIN Analyze(res) : TRUE
      BY <2>1, <2>2, AnalyzeFinds DEF FoundRight
    <3> QED
      BY <3>1
  <2> QED
    BY <2>2
<1>2. /\ Rules[1].requires = {<<"internet_https", "fail">>, <<"dns", "pass">>}
      /\ Rules[2].requires = {<<"subnet_ownership", "fail">>}
      /\ Rules[3].requires = {<<"public_ip_consistency", "fail">>}
      /\ Rules[4].requires = {<<"default_route", "fail">>}
      /\ Rules[5].requires = {<<"vpc_ownership", "fail">>}
      /\ Rules[6].requires = {<<"dns", "fail">>}
      /\ Rules[7].requires = {<<"metadata", "fail">>}
      /\ Rules[8].requires = {<<"clock_skew", "fail">>}
  BY DEF Rules, Rule
<1> QED
  BY <1>1, <1>2 DEF Matches

LEMMA GapsKnown == IInv => OnlyKnownGaps
<1> SUFFICES ASSUME IInv, Diagnosed, hints = << >> PROVE OnlyKnownGaps
  BY DEF OnlyKnownGaps
<1>1. Analyze(results) = << >>
  BY DEF IInv, ReportInv, Diagnosed
<1>2. FailedProbes \subseteq {"system_resources", "internet_https"}
  BY <1>1, Silent DEF FailedProbes, Probe, Suite
<1>3. ASSUME "internet_https" \in FailedProbes PROVE StatusOf(results, "dns") = "warn"
  <2>1. StatusOf(results, "internet_https") = "fail"
    BY <1>3 DEF FailedProbes
  <2>2. Suite[5] = "dns" /\ 5 \in 1..9
    BY DEF Suite
  <2>3. StatusOf(results, "dns") = results[5].status
    BY <2>2, StatusAt
  <2>4. 5 \in DOMAIN results
    BY FinishedRun, LenProperties DEF Diagnosed
  <2>5. results[5].status \in OwnStatus["dns"] \cup {"warn"}
    BY <2>2, <2>4 DEF IInv, ResultsInv
  <2> QED
    BY <1>1, <2>1, <2>3, <2>5, Silent, OwnStatusOfDNS
<1> QED
  BY <1>2, <1>3 DEF OnlyKnownGaps

\* The only failures `diagnose` is silent about are unreadable system
\* resources, and outbound HTTPS when DNS was not resolved in time.
THEOREM SilentOnlyAboutKnownGaps == Spec => []OnlyKnownGaps
BY GapsKnown, Invariance, PTL

=============================================================================
