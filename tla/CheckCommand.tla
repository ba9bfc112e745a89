---------------------------- MODULE CheckCommand ----------------------------
(***************************************************************************)
(* `vpc-proof check`, `diagnose` and `report --output` (internal/cli) from *)
(* App.RunProbes to the exit code: the nine probes run one after the       *)
(* other and the run is recorded; then check reports it by exit code,      *)
(* diagnose translates it into hints, and report writes it to a file.      *)
(***************************************************************************)
EXTENDS Diagnostics, HistoryEntries

VARIABLES
    command,    \* "check", "diagnose" or "report"
    pc,         \* "run", "record", "report", "write", "exited"
    results,    \* report.Results so far
    history,    \* the process's history store
    hints,      \* what Analyze returned
    data,       \* what report.Build assembled
    file,       \* the output file: "previous", "empty", "torn" or "written"
    exit        \* the exit code; NoExit while the command runs

vars == <<command, pc, results, history, hints, data, file, exit>>

NoExit == 99

\* The process was killed.
Killed == 128

\* Mutant: a capacity that is not configured is taken literally.
HistoryCapacity_Unset == 0

\* history.max_entries as it is by default.
HistoryCapacity == 50

\* Mutant: the summary forgets that a probe may be skipped or warn.
Summary_Passed(rs) ==
    [status |-> OverallStatus(rs), passed |-> CountStatus(rs, "pass"),
     failed |-> Len(rs) - CountStatus(rs, "pass"), warned |-> 0, skipped |-> 0, total |-> Len(rs)]

\* summarize
Summary(rs) ==
    [status |-> OverallStatus(rs), passed |-> CountStatus(rs, "pass"),
     failed |-> CountStatus(rs, "fail"), warned |-> CountStatus(rs, "warn"),
     skipped |-> CountStatus(rs, "skip"), total |-> Len(rs)]

\* report.Build, of what the run decides: its hash is a function of the rest.
Build(rs, found) == [summary |-> Summary(rs), diagnostics |-> HintIds(found)]

NoData == Build(<< >>, << >>)

Init ==
    /\ command \in {"check", "diagnose", "report"}
    /\ pc = "run"
    /\ results = << >>
    /\ history = << >>
    /\ hints = << >>
    /\ data = NoData
    /\ file = "previous"
    /\ exit = NoExit

\* runOne: the next probe returns, possibly after its deadline.
RunOne ==
    /\ pc = "run"
    /\ \E outcome \in OwnStatus[Suite[Len(results) + 1]], err \in {"none", "deadline"} :
         results' = Append(results, RunnerResult(outcome, err))
    /\ pc' = IF Len(results) + 1 = Len(Suite) THEN "record" ELSE "run"
    /\ UNCHANGED <<command, history, hints, data, file, exit>>

\* RunProbes records the finished run.
Record ==
    /\ pc = "record"
    /\ history' = Appended(history,
                           FromReport([startedAt |-> 1, results |-> results]),
                           HistoryCapacity)
    /\ pc' = "report"
    /\ UNCHANGED <<command, results, hints, data, file, exit>>

\* Mutant: a warning ends the scan before a later failure is seen.
ExitCode_FirstWarning(status) ==
    CASE Has(results, "warn") -> 2
      [] ~ Has(results, "warn") /\ status = "fail" -> 1
      [] OTHER -> 0

\* check: 1 when any probe fails, 2 when only warnings were raised, else 0.
ExitCode(status) ==
    CASE status = "fail" -> 1
      [] status = "warn" -> 2
      [] OTHER -> 0

CheckReports ==
    /\ pc = "report"
    /\ command = "check"
    /\ exit' = ExitCode(OverallStatus(results))
    /\ pc' = "exited"
    /\ UNCHANGED <<command, results, history, hints, data, file>>

\* diagnose prints the hints, or "No issues detected." when there is none,
\* and succeeds either way.
DiagnoseReports ==
    /\ pc = "report"
    /\ command = "diagnose"
    /\ hints' = Analyze(results)
    /\ exit' = 0
    /\ pc' = "exited"
    /\ UNCHANGED <<command, results, history, data, file>>

\* WriteFile creates or truncates the file before anything is rendered.
ReportOpens ==
    /\ pc = "report"
    /\ command = "report"
    /\ hints' = Analyze(results)
    /\ data' = Build(results, hints')
    /\ \/ /\ file' = "empty"
          /\ pc' = "write"
          /\ UNCHANGED exit
       \/ /\ exit' = 1
          /\ pc' = "exited"
          /\ UNCHANGED file
    /\ UNCHANGED <<command, results, history>>

\* Mutant: the error of the write is dropped, like that of Close.
ExitAfterFailedWrite_Dropped == 0

\* The error of Render or of the file's Write reaches RunE.
ExitAfterFailedWrite == 1

\* Engine.Write: rendering may fail, and writing may stop halfway.
ReportWrites ==
    /\ pc = "write"
    /\ \/ file' = "written" /\ exit' = 0
       \/ file' \in {"empty", "torn"} /\ exit' = ExitAfterFailedWrite
    /\ pc' = "exited"
    /\ UNCHANGED <<command, results, history, hints, data>>

\* Killed while the file is written.  Earlier, nothing outlasts the process.
ReportKilled ==
    /\ pc = "write"
    /\ file' \in {"empty", "torn"}
    /\ exit' = Killed
    /\ pc' = "exited"
    /\ UNCHANGED <<command, results, history, hints, data>>

Next ==
    \/ RunOne \/ Record \/ CheckReports \/ DiagnoseReports
    \/ ReportOpens \/ ReportWrites \/ ReportKilled

Spec == Init /\ [][Next]_vars

----------------------------------------------------------------------------
Diagnosed == command = "diagnose" /\ pc = "exited"

FailedProbes == {p \in Probe : StatusOf(results, p) = "fail"}

\* Everything has its type, and a run that was reported was recorded.
TypeOK ==
    /\ command \in {"check", "diagnose", "report"}
    /\ pc \in {"run", "record", "report", "write", "exited"}
    /\ results \in Seq(Result) /\ Len(results) <= Len(Suite)
    /\ history \in Seq(Entry)
    /\ pc \in {"report", "write", "exited"} <=> Len(history) = 1
    /\ HintIds(hints) \subseteq HintIds(Rules)
    /\ command # "report" => file = "previous" /\ data = NoData
    /\ file \in {"previous", "empty", "torn", "written"}
    /\ exit \in {0, 1, 2, Killed, NoExit}

\* The exit code a CI job sees and the counts the history keeps agree: both
\* are computed from the results, by different loops.
ExitAgreesWithHistory ==
    command = "check" /\ pc = "exited" =>
        LET entry == history[Len(history)]
        IN  /\ exit = 1 <=> entry.failed > 0
            /\ exit = 2 <=> entry.failed = 0 /\ entry.warned > 0
            /\ entry.passed + entry.failed + entry.warned + entry.skipped = Len(Suite)

\* `report` "always exits 0 on success" (README.md:295), and only then: a file
\* that was truncated for a report that did not get into it is told by the
\* exit code.
WrittenOrTold ==
    command = "report" /\ pc = "exited" => (exit = 0 <=> file = "written")

\* The evidence on disk, the history and the hints tell of the same run.
EvidenceAgrees ==
    file = "written" =>
        LET entry == history[Len(history)]
            summary == data.summary
        IN  /\ summary.total = entry.passed + entry.failed + entry.warned + entry.skipped
            /\ \A count \in {"status", "passed", "failed", "warned", "skipped"} :
                   summary[count] = entry[count]
            /\ summary.status = "pass" => data.diagnostics = {}

\* The only failures `diagnose` is silent about are unreadable system
\* resources, and outbound HTTPS when DNS was not resolved in time.
OnlyKnownGaps ==
    Diagnosed /\ hints = << >> =>
        /\ FailedProbes \subseteq {"system_resources", "internet_https"}
        /\ "internet_https" \in FailedProbes => StatusOf(results, "dns") = "warn"

----------------------------------------------------------------------------
\* The inductive invariant: how far each phase has got, and that what a phase
\* left behind is still what it makes of the results.
ResultsInv ==
    /\ \A i \in DOMAIN results : results[i].status \in OwnStatus[Suite[i]] \cup {"warn"}
    /\ pc = "run" <=> Len(results) < Len(Suite)

HistoryInv ==
    history = IF pc \in {"report", "write", "exited"}
              THEN <<FromReport([startedAt |-> 1, results |-> results])>>
              ELSE << >>

ReportInv ==
    /\ pc = "write" => command = "report"
    /\ hints = IF pc \in {"write", "exited"} /\ command # "check" THEN Analyze(results)
                                                                   ELSE << >>
    /\ data = IF pc \in {"write", "exited"} /\ command = "report"
              THEN Build(results, Analyze(results))
              ELSE NoData

ExitInv ==
    /\ pc # "exited" => exit = NoExit /\ file # "written"
    /\ pc = "exited" /\ command = "check" => exit = ExitCode(OverallStatus(results))
    /\ command # "report" => file = "previous"

IInv == TypeOK /\ ResultsInv /\ HistoryInv /\ ReportInv /\ ExitInv /\ WrittenOrTold
=============================================================================
