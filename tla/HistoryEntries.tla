--------------------------- MODULE HistoryEntries ---------------------------
(***************************************************************************)
(* The entries of the run history (internal/history/store.go) as pure      *)
(* operators: what is kept of a report, and the capped list they go into.  *)
(***************************************************************************)
EXTENDS ProbeResults

Entry == [timestamp : Nat, status : Status,
          passed : Nat, failed : Nat, warned : Nat, skipped : Nat]

FromReport(report) ==
    [timestamp |-> report.startedAt,
     status    |-> OverallStatus(report.results),
     passed    |-> CountStatus(report.results, "pass"),
     failed    |-> CountStatus(report.results, "fail"),
     warned    |-> CountStatus(report.results, "warn"),
     skipped   |-> CountStatus(report.results, "skip")]

\* Mutant: one entry too many is kept.
Capped_OneMore(entries, max) ==
    IF Len(entries) > max
    THEN SubSeq(entries, Len(entries) - max, Len(entries))
    ELSE entries

\* The newest `max` entries.
Capped(entries, max) ==
    IF Len(entries) > max
    THEN SubSeq(entries, Len(entries) - max + 1, Len(entries))
    ELSE entries

\* Mutant: the newest entry goes to the front.
Appended_InFront(entries, entry, max) == Capped(<<entry>> \o entries, max)

\* Store.Append: add at the end, evict from the front when over capacity.
Appended(entries, entry, max) == Capped(Append(entries, entry), max)
=============================================================================
