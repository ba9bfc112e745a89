---------------------------- MODULE ProbeResults ----------------------------
(***************************************************************************)
(* Probe outcomes and how they are summarised (internal/probe).            *)
(* A result keeps its status, which message it carries (the probe's own or *)
(* the runner's "timed out" text) and what its context said when the probe *)
(* returned; names, durations and details are abstracted.                  *)
(***************************************************************************)
EXTENDS Naturals, FiniteSets, Sequences

Status == {"pass", "fail", "warn", "skip"}

\* runCtx.Err(): nil, context.DeadlineExceeded or context.Canceled.
ContextErr == {"none", "deadline", "canceled"}

Result == [status : Status, message : {"own", "timed out"}, ctxErr : ContextErr]

Has(results, s) == \E i \in DOMAIN results : results[i].status = s

\* Any fail dominates, then any warn; skip only when every probe was skipped.
OverallStatus(results) ==
    CASE Has(results, "fail") -> "fail"
      [] ~ Has(results, "fail") /\ Has(results, "warn") -> "warn"
      [] OTHER -> IF results # << >> /\ ~ Has(results, "pass") THEN "skip" ELSE "pass"

CountStatus(results, s) == Cardinality({i \in DOMAIN results : results[i].status = s})

\* What the runner makes of a probe that returned `outcome` under a context
\* whose error is `err`: any error, a cancellation too, reads "timed out".
RunnerResult(outcome, err) ==
    [status  |-> IF err = "none" THEN outcome ELSE "warn",
     message |-> IF err = "none" THEN "own" ELSE "timed out",
     ctxErr  |-> err]

\* A run: when it started (the ordinal of the run stands for the time) and
\* the results in execution order.
Report == [startedAt : Nat, results : Seq(Result)]
NoReport == [startedAt |-> 0, results |-> << >>]
=============================================================================
