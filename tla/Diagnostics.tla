---------------------------- MODULE Diagnostics -----------------------------
(***************************************************************************)
(* The rule matrix that turns the results of the probe suite into hints    *)
(* (internal/diagnostic).  Every rule has exactly one hint, so a rule's id *)
(* stands for it; severities only decorate it.                             *)
(***************************************************************************)
EXTENDS ProbeSuite, SequencesExt

\* Report.Result(id).Status; the suite runs each probe once.
StatusOf(results, p) == results[CHOOSE i \in DOMAIN Suite : Suite[i] = p].status

Rule(id, requires) == [id |-> id, requires |-> requires]

\* defaultRules: every probe outcome in `requires` must be there exactly.
Rules == <<
    Rule("igw-route-table", {<<"internet_https", "fail">>, <<"dns", "pass">>}),
    Rule("subnet-placement", {<<"subnet_ownership", "fail">>}),
    Rule("public-ip-assignment", {<<"public_ip_consistency", "fail">>}),
    Rule("default-route", {<<"default_route", "fail">>}),
    Rule("vpc-mismatch", {<<"vpc_ownership", "fail">>}),
    Rule("dns-configuration", {<<"dns", "fail">>}),
    Rule("imds-configuration", {<<"metadata", "fail">>}),
    Rule("clock-skew-critical", {<<"clock_skew", "fail">>}),
    Rule("clock-skew-warning", {<<"clock_skew", "warn">>}),
    Rule("system-resources", {<<"system_resources", "warn">>})>>

Matches(rule, results) ==
    \A need \in rule.requires : StatusOf(results, need[1]) = need[2]

\* Mutant: the loop breaks, and does not continue, at a rule that does not match.
Analyze_Breaks(results) ==
    LET miss == SelectInSeq(Rules, LAMBDA rule : ~ Matches(rule, results))
    IN  IF miss = 0 THEN Rules ELSE SubSeq(Rules, 1, miss - 1)

\* Engine.Analyze: the hints of the matching rules, in the rules' order.
\* found[n] are the hints after n turns of its loop.
Analyze(results) ==
    LET found[n \in 0..Len(Rules)] ==
          IF n = 0 THEN << >>
          ELSE IF Matches(Rules[n], results) THEN Append(found[n - 1], Rules[n])
          ELSE found[n - 1]
    IN  found[Len(Rules)]

HintIds(hints) == {hints[i].id : i \in DOMAIN hints}
=============================================================================
