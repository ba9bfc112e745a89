----------------------------- MODULE ClockProbe -----------------------------
(***************************************************************************)
(* The clock skew probe against a server whose clock is right              *)
(* (internal/probe/clock_probe.go): the Date header is cut to whole        *)
(* seconds, it travels back while time passes, and only then is the local  *)
(* clock read.                                                             *)
(***************************************************************************)
EXTENDS ProbeSuite

CONSTANTS
    Second,      \* ticks in a second
    MaxOffset,   \* bound: how wrong the local clock may be, in ticks
    MaxTime      \* bound: the clock stops there

ASSUME SecondAssumption == Second \in Nat \ {0}
ASSUME BoundsAssumption == MaxOffset \in Nat /\ MaxTime \in Nat

VARIABLES
    time,      \* the true time
    offset,    \* the local clock is this far ahead of it
    pc,        \* "request", "response", "graded", "failed"
    date,      \* the Date header
    status     \* result.Status; "unset" until the probe returns

vars == <<time, offset, pc, date, status>>

Init ==
    /\ time \in 0..(Second - 1)
    /\ offset \in -MaxOffset..MaxOffset
    /\ pc = "request"
    /\ date = 0
    /\ status = "unset"

InFlight == pc \in {"request", "response"}

Tick ==
    /\ InFlight
    /\ time < MaxTime
    /\ time' = time + 1
    /\ UNCHANGED <<offset, pc, date, status>>

\* The server answers the HEAD request: Date has whole seconds only.
ServerAnswers ==
    /\ pc = "request"
    /\ date' = time - (time % Second)
    /\ pc' = "response"
    /\ UNCHANGED <<time, offset, status>>

\* Mutant: the early return leaves the status of the empty Result.
StatusWithoutDate_Unset == "unset"

StatusWithoutDate == "fail"

\* The request fails, is refused, or has no usable Date.
FetchFails ==
    /\ InFlight
    /\ status' = StatusWithoutDate
    /\ pc' = "failed"
    /\ UNCHANGED <<time, offset, date>>

\* Mutants: the tolerance is not subtracted; the sign of the difference is
\* kept, so that a clock behind the server's is never seen.
Measured_NoTolerance == IF time + offset < date THEN time + offset - date - Second
                                                ELSE time + offset - date + Second
Measured_Signed == IF time + offset < date THEN 0 ELSE time + offset - date

Measured == time + offset - date

Grade ==
    /\ pc = "response"
    /\ status' = ClockStatus(Measured, Second)
    /\ pc' = "graded"
    /\ UNCHANGED <<time, offset, date>>

Next == Tick \/ ServerAnswers \/ FetchFails \/ Grade

Spec == Init /\ [][Next]_vars

----------------------------------------------------------------------------
\* Everything has its type, and the Date is not ahead of the true time.
TypeOK ==
    /\ time \in Nat
    /\ offset \in Int
    /\ pc \in {"request", "response", "graded", "failed"}
    /\ date \in Nat
    /\ status \in {"unset", "pass", "warn", "fail"}
    /\ status = "unset" <=> InFlight
    /\ pc \in {"response", "graded"} => date <= time

\* What truncation and travel added is within what the probe tolerates.
WithinTolerance == time - date <= Second

Distance == IF offset < 0 THEN -offset ELSE offset

\* "This avoids false positives caused purely by sub-second truncation or
\* round-trip time" (clock_probe.go:16-17): a clock less than two seconds off
\* passes.
CloseClockPasses ==
    pc = "graded" /\ WithinTolerance /\ Distance < 2 * Second => status = "pass"

\* Nor does the tolerance hide a real drift: a clock four seconds off, ahead
\* or behind, never passes, and one more than twelve seconds off fails.
DriftIsNoticed ==
    pc = "graded" /\ WithinTolerance =>
        /\ Distance >= 4 * Second => status # "pass"
        /\ Distance > 12 * Second => status = "fail"

----------------------------------------------------------------------------
\* The inductive invariant: after the grading nothing moves any more, so the
\* status still is the grade of what can be read off the state.
GradeInv == pc = "graded" => status = ClockStatus(Measured, Second)

IInv == TypeOK /\ GradeInv
=============================================================================
