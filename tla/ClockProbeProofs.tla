-------------------------- MODULE ClockProbeProofs --------------------------
(***************************************************************************)
(* Proofs about ClockProbe: for every resolution of the clock and every    *)
(* offset, the grade is right within the tolerance the probe allows.       *)
(***************************************************************************)
EXTENDS ClockProbe, TLAPS

\* Cutting a time to whole seconds gives a time at most as late.
LEMMA TruncatedDate ==
    ASSUME NEW t \in Nat
    PROVE  t - (t % Second) \in Nat /\ t - (t % Second) <= t
  BY SecondAssumption

\* The grade of a measure is one of the three statuses.
LEMMA ClockStatusType ==
    ASSUME NEW m \in Int
    PROVE  ClockStatus(m, Second) \in {"pass", "warn", "fail"}
  BY DEF ClockStatus

\* The type invariant holds initially and is preserved.
LEMMA InitTypeOK == Init => TypeOK
  BY SecondAssumption, BoundsAssumption DEF Init, TypeOK, InFlight

LEMMA NextTypeOK == TypeOK /\ [Next]_vars => TypeOK'
<1> SUFFICES ASSUME TypeOK, [Next]_vars PROVE TypeOK'
  OBVIOUS
<1>1. CASE Tick
  BY <1>1 DEF Tick, TypeOK, InFlight
<1>2. CASE ServerAnswers
  BY <1>2, TruncatedDate DEF ServerAnswers, TypeOK, InFlight
<1>3. CASE FetchFails
  BY <1>3 DEF FetchFails, StatusWithoutDate, TypeOK, InFlight
<1>4. CASE Grade
  <2>1. Measured \in Int
    BY DEF TypeOK, Measured
  <2>2. status' \in {"pass", "warn", "fail"}
    BY <1>4, <2>1, ClockStatusType DEF Grade
  <2> QED
    BY <1>4, <2>2 DEF Grade, TypeOK, InFlight
<1>5. CASE UNCHANGED vars
  BY <1>5 DEF vars, TypeOK, InFlight
<1> QED
  BY <1>1, <1>2, <1>3, <1>4, <1>5 DEF Next

\* The grade stays the grade of the state: nothing moves after Grade.
LEMMA NextGradeInv == GradeInv /\ [Next]_vars => GradeInv'
<1> SUFFICES ASSUME GradeInv, [Next]_vars PROVE GradeInv'
  OBVIOUS
<1>1. CASE Tick \/ ServerAnswers \/ FetchFails
  BY <1>1 DEF Tick, ServerAnswers, FetchFails, InFlight, GradeInv
<1>2. CASE Grade
  <2>1. Measured' = Measured
    BY <1>2 DEF Grade, Measured
  <2> QED
    BY <1>2, <2>1 DEF Grade, GradeInv
<1>3. CASE UNCHANGED vars
  BY <1>3 DEF vars, GradeInv, Measured
<1> QED
  BY <1>1, <1>2, <1>3 DEF Next

\* The inductive invariant holds of every behaviour.
THEOREM Invariance == Spec => []IInv
<1>1. Init => IInv
  BY InitTypeOK DEF Init, IInv, GradeInv
<1>2. IInv /\ [Next]_vars => IInv'
  BY NextTypeOK, NextGradeInv DEF IInv
<1> QED
  BY <1>1, <1>2, PTL DEF Spec

\* Every variable keeps its type.
THEOREM TypeCorrect == Spec => []TypeOK
<1>1. IInv => TypeOK
  BY DEF IInv
<1> QED
  BY <1>1, Invariance, PTL

\* A clock less than two seconds off passes, whatever truncation and travel
\* add within the second of tolerance (clock_probe.go:12-17).
THEOREM NoFalseAlarm == Spec => []CloseClockPasses
<1>1. IInv => CloseClockPasses
  <2> SUFFICES ASSUME IInv, pc = "graded", WithinTolerance, Distance < 2 * Second
               PROVE  status = "pass"
    BY DEF CloseClockPasses
  <2>1. status = ClockStatus(Measured, Second)
    BY DEF IInv, GradeInv
  <2> QED
    BY <2>1, SecondAssumption
    DEF IInv, TypeOK, WithinTolerance, Distance, Measured, ClockStatus
<1> QED
  BY <1>1, Invariance, PTL

\* A clock four seconds off never passes and one more than twelve off fails,
\* whichever way it is off.
THEOREM NoMissedDrift == Spec => []DriftIsNoticed
<1>1. IInv => DriftIsNoticed
  <2> SUFFICES ASSUME IInv, pc = "graded", WithinTolerance
               PROVE  /\ Distance >= 4 * Second => status # "pass"
                      /\ Distance > 12 * Second => status = "fail"
    BY DEF DriftIsNoticed
  <2>1. status = ClockStatus(Measured, Second)
    BY DEF IInv, GradeInv
  <2> QED
    BY <2>1, SecondAssumption
    DEF IInv, TypeOK, WithinTolerance, Distance, Measured, ClockStatus
<1> QED
  BY <1>1, Invariance, PTL
=============================================================================
