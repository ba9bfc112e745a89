------------------------ MODULE HistoryEntriesProofs ------------------------
(***************************************************************************)
(* Lemmas about the operators of ProbeResults and HistoryEntries: what the *)
(* counts over a report say of its results, that its summary is an entry,  *)
(* and that the capped list keeps the newest entries in their order.       *)
(***************************************************************************)
EXTENDS HistoryEntries, SequenceTheorems, FiniteSetTheorems, TLAPS

\* What the runner makes of an outcome is a result, whatever the context says.
LEMMA RunnerResultType ==
    ASSUME NEW outcome \in Status, NEW err \in ContextErr
    PROVE  RunnerResult(outcome, err) \in Result
BY DEF RunnerResult, Result, Status, ContextErr

\* The results with a status, by their places.
PlacesOf(results, s) == {i \in DOMAIN results : results[i].status = s}

LEMMA PlacesFinite ==
    ASSUME NEW results \in Seq(Result), NEW s
    PROVE  IsFiniteSet(PlacesOf(results, s))
<1>1. IsFiniteSet(1..Len(results))
  BY LenProperties, FS_Interval
<1>2. PlacesOf(results, s) \subseteq 1..Len(results)
  BY LenProperties DEF PlacesOf
<1> QED
  BY <1>1, <1>2, FS_Subset

\* A count over a report's results is a number.
LEMMA CountStatusType ==
    ASSUME NEW results \in Seq(Result), NEW s
    PROVE  CountStatus(results, s) \in Nat
BY PlacesFinite, FS_CardinalityType DEF CountStatus, PlacesOf

\* A status is counted if some result has it: the loop that counts and the
\* loops that look for the worst status see the same results.
LEMMA HasCounted ==
    ASSUME NEW results \in Seq(Result), NEW s
    PROVE  Has(results, s) <=> CountStatus(results, s) > 0
<1>1. Has(results, s) <=> PlacesOf(results, s) # {}
  BY DEF Has, PlacesOf
<1>2. PlacesOf(results, s) = {} <=> Cardinality(PlacesOf(results, s)) = 0
  BY PlacesFinite, FS_EmptySet
<1>3. Cardinality(PlacesOf(results, s)) = CountStatus(results, s)
  BY DEF CountStatus, PlacesOf
<1> QED
  BY <1>1, <1>2, <1>3, CountStatusType

\* The elements of two disjoint sets.
LEMMA DisjointUnion ==
    ASSUME NEW S, NEW T, IsFiniteSet(S), IsFiniteSet(T), S \cap T = {}
    PROVE  /\ IsFiniteSet(S \cup T)
           /\ Cardinality(S \cup T) = Cardinality(S) + Cardinality(T)
<1>1. Cardinality(S \cap T) = 0
  BY FS_EmptySet
<1>2. Cardinality(S) \in Nat /\ Cardinality(T) \in Nat
  BY FS_CardinalityType
<1>3. /\ IsFiniteSet(S \cup T)
      /\ Cardinality(S \cup T) = Cardinality(S) + Cardinality(T) - Cardinality(S \cap T)
  BY FS_Union
<1> QED
  BY <1>1, <1>2, <1>3

\* Every result has one of the four statuses, and is counted once.
LEMMA CountsAddUp ==
    ASSUME NEW results \in Seq(Result)
    PROVE  CountStatus(results, "pass") + CountStatus(results, "fail")
             + CountStatus(results, "warn") + CountStatus(results, "skip") = Len(results)
<1> DEFINE P == PlacesOf(results, "pass")
           F == PlacesOf(results, "fail")
           W == PlacesOf(results, "warn")
           K == PlacesOf(results, "skip")
<1>1. IsFiniteSet(P) /\ IsFiniteSet(F) /\ IsFiniteSet(W) /\ IsFiniteSet(K)
  BY PlacesFinite
<1>2. ASSUME NEW i \in 1..Len(results) PROVE results[i].status \in Status
  <2>1. results[i] \in Result
    BY ElementOfSeq
  <2> QED
    BY <2>1, Zenon DEF Result
<1>3. P \cup F \cup W \cup K = 1..Len(results)
  BY <1>2, LenProperties DEF PlacesOf, Status
<1>4. P \cap F = {} /\ (P \cup F) \cap W = {} /\ (P \cup F \cup W) \cap K = {}
  BY DEF PlacesOf
<1>5. Cardinality(P) \in Nat /\ Cardinality(F) \in Nat /\ Cardinality(W) \in Nat
      /\ Cardinality(K) \in Nat
  BY <1>1, FS_CardinalityType
<1> HIDE DEF P, F, W, K
<1>6. IsFiniteSet(P \cup F) /\ Cardinality(P \cup F) = Cardinality(P) + Cardinality(F)
  BY <1>1, <1>4, DisjointUnion
<1>7. /\ IsFiniteSet(P \cup F \cup W)
      /\ Cardinality(P \cup F \cup W) = Cardinality(P) + Cardinality(F) + Cardinality(W)
  BY <1>1, <1>4, <1>6, DisjointUnion
<1>8. Cardinality(P \cup F \cup W \cup K)
        = Cardinality(P) + Cardinality(F) + Cardinality(W) + Cardinality(K)
  BY <1>1, <1>4, <1>7, DisjointUnion
<1>9. Cardinality(1..Len(results)) = Len(results)
  <2>1. Len(results) \in Nat
    BY LenProperties
  <2>2. Cardinality(1..Len(results)) = IF 1 > Len(results) THEN 0 ELSE Len(results) - 1 + 1
    BY <2>1, FS_Interval
  <2> QED
    BY <2>1, <2>2
<1>10. /\ CountStatus(results, "pass") = Cardinality(P)
       /\ CountStatus(results, "fail") = Cardinality(F)
       /\ CountStatus(results, "warn") = Cardinality(W)
       /\ CountStatus(results, "skip") = Cardinality(K)
  BY DEF CountStatus, PlacesOf, P, F, W, K
<1> QED
  BY <1>3, <1>8, <1>9, <1>10

\* The overall status of a report is a status.
LEMMA OverallStatusType ==
    ASSUME NEW results \in Seq(Result)
    PROVE  OverallStatus(results) \in Status
<1>1. CASE Has(results, "fail")
  BY <1>1 DEF OverallStatus, Status
<1>2. CASE ~ Has(results, "fail") /\ Has(results, "warn")
  BY <1>2 DEF OverallStatus, Status
<1>3. CASE ~ Has(results, "fail") /\ ~ Has(results, "warn")
  BY <1>3 DEF OverallStatus, Status
<1> QED
  BY <1>1, <1>2, <1>3

\* FromReport makes an entry that is dated by its report.
LEMMA FromReportType ==
    ASSUME NEW report \in Report
    PROVE  /\ FromReport(report) \in Entry
           /\ FromReport(report).timestamp = report.startedAt
<1>1. report.results \in Seq(Result) /\ report.startedAt \in Nat
  BY DEF Report
<1> QED
  BY <1>1, CountStatusType, OverallStatusType DEF FromReport, Entry

\* `kept` ends with `entry`, after the newest of `entries` in their order: all
\* of them, or all but the first if that makes it full.
KeepsNewest(entries, entry, kept, max) ==
    /\ Len(kept) \in 1..max
    /\ kept # << >>
    /\ kept[Len(kept)] = entry
    /\ \E gone \in 0..1 :
          /\ Len(kept) + gone = Len(entries) + 1
          /\ gone = 1 => Len(kept) = max
          /\ \A i \in 1..Len(kept) - 1 :
                i + gone \in 1..Len(entries) /\ kept[i] = entries[i + gone]

\* Append keeps the newest entries, whatever the entries are.
LEMMA AppendedKeeps ==
    ASSUME NEW S, NEW entries \in Seq(S), NEW entry \in S,
           NEW max \in Nat \ {0}, Len(entries) <= max
    PROVE  /\ Appended(entries, entry, max) \in Seq(S)
           /\ KeepsNewest(entries, entry, Appended(entries, entry, max), max)
<1> DEFINE kept == Appended(entries, entry, max)
<1> DEFINE longer == Append(entries, entry)
<1>0. max \in Nat \ {0} /\ Len(entries) \in Nat
  BY LenProperties
<1>1. /\ longer \in Seq(S)
      /\ Len(longer) = Len(entries) + 1
      /\ longer[Len(longer)] = entry
      /\ \A i \in 1..Len(entries) : longer[i] = entries[i]
  BY <1>0
<1>2. kept = IF Len(longer) > max
             THEN SubSeq(longer, Len(longer) - max + 1, Len(longer))
             ELSE longer
  BY DEF Appended, Capped
<1> HIDE DEF longer, kept
<1> SUFFICES kept \in Seq(S) /\ KeepsNewest(entries, entry, kept, max)
  BY DEF kept
<1>3. CASE Len(longer) > max
  <2>1. /\ Len(entries) = max
        /\ Len(longer) = max + 1
        /\ kept = SubSeq(longer, 2, max + 1)
    <3>1. Len(entries) = max
      BY <1>0, <1>1, <1>3
    <3>2. Len(longer) = max + 1 /\ Len(longer) - max + 1 = 2
      BY <3>1, <1>0, <1>1
    <3> QED
      BY <3>1, <3>2, <1>2, <1>3
  <2>2. \A i \in 2..max + 1 : longer[i] \in S
    BY <1>1, <2>1, <1>0
  <2>3. /\ kept \in Seq(S)
        /\ Len(kept) = max
        /\ \A i \in 1..max : kept[i] = longer[i + 1]
    <3>1. /\ SubSeq(longer, 2, max + 1) \in Seq(S)
          /\ Len(SubSeq(longer, 2, max + 1))
               = IF 2 <= max + 1 THEN max + 1 - 2 + 1 ELSE 0
          /\ \A i \in 1..max + 1 - 2 + 1 :
                SubSeq(longer, 2, max + 1)[i] = longer[2 + i - 1]
      BY <2>2, <1>0, SubSeqProperties
    <3> QED
      BY <3>1, <2>1, <1>0
  <2>4. \A i \in 1..Len(kept) - 1 : i + 1 \in 1..Len(entries) /\ kept[i] = entries[i + 1]
    BY <2>1, <2>3, <1>0, <1>1
  <2>5. kept # << >> /\ kept[Len(kept)] = entry
    BY <2>1, <2>3, <1>0, <1>1
  <2>6. \E gone \in 0..1 :
          /\ Len(kept) + gone = Len(entries) + 1
          /\ gone = 1 => Len(kept) = max
          /\ \A i \in 1..Len(kept) - 1 :
                i + gone \in 1..Len(entries) /\ kept[i] = entries[i + gone]
    <3> WITNESS 1 \in 0..1
    <3> QED
      BY <2>1, <2>3, <2>4
  <2>7. Len(kept) \in 1..max
    BY <2>3, <1>0
  <2> QED
    BY <2>3, <2>5, <2>6, <2>7, Zenon DEF KeepsNewest
<1>4. CASE ~ (Len(longer) > max)
  <2>1. kept = longer /\ Len(kept) = Len(entries) + 1 /\ Len(kept) \in 1..max
    BY <1>4, <1>0, <1>1, <1>2
  <2>2. \A i \in 1..Len(kept) - 1 : i + 0 \in 1..Len(entries) /\ kept[i] = entries[i + 0]
    BY <2>1, <1>0, <1>1
  <2>3. \E gone \in 0..1 :
          /\ Len(kept) + gone = Len(entries) + 1
          /\ gone = 1 => Len(kept) = max
          /\ \A i \in 1..Len(kept) - 1 :
                i + gone \in 1..Len(entries) /\ kept[i] = entries[i + gone]
    <3> WITNESS 0 \in 0..1
    <3> QED
      BY <2>1, <2>2, <1>0
  <2> QED
    BY <2>1, <2>3, <1>1, <1>0 DEF KeepsNewest
<1> QED
  BY <1>3, <1>4
=============================================================================
