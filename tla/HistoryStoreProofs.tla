------------------------- MODULE HistoryStoreProofs -------------------------
(***************************************************************************)
(* Proofs about HistoryStore for any capacity and any number of runs,      *)
(* faults and restarts.                                                    *)
(***************************************************************************)
EXTENDS HistoryStore, HistoryEntriesProofs

\* Appending the next run to an ordered list leaves an ordered list within the
\* capacity.
LEMMA OrderedAppend ==
    ASSUME NEW list \in Seq(Nat), Len(list) <= MaxEntries, NEW n \in Nat,
           OrderedUpTo(list, n)
    PROVE  LET longer == Appended(list, n + 1, MaxEntries)
           IN  /\ longer \in Seq(Nat)
               /\ Len(longer) <= MaxEntries
               /\ OrderedUpTo(longer, n + 1)
<1> DEFINE longer == Appended(list, n + 1, MaxEntries)
<1>1. longer \in Seq(Nat) /\ KeepsNewest(list, n + 1, longer, MaxEntries)
  <2>1. n + 1 \in Nat
    OBVIOUS
  <2> QED
    BY <2>1, AppendedKeeps, MaxEntriesAssumption, Zenon
<1> HIDE DEF longer
<1>2. Len(longer) \in 1..MaxEntries /\ longer[Len(longer)] = n + 1
  BY <1>1 DEF KeepsNewest
<1>3. PICK gone \in 0..1 : \A i \in 1..Len(longer) - 1 :
          i + gone \in 1..Len(list) /\ longer[i] = list[i + gone]
  BY <1>1 DEF KeepsNewest
<1>4. \A i \in 1..Len(longer) : longer[i] <= n + 1
  <2> TAKE i \in 1..Len(longer)
  <2>1. CASE i = Len(longer)
    BY <2>1, <1>2
  <2>2. CASE i # Len(longer)
    <3>1. i \in 1..Len(longer) - 1
      BY <2>2, <1>2, MaxEntriesAssumption
    <3>2. i + gone \in 1..Len(list) /\ longer[i] = list[i + gone]
      BY <3>1, <1>3
    <3>3. list[i + gone] <= n /\ list[i + gone] \in Nat
      BY <3>2 DEF OrderedUpTo
    <3> QED
      BY <3>2, <3>3
  <2> QED
    BY <2>1, <2>2
<1>5. \A i, j \in 1..Len(longer) : i < j => longer[i] < longer[j]
  <2> SUFFICES ASSUME NEW i \in 1..Len(longer), NEW j \in 1..Len(longer), i < j
               PROVE  longer[i] < longer[j]
    OBVIOUS
  <2>1. i \in 1..Len(longer) - 1
    BY <1>2, MaxEntriesAssumption
  <2>2. i + gone \in 1..Len(list) /\ longer[i] = list[i + gone]
    BY <2>1, <1>3
  <2>3. CASE j = Len(longer)
    <3>1. list[i + gone] <= n /\ list[i + gone] \in Nat
      BY <2>2 DEF OrderedUpTo
    <3> QED
      BY <2>2, <2>3, <3>1, <1>2
  <2>4. CASE j # Len(longer)
    <3>1. j \in 1..Len(longer) - 1
      BY <2>4, <1>2, MaxEntriesAssumption
    <3>2. j + gone \in 1..Len(list) /\ longer[j] = list[j + gone]
      BY <3>1, <1>3
    <3>3. i + gone < j + gone
      OBVIOUS
    <3> QED
      BY <2>2, <3>2, <3>3 DEF OrderedUpTo
  <2> QED
    BY <2>3, <2>4
<1> QED
  BY <1>1, <1>2, <1>4, <1>5, MaxEntriesAssumption DEF longer, OrderedUpTo

\* A list within its capacity is loaded as it is.
LEMMA RestoredUncut == TypeOK => Restored = IF loads THEN disk.entries ELSE << >>
<1> SUFFICES ASSUME TypeOK PROVE ~ (Len(disk.entries) > MaxEntries)
  BY DEF Restored, Capped
<1>1. disk.entries \in Seq(Nat) /\ Len(disk.entries) <= MaxEntries
  BY DEF TypeOK, File
<1> QED
  BY <1>1, MaxEntriesAssumption

----------------------------------------------------------------------------
\* The empty list is within every capacity.
LEMMA EmptyList == << >> \in Seq(Nat) /\ Len(<< >>) <= MaxEntries
  BY MaxEntriesAssumption

\* The type invariant holds initially.
LEMMA InitTypeOK == Init => TypeOK
  BY MaxEntriesAssumption DEF Init, TypeOK, File, Missing

\* Every step preserves it.
LEMMA NextTypeOK == IInv /\ [Next]_vars => TypeOK'
<1> SUFFICES ASSUME IInv, [Next]_vars PROVE TypeOK'
  OBVIOUS
<1> USE DEF IInv, TypeOK, File
<1>1. CASE AppendEntry
  <2>1. /\ entries' \in Seq(Nat)
        /\ Len(entries') <= MaxEntries
    BY <1>1, OrderedAppend DEF AppendEntry, OrderInv
  <2>2. runs' \in Nat
    BY <1>1 DEF AppendEntry
  <2> QED
    BY <1>1, <2>1, <2>2 DEF AppendEntry
<1>2. CASE StartFlush
  BY <1>2 DEF StartFlush
<1>3. CASE OpenTemp
  BY <1>3, EmptyList DEF OpenTemp, Partial
<1>4. CASE WriteTemp
  BY <1>4 DEF WriteTemp, Whole
<1>5. CASE RenameTemp
  BY <1>5, EmptyList DEF RenameTemp, Missing
<1>6. CASE FlushFails
  BY <1>6 DEF FlushFails, AfterFault
<1>7. CASE Crash
  <2>1. entries' = << >> /\ snapshot' = << >> /\ up' = FALSE
    BY <1>7 DEF Crash
  <2>2. faults' \in Nat
    BY <1>7 DEF Crash
  <2>3. /\ entries' \in Seq(Nat) /\ Len(entries') <= MaxEntries
        /\ snapshot' \in Seq(Nat) /\ Len(snapshot') <= MaxEntries
    BY <2>1, EmptyList
  <2> QED
    BY <1>7, <2>1, <2>2, <2>3 DEF Crash
<1>8. CASE Restart
  <2>1. entries' \in Seq(Nat) /\ Len(entries') <= MaxEntries
    BY <1>8, RestoredUncut, EmptyList DEF Restart
  <2> QED
    BY <1>8, <2>1 DEF Restart
<1>9. CASE UNCHANGED vars
  BY <1>9 DEF vars
<1> QED
  BY <1>1, <1>2, <1>3, <1>4, <1>5, <1>6, <1>7, <1>8, <1>9 DEF Next, FlushStep

\* Every step keeps the lists in order: only the next run is ever appended.
LEMMA NextOrderInv == IInv /\ [Next]_vars => OrderInv'
<1> SUFFICES ASSUME IInv, [Next]_vars PROVE OrderInv'
  OBVIOUS
<1> USE MaxEntriesAssumption DEF IInv, TypeOK, File, OrderInv, OrderedUpTo
<1>1. CASE AppendEntry
  <2>1. OrderedUpTo(entries', runs + 1)
    BY <1>1, OrderedAppend DEF AppendEntry
  <2> QED
    BY <1>1, <2>1 DEF AppendEntry
<1>2. CASE StartFlush
  BY <1>2 DEF StartFlush
<1>3. CASE OpenTemp
  BY <1>3 DEF OpenTemp, Partial
<1>4. CASE WriteTemp
  BY <1>4 DEF WriteTemp, Whole
<1>5. CASE RenameTemp
  BY <1>5 DEF RenameTemp, Missing
<1>6. CASE FlushFails
  BY <1>6 DEF FlushFails
<1>7. CASE Crash
  BY <1>7 DEF Crash
<1>8. CASE Restart
  <2>1. entries' = disk.entries \/ entries' = << >>
    BY <1>8, RestoredUncut DEF Restart
  <2>2. OrderedUpTo(entries, runs)'
    <3>1. OrderedUpTo(disk.entries, runs) /\ OrderedUpTo(<< >>, runs)
      OBVIOUS
    <3>2. runs' = runs
      BY <1>8 DEF Restart
    <3> HIDE DEF IInv, TypeOK, File, OrderInv
    <3> QED
      BY <2>1, <3>1, <3>2
  <2>3. UNCHANGED <<runs, snapshot, tmp, disk>>
    BY <1>8 DEF Restart
  <2> QED
    BY <2>2, <2>3
<1>9. CASE UNCHANGED vars
  BY <1>9 DEF vars
<1> QED
  BY <1>1, <1>2, <1>3, <1>4, <1>5, <1>6, <1>7, <1>8, <1>9 DEF Next, FlushStep

\* A rename is reached only past a whole write, so that it never installs part
\* of a list.
LEMMA NextRenameInv == RenameInv /\ [Next]_vars => RenameInv'
<1> SUFFICES ASSUME RenameInv, [Next]_vars PROVE RenameInv'
  OBVIOUS
<1> USE DEF RenameInv, DiskNeverPartial
<1>1. CASE AppendEntry \/ StartFlush
  BY <1>1 DEF AppendEntry, StartFlush
<1>2. CASE FlushStep
  BY <1>2 DEF FlushStep, OpenTemp, WriteTemp, RenameTemp, Whole
<1>3. CASE FlushFails
  BY <1>3 DEF FlushFails, AfterFault
<1>4. CASE Crash \/ Restart
  BY <1>4 DEF Crash, Restart
<1>5. CASE UNCHANGED vars
  BY <1>5 DEF vars
<1> QED
  BY <1>1, <1>2, <1>3, <1>4, <1>5 DEF Next

----------------------------------------------------------------------------
\* What a list has kept of an older one, it keeps when the next run is added.
LEMMA AppendOnlyEvicts ==
    ASSUME NEW old \in Seq(Nat), NEW list \in Seq(Nat), Len(list) <= MaxEntries,
           NEW n \in Nat, OrderedUpTo(old, n), OrderedUpTo(list, n),
           OnlyEvicted(old, list)
    PROVE  OnlyEvicted(old, Appended(list, n + 1, MaxEntries))
<1> DEFINE longer == Appended(list, n + 1, MaxEntries)
<1>1. longer \in Seq(Nat) /\ KeepsNewest(list, n + 1, longer, MaxEntries)
  <2>1. n + 1 \in Nat
    OBVIOUS
  <2> QED
    BY <2>1, AppendedKeeps, MaxEntriesAssumption, Zenon
<1> HIDE DEF longer
<1>2. Len(longer) \in 1..MaxEntries /\ longer[Len(longer)] = n + 1
  BY <1>1 DEF KeepsNewest
<1>3. PICK gone \in 0..1 :
          /\ Len(longer) + gone = Len(list) + 1
          /\ gone = 1 => Len(longer) = MaxEntries
          /\ \A i \in 1..Len(longer) - 1 :
                i + gone \in 1..Len(list) /\ longer[i] = list[i + gone]
  BY <1>1 DEF KeepsNewest
<1>4. DOMAIN old = 1..Len(old) /\ DOMAIN list = 1..Len(list) /\ DOMAIN longer = 1..Len(longer)
  BY <1>1
<1>5. SUFFICES ASSUME NEW i \in 1..Len(old)
               PROVE  \/ \E j \in 1..Len(longer) : longer[j] = old[i]
                      \/ /\ Len(longer) = MaxEntries
                         /\ \A j \in 1..Len(longer) : longer[j] > old[i]
  BY <1>4 DEF OnlyEvicted, longer
<1>6. old[i] \in Nat /\ old[i] <= n
  BY DEF OrderedUpTo
<1>7. CASE \E j \in 1..Len(list) : list[j] = old[i]
  <2>1. PICK j \in 1..Len(list) : list[j] = old[i]
    BY <1>7
  <2>2. CASE j > gone
    <3>1. j - gone \in 1..Len(longer) - 1
      BY <2>2, <1>2, <1>3, MaxEntriesAssumption
    <3>2. PICK k \in 1..Len(longer) - 1 : k + gone = j
      BY <3>1
    <3>3. longer[k] = list[j]
      BY <3>2, <1>3
    <3> QED
      BY <2>1, <3>2, <3>3, <1>2, MaxEntriesAssumption
  <2>3. CASE ~ (j > gone)
    <3>1. gone = 1 /\ j = 1
      BY <2>3
    <3>2. ASSUME NEW k \in 1..Len(longer) PROVE longer[k] > old[i]
      <4>1. CASE k = Len(longer)
        BY <4>1, <1>2, <1>6
      <4>2. CASE k # Len(longer)
        <5>1. k \in 1..Len(longer) - 1
          BY <4>2, <1>2, MaxEntriesAssumption
        <5>2. k + gone \in 1..Len(list) /\ longer[k] = list[k + gone] /\ j < k + gone
          BY <5>1, <3>1, <1>3
        <5>3. list[j] < list[k + gone]
          BY <5>2 DEF OrderedUpTo
        <5> QED
          BY <5>2, <5>3, <2>1
      <4> QED
        BY <4>1, <4>2
    <3> QED
      BY <3>1, <3>2, <1>3
  <2> QED
    BY <2>2, <2>3
<1>8. CASE Len(list) = MaxEntries /\ \A j \in 1..Len(list) : list[j] > old[i]
  <2>1. Len(longer) = MaxEntries
    BY <1>8, <1>2, <1>3, MaxEntriesAssumption
  <2>2. ASSUME NEW k \in 1..Len(longer) PROVE longer[k] > old[i]
    <3>1. CASE k = Len(longer)
      BY <3>1, <1>2, <1>6
    <3>2. CASE k # Len(longer)
      <4>1. k \in 1..Len(longer) - 1
        BY <3>2, <1>2, MaxEntriesAssumption
      <4> QED
        BY <4>1, <1>3, <1>8
    <3> QED
      BY <3>1, <3>2
  <2> QED
    BY <2>1, <2>2
<1> QED
  BY <1>7, <1>8, <1>4 DEF OnlyEvicted

\* A list has evicted nothing of itself, nor of the empty list.
LEMMA OnlyEvictedBase ==
    ASSUME NEW list \in Seq(Nat)
    PROVE  OnlyEvicted(list, list) /\ OnlyEvicted(<< >>, list)
  BY DEF OnlyEvicted

\* Every step keeps what the file owes to the process behind what it is about
\* to write.
LEMMA NextKeepInv == IInv /\ KeepInv /\ [Next]_vars => KeepInv'
<1> SUFFICES ASSUME IInv, KeepInv, [Next]_vars PROVE KeepInv'
  OBVIOUS
<1>0. /\ disk.entries \in Seq(Nat) /\ snapshot \in Seq(Nat) /\ entries \in Seq(Nat)
      /\ Len(entries) <= MaxEntries /\ runs \in Nat
      /\ pc \in {"wait", "open", "write", "rename"}
  BY DEF IInv, TypeOK, File
<1>1. CASE AppendEntry
  <2>1. OrderedUpTo(entries, runs) /\ OrderedUpTo(snapshot, runs) /\ OrderedUpTo(disk.entries, runs)
    BY DEF IInv, OrderInv
  <2>2. /\ entries' = Appended(entries, runs + 1, MaxEntries)
        /\ UNCHANGED <<up, pc, snapshot, tmp, disk, loads, owns>>
    BY <1>1 DEF AppendEntry
  <2>3. OnlyEvicted(disk.entries, entries) => OnlyEvicted(disk.entries, entries')
    BY <2>1, <2>2, <1>0, AppendOnlyEvicts
  <2>4. OnlyEvicted(snapshot, entries) => OnlyEvicted(snapshot, entries')
    BY <2>1, <2>2, <1>0, AppendOnlyEvicts
  <2> QED
    BY <2>2, <2>3, <2>4 DEF KeepInv
<1>2. CASE StartFlush
  BY <1>2, <1>0, OnlyEvictedBase DEF StartFlush, KeepInv
<1>3. CASE OpenTemp \/ WriteTemp
  BY <1>3 DEF OpenTemp, WriteTemp, KeepInv
<1>4. CASE RenameTemp
  <2>1. disk'.entries = snapshot /\ OnlyEvicted(snapshot, entries)
    BY <1>4 DEF RenameTemp, KeepInv, IInv, RenameInv, Whole
  <2> QED
    BY <1>4, <2>1 DEF RenameTemp, KeepInv
<1>5. CASE FlushFails
  BY <1>5 DEF FlushFails, AfterFault, KeepInv
<1>6. CASE Crash
  BY <1>6 DEF Crash, KeepInv
<1>7. CASE Restart
  <2>1. /\ owns' = loads /\ ~ up
        /\ UNCHANGED <<pc, snapshot, disk, loads>>
        /\ loads => entries' = disk.entries
    BY <1>7, RestoredUncut DEF Restart, IInv
  <2> QED
    BY <2>1, <1>0, OnlyEvictedBase DEF KeepInv
<1>8. CASE UNCHANGED vars
  BY <1>8 DEF vars, KeepInv
<1> QED
  BY <1>1, <1>2, <1>3, <1>4, <1>5, <1>6, <1>7, <1>8 DEF Next, FlushStep

\* Only a rename changes the file, and it installs the flush's snapshot.
LEMMA NextOnlyEvicts == IInv /\ KeepInv /\ [Next]_vars => (owns => OnlyEvicted(disk.entries, disk'.entries))
<1> SUFFICES ASSUME IInv, KeepInv, [Next]_vars, owns PROVE OnlyEvicted(disk.entries, disk'.entries)
  OBVIOUS
<1>1. CASE RenameTemp
  BY <1>1 DEF RenameTemp, KeepInv, IInv, RenameInv, Whole
<1>2. CASE ~ RenameTemp
  <2>1. disk' = disk
    BY <1>2 DEF Next, FlushStep, vars, AppendEntry, StartFlush, OpenTemp, WriteTemp,
       FlushFails, Crash, Restart
  <2>2. disk.entries \in Seq(Nat)
    BY DEF IInv, TypeOK, File
  <2> QED
    BY <2>1, <2>2, OnlyEvictedBase
<1> QED
  BY <1>1, <1>2

----------------------------------------------------------------------------
\* The inductive invariant holds of every behaviour.
THEOREM Invariance == Spec => []IInv
<1>1. Init => IInv
  BY InitTypeOK
  DEF Init, IInv, OrderInv, OrderedUpTo, RenameInv, DiskNeverPartial, Missing
<1>2. IInv /\ [Next]_vars => IInv'
  BY NextTypeOK, NextOrderInv, NextRenameInv DEF IInv
<1> QED
  BY <1>1, <1>2, PTL DEF Spec

\* Every variable keeps its type; the list and the file keep their capacity.
THEOREM TypeCorrect == Spec => []TypeOK
<1>1. IInv => TypeOK
  BY DEF IInv
<1> QED
  BY <1>1, Invariance, PTL

\* A reader of the history file never finds part of a list, whatever fails
\* and wherever the process dies (Store.Flush, store.go:151-174).
THEOREM DiskIsWhole == Spec => []DiskNeverPartial
<1>1. IInv => DiskNeverPartial
  BY DEF IInv, RenameInv
<1> QED
  BY <1>1, Invariance, PTL

\* The file lists runs oldest first and none twice, across restarts.
THEOREM DiskIsOrdered == Spec => []DiskOrdered
<1>1. IInv => DiskOrdered
  <2> SUFFICES ASSUME IInv PROVE DiskOrdered
    OBVIOUS
  <2>1. disk.entries \in Seq(Nat)
    BY DEF IInv, TypeOK, File
  <2>2. DOMAIN disk.entries = 1..Len(disk.entries)
    BY <2>1
  <2> QED
    BY <2>2 DEF IInv, OrderInv, OrderedUpTo, DiskOrdered
<1> QED
  BY <1>1, Invariance, PTL

\* Nothing is on disk at first.
LEMMA InitKeepInv == Init => KeepInv
<1> SUFFICES ASSUME Init PROVE KeepInv
  OBVIOUS
<1>1. disk.entries = << >> /\ entries = << >> /\ pc = "wait" /\ owns
  BY DEF Init, Missing
<1>2. OnlyEvicted(disk.entries, entries)
  BY <1>1, EmptyList, OnlyEvictedBase
<1> QED
  BY <1>1, <1>2 DEF KeepInv

\* Whether or not the program calls Load (store.go:176-200): a process loses
\* nothing of a file it has loaded or written but to MaxEntries newer runs,
\* whatever fails and wherever it dies.
THEOREM NothingIsForgotten == Spec => OwnedFileKept
<1>1. Init => KeepInv
  BY InitKeepInv
<1>2. IInv /\ KeepInv /\ [Next]_vars => KeepInv'
  BY NextKeepInv
<1>3. IInv /\ KeepInv /\ [Next]_vars => [owns => OnlyEvicted(disk.entries, disk'.entries)]_vars
  BY NextOnlyEvicts
<1> QED
  BY <1>1, <1>2, <1>3, Invariance, PTL DEF Spec, OwnedFileKept

----------------------------------------------------------------------------
(* The refinement of DurableHistory.                                       *)

LEMMA RefineInit == Init => Durable!Init
BY DEF Init, Missing, Durable!Init

\* A run is newer than everything in the list and in the file.
LEMMA RefineAppend == ASSUME IInv, AppendEntry PROVE Durable!Record
<1>1. /\ up /\ runs \in Nat /\ runs + 1 \in 1..MaxRuns
      /\ entries' = Appended(entries, runs + 1, MaxEntries)
      /\ UNCHANGED <<up, pc, snapshot, disk, loads>>
  BY BoundsAssumption DEF AppendEntry, IInv, TypeOK
<1>2. ASSUME NEW list \in Seq(Nat), OrderedUpTo(list, runs)
      PROVE  \A i \in DOMAIN list : list[i] < runs + 1
  <2> SUFFICES ASSUME NEW i \in DOMAIN list PROVE list[i] < runs + 1
    OBVIOUS
  <2>1. i \in 1..Len(list) /\ list[i] \in Nat
    BY <1>2
  <2>2. list[i] <= runs
    BY <1>2, <2>1 DEF OrderedUpTo
  <2> QED
    BY <1>1, <2>1, <2>2
<1>3. /\ entries \in Seq(Nat) /\ OrderedUpTo(entries, runs)
      /\ disk.entries \in Seq(Nat) /\ OrderedUpTo(disk.entries, runs)
  BY DEF IInv, TypeOK, File, OrderInv
<1>4. \A i \in DOMAIN entries : entries[i] < runs + 1
  BY <1>2, <1>3
<1>5. \A i \in DOMAIN disk.entries : disk.entries[i] < runs + 1
  BY <1>2, <1>3
<1>6. entries' = Durable!Appended(entries, runs + 1, MaxEntries)
  BY <1>1 DEF Appended, Capped, Durable!Appended, Durable!Capped
<1>7. UNCHANGED <<IF pc = "wait" THEN {} ELSE {snapshot}, disk.entries>>
  BY <1>1
<1> QED
  BY <1>1, <1>4, <1>5, <1>6, <1>7 DEF Durable!Record

\* The rename installs what the list was when the flush began.
LEMMA RefineRename == ASSUME IInv, RenameTemp PROVE Durable!Commit
<1>1. /\ up /\ pc = "rename" /\ pc' = "wait" /\ disk' = tmp
      /\ UNCHANGED <<up, entries, snapshot, loads>>
  BY DEF RenameTemp
<1>2. disk'.entries = snapshot
  BY <1>1 DEF IInv, RenameInv, Whole
<1> QED
  BY <1>1, <1>2 DEF Durable!Commit

\* Every step is one of the abstract history's, or changes nothing of it: the
\* temporary file is opened and written unseen, and what a process starts from
\* is what the crash of the last one left.
LEMMA RefineStep == IInv /\ [Next]_vars => [Durable!Next]_(Durable!vars)
<1> SUFFICES ASSUME IInv, [Next]_vars PROVE [Durable!Next]_(Durable!vars)
  OBVIOUS
<1>1. CASE AppendEntry
  BY <1>1, RefineAppend DEF Durable!Next
<1>2. CASE StartFlush
  BY <1>2 DEF StartFlush, Durable!Next, Durable!Begin
<1>3. CASE OpenTemp \/ WriteTemp
  <2>1. /\ pc # "wait" /\ pc' # "wait"
        /\ UNCHANGED <<up, entries, snapshot, disk, loads>>
    BY <1>3 DEF OpenTemp, WriteTemp
  <2> QED
    BY <2>1 DEF Durable!vars
<1>4. CASE RenameTemp
  BY <1>4, RefineRename DEF Durable!Next
<1>5. CASE FlushFails
  BY <1>5 DEF FlushFails, AfterFault, Durable!Next, Durable!Abort
<1>6. CASE Crash
  BY <1>6 DEF Crash, Durable!Next, Durable!Crash
<1>7. CASE Restart
  <2>1. /\ entries' = IF loads THEN disk.entries ELSE << >>
        /\ ~ up /\ up' = TRUE
        /\ UNCHANGED <<pc, snapshot, disk, loads>>
    BY <1>7, RestoredUncut DEF Restart, IInv
  <2> QED
    BY <2>1 DEF Durable!vars
<1>8. CASE UNCHANGED vars
  BY <1>8 DEF vars, Durable!vars
<1> QED
  BY <1>1, <1>2, <1>3, <1>4, <1>5, <1>6, <1>7, <1>8 DEF Next, FlushStep

\* The store is a durable history: each flush takes effect in one step or not
\* at all, and a crash loses what was recorded since the last flush and nothing
\* else if the program calls Load, and the whole list in memory if it does not.
THEOREM Refinement == Spec => ImplementsDurableHistory
BY RefineInit, RefineStep, Invariance, PTL DEF Spec, ImplementsDurableHistory, Durable!Spec
=============================================================================
