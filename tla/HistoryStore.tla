---------------------------- MODULE HistoryStore ----------------------------
(***************************************************************************)
(* The run history and its file (internal/history/store.go): requests      *)
(* append entries while Start's loop flushes the list through a temporary  *)
(* file; writes and renames may fail, and the process may die at any       *)
(* statement and come back, with or without loading the file.              *)
(*                                                                         *)
(* An entry is the ordinal of its run: nothing here depends on the rest.   *)
(***************************************************************************)
EXTENDS HistoryEntries

CONSTANTS
    MaxEntries,   \* Options.MaxEntries
    MaxRuns,      \* bound: runs ever appended
    MaxFaults     \* bound: failed writes and renames, and crashes

ASSUME MaxEntriesAssumption == MaxEntries \in Nat \ {0}
ASSUME BoundsAssumption == MaxRuns \in Nat /\ MaxFaults \in Nat

VARIABLES
    up,         \* the process is running, past New and Load
    entries,    \* Store.entries
    runs,       \* how many runs were ever appended
    pc,         \* the flush loop: "wait" in select, "open", "write", "rename"
    snapshot,   \* Flush's copy of the list
    tmp,        \* diskPath + ".tmp"
    disk,       \* diskPath
    faults,     \* bound counter
    loads,      \* the program calls Load when it starts, as Load's comment
                \* has it; no command of the binary does
    owns        \* (history variable) diskPath is missing, or holds what this
                \* process has loaded or written

vars == <<up, entries, runs, pc, snapshot, tmp, disk, faults, loads, owns>>

\* A file is missing, holds a whole JSON list, or only part of one.
File == [state : {"missing", "whole", "partial"}, entries : Seq(Nat)]
Missing == [state |-> "missing", entries |-> << >>]
Partial == [state |-> "partial", entries |-> << >>]
Whole(list) == [state |-> "whole", entries |-> list]

Init ==
    /\ up = TRUE
    /\ entries = << >>
    /\ runs = 0
    /\ pc = "wait"
    /\ snapshot = << >>
    /\ tmp = Missing
    /\ disk = Missing
    /\ faults = 0
    /\ loads \in BOOLEAN
    /\ owns = TRUE

----------------------------------------------------------------------------
AppendEntry ==
    /\ up
    /\ runs < MaxRuns
    /\ runs' = runs + 1
    /\ entries' = Appended(entries, runs + 1, MaxEntries)
    /\ UNCHANGED <<up, pc, snapshot, tmp, disk, faults, loads, owns>>

\* The ticker fires: Flush copies the list under the read lock.
StartFlush ==
    /\ up
    /\ pc = "wait"
    /\ snapshot' = entries
    /\ pc' = "open"
    /\ UNCHANGED <<up, entries, runs, tmp, disk, faults, loads, owns>>

\* os.WriteFile opens the temporary file and truncates it ...
OpenTemp ==
    /\ up
    /\ pc = "open"
    /\ tmp' = Partial
    /\ pc' = "write"
    /\ UNCHANGED <<up, entries, runs, snapshot, disk, faults, loads, owns>>

\* ... and writes the list.
WriteTemp ==
    /\ up
    /\ pc = "write"
    /\ tmp' = Whole(snapshot)
    /\ pc' = "rename"
    /\ UNCHANGED <<up, entries, runs, snapshot, disk, faults, loads, owns>>

RenameTemp ==
    /\ up
    /\ pc = "rename"
    /\ disk' = tmp
    /\ tmp' = Missing
    /\ pc' = "wait"
    /\ owns' = TRUE
    /\ UNCHANGED <<up, entries, runs, snapshot, faults, loads>>

\* Mutants: a failed write is not noticed and the rename follows; the loop
\* returns when a flush fails.
AfterFault_Renames == "rename"
AfterFault_LoopEnds == "returned"

\* Flush returns the error, Start drops it and waits for the next tick.
AfterFault == "wait"

\* The open, the write (which leaves part of the list) or the rename fails.
FlushFails ==
    /\ up
    /\ pc \in {"open", "write", "rename"}
    /\ faults < MaxFaults
    /\ faults' = faults + 1
    /\ pc' = AfterFault
    /\ UNCHANGED <<up, entries, runs, snapshot, tmp, disk, loads, owns>>

\* The process dies between any two statements; the files stay.
Crash ==
    /\ up
    /\ faults < MaxFaults
    /\ faults' = faults + 1
    /\ up' = FALSE
    /\ entries' = << >>
    /\ pc' = "wait"
    /\ snapshot' = << >>
    /\ UNCHANGED <<runs, tmp, disk, loads, owns>>

\* Mutant: the restored list is not used.
Restored_Nothing == << >>

\* What Load restores: the file's list, capped, or nothing when it is missing.
Restored == IF loads THEN Capped(disk.entries, MaxEntries) ELSE << >>

\* New, then Load if the program calls it: then a partial file is an error
\* and the process does not start.
Restart ==
    /\ ~ up
    /\ loads => disk.state # "partial"
    /\ up' = TRUE
    /\ entries' = Restored
    /\ owns' = loads
    /\ UNCHANGED <<runs, pc, snapshot, tmp, disk, faults, loads>>

FlushStep == OpenTemp \/ WriteTemp \/ RenameTemp

Next == AppendEntry \/ StartFlush \/ FlushStep \/ FlushFails \/ Crash \/ Restart

\* The ticker keeps firing, a flush in progress goes on, and whoever
\* supervises the process starts it again.
Fairness == WF_vars(StartFlush) /\ WF_vars(FlushStep) /\ WF_vars(Restart)

Spec == Init /\ [][Next]_vars /\ Fairness

----------------------------------------------------------------------------
\* Everything has its type; the list and the file stay within the capacity
\* ("The capped list bounds the file size", store.go:153).
TypeOK ==
    /\ up \in BOOLEAN
    /\ runs \in Nat /\ faults \in Nat
    /\ entries \in Seq(Nat) /\ Len(entries) <= MaxEntries
    /\ snapshot \in Seq(Nat) /\ Len(snapshot) <= MaxEntries
    /\ pc \in {"wait", "open", "write", "rename"}
    /\ tmp \in File /\ Len(tmp.entries) <= MaxEntries
    /\ disk \in File /\ Len(disk.entries) <= MaxEntries
    /\ loads \in BOOLEAN /\ owns \in BOOLEAN

\* Readers of the file never see part of a list (store.go:151-153), whatever
\* fails and wherever the process dies.
DiskNeverPartial == disk.state # "partial"

Newest(list) == IF list = << >> THEN 0 ELSE list[Len(list)]

\* Each entry of a list is in the later one, unless that one is full of newer
\* entries.
OnlyEvicted(list, later) ==
    \A i \in DOMAIN list :
        \/ \E j \in DOMAIN later : later[j] = list[i]
        \/ Len(later) = MaxEntries /\ \A j \in DOMAIN later : later[j] > list[i]

\* "Optional atomic disk persistence" (README.md:68): once on disk, an entry
\* leaves the file only because MaxEntries newer ones replaced it, across
\* failures and restarts.
OnlyEvictionForgets == [][OnlyEvicted(disk.entries, disk'.entries)]_vars

\* What the store keeps of that for any program, whether or not it calls Load:
\* once a process has loaded the file or written it ("Load restores entries
\* from the disk file", store.go:176; Flush, store.go:151-174), an entry leaves
\* the file only because MaxEntries newer ones replaced it, whatever is
\* appended during a flush, fails or dies.  All that is lost otherwise is lost
\* at once, by the first flush of a process that has not called Load.
OwnedFileKept == [][owns => OnlyEvicted(disk.entries, disk'.entries)]_vars

\* The file lists runs oldest first, none twice.
DiskOrdered ==
    \A i, j \in DOMAIN disk.entries : i < j => disk.entries[i] < disk.entries[j]

\* A recorded run reaches the file, or a newer one does, unless the process
\* dies first.
EventuallyOnDisk ==
    \A n \in 1..MaxRuns :
        up /\ Newest(entries) >= n ~> ~ up \/ Newest(disk.entries) >= n

\* What the store is for, seen from outside: the list of a process that is
\* down is the one the next will start from, and a flush in progress stands
\* for the list it copied, whatever it has written of it so far.
Durable == INSTANCE DurableHistory WITH
    Run      <- 1..MaxRuns,
    Capacity <- MaxEntries,
    recovers <- loads,
    log      <- IF up THEN entries ELSE IF loads THEN disk.entries ELSE << >>,
    saving   <- IF pc = "wait" THEN {} ELSE {snapshot},
    saved    <- disk.entries

\* Statement by statement, with its failures and wherever the process dies, a
\* flush takes effect at once or not at all ("so readers never observe a
\* partially written file", store.go:151-153), and a restart goes on from the
\* last flush that did if the program calls Load (store.go:176), and from
\* nothing if it does not, as in the commands.
ImplementsDurableHistory == Durable!Spec

----------------------------------------------------------------------------
(* The inductive invariant behind the safety properties, in named parts.   *)

\* A list of runs in order, none after the n-th.
OrderedUpTo(list, n) ==
    /\ \A i \in 1..Len(list) : list[i] <= n
    /\ \A i, j \in 1..Len(list) : i < j => list[i] < list[j]

\* Every list in the store, or on its way to the file, is one.
OrderInv ==
    /\ OrderedUpTo(entries, runs)
    /\ OrderedUpTo(snapshot, runs)
    /\ OrderedUpTo(tmp.entries, runs)
    /\ OrderedUpTo(disk.entries, runs)

\* What is about to be renamed was written whole, from the flush's copy.
RenameInv == DiskNeverPartial /\ (pc = "rename" => tmp = Whole(snapshot))

IInv == TypeOK /\ OrderInv /\ RenameInv

\* A flush in progress is between what the file owes to this process and the
\* list; the file of a program that loads it is always its own.
KeepInv ==
    /\ loads => owns
    /\ owns /\ up => OnlyEvicted(disk.entries, entries)
    /\ pc # "wait" =>
         /\ up
         /\ owns => OnlyEvicted(disk.entries, snapshot)
         /\ OnlyEvicted(snapshot, entries)
=============================================================================
