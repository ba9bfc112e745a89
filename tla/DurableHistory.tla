--------------------------- MODULE DurableHistory ---------------------------
(***************************************************************************)
(* What a run history with a file is for: a capped list that is recorded   *)
(* to, a saved list that is replaced as a whole by what the list was at    *)
(* one moment, and a crash that sets the list back to the saved one, or to *)
(* nothing in a program that does not recover it.  There is no temporary   *)
(* file, nothing is ever half done, and recovery takes no time.  A run is  *)
(* its ordinal.                                                            *)
(***************************************************************************)
EXTENDS HistoryEntries

CONSTANTS Run, Capacity

VARIABLES
    recovers,   \* the program goes on from the saved list after a crash
    log,        \* the list, oldest run first
    saving,     \* the list a save in progress will install, if there is one
    saved       \* the list that survives

vars == <<recovers, log, saving, saved>>

Init ==
    /\ recovers \in BOOLEAN
    /\ log = << >>
    /\ saving = {}
    /\ saved = << >>

\* A run is recorded that is newer than all others.
Record ==
    /\ \E run \in Run :
         /\ \A i \in DOMAIN log : log[i] < run
         /\ \A i \in DOMAIN saved : saved[i] < run
         /\ log' = Appended(log, run, Capacity)
    /\ UNCHANGED <<recovers, saving, saved>>

Begin ==
    /\ saving = {}
    /\ saving' = {log}
    /\ UNCHANGED <<recovers, log, saved>>

Commit ==
    /\ saved' \in saving
    /\ saving' = {}
    /\ UNCHANGED <<recovers, log>>

Abort ==
    /\ saving # {}
    /\ saving' = {}
    /\ UNCHANGED <<recovers, log, saved>>

Crash ==
    /\ log' = IF recovers THEN saved ELSE << >>
    /\ saving' = {}
    /\ UNCHANGED <<recovers, saved>>

Next == Record \/ Begin \/ Commit \/ Abort \/ Crash

Spec == Init /\ [][Next]_vars
=============================================================================
