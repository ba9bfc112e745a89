SPECIFICATION Spec
CONSTANTS
    Request = {r1, r2, r3}
    Nobody = Nobody
    NumProbes = 2
    Outcome = {"pass"}
    TTL = 1
    MaxEntries = 2
    GlobalTimeout = TRUE
    MaxClock = 2
    MaxDisturbed = 1
SYMMETRY Symmetry
INVARIANTS TypeOK NoWastedRun AnswerNotStale HistoryOrdered EvidenceAgrees
CHECK_DEADLOCK FALSE
