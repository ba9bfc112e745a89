SPECIFICATION Spec
CONSTANTS
    Request = {r1, r2}
    Nobody = Nobody
    NumProbes = 1
    Outcome = {"pass"}
    TTL = 1
    MaxEntries = 1
    GlobalTimeout = FALSE
    MaxClock = 1
    MaxDisturbed = 1
INVARIANT TimedOutMeansDeadline
CHECK_DEADLOCK FALSE
