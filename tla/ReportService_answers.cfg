SPECIFICATION Spec
CONSTANTS
    Request = {r1, r2, r3}
    Nobody = Nobody
    NumProbes = 1
    Outcome = {"pass"}
    TTL = 2
    MaxEntries = 1
    GlobalTimeout = FALSE
    MaxClock = 2
    MaxDisturbed = 0
PROPERTIES ImplementsAtomicReport AllAnswered
CHECK_DEADLOCK FALSE
