SPECIFICATION Spec
CONSTANTS
    Caller = {c1, c2}
    Nobody = Nobody
    TTL = 3
    HTTPTimeout = 2
    MaxClock = 7
    MaxRevocations = 2
    MaxFailures = 2
INVARIANTS TypeOK RefusedOnlyIfRevoked OneFetchAtATime
PROPERTY CallReturns
CHECK_DEADLOCK FALSE
