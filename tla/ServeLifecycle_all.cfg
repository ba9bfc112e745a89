SPECIFICATION Spec
CONSTANTS
    Client = {c1, c2}
    Files <- MCFiles
    Environments <- MCEnvironments
    Flags <- MCFlags
    ServeFlags <- MCServeFlags
INVARIANTS TypeOK PrecedenceKept OnlyServeFlagsEscape GracefulLosesNothing
PROPERTIES SignalEndsProcess FailureEndsProcess StartsServingInMemory WatchRefreshes
CHECK_DEADLOCK FALSE
