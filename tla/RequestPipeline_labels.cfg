SPECIFICATION Spec
CONSTANTS
    Client = {c1}
    Request = {r1}
    Bucket = {b1}
    Nobody = Nobody
    NoBucket = NoBucket
    Burst = 1
    Cost = 1
    Refill = 1
    IdleTimeout = 2
    CleanupInterval = 1
    MaxStall = 1
    Path <- MCPath
    PublicPath <- MCPublicPath
    Duration = {5000, 40000}
    AuthEnabled = TRUE
    WriteTimeout = 10000
INVARIANT EachBoundItsOwnSeries
