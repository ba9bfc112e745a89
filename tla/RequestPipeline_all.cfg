SPECIFICATION Spec
CONSTANTS
    Client = {c1, c2}
    Request = {r1, r2, r3}
    Bucket = {b1, b2, b3}
    Nobody = Nobody
    NoBucket = NoBucket
    Burst = 2
    Cost = 3
    Refill = 2
    IdleTimeout = 4
    CleanupInterval = 2
    MaxStall = 1
    Path <- MCPath
    PublicPath <- MCPublicPath
    Duration = {5000, 40000}
    AuthEnabled = TRUE
    WriteTimeout = 10000
SYMMETRY Interchangeable
ACTION_CONSTRAINT TimeWaits
INVARIANTS TypeOK MemoryBounded RetryAfterSuffices CountedAsAnswered HistogramAgrees ThrottledUnlessInfra
PROPERTY ImplementsTokenBucket
