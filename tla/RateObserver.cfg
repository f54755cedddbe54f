\* Two concurrent requests, with and without a source: bursts, cooldowns and the
\* eviction of buckets, and an observer that counts what the address and the
\* source get in an interval.
CONSTANTS
    Minute = 2
    Window = 1
    BurstFactor = 3
    IP = {i1}
    Url <- OneUrl
    Source <- OneSource
    SourceOf <- OneSourceOf
    Request = {r1, r2}
    MaxRate = 4
    MaxRatePerSource = 1
    Cooldown = 1
    Stale = 2
    MaxTime = 3
    MaxStart = 1
    Second = 1
SPECIFICATION OSpec
SYMMETRY RequestSymmetry
INVARIANTS
    RateIsBounded
    RetryAfterNearlySuffices
PROPERTIES
    IpsAreBurstLimited
    SourcesAreLimited
