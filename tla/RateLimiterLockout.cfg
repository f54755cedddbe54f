\* The threat model: a lockout after burst detection.
CONSTANTS
    Minute = 3
    Window = 2
    BurstFactor = 3
    IP = {i1}
    Url <- NoUrls
    Source <- NoSources
    SourceOf <- NoSourceOf
    Request = {r1, r2}
    MaxRate = 5
    MaxRatePerSource = 1
    Cooldown = 3
    Stale = 3
    MaxTime = 6
SPECIFICATION Spec
PROPERTIES
    LockoutRefuses
