\* The handlers, the nested locks and the cleanup task, to the end of each request.
CONSTANTS
    Minute = 2
    Window = 2
    BurstFactor = 3
    IP = {i1}
    Url <- OneUrl
    Source <- OneSource
    SourceOf <- OneSourceOf
    Request = {r1, r2}
    MaxRate = 4
    MaxRatePerSource = 1
    Cooldown = 1
    Stale = 2
    MaxTime = 2
SPECIFICATION FairSpec
INVARIANT
    TypeOK
PROPERTY
    RequestsAreAnswered
