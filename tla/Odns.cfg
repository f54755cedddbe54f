\* Three queries, one of them too long and one malformed, two proxies.
CONSTANTS
    p1 = p1
    p2 = p2
    q1 = q1
    q2 = q2
    q3 = q3
    Proxies <- MCProxies
    Queries <- MCQueries
    Large <- MCSecond
    Malformed <- MCThird
    MaxRotations = 2
    MaxRestarts = 3
SPECIFICATION FairSpec
INVARIANTS
    TypeOK
    RefusedOnlyAfterRotation
PROPERTIES
    QueriesEnd
    RefusalsAreExplained
CHECK_DEADLOCK FALSE
