\* The log tells the operator to configure the new public key.
CONSTANTS
    p1 = p1
    p2 = p2
    q1 = q1
    q2 = q2
    q3 = q3
    Proxies <- MCProxies
    Queries <- MCTwoQueries
    Large <- MCNone
    Malformed <- MCNone
    MaxRotations = 2
    MaxRestarts = 3
SPECIFICATION Spec
INVARIANT AnnouncedKeyOpens
CHECK_DEADLOCK FALSE
