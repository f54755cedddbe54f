\* Concurrent sessions of two users over an unreliable connection.
CONSTANTS
    User = {u1, u2}
    Identity = {i1, i2}
    RecordId = {k1, k2}
    Call = {c1, c2}
    Session = {s1, s2}
    FreshDatabase = FALSE
    DatabaseFails = TRUE
    Restarts = FALSE
    Unreliable = TRUE
    MaxVisits = 3
    MaxCalls = 3
SPECIFICATION SSpec
SYMMETRY Interchangeable
INVARIANTS
    STypeOK
    ConsentWasGiven
    LastSaveIsStored
CHECK_DEADLOCK FALSE
