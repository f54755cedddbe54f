\* A new database, a connection that may fail, restarts.
CONSTANTS
    Identity = {i1}
    RecordId = {k1, k2, k3}
    Call = {c1, c2, c3}
    FreshDatabase = TRUE
    DatabaseFails = TRUE
    Restarts = TRUE
    MaxCalls = 5
SPECIFICATION Spec
SYMMETRY Interchangeable
INVARIANTS
    TypeOK
    OneInitialiser
    DuplicatesOverlapped
    ConflictHasRival
    AcknowledgedUnlessRevoked
