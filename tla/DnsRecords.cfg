\* Two concurrent resolvers, anchoring, restarts.
CONSTANTS
    Identity = {i1}
    RecordId = {d1}
    Content <- MCContent
    Valid <- MCValid
    Zone = {z1}
    PublicKey = {k1, k2}
    Call = {c1, c2}
    MaxTx = 2
SPECIFICATION Spec
SYMMETRY CallSymmetry
INVARIANTS
    TypeOK
    ProvenanceIsGenuine
PROPERTIES
    CreatedUnderConsent
    DeletedStaysDeleted
