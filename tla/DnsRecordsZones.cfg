\* The database's comment: upsert_dnssec_zone creates or updates.
CONSTANTS
    Identity = {i1}
    RecordId = {d1}
    Content <- MCContent
    Valid <- MCValid
    Zone = {z1}
    PublicKey = {k1, k2}
    Call = {c1}
    MaxTx = 0
SPECIFICATION Spec
SYMMETRY CallSymmetry
INVARIANT UpsertedZonesAreFound
