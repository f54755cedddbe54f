\* Questions around the boundaries of the functions without state.
CONSTANTS
    Configs <- MCConfigs
    Mentions <- MCMentions
    Contents <- MCContents
    Tables <- MCTables
    Addresses <- MCAddresses
    Signatures <- MCSignatures
    PublicKeys <- MCPublicKeys
    Points <- MCPoints
    Activities <- MCActivities
    Key = {"k1", "k2"}
    Message = {"m1", "m2"}
    ED448_PK_LEN = 1
    ED448_SIG_LEN = 2
    DIL5_PK_LEN = 2
    DIL5_SIG_LEN = 3
SPECIFICATION Spec
INVARIANTS
    OnlySelfPingsAreBlocked
    HashTellsRecordsApart
    
    HybridNeedsBoth
    LevelsAreEarned
