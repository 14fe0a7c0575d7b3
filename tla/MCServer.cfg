SPECIFICATION ServerSpec
CONSTANTS
    Nobody = Nobody
    NoFile = NoFile
    NoSum = NoSum
    Flags <- MCFlags
    Credential <- MCCredential
    BindingSets <- MCBindingSets
    Wants <- MCWants
    Versions0 <- MCVersions
    Files0 <- MCFiles
    Rewrites <- MCRewrites
    MaxChanges = 4
    MaxFaults = 1
INVARIANTS DeliveredOrRaced CountedOnce MirrorAgrees
PROPERTY Served
