CONSTANTS
    NoPolicy = NoPolicy
    Never = Never
    Nil = Nil
    Torn = Torn
    m1 = m1
    p1 = p1
    p2 = p2
    c1 = c1
    c2 = c2
    Version <- OneProvider
    Meta <- MCMeta
    Immutable = {}
    File = {f1, f2, f3}
    Checksum = {c1}
    BinaryFindings <- MCFindings
    SourceFindings <- Clean
    PolicyLists <- EditedPolicies
    ScanningEnabled = TRUE
    ScanModules = FALSE
    BlockOnCritical = TRUE
    BlockOnHigh = FALSE
    MaxConcurrentReconciles = 4
    MaxTime = 1
    QuickScan = TRUE
    Budget <- Enforcement
SPECIFICATION FairSpec
PROPERTIES
    PolicyEnforced
    PolicyRelaxed
    DeletionCompletes
CHECK_DEADLOCK FALSE
