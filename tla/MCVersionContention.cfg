CONSTANTS
    NoPolicy = NoPolicy
    Never = Never
    Nil = Nil
    Torn = Torn
    m1 = m1
    p1 = p1
    p2 = p2
    c1 = c1
    c2 = c2
    Version <- TwoProviders
    Meta <- MCMeta
    Immutable = {}
    File = {f1, f2, f3, f4}
    Checksum = {c1}
    BinaryFindings <- MCFindings
    SourceFindings <- Clean
    PolicyLists <- OnlyWaived
    ScanningEnabled = TRUE
    ScanModules = FALSE
    BlockOnCritical = TRUE
    BlockOnHigh = FALSE
    MaxConcurrentReconciles = 2
    MaxTime = 0
    QuickScan = TRUE
    Budget <- Contention
SPECIFICATION Spec
INVARIANTS
    IInv
    SafetyInv
    Serialized
    BlockedExplains
CHECK_DEADLOCK FALSE
SYMMETRY Providers
