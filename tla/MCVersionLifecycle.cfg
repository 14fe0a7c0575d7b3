CONSTANTS
    NoPolicy = NoPolicy
    Never = Never
    Nil = Nil
    Torn = Torn
    m1 = m1
    p1 = p1
    p2 = p2
    c1 = c1
    c2 = c2
    Version <- OneModule
    Meta <- MCMeta
    Immutable = {m1}
    File = {f1, f2, f3}
    Checksum = {c1, c2}
    BinaryFindings <- Clean
    SourceFindings <- Clean
    PolicyLists <- NoPolicies
    ScanningEnabled = FALSE
    ScanModules = FALSE
    BlockOnCritical = FALSE
    BlockOnHigh = FALSE
    MaxConcurrentReconciles = 1
    MaxTime = 0
    QuickScan = FALSE
    Budget <- Lifecycle
SPECIFICATION Spec
INVARIANTS
    TypeOK
    ArtifactProtected
    OrphansBounded
    SyncedIsStored
PROPERTIES
    VanishesClean
    ImmutableChecksum
    ImplementsLifecycle
CHECK_DEADLOCK FALSE
SYMMETRY Archives
