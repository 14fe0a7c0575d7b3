CONSTANTS
    NoPolicy = NoPolicy
    Never = Never
    Nil = Nil
    Torn = Torn
    m1 = m1
    m2 = m2
    c1 = c1
    Version = {m1, m2}
    Meta <- MCMeta
    Immutable = {}
    File = {f1, f2, f3, f4, f5, f6, f7}
    Checksum = {c1}
    BinaryFindings <- None
    SourceFindings <- None
    PolicyLists <- NoPolicies
    ScanningEnabled = FALSE
    ScanModules = FALSE
    BlockOnCritical = FALSE
    BlockOnHigh = FALSE
    MaxConcurrentReconciles = 4
    MaxTime = 0
    QuickScan = TRUE
    Budget <- OneCrash
    ModuleSpecs <- Lists
    HistoryLimit = 1
    PatientOperator = TRUE
    ModuleBudget <- Edited
SPECIFICATION ModuleSpec
INVARIANTS
    VersionsConverge
    SettledIsServed
    HistoryBounded
CHECK_DEADLOCK FALSE
