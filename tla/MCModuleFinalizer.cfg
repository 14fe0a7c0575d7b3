CONSTANTS
    NoPolicy = NoPolicy
    Never = Never
    Nil = Nil
    Torn = Torn
    m1 = m1
    m2 = m2
    c1 = c1
    Version = {m1, m2}
    Meta <- MCMeta
    Immutable = {}
    File = {f1, f2, f3, f4, f5, f6, f7}
    Checksum = {c1}
    BinaryFindings <- None
    SourceFindings <- None
    PolicyLists <- NoPolicies
    ScanningEnabled = FALSE
    ScanModules = FALSE
    BlockOnCritical = FALSE
    BlockOnHigh = FALSE
    MaxConcurrentReconciles = 4
    MaxTime = 0
    QuickScan = TRUE
    Budget <- Quiet
    ModuleSpecs <- Swaps
    HistoryLimit = 0
    PatientOperator = TRUE
    ModuleBudget <- ThreeEdits
SPECIFICATION ModuleSpec
INVARIANT
    DeletionCleansUp
CHECK_DEADLOCK FALSE
