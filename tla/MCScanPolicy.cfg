CONSTANTS
    NoPolicy = NoPolicy
    Never = Never
    MaxTime = 3
    MaxPolicies = 4
    Pool <- MCPool
    Versions <- MCVersions
    FindingLists <- MCFindings
    ScanTypes <- MCScanTypes
SPECIFICATION Spec
INVARIANTS
    OrderIndependent
    StableUntilExpiry
PROPERTIES
    InvalidSelectorInert
    LowerPriorityShadowed
