CONSTANTS
    NoPolicy = NoPolicy
    Never = Never
    NoVersion = NoVersion
    v1 = v1
    v2 = v2
    MaxPolicies = 2
    Pool <- MCPool
    Version = {v1, v2}
    Metas <- MCMetas
    MaxTime = 2
    Budget <- MCBudget
SPECIFICATION Spec
INVARIANTS
    StatusAccurate
    StatusInv
CHECK_DEADLOCK FALSE
SYMMETRY Keys
