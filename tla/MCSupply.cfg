SPECIFICATION SupplySpec
CONSTANTS
    vpc = vpc
    aws = aws
    linux = linux
    darwin = darwin
    Unset = Unset
    Module = {vpc}
    Provider = {aws}
    Platform = {linux, darwin}
    Tag <- MCTag
    TagNumber <- MCNumber
    PageSize = 3
    DepotSpecs <- MCSpecs
    Depot0 <- MCDepot
    Releases0 <- MCReleases
    Upcoming <- MCUpcoming
    Polling = TRUE
    DepotBudget <- MCBudget
    LabelOf <- MCLabel
    PatientOperator = FALSE
INVARIANTS DepotApplied NothingStale VersionsMatchProvider
PROPERTIES NewestKept ReleaseArrives
CHECK_DEADLOCK FALSE
