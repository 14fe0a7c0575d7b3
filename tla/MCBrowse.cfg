SPECIFICATION BrowseSpec
CONSTANTS
    Nobody = Nobody
    None = None
    DefaultPageSize = 3
    MaxPageSize = 4
    PopularLimit = 1
    Flags <- MCFlags
    Credentials <- MCCredentials
    Bindings <- MCBindings
    Cluster0 <- MCCluster
    Scans <- MCScans
    Fresh <- MCFresh
    EditBudget = 3
INVARIANTS LabelsRespected BadgeAgrees StatsAddUp  AssemblyAgrees
