SPECIFICATION ApiSpec
CONSTANTS
    Nobody = Nobody
    Callers = {ann, bob}
    Credential <- MCCredential
    FlagSets <- MCFlagSets
    Namespaces = {"team"}
    Names = {"p"}
    Specs <- MCSpecs
    Resources <- MCResources
    BindingSets <- MCBindingSets
    MaxVersion = 3
    MaxOther = 1
SYMMETRY Users
INVARIANT CatalogHonest
PROPERTIES NoLostEdit ScopedWrites
