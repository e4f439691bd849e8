SPECIFICATION Spec
CONSTANTS
    Registered <- AllRegistered
    SchemeDefaults <- NoSchemeDefaults
    HashRank <- Hash
    Configs <- KindConfigs
    Edits <- KindEdits
    ServerDefaults <- KindDefaults
    MaxRevisions = 2
    MaxEdits = 2
INVARIANT TypeOK
INVARIANT UpToDateMeansApplied
INVARIANT SettlesUnlessFilledIn
