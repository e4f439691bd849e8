SPECIFICATION FairSpec
CONSTANTS
    Revs <- TwoRevs
    NoRev = ""
    Sums <- TwoSums
    NoSum = "none"
    Kinds <- NsKinds
    Stamps <- OneStamp
    HasHealthChecks = FALSE
    Objs <- NsObjs
    ClusterKinds = {"N", "A"}
    KindOf <- NsKindOf
    Requires <- NsRequires
    Lingering = {}
    Immutable = {}
    DefinedBy <- CrdDefines
    Manifest <- CrdManifest
    Sum <- TwoSum
    Rank <- NsRank
    Preexisting = {}
    Validations = {TRUE}
    ForceCreate = FALSE
    Lag = FALSE
    Budget <- CalmBudget
    MaxEvents = 3
PROPERTY DeletionCompletes
CHECK_DEADLOCK FALSE
