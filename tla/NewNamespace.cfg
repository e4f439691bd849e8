SPECIFICATION FairSpec
CONSTANTS
    Revs <- TwoRevs
    NoRev = ""
    Sums <- TwoSums
    NoSum = "none"
    Kinds <- NsKinds
    Stamps <- OneStamp
    HasHealthChecks = FALSE
    Objs <- NsObjs
    ClusterKinds = {"N"}
    KindOf <- NsKindOf
    Requires <- NsRequires
    Lingering = {}
    Immutable = {}
    DefinedBy <- NsBuiltin
    Manifest <- NsManifest
    Sum <- TwoSum
    Rank <- NsRank
    Preexisting = {}
    Validations = {TRUE}
    ForceCreate = FALSE
    Lag = FALSE
    Budget <- CalmBudget
    MaxEvents = 3
PROPERTY Converges
CHECK_DEADLOCK FALSE
