SPECIFICATION OpsSpec
CONSTANTS
    Revs <- TwoRevs
    NoRev = ""
    Sums <- TwoSums
    NoSum = "none"
    Kinds <- NsKinds
    Stamps <- OneStamp
    HasHealthChecks = FALSE
    Objs <- NsObjs
    ClusterKinds = {"N"}
    KindOf <- NsKindOf
    Requires <- NsRequires
    Lingering = {}
    Immutable = {}
    DefinedBy <- CrdDefines
    Manifest <- CrdManifest
    Sum <- TwoSum
    Rank <- NsRank
    Preexisting = {}
    Validations = {TRUE}
    ForceCreate = FALSE
    Lag = FALSE
    Budget <- EraseBudget
    MaxEvents = 3
    Checked = {"n", "a"}
    Identity = "own"
    MaxRequests = 1
PROPERTY DryRunSparesSnapshot
CHECK_DEADLOCK FALSE
