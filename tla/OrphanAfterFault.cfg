SPECIFICATION Spec
CONSTANTS
    Revs <- TwoRevs
    NoRev = ""
    Sums <- TwoSums
    NoSum = "none"
    Kinds <- TwoKinds
    Stamps <- OneStamp
    HasHealthChecks = FALSE
    Objs <- TwoObjs
    ClusterKinds = {}
    KindOf <- TwoKindOf
    Requires <- Free
    Lingering = {}
    Immutable = {}
    DefinedBy <- Builtin
    Manifest <- TwoManifest
    Sum <- TwoSum
    Rank <- TwoRank
    Preexisting = {}
    Validations = {TRUE}
    ForceCreate = FALSE
    Lag = FALSE
    Budget <- OneFault
    MaxEvents = 5
INVARIANT ReadyMeansPruned
CHECK_DEADLOCK FALSE
