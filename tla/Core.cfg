SPECIFICATION FairSpec
CONSTANTS
    Revs <- TwoRevs
    NoRev = ""
    Sums <- TwoSums
    NoSum = "none"
    Kinds <- TwoKinds
    Stamps <- OneStamp
    HasHealthChecks = TRUE
    Objs <- TwoObjs
    ClusterKinds = {}
    KindOf <- TwoKindOf
    Requires <- Free
    Lingering = {"a"}
    Immutable = {"a"}
    DefinedBy <- Builtin
    Manifest <- TwoManifest
    Sum <- TwoSum
    Rank <- TwoRank
    Preexisting = {"b"}
    Validations = {TRUE}
    ForceCreate = TRUE
    Lag = FALSE
    Budget <- CoreBudget
    MaxEvents = 4
PROPERTY Converges
PROPERTY DeletionCompletes
INVARIANT TypeOK
INVARIANT PruneSparesManifest
INVARIANT ReadyMeansRecorded
PROPERTY SnapshotCoversUntilPruned
CHECK_DEADLOCK FALSE
