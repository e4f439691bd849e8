SPECIFICATION FairSpec
CONSTANTS
    Revs <- OneRev
    NoRev = ""
    Sums <- OneSums
    NoSum = "none"
    Kinds <- TwoKinds
    Stamps <- OneStamp
    HasHealthChecks = FALSE
    Objs <- TwoObjs
    ClusterKinds = {}
    KindOf <- TwoKindOf
    Requires <- Free
    Lingering = {}
    Immutable = {}
    DefinedBy <- Builtin
    Manifest <- OneManifest
    Sum <- OneSum
    Rank <- TwoRank
    Preexisting = {}
    Validations = {TRUE}
    ForceCreate = FALSE
    Lag = TRUE
    Budget <- StaleEdits
    MaxEvents = 3
PROPERTY DeletionCompletes
PROPERTY AppliesUnderFinalizer
PROPERTY FinalizerHeldUntilPruned
PROPERTY KeepsPromise
CHECK_DEADLOCK FALSE
