SPECIFICATION OpsSpec
CONSTANTS
    Revs <- TwoRevs
    NoRev = ""
    Sums <- TwoSums
    NoSum = "none"
    Kinds <- NsKinds
    Stamps <- OneStamp
    HasHealthChecks = TRUE
    Objs <- NsObjs
    ClusterKinds = {"N"}
    KindOf <- NsKindOf
    Requires <- NsRequires
    Lingering = {}
    Immutable = {}
    DefinedBy <- CrdDefines
    Manifest <- CrdManifest
    Sum <- TwoSum
    Rank <- NsRank
    Preexisting = {}
    Validations = {TRUE}
    ForceCreate = FALSE
    Lag = FALSE
    Budget <- OpsBudget
    MaxEvents = 3
    Checked = {"n", "a"}
    Identity = "kubeconfig"
    MaxRequests = 1
INVARIANT OpsTypeOK
INVARIANT ReadyMeansInstalled
INVARIANT NoReadyWhileApplying
PROPERTY FinalizerHeldUntilPruned
PROPERTY HealthyMeansCurrent
INVARIANT UnansweredUntried
CHECK_DEADLOCK FALSE
