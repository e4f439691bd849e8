SPECIFICATION FairSpec
CONSTANTS
    Revs = {"r1"}
    NoRev = ""
    Sums = {"s"}
    NoSum = "none"
    Kinds = {}
    Stamps = {0}
    HasHealthChecks = FALSE
    Konfigs <- KnotKonfigs
    DependsOn <- KnotDependsOn
    MaxConcurrent = 1
    Trailing = {}
    Budget <- KnotBudget
INVARIANT CyclesWait
INVARIANT ReconciledOverReady
PROPERTY Settles
CHECK_DEADLOCK FALSE
