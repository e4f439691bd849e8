SPECIFICATION Spec
CONSTANTS
    Revs = {"r1"}
    NoRev = ""
    Sums = {"s"}
    NoSum = "none"
    Kinds = {}
    Stamps = {0}
    HasHealthChecks = FALSE
    Konfigs <- ChainKonfigs
    DependsOn <- ChainDependsOn
    MaxConcurrent = 2
    Trailing = {"base"}
    Budget <- ChainBudget
INVARIANT TypeOK
INVARIANT DependenciesFirst
INVARIANT NeverForgotten
INVARIANT OnePassPerKey
CHECK_DEADLOCK FALSE
