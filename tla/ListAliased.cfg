SPECIFICATION Spec
CONSTANTS
    Konfigs <- OneKonfig
    ImportsOf <- OneImports
    JsonnetPaths <- OnePaths
    JsonnetURLs <- OneURLs
    SourceFiles <- VendorFile
    EmbeddedAs <- TrimmedNames
    Embedded <- EmbeddedNames
    RemoteFiles <- AllFiles
    Published <- OneFile
    Updated <- OneFile
    Size <- TwoBlocks
    MaxVersion = 2
    MaxFaults = 0
    Values <- OneValues
    Height <- HeightsOfOne
    MaxNesting = 3
    Namespaced <- K8sKinds
    KonfigNs = "konfig"
    NameRank <- Ranks
    Document <- ListDocument
INVARIANT EveryObjectRendered
CHECK_DEADLOCK FALSE
