SPECIFICATION FairSpec
CONSTANTS
    Konfigs <- TwoKonfigs
    ImportsOf <- TwoImports
    JsonnetPaths <- AppPaths
    JsonnetURLs <- SiteURLs
    SourceFiles <- VendorFile
    EmbeddedAs <- TrimmedNames
    Embedded <- EmbeddedNames
    RemoteFiles <- AllFiles
    Published <- DataFile
    Updated <- OneFile
    Size <- TwoBlocks
    MaxVersion = 2
    MaxFaults = 1
    Values <- TwoValues
    Height <- HeightsOfTwo
    MaxNesting = 3
    Namespaced <- K8sKinds
    KonfigNs = "konfig"
    NameRank <- Ranks
    Document <- TwoDocuments
INVARIANT TypeOK
INVARIANT OneContentPerBuild
INVARIANT EveryImportAnswered
INVARIANT EveryObjectOnce
INVARIANT SnapshotCovers
INVARIANT NeededFirst
PROPERTY SameChecksum
PROPERTY ImportsRecover
CHECK_DEADLOCK FALSE
