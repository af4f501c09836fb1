CONSTANTS
    p1 = p1
    p2 = p2
    Parsers = {p1, p2}
    NoParser = NoParser
    None = None
    BatchLen <- MCBatchLen
    Kinds <- MCKinds
    MaxInput = 4
    EmbedBatchSize = 2
    UpsertBatchSize = 3
    MaxRunes = 5
    Files <- MCFiles
    SortedPaths <- MCSortedPaths
    ImportsOf <- MCImportsOf
    Versions <- MCVersions
    MaxVersion = 2
    GoModules = {"", "m"}
    MaxPushes = 2
SPECIFICATION Spec
INVARIANTS PoolInv ResultsComplete ChunksInv VectorsMatch TargetsInv
PROPERTY BatchesReturn
CHECK_DEADLOCK FALSE
