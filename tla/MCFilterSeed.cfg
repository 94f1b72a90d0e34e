CONSTANTS
    pcat = pcat
    pdog = pdog
    NoValue = NoValue
    Keys <- SeedKeys
    MetaValues <- SeedMetaValues
    Uids <- SeedUids
    Docs <- SeedDocs
    Patterns <- SeedPatterns
    SegOffsets <- SeedSegOffsets
    NewOffsets <- SeedNewOffsets
    DocContains <- SeedDocContains
    RegexMatches <- SeedNoRegex
    ValidRegex = {}
    NgramHits <- SeedNgramHits
    ExactRegex <- SeedExactRegex
    VariantRank <- SeedVariantRank
    Clauses <- SeedClauses
    QueryIdSets <- SeedQueryIdSets
    U32Bits = 8
    F32Step = 4
    LookupRatio = 10
    MissingIndexes = FALSE
    Segments <- SeedSegments
    LogsOver <- SeedLogsOver

SPECIFICATION SeedSpec

INVARIANTS
    SeedOutputsMatchTests

PROPERTIES
    FilterRefinesSpec

CHECK_DEADLOCK FALSE
