CONSTANTS
    dm = dm
    dh = dh
    dn = dn
    preg = preg
    NoValue = NoValue
    Keys <- CutoffKeys
    MetaValues = {}
    Uids <- CutoffUids
    Docs <- CutoffDocs
    Patterns <- CutoffPatterns
    SegOffsets <- CutoffSegOffsets
    NewOffsets = {}
    DocContains <- CutoffNoContains
    RegexMatches <- CutoffRegexMatches
    ValidRegex <- CutoffPatterns
    NgramHits <- CutoffNgramHits
    ExactRegex <- CutoffExactRegex
    VariantRank <- CutoffVariantRank
    Clauses <- CutoffClauses
    QueryIdSets = {NoValue}
    U32Bits = 8
    F32Step = 4
    LookupRatio = 10
    MissingIndexes = FALSE
    Segments <- CutoffSegments
    LogsOver <- CutoffLogsOver

SPECIFICATION Spec

PROPERTIES
    FilterRefinesSpec

CHECK_DEADLOCK FALSE
