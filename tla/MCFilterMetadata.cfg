CONSTANTS
    u1 = u1
    u2 = u2
    d1 = d1
    d2 = d2
    p1 = p1
    p2 = p2
    p3 = p3
    pbad = pbad
    NoValue = NoValue
    Keys <- MCKeys
    MetaValues <- MCMetaValues
    Uids <- MCUids
    Docs <- MCOneDoc
    Patterns <- MCPatterns
    SegOffsets <- MCSegOffsets
    NewOffsets <- MCNewOffsets
    DocContains <- MCDocContains
    RegexMatches <- MCRegexMatches
    ValidRegex <- MCValidRegex
    NgramHits <- MCNgramHits
    ExactRegex <- MCExactRegex
    VariantRank <- MCVariantRank
    Clauses <- MCMetadataClauses
    QueryIdSets <- MCQueryIdSets
    U32Bits = 8
    F32Step = 4
    LookupRatio = 1
    MissingIndexes = FALSE

SPECIFICATION Spec

INVARIANTS
    NoStaleDuplicate

PROPERTIES
    FilterRefinesSpec

CHECK_DEADLOCK FALSE
