CONSTANTS
    m0 = m0
    m1 = m1
    mbad = mbad
    mce = mce
    mlegacy = mlegacy
    None = None
    ParseError = ParseError
    Spaces <- MCSpaces
    Vals <- MCVals
    DefaultSpace = "l2"
    DefaultVal = 0
    HnswParams <- MCHnswParams
    HnswUpdatable <- MCHnswUpdatable
    SpannParams <- MCSpannParams
    SpannUpdatable <- MCSpannParams
    EmbeddingFunctions <- MCEmbeddingFunctions
    Metadatas <- MCMetadatas
    LegacyHnsw <- MCLegacyHnsw
    MaxUpdates = 3

SPECIFICATION Spec

INVARIANTS
    SpaceFixedAtCreation
    StoredHonoursLastWrite
    ExportRoundTrips
    ConfigUnitTestsHold

PROPERTIES
    KindNeverChanges

CHECK_DEADLOCK FALSE
