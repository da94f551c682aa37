\* A search over three pages, one of which is trashed and dropped, or over one and
\* another that is indexed meanwhile; a statement fails or the daemon restarts once.
SPECIFICATION SearchSpec
CONSTANTS
    Pages = {1, 2, 3}
    Writers = {"sync"}
    Sections <- TwoBodies
    Batch = 1
    StaleLimit = 1
    Skipped = {}
    MaxEdits <- NoEdits
    MaxId = 5
    MaxFaults = 1
    Deletable = {1}
    Returning = {}
    RrfK = 60
    VectorWeight = 100
    KeywordWeight = 20
    LiteralWeight = 100
    Oversample = 2
    MaxScan = 100
    DefaultLimit = 10
    MinCandidates = 40
    RelatedLimit = 10
    RelatedScan = 4
    Scale = 714798
    Queries <- SomeQueries
    Models = {TRUE, FALSE}
    Relations <- Links
    Layouts <- SomeLayouts
INVARIANTS
    NoPageCrowdedOut
    AheadInBothIsAhead
    OneBestChunkPerPage
    DroppedIsNotFound
CHECK_DEADLOCK FALSE
