\* A search that asks for relations, over an index at rest; two pages are not
\* embedded.
SPECIFICATION SearchSpec
CONSTANTS
    Pages = {1, 2, 3}
    Writers = {"sync"}
    Sections <- TwoBodies
    Batch = 1
    StaleLimit = 1
    Skipped = {2, 3}
    MaxEdits <- NoEdits
    MaxId = 5
    MaxFaults = 0
    Deletable = {}
    Returning = {}
    RrfK = 60
    VectorWeight = 100
    KeywordWeight = 20
    LiteralWeight = 100
    Oversample = 2
    MaxScan = 100
    DefaultLimit = 10
    MinCandidates = 40
    RelatedLimit = 10
    RelatedScan = 4
    Scale = 714798
    Queries <- ExpandQuery
    Models = {TRUE, FALSE}
    Relations <- Links
    Layouts <- LastShort
INVARIANTS
    RelatedBelowDirect
CHECK_DEADLOCK FALSE
