\* The last page is dropped and another one reindexed during a search.
SPECIFICATION SearchSpec
CONSTANTS
    Pages = {1, 2, 3}
    Writers = {"sync"}
    Sections <- TwoBodies
    Batch = 1
    StaleLimit = 1
    Skipped = {}
    MaxEdits <- FirstTwice
    MaxId = 5
    MaxFaults = 0
    Deletable = {3}
    Returning = {}
    RrfK = 60
    VectorWeight = 100
    KeywordWeight = 20
    LiteralWeight = 100
    Oversample = 2
    MaxScan = 100
    DefaultLimit = 10
    MinCandidates = 40
    RelatedLimit = 10
    RelatedScan = 4
    Scale = 714798
    Queries <- PlainQuery
    Models = {TRUE, FALSE}
    Relations <- Links
    Layouts <- LastShort
INVARIANTS
    ResultShowsItsPage
CHECK_DEADLOCK FALSE
